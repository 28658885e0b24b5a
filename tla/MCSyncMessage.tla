---------------------------- MODULE MCSyncMessage ----------------------------
(***************************************************************************)
(* Instances of SyncMessage: the programs of the processes, and the        *)
(* network simulator that orders the launch requests of a bench.           *)
(***************************************************************************)
EXTENDS SyncMessage

CONSTANTS c1, c2, s1, s2

launch(p) == [op |-> "LAUNCH", peer |-> p, nbytes |-> 1]
waitlaunch(p) == [op |-> "WAITLAUNCH", peer |-> p, nbytes |-> 1]
send(p, n) == [op |-> "SEND", peer |-> p, nbytes |-> n]
receive(p, n) == [op |-> "RECEIVE", peer |-> p, nbytes |-> n]

Program4(a, b, c, d) == [p \in Proc |-> CASE p = c1 -> a [] p = c2 -> b [] p = s1 -> c [] p = s2 -> d]

Repeat(program, n) == [r \in 1..n |-> program]

Session == <<waitlaunch(AnySource), receive(Caller, 1), send(Caller, 2)>>
Task(s) == <<launch(s), send(s, 1), receive(s, 2)>>
Wait == <<waitlaunch(AnySource)>>

\* Two clients have a task executed by one server, which serves whoever comes.
Shared == Program4(Task(s1), Task(s1), Session \o Session, <<>>)

\* Two clients launch two servers each, in opposite orders.
Crossed == Program4(<<launch(s1), launch(s2)>>, <<launch(s2), launch(s1)>>,
                    Wait \o Wait, Wait \o Wait)

\* The clients send each other a message; a server names its sources.
Named == Program4(<<send(c2, 1), launch(s1)>>, <<receive(c1, 1), launch(s1)>>,
                  <<waitlaunch(c2), waitlaunch(c1)>>, <<>>)

\* A client sends two messages through one pipe, and another client launches
\* the receiver between them: the second SEND may be pending during the launch,
\* whose request is just as long.
Streamed == Program4(<<send(s1, 1), send(s1, 1)>>, <<launch(s1)>>,
                     <<receive(c1, 1), waitlaunch(AnySource), receive(c1, 1)>>, <<>>)

\* Three clients launch one server.
Contended == Program4(<<launch(s1)>>, <<launch(s1)>>, Wait \o Wait \o Wait, <<launch(s1)>>)

\* A client sends and launches in one order, and then in the other: its delay
\* information is cancelled.
Turned ==
  <<Program4(<<send(c2, 2), launch(s1)>>, <<receive(c1, 2)>>, Wait, <<>>),
    Program4(<<launch(s1), send(c2, 2)>>, <<receive(c1, 2)>>, Wait, <<>>)>>

RepeatPlans ==
  {Repeat(Shared, 2), Repeat(Crossed, 2), Repeat(Contended, 2), Repeat(Named, 1),
   Repeat(Streamed, 1), Turned}

CrossedPlans == {Repeat(Crossed, 2)}
-----------------------------------------------------------------------------
Launches(b, p) == SelectSeq(b[p], LAMBDA record : record.op = {"LAUNCH"})

Requests(b) == FoldSet(LAMBDA p, n : n + Len(Launches(b, p)), 0, Proc)

\* The sequences of sources in which all launch requests of a bench may arrive,
\* over a network that delivers the requests of one source in order.
Turns(b) ==
  {t \in [1..Requests(b) -> {p \in Proc : Launches(b, p) # <<>>}] :
     \A p \in Proc : Cardinality({i \in DOMAIN t : t[i] = p}) = Len(Launches(b, p))}

\* The destination of the i-th request to arrive, in the order t.
Target(b, t, i) == Launches(b, t[i])[Cardinality({j \in 1..i : t[j] = t[i]})].dst

\* The order per destination, for every order of arrival.
OrderedArrivals(b) ==
  {[q \in Proc |->
      LET at == SetToSortSeq({i \in DOMAIN t : Target(b, t, i) = q}, <)
      IN  [k \in DOMAIN at |-> t[at[k]]]] : t \in Turns(b)}

\* The sources of the launch requests for q, in every order.
Orders(b, q) ==
  LET sources == {p \in Proc : \E i \in DOMAIN b[p] : b[p][i] = [op |-> {"LAUNCH"}, dst |-> q]}
  IN  SetToSeqs(sources)

\* The latency of a request depends on its source and its destination, so the
\* requests of one source for several destinations arrive in any order.  For
\* benches in which no source launches a destination twice.
FreeArrivals(b) ==
  {order \in [Proc -> UNION {Orders(b, q) : q \in Proc}] : \A q \in Proc : order[q] \in Orders(b, q)}
=============================================================================
