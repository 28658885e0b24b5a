------------------------- MODULE SyncMessage_proofs -------------------------
(***************************************************************************)
(* Proofs about SyncMessage, for any processes, programs, number of rounds *)
(* and orders in which launch requests arrive, without fairness.           *)
(*                                                                         *)
(* Four arguments, each resting on the one before.  What is pending is     *)
(* determined by what the processes are blocked for (Inv1), so nothing is  *)
(* lost.  The two sides of a launch or message agree on it from the grant  *)
(* to the SYNC, although READ and WRITE are paired by source and size only *)
(* (Inv2).  The bench is therefore what was executed (Inv3).  And while    *)
(* the delay information fits the programs, no launch is parked without    *)
(* need; it fits when the rounds repeat.                                   *)
(***************************************************************************)
EXTENDS SyncMessage, ListLemmas

(***************************************************************************)
(* The inductive invariant: what is pending is determined, list by list,   *)
(* by what the processes are blocked for.                                  *)
(***************************************************************************)

\* p is blocked with a LAUNCH of q.
LaunchWaits(p, q) == Blocked(p, "LAUNCH", "result") /\ cmd[p].peer = q

\* q is blocked with a WAITLAUNCH.
WaitWaits(q) == Blocked(q, "WAITLAUNCH", "result")

\* p is blocked with a WRITE to q.
WriteWaits(p, q) ==
  /\ pc[p] = "sync" /\ resp[p] = <<>>
  /\ cmd[p].op \in {"LAUNCH", "SEND"} /\ cmd[p].peer = q

\* q is blocked with a READ.
ReadWaits(q) ==
  pc[q] = "sync" /\ resp[q] = <<>> /\ cmd[q].op \in {"WAITLAUNCH", "RECEIVE"}

\* The peer of a transaction is a process once it is known.
PeersKnown ==
  \A p \in Proc :
    IF pc[p] = "result" /\ cmd[p].op = "WAITLAUNCH"
    THEN resp[p] \in Seq(Proc)
    ELSE cmd[p].peer \in Proc

\* At most one answer is unread, and it is for a blocked process.
AnswersFit ==
  \A p \in Proc :
    resp[p] # <<>> => pc[p] \in {"result", "sync"} /\ Len(resp[p]) = 1

LaunchListed ==
  \A q \in Proc :
    /\ IsInjective(launchList[q])
    /\ \A p \in Proc : Occurs(launchList[q], p) <=> LaunchWaits(p, q)

WaitPending(q) == IF WaitWaits(q) THEN <<cmd[q].peer>> ELSE <<>>

WaitListed == \A q \in Proc : waitList[q] = WaitPending(q)

\* e is what the WRITE to q that its source is blocked with leaves in the list.
WritePending(e, q) == WriteWaits(e.src, q) /\ e = CommEntry(e.src, e.src)

WriteListed ==
  \A q \in Proc :
    /\ IsInjective(writeList[q])
    /\ \A e \in Pending : Occurs(writeList[q], e) <=> WritePending(e, q)

ReadPending(q) == IF ReadWaits(q) THEN <<CommEntry(q, cmd[q].peer)>> ELSE <<>>

ReadListed == \A q \in Proc : readList[q] = ReadPending(q)

Inv1 ==
  /\ TypeOK /\ PeersKnown /\ AnswersFit
  /\ LaunchListed /\ WaitListed /\ WriteListed /\ ReadListed

(***************************************************************************)
(* The agreement of the two sides of a transaction.                        *)
(***************************************************************************)

\* A process that serves a launch keeps the source it was told.
CallerKept ==
  \A p \in Proc :
    cmd[p].op = "WAITLAUNCH" /\ pc[p] \in {"timing", "sync"} => caller[p] = cmd[p].peer

\* p has put its message for q into the pipe, and its WRITE is not answered.
Sent(p, q) ==
  /\ cmd[p].op = "SEND" /\ cmd[p].peer = q
  /\ pc[p] = "timing" \/ (pc[p] = "sync" /\ resp[p] = <<>>)

\* q has taken the message of p out of the pipe, and its READ is not answered.
Received(q, p) ==
  /\ cmd[q].op = "RECEIVE" /\ cmd[q].peer = p
  /\ pc[q] = "timing" \/ (pc[q] = "sync" /\ resp[q] = <<>>)

\* The pipe holds the message of a SEND until the RECEIVE takes it, and both
\* stay in the transaction until they are paired.
PipesInStep ==
  \A p, q \in Proc :
    /\ Received(q, p) => Sent(p, q)
    /\ inPipe[<<p, q>>] \in {0, 1}
    /\ inPipe[<<p, q>>] = 1 <=> Sent(p, q) /\ ~ Received(q, p)

Inv2 == Inv1 /\ CallerKept /\ LaunchInPairs /\ PipesInStep
-----------------------------------------------------------------------------
(* Lists.                                                                  *)

\* Taking the command that matches first out of a list without repetitions.
LEMMA MatchTaken ==
  ASSUME NEW S, NEW s \in Seq(S), IsInjective(s), NEW T \in SUBSET DOMAIN s, T # {}
  PROVE  /\ FirstMatch(s, T) \in S
         /\ \E i \in T : s[i] = FirstMatch(s, T)
         /\ PopMatch(s, T) \in Seq(S)
         /\ IsInjective(PopMatch(s, T))
         /\ ~ Occurs(PopMatch(s, T), FirstMatch(s, T))
         /\ \A y : y # FirstMatch(s, T) => (Occurs(PopMatch(s, T), y) <=> Occurs(s, y))
<1> DEFINE k == Min(T)
           x == s[k]
           K == {i \in DOMAIN s : s[i] = x}
           t == RemoveAt(s, Min(K))
<1>1. T \in SUBSET Nat /\ DOMAIN s = 1..Len(s)
  OBVIOUS
<1>2. k \in T
  BY <1>1, MinIsLeast
<1>3. k \in DOMAIN s /\ x \in S
  BY <1>1, <1>2
<1> HIDE DEF k
<1>4. K = {k}
  BY <1>3 DEF IsInjective
<1>5. Min(K) = k
  <2>1. {k} \in SUBSET Nat /\ {k} # {}
    BY <1>1, <1>3
  <2>2. Min({k}) \in {k}
    BY <2>1, MinIsLeast
  <2> QED BY <2>2, <1>4
<1>6. Occurs(s, x)
  BY <1>3 DEF Occurs
<1>7. PopMatch(s, T) = t /\ FirstMatch(s, T) = x
  BY <1>5 DEF PopMatch, FirstMatch, k
<1>8. /\ t \in Seq(S) /\ IsInjective(t) /\ ~ Occurs(t, x)
      /\ \A y : y # x => (Occurs(t, y) <=> Occurs(s, y))
  <2> HIDE DEF x
  <2> QED BY <1>6, RemoveOnly
<1> HIDE DEF t
<1> QED BY <1>2, <1>3, <1>7, <1>8

\* Taking the only command out of a list.
LEMMA OnlyMatchTaken ==
  ASSUME NEW S, NEW c \in S, NEW T \in SUBSET DOMAIN <<c>>, T # {}
  PROVE  FirstMatch(<<c>>, T) = c /\ PopMatch(<<c>>, T) = <<>>
<1>1. <<c>> \in Seq(S) /\ DOMAIN <<c>> = {1} /\ Len(<<c>>) = 1
  OBVIOUS
<1>2. T = {1}
  BY <1>1
<1>3. Min(T) = 1
  BY <1>2, MinIsLeast
<1>4. RemoveAt(<<c>>, 1) \in Seq(S) /\ Len(RemoveAt(<<c>>, 1)) = 0
  <2> DEFINE s == <<c>>
  <2>1. s \in Seq(S) /\ Len(s) = 1 /\ 1 \in 1..Len(s)
    BY <1>1
  <2> HIDE DEF s
  <2>2. RemoveAt(s, 1) \in Seq(S) /\ Len(RemoveAt(s, 1)) = Len(s) - 1
    BY <2>1, RemoveAtProperties
  <2> QED BY <2>1, <2>2 DEF s
<1> QED BY <1>3, <1>4 DEF FirstMatch, PopMatch

\* Reading the only answer.
LEMMA TailOfOne ==
  ASSUME NEW S, NEW s \in Seq(S), Len(s) = 1
  PROVE  Tail(s) = <<>> /\ Tail(s) \in Seq(S) /\ Head(s) = s[1] /\ s = <<Head(s)>>
<1>1. s # <<>>
  OBVIOUS
<1>2. Tail(s) \in Seq(S) /\ Len(Tail(s)) = 0
  BY <1>1
<1>3. Tail(s) = <<>>
  <2>1. \A t \in Seq(S) : Len(t) = 0 => t = <<>>
    OBVIOUS
  <2> QED BY <1>2, <2>1
<1> QED BY <1>1, <1>2, <1>3
-----------------------------------------------------------------------------
(* What a command and an answer change.                                    *)

\* The next command of a process, its peer resolved.
LEMMA NextCmdType ==
  ASSUME TypeOK, NEW p \in Proc, prog[p] # <<>>
  PROVE  NextCmd(p) \in Cmd
<1> DEFINE c == Head(prog[p])
<1>1. c \in Cmd /\ caller[p] \in Peer
  BY DEF TypeOK, Program, Peer
<1>2. [c EXCEPT !.peer = caller[p]] \in Cmd
  BY <1>1 DEF Cmd
<1> QED BY <1>1, <1>2 DEF NextCmd

\* Everything that r does and knows stays as it is.
Same(r) == pc'[r] = pc[r] /\ cmd'[r] = cmd[r] /\ resp'[r] = resp[r] /\ caller'[r] = caller[r]

\* A process that prints a functional command.
LEMMA IssueEffect ==
  ASSUME TypeOK, NEW p \in Proc, NEW op, NEW peer, Issue(p, op, peer)
  PROVE  /\ op \in Op /\ peer \in Peer
         /\ prog' \in Program
         /\ pc' \in [Proc -> {"run", "result", "data", "timing", "sync"}]
         /\ cmd' \in [Proc -> Cmd]
         /\ pc[p] = "run" /\ pc'[p] = "result"
         /\ cmd'[p].op = op /\ cmd'[p].peer = peer
         /\ \A r \in Proc : r # p => pc'[r] = pc[r] /\ cmd'[r] = cmd[r]
         /\ caller' = caller
<1>1. prog[p] \in Seq(Cmd) /\ prog[p] # <<>> /\ Tail(prog[p]) \in Seq(Cmd)
  BY DEF TypeOK, Program, Issue
<1>2. NextCmd(p) \in Cmd
  BY <1>1, NextCmdType
<1>3. op \in Op /\ peer \in Peer
  <2>1. NextCmd(p).op \in Op /\ NextCmd(p).peer \in Peer
    BY <1>2 DEF Cmd
  <2> QED BY <2>1 DEF Issue
<1>4. /\ prog' = [prog EXCEPT ![p] = Tail(@)]
      /\ pc' = [pc EXCEPT ![p] = "result"]
      /\ cmd' = [cmd EXCEPT ![p] = NextCmd(p)]
      /\ pc[p] = "run" /\ NextCmd(p).op = op /\ NextCmd(p).peer = peer /\ caller' = caller
  BY DEF Issue
<1> QED BY <1>1, <1>2, <1>3, <1>4 DEF TypeOK, Program

\* A process that prints its READ or WRITE.
LEMMA TimingEffect ==
  ASSUME TypeOK, NEW p \in Proc, NEW ops, IssueTiming(p, ops)
  PROVE  /\ pc' \in [Proc -> {"run", "result", "data", "timing", "sync"}]
         /\ pc[p] = "timing" /\ pc'[p] = "sync" /\ cmd[p].op \in ops
         /\ \A r \in Proc : r # p => pc'[r] = pc[r]
         /\ prog' = prog /\ cmd' = cmd /\ caller' = caller
BY DEF IssueTiming, TypeOK

\* Answering two processes, with a source or without.
LEMMA AnswerTwo ==
  ASSUME TypeOK, NEW p \in Proc, NEW q \in Proc, p # q, NEW v \in Proc \cup {AnySource},
         NEW value,
         (v = p /\ value = Granted(p, q)) \/ (v = AnySource /\ value = Plain({p, q})),
         Answer(value)
  PROVE  /\ resp' \in [Proc -> Seq(Proc \cup {AnySource})]
         /\ resp'[p] = Append(resp[p], AnySource) /\ resp'[q] = Append(resp[q], v)
         /\ \A r \in Proc : r \notin {p, q} => resp'[r] = resp[r]
<1>1. DOMAIN value = {p, q} /\ value[p] = AnySource /\ value[q] = v
  <2>1. CASE v = p /\ value = Granted(p, q)
    BY <2>1 DEF Granted
  <2>2. CASE v = AnySource /\ value = Plain({p, q})
    BY <2>2 DEF Plain
  <2> QED BY <2>1, <2>2
<1>2. resp' = [r \in Proc |-> IF r \in {p, q} THEN Append(resp[r], value[r]) ELSE resp[r]]
  BY <1>1 DEF Answer
<1>3. ASSUME NEW r \in Proc, r \in {p, q}
      PROVE  Append(resp[r], value[r]) \in Seq(Proc \cup {AnySource})
  <2>1. resp[r] \in Seq(Proc \cup {AnySource})
    BY DEF TypeOK
  <2>2. value[r] \in Proc \cup {AnySource}
    BY <1>1, <1>3
  <2> QED BY <2>1, <2>2
<1> QED BY <1>1, <1>2, <1>3 DEF TypeOK

\* Answering one process.
LEMMA AnswerOne ==
  ASSUME TypeOK, NEW p \in Proc, Answer(Plain({p}))
  PROVE  /\ resp' \in [Proc -> Seq(Proc \cup {AnySource})]
         /\ resp'[p] = Append(resp[p], AnySource)
         /\ \A r \in Proc : r # p => resp'[r] = resp[r]
<1>1. resp' = [r \in Proc |-> IF r = p THEN Append(resp[r], AnySource) ELSE resp[r]]
  BY DEF Answer, Plain
<1>2. Append(resp[p], AnySource) \in Seq(Proc \cup {AnySource})
  BY DEF TypeOK
<1> QED BY <1>1, <1>2 DEF TypeOK
-----------------------------------------------------------------------------
(***************************************************************************)
(* The kinds of steps, by what they do to the processes and to the lists   *)
(* of pending commands.                                                    *)
(***************************************************************************)

Others(P) == \A r \in Proc \ P : Same(r)

\* p neither waits for an answer before the step nor after it.
Quiet(p) ==
  /\ ~ (pc[p] \in {"result", "sync"} /\ resp[p] = <<>>)
  /\ ~ (pc'[p] \in {"result", "sync"} /\ resp'[p] = <<>>)
  /\ resp'[p] # <<>> => pc'[p] \in {"result", "sync"} /\ Len(resp'[p]) = 1
  /\ IF pc'[p] = "result" /\ cmd'[p].op = "WAITLAUNCH"
     THEN resp'[p] \in Seq(Proc)
     ELSE cmd'[p].peer \in Proc
  /\ Others({p})
  /\ UNCHANGED <<launchVars, commVars>>

\* p prints a functional command and has to wait.
Asks(p, op, q) ==
  /\ pc[p] = "run" /\ pc'[p] = "result"
  /\ cmd'[p].op = op /\ cmd'[p].peer = q
  /\ resp[p] = <<>> /\ resp'[p] = <<>> /\ caller'[p] = caller[p]
  /\ Others({p})

LaunchParked(p, q) ==
  /\ Asks(p, "LAUNCH", q)
  /\ launchList' = [launchList EXCEPT ![q] = Append(@, p)]
  /\ UNCHANGED <<waitList, commVars>>

WaitParked(p, src) ==
  /\ Asks(p, "WAITLAUNCH", src)
  /\ waitList' = [waitList EXCEPT ![p] = Append(@, src)]
  /\ UNCHANGED <<launchList, commVars>>

\* The launch of q by p is granted, with the second of the two commands.
LaunchGranted(p, q) ==
  /\ p # q
  /\ pc[p] = "run" \/ LaunchWaits(p, q)
  /\ pc[q] = "run" \/ WaitWaits(q)
  /\ pc'[p] = "result" /\ pc'[q] = "result"
  /\ cmd'[p].op = "LAUNCH" /\ cmd'[p].peer = q /\ cmd'[q].op = "WAITLAUNCH"
  /\ resp[p] = <<>> /\ resp'[p] = <<AnySource>>
  /\ resp[q] = <<>> /\ resp'[q] = <<p>>
  /\ caller'[p] = caller[p] /\ caller'[q] = caller[q]
  /\ Others({p, q})
  /\ \A b \in Proc :
       /\ IsInjective(launchList'[b])
       /\ \A a \in Proc : Occurs(launchList'[b], a) <=> Occurs(launchList[b], a) /\ a # p
  /\ \A b \in Proc : waitList'[b] = IF b = q THEN <<>> ELSE waitList[b]
  /\ UNCHANGED commVars

\* p prints a READ or a WRITE and has to wait.
Times(p) ==
  /\ pc[p] = "timing" /\ pc'[p] = "sync"
  /\ resp[p] = <<>> /\ resp'[p] = <<>>
  /\ cmd'[p] = cmd[p] /\ caller'[p] = caller[p]
  /\ Others({p})

WriteParked(p, q) ==
  /\ Times(p)
  /\ cmd[p].op \in {"LAUNCH", "SEND"} /\ cmd[p].peer = q
  /\ writeList' = [writeList EXCEPT ![q] = Append(@, CommEntry(p, p))]
  /\ UNCHANGED <<readList, launchVars>>

ReadParked(q) ==
  /\ Times(q)
  /\ cmd[q].op \in {"WAITLAUNCH", "RECEIVE"}
  /\ readList' = [readList EXCEPT ![q] = Append(@, CommEntry(q, cmd[q].peer))]
  /\ UNCHANGED <<writeList, launchVars>>

\* The WRITE of p and the READ of q are paired, with the second of the two.
Paired(p, q) ==
  /\ p # q
  /\ cmd[p].op \in {"LAUNCH", "SEND"} /\ cmd[p].peer = q
  /\ cmd[q].op \in {"WAITLAUNCH", "RECEIVE"} /\ cmd[q].peer = p
  /\ pc[p] = "timing" \/ WriteWaits(p, q)
  /\ pc[q] = "timing" \/ ReadWaits(q)
  /\ resp[p] = <<>> /\ resp[q] = <<>>
  /\ \A r \in {p, q} : pc'[r] = "sync" /\ resp'[r] = <<AnySource>>
  /\ \A r \in {p, q} : cmd'[r] = cmd[r] /\ caller'[r] = caller[r]
  /\ Others({p, q})
  /\ \A b \in Proc :
       /\ IsInjective(writeList'[b])
       /\ \A e \in Pending : Occurs(writeList'[b], e) <=> Occurs(writeList[b], e) /\ e.src # p
  /\ \A b \in Proc : readList'[b] = IF b = q THEN <<>> ELSE readList[b]
  /\ UNCHANGED launchVars
-----------------------------------------------------------------------------
(* What is pending after each kind of step.                                *)

Listed == LaunchListed /\ WaitListed /\ WriteListed /\ ReadListed

\* A process that did not change waits for what it waited for.
LEMMA SameWaits ==
  ASSUME NEW a \in Proc, Same(a)
  PROVE  /\ \A b : LaunchWaits(a, b)' <=> LaunchWaits(a, b)
         /\ WaitPending(a)' = WaitPending(a)
         /\ \A b : \A e \in Pending : e.src = a => (WritePending(e, b)' <=> WritePending(e, b))
         /\ ReadPending(a)' = ReadPending(a)
<1>1. pc'[a] = pc[a] /\ cmd'[a] = cmd[a] /\ resp'[a] = resp[a]
  BY DEF Same
<1>2. ASSUME NEW b PROVE LaunchWaits(a, b)' <=> LaunchWaits(a, b)
  BY <1>1 DEF LaunchWaits, Blocked
<1>3. WaitPending(a)' = WaitPending(a)
  BY <1>1 DEF WaitPending, WaitWaits, Blocked
<1>4. ASSUME NEW b, NEW e \in Pending, e.src = a
      PROVE  WritePending(e, b)' <=> WritePending(e, b)
  BY <1>1, <1>4 DEF WritePending, WriteWaits, CommEntry
<1>5. ReadPending(a)' = ReadPending(a)
  BY <1>1 DEF ReadPending, ReadWaits, CommEntry
<1> QED BY <1>2, <1>3, <1>4, <1>5

\* A process that waits neither before nor after the step has nothing pending.
LEMMA QuietLists ==
  ASSUME Listed, NEW p \in Proc, Quiet(p)
  PROVE  Listed'
<1>1. /\ \A b \in Proc : ~ LaunchWaits(p, b) /\ ~ LaunchWaits(p, b)'
      /\ WaitPending(p) = <<>> /\ WaitPending(p)' = <<>>
      /\ \A b \in Proc : \A e \in Pending :
           e.src = p => ~ WritePending(e, b) /\ ~ WritePending(e, b)'
      /\ ReadPending(p) = <<>> /\ ReadPending(p)' = <<>>
  BY DEF Quiet, LaunchWaits, WaitPending, WaitWaits, WritePending, WriteWaits, ReadPending,
         ReadWaits, Blocked
<1>2. ASSUME NEW a \in Proc, a # p PROVE Same(a)
  BY <1>2 DEF Quiet, Others
<1>3. \A a, b \in Proc : LaunchWaits(a, b)' <=> LaunchWaits(a, b)
  BY <1>1, <1>2, SameWaits
<1>4. \A a \in Proc : WaitPending(a)' = WaitPending(a) /\ ReadPending(a)' = ReadPending(a)
  BY <1>1, <1>2, SameWaits
<1>5. \A b \in Proc : \A e \in Pending : WritePending(e, b)' <=> WritePending(e, b)
  <2> TAKE b \in Proc
  <2> TAKE e \in Pending
  <2>1. e.src \in Proc
    BY DEF Pending
  <2> QED BY <1>1, <1>2, <2>1, SameWaits
<1>6. UNCHANGED <<launchList, waitList, writeList, readList>>
  BY DEF Quiet, launchVars, commVars
<1> QED BY <1>3, <1>4, <1>5, <1>6 DEF Listed, LaunchListed, WaitListed, WriteListed, ReadListed

LEMMA LaunchParkedLists ==
  ASSUME TypeOK, Listed, NEW p \in Proc, NEW q \in Proc, LaunchParked(p, q)
  PROVE  Listed'
<1>1. /\ Asks(p, "LAUNCH", q)
      /\ launchList' = [launchList EXCEPT ![q] = Append(launchList[q], p)]
      /\ UNCHANGED <<waitList, writeList, readList>>
  BY DEF LaunchParked, commVars
<1>2. /\ \A b \in Proc : ~ LaunchWaits(p, b) /\ (LaunchWaits(p, b)' <=> b = q)
      /\ WaitPending(p)' = WaitPending(p) /\ ReadPending(p)' = ReadPending(p)
      /\ \A b \in Proc : \A e \in Pending :
           e.src = p => (WritePending(e, b)' <=> WritePending(e, b))
  BY <1>1 DEF Asks, LaunchWaits, WaitPending, WaitWaits, WritePending, WriteWaits, ReadPending,
              ReadWaits, Blocked
<1>3. ASSUME NEW a \in Proc, a # p PROVE Same(a)
  BY <1>1, <1>3 DEF Asks, Others
<1>4. \A a, b \in Proc : LaunchWaits(a, b)' <=> LaunchWaits(a, b) \/ (a = p /\ b = q)
  BY <1>2, <1>3, SameWaits
<1>5. \A a \in Proc : WaitPending(a)' = WaitPending(a) /\ ReadPending(a)' = ReadPending(a)
  BY <1>2, <1>3, SameWaits
<1>6. \A b \in Proc : \A e \in Pending : WritePending(e, b)' <=> WritePending(e, b)
  <2> TAKE b \in Proc
  <2> TAKE e \in Pending
  <2>1. e.src \in Proc
    BY DEF Pending
  <2> QED BY <1>2, <1>3, <2>1, SameWaits
<1>7. LaunchListed'
  <2>1. launchList \in [Proc -> Seq(Proc)]
    BY DEF TypeOK
  <2>2. IsInjective(launchList[q]) /\ ~ Occurs(launchList[q], p)
    BY <1>2 DEF Listed, LaunchListed
  <2>3. /\ IsInjective(Append(launchList[q], p))
        /\ \A a \in Proc : Occurs(Append(launchList[q], p), a) <=> Occurs(launchList[q], a) \/ a = p
    BY <2>1, <2>2, AppendNew
  <2>4. ASSUME NEW b \in Proc
        PROVE  /\ IsInjective(launchList'[b])
               /\ \A a \in Proc : Occurs(launchList'[b], a) <=> LaunchWaits(a, b)'
    <3>1. CASE b = q
      <4>1. launchList'[b] = Append(launchList[q], p)
        BY <1>1, <2>1, <3>1
      <4> QED BY <1>4, <2>3, <3>1, <4>1 DEF Listed, LaunchListed
    <3>2. CASE b # q
      <4>1. launchList'[b] = launchList[b]
        BY <1>1, <2>1, <3>2
      <4> QED BY <1>4, <3>2, <4>1 DEF Listed, LaunchListed
    <3> QED BY <3>1, <3>2
  <2> QED BY <2>4 DEF LaunchListed
<1> QED BY <1>1, <1>5, <1>6, <1>7 DEF Listed, WaitListed, WriteListed, ReadListed

LEMMA WaitParkedLists ==
  ASSUME TypeOK, Listed, NEW p \in Proc, NEW src, WaitParked(p, src)
  PROVE  Listed'
<1>1. /\ Asks(p, "WAITLAUNCH", src)
      /\ waitList' = [waitList EXCEPT ![p] = Append(waitList[p], src)]
      /\ UNCHANGED <<launchList, writeList, readList>>
  BY DEF WaitParked, commVars
<1>2. /\ \A b \in Proc : LaunchWaits(p, b)' <=> LaunchWaits(p, b)
      /\ WaitPending(p) = <<>> /\ WaitPending(p)' = <<src>>
      /\ ReadPending(p)' = ReadPending(p)
      /\ \A b \in Proc : \A e \in Pending :
           e.src = p => (WritePending(e, b)' <=> WritePending(e, b))
  BY <1>1 DEF Asks, LaunchWaits, WaitPending, WaitWaits, WritePending, WriteWaits, ReadPending,
              ReadWaits, Blocked
<1>3. ASSUME NEW a \in Proc, a # p PROVE Same(a)
  BY <1>1, <1>3 DEF Asks, Others
<1>4. \A a, b \in Proc : LaunchWaits(a, b)' <=> LaunchWaits(a, b)
  BY <1>2, <1>3, SameWaits
<1>5. \A a \in Proc : ReadPending(a)' = ReadPending(a)
  BY <1>2, <1>3, SameWaits
<1>6. \A b \in Proc : \A e \in Pending : WritePending(e, b)' <=> WritePending(e, b)
  <2> TAKE b \in Proc
  <2> TAKE e \in Pending
  <2>1. e.src \in Proc
    BY DEF Pending
  <2> QED BY <1>2, <1>3, <2>1, SameWaits
<1>7. WaitListed'
  <2>1. waitList \in [Proc -> Seq(Proc \cup {AnySource})] /\ waitList[p] = <<>>
    BY <1>2 DEF TypeOK, Listed, WaitListed
  <2>2. waitList'[p] = <<src>>
    BY <1>1, <2>1
  <2>3. \A b \in Proc : b # p => waitList'[b] = waitList[b]
    BY <1>1, <2>1
  <2>4. \A b \in Proc : b # p => WaitPending(b)' = WaitPending(b)
    BY <1>3, SameWaits
  <2> QED BY <1>2, <2>2, <2>3, <2>4 DEF Listed, WaitListed
<1> QED BY <1>1, <1>4, <1>5, <1>6, <1>7 DEF Listed, LaunchListed, WriteListed, ReadListed

LEMMA LaunchGrantedLists ==
  ASSUME Listed, NEW p \in Proc, NEW q \in Proc, LaunchGranted(p, q)
  PROVE  Listed'
<1>1. /\ p # q
      /\ \A b \in Proc : ~ LaunchWaits(p, b)'
      /\ WaitPending(p) = <<>> /\ WaitPending(p)' = <<>>
      /\ ReadPending(p) = <<>> /\ ReadPending(p)' = <<>>
      /\ \A b \in Proc : \A e \in Pending :
           e.src = p => ~ WritePending(e, b) /\ ~ WritePending(e, b)'
  BY DEF LaunchGranted, LaunchWaits, WaitPending, WaitWaits, WritePending, WriteWaits,
         ReadPending, ReadWaits, Blocked
<1>2. /\ \A b \in Proc : ~ LaunchWaits(q, b) /\ ~ LaunchWaits(q, b)'
      /\ WaitPending(q)' = <<>>
      /\ ReadPending(q) = <<>> /\ ReadPending(q)' = <<>>
      /\ \A b \in Proc : \A e \in Pending :
           e.src = q => ~ WritePending(e, b) /\ ~ WritePending(e, b)'
  BY DEF LaunchGranted, LaunchWaits, WaitPending, WaitWaits, WritePending, WriteWaits,
         ReadPending, ReadWaits, Blocked
<1>3. ASSUME NEW a \in Proc, a # p, a # q PROVE Same(a)
  BY <1>3 DEF LaunchGranted, Others
<1>4. \A a, b \in Proc : LaunchWaits(a, b)' <=> LaunchWaits(a, b) /\ a # p
  BY <1>1, <1>2, <1>3, SameWaits
<1>5. \A a \in Proc : /\ WaitPending(a)' = IF a = q THEN <<>> ELSE WaitPending(a)
                      /\ ReadPending(a)' = ReadPending(a)
  BY <1>1, <1>2, <1>3, SameWaits
<1>6. \A b \in Proc : \A e \in Pending : WritePending(e, b)' <=> WritePending(e, b)
  <2> TAKE b \in Proc
  <2> TAKE e \in Pending
  <2>1. e.src \in Proc
    BY DEF Pending
  <2> QED BY <1>1, <1>2, <1>3, <2>1, SameWaits
<1>7. /\ \A b \in Proc :
           /\ IsInjective(launchList'[b])
           /\ \A a \in Proc : Occurs(launchList'[b], a) <=> Occurs(launchList[b], a) /\ a # p
      /\ \A b \in Proc : waitList'[b] = IF b = q THEN <<>> ELSE waitList[b]
      /\ UNCHANGED <<writeList, readList>>
  BY DEF LaunchGranted, commVars
<1>8. LaunchListed'
  BY <1>4, <1>7 DEF Listed, LaunchListed
<1>9. WaitListed'
  BY <1>5, <1>7 DEF Listed, WaitListed
<1> QED BY <1>5, <1>6, <1>7, <1>8, <1>9 DEF Listed, WriteListed, ReadListed

LEMMA WriteParkedLists ==
  ASSUME TypeOK, Listed, NEW p \in Proc, NEW q \in Proc, WriteParked(p, q)
  PROVE  Listed'
<1> DEFINE x == CommEntry(p, p)
<1>1. /\ Times(p)
      /\ cmd[p].op \in {"LAUNCH", "SEND"} /\ cmd[p].peer = q
      /\ writeList' = [writeList EXCEPT ![q] = Append(writeList[q], x)]
      /\ UNCHANGED <<launchList, waitList, readList>>
  BY DEF WriteParked, launchVars
<1>2. x \in Pending /\ x.src = p /\ CommEntry(p, p)' = x
  <2>1. cmd[p].nbytes \in Nat /\ Flags(cmd[p].op) \in SUBSET {"LAUNCH"}
    BY DEF TypeOK, Cmd, Flags
  <2>2. x \in Pending /\ x.src = p
    BY <2>1 DEF CommEntry, Pending
  <2>3. CommEntry(p, p)' = x
    BY <1>1 DEF CommEntry, Times
  <2> QED BY <2>2, <2>3
<1> HIDE DEF x
<1>3. /\ \A b \in Proc : LaunchWaits(p, b)' <=> LaunchWaits(p, b)
      /\ WaitPending(p)' = WaitPending(p)
      /\ ReadPending(p)' = ReadPending(p)
      /\ \A b \in Proc : \A e \in Pending : e.src = p => ~ WritePending(e, b)
  BY <1>1 DEF Times, LaunchWaits, WaitPending, WaitWaits, WritePending, WriteWaits, ReadPending,
              ReadWaits, Blocked
<1>4. \A b \in Proc : \A e \in Pending : e.src = p => (WritePending(e, b)' <=> e = x /\ b = q)
  <2>1. \A b \in Proc : WriteWaits(p, b)' <=> b = q
    BY <1>1 DEF Times, WriteWaits
  <2> QED BY <1>2, <2>1 DEF WritePending
<1>5. ASSUME NEW a \in Proc, a # p PROVE Same(a)
  BY <1>1, <1>5 DEF Times, Others
<1>6. \A a, b \in Proc : LaunchWaits(a, b)' <=> LaunchWaits(a, b)
  BY <1>3, <1>5, SameWaits
<1>7. \A a \in Proc : WaitPending(a)' = WaitPending(a) /\ ReadPending(a)' = ReadPending(a)
  BY <1>3, <1>5, SameWaits
<1>8. ASSUME NEW b \in Proc, NEW e \in Pending
      PROVE  WritePending(e, b)' <=> WritePending(e, b) \/ (e = x /\ b = q)
  <2>1. e.src \in Proc
    BY DEF Pending
  <2>2. CASE e.src = p
    BY <1>3, <1>4, <2>2
  <2>3. CASE e.src # p
    BY <1>2, <1>5, <2>1, <2>3, SameWaits
  <2> QED BY <2>2, <2>3
<1>9. WriteListed'
  <2>1. writeList \in [Proc -> Seq(Pending)]
    BY DEF TypeOK
  <2>2. IsInjective(writeList[q]) /\ ~ Occurs(writeList[q], x)
    BY <1>2, <1>3 DEF Listed, WriteListed
  <2>3. /\ IsInjective(Append(writeList[q], x))
        /\ \A e \in Pending : Occurs(Append(writeList[q], x), e) <=> Occurs(writeList[q], e) \/ e = x
    BY <1>2, <2>1, <2>2, AppendNew
  <2>4. ASSUME NEW b \in Proc
        PROVE  /\ IsInjective(writeList'[b])
               /\ \A e \in Pending : Occurs(writeList'[b], e) <=> WritePending(e, b)'
    <3>1. CASE b = q
      <4>1. writeList'[b] = Append(writeList[q], x)
        BY <1>1, <2>1, <3>1
      <4> QED BY <1>8, <2>3, <3>1, <4>1 DEF Listed, WriteListed
    <3>2. CASE b # q
      <4>1. writeList'[b] = writeList[b]
        BY <1>1, <2>1, <3>2
      <4> QED BY <1>8, <3>2, <4>1 DEF Listed, WriteListed
    <3> QED BY <3>1, <3>2
  <2> QED BY <2>4 DEF WriteListed
<1> QED BY <1>1, <1>6, <1>7, <1>9 DEF Listed, LaunchListed, WaitListed, ReadListed

LEMMA ReadParkedLists ==
  ASSUME TypeOK, Listed, NEW q \in Proc, ReadParked(q)
  PROVE  Listed'
<1> DEFINE x == CommEntry(q, cmd[q].peer)
<1>1. /\ Times(q)
      /\ cmd[q].op \in {"WAITLAUNCH", "RECEIVE"}
      /\ readList' = [readList EXCEPT ![q] = Append(readList[q], x)]
      /\ UNCHANGED <<launchList, waitList, writeList>>
  BY DEF ReadParked, launchVars
<1>2. /\ \A b \in Proc : LaunchWaits(q, b)' <=> LaunchWaits(q, b)
      /\ WaitPending(q)' = WaitPending(q)
      /\ ReadPending(q) = <<>>
      /\ \A b \in Proc : \A e \in Pending :
           e.src = q => (WritePending(e, b)' <=> WritePending(e, b))
  BY <1>1 DEF Times, LaunchWaits, WaitPending, WaitWaits, WritePending, WriteWaits, ReadPending,
              ReadWaits, Blocked
<1>3. ReadPending(q)' = <<x>>
  BY <1>1 DEF Times, ReadPending, ReadWaits, CommEntry
<1> HIDE DEF x
<1>4. ASSUME NEW a \in Proc, a # q PROVE Same(a)
  BY <1>1, <1>4 DEF Times, Others
<1>5. \A a, b \in Proc : LaunchWaits(a, b)' <=> LaunchWaits(a, b)
  BY <1>2, <1>4, SameWaits
<1>6. \A a \in Proc : WaitPending(a)' = WaitPending(a)
  BY <1>2, <1>4, SameWaits
<1>7. \A b \in Proc : \A e \in Pending : WritePending(e, b)' <=> WritePending(e, b)
  <2> TAKE b \in Proc
  <2> TAKE e \in Pending
  <2>1. e.src \in Proc
    BY DEF Pending
  <2> QED BY <1>2, <1>4, <2>1, SameWaits
<1>8. ReadListed'
  <2>1. readList \in [Proc -> Seq(Pending)] /\ readList[q] = <<>>
    BY <1>2 DEF TypeOK, Listed, ReadListed
  <2>2. readList'[q] = <<x>>
    BY <1>1, <2>1
  <2>3. \A b \in Proc : b # q => readList'[b] = readList[b]
    BY <1>1, <2>1
  <2>4. \A b \in Proc : b # q => ReadPending(b)' = ReadPending(b)
    BY <1>4, SameWaits
  <2> QED BY <1>3, <2>2, <2>3, <2>4 DEF Listed, ReadListed
<1> QED BY <1>1, <1>5, <1>6, <1>7, <1>8 DEF Listed, LaunchListed, WaitListed, WriteListed

LEMMA PairedLists ==
  ASSUME Listed, NEW p \in Proc, NEW q \in Proc, Paired(p, q)
  PROVE  Listed'
<1>1. /\ p # q
      /\ \A b \in Proc : ~ LaunchWaits(p, b) /\ ~ LaunchWaits(p, b)'
      /\ WaitPending(p) = <<>> /\ WaitPending(p)' = <<>>
      /\ ReadPending(p) = <<>> /\ ReadPending(p)' = <<>>
      /\ \A b \in Proc : \A e \in Pending : e.src = p => ~ WritePending(e, b)'
  BY DEF Paired, LaunchWaits, WaitPending, WaitWaits, WritePending, WriteWaits,
         ReadPending, ReadWaits, Blocked
<1>2. /\ \A b \in Proc : ~ LaunchWaits(q, b) /\ ~ LaunchWaits(q, b)'
      /\ WaitPending(q) = <<>> /\ WaitPending(q)' = <<>>
      /\ ReadPending(q)' = <<>>
      /\ \A b \in Proc : \A e \in Pending :
           e.src = q => ~ WritePending(e, b) /\ ~ WritePending(e, b)'
  BY DEF Paired, LaunchWaits, WaitPending, WaitWaits, WritePending, WriteWaits,
         ReadPending, ReadWaits, Blocked
<1>3. ASSUME NEW a \in Proc, a # p, a # q PROVE Same(a)
  BY <1>3 DEF Paired, Others
<1>4. \A a, b \in Proc : LaunchWaits(a, b)' <=> LaunchWaits(a, b)
  BY <1>1, <1>2, <1>3, SameWaits
<1>5. \A a \in Proc : /\ WaitPending(a)' = WaitPending(a)
                      /\ ReadPending(a)' = IF a = q THEN <<>> ELSE ReadPending(a)
  BY <1>1, <1>2, <1>3, SameWaits
<1>6. \A b \in Proc : \A e \in Pending :
        WritePending(e, b)' <=> WritePending(e, b) /\ e.src # p
  <2> TAKE b \in Proc
  <2> TAKE e \in Pending
  <2>1. e.src \in Proc
    BY DEF Pending
  <2> QED BY <1>1, <1>2, <1>3, <2>1, SameWaits
<1>7. /\ \A b \in Proc :
           /\ IsInjective(writeList'[b])
           /\ \A e \in Pending : Occurs(writeList'[b], e) <=> Occurs(writeList[b], e) /\ e.src # p
      /\ \A b \in Proc : readList'[b] = IF b = q THEN <<>> ELSE readList[b]
      /\ UNCHANGED <<launchList, waitList>>
  BY DEF Paired, launchVars
<1>8. WriteListed'
  BY <1>6, <1>7 DEF Listed, WriteListed
<1>9. ReadListed'
  BY <1>5, <1>7 DEF Listed, ReadListed
<1> QED BY <1>4, <1>5, <1>7, <1>8, <1>9 DEF Listed, LaunchListed, WaitListed
-----------------------------------------------------------------------------
(* Peers and answers after each kind of step.                              *)

Fits == PeersKnown /\ AnswersFit

\* The peer and the answers of p.
Fit(p) ==
  /\ IF pc[p] = "result" /\ cmd[p].op = "WAITLAUNCH"
     THEN resp[p] \in Seq(Proc)
     ELSE cmd[p].peer \in Proc
  /\ resp[p] # <<>> => pc[p] \in {"result", "sync"} /\ Len(resp[p]) = 1

\* A process that did not change is as it was.
LEMMA SameFits ==
  ASSUME Fits, NEW P \in SUBSET Proc, Others(P), \A r \in P : Fit(r)'
  PROVE  Fits'
<1>1. ASSUME NEW r \in Proc PROVE Fit(r)'
  <2>1. CASE r \in P
    BY <2>1
  <2>2. CASE r \notin P
    <3>1. pc'[r] = pc[r] /\ cmd'[r] = cmd[r] /\ resp'[r] = resp[r]
      BY <2>2 DEF Others, Same
    <3> QED BY <3>1 DEF Fits, PeersKnown, AnswersFit, Fit
  <2> QED BY <2>1, <2>2
<1> QED BY <1>1 DEF Fits, PeersKnown, AnswersFit, Fit

LEMMA StepFits ==
  ASSUME Fits, NEW p \in Proc, NEW q \in Proc, NEW src,
         \/ Quiet(p) \/ LaunchParked(p, q) \/ WaitParked(p, src) \/ LaunchGranted(p, q)
         \/ WriteParked(p, q) \/ ReadParked(p) \/ Paired(p, q)
  PROVE  Fits'
<1>1. CASE Quiet(p)
  <2>1. Others({p}) /\ Fit(p)'
    BY <1>1 DEF Quiet, Fit
  <2> QED BY <2>1, SameFits
<1>2. CASE LaunchParked(p, q)
  <2>1. Others({p}) /\ Fit(p)'
    BY <1>2 DEF LaunchParked, Asks, Fit
  <2> QED BY <2>1, SameFits
<1>3. CASE WaitParked(p, src)
  <2>1. <<>> \in Seq(Proc)
    OBVIOUS
  <2>2. Others({p}) /\ Fit(p)'
    BY <1>3, <2>1 DEF WaitParked, Asks, Fit
  <2> QED BY <2>2, SameFits
<1>4. CASE LaunchGranted(p, q)
  <2>1. <<p>> \in Seq(Proc) /\ Len(<<p>>) = 1 /\ Len(<<AnySource>>) = 1
    OBVIOUS
  <2>2. Others({p, q}) /\ Fit(p)' /\ Fit(q)'
    BY <1>4, <2>1 DEF LaunchGranted, Fit
  <2> QED BY <2>2, SameFits
<1>5. CASE WriteParked(p, q) \/ ReadParked(p)
  <2>1. Times(p)
    BY <1>5 DEF WriteParked, ReadParked
  <2>2. cmd[p].peer \in Proc
    BY <2>1 DEF Times, Fits, PeersKnown
  <2>3. Others({p}) /\ Fit(p)'
    BY <2>1, <2>2 DEF Times, Fit
  <2> QED BY <2>3, SameFits
<1>6. CASE Paired(p, q)
  <2>1. Len(<<AnySource>>) = 1
    OBVIOUS
  <2>2. Others({p, q}) /\ Fit(p)' /\ Fit(q)'
    BY <1>6, <2>1 DEF Paired, Fit
  <2> QED BY <2>2, SameFits
<1> QED BY <1>1, <1>2, <1>3, <1>4, <1>5, <1>6
-----------------------------------------------------------------------------
(* Delay information.                                                      *)

\* Cancelling and consuming leave records of the same kind.
LEMMA DelayTypes ==
  ASSUME NEW S, NEW map \in [Proc -> Seq(S)], NEW p \in Proc
  PROVE  Cleared(map) \in [Proc -> Seq(S)] /\ PopFront(map, p) \in [Proc -> Seq(S)]
<1>1. Cleared(map) \in [Proc -> Seq(S)]
  BY DEF Cleared
<1>2. CASE HasAddr(map, p)
  <2>1. Tail(map[p]) \in Seq(S)
    BY <1>2 DEF HasAddr
  <2>2. PopFront(map, p) = [map EXCEPT ![p] = Tail(map[p])]
    BY <1>2 DEF PopFront
  <2> QED BY <1>1, <2>1, <2>2
<1>3. CASE ~ HasAddr(map, p)
  BY <1>1, <1>3 DEF PopFront
<1> QED BY <1>2, <1>3

LEMMA PopItemType ==
  ASSUME NEW map \in [Proc -> Seq(Record)], NEW p \in Proc, NEW q
  PROVE  PopItem(map, p, q) \in [Proc -> Seq(Record)]
<1> DEFINE T == RecordsFor(map, p, q)
<1>1. map[p] \in Seq(Record) /\ T \in SUBSET DOMAIN map[p]
  BY DEF RecordsFor
<1>2. CASE T = {}
  BY <1>2 DEF PopItem
<1>3. CASE T # {}
  <2>1. RemoveAt(map[p], Min(T)) \in Seq(Record)
    BY <1>1, <1>3, RemoveFoundType
  <2>2. PopItem(map, p, q) = [map EXCEPT ![p] = RemoveAt(map[p], Min(T))]
    BY <1>3 DEF PopItem
  <2> HIDE DEF T
  <2> QED BY <2>1, <2>2
<1> QED BY <1>2, <1>3

\* The order check leaves the delay information alone or cancels it.
LEMMA CheckedTypes ==
  ASSUME TypeOK, NEW p, NEW op, NEW dst
  PROVE  /\ CheckedOrder(p, op, dst) \in [Proc -> Seq(Proc)]
         /\ CheckedSource(p, op, dst) \in [Proc -> Seq(Record)]
<1>1. launchDelay \in [Proc -> Seq(Proc)] /\ srcDelay \in [Proc -> Seq(Record)]
  BY DEF TypeOK
<1>2. Cleared(launchDelay) \in [Proc -> Seq(Proc)] /\ Cleared(srcDelay) \in [Proc -> Seq(Record)]
  BY <1>1 DEF Cleared
<1> QED BY <1>1, <1>2 DEF CheckedOrder, CheckedSource
-----------------------------------------------------------------------------
(* The handlers.                                                           *)

LEMMA LaunchStep ==
  ASSUME Inv1, NEW p \in Proc, NEW q \in Proc, HandleLaunch(p, q)
  PROVE  TypeOK' /\ (LaunchParked(p, q) \/ LaunchGranted(p, q))
<1> DEFINE order == CheckedOrder(p, "LAUNCH", q)
           waits == MatchWaitlaunch(waitList[q], p)
           Granting ==
             /\ waits # {}
             /\ waitList' = [waitList EXCEPT ![q] = PopMatch(waitList[q], waits)]
             /\ launchDelay' = PopFront(order, q)
             /\ Answer(Granted(p, q))
             /\ UNCHANGED launchList
           Parking ==
             /\ launchList' = [launchList EXCEPT ![q] = Append(launchList[q], p)]
             /\ launchDelay' = order
             /\ UNCHANGED <<resp, waitList>>
<1>1. /\ Issue(p, "LAUNCH", q)
      /\ Granting \/ Parking
      /\ srcDelay' = CheckedSource(p, "LAUNCH", q)
      /\ UNCHANGED <<plan, round, writeList, readList, pipes, opened, inPipe, bench>>
  BY DEF HandleLaunch, commVars, pipeVars
<1>2. TypeOK
  BY DEF Inv1
<1>3. /\ prog' \in Program
      /\ pc' \in [Proc -> {"run", "result", "data", "timing", "sync"}]
      /\ cmd' \in [Proc -> Cmd]
      /\ pc[p] = "run" /\ pc'[p] = "result"
      /\ cmd'[p].op = "LAUNCH" /\ cmd'[p].peer = q
      /\ \A r \in Proc : r # p => pc'[r] = pc[r] /\ cmd'[r] = cmd[r]
      /\ caller' = caller
  BY <1>1, <1>2, IssueEffect
<1>4. resp[p] = <<>>
  BY <1>3 DEF Inv1, AnswersFit
<1>5. order \in [Proc -> Seq(Proc)] /\ srcDelay' \in [Proc -> Seq(Record)]
  BY <1>1, <1>2, CheckedTypes
<1> HIDE DEF order
<1>6. CASE Parking
  <2>1. launchList' \in [Proc -> Seq(Proc)]
    BY <1>2, <1>6 DEF TypeOK
  <2>2. TypeOK'
    BY <1>1, <1>2, <1>3, <1>5, <1>6, <2>1 DEF TypeOK
  <2>3. LaunchParked(p, q)
    BY <1>1, <1>3, <1>4, <1>6 DEF LaunchParked, Asks, Others, Same, commVars
  <2> QED BY <2>2, <2>3
<1>7. CASE Granting
  <2>1. waitList[q] = WaitPending(q) /\ waits \in SUBSET DOMAIN waitList[q]
    BY DEF Inv1, WaitListed, MatchWaitlaunch
  <2>2. WaitWaits(q)
    <3>1. DOMAIN <<>> = {}
      OBVIOUS
    <3> QED BY <1>7, <2>1, <3>1 DEF WaitPending
  <2>3. pc[q] = "result" /\ cmd[q].op = "WAITLAUNCH" /\ resp[q] = <<>> /\ p # q
    BY <1>3, <2>2 DEF WaitWaits, Blocked
  <2>4. waitList[q] = <<cmd[q].peer>> /\ cmd[q].peer \in Proc \cup {AnySource}
    <3>1. waitList[q] = <<cmd[q].peer>> /\ waitList[q] \in Seq(Proc \cup {AnySource})
      BY <1>2, <2>1, <2>2 DEF WaitPending, TypeOK
    <3>2. Len(<<cmd[q].peer>>) = 1 /\ <<cmd[q].peer>>[1] = cmd[q].peer
      OBVIOUS
    <3>3. waitList[q][1] \in Proc \cup {AnySource}
      BY <3>1, <3>2
    <3> QED BY <3>1, <3>2, <3>3
  <2>5. PopMatch(waitList[q], waits) = <<>>
    BY <1>7, <2>1, <2>4, OnlyMatchTaken
  <2> HIDE DEF waits
  <2>6. /\ waitList' \in [Proc -> Seq(Proc \cup {AnySource})]
        /\ \A b \in Proc : waitList'[b] = IF b = q THEN <<>> ELSE waitList[b]
    <3>1. waitList' = [waitList EXCEPT ![q] = <<>>]
      BY <1>7, <2>5
    <3>2. <<>> \in Seq(Proc \cup {AnySource})
      OBVIOUS
    <3> QED BY <1>2, <3>1, <3>2 DEF TypeOK
  <2>7. /\ resp' \in [Proc -> Seq(Proc \cup {AnySource})]
        /\ resp'[p] = Append(resp[p], AnySource) /\ resp'[q] = Append(resp[q], p)
        /\ \A r \in Proc : r \notin {p, q} => resp'[r] = resp[r]
    <3>1. Answer(Granted(p, q)) /\ p \in Proc \cup {AnySource}
      BY <1>7
    <3> QED BY <1>2, <2>3, <3>1, AnswerTwo
  <2>8. resp'[p] = <<AnySource>> /\ resp'[q] = <<p>>
    BY <1>4, <2>3, <2>7
  <2>9. launchDelay' \in [Proc -> Seq(Proc)]
    BY <1>5, <1>7, DelayTypes
  <2>10. TypeOK'
    BY <1>1, <1>2, <1>3, <1>5, <1>7, <2>6, <2>7, <2>9 DEF TypeOK
  <2>11. \A b \in Proc :
           /\ IsInjective(launchList'[b])
           /\ \A a \in Proc : Occurs(launchList'[b], a) <=> Occurs(launchList[b], a) /\ a # p
    <3>1. \A b \in Proc : ~ Occurs(launchList[b], p)
      BY <1>3 DEF Inv1, LaunchListed, LaunchWaits, Blocked
    <3> QED BY <1>7, <3>1 DEF Inv1, LaunchListed
  <2>12. cmd'[q].op = "WAITLAUNCH" /\ pc'[q] = "result"
    BY <1>3, <2>3
  <2>13. Others({p, q})
    BY <1>3, <2>7 DEF Others, Same
  <2>14. LaunchGranted(p, q)
    BY <1>1, <1>3, <1>4, <2>2, <2>3, <2>6, <2>8, <2>11, <2>12, <2>13
       DEF LaunchGranted, commVars
  <2> QED BY <2>10, <2>14
<1> QED BY <1>1, <1>6, <1>7

LEMMA WaitlaunchStep ==
  ASSUME Inv1, NEW q \in Proc, NEW src \in Proc \cup {AnySource}, HandleWaitlaunch(q, src)
  PROVE  TypeOK' /\ (WaitParked(q, src) \/ \E p \in Proc : LaunchGranted(p, q))
<1> DEFINE launches == MatchLaunch(launchList[q], Wanted(q, src))
           p == FirstMatch(launchList[q], launches)
           Granting ==
             /\ launches # {}
             /\ launchList' = [launchList EXCEPT ![q] = PopMatch(launchList[q], launches)]
             /\ launchDelay' = PopFront(launchDelay, q)
             /\ Answer(Granted(p, q))
             /\ UNCHANGED waitList
           Parking ==
             /\ waitList' = [waitList EXCEPT ![q] = Append(waitList[q], src)]
             /\ UNCHANGED <<resp, launchList, launchDelay>>
<1>1. /\ Issue(q, "WAITLAUNCH", src)
      /\ Granting \/ Parking
      /\ UNCHANGED <<plan, round, writeList, readList, pipes, opened, inPipe, srcDelay, bench>>
  BY DEF HandleWaitlaunch, commVars, pipeVars
<1>2. TypeOK
  BY DEF Inv1
<1>3. /\ prog' \in Program
      /\ pc' \in [Proc -> {"run", "result", "data", "timing", "sync"}]
      /\ cmd' \in [Proc -> Cmd]
      /\ pc[q] = "run" /\ pc'[q] = "result"
      /\ cmd'[q].op = "WAITLAUNCH" /\ cmd'[q].peer = src
      /\ \A r \in Proc : r # q => pc'[r] = pc[r] /\ cmd'[r] = cmd[r]
      /\ caller' = caller
  BY <1>1, <1>2, IssueEffect
<1>4. resp[q] = <<>>
  BY <1>3 DEF Inv1, AnswersFit
<1>5. CASE Parking
  <2>1. waitList' \in [Proc -> Seq(Proc \cup {AnySource})]
    BY <1>2, <1>5 DEF TypeOK
  <2>2. TypeOK'
    BY <1>1, <1>2, <1>3, <1>5, <2>1 DEF TypeOK
  <2>3. WaitParked(q, src)
    BY <1>1, <1>3, <1>4, <1>5 DEF WaitParked, Asks, Others, Same, commVars
  <2> QED BY <2>2, <2>3
<1>6. CASE Granting
  <2>1. launchList[q] \in Seq(Proc) /\ IsInjective(launchList[q])
    BY <1>2 DEF TypeOK, Inv1, LaunchListed
  <2>2. launches \in SUBSET DOMAIN launchList[q]
    BY DEF MatchLaunch
  <2>3. /\ p \in Proc /\ \E i \in launches : launchList[q][i] = p
        /\ PopMatch(launchList[q], launches) \in Seq(Proc)
        /\ IsInjective(PopMatch(launchList[q], launches))
        /\ ~ Occurs(PopMatch(launchList[q], launches), p)
        /\ \A y : y # p => (Occurs(PopMatch(launchList[q], launches), y) <=> Occurs(launchList[q], y))
    BY <1>6, <2>1, <2>2, MatchTaken
  <2>4. Occurs(launchList[q], p)
    BY <2>2, <2>3 DEF Occurs
  <2> DEFINE rest == PopMatch(launchList[q], launches)
  <2>5. /\ launchList' = [launchList EXCEPT ![q] = rest]
        /\ launchDelay' = PopFront(launchDelay, q)
        /\ Answer(Granted(p, q))
        /\ UNCHANGED waitList
    BY <1>6
  <2> HIDE DEF p, rest, launches
  <2>6. LaunchWaits(p, q)
    BY <2>3, <2>4 DEF Inv1, LaunchListed
  <2>7. pc[p] = "result" /\ cmd[p].op = "LAUNCH" /\ cmd[p].peer = q /\ resp[p] = <<>> /\ p # q
    BY <1>3, <2>6 DEF LaunchWaits, Blocked
  <2>8. rest \in Seq(Proc) /\ launchList' \in [Proc -> Seq(Proc)]
    BY <1>2, <2>3, <2>5 DEF TypeOK, rest
  <2>9. /\ resp' \in [Proc -> Seq(Proc \cup {AnySource})]
        /\ resp'[p] = Append(resp[p], AnySource) /\ resp'[q] = Append(resp[q], p)
        /\ \A r \in Proc : r \notin {p, q} => resp'[r] = resp[r]
    <3>1. Answer(Granted(p, q)) /\ p \in Proc \cup {AnySource}
      BY <2>3, <2>5
    <3> QED BY <1>2, <2>3, <2>7, <3>1, AnswerTwo
  <2>10. resp'[p] = <<AnySource>> /\ resp'[q] = <<p>>
    BY <1>4, <2>7, <2>9
  <2>11. launchDelay' \in [Proc -> Seq(Proc)]
    BY <1>2, <2>5, DelayTypes DEF TypeOK
  <2>12. TypeOK'
    BY <1>1, <1>2, <1>3, <2>5, <2>8, <2>9, <2>11 DEF TypeOK
  <2>13. \A b \in Proc :
           /\ IsInjective(launchList'[b])
           /\ \A a \in Proc : Occurs(launchList'[b], a) <=> Occurs(launchList[b], a) /\ a # p
    <3> TAKE b \in Proc
    <3>1. CASE b = q
      <4>1. launchList'[b] = rest
        BY <1>2, <2>5, <3>1 DEF TypeOK
      <4> QED BY <2>3, <3>1, <4>1 DEF rest
    <3>2. CASE b # q
      <4>1. launchList'[b] = launchList[b]
        BY <1>2, <2>5, <3>2 DEF TypeOK
      <4>2. ~ Occurs(launchList[b], p) /\ IsInjective(launchList[b])
        BY <2>3, <2>7, <3>2 DEF Inv1, LaunchListed, LaunchWaits
      <4> QED BY <4>1, <4>2
    <3> QED BY <3>1, <3>2
  <2>14. \A b \in Proc : waitList'[b] = IF b = q THEN <<>> ELSE waitList[b]
    <3>1. waitList[q] = <<>>
      BY <1>3 DEF Inv1, WaitListed, WaitPending, WaitWaits, Blocked
    <3> QED BY <2>5, <3>1
  <2>15. cmd'[p] = cmd[p] /\ pc'[p] = "result"
    BY <1>3, <2>3, <2>7
  <2>16. Others({p, q})
    BY <1>3, <2>9 DEF Others, Same
  <2>17. LaunchGranted(p, q)
    BY <1>1, <1>3, <1>4, <2>3, <2>6, <2>7, <2>10, <2>13, <2>14, <2>15, <2>16
       DEF LaunchGranted, commVars
  <2> QED BY <2>3, <2>12, <2>17
<1> QED BY <1>1, <1>5, <1>6

\* SEND and RECEIVE are answered at once.
LEMMA PipeStep ==
  ASSUME Inv1, NEW p \in Proc, NEW q \in Proc, HandleSend(p, q) \/ HandleReceive(p, q)
  PROVE  /\ TypeOK' /\ Quiet(p)
         /\ pc[p] = "run" /\ pc'[p] = "result" /\ cmd'[p].op \in {"SEND", "RECEIVE"}
         /\ UNCHANGED <<caller, inPipe>>
<1>1. PICK op \in {"SEND", "RECEIVE"} : Issue(p, op, q)
  BY DEF HandleSend, HandleReceive
<1>2. /\ Answer(Plain({p}))
      /\ pipes' \in {pipes \cup {<<p, q>>}, pipes \cup {<<q, p>>}}
      /\ srcDelay' \in {srcDelay, CheckedSource(p, "SEND", q)}
      /\ launchDelay' \in {launchDelay, CheckedOrder(p, "SEND", q)}
      /\ UNCHANGED <<plan, round, launchVars, commVars, opened, inPipe, bench>>
  BY DEF HandleSend, HandleReceive, pipeVars
<1>3. TypeOK
  BY DEF Inv1
<1>4. /\ prog' \in Program
      /\ pc' \in [Proc -> {"run", "result", "data", "timing", "sync"}]
      /\ cmd' \in [Proc -> Cmd]
      /\ pc[p] = "run" /\ pc'[p] = "result"
      /\ cmd'[p].op = op /\ cmd'[p].peer = q
      /\ \A r \in Proc : r # p => pc'[r] = pc[r] /\ cmd'[r] = cmd[r]
      /\ caller' = caller
  BY <1>1, <1>3, IssueEffect
<1>5. /\ resp' \in [Proc -> Seq(Proc \cup {AnySource})]
      /\ resp'[p] = Append(resp[p], AnySource)
      /\ \A r \in Proc : r # p => resp'[r] = resp[r]
  BY <1>2, <1>3, AnswerOne
<1>6. resp'[p] = <<AnySource>>
  <2>1. resp[p] = <<>>
    BY <1>4 DEF Inv1, AnswersFit
  <2> QED BY <1>5, <2>1
<1>7. srcDelay' \in [Proc -> Seq(Record)] /\ launchDelay' \in [Proc -> Seq(Proc)]
  <2>1. /\ CheckedSource(p, "SEND", q) \in [Proc -> Seq(Record)]
        /\ CheckedOrder(p, "SEND", q) \in [Proc -> Seq(Proc)]
    BY <1>3, CheckedTypes
  <2>2. srcDelay \in [Proc -> Seq(Record)] /\ launchDelay \in [Proc -> Seq(Proc)]
    BY <1>3 DEF TypeOK
  <2> QED BY <1>2, <2>1, <2>2
<1>8. pipes' \subseteq Proc \X Proc /\ opened' \subseteq pipes'
  BY <1>2, <1>3 DEF TypeOK
<1>9. TypeOK'
  BY <1>2, <1>3, <1>4, <1>5, <1>7, <1>8 DEF TypeOK, launchVars, commVars
<1>10. Quiet(p)
  <2>1. <<AnySource>> # <<>> /\ Len(<<AnySource>>) = 1
    OBVIOUS
  <2>2. Others({p})
    BY <1>4, <1>5 DEF Others, Same
  <2> QED BY <1>2, <1>4, <1>6, <2>1, <2>2 DEF Quiet
<1> QED BY <1>2, <1>4, <1>9, <1>10

\* What a pair leaves in the bench and the delay information.
LEMMA PairEffect ==
  ASSUME TypeOK, NEW p \in Proc, NEW q \in Proc, p # q, NEW flags \in SUBSET {"LAUNCH"},
         Pair(p, q, flags)
  PROVE  /\ bench' \in [Proc -> Seq(Record)] /\ srcDelay' \in [Proc -> Seq(Record)]
         /\ resp' \in [Proc -> Seq(Proc \cup {AnySource})]
         /\ \A r \in {p, q} : resp[r] = <<>> => resp'[r] = <<AnySource>>
         /\ \A r \in Proc : r \notin {p, q} => resp'[r] = resp[r]
<1>1. /\ bench' = [bench EXCEPT ![p] = Append(@, [op |-> flags, dst |-> q])]
      /\ srcDelay' = PopItem(srcDelay, p, q)
      /\ Answer(Plain({p, q}))
  BY DEF Pair
<1>2. bench' \in [Proc -> Seq(Record)]
  <2>1. [op |-> flags, dst |-> q] \in Record
    BY DEF Record
  <2> QED BY <1>1, <2>1 DEF TypeOK
<1>3. srcDelay' \in [Proc -> Seq(Record)]
  BY <1>1, PopItemType DEF TypeOK
<1>4. /\ resp' \in [Proc -> Seq(Proc \cup {AnySource})]
      /\ resp'[p] = Append(resp[p], AnySource) /\ resp'[q] = Append(resp[q], AnySource)
      /\ \A r \in Proc : r \notin {p, q} => resp'[r] = resp[r]
  BY <1>1, AnswerTwo
<1>5. \A r \in {p, q} : resp[r] = <<>> => resp'[r] = <<AnySource>>
  <2>1. Append(<<>>, AnySource) = <<AnySource>>
    OBVIOUS
  <2> QED BY <1>4, <2>1
<1> QED BY <1>2, <1>3, <1>4, <1>5

\* The entry of a READ or WRITE in a list of pending commands.
LEMMA CommEntryType ==
  ASSUME TypeOK, NEW p \in Proc, NEW src \in Proc
  PROVE  CommEntry(p, src) \in Pending /\ CommEntry(p, src).src = src
         /\ CommEntry(p, src).flags = Flags(cmd[p].op)
         /\ Flags(cmd[p].op) \in SUBSET {"LAUNCH"}
<1>1. cmd[p].nbytes \in Nat /\ Flags(cmd[p].op) \in SUBSET {"LAUNCH"}
  BY DEF TypeOK, Cmd, Flags
<1> QED BY <1>1 DEF CommEntry, Pending

\* The records of a transaction that is paired: one more, and one less.
PairRecorded(p, q) ==
  /\ bench' = [bench EXCEPT ![p] =
                 Append(@, [op |-> PairFlags(Flags(cmd[p].op), Flags(cmd[q].op)), dst |-> q])]
  /\ srcDelay' = PopItem(srcDelay, p, q)

LEMMA ReadStep ==
  ASSUME Inv1, NEW q \in Proc, HandleRead(q)
  PROVE  /\ TypeOK' /\ UNCHANGED <<plan, round, prog>>
         /\ \/ ReadParked(q) /\ UNCHANGED <<bench, srcDelay>>
            \/ \E p \in Proc : Paired(p, q) /\ PairRecorded(p, q)
<1> DEFINE src == cmd[q].peer
           writes == MatchComm(writeList[q], src, cmd[q].nbytes)
           write == FirstMatch(writeList[q], writes)
           x == CommEntry(q, src)
           flags == PairFlags(write.flags, Flags(cmd[q].op))
           Pairing ==
             /\ writes # {}
             /\ writeList' = [writeList EXCEPT ![q] = PopMatch(writeList[q], writes)]
             /\ Pair(src, q, flags)
             /\ UNCHANGED readList
           Parking ==
             /\ readList' = [readList EXCEPT ![q] = Append(readList[q], x)]
             /\ UNCHANGED <<resp, writeList, srcDelay, bench>>
<1>1. /\ IssueTiming(q, {"WAITLAUNCH", "RECEIVE"})
      /\ Pairing \/ Parking
      /\ UNCHANGED <<plan, round, launchList, waitList, pipes, opened, inPipe, launchDelay>>
  BY DEF HandleRead, launchVars, pipeVars, CommEntry
<1>2. TypeOK
  BY DEF Inv1
<1>3. /\ pc' \in [Proc -> {"run", "result", "data", "timing", "sync"}]
      /\ pc[q] = "timing" /\ pc'[q] = "sync" /\ cmd[q].op \in {"WAITLAUNCH", "RECEIVE"}
      /\ \A r \in Proc : r # q => pc'[r] = pc[r]
      /\ prog' = prog /\ cmd' = cmd /\ caller' = caller
  BY <1>1, <1>2, TimingEffect
<1>4. resp[q] = <<>> /\ src \in Proc
  BY <1>3 DEF Inv1, AnswersFit, PeersKnown
<1>5. x \in Pending /\ Flags(cmd[q].op) \in SUBSET {"LAUNCH"}
  BY <1>2, <1>4, CommEntryType
<1>6. CASE Parking
  <2> HIDE DEF x
  <2>1. readList' \in [Proc -> Seq(Pending)]
    BY <1>2, <1>5, <1>6 DEF TypeOK
  <2>2. TypeOK'
    BY <1>1, <1>2, <1>3, <1>6, <2>1 DEF TypeOK
  <2>3. ReadParked(q)
    BY <1>1, <1>3, <1>4, <1>6 DEF ReadParked, Times, Others, Same, launchVars, x
  <2> QED BY <1>1, <1>3, <1>6, <2>2, <2>3
<1>7. CASE Pairing
  <2> DEFINE rest == PopMatch(writeList[q], writes)
  <2>1. writeList[q] \in Seq(Pending) /\ IsInjective(writeList[q])
    BY <1>2 DEF TypeOK, Inv1, WriteListed
  <2>2. writes \in SUBSET DOMAIN writeList[q]
    BY DEF MatchComm
  <2>3. /\ write \in Pending /\ \E i \in writes : writeList[q][i] = write
        /\ rest \in Seq(Pending) /\ IsInjective(rest) /\ ~ Occurs(rest, write)
        /\ \A y : y # write => (Occurs(rest, y) <=> Occurs(writeList[q], y))
    BY <1>7, <2>1, <2>2, MatchTaken
  <2>4. write.src = src /\ Occurs(writeList[q], write)
    BY <2>3 DEF MatchComm, Occurs
  <2>5. /\ writeList' = [writeList EXCEPT ![q] = rest]
        /\ Pair(src, q, flags)
        /\ UNCHANGED readList
    BY <1>7
  <2>6. flags \in SUBSET {"LAUNCH"}
    BY <1>5, <2>3 DEF PairFlags, Pending
  <2> HIDE DEF writes, write, rest, flags
  <2>7. WritePending(write, q)
    BY <2>3, <2>4 DEF Inv1, WriteListed
  <2>8. WriteWaits(src, q)
    BY <2>4, <2>7 DEF WritePending
  <2>9. /\ pc[src] = "sync" /\ resp[src] = <<>> /\ src # q
        /\ cmd[src].op \in {"LAUNCH", "SEND"} /\ cmd[src].peer = q
    BY <1>3, <2>8 DEF WriteWaits
  <2>10. /\ bench' \in [Proc -> Seq(Record)] /\ srcDelay' \in [Proc -> Seq(Record)]
         /\ resp' \in [Proc -> Seq(Proc \cup {AnySource})]
         /\ \A r \in {src, q} : resp[r] = <<>> => resp'[r] = <<AnySource>>
         /\ \A r \in Proc : r \notin {src, q} => resp'[r] = resp[r]
    BY <1>2, <1>4, <2>5, <2>6, <2>9, PairEffect
  <2>11. writeList' \in [Proc -> Seq(Pending)]
    BY <1>2, <2>3, <2>5 DEF TypeOK
  <2>12. TypeOK'
    BY <1>1, <1>2, <1>3, <2>5, <2>10, <2>11 DEF TypeOK
  <2>13. ASSUME NEW b \in Proc
         PROVE  /\ IsInjective(writeList'[b])
                /\ \A e \in Pending : Occurs(writeList'[b], e) <=> Occurs(writeList[b], e) /\ e.src # src
    <3>1. \A e \in Pending : Occurs(writeList[b], e) /\ e.src = src => b = q /\ e = write
      <4> TAKE e \in Pending
      <4> HAVE Occurs(writeList[b], e) /\ e.src = src
      <4>1. WritePending(e, b) /\ e.src = src
        BY DEF Inv1, WriteListed
      <4>2. e = CommEntry(src, src) /\ WriteWaits(src, b)
        BY <4>1 DEF WritePending
      <4>3. b = q
        BY <2>9, <4>2 DEF WriteWaits
      <4> QED BY <2>4, <2>7, <4>2, <4>3 DEF WritePending
    <3>2. CASE b = q
      <4>1. writeList'[b] = rest
        BY <1>2, <2>5, <3>2 DEF TypeOK
      <4> QED BY <2>3, <2>4, <3>1, <3>2, <4>1
    <3>3. CASE b # q
      <4>1. writeList'[b] = writeList[b]
        BY <1>2, <2>5, <3>3 DEF TypeOK
      <4> QED BY <3>1, <3>3, <4>1 DEF Inv1, WriteListed
    <3> QED BY <3>2, <3>3
  <2>14. \A b \in Proc : readList'[b] = IF b = q THEN <<>> ELSE readList[b]
    <3>1. readList[q] = <<>>
      BY <1>3 DEF Inv1, ReadListed, ReadPending, ReadWaits
    <3> QED BY <2>5, <3>1
  <2>15. \A r \in {src, q} : pc'[r] = "sync" /\ resp'[r] = <<AnySource>>
    BY <1>3, <1>4, <2>9, <2>10
  <2>16. Others({src, q})
    BY <1>3, <2>10 DEF Others, Same
  <2>17. Paired(src, q)
    BY <1>1, <1>3, <1>4, <2>8, <2>9, <2>13, <2>14, <2>15, <2>16 DEF Paired, launchVars
  <2>18. PairRecorded(src, q)
    <3>1. write.flags = Flags(cmd[src].op)
      BY <2>4, <2>7 DEF WritePending, CommEntry
    <3>2. flags = PairFlags(Flags(cmd[src].op), Flags(cmd[q].op))
      BY <3>1 DEF flags
    <3> QED BY <2>5, <3>2 DEF Pair, PairRecorded
  <2> QED BY <1>1, <1>3, <1>4, <2>12, <2>17, <2>18
<1> QED BY <1>1, <1>6, <1>7

LEMMA WriteStep ==
  ASSUME Inv1, NEW p \in Proc, HandleWrite(p)
  PROVE  /\ TypeOK' /\ UNCHANGED <<plan, round, prog>>
         /\ \E q \in Proc : \/ WriteParked(p, q) /\ UNCHANGED <<bench, srcDelay>>
                            \/ Paired(p, q) /\ PairRecorded(p, q)
<1> DEFINE q == cmd[p].peer
           reads == MatchComm(readList[q], p, cmd[p].nbytes)
           read == FirstMatch(readList[q], reads)
           x == CommEntry(p, p)
           flags == PairFlags(Flags(cmd[p].op), read.flags)
           Pairing ==
             /\ reads # {}
             /\ readList' = [readList EXCEPT ![q] = PopMatch(readList[q], reads)]
             /\ Pair(p, q, flags)
             /\ UNCHANGED writeList
           Parking ==
             /\ writeList' = [writeList EXCEPT ![q] = Append(writeList[q], x)]
             /\ UNCHANGED <<resp, readList, srcDelay, bench>>
<1>1. /\ IssueTiming(p, {"LAUNCH", "SEND"})
      /\ Pairing \/ Parking
      /\ UNCHANGED <<plan, round, launchList, waitList, pipes, opened, inPipe, launchDelay>>
  BY DEF HandleWrite, launchVars, pipeVars, CommEntry
<1>2. TypeOK
  BY DEF Inv1
<1>3. /\ pc' \in [Proc -> {"run", "result", "data", "timing", "sync"}]
      /\ pc[p] = "timing" /\ pc'[p] = "sync" /\ cmd[p].op \in {"LAUNCH", "SEND"}
      /\ \A r \in Proc : r # p => pc'[r] = pc[r]
      /\ prog' = prog /\ cmd' = cmd /\ caller' = caller
  BY <1>1, <1>2, TimingEffect
<1>4. resp[p] = <<>> /\ q \in Proc
  BY <1>3 DEF Inv1, AnswersFit, PeersKnown
<1>5. x \in Pending /\ Flags(cmd[p].op) \in SUBSET {"LAUNCH"}
  BY <1>2, <1>4, CommEntryType
<1>6. CASE Parking
  <2> HIDE DEF x
  <2>1. writeList' \in [Proc -> Seq(Pending)]
    BY <1>2, <1>4, <1>5, <1>6 DEF TypeOK
  <2>2. TypeOK'
    BY <1>1, <1>2, <1>3, <1>6, <2>1 DEF TypeOK
  <2>3. WriteParked(p, q)
    BY <1>1, <1>3, <1>4, <1>6 DEF WriteParked, Times, Others, Same, launchVars, x
  <2> QED BY <1>1, <1>3, <1>4, <1>6, <2>2, <2>3
<1>7. CASE Pairing
  <2>1. readList[q] = ReadPending(q) /\ reads \in SUBSET DOMAIN readList[q]
    BY <1>4 DEF Inv1, ReadListed, MatchComm
  <2>2. ReadWaits(q)
    <3>1. DOMAIN <<>> = {}
      OBVIOUS
    <3> QED BY <1>7, <2>1, <3>1 DEF ReadPending
  <2>3. /\ pc[q] = "sync" /\ resp[q] = <<>> /\ p # q
        /\ cmd[q].op \in {"WAITLAUNCH", "RECEIVE"}
    BY <1>3, <2>2 DEF ReadWaits
  <2> DEFINE e == CommEntry(q, cmd[q].peer)
  <2>4. e \in Pending /\ e.src = cmd[q].peer /\ readList[q] = <<e>>
    <3>1. cmd[q].peer \in Proc
      BY <1>4, <2>3 DEF Inv1, PeersKnown
    <3> QED BY <1>2, <1>4, <2>1, <2>2, <3>1, CommEntryType DEF ReadPending
  <2> HIDE DEF e
  <2>5. PopMatch(readList[q], reads) = <<>> /\ read = e
    BY <1>7, <2>1, <2>4, OnlyMatchTaken
  <2>6. cmd[q].peer = p
    <3>1. PICK i \in DOMAIN <<e>> : <<e>>[i].src = p
      BY <1>7, <2>4 DEF MatchComm
    <3>2. <<e>>[i] = e
      OBVIOUS
    <3> QED BY <2>4, <3>1, <3>2
  <2>7. flags \in SUBSET {"LAUNCH"}
    BY <1>5, <2>4, <2>5 DEF PairFlags, Pending
  <2>8. readList' = [readList EXCEPT ![q] = <<>>] /\ Pair(p, q, flags) /\ UNCHANGED writeList
    BY <1>7, <2>5
  <2> HIDE DEF reads, read, flags
  <2>9. /\ readList' \in [Proc -> Seq(Pending)]
        /\ \A b \in Proc : readList'[b] = IF b = q THEN <<>> ELSE readList[b]
    <3>1. <<>> \in Seq(Pending)
      OBVIOUS
    <3> QED BY <1>2, <2>8, <3>1 DEF TypeOK
  <2>10. /\ bench' \in [Proc -> Seq(Record)] /\ srcDelay' \in [Proc -> Seq(Record)]
         /\ resp' \in [Proc -> Seq(Proc \cup {AnySource})]
         /\ \A r \in {p, q} : resp[r] = <<>> => resp'[r] = <<AnySource>>
         /\ \A r \in Proc : r \notin {p, q} => resp'[r] = resp[r]
    BY <1>2, <1>4, <2>3, <2>7, <2>8, PairEffect
  <2>11. TypeOK'
    BY <1>1, <1>2, <1>3, <2>8, <2>9, <2>10 DEF TypeOK
  <2>12. \A b \in Proc :
           /\ IsInjective(writeList'[b])
           /\ \A y \in Pending : Occurs(writeList'[b], y) <=> Occurs(writeList[b], y) /\ y.src # p
    <3>1. \A b \in Proc : \A y \in Pending : Occurs(writeList[b], y) => y.src # p
      BY <1>3 DEF Inv1, WriteListed, WritePending, WriteWaits
    <3> QED BY <2>8, <3>1 DEF Inv1, WriteListed
  <2>13. \A r \in {p, q} : pc'[r] = "sync" /\ resp'[r] = <<AnySource>>
    BY <1>3, <1>4, <2>3, <2>10
  <2>14. Others({p, q})
    BY <1>3, <2>10 DEF Others, Same
  <2>15. Paired(p, q)
    BY <1>1, <1>3, <1>4, <2>2, <2>3, <2>6, <2>9, <2>12, <2>13, <2>14 DEF Paired, launchVars
  <2>16. PairRecorded(p, q)
    <3>1. read.flags = Flags(cmd[q].op)
      BY <2>5 DEF e, CommEntry
    <3>2. flags = PairFlags(Flags(cmd[p].op), Flags(cmd[q].op))
      BY <3>1 DEF flags
    <3> QED BY <2>8, <3>2 DEF Pair, PairRecorded
  <2> QED BY <1>1, <1>3, <1>4, <2>11, <2>15, <2>16
<1> QED BY <1>1, <1>6, <1>7
-----------------------------------------------------------------------------
(* The processes.                                                          *)

\* Reading an answer.
LEMMA ReadResultStep ==
  ASSUME Inv1, NEW p \in Proc, ReadResult(p)
  PROVE  TypeOK' /\ Quiet(p)
<1>1. /\ pc[p] = "result" /\ resp[p] # <<>>
      /\ resp' = [resp EXCEPT ![p] = Tail(resp[p])]
      /\ pc' = [pc EXCEPT ![p] =
                  IF cmd[p].op \in {"SEND", "RECEIVE"} THEN "data" ELSE "timing"]
      /\ IF cmd[p].op = "WAITLAUNCH"
         THEN /\ caller' = [caller EXCEPT ![p] = Head(resp[p])]
              /\ cmd' = [cmd EXCEPT ![p] = [cmd[p] EXCEPT !.peer = Head(resp[p])]]
         ELSE UNCHANGED <<caller, cmd>>
      /\ UNCHANGED <<plan, round, prog, launchList, waitList, writeList, readList, pipes,
                     opened, inPipe, srcDelay, launchDelay, bench>>
  BY DEF ReadResult, launchVars, commVars, pipeVars
<1>2. TypeOK
  BY DEF Inv1
<1>3. resp[p] \in Seq(Proc \cup {AnySource}) /\ Len(resp[p]) = 1
  BY <1>1, <1>2 DEF TypeOK, Inv1, AnswersFit
<1>4. Tail(resp[p]) = <<>> /\ Tail(resp[p]) \in Seq(Proc \cup {AnySource})
  BY <1>3, TailOfOne
<1>5. resp' \in [Proc -> Seq(Proc \cup {AnySource})] /\ resp'[p] = <<>>
  BY <1>1, <1>2, <1>4 DEF TypeOK
<1>6. pc' \in [Proc -> {"run", "result", "data", "timing", "sync"}]
  BY <1>1, <1>2 DEF TypeOK
<1>7. /\ caller' \in [Proc -> Proc \cup {AnySource}] /\ cmd' \in [Proc -> Cmd]
      /\ cmd'[p].peer \in Proc
      /\ \A r \in Proc : r # p => cmd'[r] = cmd[r] /\ caller'[r] = caller[r]
  <2>1. CASE cmd[p].op = "WAITLAUNCH"
    <3>1. Head(resp[p]) \in Proc
      <4>1. resp[p] \in Seq(Proc)
        BY <1>1, <2>1 DEF Inv1, PeersKnown
      <4> QED BY <1>1, <4>1
    <3> DEFINE c == [cmd[p] EXCEPT !.peer = Head(resp[p])]
    <3>2. c \in Cmd /\ c.peer = Head(resp[p])
      <4>1. cmd[p] \in Cmd /\ Head(resp[p]) \in Peer
        BY <1>2, <3>1 DEF TypeOK, Peer
      <4> QED BY <4>1 DEF Cmd
    <3>3. cmd' = [cmd EXCEPT ![p] = c] /\ caller' = [caller EXCEPT ![p] = Head(resp[p])]
      BY <1>1, <2>1
    <3> HIDE DEF c
    <3> QED BY <1>2, <3>1, <3>2, <3>3 DEF TypeOK
  <2>2. CASE cmd[p].op # "WAITLAUNCH"
    BY <1>1, <1>2, <2>2 DEF TypeOK, Inv1, PeersKnown
  <2> QED BY <2>1, <2>2
<1>8. TypeOK'
  BY <1>1, <1>2, <1>5, <1>6, <1>7 DEF TypeOK
<1>9. Others({p})
  <2>1. \A r \in Proc : r # p => pc'[r] = pc[r] /\ resp'[r] = resp[r]
    BY <1>1, <1>2 DEF TypeOK
  <2> QED BY <1>7, <2>1 DEF Others, Same
<1>10. pc'[p] \in {"data", "timing"}
  BY <1>1, <1>2 DEF TypeOK
<1>11. Quiet(p)
  BY <1>1, <1>5, <1>7, <1>9, <1>10 DEF Quiet, launchVars, commVars
<1> QED BY <1>8, <1>11

LEMMA ReadSyncStep ==
  ASSUME Inv1, NEW p \in Proc, ReadSync(p)
  PROVE  TypeOK' /\ Quiet(p)
<1>1. /\ pc[p] = "sync" /\ resp[p] # <<>>
      /\ resp' = [resp EXCEPT ![p] = Tail(resp[p])]
      /\ pc' = [pc EXCEPT ![p] = "run"]
      /\ UNCHANGED <<plan, round, prog, cmd, caller, launchList, waitList, writeList, readList,
                     pipes, opened, inPipe, srcDelay, launchDelay, bench>>
  BY DEF ReadSync, launchVars, commVars, pipeVars
<1>2. TypeOK
  BY DEF Inv1
<1>3. resp[p] \in Seq(Proc \cup {AnySource}) /\ Len(resp[p]) = 1
  BY <1>1, <1>2 DEF TypeOK, Inv1, AnswersFit
<1>4. Tail(resp[p]) = <<>> /\ Tail(resp[p]) \in Seq(Proc \cup {AnySource})
  BY <1>3, TailOfOne
<1>5. /\ resp' \in [Proc -> Seq(Proc \cup {AnySource})] /\ resp'[p] = <<>>
      /\ pc' \in [Proc -> {"run", "result", "data", "timing", "sync"}] /\ pc'[p] = "run"
      /\ \A r \in Proc : r # p => pc'[r] = pc[r] /\ resp'[r] = resp[r]
  BY <1>1, <1>2, <1>4 DEF TypeOK
<1>6. TypeOK'
  BY <1>1, <1>2, <1>5 DEF TypeOK
<1>7. cmd[p].peer \in Proc
  BY <1>1 DEF Inv1, PeersKnown
<1>8. Quiet(p)
  BY <1>1, <1>5, <1>7 DEF Quiet, Others, Same, launchVars, commVars
<1> QED BY <1>6, <1>8

\* Opening a pipe, and moving a message.
LEMMA DataStep ==
  ASSUME Inv1, NEW p \in Proc, NEW q \in Proc, NEW r \in {p, q},
         \/ r = p /\ (OpenPipe(p, q) \/ WriteData(p, q))
         \/ r = q /\ ReadData(p, q)
  PROVE  TypeOK' /\ Quiet(r) /\ UNCHANGED <<cmd, caller, resp>>
<1>1. /\ pc[r] = "data" /\ pc' \in {pc, [pc EXCEPT ![r] = "timing"]}
      /\ inPipe' \in {inPipe, [inPipe EXCEPT ![<<p, q>>] = @ + 1]}
           \/ (inPipe[<<p, q>>] > 0 /\ inPipe' = [inPipe EXCEPT ![<<p, q>>] = @ - 1])
      /\ opened' \subseteq opened \cup pipes /\ opened \subseteq opened'
      /\ UNCHANGED <<plan, round, prog, cmd, caller, resp, launchList, waitList, writeList,
                     readList, pipes, srcDelay, launchDelay, bench>>
  BY DEF OpenPipe, WriteData, ReadData, AtData, clientVars, launchVars, commVars
<1>2. TypeOK /\ r \in Proc
  BY DEF Inv1
<1>3. inPipe' \in [Proc \X Proc -> Nat]
  <2>1. inPipe \in [Proc \X Proc -> Nat] /\ <<p, q>> \in Proc \X Proc
    BY <1>2 DEF TypeOK
  <2>2. inPipe[<<p, q>>] \in Nat
    BY <2>1
  <2> QED BY <1>1, <2>1, <2>2
<1>4. pc' \in [Proc -> {"run", "result", "data", "timing", "sync"}] /\ pc'[r] \in {"data", "timing"}
      /\ \A a \in Proc : a # r => pc'[a] = pc[a]
  BY <1>1, <1>2 DEF TypeOK
<1>5. opened' \subseteq pipes'
  BY <1>1, <1>2 DEF TypeOK
<1>6. TypeOK'
  BY <1>1, <1>2, <1>3, <1>4, <1>5 DEF TypeOK
<1>7. resp[r] = <<>> /\ cmd[r].peer \in Proc
  BY <1>1, <1>2 DEF Inv1, AnswersFit, PeersKnown
<1>8. Quiet(r)
  BY <1>1, <1>4, <1>7 DEF Quiet, Others, Same, launchVars, commVars
<1> QED BY <1>1, <1>6, <1>8
-----------------------------------------------------------------------------
(* The iteration, and all steps together.                                  *)

LEMMA Init1 == Init => Inv1
<1> SUFFICES ASSUME Init PROVE Inv1
  OBVIOUS
<1>1. /\ plan \in Plans /\ 1 \in DOMAIN plan /\ plan[1] \in Program
      /\ round = 1 /\ prog = plan[1]
  BY PlansAssumption DEF Init
<1>2. \A S : <<>> \in Seq(S)
  OBVIOUS
<1>3. \A p \in Proc : cmd[p] \in Cmd /\ cmd[p].op = "SEND" /\ cmd[p].peer = p
  BY DEF Init, Cmd, Op, Peer
<1>4. cmd \in [Proc -> Cmd]
  BY <1>3 DEF Init
<1>5. TypeOK
  <2>1. \A p \in Proc : Nothing[p] = <<>>
    BY DEF Nothing
  <2>2. \A S : Nothing \in [Proc -> Seq(S)]
    BY <1>2 DEF Nothing
  <2>3. inPipe \in [Proc \X Proc -> Nat]
    BY DEF Init
  <2> QED BY <1>1, <1>4, <2>2, <2>3 DEF Init, TypeOK
<1>6. PeersKnown /\ AnswersFit
  BY <1>3 DEF Init, PeersKnown, AnswersFit, Nothing
<1>7. IsInjective(<<>>) /\ \A x : ~ Occurs(<<>>, x)
  BY DEF IsInjective, Occurs
<1>8. Listed
  <2>1. \A p \in Proc : pc[p] = "run"
    BY DEF Init
  <2>2. /\ \A p, q \in Proc : ~ LaunchWaits(p, q)
        /\ \A p \in Proc : WaitPending(p) = <<>> /\ ReadPending(p) = <<>>
        /\ \A q \in Proc : \A e \in Pending : ~ WritePending(e, q)
    BY <2>1 DEF LaunchWaits, WaitPending, WaitWaits, ReadPending, ReadWaits, WritePending,
                WriteWaits, Blocked, Pending
  <2>3. \A p \in Proc : /\ launchList[p] = <<>> /\ waitList[p] = <<>>
                        /\ writeList[p] = <<>> /\ readList[p] = <<>>
    BY DEF Init, Nothing
  <2> QED BY <1>7, <2>2, <2>3 DEF Listed, LaunchListed, WaitListed, WriteListed, ReadListed
<1> QED BY <1>5, <1>6, <1>8 DEF Inv1, Listed

LEMMA NextRoundStep ==
  ASSUME Inv1, NextRound
  PROVE  Inv1'
<1>1. TypeOK
  BY DEF Inv1
<1>2. /\ plan' = plan /\ round' = round + 1 /\ plan \in Seq(Program)
      /\ round' \in DOMAIN plan /\ prog' = plan[round'] /\ prog' \in Program
  BY <1>1, PlansAssumption DEF TypeOK, NextRound
<1>3. /\ \A p \in Proc : pc[p] = "run"
      /\ caller' = [p \in Proc |-> AnySource]
      /\ launchList' = Nothing /\ waitList' = Nothing
      /\ writeList' = Nothing /\ readList' = Nothing
      /\ pipes' = {} /\ opened' = {}
      /\ inPipe' = [pipe \in Proc \X Proc |-> 0]
      /\ srcDelay' = bench /\ bench' = Nothing
      /\ UNCHANGED <<plan, pc, cmd, resp>>
  BY DEF NextRound, RoundOver
<1>4. launchDelay' \in [Proc -> Seq(Proc)]
  BY DEF NextRound, Arranges
<1>5. \A S : Nothing \in [Proc -> Seq(S)]
  <2>1. \A S : <<>> \in Seq(S)
    OBVIOUS
  <2> QED BY <2>1 DEF Nothing
<1>6. inPipe' \in [Proc \X Proc -> Nat]
  BY <1>3
<1>7. TypeOK'
  BY <1>1, <1>2, <1>3, <1>4, <1>5, <1>6 DEF TypeOK
<1>8. (PeersKnown /\ AnswersFit)'
  BY <1>3 DEF Inv1, PeersKnown, AnswersFit
<1>9. Listed'
  <2>1. IsInjective(<<>>) /\ \A x : ~ Occurs(<<>>, x)
    BY DEF IsInjective, Occurs
  <2>2. /\ \A p, q \in Proc : ~ LaunchWaits(p, q)'
        /\ \A p \in Proc : WaitPending(p)' = <<>> /\ ReadPending(p)' = <<>>
        /\ \A q \in Proc : \A e \in Pending : ~ WritePending(e, q)'
    BY <1>3 DEF LaunchWaits, WaitPending, WaitWaits, ReadPending, ReadWaits, WritePending,
                WriteWaits, Blocked, Pending
  <2>3. \A p \in Proc : /\ launchList'[p] = <<>> /\ waitList'[p] = <<>>
                        /\ writeList'[p] = <<>> /\ readList'[p] = <<>>
    BY <1>3 DEF Nothing
  <2> QED BY <2>1, <2>2, <2>3 DEF Listed, LaunchListed, WaitListed, WriteListed, ReadListed
<1> QED BY <1>7, <1>8, <1>9 DEF Inv1, Listed

\* The kinds of steps leave who waits where as it should be.
Kind(p, q, src) ==
  \/ Quiet(p) \/ LaunchParked(p, q) \/ WaitParked(p, src) \/ LaunchGranted(p, q)
  \/ WriteParked(p, q) \/ ReadParked(p) \/ Paired(p, q)

LEMMA KindInv1 ==
  ASSUME Inv1, TypeOK', NEW p \in Proc, NEW q \in Proc, NEW src, Kind(p, q, src)
  PROVE  Inv1'
<1>1. TypeOK /\ Listed /\ Fits
  BY DEF Inv1, Listed, Fits
<1>2. Fits'
  BY <1>1, StepFits DEF Kind
<1>3. Listed'
  BY <1>1, QuietLists, LaunchParkedLists, WaitParkedLists, LaunchGrantedLists, WriteParkedLists,
     ReadParkedLists, PairedLists DEF Kind
<1> QED BY <1>2, <1>3 DEF Inv1, Listed, Fits

LEMMA StepInv1 ==
  ASSUME Inv1, NEW p \in Proc, Step(p)
  PROVE  Inv1'
<1>1. CASE \E q \in Proc : HandleLaunch(p, q)
  BY <1>1, LaunchStep, KindInv1 DEF Kind
<1>2. CASE \E q \in Proc : HandleSend(p, q) \/ HandleReceive(p, q)
  BY <1>2, PipeStep, KindInv1 DEF Kind
<1>3. CASE \E src \in Proc \cup {AnySource} : HandleWaitlaunch(p, src)
  BY <1>3, WaitlaunchStep, KindInv1 DEF Kind
<1>4. CASE HandleRead(p)
  BY <1>4, ReadStep, KindInv1 DEF Kind
<1>5. CASE HandleWrite(p)
  BY <1>5, WriteStep, KindInv1 DEF Kind
<1>6. CASE ReadResult(p) \/ ReadSync(p)
  BY <1>6, ReadResultStep, ReadSyncStep, KindInv1 DEF Kind
<1>7. CASE \E q \in Proc : OpenPipe(p, q) \/ WriteData(p, q) \/ ReadData(q, p)
  BY <1>7, DataStep, KindInv1 DEF Kind
<1> QED BY <1>1, <1>2, <1>3, <1>4, <1>5, <1>6, <1>7 DEF Step, HandleCmd

LEMMA StutterInv1 == ASSUME Inv1, UNCHANGED vars PROVE Inv1'
<1>1. UNCHANGED <<plan, round, prog, pc, cmd, caller, resp, launchList, waitList, writeList,
                  readList, pipes, opened, inPipe, srcDelay, launchDelay, bench>>
  BY DEF vars, clientVars, launchVars, commVars, pipeVars
<1>2. (TypeOK /\ PeersKnown /\ AnswersFit)'
  BY <1>1 DEF Inv1, TypeOK, PeersKnown, AnswersFit
<1>3. \A a \in Proc : Same(a)
  BY <1>1 DEF Same
<1>4. \A q \in Proc : \A e \in Pending : WritePending(e, q)' <=> WritePending(e, q)
  BY <1>3, SameWaits DEF Pending
<1>5. \A a, b \in Proc : /\ LaunchWaits(a, b)' <=> LaunchWaits(a, b)
                         /\ WaitPending(a)' = WaitPending(a)
                         /\ ReadPending(a)' = ReadPending(a)
  BY <1>3, SameWaits
<1>6. (LaunchListed /\ WaitListed /\ WriteListed /\ ReadListed)'
  BY <1>1, <1>4, <1>5 DEF Inv1, LaunchListed, WaitListed, WriteListed, ReadListed
<1> QED BY <1>2, <1>6 DEF Inv1

LEMMA NextCases == [Next]_vars => \/ \E p \in Proc : Step(p)
                                  \/ NextRound
                                  \/ UNCHANGED vars
BY DEF Next, Stop

LEMMA Invariant1 == Spec => []Inv1
<1>1. Inv1 /\ [Next]_vars => Inv1'
  BY NextCases, StepInv1, NextRoundStep, StutterInv1
<1> QED BY Init1, <1>1, PTL DEF Spec

\* The variables of SyncMessage keep their types: a granted WAITLAUNCH names a
\* process, and the delay information of a round is made of records.
THEOREM TypeCorrect == Spec => []TypeOK
<1>1. Inv1 => TypeOK
  BY DEF Inv1
<1> QED BY <1>1, Invariant1, PTL

\* Every command gets exactly one answer: a blocked process has one command
\* pending, in the list of its kind and destination, or one unread answer, and
\* nothing else is pending.
THEOREM NoCommandLost == Spec => []NoCommandForgotten
<1>1. ASSUME Inv1, NEW p \in Proc
      PROVE  /\ Len(resp[p]) <= (IF pc[p] \in {"result", "sync"} THEN 1 ELSE 0)
             /\ Blocked(p, "LAUNCH", "result") => Places(launchList[cmd[p].peer], p) = 1
             /\ Blocked(p, "WAITLAUNCH", "result") => waitList[p] = <<cmd[p].peer>>
             /\ \A op \in {"LAUNCH", "SEND"} : Blocked(p, op, "sync") =>
                  Places(writeList[cmd[p].peer], CommEntry(p, p)) = 1
             /\ \A op \in {"WAITLAUNCH", "RECEIVE"} : Blocked(p, op, "sync") =>
                  readList[p] = <<CommEntry(p, cmd[p].peer)>>
  <2>1. Len(resp[p]) <= (IF pc[p] \in {"result", "sync"} THEN 1 ELSE 0)
    <3>1. CASE resp[p] = <<>>
      <4>1. Len(resp[p]) = 0
        BY <3>1
      <4> QED BY <4>1
    <3>2. CASE resp[p] # <<>>
      <4>1. pc[p] \in {"result", "sync"} /\ Len(resp[p]) = 1
        BY <1>1, <3>2 DEF Inv1, AnswersFit
      <4> QED BY <4>1
    <3> QED BY <3>1, <3>2
  <2>2. ASSUME Blocked(p, "LAUNCH", "result") PROVE Places(launchList[cmd[p].peer], p) = 1
    <3> DEFINE q == cmd[p].peer
    <3>1. q \in Proc /\ LaunchWaits(p, q)
      BY <1>1, <2>2 DEF Inv1, PeersKnown, Blocked, LaunchWaits
    <3> HIDE DEF q
    <3>2. launchList[q] \in Seq(Proc) /\ IsInjective(launchList[q]) /\ Occurs(launchList[q], p)
      BY <1>1, <3>1 DEF Inv1, TypeOK, LaunchListed
    <3>3. Places(launchList[q], p) = 1
      BY <3>2, OncePosition DEF Places
    <3> QED BY <3>3 DEF q
  <2>3. Blocked(p, "WAITLAUNCH", "result") => waitList[p] = <<cmd[p].peer>>
    BY <1>1 DEF Inv1, WaitListed, WaitPending, WaitWaits
  <2>4. ASSUME NEW op \in {"LAUNCH", "SEND"}, Blocked(p, op, "sync")
        PROVE  Places(writeList[cmd[p].peer], CommEntry(p, p)) = 1
    <3> DEFINE q == cmd[p].peer
               e == CommEntry(p, p)
    <3>1. q \in Proc /\ WriteWaits(p, q)
      BY <1>1, <2>4 DEF Inv1, PeersKnown, Blocked, WriteWaits
    <3>2. e \in Pending /\ e.src = p
      BY <1>1, CommEntryType DEF Inv1
    <3>3. WritePending(e, q)
      BY <3>1, <3>2 DEF WritePending
    <3> HIDE DEF q, e
    <3>4. writeList[q] \in Seq(Pending) /\ IsInjective(writeList[q]) /\ Occurs(writeList[q], e)
      BY <1>1, <3>1, <3>2, <3>3 DEF Inv1, TypeOK, WriteListed
    <3>5. Places(writeList[q], e) = 1
      BY <3>4, OncePosition DEF Places
    <3> QED BY <3>5 DEF q, e
  <2>5. \A op \in {"WAITLAUNCH", "RECEIVE"} : Blocked(p, op, "sync") =>
          readList[p] = <<CommEntry(p, cmd[p].peer)>>
    BY <1>1 DEF Inv1, ReadListed, ReadPending, ReadWaits, Blocked
  <2> QED BY <2>1, <2>2, <2>3, <2>4, <2>5
<1>2. ASSUME Inv1, NEW q \in Proc
      PROVE  /\ \A i \in DOMAIN launchList[q] :
                  LET p == launchList[q][i]
                  IN  Blocked(p, "LAUNCH", "result") /\ cmd[p].peer = q
             /\ waitList[q] # <<>> => Blocked(q, "WAITLAUNCH", "result")
             /\ \A i \in DOMAIN writeList[q] :
                  LET p == writeList[q][i].src
                  IN  \E op \in {"LAUNCH", "SEND"} : Blocked(p, op, "sync") /\ cmd[p].peer = q
             /\ readList[q] # <<>> =>
                  \E op \in {"WAITLAUNCH", "RECEIVE"} : Blocked(q, op, "sync")
  <2>1. launchList[q] \in Seq(Proc) /\ writeList[q] \in Seq(Pending)
    BY <1>2 DEF Inv1, TypeOK
  <2>2. ASSUME NEW i \in DOMAIN launchList[q]
        PROVE  LaunchWaits(launchList[q][i], q)
    <3>1. launchList[q][i] \in Proc /\ Occurs(launchList[q], launchList[q][i])
      BY <2>1 DEF Occurs
    <3> QED BY <1>2, <3>1 DEF Inv1, LaunchListed
  <2>3. ASSUME NEW i \in DOMAIN writeList[q]
        PROVE  WriteWaits(writeList[q][i].src, q)
    <3>1. writeList[q][i] \in Pending /\ Occurs(writeList[q], writeList[q][i])
      BY <2>1 DEF Occurs
    <3> QED BY <1>2, <3>1 DEF Inv1, WriteListed, WritePending
  <2>4. waitList[q] # <<>> => Blocked(q, "WAITLAUNCH", "result")
    BY <1>2 DEF Inv1, WaitListed, WaitPending, WaitWaits
  <2>5. readList[q] # <<>> => \E op \in {"WAITLAUNCH", "RECEIVE"} : Blocked(q, op, "sync")
    BY <1>2 DEF Inv1, ReadListed, ReadPending, ReadWaits, Blocked
  <2> QED BY <2>2, <2>3, <2>4, <2>5 DEF LaunchWaits, WriteWaits, Blocked
<1>3. Inv1 => NoCommandForgotten
  BY <1>1, <1>2 DEF NoCommandForgotten
<1> QED BY <1>3, Invariant1, PTL
-----------------------------------------------------------------------------
(***************************************************************************)
(* The two sides of a transaction: which launches and messages are in      *)
(* progress after each kind of step.                                       *)
(***************************************************************************)

\* The caller that r keeps.
Keeps(r) == cmd[r].op = "WAITLAUNCH" /\ pc[r] \in {"timing", "sync"} => caller[r] = cmd[r].peer

\* The step leaves the launches and messages r takes part in as they are.
Steady(r) ==
  /\ \A b \in Proc : /\ Launching(r, b)' <=> Launching(r, b)
                     /\ Serving(r, b)' <=> Serving(r, b)
                     /\ Sent(r, b)' <=> Sent(r, b)
                     /\ Received(r, b)' <=> Received(r, b)
  /\ Keeps(r)'

\* r takes part in no launch, and in no message in the pipe.
Apart(r) ==
  \A b \in Proc : ~ Launching(r, b) /\ ~ Serving(r, b) /\ ~ Sent(r, b) /\ ~ Received(r, b)

\* The part of Inv2 that the lists do not determine.
InPairs == CallerKept /\ LaunchInPairs /\ PipesInStep

LEMMA SameSteady ==
  ASSUME CallerKept, NEW r \in Proc, Same(r)
  PROVE  Steady(r)
<1>1. pc'[r] = pc[r] /\ cmd'[r] = cmd[r] /\ resp'[r] = resp[r] /\ caller'[r] = caller[r]
  BY DEF Same
<1>2. Keeps(r)'
  BY <1>1 DEF CallerKept, Keeps
<1>3. ASSUME NEW b \in Proc
      PROVE  /\ Launching(r, b)' <=> Launching(r, b)
             /\ Serving(r, b)' <=> Serving(r, b)
             /\ Sent(r, b)' <=> Sent(r, b)
             /\ Received(r, b)' <=> Received(r, b)
  BY <1>1 DEF Launching, Serving, Sent, Received
<1> QED BY <1>2, <1>3 DEF Steady

\* A process outside every transaction before and after the step.
LEMMA ApartSteady ==
  ASSUME NEW r \in Proc, Apart(r), Apart(r)', Keeps(r)'
  PROVE  Steady(r)
BY DEF Apart, Steady

LEMMA AsksSteady ==
  ASSUME NEW p \in Proc, NEW op, NEW q, Asks(p, op, q)
  PROVE  Steady(p)
<1>1. Apart(p) /\ Apart(p)' /\ Keeps(p)'
  BY DEF Asks, Apart, Keeps, Launching, Serving, Sent, Received
<1> QED BY <1>1, ApartSteady

LEMMA TimesSteady ==
  ASSUME CallerKept, NEW p \in Proc, Times(p)
  PROVE  Steady(p)
<1>1. /\ pc[p] = "timing" /\ pc'[p] = "sync" /\ resp[p] = <<>> /\ resp'[p] = <<>>
      /\ cmd'[p] = cmd[p] /\ caller'[p] = caller[p]
  BY DEF Times
<1>2. Keeps(p)'
  BY <1>1 DEF CallerKept, Keeps
<1>3. ASSUME NEW b \in Proc
      PROVE  /\ Launching(p, b)' <=> Launching(p, b)
             /\ Serving(p, b)' <=> Serving(p, b)
             /\ Sent(p, b)' <=> Sent(p, b)
             /\ Received(p, b)' <=> Received(p, b)
  BY <1>1 DEF Launching, Serving, Sent, Received
<1> QED BY <1>2, <1>3 DEF Steady

\* Printing SEND or RECEIVE.
LEMMA PipeSteady ==
  ASSUME Inv1, NEW p \in Proc, NEW q \in Proc, HandleSend(p, q) \/ HandleReceive(p, q)
  PROVE  Steady(p) /\ Others({p}) /\ UNCHANGED inPipe
<1>1. /\ Quiet(p) /\ UNCHANGED <<caller, inPipe>>
      /\ pc[p] = "run" /\ pc'[p] = "result" /\ cmd'[p].op \in {"SEND", "RECEIVE"}
  BY PipeStep
<1>2. Apart(p) /\ Apart(p)' /\ Keeps(p)'
  BY <1>1 DEF Apart, Keeps, Launching, Serving, Sent, Received
<1> QED BY <1>1, <1>2, ApartSteady DEF Quiet

LEMMA ReadResultSteady ==
  ASSUME Inv1, NEW p \in Proc, ReadResult(p)
  PROVE  Steady(p) /\ Others({p}) /\ UNCHANGED inPipe
<1>1. /\ pc[p] = "result" /\ resp[p] # <<>>
      /\ pc' = [pc EXCEPT ![p] =
                  IF cmd[p].op \in {"SEND", "RECEIVE"} THEN "data" ELSE "timing"]
      /\ IF cmd[p].op = "WAITLAUNCH"
         THEN /\ caller' = [caller EXCEPT ![p] = Head(resp[p])]
              /\ cmd' = [cmd EXCEPT ![p] = [cmd[p] EXCEPT !.peer = Head(resp[p])]]
         ELSE UNCHANGED <<caller, cmd>>
      /\ UNCHANGED inPipe
  BY DEF ReadResult, pipeVars
<1>2. TypeOK /\ Quiet(p)
  BY ReadResultStep DEF Inv1
<1>3. cmd[p] \in Cmd /\ cmd[p].op \in Op
  BY <1>2 DEF TypeOK, Cmd
<1>4. CASE cmd[p].op \in {"SEND", "RECEIVE"}
  <2>1. pc'[p] = "data" /\ cmd'[p] = cmd[p]
    BY <1>1, <1>2, <1>4 DEF TypeOK
  <2>2. Apart(p) /\ Apart(p)' /\ Keeps(p)'
    BY <1>1, <1>4, <2>1 DEF Apart, Keeps, Launching, Serving, Sent, Received
  <2> QED BY <1>1, <1>2, <2>2, ApartSteady DEF Quiet
<1>5. CASE cmd[p].op = "LAUNCH"
  <2>1. pc'[p] = "timing" /\ cmd'[p] = cmd[p]
    BY <1>1, <1>2, <1>5 DEF TypeOK
  <2>2. Steady(p)
    BY <1>1, <1>5, <2>1 DEF Steady, Keeps, Launching, Serving, Sent, Received
  <2> QED BY <1>1, <1>2, <2>2 DEF Quiet
<1>6. CASE cmd[p].op = "WAITLAUNCH"
  <2> DEFINE src == Head(resp[p])
  <2>1. resp[p] = <<src>>
    <3>1. resp[p] \in Seq(Proc \cup {AnySource}) /\ Len(resp[p]) = 1
      BY <1>1, <1>2 DEF TypeOK, Inv1, AnswersFit
    <3> QED BY <3>1, TailOfOne
  <2>2. pc'[p] = "timing"
    BY <1>1, <1>2, <1>6 DEF TypeOK
  <2>3. caller'[p] = src /\ cmd'[p] = [cmd[p] EXCEPT !.peer = src]
    BY <1>1, <1>2, <1>6 DEF TypeOK
  <2>4. cmd'[p].op = "WAITLAUNCH" /\ cmd'[p].peer = src
    BY <1>3, <1>6, <2>3 DEF Cmd
  <2>5. \A b \in Proc : resp[p] = <<b>> <=> src = b
    BY <2>1
  <2> HIDE DEF src
  <2>6. \A b \in Proc : Serving(p, b)' <=> Serving(p, b)
    BY <1>1, <1>6, <2>2, <2>3, <2>4, <2>5 DEF Serving
  <2>7. \A b \in Proc : /\ ~ Launching(p, b) /\ ~ Launching(p, b)'
                        /\ ~ Sent(p, b) /\ ~ Sent(p, b)'
                        /\ ~ Received(p, b) /\ ~ Received(p, b)'
    BY <1>6, <2>4 DEF Launching, Sent, Received
  <2>8. Keeps(p)'
    BY <2>3, <2>4 DEF Keeps
  <2> QED BY <1>1, <1>2, <2>6, <2>7, <2>8 DEF Steady, Quiet
<1> QED BY <1>3, <1>4, <1>5, <1>6 DEF Op

LEMMA ReadSyncSteady ==
  ASSUME Inv1, NEW p \in Proc, ReadSync(p)
  PROVE  Steady(p) /\ Others({p}) /\ UNCHANGED inPipe
<1>1. pc[p] = "sync" /\ resp[p] # <<>> /\ pc' = [pc EXCEPT ![p] = "run"] /\ UNCHANGED inPipe
  BY DEF ReadSync, pipeVars
<1>2. pc'[p] = "run" /\ Quiet(p)
  BY <1>1, ReadSyncStep DEF Inv1, TypeOK
<1>3. Apart(p) /\ Apart(p)' /\ Keeps(p)'
  BY <1>1, <1>2 DEF Apart, Keeps, Launching, Serving, Sent, Received
<1> QED BY <1>1, <1>2, <1>3, ApartSteady DEF Quiet

\* When every process is steady and the pipes are, so is what relates them.
LEMMA AllSteady ==
  ASSUME InPairs, \A r \in Proc : Steady(r), UNCHANGED inPipe
  PROVE  InPairs'
<1>1. \A a, b \in Proc : /\ Launching(a, b)' <=> Launching(a, b)
                         /\ Serving(a, b)' <=> Serving(a, b)
                         /\ Sent(a, b)' <=> Sent(a, b)
                         /\ Received(a, b)' <=> Received(a, b)
  BY DEF Steady
<1>2. CallerKept'
  BY DEF Steady, Keeps, CallerKept
<1>3. LaunchInPairs'
  BY <1>1 DEF InPairs, LaunchInPairs
<1>4. PipesInStep'
  <2>1. ASSUME NEW a \in Proc, NEW b \in Proc
        PROVE  /\ Received(b, a)' => Sent(a, b)'
               /\ inPipe'[<<a, b>>] \in {0, 1}
               /\ inPipe'[<<a, b>>] = 1 <=> Sent(a, b)' /\ ~ Received(b, a)'
    <3>1. inPipe'[<<a, b>>] = inPipe[<<a, b>>]
      OBVIOUS
    <3>2. /\ Received(b, a) => Sent(a, b)
          /\ inPipe[<<a, b>>] \in {0, 1}
          /\ inPipe[<<a, b>>] = 1 <=> Sent(a, b) /\ ~ Received(b, a)
      BY DEF InPairs, PipesInStep
    <3> QED BY <1>1, <3>1, <3>2
  <2> QED BY <2>1 DEF PipesInStep
<1> QED BY <1>2, <1>3, <1>4 DEF InPairs

LEMMA OneSteady ==
  ASSUME InPairs, NEW p \in Proc, Steady(p), Others({p}), UNCHANGED inPipe
  PROVE  InPairs'
<1>1. ASSUME NEW r \in Proc PROVE Steady(r)
  BY SameSteady DEF Others, InPairs
<1> QED BY <1>1, AllSteady

\* A grant makes both sides of the launch at once.
LEMMA GrantedInPairs ==
  ASSUME InPairs, NEW p \in Proc, NEW q \in Proc, LaunchGranted(p, q), UNCHANGED inPipe
  PROVE  InPairs' /\ \A a, b \in Proc : ~ Launching(a, b) /\ Launching(a, b)' => a = p /\ b = q
<1>1. /\ p # q
      /\ pc'[p] = "result" /\ cmd'[p].op = "LAUNCH" /\ cmd'[p].peer = q /\ resp'[p] = <<AnySource>>
      /\ pc'[q] = "result" /\ cmd'[q].op = "WAITLAUNCH" /\ resp'[q] = <<p>>
      /\ Apart(p) /\ Apart(q)
  <2>1. /\ p # q
        /\ pc'[p] = "result" /\ cmd'[p].op = "LAUNCH" /\ cmd'[p].peer = q /\ resp'[p] = <<AnySource>>
        /\ pc'[q] = "result" /\ cmd'[q].op = "WAITLAUNCH" /\ resp'[q] = <<p>>
        /\ pc[p] = "run" \/ (pc[p] = "result" /\ resp[p] = <<>>)
        /\ pc[q] = "run" \/ (pc[q] = "result" /\ resp[q] = <<>>)
    BY DEF LaunchGranted, LaunchWaits, WaitWaits, Blocked
  <2>2. ASSUME NEW r \in {p, q} PROVE Apart(r)
    <3>1. pc[r] = "run" \/ (pc[r] = "result" /\ resp[r] = <<>>)
      BY <2>1
    <3>2. \A b \in Proc : <<>> # <<b>>
      OBVIOUS
    <3> QED BY <3>1, <3>2 DEF Apart, Launching, Serving, Sent, Received
  <2> QED BY <2>1, <2>2
<1>2. \A r \in Proc : r \notin {p, q} => Steady(r)
  BY SameSteady DEF LaunchGranted, Others, InPairs
<1>3. \A b \in Proc : Launching(p, b)' <=> b = q
  <2>1. <<AnySource>> # <<>>
    OBVIOUS
  <2> QED BY <1>1, <2>1 DEF Launching
<1>4. \A a \in Proc : Serving(q, a)' <=> a = p
  <2>1. \A a \in Proc : <<p>> = <<a>> <=> a = p
    OBVIOUS
  <2> QED BY <1>1, <2>1 DEF Serving
<1>5. /\ \A b \in Proc : ~ Serving(p, b)' /\ ~ Launching(q, b)'
      /\ \A r \in {p, q}, b \in Proc : ~ Sent(r, b)' /\ ~ Received(r, b)'
  BY <1>1 DEF Serving, Launching, Sent, Received
<1>6. CallerKept'
  <2>1. \A r \in Proc : Keeps(r)'
    BY <1>1, <1>2 DEF Steady, Keeps
  <2> QED BY <2>1 DEF CallerKept, Keeps
<1>7. \A a, b \in Proc : /\ Launching(a, b)' <=> Launching(a, b) \/ (a = p /\ b = q)
                         /\ Serving(b, a)' <=> Serving(b, a) \/ (a = p /\ b = q)
                         /\ Sent(a, b)' <=> Sent(a, b)
                         /\ Received(b, a)' <=> Received(b, a)
  BY <1>1, <1>2, <1>3, <1>4, <1>5 DEF Steady, Apart
<1>8. LaunchInPairs'
  BY <1>7 DEF InPairs, LaunchInPairs
<1>9. PipesInStep'
  <2>1. ASSUME NEW a \in Proc, NEW b \in Proc
        PROVE  /\ Received(b, a)' => Sent(a, b)'
               /\ inPipe'[<<a, b>>] \in {0, 1}
               /\ inPipe'[<<a, b>>] = 1 <=> Sent(a, b)' /\ ~ Received(b, a)'
    <3>1. inPipe'[<<a, b>>] = inPipe[<<a, b>>]
      OBVIOUS
    <3>2. /\ Received(b, a) => Sent(a, b)
          /\ inPipe[<<a, b>>] \in {0, 1}
          /\ inPipe[<<a, b>>] = 1 <=> Sent(a, b) /\ ~ Received(b, a)
      BY DEF InPairs, PipesInStep
    <3> QED BY <1>7, <3>1, <3>2
  <2> QED BY <2>1 DEF PipesInStep
<1> QED BY <1>6, <1>7, <1>8, <1>9 DEF InPairs

\* A WRITE and a READ that are paired are the two ends of one transaction, so
\* pairing them ends it on both sides.
LEMMA PairedInPairs ==
  ASSUME InPairs, NEW p \in Proc, NEW q \in Proc, Paired(p, q), UNCHANGED inPipe
  PROVE  InPairs' /\ \A a, b \in Proc : Launching(a, b)' => Launching(a, b)
<1>1. /\ p # q
      /\ cmd[p].op \in {"LAUNCH", "SEND"} /\ cmd[p].peer = q
      /\ cmd[q].op \in {"WAITLAUNCH", "RECEIVE"} /\ cmd[q].peer = p
      /\ pc[p] = "timing" \/ (pc[p] = "sync" /\ resp[p] = <<>>)
      /\ pc[q] = "timing" \/ (pc[q] = "sync" /\ resp[q] = <<>>)
  BY DEF Paired, WriteWaits, ReadWaits
<1>2. \A r \in {p, q} : pc'[r] = "sync" /\ resp'[r] # <<>> /\ cmd'[r] = cmd[r] /\ caller'[r] = caller[r]
  <2>1. <<AnySource>> # <<>>
    OBVIOUS
  <2> QED BY <2>1 DEF Paired
<1>3. \A r \in Proc : r \notin {p, q} => Steady(r)
  BY SameSteady DEF Paired, Others, InPairs
<1>4. Apart(p)' /\ Apart(q)'
  <2>1. ASSUME NEW r \in {p, q}, NEW b \in Proc
        PROVE  ~ Launching(r, b)' /\ ~ Serving(r, b)' /\ ~ Sent(r, b)' /\ ~ Received(r, b)'
    BY <1>2 DEF Launching, Serving, Sent, Received
  <2> QED BY <2>1 DEF Apart
<1>5. CallerKept'
  <2>1. ASSUME NEW r \in {p, q} PROVE Keeps(r)'
    BY <1>1, <1>2 DEF InPairs, CallerKept, Keeps
  <2>2. \A r \in Proc : Keeps(r)'
    BY <1>3, <2>1 DEF Steady
  <2> QED BY <2>2 DEF CallerKept, Keeps
<1>6. \A b \in Proc : /\ Launching(p, b) => b = q
                      /\ Sent(p, b) => b = q
                      /\ ~ Serving(p, b) /\ ~ Received(p, b)
                      /\ ~ Launching(q, b) /\ ~ Sent(q, b)
                      /\ Received(q, b) => b = p
  BY <1>1 DEF Launching, Serving, Sent, Received
<1>7. \A b \in Proc : Serving(q, b) => b = p
  BY <1>1 DEF Serving, InPairs, CallerKept
<1>8. Sent(p, q) => Received(q, p)
  <2>1. ASSUME Sent(p, q), cmd[q].op = "WAITLAUNCH" PROVE FALSE
    <3>1. caller[q] = p
      BY <1>1, <2>1 DEF InPairs, CallerKept
    <3>2. Serving(q, p)
      BY <1>1, <2>1, <3>1 DEF Serving
    <3>3. Launching(p, q)
      BY <3>2 DEF InPairs, LaunchInPairs
    <3> QED BY <2>1, <3>3 DEF Launching, Sent
  <2>2. cmd[q].op = "RECEIVE" => Received(q, p)
    BY <1>1 DEF Received
  <2> QED BY <1>1, <2>1, <2>2
<1>9. \A a, b \in Proc : /\ Launching(a, b)' <=> Launching(a, b) /\ a \notin {p, q}
                         /\ Serving(b, a)' <=> Serving(b, a) /\ b \notin {p, q}
                         /\ Sent(a, b)' <=> Sent(a, b) /\ a \notin {p, q}
                         /\ Received(b, a)' <=> Received(b, a) /\ b \notin {p, q}
  BY <1>3, <1>4 DEF Steady, Apart
<1>10. LaunchInPairs'
  BY <1>6, <1>7, <1>9 DEF InPairs, LaunchInPairs
<1>11. PipesInStep'
  <2>1. ASSUME NEW a \in Proc, NEW b \in Proc
        PROVE  /\ Received(b, a)' => Sent(a, b)'
               /\ inPipe'[<<a, b>>] \in {0, 1}
               /\ inPipe'[<<a, b>>] = 1 <=> Sent(a, b)' /\ ~ Received(b, a)'
    <3>1. inPipe'[<<a, b>>] = inPipe[<<a, b>>]
      OBVIOUS
    <3>2. /\ Received(b, a) => Sent(a, b)
          /\ inPipe[<<a, b>>] \in {0, 1}
          /\ inPipe[<<a, b>>] = 1 <=> Sent(a, b) /\ ~ Received(b, a)
      BY DEF InPairs, PipesInStep
    <3>3. Received(b, a)' => Sent(a, b)'
      BY <1>6, <1>9, <3>2
    <3>4. Sent(a, b) /\ ~ Received(b, a) <=> Sent(a, b)' /\ ~ Received(b, a)'
      BY <1>6, <1>8, <1>9
    <3> QED BY <3>1, <3>2, <3>3, <3>4
  <2> QED BY <2>1 DEF PipesInStep
<1> QED BY <1>5, <1>9, <1>10, <1>11 DEF InPairs

\* Moving a message through a pipe.
LEMMA DataInPairs ==
  ASSUME Inv2, NEW p \in Proc, NEW q \in Proc,
         OpenPipe(p, q) \/ WriteData(p, q) \/ ReadData(p, q)
  PROVE  InPairs' /\ \A a, b \in Proc : Launching(a, b)' => Launching(a, b)
<1>1. TypeOK /\ InPairs /\ Inv1 /\ UNCHANGED <<cmd, caller, resp>>
  BY DEF Inv2, Inv1, InPairs, OpenPipe, WriteData, ReadData, clientVars
<1>2. inPipe \in [Proc \X Proc -> Nat] /\ <<p, q>> \in Proc \X Proc
  BY <1>1 DEF TypeOK
<1>3. /\ Received(q, p) => Sent(p, q)
      /\ inPipe[<<p, q>>] \in {0, 1}
      /\ inPipe[<<p, q>>] = 1 <=> Sent(p, q) /\ ~ Received(q, p)
  BY <1>1 DEF InPairs, PipesInStep
<1>4. CASE OpenPipe(p, q)
  <2>1. UNCHANGED <<pc, inPipe>>
    BY <1>4 DEF OpenPipe, clientVars
  <2>2. \A r \in Proc : Steady(r)
    BY <1>1, <2>1, SameSteady DEF InPairs, Same
  <2> QED BY <1>1, <2>1, <2>2, AllSteady DEF Steady
<1>5. CASE WriteData(p, q) \/ ReadData(p, q)
  <2>0. PICK r \in {p, q} : (r = p /\ WriteData(p, q)) \/ (r = q /\ ReadData(p, q))
    BY <1>5
  <2>1. /\ r \in Proc /\ pc[r] = "data" /\ pc' = [pc EXCEPT ![r] = "timing"]
        /\ cmd[r].op \in {"SEND", "RECEIVE"}
    BY <2>0 DEF WriteData, ReadData, AtData
  <2>2. pc'[r] = "timing" /\ \A a \in Proc : a # r => pc'[a] = pc[a]
    BY <1>1, <2>1 DEF TypeOK
  <2>3. \A a \in Proc : a # r => Steady(a)
    BY <1>1, <2>2, SameSteady DEF InPairs, Same
  <2>4. Keeps(r)'
    BY <1>1, <2>1 DEF Keeps
  <2>5. \A b \in Proc : /\ ~ Launching(r, b) /\ ~ Launching(r, b)'
                        /\ ~ Serving(r, b) /\ ~ Serving(r, b)'
    BY <1>1, <2>1 DEF Launching, Serving
  <2>6. CallerKept'
    <3>1. \A a \in Proc : Keeps(a)'
      BY <2>3, <2>4 DEF Steady
    <3> QED BY <3>1 DEF CallerKept, Keeps
  <2>7. \A a, b \in Proc : /\ Launching(a, b)' <=> Launching(a, b)
                           /\ Serving(b, a)' <=> Serving(b, a)
    BY <2>3, <2>5 DEF Steady
  <2>8. LaunchInPairs'
    BY <1>1, <2>7 DEF InPairs, LaunchInPairs
  <2>9. \A b \in Proc : ~ Sent(r, b) /\ ~ Received(r, b)
    BY <2>1 DEF Sent, Received
  <2>10. CASE r = p /\ WriteData(p, q)
    <3>1. r = p /\ cmd[p].op = "SEND" /\ cmd[p].peer = q
      BY <2>10 DEF WriteData, AtData
    <3>2. \A b \in Proc : (Sent(p, b)' <=> b = q) /\ ~ Received(p, b)'
      BY <1>1, <2>2, <3>1 DEF Sent, Received
    <3>3. \A a, b \in Proc : /\ Sent(a, b)' <=> Sent(a, b) \/ (a = p /\ b = q)
                             /\ Received(b, a)' <=> Received(b, a)
      BY <2>3, <2>9, <3>1, <3>2 DEF Steady
    <3>4. inPipe[<<p, q>>] = 0 /\ ~ Sent(p, q) /\ ~ Received(q, p)
      BY <1>3, <2>9, <3>1
    <3>5. inPipe' = [inPipe EXCEPT ![<<p, q>>] = 1]
      <4>1. inPipe' = [inPipe EXCEPT ![<<p, q>>] = inPipe[<<p, q>>] + 1]
        BY <2>10 DEF WriteData
      <4> QED BY <3>4, <4>1
    <3>6. PipesInStep'
      <4>1. ASSUME NEW a \in Proc, NEW b \in Proc
            PROVE  /\ Received(b, a)' => Sent(a, b)'
                   /\ inPipe'[<<a, b>>] \in {0, 1}
                   /\ inPipe'[<<a, b>>] = 1 <=> Sent(a, b)' /\ ~ Received(b, a)'
        <5>1. /\ Received(b, a) => Sent(a, b)
              /\ inPipe[<<a, b>>] \in {0, 1}
              /\ inPipe[<<a, b>>] = 1 <=> Sent(a, b) /\ ~ Received(b, a)
          BY <1>1 DEF InPairs, PipesInStep
        <5>2. CASE a = p /\ b = q
          <6>1. inPipe'[<<a, b>>] = 1
            BY <1>2, <3>5, <5>2
          <6> QED BY <3>3, <3>4, <5>2, <6>1
        <5>3. CASE ~ (a = p /\ b = q)
          <6>1. inPipe'[<<a, b>>] = inPipe[<<a, b>>]
            BY <1>2, <3>5, <5>3
          <6> QED BY <3>3, <5>1, <5>3, <6>1
        <5> QED BY <5>2, <5>3
      <4> QED BY <4>1 DEF PipesInStep
    <3> QED BY <2>6, <2>7, <2>8, <3>6 DEF InPairs
  <2>11. CASE r = q /\ ReadData(p, q)
    <3>1. r = q /\ cmd[q].op = "RECEIVE" /\ cmd[q].peer = p
      BY <2>11 DEF ReadData, AtData
    <3>2. \A b \in Proc : ~ Sent(q, b)' /\ (Received(q, b)' <=> b = p)
      BY <1>1, <2>2, <3>1 DEF Sent, Received
    <3>3. \A a, b \in Proc : /\ Sent(a, b)' <=> Sent(a, b)
                             /\ Received(b, a)' <=> Received(b, a) \/ (a = p /\ b = q)
      BY <2>3, <2>9, <3>1, <3>2 DEF Steady
    <3>4. inPipe[<<p, q>>] = 1 /\ Sent(p, q) /\ ~ Received(q, p)
      BY <1>3, <2>11 DEF ReadData
    <3>5. inPipe' = [inPipe EXCEPT ![<<p, q>>] = 0]
      <4>1. inPipe' = [inPipe EXCEPT ![<<p, q>>] = inPipe[<<p, q>>] - 1]
        BY <2>11 DEF ReadData
      <4> QED BY <3>4, <4>1
    <3>6. PipesInStep'
      <4>1. ASSUME NEW a \in Proc, NEW b \in Proc
            PROVE  /\ Received(b, a)' => Sent(a, b)'
                   /\ inPipe'[<<a, b>>] \in {0, 1}
                   /\ inPipe'[<<a, b>>] = 1 <=> Sent(a, b)' /\ ~ Received(b, a)'
        <5>1. /\ Received(b, a) => Sent(a, b)
              /\ inPipe[<<a, b>>] \in {0, 1}
              /\ inPipe[<<a, b>>] = 1 <=> Sent(a, b) /\ ~ Received(b, a)
          BY <1>1 DEF InPairs, PipesInStep
        <5>2. CASE a = p /\ b = q
          <6>1. inPipe'[<<a, b>>] = 0
            BY <1>2, <3>5, <5>2
          <6> QED BY <3>3, <3>4, <5>2, <6>1
        <5>3. CASE ~ (a = p /\ b = q)
          <6>1. inPipe'[<<a, b>>] = inPipe[<<a, b>>]
            BY <1>2, <3>5, <5>3
          <6> QED BY <3>3, <5>1, <5>3, <6>1
        <5> QED BY <5>2, <5>3
      <4> QED BY <4>1 DEF PipesInStep
    <3> QED BY <2>6, <2>7, <2>8, <3>6 DEF InPairs
  <2> QED BY <2>0, <2>10, <2>11
<1> QED BY <1>4, <1>5

\* Nobody takes part in anything between two rounds.
LEMMA NextRoundInPairs ==
  ASSUME Inv2, NextRound
  PROVE  InPairs' /\ \A a, b \in Proc : ~ Launching(a, b)'
<1>1. /\ \A p \in Proc : pc'[p] = "run"
      /\ inPipe' = [pipe \in Proc \X Proc |-> 0]
  BY DEF NextRound, RoundOver
<1>2. \A a, b \in Proc : ~ Launching(a, b)' /\ ~ Serving(a, b)' /\ ~ Sent(a, b)' /\ ~ Received(a, b)'
  BY <1>1 DEF Launching, Serving, Sent, Received
<1>3. CallerKept'
  BY <1>1 DEF CallerKept
<1>4. LaunchInPairs'
  BY <1>2 DEF LaunchInPairs
<1>5. PipesInStep'
  <2>1. ASSUME NEW a \in Proc, NEW b \in Proc
        PROVE  /\ Received(b, a)' => Sent(a, b)'
               /\ inPipe'[<<a, b>>] \in {0, 1}
               /\ inPipe'[<<a, b>>] = 1 <=> Sent(a, b)' /\ ~ Received(b, a)'
    <3>1. inPipe'[<<a, b>>] = 0
      BY <1>1
    <3> QED BY <1>2, <3>1
  <2> QED BY <2>1 DEF PipesInStep
<1> QED BY <1>2, <1>3, <1>4, <1>5 DEF InPairs

LEMMA Init2 == Init => Inv2
<1> SUFFICES ASSUME Init PROVE Inv2
  OBVIOUS
<1>1. /\ \A p \in Proc : pc[p] = "run"
      /\ inPipe = [pipe \in Proc \X Proc |-> 0]
  BY DEF Init
<1>2. \A a, b \in Proc : ~ Launching(a, b) /\ ~ Serving(a, b) /\ ~ Sent(a, b) /\ ~ Received(a, b)
  BY <1>1 DEF Launching, Serving, Sent, Received
<1>3. CallerKept /\ LaunchInPairs
  BY <1>1, <1>2 DEF CallerKept, LaunchInPairs
<1>4. PipesInStep
  <2>1. ASSUME NEW a \in Proc, NEW b \in Proc
        PROVE  /\ Received(b, a) => Sent(a, b)
               /\ inPipe[<<a, b>>] \in {0, 1}
               /\ inPipe[<<a, b>>] = 1 <=> Sent(a, b) /\ ~ Received(b, a)
    <3>1. inPipe[<<a, b>>] = 0
      BY <1>1
    <3> QED BY <1>2, <3>1
  <2> QED BY <2>1 DEF PipesInStep
<1> QED BY <1>3, <1>4, Init1 DEF Inv2

\* When p is steady, so are the launches.
LEMMA OneSteadyLaunches ==
  ASSUME InPairs, NEW p \in Proc, Steady(p), Others({p})
  PROVE  \A a, b \in Proc : Launching(a, b)' => Launching(a, b)
<1>1. ASSUME NEW r \in Proc PROVE Steady(r)
  BY SameSteady DEF Others, InPairs
<1> QED BY <1>1 DEF Steady

\* The launches that a step of p grants.
Grants(p, a, b) ==
  \/ p = a /\ HandleLaunch(a, b)
  \/ p = b /\ \E src \in Proc \cup {AnySource} : HandleWaitlaunch(b, src)

\* Both sides of every transaction stay in step, and no action but the grant of
\* a launch begins one.
LEMMA StepInPairs ==
  ASSUME Inv2, NEW p \in Proc, Step(p)
  PROVE  InPairs' /\ \A a, b \in Proc : ~ Launching(a, b) /\ Launching(a, b)' => Grants(p, a, b)
<1>1. Inv1 /\ InPairs /\ CallerKept
  BY DEF Inv2, InPairs
<1>2. CASE \E q \in Proc : HandleLaunch(p, q)
  <2>1. PICK q \in Proc : HandleLaunch(p, q)
    BY <1>2
  <2>2. UNCHANGED inPipe /\ (LaunchParked(p, q) \/ LaunchGranted(p, q))
    BY <1>1, <2>1, LaunchStep DEF HandleLaunch, pipeVars
  <2>3. CASE LaunchParked(p, q)
    <3>1. Steady(p) /\ Others({p})
      BY <2>3, AsksSteady DEF LaunchParked, Asks
    <3> QED BY <1>1, <2>2, <3>1, OneSteady, OneSteadyLaunches
  <2>4. CASE LaunchGranted(p, q)
    BY <1>1, <2>1, <2>2, <2>4, GrantedInPairs DEF Grants
  <2> QED BY <2>2, <2>3, <2>4
<1>3. CASE \E src \in Proc \cup {AnySource} : HandleWaitlaunch(p, src)
  <2>1. PICK src \in Proc \cup {AnySource} : HandleWaitlaunch(p, src)
    BY <1>3
  <2>2. UNCHANGED inPipe /\ (WaitParked(p, src) \/ \E a \in Proc : LaunchGranted(a, p))
    BY <1>1, <2>1, WaitlaunchStep DEF HandleWaitlaunch, pipeVars
  <2>3. CASE WaitParked(p, src)
    <3>1. Steady(p) /\ Others({p})
      BY <2>3, AsksSteady DEF WaitParked, Asks
    <3> QED BY <1>1, <2>2, <3>1, OneSteady, OneSteadyLaunches
  <2>4. CASE \E a \in Proc : LaunchGranted(a, p)
    BY <1>1, <2>1, <2>2, <2>4, GrantedInPairs DEF Grants
  <2> QED BY <2>2, <2>3, <2>4
<1>4. CASE \E q \in Proc : HandleSend(p, q) \/ HandleReceive(p, q)
  BY <1>1, <1>4, PipeSteady, OneSteady, OneSteadyLaunches
<1>5. CASE HandleRead(p)
  <2>1. UNCHANGED inPipe /\ (ReadParked(p) \/ \E a \in Proc : Paired(a, p))
    BY <1>1, <1>5, ReadStep DEF HandleRead, pipeVars
  <2>2. CASE ReadParked(p)
    <3>1. Steady(p) /\ Others({p})
      BY <1>1, <2>2, TimesSteady DEF ReadParked, Times
    <3> QED BY <1>1, <2>1, <3>1, OneSteady, OneSteadyLaunches
  <2>3. CASE \E a \in Proc : Paired(a, p)
    BY <1>1, <2>1, <2>3, PairedInPairs
  <2> QED BY <2>1, <2>2, <2>3
<1>6. CASE HandleWrite(p)
  <2>1. PICK q \in Proc : WriteParked(p, q) \/ Paired(p, q)
    BY <1>1, <1>6, WriteStep
  <2>2. UNCHANGED inPipe
    BY <1>6 DEF HandleWrite, pipeVars
  <2>3. CASE WriteParked(p, q)
    <3>1. Steady(p) /\ Others({p})
      BY <1>1, <2>3, TimesSteady DEF WriteParked, Times
    <3> QED BY <1>1, <2>2, <3>1, OneSteady, OneSteadyLaunches
  <2>4. CASE Paired(p, q)
    BY <1>1, <2>2, <2>4, PairedInPairs
  <2> QED BY <2>1, <2>3, <2>4
<1>7. CASE ReadResult(p) \/ ReadSync(p)
  BY <1>1, <1>7, ReadResultSteady, ReadSyncSteady, OneSteady, OneSteadyLaunches
<1>8. CASE \E q \in Proc : OpenPipe(p, q) \/ WriteData(p, q) \/ ReadData(q, p)
  BY <1>8, DataInPairs
<1> QED BY <1>2, <1>3, <1>4, <1>5, <1>6, <1>7, <1>8 DEF Step, HandleCmd

\* A grant follows the delay information, and uses up one record of it.
FollowsOrder(a, b) ==
  \/ ~ HasAddr(launchDelay, b)
  \/ launchDelay[b] = Cons(a, launchDelay'[b])
  \/ launchDelay' = Cleared(launchDelay)

\* The next source in the delay information, taken from it.
LEMMA FrontTaken ==
  ASSUME NEW map \in [Proc -> Seq(Proc)], NEW b \in Proc, HasAddr(map, b)
  PROVE  map[b] = Cons(FrontSrc(map, b), PopFront(map, b)[b]) /\ FrontSrc(map, b) \in Proc
<1>1. map[b] \in Seq(Proc) /\ map[b] # <<>>
  BY DEF HasAddr
<1>2. Head(map[b]) \in Proc /\ Tail(map[b]) \in Seq(Proc)
  BY <1>1
<1>3. map[b] = <<Head(map[b])>> \o Tail(map[b])
  BY <1>1
<1>4. PopFront(map, b)[b] = Tail(map[b])
  BY DEF PopFront
<1> QED BY <1>2, <1>3, <1>4 DEF FrontSrc, Cons

LEMMA GrantFollows ==
  ASSUME Inv2, NEW p \in Proc, NEW a \in Proc, NEW b \in Proc,
         Grants(p, a, b), ~ Launching(a, b), Launching(a, b)'
  PROVE  FollowsOrder(a, b)
<1>1. launchDelay \in [Proc -> Seq(Proc)] /\ Inv1 /\ TypeOK
  BY DEF Inv2, Inv1, TypeOK
<1>2. ~ HasAddr(Cleared(launchDelay), b)
  BY <1>1 DEF HasAddr, Cleared
<1> SUFFICES ASSUME HasAddr(launchDelay, b) PROVE FollowsOrder(a, b)
  BY DEF FollowsOrder
<1>3. CASE HandleLaunch(a, b)
  <2> DEFINE order == CheckedOrder(a, "LAUNCH", b)
  <2>1. order \in {launchDelay, Cleared(launchDelay)}
    BY DEF CheckedOrder
  <2>2. CASE UNCHANGED resp
    <3>1. pc[a] = "run"
      BY <1>3 DEF HandleLaunch, Issue
    <3>2. resp[a] = <<>>
      BY <1>1, <3>1 DEF Inv1, AnswersFit
    <3>3. pc'[a] = "result"
      BY <1>1, <1>3 DEF HandleLaunch, Issue, TypeOK
    <3> QED BY <2>2, <3>2, <3>3 DEF Launching
  <2>3. CASE Admits(order, a, b) /\ launchDelay' = PopFront(order, b)
    <3>1. CASE order = launchDelay
      <4>1. FrontSrc(launchDelay, b) = a /\ launchDelay' = PopFront(launchDelay, b)
        BY <2>3, <3>1 DEF Admits
      <4> QED BY <1>1, <4>1, FrontTaken DEF FollowsOrder
    <3>2. CASE order = Cleared(launchDelay)
      <4>1. launchDelay' = Cleared(launchDelay)
        BY <1>2, <2>3, <3>2 DEF PopFront
      <4> QED BY <4>1 DEF FollowsOrder
    <3> QED BY <2>1, <3>1, <3>2
  <2> QED BY <1>3, <2>2, <2>3 DEF HandleLaunch
<1>4. CASE \E src \in Proc \cup {AnySource} : HandleWaitlaunch(b, src)
  <2>1. PICK src \in Proc \cup {AnySource} : HandleWaitlaunch(b, src)
    BY <1>4
  <2>2. WaitParked(b, src) \/ \E r \in Proc : LaunchGranted(r, b)
    BY <1>1, <2>1, WaitlaunchStep
  <2> DEFINE front == FrontSrc(launchDelay, b)
             launches == MatchLaunch(launchList[b], front)
  <2>3. /\ launchDelay[b] = Cons(front, PopFront(launchDelay, b)[b])
        /\ front \in Proc /\ front # AnySource
    BY <1>1, FrontTaken, AnySourceAssumption
  <2>4. CASE UNCHANGED resp
    <3>1. pc[b] = "run"
      BY <2>1 DEF HandleWaitlaunch, Issue
    <3>2. a = b \/ Same(a)
      BY <2>1, <2>4, IssueEffect, <1>1 DEF HandleWaitlaunch, Same
    <3>3. cmd'[b].op = "WAITLAUNCH"
      BY <1>1, <2>1, IssueEffect DEF HandleWaitlaunch
    <3> QED BY <3>2, <3>3, SameSteady DEF Launching, Same
  <2>5. CASE /\ launches # {} /\ launchDelay' = PopFront(launchDelay, b)
             /\ Answer(Granted(FirstMatch(launchList[b], launches), b))
    <3>1. \A i \in launches : launchList[b][i] = front
      BY <2>3 DEF MatchLaunch
    <3>2. FirstMatch(launchList[b], launches) = front
      <4>1. launches \in SUBSET Nat /\ launches # {}
        <5>1. launchList[b] \in Seq(Proc)
          BY <1>1 DEF TypeOK
        <5>2. DOMAIN launchList[b] \subseteq Nat
          BY <5>1
        <5> QED BY <2>5, <5>2 DEF MatchLaunch
      <4> HIDE DEF launches
      <4>2. Min(launches) \in launches
        BY <4>1, MinIsLeast
      <4> QED BY <3>1, <4>2 DEF FirstMatch
    <3>3. a \in {front, b}
      <4>1. Answer(Granted(front, b))
        BY <2>5, <3>2
      <4>2. \A r \in Proc : r \notin {front, b} => resp'[r] = resp[r]
        BY <4>1 DEF Answer, Granted
      <4>3. \A r \in Proc : r # b => pc'[r] = pc[r] /\ cmd'[r] = cmd[r]
        BY <1>1, <2>1, IssueEffect DEF HandleWaitlaunch
      <4> QED BY <4>2, <4>3 DEF Launching
    <3>4. a # b
      <4>1. cmd'[b].op = "WAITLAUNCH"
        BY <1>1, <2>1, IssueEffect DEF HandleWaitlaunch
      <4> QED BY <4>1 DEF Launching
    <3> QED BY <2>3, <2>5, <3>3, <3>4 DEF FollowsOrder
  <2>6. Wanted(b, src) = front
    BY DEF Wanted
  <2> QED BY <2>1, <2>4, <2>5, <2>6 DEF HandleWaitlaunch
<1> QED BY <1>3, <1>4 DEF Grants

LEMMA NextInv2 == Inv2 /\ [Next]_vars => Inv2'
<1> SUFFICES ASSUME Inv2, [Next]_vars PROVE Inv2'
  OBVIOUS
<1>1. Inv1 /\ InPairs
  BY DEF Inv2, InPairs
<1>2. CASE \E p \in Proc : Step(p)
  BY <1>1, <1>2, StepInv1, StepInPairs DEF Inv2, InPairs
<1>3. CASE NextRound
  BY <1>1, <1>3, NextRoundStep, NextRoundInPairs DEF Inv2, InPairs
<1>4. CASE UNCHANGED vars
  <2>1. UNCHANGED <<pc, cmd, caller, resp, inPipe>>
    BY <1>4 DEF vars, clientVars, pipeVars
  <2>2. \A r \in Proc : Steady(r)
    BY <1>1, <2>1, SameSteady DEF InPairs, Same
  <2> QED BY <1>1, <1>4, <2>1, <2>2, AllSteady, StutterInv1 DEF Inv2, InPairs
<1> QED BY <1>2, <1>3, <1>4, NextCases

LEMMA Invariant2 == Spec => []Inv2
BY Init2, NextInv2, PTL DEF Spec

\* Both sides of a launch agree on it, from its grant to its SYNC: a WRITE or
\* READ is never paired with one of another transaction.
THEOREM LaunchesInPairs == Spec => []LaunchInPairs
<1>1. Inv2 => LaunchInPairs
  BY DEF Inv2
<1> QED BY <1>1, Invariant2, PTL

\* A pipe holds at most the message of the SEND in progress, and a SEND ends
\* only when its message is taken.
THEOREM DataIsTaken == Spec => []DataBeforeSync
<1>1. Inv2 => DataBeforeSync
  <2> SUFFICES ASSUME Inv2, NEW p \in Proc, NEW q \in Proc, inPipe[<<p, q>>] > 0
               PROVE  inPipe[<<p, q>>] = 1 /\ Sent(p, q)
    BY DEF DataBeforeSync, Sent
  <2> QED BY DEF Inv2, PipesInStep
<1> QED BY <1>1, Invariant2, PTL

\* A process is launched by its sources in the order of the delay information,
\* record by record, as long as that information is valid.
THEOREM LaunchesInOrder == Spec => LaunchesFollowOrder
<1>1. ASSUME Inv2, [Next]_vars, NEW a \in Proc, NEW b \in Proc,
             ~ Launching(a, b), Launching(a, b)'
      PROVE  FollowsOrder(a, b)
  <2>1. CASE \E p \in Proc : Step(p)
    BY <1>1, <2>1, StepInPairs, GrantFollows
  <2>2. CASE NextRound
    BY <1>1, <2>2, NextRoundInPairs
  <2>3. CASE UNCHANGED vars
    BY <1>1, <2>3 DEF vars, clientVars, Launching
  <2> QED BY <1>1, <2>1, <2>2, <2>3, NextCases
<1>2. Inv2 /\ [Next]_vars =>
        [\A p, q \in Proc :
           ~ Launching(p, q) /\ Launching(p, q)' =>
             \/ ~ HasAddr(launchDelay, q)
             \/ launchDelay[q] = Cons(p, launchDelay'[q])
             \/ launchDelay' = Cleared(launchDelay)]_vars
  BY <1>1 DEF FollowsOrder
<1> QED BY <1>2, Invariant2, PTL DEF Spec, LaunchesFollowOrder
-----------------------------------------------------------------------------
(***************************************************************************)
(* The bench.  A process is at the place of its program that its remaining *)
(* commands leave, and its bench has got that far.                         *)
(***************************************************************************)

\* The number of commands p has printed this round.
Printed(p) == Len(plan[round][p]) - Len(prog[p])

\* The current transaction of p is the last one it printed.
Current(c, program, n) ==
  /\ n > 0
  /\ c.op = program[n].op
  /\ Sends(program[n]) /\ program[n].peer # Caller => c.peer = program[n].peer

InProgram(p) ==
  /\ Len(prog[p]) <= Len(plan[round][p])
  /\ \A i \in 1..Len(prog[p]) : prog[p][i] = plan[round][p][Printed(p) + i]
  /\ pc[p] # "run" => Current(cmd[p], plan[round][p], Printed(p))

Benched(p) == Explicit(plan[round][p]) => Reflects(bench[p], plan[round][p], Completed(p))

\* One transaction more.
LEMMA SendingsGrow ==
  ASSUME NEW program, NEW n \in Nat
  PROVE  /\ IsFiniteSet(Sendings(program, n)) /\ Cardinality(Sendings(program, n)) \in Nat
         /\ Sends(program[n + 1]) =>
              /\ Sendings(program, n + 1) = Sendings(program, n) \cup {n + 1}
              /\ Cardinality(Sendings(program, n + 1)) = Cardinality(Sendings(program, n)) + 1
         /\ ~ Sends(program[n + 1]) => Sendings(program, n + 1) = Sendings(program, n)
<1>1. IsFiniteSet(Sendings(program, n)) /\ Cardinality(Sendings(program, n)) \in Nat
  <2>1. IsFiniteSet(1..n) /\ Sendings(program, n) \subseteq 1..n
    BY FS_Interval DEF Sendings
  <2> QED BY <2>1, FS_Subset, FS_CardinalityType
<1>2. ASSUME Sends(program[n + 1])
      PROVE  /\ Sendings(program, n + 1) = Sendings(program, n) \cup {n + 1}
             /\ Cardinality(Sendings(program, n + 1)) = Cardinality(Sendings(program, n)) + 1
  <2>1. 1..(n + 1) = (1..n) \cup {n + 1}
    OBVIOUS
  <2>2. Sendings(program, n + 1) = Sendings(program, n) \cup {n + 1}
    BY <1>2, <2>1 DEF Sendings
  <2>3. n + 1 \notin Sendings(program, n)
    BY DEF Sendings
  <2> QED BY <1>1, <2>2, <2>3, FS_AddElement
<1>3. ASSUME ~ Sends(program[n + 1])
      PROVE  Sendings(program, n + 1) = Sendings(program, n)
  <2>1. 1..(n + 1) = (1..n) \cup {n + 1}
    OBVIOUS
  <2> QED BY <1>3, <2>1 DEF Sendings
<1> QED BY <1>1, <1>2, <1>3

\* The rank of a sending among those up to n.
LEMMA SendingRank ==
  ASSUME NEW program, NEW n \in Nat, NEW i \in Sendings(program, n)
  PROVE  Cardinality(Sendings(program, i)) \in 1..Cardinality(Sendings(program, n))
<1>1. i \in 1..n /\ Sends(program[i])
  BY DEF Sendings
<1>2. Sendings(program, i) \subseteq Sendings(program, n) /\ i \in Sendings(program, i)
  BY <1>1 DEF Sendings
<1>3. IsFiniteSet(Sendings(program, n)) /\ IsFiniteSet(Sendings(program, i))
      /\ Cardinality(Sendings(program, n)) \in Nat /\ Cardinality(Sendings(program, i)) \in Nat
  BY <1>1, SendingsGrow
<1>4. Cardinality(Sendings(program, i)) <= Cardinality(Sendings(program, n))
  BY <1>2, <1>3, FS_Subset
<1>5. Cardinality(Sendings(program, i)) # 0
  BY <1>2, <1>3, FS_EmptySet
<1> QED BY <1>3, <1>4, <1>5

\* A transaction without a record.
LEMMA ReflectsSame ==
  ASSUME NEW program, NEW n \in Nat, NEW records, Reflects(records, program, n),
         ~ Sends(program[n + 1])
  PROVE  Reflects(records, program, n + 1)
BY SendingsGrow DEF Reflects

\* A transaction with a record.
LEMMA ReflectsMore ==
  ASSUME NEW program, NEW n \in Nat, NEW S, NEW records \in Seq(S), NEW x \in S,
         Reflects(records, program, n), Sends(program[n + 1]),
         x = [op |-> Flags(program[n + 1].op), dst |-> program[n + 1].peer]
  PROVE  Reflects(Append(records, x), program, n + 1)
<1> DEFINE Rank(i) == Cardinality(Sendings(program, i))
           Of(i) == [op |-> Flags(program[i].op), dst |-> program[i].peer]
<1>1. /\ Sendings(program, n + 1) = Sendings(program, n) \cup {n + 1}
      /\ Rank(n + 1) = Rank(n) + 1 /\ Rank(n) \in Nat
  BY SendingsGrow
<1>2. Len(records) = Rank(n) /\ \A i \in Sendings(program, n) : records[Rank(i)] = Of(i)
  BY DEF Reflects
<1>3. \A i \in Sendings(program, n) : Rank(i) \in 1..Rank(n)
  BY SendingRank
<1>4. /\ Len(Append(records, x)) = Len(records) + 1
      /\ \A k \in 1..Len(records) : Append(records, x)[k] = records[k]
      /\ Append(records, x)[Len(records) + 1] = x
  BY AppendProperties
<1>5. x = Of(n + 1)
  OBVIOUS
<1> HIDE DEF Rank, Of
<1>6. \A i \in Sendings(program, n) : Append(records, x)[Rank(i)] = Of(i)
  BY <1>2, <1>3, <1>4
<1>7. Append(records, x)[Rank(n + 1)] = Of(n + 1)
  BY <1>1, <1>2, <1>4, <1>5
<1>8. Len(Append(records, x)) = Rank(n + 1)
  BY <1>1, <1>2, <1>4
<1>9. \A i \in Sendings(program, n + 1) : Append(records, x)[Rank(i)] = Of(i)
  BY <1>1, <1>6, <1>7
<1> QED BY <1>8, <1>9 DEF Reflects, Rank, Of
-----------------------------------------------------------------------------
(* What a step does to the place and the bench of a process.               *)

\* r goes on with its transaction, or with none.
Goes(r) ==
  /\ prog'[r] = prog[r] /\ bench'[r] = bench[r]
  /\ pc'[r] # "run" =>
       /\ pc[r] # "run"
       /\ cmd'[r].op = cmd[r].op
       /\ Sends(cmd[r]) => cmd'[r].peer = cmd[r].peer
  /\ InTransaction(r)' <=> InTransaction(r)

\* r prints the next command of its program.
Prints(r) ==
  /\ pc[r] = "run" /\ pc'[r] = "result"
  /\ prog[r] # <<>> /\ prog'[r] = Tail(prog[r])
  /\ cmd'[r] = NextCmd(r)
  /\ bench'[r] = bench[r]

\* The transaction of r is paired.
Completes(r) ==
  /\ prog'[r] = prog[r] /\ cmd'[r] = cmd[r]
  /\ InTransaction(r) /\ ~ InTransaction(r)' /\ pc'[r] # "run"
  /\ ~ Sends(cmd[r]) => bench'[r] = bench[r]
  /\ Sends(cmd[r]) =>
       bench'[r] = Append(bench[r], [op |-> Flags(cmd[r].op), dst |-> cmd[r].peer])

LEMMA PlaceType ==
  ASSUME TypeOK, NEW r \in Proc, InProgram(r)
  PROVE  /\ plan[round][r] \in Seq(Cmd) /\ prog[r] \in Seq(Cmd)
         /\ Printed(r) \in 0..Len(plan[round][r])
         /\ Completed(r) = IF InTransaction(r) THEN Printed(r) - 1 ELSE Printed(r)
         /\ Completed(r) \in Nat
<1>1. plan[round] \in Program
  BY PlansAssumption DEF TypeOK
<1>2. plan[round][r] \in Seq(Cmd) /\ prog[r] \in Seq(Cmd)
  BY <1>1 DEF TypeOK, Program
<1>3. Len(plan[round][r]) \in Nat /\ Len(prog[r]) \in Nat
  BY <1>2
<1>4. Printed(r) \in 0..Len(plan[round][r])
  <2>1. Len(prog[r]) <= Len(plan[round][r])
    BY DEF InProgram
  <2>2. \A m, n \in Nat : m <= n => n - m \in 0..n
    OBVIOUS
  <2>3. Len(plan[round][r]) - Len(prog[r]) \in 0..Len(plan[round][r])
    BY <1>3, <2>1, <2>2
  <2> QED BY <2>3 DEF Printed
<1>5. Completed(r) = IF InTransaction(r) THEN Printed(r) - 1 ELSE Printed(r)
  <2>1. Printed(r) = Len(plan[round][r]) - Len(prog[r]) /\ Printed(r) \in Int
    BY <1>3 DEF Printed
  <2>2. CASE InTransaction(r)
    <3>1. Completed(r) = Len(plan[round][r]) - Len(prog[r]) - 1
      BY <2>2 DEF Completed
    <3> QED BY <2>1, <2>2, <3>1
  <2>3. CASE ~ InTransaction(r)
    <3>1. Completed(r) = Len(plan[round][r]) - Len(prog[r]) - 0
      BY <2>3 DEF Completed
    <3>2. Completed(r) = Printed(r)
      BY <2>1, <3>1
    <3> QED BY <2>3, <3>2
  <2> QED BY <2>2, <2>3
<1>6. InTransaction(r) => Printed(r) > 0
  BY DEF InProgram, InTransaction, Current
<1>7. Completed(r) \in Nat
  BY <1>4, <1>5, <1>6
<1> QED BY <1>2, <1>4, <1>5, <1>7

\* How far a process has got after the step.
LEMMA GoesCompleted ==
  ASSUME TypeOK, NEW r \in Proc, InProgram(r), UNCHANGED <<plan, round>>
  PROVE  /\ Goes(r) \/ Prints(r) => Completed(r)' = Completed(r)
         /\ Completes(r) => /\ Completed(r)' = Completed(r) + 1
                            /\ Completed(r) \in Nat /\ Completed(r) < Len(plan[round][r])
                            /\ Current(cmd[r], plan[round][r], Completed(r) + 1)
<1> DEFINE program == plan[round][r]
           n == Printed(r)
<1>1. /\ program \in Seq(Cmd) /\ prog[r] \in Seq(Cmd) /\ n \in 0..Len(program)
      /\ Completed(r) = IF InTransaction(r) THEN n - 1 ELSE n
      /\ Completed(r) \in Nat
  BY PlaceType
<1>2. CASE Goes(r)
  <2>1. Completed(r)' = Completed(r)
    BY <1>2 DEF Goes, Completed
  <2>2. ~ Completes(r)
    BY <1>2 DEF Goes, Completes
  <2> QED BY <2>1, <2>2
<1>3. CASE Prints(r)
  <2>1. ~ InTransaction(r) /\ InTransaction(r)' /\ ~ Completes(r)
    BY <1>3 DEF Prints, InTransaction, Completes
  <2>2. Len(prog'[r]) = Len(prog[r]) - 1 /\ Len(prog[r]) \in Nat /\ Len(program) \in Nat
    BY <1>1, <1>3 DEF Prints
  <2>3. Completed(r)' = Len(program) - Len(prog'[r]) - 1
    BY <2>1 DEF Completed
  <2>4. n = Len(program) - Len(prog[r])
    BY DEF Printed
  <2>5. Completed(r)' = n
    <3> HIDE DEF n, program
    <3> QED BY <2>2, <2>3, <2>4
  <2> QED BY <1>1, <2>1, <2>5
<1>4. CASE Completes(r)
  <2>1. InTransaction(r) /\ ~ InTransaction(r)' /\ prog'[r] = prog[r] /\ pc[r] # "run"
    BY <1>4 DEF Completes, InTransaction
  <2>2. Completed(r)' = Len(program) - Len(prog[r]) - 0
    BY <2>1 DEF Completed
  <2>3. Completed(r)' = n
    <3>1. n = Len(program) - Len(prog[r]) /\ n \in Int
      BY <1>1 DEF Printed
    <3> QED BY <2>2, <3>1
  <2>4. n = Completed(r) + 1
    BY <1>1, <2>1
  <2>5. Current(cmd[r], program, n)
    BY <2>1 DEF InProgram
  <2>6. ~ Goes(r) /\ ~ Prints(r)
    BY <2>1 DEF Goes, Prints
  <2> HIDE DEF n
  <2> QED BY <1>1, <2>3, <2>4, <2>5, <2>6
<1> QED BY <1>2, <1>3, <1>4

LEMMA GoesOn ==
  ASSUME TypeOK, NEW r \in Proc, InProgram(r), Benched(r), Goes(r), UNCHANGED <<plan, round>>
  PROVE  InProgram(r)' /\ Benched(r)'
<1>1. Printed(r)' = Printed(r) /\ prog'[r] = prog[r]
  BY DEF Goes, Printed
<1>2. Completed(r)' = Completed(r)
  BY GoesCompleted
<1>3. Benched(r)'
  BY <1>2 DEF Goes, Benched
<1>4. ASSUME pc'[r] # "run"
      PROVE  Current(cmd'[r], plan[round][r], Printed(r))
  <2>1. Current(cmd[r], plan[round][r], Printed(r))
    BY <1>4 DEF Goes, InProgram
  <2>2. cmd'[r].op = cmd[r].op /\ (Sends(cmd[r]) => cmd'[r].peer = cmd[r].peer)
    BY <1>4 DEF Goes
  <2> QED BY <2>1, <2>2 DEF Current, Sends
<1>5. InProgram(r)'
  BY <1>1, <1>4 DEF InProgram
<1> QED BY <1>3, <1>5

LEMMA PrintsOn ==
  ASSUME TypeOK, NEW r \in Proc, InProgram(r), Benched(r), Prints(r), UNCHANGED <<plan, round>>
  PROVE  InProgram(r)' /\ Benched(r)'
<1> DEFINE program == plan[round][r]
           n == Printed(r)
<1>1. /\ program \in Seq(Cmd) /\ prog[r] \in Seq(Cmd) /\ n \in 0..Len(program)
      /\ Completed(r) = IF InTransaction(r) THEN n - 1 ELSE n
  BY PlaceType
<1>2. /\ prog'[r] = Tail(prog[r]) /\ prog[r] # <<>> /\ cmd'[r] = NextCmd(r)
      /\ pc[r] = "run" /\ pc'[r] = "result" /\ bench'[r] = bench[r]
  BY DEF Prints
<1>3. /\ Len(prog'[r]) = Len(prog[r]) - 1 /\ Len(prog[r]) >= 1
      /\ \A i \in 1..Len(prog'[r]) : prog'[r][i] = prog[r][i + 1]
      /\ Head(prog[r]) = prog[r][1]
  BY <1>1, <1>2
<1>4. Len(prog[r]) = Len(program) - n /\ Len(prog[r]) \in Nat
  BY <1>1 DEF Printed
<1>5. \A i \in 1..Len(prog[r]) : prog[r][i] = program[n + i]
  BY DEF InProgram
<1>6. Printed(r)' = n + 1
  BY <1>1, <1>3 DEF Printed
<1> HIDE DEF n
<1>7. \A i \in 1..Len(prog'[r]) : prog'[r][i] = program[(n + 1) + i]
  <2> TAKE i \in 1..Len(prog'[r])
  <2>1. i + 1 \in 1..Len(prog[r]) /\ n + (i + 1) = (n + 1) + i
    BY <1>1, <1>3, <1>4
  <2> QED BY <1>3, <1>5, <2>1
<1>8. Head(prog[r]) = program[n + 1]
  BY <1>3, <1>4, <1>5
<1>9. Current(cmd'[r], program, n + 1)
  <2> DEFINE c == program[n + 1]
  <2>1. c \in Cmd
    <3>1. n + 1 \in 1..Len(program)
      BY <1>1, <1>3, <1>4
    <3> QED BY <1>1, <3>1
  <2>2. cmd'[r] = IF c.peer = Caller THEN [c EXCEPT !.peer = caller[r]] ELSE c
    BY <1>2, <1>8 DEF NextCmd
  <2>3. cmd'[r].op = c.op
    BY <2>1, <2>2 DEF Cmd
  <2>4. c.peer # Caller => cmd'[r].peer = c.peer
    BY <2>2
  <2> QED BY <1>1, <2>3, <2>4 DEF Current
<1>10. InProgram(r)'
  <2>1. Len(prog'[r]) <= Len(program)
    BY <1>1, <1>3, <1>4
  <2> QED BY <1>6, <1>7, <1>9, <2>1 DEF InProgram
<1>11. Completed(r)' = Completed(r)
  BY GoesCompleted
<1>12. Benched(r)'
  BY <1>2, <1>11 DEF Benched
<1> QED BY <1>10, <1>12

LEMMA CompletesOn ==
  ASSUME TypeOK, NEW r \in Proc, InProgram(r), Benched(r), Completes(r), UNCHANGED <<plan, round>>
  PROVE  InProgram(r)' /\ Benched(r)'
<1> DEFINE program == plan[round][r]
           n == Completed(r)
           x == [op |-> Flags(cmd[r].op), dst |-> cmd[r].peer]
<1>1. /\ program \in Seq(Cmd) /\ n \in Nat /\ n < Len(program)
      /\ Printed(r) = n + 1
  <2>1. InTransaction(r) /\ Printed(r) \in Int
    BY PlaceType DEF Completes
  <2> QED BY <2>1, PlaceType
<1>2. Printed(r)' = Printed(r)
  BY DEF Completes, Printed
<1>3. Completed(r)' = n + 1
  BY GoesCompleted
<1>4. Current(cmd[r], program, n + 1)
  BY GoesCompleted
<1>5. InProgram(r)'
  BY <1>2, <1>4, <1>1 DEF InProgram, Completes
<1>6. ASSUME Explicit(program)
      PROVE  Reflects(bench'[r], program, n + 1)
  <2>1. Reflects(bench[r], program, n) /\ bench[r] \in Seq(Record)
    BY <1>6 DEF Benched, TypeOK
  <2>2. Sends(cmd[r]) <=> Sends(program[n + 1])
    BY <1>4 DEF Current, Sends
  <2>3. CASE ~ Sends(cmd[r])
    BY <1>1, <2>1, <2>2, <2>3, ReflectsSame DEF Completes
  <2>4. CASE Sends(cmd[r])
    <3>1. n + 1 \in DOMAIN program
      BY <1>1
    <3>2. program[n + 1].peer \in Proc
      BY <1>6, <2>2, <2>4, <3>1 DEF Explicit
    <3>3. cmd[r].op = program[n + 1].op /\ cmd[r].peer = program[n + 1].peer
      BY <1>4, <2>2, <2>4, <3>2, CallerAssumption DEF Current
    <3>4. x \in Record
      BY <3>2, <3>3 DEF Record, Flags
    <3>5. bench'[r] = Append(bench[r], x)
      BY <2>4 DEF Completes
    <3> HIDE DEF n
    <3>6. x = [op |-> Flags(program[n + 1].op), dst |-> program[n + 1].peer]
      BY <3>3
    <3> HIDE DEF x
    <3> QED BY <1>1, <2>1, <2>2, <2>4, <3>4, <3>5, <3>6, ReflectsMore
  <2> QED BY <2>3, <2>4
<1> HIDE DEF n
<1>7. Benched(r)'
  BY <1>3, <1>6 DEF Benched
<1> QED BY <1>5, <1>7

\* Every process goes on, prints its next command or completes a transaction.
Advances(r) == Goes(r) \/ Prints(r) \/ Completes(r)

\* A process that did not change.
LEMMA SameGoes ==
  ASSUME NEW r \in Proc, pc'[r] = pc[r], cmd'[r] = cmd[r], resp'[r] = resp[r],
         prog'[r] = prog[r], bench'[r] = bench[r]
  PROVE  Goes(r)
BY DEF Goes, InTransaction

\* A process that prints a functional command, and another one that it may
\* wake up.
LEMMA IssueAdvances ==
  ASSUME TypeOK, NEW p \in Proc, NEW op, NEW peer, Issue(p, op, peer), UNCHANGED bench,
         \A r \in Proc : r # p => pc[r] = "result" \/ resp'[r] = resp[r]
  PROVE  \A r \in Proc : Advances(r)
<1>1. /\ prog' = [prog EXCEPT ![p] = Tail(prog[p])]
      /\ pc' = [pc EXCEPT ![p] = "result"]
      /\ cmd' = [cmd EXCEPT ![p] = NextCmd(p)]
      /\ pc[p] = "run" /\ prog[p] # <<>>
  BY DEF Issue
<1>2. Prints(p)
  BY <1>1 DEF Prints, TypeOK, Program
<1>3. ASSUME NEW r \in Proc, r # p
      PROVE  Goes(r)
  <2>1. prog'[r] = prog[r] /\ pc'[r] = pc[r] /\ cmd'[r] = cmd[r]
    BY <1>1, <1>3 DEF TypeOK, Program
  <2>2. pc[r] = "result" \/ resp'[r] = resp[r]
    BY <1>3
  <2> QED BY <2>1, <2>2 DEF Goes, InTransaction
<1> QED BY <1>2, <1>3 DEF Advances

LEMMA LaunchAdvances ==
  ASSUME Inv1, NEW p \in Proc, NEW q \in Proc, HandleLaunch(p, q)
  PROVE  \A r \in Proc : Advances(r)
<1>1. Issue(p, "LAUNCH", q) /\ UNCHANGED bench /\ TypeOK
  BY DEF HandleLaunch, Inv1
<1>2. LaunchParked(p, q) \/ LaunchGranted(p, q)
  BY LaunchStep
<1>3. \A r \in Proc : r # p => pc'[r] = pc[r]
  BY <1>1, IssueEffect
<1>4. ASSUME NEW r \in Proc, r # p
      PROVE  pc[r] = "result" \/ resp'[r] = resp[r]
  <2>1. CASE LaunchParked(p, q)
    BY <1>4, <2>1 DEF LaunchParked, Asks, Others, Same
  <2>2. CASE LaunchGranted(p, q) /\ r = q
    BY <1>3, <1>4, <2>2 DEF LaunchGranted
  <2>3. CASE LaunchGranted(p, q) /\ r # q
    BY <1>4, <2>3 DEF LaunchGranted, Others, Same
  <2> QED BY <1>2, <2>1, <2>2, <2>3
<1> QED BY <1>1, <1>4, IssueAdvances

LEMMA WaitlaunchAdvances ==
  ASSUME Inv1, NEW q \in Proc, NEW src \in Proc \cup {AnySource}, HandleWaitlaunch(q, src)
  PROVE  \A r \in Proc : Advances(r)
<1>1. Issue(q, "WAITLAUNCH", src) /\ UNCHANGED bench /\ TypeOK
  BY DEF HandleWaitlaunch, Inv1
<1>2. WaitParked(q, src) \/ \E p \in Proc : LaunchGranted(p, q)
  BY WaitlaunchStep
<1>3. \A r \in Proc : r # q => pc'[r] = pc[r]
  BY <1>1, IssueEffect
<1>4. ASSUME NEW r \in Proc, r # q
      PROVE  pc[r] = "result" \/ resp'[r] = resp[r]
  <2>1. CASE WaitParked(q, src)
    BY <1>4, <2>1 DEF WaitParked, Asks, Others, Same
  <2>2. CASE LaunchGranted(r, q)
    BY <1>3, <1>4, <2>2 DEF LaunchGranted
  <2>3. CASE \E p \in Proc : p # r /\ LaunchGranted(p, q)
    BY <1>4, <2>3 DEF LaunchGranted, Others, Same
  <2> QED BY <1>2, <2>1, <2>2, <2>3
<1> QED BY <1>1, <1>4, IssueAdvances

LEMMA PipeAdvances ==
  ASSUME Inv1, NEW p \in Proc, NEW q \in Proc, HandleSend(p, q) \/ HandleReceive(p, q)
  PROVE  \A r \in Proc : Advances(r)
<1>1. PICK op \in {"SEND", "RECEIVE"} : Issue(p, op, q)
  BY DEF HandleSend, HandleReceive
<1>2. UNCHANGED bench /\ TypeOK
  BY DEF HandleSend, HandleReceive, Inv1
<1>3. \A r \in Proc : r # p => resp'[r] = resp[r]
  BY PipeStep DEF Quiet, Others, Same
<1> QED BY <1>1, <1>2, <1>3, IssueAdvances

\* A WRITE and a READ that are paired belong to the same transaction, so the
\* record has the descriptor of the source.
LEMMA PairAdvances ==
  ASSUME Inv2, NEW p \in Proc, NEW q \in Proc, Paired(p, q), PairRecorded(p, q), prog' = prog
  PROVE  \A r \in Proc : Advances(r)
<1>1. /\ p # q /\ cmd[p].peer = q /\ cmd[p].op \in {"LAUNCH", "SEND"}
      /\ cmd[q].peer = p /\ cmd[q].op \in {"WAITLAUNCH", "RECEIVE"}
      /\ pc[p] = "timing" \/ (pc[p] = "sync" /\ resp[p] = <<>>)
      /\ pc[q] = "timing" \/ (pc[q] = "sync" /\ resp[q] = <<>>)
  BY DEF Paired, WriteWaits, ReadWaits
<1>2. \A r \in {p, q} : InTransaction(r)
  BY <1>1 DEF InTransaction
<1>3. \A r \in {p, q} : pc'[r] = "sync" /\ resp'[r] # <<>> /\ cmd'[r] = cmd[r]
  <2>1. <<AnySource>> # <<>>
    OBVIOUS
  <2> QED BY <2>1 DEF Paired
<1>4. \A r \in {p, q} : ~ InTransaction(r)' /\ pc'[r] # "run"
  BY <1>3 DEF InTransaction
<1>5. TypeOK /\ LaunchInPairs /\ CallerKept
  BY DEF Inv2, Inv1
<1>6. Launching(p, q) <=> cmd[p].op = "LAUNCH"
  BY <1>1 DEF Launching
<1>7. Serving(q, p) <=> cmd[q].op = "WAITLAUNCH"
  <2>1. ASSUME cmd[q].op = "WAITLAUNCH" PROVE Serving(q, p)
    <3>1. caller[q] = p
      BY <1>1, <1>5, <2>1 DEF CallerKept
    <3> QED BY <1>1, <2>1, <3>1 DEF Serving
  <2> QED BY <2>1 DEF Serving
<1>8. cmd[p].op = "LAUNCH" <=> cmd[q].op = "WAITLAUNCH"
  BY <1>5, <1>6, <1>7 DEF LaunchInPairs
<1>9. PairFlags(Flags(cmd[p].op), Flags(cmd[q].op)) = Flags(cmd[p].op)
  BY <1>1, <1>8 DEF PairFlags, Flags
<1>10. bench \in [Proc -> Seq(Record)]
  BY <1>5 DEF TypeOK
<1>11. Sends(cmd[p]) /\ ~ Sends(cmd[q])
  BY <1>1 DEF Sends
<1>12. bench'[p] = Append(bench[p], [op |-> Flags(cmd[p].op), dst |-> cmd[p].peer])
  BY <1>1, <1>9, <1>10 DEF PairRecorded
<1>13. \A r \in Proc : r # p => bench'[r] = bench[r]
  BY <1>10 DEF PairRecorded
<1>14. Completes(p)
  BY <1>2, <1>3, <1>4, <1>11, <1>12 DEF Completes
<1>15. Completes(q)
  BY <1>1, <1>2, <1>3, <1>4, <1>11, <1>13 DEF Completes
<1>16. ASSUME NEW r \in Proc, r \notin {p, q}
       PROVE  Goes(r)
  BY <1>13, <1>16, SameGoes DEF Paired, Others, Same
<1> QED BY <1>14, <1>15, <1>16 DEF Advances

\* READ and WRITE are parked or paired.
LEMMA CommAdvances ==
  ASSUME Inv2, NEW p \in Proc, HandleRead(p) \/ HandleWrite(p)
  PROVE  UNCHANGED <<plan, round>> /\ \A r \in Proc : Advances(r)
<1>1. Inv1
  BY DEF Inv2
<1>2. /\ UNCHANGED <<plan, round, prog>>
      /\ \/ Times(p) /\ UNCHANGED <<bench, srcDelay>>
         \/ \E a, b \in Proc : Paired(a, b) /\ PairRecorded(a, b)
  BY <1>1, ReadStep, WriteStep DEF ReadParked, WriteParked
<1>3. CASE Times(p) /\ UNCHANGED <<bench, srcDelay>>
  <2>1. ASSUME NEW r \in Proc, r # p
        PROVE  Goes(r)
    BY <1>2, <1>3, <2>1, SameGoes DEF Times, Others, Same
  <2>2. Goes(p)
    BY <1>2, <1>3 DEF Times, Goes, InTransaction
  <2> QED BY <1>2, <2>1, <2>2 DEF Advances
<1>4. CASE \E a, b \in Proc : Paired(a, b) /\ PairRecorded(a, b)
  BY <1>2, <1>4, PairAdvances
<1> QED BY <1>2, <1>3, <1>4

\* Reading an answer, and moving data.
LEMMA ProcessAdvances ==
  ASSUME Inv1, NEW p \in Proc,
         \/ ReadResult(p) \/ ReadSync(p)
         \/ \E q \in Proc : OpenPipe(p, q) \/ WriteData(p, q) \/ ReadData(q, p)
  PROVE  UNCHANGED <<plan, round>> /\ \A r \in Proc : Advances(r)
<1>1. TypeOK
  BY DEF Inv1
<1>2. UNCHANGED <<plan, round, prog, bench>>
  BY DEF ReadResult, ReadSync, OpenPipe, WriteData, ReadData, clientVars
<1>3. Quiet(p)
  BY ReadResultStep, ReadSyncStep, DataStep
<1>4. ASSUME NEW r \in Proc, r # p
      PROVE  Goes(r)
  BY <1>2, <1>3, <1>4, SameGoes DEF Quiet, Others, Same
<1>5. CASE ReadResult(p)
  <2>1. pc[p] = "result" /\ pc'[p] \in {"data", "timing"}
    BY <1>1, <1>5 DEF ReadResult, TypeOK
  <2>2. cmd'[p].op = cmd[p].op /\ (Sends(cmd[p]) => cmd'[p].peer = cmd[p].peer)
    <3>1. CASE cmd[p].op = "WAITLAUNCH"
      <4>1. cmd' = [cmd EXCEPT ![p].peer = Head(resp[p])] /\ cmd[p] \in Cmd
        BY <1>1, <1>5, <3>1 DEF ReadResult, TypeOK
      <4>2. cmd'[p].op = cmd[p].op
        BY <1>1, <4>1 DEF TypeOK, Cmd
      <4> QED BY <3>1, <4>2 DEF Sends
    <3>2. CASE cmd[p].op # "WAITLAUNCH"
      BY <1>5, <3>2 DEF ReadResult
    <3> QED BY <3>1, <3>2
  <2> QED BY <1>2, <1>4, <2>1, <2>2 DEF Goes, InTransaction, Advances
<1>6. CASE ReadSync(p)
  <2>1. pc[p] = "sync" /\ resp[p] # <<>> /\ pc'[p] = "run"
    BY <1>1, <1>6 DEF ReadSync, TypeOK
  <2> QED BY <1>2, <1>4, <2>1 DEF Goes, InTransaction, Advances
<1>7. CASE \E q \in Proc : OpenPipe(p, q) \/ WriteData(p, q) \/ ReadData(q, p)
  <2>1. pc[p] = "data" /\ pc'[p] \in {"data", "timing"} /\ cmd' = cmd
    BY <1>1, <1>7 DEF OpenPipe, WriteData, ReadData, AtData, clientVars, TypeOK
  <2> QED BY <1>2, <1>4, <2>1 DEF Goes, InTransaction, Advances
<1> QED BY <1>2, <1>5, <1>6, <1>7

LEMMA StepAdvances ==
  ASSUME Inv2, NEW p \in Proc, Step(p)
  PROVE  UNCHANGED <<plan, round>> /\ \A r \in Proc : Advances(r)
<1>1. Inv1
  BY DEF Inv2
<1>2. CASE \E q \in Proc : HandleLaunch(p, q)
  BY <1>1, <1>2, LaunchAdvances DEF HandleLaunch
<1>3. CASE \E q \in Proc : HandleSend(p, q) \/ HandleReceive(p, q)
  BY <1>1, <1>3, PipeAdvances DEF HandleSend, HandleReceive
<1>4. CASE \E src \in Proc \cup {AnySource} : HandleWaitlaunch(p, src)
  BY <1>1, <1>4, WaitlaunchAdvances DEF HandleWaitlaunch
<1>5. CASE HandleRead(p) \/ HandleWrite(p)
  BY <1>1, <1>5, CommAdvances
<1>6. CASE \/ ReadResult(p) \/ ReadSync(p)
           \/ \E q \in Proc : OpenPipe(p, q) \/ WriteData(p, q) \/ ReadData(q, p)
  BY <1>1, <1>6, ProcessAdvances
<1> QED BY <1>2, <1>3, <1>4, <1>5, <1>6 DEF Step, HandleCmd
-----------------------------------------------------------------------------
Inv3 == Inv2 /\ \A p \in Proc : InProgram(p) /\ Benched(p)

\* The bench at the beginning of a round.
LEMMA ReflectsNothing == ASSUME NEW program PROVE Reflects(<<>>, program, 0)
<1>1. Sendings(program, 0) = {}
  BY DEF Sendings
<1>2. Len(<<>>) = 0 /\ Cardinality({}) = 0
  BY FS_EmptySet
<1> QED BY <1>1, <1>2 DEF Reflects

\* The place of a process that has its whole program before it.
LEMMA WholeProgram ==
  ASSUME NEW S, NEW program \in Seq(S)
  PROVE  /\ Len(program) - Len(program) = 0 /\ Len(program) - Len(program) - 0 = 0
         /\ Len(program) <= Len(program)
         /\ \A i \in 1..Len(program) : program[0 + i] = program[i]
<1>1. Len(program) \in Nat
  OBVIOUS
<1>2. \A i \in 1..Len(program) : 0 + i = i
  OBVIOUS
<1> QED BY <1>1, <1>2

LEMMA Init3 == Init => Inv3
<1> SUFFICES ASSUME Init PROVE Inv3
  OBVIOUS
<1>1. Inv2 /\ TypeOK
  BY Init2 DEF Inv2, Inv1
<1>2. ASSUME NEW p \in Proc
      PROVE  InProgram(p) /\ Benched(p)
  <2>1. prog[p] = plan[round][p] /\ pc[p] = "run" /\ bench[p] = <<>>
    BY DEF Init, Nothing
  <2>2. prog[p] \in Seq(Cmd)
    BY <1>1 DEF TypeOK, Program
  <2>3. Printed(p) = 0
    BY <2>1, <2>2, WholeProgram DEF Printed
  <2>4. InProgram(p)
    BY <2>1, <2>2, <2>3, WholeProgram DEF InProgram
  <2>5. Completed(p) = 0
    BY <2>1, <2>2, WholeProgram DEF Completed, InTransaction
  <2> QED BY <2>1, <2>4, <2>5, ReflectsNothing DEF Benched
<1> QED BY <1>1, <1>2 DEF Inv3

LEMMA NextInv3 == Inv3 /\ [Next]_vars => Inv3'
<1> SUFFICES ASSUME Inv3, [Next]_vars PROVE Inv3'
  OBVIOUS
<1>1. Inv2 /\ Inv1 /\ TypeOK /\ \A p \in Proc : InProgram(p) /\ Benched(p)
  BY DEF Inv3, Inv2, Inv1
<1>2. Inv2' /\ TypeOK'
  BY <1>1, NextInv2 DEF Inv2, Inv1
<1>3. ASSUME UNCHANGED <<plan, round>>, \A r \in Proc : Advances(r)
      PROVE  Inv3'
  BY <1>1, <1>2, <1>3, GoesOn, PrintsOn, CompletesOn DEF Advances, Inv3
<1>4. CASE \E p \in Proc : Step(p)
  BY <1>1, <1>3, <1>4, StepAdvances
<1>5. CASE NextRound
  <2>1. /\ prog' = plan'[round'] /\ pc' = pc /\ bench' = Nothing
        /\ \A p \in Proc : pc[p] = "run"
    BY <1>5 DEF NextRound, RoundOver
  <2>2. ASSUME NEW p \in Proc
        PROVE  (InProgram(p) /\ Benched(p))'
    <3>1. prog'[p] = plan'[round'][p] /\ pc'[p] = "run" /\ bench'[p] = <<>>
      BY <2>1 DEF Nothing
    <3>2. prog'[p] \in Seq(Cmd)
      BY <1>2 DEF TypeOK, Program
    <3>3. Printed(p)' = 0
      BY <3>1, <3>2, WholeProgram DEF Printed
    <3>4. InProgram(p)'
      BY <3>1, <3>2, <3>3, WholeProgram DEF InProgram
    <3>5. Completed(p)' = 0
      BY <3>1, <3>2, WholeProgram DEF Completed, InTransaction
    <3> QED BY <3>1, <3>4, <3>5, ReflectsNothing DEF Benched
  <2> QED BY <1>2, <2>2 DEF Inv3
<1>6. CASE UNCHANGED vars
  <2>1. UNCHANGED <<plan, round, prog, pc, cmd, resp, bench>>
    BY <1>6 DEF vars, clientVars
  <2>2. \A r \in Proc : Advances(r)
    BY <2>1, SameGoes DEF Advances
  <2> QED BY <1>3, <2>1, <2>2
<1> QED BY <1>4, <1>5, <1>6, NextCases

\* The bench of a round is what its processes executed: record by record, in
\* order, the transactions they completed as a source.
THEOREM BenchCorrect == Spec => []BenchIsExecution
<1>1. Inv3 => BenchIsExecution
  BY DEF Inv3, Benched, BenchIsExecution
<1> QED BY <1>1, Init3, NextInv3, PTL DEF Spec
-----------------------------------------------------------------------------
(* No launch is parked without need while the delay information is valid.  *)

\* The command a process is about to print fits the delay information: a LAUNCH
\* or SEND is the one recorded next, so that nothing is cancelled, and a
\* WAITLAUNCH names no source or the one that is to come next.
Recorded ==
  \A p \in Proc : pc[p] = "run" /\ prog[p] # <<>> =>
    /\ Sends(NextCmd(p)) => InOrder(srcDelay, p, Flags(NextCmd(p).op), NextCmd(p).peer)
    /\ NextCmd(p).op = "WAITLAUNCH" /\ HasAddr(launchDelay, p) =>
         NextCmd(p).peer \in {AnySource, FrontSrc(launchDelay, p)}

\* A pending WAITLAUNCH accepts the source that is to come next, and what fits
\* it is pending only while that source is still to come.
Unorphaned(q) ==
  \A w \in Proc \cup {AnySource} : waitList[q] = <<w>> =>
    /\ HasAddr(launchDelay, q) => w \in {AnySource, FrontSrc(launchDelay, q)}
    /\ \A p \in Proc : Occurs(launchList[q], p) /\ w \in {AnySource, p} =>
         HasAddr(launchDelay, q) /\ ~ Occurs(launchList[q], FrontSrc(launchDelay, q))

\* A list with at most one command.
LEMMA OneWaits ==
  ASSUME Inv1, NEW q \in Proc
  PROVE  \/ waitList[q] = <<>>
         \/ \E w \in Proc \cup {AnySource} : waitList[q] = <<w>>
<1>1. waitList[q] = WaitPending(q) /\ waitList[q] \in Seq(Proc \cup {AnySource})
  BY DEF Inv1, WaitListed, TypeOK
<1>2. CASE WaitWaits(q)
  <2>1. waitList[q] = <<cmd[q].peer>>
    BY <1>1, <1>2 DEF WaitPending
  <2>2. Len(waitList[q]) = 1 /\ waitList[q][1] = cmd[q].peer
    BY <2>1
  <2>3. cmd[q].peer \in Proc \cup {AnySource}
    BY <1>1, <2>2
  <2> QED BY <2>1, <2>3
<1>3. CASE ~ WaitWaits(q)
  BY <1>1, <1>3 DEF WaitPending
<1> QED BY <1>2, <1>3

LEMMA UnorphanedNoOrphan ==
  ASSUME Inv1, \A q \in Proc : Unorphaned(q)
  PROVE  NoOrphan
<1> SUFFICES ASSUME NEW p \in Proc, NEW q \in Proc, p \in ToSet(launchList[q]),
                    ToSet(waitList[q]) \cap {AnySource, p} # {}
             PROVE  HasAddr(launchDelay, q)
                    /\ FrontSrc(launchDelay, q) \notin ToSet(launchList[q])
  BY DEF NoOrphan
<1>1. \A x : x \in ToSet(launchList[q]) <=> Occurs(launchList[q], x)
  BY DEF ToSet, Occurs
<1>2. waitList[q] # <<>>
  <2>1. ToSet(<<>>) = {}
    BY DEF ToSet
  <2> QED BY <2>1
<1>3. PICK w \in Proc \cup {AnySource} : waitList[q] = <<w>>
  BY <1>2, OneWaits
<1>4. ToSet(<<w>>) = {w}
  BY DEF ToSet
<1>5. w \in {AnySource, p}
  BY <1>3, <1>4
<1> QED BY <1>1, <1>3, <1>5 DEF Unorphaned

\* A process whose lists and delay information stay as they are.
LEMMA UnorphanedSame ==
  ASSUME NEW q \in Proc, Unorphaned(q), waitList'[q] = waitList[q],
         launchList'[q] = launchList[q], launchDelay'[q] = launchDelay[q]
  PROVE  Unorphaned(q)'
BY DEF Unorphaned, HasAddr, FrontSrc

LEMMA NobodyWaits ==
  ASSUME NEW q \in Proc, waitList'[q] = <<>>
  PROVE  Unorphaned(q)'
<1>1. \A w : <<>> # <<w>>
  OBVIOUS
<1> QED BY <1>1 DEF Unorphaned

\* Taking a record touches one destination.
LEMMA OtherOrders ==
  ASSUME NEW map \in [Proc -> Seq(Proc)], NEW b \in Proc
  PROVE  \A q \in Proc : q # b => PopFront(map, b)[q] = map[q]
BY DEF PopFront

LEMMA LaunchUnorphaned ==
  ASSUME Inv1, Recorded, NEW p \in Proc, NEW b \in Proc, HandleLaunch(p, b),
         NEW q \in Proc, Unorphaned(q)
  PROVE  Unorphaned(q)'
<1> DEFINE waits == MatchWaitlaunch(waitList[b], p)
           Parking ==
             /\ ~ Admits(launchDelay, p, b) \/ waits = {}
             /\ launchList' = [launchList EXCEPT ![b] = Append(launchList[b], p)]
             /\ launchDelay' = launchDelay
             /\ UNCHANGED <<resp, waitList>>
           Granting ==
             /\ waits # {}
             /\ launchDelay' = PopFront(launchDelay, b)
             /\ waitList' = [waitList EXCEPT ![b] = PopMatch(waitList[b], waits)]
             /\ UNCHANGED launchList
<1>1. /\ launchDelay \in [Proc -> Seq(Proc)] /\ launchList \in [Proc -> Seq(Proc)]
      /\ waitList \in [Proc -> Seq(Proc \cup {AnySource})] /\ TypeOK
  BY DEF Inv1, TypeOK
<1>2. CheckedOrder(p, "LAUNCH", b) = launchDelay
  <2>1. pc[p] = "run" /\ prog[p] # <<>> /\ NextCmd(p).op = "LAUNCH" /\ NextCmd(p).peer = b
    BY DEF HandleLaunch, Issue
  <2>2. Sends(NextCmd(p))
    BY <2>1 DEF Sends
  <2> QED BY <2>1, <2>2 DEF Recorded, CheckedOrder
<1>3. Parking \/ Granting
  BY <1>2 DEF HandleLaunch
<1>4. CASE Parking
  <2>1. CASE q # b
    BY <1>1, <1>4, <2>1, UnorphanedSame
  <2>2. ASSUME q = b, NEW w \in Proc \cup {AnySource}, waitList'[q] = <<w>>
        PROVE  /\ HasAddr(launchDelay', q) => w \in {AnySource, FrontSrc(launchDelay', q)}
               /\ \A r \in Proc : Occurs(launchList'[q], r) /\ w \in {AnySource, r} =>
                    HasAddr(launchDelay', q) /\ ~ Occurs(launchList'[q], FrontSrc(launchDelay', q))
    <3> DEFINE front == FrontSrc(launchDelay, q)
    <3>1. waitList[q] = <<w>> /\ launchDelay' = launchDelay
      BY <1>4, <2>2
    <3>2. HasAddr(launchDelay, q) => w \in {AnySource, front}
      BY <3>1 DEF Unorphaned
    <3>3. \A r : Occurs(launchList'[q], r) <=> Occurs(launchList[q], r) \/ r = p
      <4>1. launchList'[q] = Append(launchList[q], p) /\ launchList[q] \in Seq(Proc)
        BY <1>1, <1>4, <2>2
      <4>2. IsInjective(launchList[q]) /\ ~ Occurs(launchList[q], p)
        <5>1. ~ LaunchWaits(p, q)
          BY DEF HandleLaunch, Issue, LaunchWaits, Blocked
        <5> QED BY <5>1 DEF Inv1, LaunchListed
      <4> QED BY <4>1, <4>2, AppendNew
    <3>4. w \in {AnySource, p} => waits # {}
      <4>1. 1 \in DOMAIN <<w>> /\ <<w>>[1] = w
        OBVIOUS
      <4> QED BY <2>2, <3>1, <4>1 DEF MatchWaitlaunch
    <3>5. ASSUME w \in {AnySource, p}
          PROVE  HasAddr(launchDelay, q) /\ front # p
      BY <1>4, <2>2, <3>4, <3>5 DEF Admits
    <3>6. ASSUME NEW r \in Proc, Occurs(launchList'[q], r), w \in {AnySource, r}
          PROVE  HasAddr(launchDelay, q) /\ ~ Occurs(launchList'[q], front)
      <4>1. CASE Occurs(launchList[q], r)
        <5>1. HasAddr(launchDelay, q) /\ ~ Occurs(launchList[q], front)
          BY <3>1, <3>6, <4>1 DEF Unorphaned
        <5>2. front # p
          <6>1. CASE w = AnySource
            BY <3>5, <6>1
          <6>2. CASE w # AnySource
            BY <3>2, <3>6, <4>1, <5>1, <6>2
          <6> QED BY <6>1, <6>2
        <5> QED BY <3>3, <5>1, <5>2
      <4>2. CASE r = p
        <5>1. HasAddr(launchDelay, q) /\ front # p
          BY <3>5, <3>6, <4>2
        <5>2. w = AnySource
          BY <3>2, <3>6, <4>2, <5>1
        <5>3. ~ Occurs(launchList[q], front)
          <6>1. launchDelay[q] \in Seq(Proc) /\ launchDelay[q] # <<>>
            BY <1>1, <5>1 DEF HasAddr
          <6>2. front \in Proc
            BY <6>1 DEF FrontSrc
          <6> QED BY <3>1, <5>2, <6>2 DEF Unorphaned
        <5> QED BY <3>3, <5>1, <5>3
      <4> QED BY <3>3, <3>6, <4>1, <4>2
    <3> HIDE DEF front
    <3>7. HasAddr(launchDelay', q) = HasAddr(launchDelay, q) /\ FrontSrc(launchDelay', q) = front
      BY <3>1 DEF front
    <3> QED BY <3>2, <3>6, <3>7
  <2> QED BY <2>1, <2>2 DEF Unorphaned
<1>5. CASE Granting
  <2>1. CASE q # b
    BY <1>1, <1>5, <2>1, OtherOrders, UnorphanedSame
  <2>2. CASE q = b
    <3>1. PICK w \in Proc \cup {AnySource} : waitList[b] = <<w>>
      <4>1. MatchWaitlaunch(<<>>, p) = {}
        BY DEF MatchWaitlaunch
      <4> QED BY <1>5, <4>1, OneWaits
    <3>2. waits \in SUBSET DOMAIN <<w>>
      BY <3>1 DEF MatchWaitlaunch
    <3>3. waitList'[q] = <<>>
      <4>1. PopMatch(<<w>>, waits) = <<>>
        <5> HIDE DEF waits
        <5> QED BY <1>5, <3>2, OnlyMatchTaken
      <4> QED BY <1>1, <1>5, <2>2, <3>1, <4>1
    <3> QED BY <3>3, NobodyWaits
  <2> QED BY <2>1, <2>2
<1> QED BY <1>3, <1>4, <1>5

LEMMA WaitlaunchUnorphaned ==
  ASSUME Inv1, Recorded, NEW b \in Proc, NEW src \in Proc \cup {AnySource},
         HandleWaitlaunch(b, src), NEW q \in Proc, Unorphaned(q)
  PROVE  Unorphaned(q)'
<1> DEFINE launches == MatchLaunch(launchList[b], Wanted(b, src))
           front == FrontSrc(launchDelay, b)
           Parking ==
             /\ launches = {}
             /\ waitList' = [waitList EXCEPT ![b] = Append(waitList[b], src)]
             /\ UNCHANGED <<resp, launchList, launchDelay>>
           Granting ==
             /\ launchList' = [launchList EXCEPT ![b] = PopMatch(launchList[b], launches)]
             /\ launchDelay' = PopFront(launchDelay, b)
             /\ UNCHANGED waitList
<1>1. /\ launchDelay \in [Proc -> Seq(Proc)] /\ launchList \in [Proc -> Seq(Proc)]
      /\ waitList \in [Proc -> Seq(Proc \cup {AnySource})]
  BY DEF Inv1, TypeOK
<1>2. Parking \/ Granting
  BY DEF HandleWaitlaunch
<1>3. waitList[b] = <<>>
  <2>1. ~ WaitWaits(b)
    BY DEF HandleWaitlaunch, Issue, WaitWaits, Blocked
  <2> QED BY <2>1 DEF Inv1, WaitListed, WaitPending
<1>4. CASE q # b
  <2>1. launchList'[q] = launchList[q] /\ waitList'[q] = waitList[q]
    BY <1>1, <1>2, <1>4
  <2>2. PopFront(launchDelay, b)[q] = launchDelay[q]
    BY <1>1, <1>4, OtherOrders
  <2>3. launchDelay'[q] = launchDelay[q]
    BY <1>2, <2>2
  <2> QED BY <2>1, <2>3, UnorphanedSame
<1>5. CASE q = b /\ Granting
  <2>1. waitList'[q] = <<>>
    BY <1>3, <1>5
  <2> QED BY <2>1, NobodyWaits
<1>6. CASE q = b /\ Parking
  <2>1. waitList'[q] = <<src>>
    <3>1. Append(<<>>, src) = <<src>>
      OBVIOUS
    <3> QED BY <1>1, <1>3, <1>6, <3>1
  <2>2. HasAddr(launchDelay, q) => src \in {AnySource, front}
    <3>1. pc[b] = "run" /\ prog[b] # <<>> /\ NextCmd(b).op = "WAITLAUNCH" /\ NextCmd(b).peer = src
      BY DEF HandleWaitlaunch, Issue
    <3> QED BY <1>6, <3>1 DEF Recorded
  <2>3. \A r \in Proc : Occurs(launchList[q], r) => Wanted(b, src) \notin {AnySource, r}
    BY <1>6 DEF MatchLaunch, Occurs
  <2>4. ASSUME HasAddr(launchDelay, q)
        PROVE  ~ Occurs(launchList[q], front)
    <3>1. launchDelay[q] \in Seq(Proc) /\ launchDelay[q] # <<>>
      BY <1>1, <2>4 DEF HasAddr
    <3>2. front \in Proc
      BY <1>6, <3>1 DEF FrontSrc
    <3>3. Wanted(b, src) = front
      BY <1>6, <2>4 DEF Wanted
    <3> QED BY <2>3, <3>2, <3>3
  <2>5. ASSUME ~ HasAddr(launchDelay, q), NEW r \in Proc, Occurs(launchList[q], r)
        PROVE  src \notin {AnySource, r}
    <3>1. Wanted(b, src) = src
      BY <1>6, <2>5 DEF Wanted
    <3> QED BY <2>3, <2>5, <3>1
  <2>6. launchList'[q] = launchList[q] /\ launchDelay' = launchDelay
    BY <1>6
  <2>7. ASSUME NEW w \in Proc \cup {AnySource}, waitList'[q] = <<w>>
        PROVE  w = src
    <3>1. <<w>>[1] = w /\ <<src>>[1] = src
      OBVIOUS
    <3> QED BY <2>1, <2>7, <3>1
  <2>8. front = FrontSrc(launchDelay, q)
    BY <1>6
  <2> HIDE DEF front
  <2> QED BY <2>2, <2>4, <2>5, <2>6, <2>7, <2>8 DEF Unorphaned
<1> QED BY <1>2, <1>4, <1>5, <1>6

LEMMA InitUnorphaned == Init => \A q \in Proc : Unorphaned(q)
<1>1. \A w : <<>> # <<w>>
  OBVIOUS
<1> QED BY <1>1 DEF Init, Nothing, Unorphaned

LEMMA NextUnorphaned ==
  ASSUME Inv1, Recorded, [Next]_vars, NEW q \in Proc, Unorphaned(q)
  PROVE  Unorphaned(q)'
<1>1. ASSUME UNCHANGED <<launchList, waitList, launchDelay>> PROVE Unorphaned(q)'
  BY <1>1, UnorphanedSame
<1>2. CASE \E p, b \in Proc : HandleLaunch(p, b)
  BY <1>2, LaunchUnorphaned
<1>3. CASE \E b \in Proc : \E src \in Proc \cup {AnySource} : HandleWaitlaunch(b, src)
  BY <1>3, WaitlaunchUnorphaned
<1>4. ASSUME NEW p \in Proc, NEW dst \in Proc, HandleSend(p, dst)
      PROVE  Unorphaned(q)'
  <2>1. pc[p] = "run" /\ prog[p] # <<>> /\ NextCmd(p).op = "SEND" /\ NextCmd(p).peer = dst
    BY <1>4 DEF HandleSend, Issue
  <2>2. Sends(NextCmd(p))
    BY <2>1 DEF Sends
  <2>3. CheckedOrder(p, "SEND", dst) = launchDelay
    BY <2>1, <2>2 DEF Recorded, CheckedOrder
  <2>4. UNCHANGED <<launchList, waitList, launchDelay>>
    BY <1>4, <2>3 DEF HandleSend, launchVars
  <2> QED BY <1>1, <2>4
<1>5. CASE NextRound
  BY <1>5, NobodyWaits DEF NextRound, Nothing
<1>6. CASE UNCHANGED vars
  BY <1>1, <1>6 DEF vars, launchVars
<1>7. ASSUME NEW p \in Proc,
             \/ \E src \in Proc : HandleReceive(p, src)
             \/ HandleRead(p) \/ HandleWrite(p) \/ ReadResult(p) \/ ReadSync(p)
             \/ \E r \in Proc : OpenPipe(p, r) \/ WriteData(p, r) \/ ReadData(r, p)
      PROVE  Unorphaned(q)'
  <2>1. UNCHANGED <<launchList, waitList, launchDelay>>
    BY <1>7 DEF HandleReceive, HandleRead, HandleWrite, ReadResult, ReadSync, OpenPipe,
       WriteData, ReadData, launchVars
  <2> QED BY <1>1, <2>1
<1> QED BY <1>2, <1>3, <1>4, <1>5, <1>6, <1>7, NextCases DEF Step, HandleCmd

\* As long as every command fits the delay information, a LAUNCH and a
\* WAITLAUNCH that fit each other stay pending only while a source is still to
\* come that the information puts before.
THEOREM NobodyOrphaned == Spec /\ []Recorded => []NoOrphan
<1> DEFINE InvO == \A q \in Proc : Unorphaned(q)
<1>1. Inv1 /\ InvO => NoOrphan
  BY UnorphanedNoOrphan
<1>2. Inv1 /\ Recorded /\ InvO /\ [Next]_vars => InvO'
  BY NextUnorphaned
<1>3. Init => InvO
  BY InitUnorphaned
<1> HIDE DEF InvO
<1> QED BY <1>1, <1>2, <1>3, Invariant1, PTL DEF Spec
-----------------------------------------------------------------------------
(* A round that repeats the previous one keeps to its delay information.   *)

\* Every round executes the programs of the round before.
Replayed ==
  \A ps \in Plans : \A r \in DOMAIN ps : r + 1 \in DOMAIN ps => ps[r + 1] = ps[r]

\* The programs name the destinations of their transactions themselves, and
\* accept whoever launches them.
Unnamed(program) ==
  \A i \in DOMAIN program : program[i].op = "WAITLAUNCH" => program[i].peer = AnySource

ServesAnyone ==
  \A ps \in Plans : \A r \in DOMAIN ps : \A p \in Proc : Explicit(ps[r][p]) /\ Unnamed(ps[r][p])

Rank(program, n) == Cardinality(Sendings(program, n))

\* The records are those of the transactions of the program after the n-th.
Remains(records, program, n) ==
  /\ Len(records) = Rank(program, Len(program)) - Rank(program, n)
  /\ \A i \in (n + 1)..Len(program) : Sends(program[i]) =>
       records[Rank(program, i) - Rank(program, n)] =
         [op |-> Flags(program[i].op), dst |-> program[i].peer]

\* The ranks of two transactions, one before the other.
LEMMA RankGrows ==
  ASSUME NEW program, NEW n \in Nat, NEW L \in Nat
  PROVE  /\ Rank(program, n) \in Nat
         /\ Sends(program[n + 1]) => Rank(program, n + 1) = Rank(program, n) + 1
         /\ ~ Sends(program[n + 1]) => Rank(program, n + 1) = Rank(program, n)
         /\ n <= L => Rank(program, n) <= Rank(program, L)
<1>1. ASSUME n <= L PROVE Rank(program, n) <= Rank(program, L)
  <2>1. Sendings(program, n) \subseteq Sendings(program, L)
    BY <1>1 DEF Sendings
  <2>2. IsFiniteSet(Sendings(program, L))
    BY SendingsGrow
  <2> QED BY <2>1, <2>2, FS_Subset DEF Rank
<1> QED BY <1>1, SendingsGrow DEF Rank

LEMMA RemainsAll ==
  ASSUME NEW S, NEW program \in Seq(S), NEW records, Reflects(records, program, Len(program))
  PROVE  Remains(records, program, 0)
<1>1. Rank(program, 0) = 0
  <2>1. Sendings(program, 0) = {}
    BY DEF Sendings
  <2> QED BY <2>1, FS_EmptySet DEF Rank
<1>2. Len(program) \in Nat
  OBVIOUS
<1>3. Len(records) = Rank(program, Len(program)) - 0
  <2>1. Rank(program, Len(program)) \in Nat
    BY <1>2, RankGrows
  <2> QED BY <2>1 DEF Reflects, Rank
<1>4. ASSUME NEW i \in 1..Len(program), Sends(program[i])
      PROVE  records[Rank(program, i) - 0] = [op |-> Flags(program[i].op), dst |-> program[i].peer]
  <2>1. i \in Sendings(program, Len(program))
    BY <1>4 DEF Sendings
  <2>2. Rank(program, i) \in Nat
    BY <1>2, RankGrows
  <2>3. Rank(program, i) - 0 = Rank(program, i)
    BY <2>2
  <2> QED BY <2>1, <2>3 DEF Reflects, Rank
<1>5. (0 + 1)..Len(program) = 1..Len(program)
  OBVIOUS
<1> QED BY <1>1, <1>3, <1>4, <1>5 DEF Remains

\* A transaction without a record.
LEMMA RemainsSame ==
  ASSUME NEW S, NEW program \in Seq(S), NEW n \in Nat, NEW records,
         Remains(records, program, n), ~ Sends(program[n + 1])
  PROVE  Remains(records, program, n + 1)
<1>1. Rank(program, n + 1) = Rank(program, n)
  BY RankGrows
<1>2. \A i \in (n + 1 + 1)..Len(program) : i \in (n + 1)..Len(program)
  OBVIOUS
<1> QED BY <1>1, <1>2 DEF Remains

\* A transaction with a record: the first one.
LEMMA RemainsTail ==
  ASSUME NEW S, NEW program \in Seq(S), NEW n \in Nat, n < Len(program),
         NEW R, NEW records \in Seq(R), Remains(records, program, n), Sends(program[n + 1])
  PROVE  /\ records # <<>>
         /\ Head(records) = [op |-> Flags(program[n + 1].op), dst |-> program[n + 1].peer]
         /\ Remains(Tail(records), program, n + 1)
<1> DEFINE L == Len(program)
           k(i) == Rank(program, i)
           Of(i) == [op |-> Flags(program[i].op), dst |-> program[i].peer]
<1>1. L \in Nat /\ n + 1 <= L
  OBVIOUS
<1>2. k(n) \in Nat /\ k(L) \in Nat /\ k(n + 1) = k(n) + 1 /\ k(n + 1) <= k(L)
  BY <1>1, RankGrows
<1>3. Len(records) = k(L) - k(n)
  BY DEF Remains
<1>4. \A i \in (n + 1)..L : Sends(program[i]) => records[k(i) - k(n)] = Of(i)
  BY DEF Remains
<1>5. \A i \in (n + 1 + 1)..L : Sends(program[i]) => k(i) \in (k(n) + 2)..k(L)
  <2> TAKE i \in (n + 1 + 1)..L
  <2> HAVE Sends(program[i])
  <2>1. i - 1 \in Nat /\ n + 1 <= i - 1 /\ (i - 1) + 1 = i /\ i <= L /\ i \in Nat /\ n + 1 \in Nat
    BY <1>1
  <2>2. k(i) = k(i - 1) + 1 /\ k(i - 1) \in Nat
    <3>1. Sends(program[(i - 1) + 1])
      BY <2>1
    <3> QED BY <2>1, <3>1, RankGrows
  <2>3. k(n + 1) <= k(i - 1) /\ k(i) <= k(L)
    BY <1>1, <2>1, RankGrows
  <2> HIDE DEF k
  <2> QED BY <1>2, <2>2, <2>3
<1> HIDE DEF k, Of, L
<1>6. Len(records) \in Nat /\ Len(records) >= 1
  BY <1>2, <1>3
<1>7. records # <<>> /\ Head(records) = records[1]
  BY <1>6
<1>8. records[1] = Of(n + 1)
  <2>1. k(n + 1) - k(n) = 1 /\ n + 1 \in (n + 1)..L
    BY <1>1, <1>2
  <2> QED BY <1>4, <2>1
<1>9. /\ Len(Tail(records)) = k(L) - k(n + 1)
      /\ \A j \in 1..(Len(records) - 1) : Tail(records)[j] = records[j + 1]
  BY <1>2, <1>3, <1>6, <1>7
<1>10. ASSUME NEW i \in (n + 1 + 1)..L, Sends(program[i])
       PROVE  Tail(records)[k(i) - k(n + 1)] = Of(i)
  <2>1. k(i) \in (k(n) + 2)..k(L)
    BY <1>5, <1>10
  <2>2. k(i) - k(n + 1) \in 1..(Len(records) - 1) /\ (k(i) - k(n + 1)) + 1 = k(i) - k(n)
    BY <1>2, <1>3, <2>1
  <2>3. Tail(records)[k(i) - k(n + 1)] = records[k(i) - k(n)]
    BY <1>9, <2>2
  <2>4. i \in (n + 1)..L
    BY <1>1
  <2> QED BY <1>4, <1>10, <2>3, <2>4
<1> QED BY <1>7, <1>8, <1>9, <1>10 DEF Remains, k, Of, L
-----------------------------------------------------------------------------
(* What a step does to the records of the previous round.                  *)

SrcInStep(p) ==
  srcDelay[p] = <<>> \/ Remains(srcDelay[p], plan[round][p], Completed(p))

\* The record of a transaction is popped when it is paired.
Takes(r) ==
  srcDelay'[r] = IF Completes(r) /\ Sends(cmd[r]) THEN PopItem(srcDelay, r, cmd[r].peer)[r]
                 ELSE srcDelay[r]

LEMMA NothingTaken ==
  ASSUME TypeOK, NEW r \in Proc, bench'[r] = bench[r], srcDelay'[r] = srcDelay[r]
  PROVE  Takes(r)
<1>1. bench[r] \in Seq(Record)
  BY DEF TypeOK
<1>2. \A x : Append(bench[r], x) # bench[r]
  <2> TAKE x
  <2>1. Len(Append(bench[r], x)) = Len(bench[r]) + 1 /\ Len(bench[r]) \in Nat
    BY <1>1
  <2> QED BY <2>1
<1>3. ~ (Completes(r) /\ Sends(cmd[r]))
  BY <1>2 DEF Completes
<1> QED BY <1>3 DEF Takes

LEMMA PopItemAt ==
  ASSUME NEW map \in [Proc -> Seq(Record)], NEW p \in Proc, NEW q \in Proc
  PROVE  /\ \A r \in Proc : r # p => PopItem(map, p, q)[r] = map[r]
         /\ map[p] = <<>> => PopItem(map, p, q)[p] = <<>>
         /\ map[p] # <<>> /\ Head(map[p]).dst = q => PopItem(map, p, q)[p] = Tail(map[p])
<1> DEFINE T == RecordsFor(map, p, q)
<1>1. map[p] \in Seq(Record) /\ T \in SUBSET DOMAIN map[p]
  BY DEF RecordsFor
<1>2. \A r \in Proc : r # p => PopItem(map, p, q)[r] = map[r]
  BY DEF PopItem
<1>3. ASSUME map[p] = <<>> PROVE PopItem(map, p, q)[p] = <<>>
  BY <1>3 DEF PopItem, RecordsFor
<1>4. ASSUME map[p] # <<>>, Head(map[p]).dst = q PROVE PopItem(map, p, q)[p] = Tail(map[p])
  <2>1. 1 \in DOMAIN map[p] /\ map[p][1] = Head(map[p])
    BY <1>1, <1>4
  <2>2. 1 \in T
    BY <1>4, <2>1 DEF RecordsFor
  <2>3. RemoveAt(map[p], Min(T)) = Tail(map[p])
    <3> HIDE DEF T
    <3> QED BY <1>1, <1>4, <2>2, RemoveHead
  <2>4. PopItem(map, p, q) = [map EXCEPT ![p] = RemoveAt(map[p], Min(T))]
    BY <2>2 DEF PopItem
  <2> HIDE DEF T
  <2> QED BY <2>3, <2>4
<1> QED BY <1>2, <1>3, <1>4

\* Every handler pops the record of the transaction it pairs, and no other.
LEMMA StepTakes ==
  ASSUME Inv2, Recorded, NEW p \in Proc, Step(p)
  PROVE  \A r \in Proc : Takes(r)
<1>1. Inv1 /\ TypeOK /\ srcDelay \in [Proc -> Seq(Record)] /\ bench \in [Proc -> Seq(Record)]
  BY DEF Inv2, Inv1, TypeOK
<1>2. ASSUME UNCHANGED <<bench, srcDelay>> PROVE \A r \in Proc : Takes(r)
  BY <1>1, <1>2, NothingTaken
<1>3. ASSUME NEW dst \in Proc, HandleLaunch(p, dst) \/ HandleSend(p, dst)
      PROVE  UNCHANGED <<bench, srcDelay>>
  <2>1. PICK op \in {"LAUNCH", "SEND"} : Issue(p, op, dst) /\ srcDelay' = CheckedSource(p, op, dst)
                                         /\ UNCHANGED bench
    BY <1>3 DEF HandleLaunch, HandleSend
  <2>2. pc[p] = "run" /\ prog[p] # <<>> /\ NextCmd(p).op = op /\ NextCmd(p).peer = dst
    BY <2>1 DEF Issue
  <2>3. Sends(NextCmd(p))
    BY <2>2 DEF Sends
  <2>4. CheckedSource(p, op, dst) = srcDelay
    BY <2>2, <2>3 DEF Recorded, CheckedSource
  <2> QED BY <2>1, <2>4
<1>4. CASE \/ \E src \in Proc \cup {AnySource} : HandleWaitlaunch(p, src)
           \/ \E src \in Proc : HandleReceive(p, src)
           \/ ReadResult(p) \/ ReadSync(p)
           \/ \E q \in Proc : OpenPipe(p, q) \/ WriteData(p, q) \/ ReadData(q, p)
  <2>1. UNCHANGED <<bench, srcDelay>>
    BY <1>4 DEF HandleWaitlaunch, HandleReceive, ReadResult, ReadSync, OpenPipe, WriteData,
       ReadData
  <2> QED BY <1>2, <2>1
<1>5. ASSUME NEW a \in Proc, NEW b \in Proc, Paired(a, b), PairRecorded(a, b), prog' = prog,
             NEW r \in Proc
      PROVE  Takes(r)
  <2>1. srcDelay' = PopItem(srcDelay, a, b) /\ cmd[a].peer = b /\ cmd[a].op \in {"LAUNCH", "SEND"}
    BY <1>5 DEF PairRecorded, Paired
  <2>2. \A q \in Proc : q # a => srcDelay'[q] = srcDelay[q] /\ bench'[q] = bench[q]
    <3>1. ASSUME NEW q \in Proc, q # a PROVE PopItem(srcDelay, a, b)[q] = srcDelay[q]
      BY <1>1, <3>1 DEF PopItem
    <3>2. \A q \in Proc : q # a => bench'[q] = bench[q]
      BY <1>1, <1>5 DEF PairRecorded
    <3> QED BY <2>1, <3>1, <3>2
  <2>3. CASE r # a
    BY <1>1, <2>2, <2>3, NothingTaken
  <2>4. CASE r = a
    <3>1. Sends(cmd[a])
      BY <2>1 DEF Sends
    <3>2. Completes(a) \/ Goes(a) \/ Prints(a)
      BY <1>5, PairAdvances DEF Advances
    <3>3. bench'[a] # bench[a]
      <4>1. bench[a] \in Seq(Record)
        BY <1>1
      <4>2. \A x : Append(bench[a], x) # bench[a]
        <5> TAKE x
        <5>1. Len(Append(bench[a], x)) = Len(bench[a]) + 1 /\ Len(bench[a]) \in Nat
          BY <4>1
        <5> QED BY <5>1
      <4> QED BY <1>1, <1>5, <4>2 DEF PairRecorded
    <3>4. Completes(a)
      BY <3>2, <3>3 DEF Goes, Prints
    <3> QED BY <2>1, <2>4, <3>1, <3>4 DEF Takes
  <2> QED BY <2>3, <2>4
<1>6. CASE HandleRead(p) \/ HandleWrite(p)
  <2>1. /\ prog' = prog
        /\ \/ UNCHANGED <<bench, srcDelay>>
           \/ \E a, b \in Proc : Paired(a, b) /\ PairRecorded(a, b)
    BY <1>1, <1>6, ReadStep, WriteStep
  <2> QED BY <1>2, <1>5, <2>1
<1> QED BY <1>2, <1>3, <1>4, <1>6 DEF Step, HandleCmd

\* A step keeps the records of every process in step with its program.
LEMMA TakesOn ==
  ASSUME TypeOK, NEW r \in Proc, InProgram(r), SrcInStep(r), Explicit(plan[round][r]),
         Advances(r), Takes(r), UNCHANGED <<plan, round>>
  PROVE  SrcInStep(r)'
<1> DEFINE program == plan[round][r]
           n == Completed(r)
<1>1. srcDelay \in [Proc -> Seq(Record)] /\ program \in Seq(Cmd) /\ srcDelay[r] \in Seq(Record)
  BY PlaceType DEF TypeOK
<1>2. CASE Goes(r) \/ Prints(r)
  <2>1. ~ Completes(r)
    BY <1>2 DEF Goes, Prints, Completes, InTransaction
  <2>2. srcDelay'[r] = srcDelay[r] /\ Completed(r)' = n
    BY <1>2, <2>1, GoesCompleted DEF Takes
  <2> HIDE DEF n
  <2> QED BY <2>2 DEF SrcInStep, n
<1>3. CASE Completes(r)
  <2>1. /\ Completed(r)' = n + 1 /\ n \in Nat /\ n < Len(program)
        /\ Current(cmd[r], program, n + 1)
    BY <1>3, GoesCompleted
  <2>2. Sends(cmd[r]) <=> Sends(program[n + 1])
    BY <2>1 DEF Current, Sends
  <2>3. CASE srcDelay[r] = <<>>
    <3>1. PopItem(srcDelay, r, cmd[r].peer)[r] = <<>> \/ ~ Sends(cmd[r])
      <4>1. ASSUME Sends(cmd[r]) PROVE cmd[r].peer \in Proc
        <5>1. n + 1 \in DOMAIN program
          BY <1>1, <2>1
        <5>2. program[n + 1].peer \in Proc
          BY <2>2, <4>1, <5>1 DEF Explicit
        <5> QED BY <2>1, <2>2, <4>1, <5>2, CallerAssumption DEF Current
      <4> QED BY <1>1, <2>3, <4>1, PopItemAt
    <3>2. srcDelay'[r] = <<>>
      BY <1>3, <2>3, <3>1 DEF Takes
    <3> QED BY <3>2 DEF SrcInStep
  <2>4. CASE srcDelay[r] # <<>> /\ ~ Sends(cmd[r])
    <3>1. srcDelay'[r] = srcDelay[r]
      BY <2>4 DEF Takes
    <3>2. Remains(srcDelay[r], program, n)
      BY <2>4 DEF SrcInStep
    <3>3. Remains(srcDelay[r], program, n + 1)
      <4> HIDE DEF n
      <4> QED BY <1>1, <2>1, <2>2, <2>4, <3>2, RemainsSame
    <3> HIDE DEF n
    <3> QED BY <2>1, <3>1, <3>3 DEF SrcInStep
  <2>5. CASE srcDelay[r] # <<>> /\ Sends(cmd[r])
    <3>1. Remains(srcDelay[r], program, n)
      BY <2>5 DEF SrcInStep
    <3>2. /\ Head(srcDelay[r]) = [op |-> Flags(program[n + 1].op), dst |-> program[n + 1].peer]
          /\ Remains(Tail(srcDelay[r]), program, n + 1)
      <4> HIDE DEF n
      <4> QED BY <1>1, <2>1, <2>2, <2>5, <3>1, RemainsTail
    <3>3. program[n + 1].peer \in Proc /\ cmd[r].peer = program[n + 1].peer
      <4>1. n + 1 \in DOMAIN program
        BY <1>1, <2>1
      <4>2. program[n + 1].peer \in Proc
        BY <2>2, <2>5, <4>1 DEF Explicit
      <4> QED BY <2>1, <2>2, <2>5, <4>2, CallerAssumption DEF Current
    <3>4. Head(srcDelay[r]).dst = cmd[r].peer
      BY <3>2, <3>3
    <3>5. srcDelay'[r] = Tail(srcDelay[r])
      <4>1. cmd[r].peer \in Proc
        BY <3>3
      <4>2. PopItem(srcDelay, r, cmd[r].peer)[r] = Tail(srcDelay[r])
        BY <1>1, <2>5, <3>4, <4>1, PopItemAt
      <4> QED BY <1>3, <2>5, <4>2 DEF Takes
    <3> HIDE DEF n
    <3> QED BY <2>1, <3>2, <3>5 DEF SrcInStep
  <2> QED BY <2>3, <2>4, <2>5
<1> QED BY <1>2, <1>3 DEF Advances

\* The programs of the current round.
LEMMA CurrentPrograms ==
  ASSUME ServesAnyone, TypeOK, NEW p \in Proc
  PROVE  Explicit(plan[round][p]) /\ Unnamed(plan[round][p])
BY DEF ServesAnyone, TypeOK

\* Records that are in step fit the next command.
LEMMA InStepRecorded ==
  ASSUME ServesAnyone, TypeOK, \A p \in Proc : InProgram(p) /\ SrcInStep(p)
  PROVE  Recorded
<1> SUFFICES ASSUME NEW p \in Proc, pc[p] = "run", prog[p] # <<>>
             PROVE  /\ Sends(NextCmd(p)) =>
                         InOrder(srcDelay, p, Flags(NextCmd(p).op), NextCmd(p).peer)
                    /\ NextCmd(p).op = "WAITLAUNCH" => NextCmd(p).peer = AnySource
  BY DEF Recorded
<1> DEFINE program == plan[round][p]
           n == Printed(p)
           c == program[n + 1]
<1>1. /\ program \in Seq(Cmd) /\ prog[p] \in Seq(Cmd) /\ n \in 0..Len(program)
      /\ Completed(p) = n
  <2>1. ~ InTransaction(p)
    BY DEF InTransaction
  <2> QED BY <2>1, PlaceType
<1>2. n < Len(program) /\ Head(prog[p]) = c
  <2>1. Len(prog[p]) \in Nat /\ Len(prog[p]) >= 1 /\ Head(prog[p]) = prog[p][1]
    BY <1>1
  <2>2. n = Len(program) - Len(prog[p]) /\ Len(program) \in Nat
    BY <1>1 DEF Printed
  <2>3. prog[p][1] = program[n + 1]
    BY <2>1 DEF InProgram
  <2> HIDE DEF n, program
  <2>4. n < Len(program)
    BY <2>1, <2>2
  <2> QED BY <2>1, <2>3, <2>4
<1>3. n + 1 \in DOMAIN program
  BY <1>1, <1>2
<1>4. /\ Sends(c) => c.peer \in Proc
      /\ c.op = "WAITLAUNCH" => c.peer = AnySource
  BY <1>3, CurrentPrograms DEF Explicit, Unnamed
<1>5. NextCmd(p).op = c.op
  <2>1. c \in Cmd
    BY <1>1, <1>3
  <2> QED BY <1>2, <2>1 DEF NextCmd, Cmd
<1>6. Sends(c) \/ c.op = "WAITLAUNCH" => NextCmd(p) = c
  BY <1>2, <1>4, CallerAssumption DEF NextCmd
<1>7. ASSUME Sends(c), srcDelay[p] # <<>>
      PROVE  Head(srcDelay[p]).op = Flags(c.op) /\ Head(srcDelay[p]).dst = c.peer
  <2>1. Remains(srcDelay[p], program, n)
    BY <1>1, <1>7 DEF SrcInStep
  <2>2. srcDelay[p] \in Seq(Record)
    BY DEF TypeOK
  <2>3. Head(srcDelay[p]) = [op |-> Flags(c.op), dst |-> c.peer]
    <3>1. n \in Nat /\ Sends(program[n + 1])
      BY <1>1, <1>7
    <3> HIDE DEF n, program
    <3> QED BY <1>1, <1>2, <2>1, <2>2, <3>1, RemainsTail
  <2> HIDE DEF c
  <2> QED BY <2>3
<1> HIDE DEF c
<1>8. Sends(NextCmd(p)) => Sends(c) /\ NextCmd(p) = c
  BY <1>5, <1>6 DEF Sends
<1> QED BY <1>4, <1>5, <1>6, <1>7, <1>8 DEF InOrder, HasAddr

Inv4 == Inv3 /\ \A p \in Proc : SrcInStep(p)

LEMMA Init4 == Init => Inv4
BY Init3 DEF Init, Nothing, Inv4, SrcInStep

LEMMA NextInv4 ==
  ASSUME ServesAnyone, Replayed
  PROVE  Inv4 /\ [Next]_vars => Inv4'
<1> SUFFICES ASSUME Inv4, [Next]_vars PROVE Inv4'
  OBVIOUS
<1>1. /\ Inv3 /\ Inv2 /\ TypeOK
      /\ \A p \in Proc : InProgram(p) /\ Benched(p) /\ SrcInStep(p) /\ Explicit(plan[round][p])
  <2>1. Inv3 /\ Inv2 /\ TypeOK /\ \A p \in Proc : InProgram(p) /\ Benched(p) /\ SrcInStep(p)
    BY DEF Inv4, Inv3, Inv2, Inv1
  <2> QED BY <2>1, CurrentPrograms
<1>2. Inv3' /\ TypeOK'
  BY <1>1, NextInv3 DEF Inv3, Inv2, Inv1
<1>3. CASE \E p \in Proc : Step(p)
  <2>1. UNCHANGED <<plan, round>> /\ \A r \in Proc : Advances(r)
    BY <1>1, <1>3, StepAdvances
  <2>2. \A r \in Proc : Takes(r)
    BY <1>1, <1>3, InStepRecorded, StepTakes
  <2> QED BY <1>1, <1>2, <2>1, <2>2, TakesOn DEF Inv4
<1>4. CASE NextRound
  <2>1. /\ plan' = plan /\ round' = round + 1 /\ prog' = plan[round + 1] /\ pc' = pc
        /\ srcDelay' = bench /\ \A p \in Proc : prog[p] = <<>> /\ pc[p] = "run"
    BY <1>4 DEF NextRound, RoundOver
  <2>2. plan[round + 1] = plan[round]
    BY <1>1, <1>2, <2>1 DEF Replayed, TypeOK
  <2>3. ASSUME NEW p \in Proc
        PROVE  SrcInStep(p)'
    <3> DEFINE program == plan[round][p]
    <3>1. program \in Seq(Cmd) /\ Len(program) \in Nat
      BY <1>1, PlaceType
    <3>2. Completed(p) = Len(program)
      <4>1. Len(prog[p]) = 0 /\ ~ InTransaction(p)
        BY <2>1 DEF InTransaction
      <4> QED BY <3>1, <4>1 DEF Completed
    <3>3. Remains(bench[p], program, 0)
      BY <1>1, <3>1, <3>2, RemainsAll DEF Benched
    <3>4. Completed(p)' = 0
      <4>1. Completed(p)' = Len(program) - Len(program) - 0
        BY <2>1, <2>2 DEF Completed, InTransaction
      <4> QED BY <3>1, <4>1
    <3>5. plan'[round'][p] = program /\ srcDelay'[p] = bench[p]
      BY <2>1, <2>2
    <3> QED BY <3>3, <3>4, <3>5 DEF SrcInStep
  <2> QED BY <1>2, <2>3 DEF Inv4
<1>5. CASE UNCHANGED vars
  <2>1. UNCHANGED <<plan, round, prog, pc, resp, srcDelay>>
    BY <1>5 DEF vars, clientVars
  <2>2. \A p \in Proc : SrcInStep(p)' <=> SrcInStep(p)
    BY <2>1 DEF SrcInStep, Completed, InTransaction
  <2> QED BY <1>1, <1>2, <2>2 DEF Inv4
<1> QED BY <1>3, <1>4, <1>5, NextCases

\* When every round repeats the programs of the one before, which name their
\* destinations and accept whoever launches them, the delay information stays
\* valid, and no LAUNCH and WAITLAUNCH that fit are left waiting for nobody.
THEOREM ReplayNobodyOrphaned ==
  ASSUME Replayed, ServesAnyone
  PROVE  Spec => []NoOrphan
<1>1. Inv4 => Recorded
  <2>1. Inv4 => TypeOK /\ \A p \in Proc : InProgram(p) /\ SrcInStep(p)
    BY DEF Inv4, Inv3, Inv2, Inv1
  <2> QED BY <2>1, InStepRecorded
<1>2. Inv4 /\ [Next]_vars => Inv4'
  BY NextInv4
<1> QED BY <1>1, <1>2, Init4, NobodyOrphaned, PTL DEF Spec
=============================================================================
