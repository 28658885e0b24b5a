----------------------------- MODULE MCSyncLock -----------------------------
(***************************************************************************)
(* Instances of SyncLock: the programs of the processes, and the network   *)
(* simulator that turns the bench of one round into the delay information  *)
(* of the next.                                                            *)
(***************************************************************************)
EXTENDS SyncLock

CONSTANTS p1, p2, p3, m1, m2

lock(m) == [op |-> "LOCK", dst |-> m]
unlock(m) == [op |-> "UNLOCK", dst |-> m]
session(m) == <<lock(m), unlock(m)>>

\* The same program in every one of n rounds.
Replays(programs, n) == {[r \in 1..n |-> program] : program \in programs}

\* Three processes contend for one mutex, one of them twice; two processes use
\* two mutexes in any order, one at a time.
ReplayPlans ==
  LET contend == [p \in Proc |-> IF p = p1 THEN session(m1) \o session(m1) ELSE session(m1)]
      both == {session(m) \o session(n) : m, n \in Mutex}
      two == {program \in [Proc -> both \cup {<<>>}] :
                program[p3] = <<>> /\ program[p1] # <<>> /\ program[p2] # <<>>}
  IN  Replays({contend} \cup two, 2)

\* One session each; then two processes run any two commands, disciplined or
\* not, beside a third that repeats its session.
AnyPlans ==
  {<<first, second>> :
     first \in [Proc -> {session(m1)}],
     second \in {program \in [Proc -> BoundedSeq(Cmd, 2)] : program[p3] = session(m1)}}

\* One session each on one mutex; then the first process turns to the other
\* mutex, which is not the command recorded for it.
ChangedPlans ==
  {<<[p \in Proc |-> session(m1)],
     [p \in Proc |-> IF p = p1 THEN session(m2) ELSE session(m1)]>>}

\* One process locks the mutex it already holds.
ReentrantPlans ==
  Replays({[p \in Proc |-> IF p = p1 THEN <<lock(m1)>> \o session(m1) ELSE session(m1)]}, 2)
-----------------------------------------------------------------------------
Locks(b, p) == SelectSeq(b[p], LAMBDA c : c.op = "LOCK")

Requests(b) == FoldSet(LAMBDA p, n : n + Len(Locks(b, p)), 0, Proc)

\* The sequences of sources in which all lock requests of a bench may arrive,
\* over a network that delivers the requests of one source in order.
Turns(b) ==
  {t \in [1..Requests(b) -> Proc] :
     \A p \in Proc : Cardinality({i \in DOMAIN t : t[i] = p}) = Len(Locks(b, p))}

\* The mutex of the i-th request to arrive, in the order t.
Target(b, t, i) ==
  Locks(b, t[i])[Cardinality({j \in 1..i : t[j] = t[i]})].dst

\* The order per mutex, for every order of arrival.
OrderedArrivals(b) ==
  {[m \in Mutex |->
      LET at == SetToSortSeq({i \in DOMAIN t : Target(b, t, i) = m}, <)
      IN  [k \in DOMAIN at |-> t[at[k]]]] : t \in Turns(b)}
=============================================================================
