-------------------------- MODULE SyncLock_proofs --------------------------
(***************************************************************************)
(* Proofs about SyncLock, for any processes, mutexes, programs, number of  *)
(* rounds, and network.                                                    *)
(*                                                                         *)
(* Inv1, type correctness with BenchIsExecution, is inductive: the lock    *)
(* order of the next round has the right type because it is made from a    *)
(* bench that equals the programs of the round that ends.  InStep says     *)
(* that in a round which repeats the previous one the records of a process *)
(* are the commands it has still to perform; NoOrphan then holds because   *)
(* nothing cancels the delay information while a command is parked.        *)
(***************************************************************************)
EXTENDS SyncLock, ListLemmas

\* The operations on the bookkeeping of a mutex return such a bookkeeping.
LEMMA LockStructType ==
  ASSUME NEW s \in LockState, NEW p \in Proc
  PROVE  /\ FreshLock \in LockState
         /\ Lock(s, p) \in LockState
         /\ Unlock(s, p) \in LockState
         /\ insertLockCmd(s, p) \in LockState
         /\ hasLockCmd(s, p) => popLockCmd(s, p) \in LockState
<1>1. FreshLock \in LockState
  BY DEF FreshLock, LockState
<1>2. Lock(s, p) \in LockState /\ Unlock(s, p) \in LockState
  BY DEF Lock, Unlock, LockState
<1>3. insertLockCmd(s, p) \in LockState
  BY DEF insertLockCmd, LockState
<1>4. ASSUME hasLockCmd(s, p) PROVE popLockCmd(s, p) \in LockState
  <2> DEFINE T == {i \in DOMAIN s.queue : s.queue[i] = p}
  <2>1. T # {} /\ T \in SUBSET DOMAIN s.queue /\ s.queue \in Seq(Proc)
    BY <1>4 DEF hasLockCmd, LockState
  <2>2. RemoveAt(s.queue, Min(T)) \in Seq(Proc)
    BY <2>1, RemoveFoundType
  <2> QED BY <2>2 DEF popLockCmd, LockState
<1> QED BY <1>1, <1>2, <1>3, <1>4

\* The operations on the delay information return such information.
LEMMA LockDelayType ==
  ASSUME NEW map \in [Mutex -> Seq(Proc)], NEW m \in Mutex
  PROVE  /\ PopFront(map, m) \in [Mutex -> Seq(Proc)]
         /\ Cleared(map) \in [Mutex -> Seq(Proc)]
<1>1. map[m] \in Seq(Proc) /\ (map[m] # <<>> => Tail(map[m]) \in Seq(Proc))
  OBVIOUS
<1>2. PopFront(map, m) \in [Mutex -> Seq(Proc)]
  BY <1>1 DEF PopFront, HasAddr
<1>3. Cleared(map) \in [Mutex -> Seq(Proc)]
  BY DEF Cleared
<1> QED BY <1>2, <1>3

LEMMA SrcDelayType ==
  ASSUME NEW map \in Program, NEW p \in Proc, NEW m \in Mutex
  PROVE  /\ PopItem(map, p, m) \in Program
         /\ Cleared(map) \in Program
<1>1. Cleared(map) \in Program
  BY DEF Cleared, Program
<1>2. PopItem(map, p, m) \in Program
  <2> DEFINE T == {i \in DOMAIN map[p] : map[p][i].dst = m}
  <2>1. map[p] \in Seq(Cmd) /\ T \in SUBSET DOMAIN map[p]
    BY DEF Program
  <2>2. CASE T = {}
    BY <2>2 DEF PopItem, RecordsFor
  <2>3. CASE T # {}
    <3>1. RemoveAt(map[p], Min(T)) \in Seq(Cmd)
      BY <2>1, <2>3, RemoveFoundType
    <3>2. PopItem(map, p, m) = [map EXCEPT ![p] = RemoveAt(map[p], Min(T))]
      BY <2>3 DEF PopItem, RecordsFor
    <3> HIDE DEF T
    <3> QED BY <3>1, <3>2 DEF Program
  <2> QED BY <2>2, <2>3
<1> QED BY <1>1, <1>2

\* The check of the command order only keeps or clears.
LEMMA CheckedType ==
  ASSUME TypeOK, NEW p \in Proc, NEW op, NEW m
  PROVE  /\ CheckedOrder(p, op, m) \in [Mutex -> Seq(Proc)]
         /\ CheckedSource(p, op, m) \in Program
<1>1. lockDelay \in [Mutex -> Seq(Proc)] /\ srcDelay \in Program
  BY DEF TypeOK
<1>2. Cleared(lockDelay) \in [Mutex -> Seq(Proc)] /\ Cleared(srcDelay) \in Program
  BY <1>1 DEF Cleared, Program
<1> QED BY <1>1, <1>2 DEF CheckedOrder, CheckedSource
-----------------------------------------------------------------------------
(* Type correctness and the bench.                                         *)

Inv1 == TypeOK /\ BenchIsExecution

LEMMA Init1 == Init => Inv1
<1> SUFFICES ASSUME Init PROVE Inv1
  OBVIOUS
<1>1. /\ plan \in Plans /\ 1 \in DOMAIN plan /\ plan[1] \in Program
      /\ round = 1 /\ prog = plan[1]
  BY PlansAssumption DEF Init
<1>2. FreshLock \in LockState
  BY DEF FreshLock, LockState
<1>3. (CHOOSE c \in Cmd : TRUE) \in Cmd
  <2>1. PICK m \in Mutex : TRUE
    BY MutexAssumption
  <2>2. [op |-> "LOCK", dst |-> m] \in Cmd
    BY <2>1 DEF Cmd, Op
  <2> QED BY <2>2, Zenon
<1>4. /\ srcDelay \in Program /\ bench \in Program /\ lockDelay \in [Mutex -> Seq(Proc)]
      /\ bench = [p \in Proc |-> <<>>]
  BY DEF Init, Program
<1>5. TypeOK
  BY <1>1, <1>2, <1>3, <1>4 DEF Init, TypeOK
<1>6. ASSUME NEW p \in Proc
      PROVE  plan[round][p] = bench[p] \o <<>> \o prog[p]
  <2>1. prog[p] \in Seq(Cmd) /\ bench[p] = <<>>
    BY <1>1, <1>4 DEF Program
  <2> QED BY <1>1, <2>1, OnlyOnePart
<1>7. BenchIsExecution
  BY <1>6 DEF BenchIsExecution, Init
<1> QED BY <1>5, <1>7 DEF Inv1

\* A command that moves from the head of the program to the process, and from
\* the process to the end of the bench, leaves their concatenation as it was.
LEMMA CmdMoves ==
  \A b, s \in Seq(Cmd), c \in Cmd :
    /\ s # <<>> => b \o <<>> \o s = b \o <<Head(s)>> \o Tail(s)
    /\ b \o <<c>> \o s = Append(b, c) \o <<>> \o s
<1> TAKE b, s \in Seq(Cmd), c \in Cmd
<1>1. s # <<>> => b \o <<>> \o s = b \o <<Head(s)>> \o Tail(s)
  BY TakeHead
<1>2. b \o <<c>> \o s = Append(b, c) \o <<>> \o s
  BY PutLast
<1> QED BY <1>1, <1>2

\* A process that prints its next functional command.
LEMMA IssueStep1 ==
  ASSUME Inv1, NEW p \in Proc, NEW op \in Op, NEW m \in Mutex,
         Issue(p, op, m), UNCHANGED <<plan, round, bench>>
  PROVE  /\ prog' \in Program
         /\ pc' \in [Proc -> {"run", "result", "write", "sync"}]
         /\ cmd' \in [Proc -> Cmd]
         /\ BenchIsExecution'
<1> USE DEF Inv1, TypeOK, Program
<1>1. prog[p] \in Seq(Cmd) /\ prog[p] # <<>> /\ bench[p] \in Seq(Cmd)
  BY DEF Issue
<1>2. Tail(prog[p]) \in Seq(Cmd) /\ [op |-> op, dst |-> m] \in Cmd
  BY <1>1 DEF Cmd
<1>3. /\ prog' = [prog EXCEPT ![p] = Tail(prog[p])]
      /\ pc' = [pc EXCEPT ![p] = "result"]
      /\ cmd' = [cmd EXCEPT ![p] = Head(prog[p])]
      /\ pc[p] = "run"
  BY DEF Issue
<1>4. bench[p] \o <<>> \o prog[p] = bench[p] \o <<Head(prog[p])>> \o Tail(prog[p])
  BY <1>1, <1>2, CmdMoves, Zenon
<1>5. ASSUME NEW q \in Proc
      PROVE  (plan[round][q] =
                bench[q] \o (IF pc[q] \in {"result", "write"} THEN <<cmd[q]>> ELSE <<>>) \o prog[q])'
  <2>1. CASE q = p
    BY <2>1, <1>3, <1>4 DEF BenchIsExecution
  <2>2. CASE q # p
    BY <2>2, <1>3 DEF BenchIsExecution
  <2> QED BY <2>1, <2>2
<1>6. BenchIsExecution'
  BY <1>5 DEF BenchIsExecution
<1>7. prog' \in Program
  BY <1>2, <1>3
<1>8. cmd' \in [Proc -> Cmd]
  BY <1>2 DEF Issue
<1> QED BY <1>3, <1>6, <1>7, <1>8

\* A process that prints its WRITE command, which the bench then records.
LEMMA WriteStep1 ==
  ASSUME Inv1, NEW p \in Proc, NEW op \in Op, NEW m \in Mutex,
         IssueWrite(p, op, m), Record(p), UNCHANGED <<plan, round>>
  PROVE  /\ pc' \in [Proc -> {"run", "result", "write", "sync"}]
         /\ bench' \in Program
         /\ BenchIsExecution'
<1> USE DEF Inv1, TypeOK, Program
<1>1. /\ prog[p] \in Seq(Cmd) /\ bench[p] \in Seq(Cmd) /\ cmd[p] \in Cmd
      /\ pc[p] = "write" /\ pc' = [pc EXCEPT ![p] = "sync"]
      /\ UNCHANGED <<prog, cmd>>
  BY DEF IssueWrite
<1>2. Append(bench[p], cmd[p]) \in Seq(Cmd)
  BY <1>1
<1>3. bench' = [bench EXCEPT ![p] = Append(bench[p], cmd[p])]
  BY DEF Record
<1>4. bench[p] \o <<cmd[p]>> \o prog[p] = Append(bench[p], cmd[p]) \o <<>> \o prog[p]
  BY <1>1, CmdMoves, Zenon
<1>5. ASSUME NEW q \in Proc
      PROVE  (plan[round][q] =
                bench[q] \o (IF pc[q] \in {"result", "write"} THEN <<cmd[q]>> ELSE <<>>) \o prog[q])'
  <2>1. CASE q = p
    BY <2>1, <1>1, <1>3, <1>4 DEF BenchIsExecution
  <2>2. CASE q # p
    BY <2>2, <1>1, <1>3 DEF BenchIsExecution
  <2> QED BY <2>1, <2>2
<1>6. BenchIsExecution'
  BY <1>5 DEF BenchIsExecution
<1>7. bench' \in Program
  BY <1>2, <1>3
<1> QED BY <1>1, <1>6, <1>7

\* At the end of a round the bench equals the programs of the round.
LEMMA BenchAtEnd ==
  ASSUME Inv1, RoundOver
  PROVE  bench = plan[round]
<1> USE DEF Inv1, TypeOK, Program
<1>1. plan \in Seq(Program) /\ plan[round] \in Program
  BY PlansAssumption
<1>2. ASSUME NEW p \in Proc PROVE bench[p] = plan[round][p]
  <2>1. bench[p] \in Seq(Cmd) /\ prog[p] = <<>> /\ pc[p] = "run"
    BY DEF RoundOver
  <2>2. plan[round][p] = bench[p] \o <<>> \o <<>>
    BY <2>1 DEF BenchIsExecution
  <2> QED BY <2>1, <2>2, OnlyOnePart
<1> QED BY <1>1, <1>2

LEMMA NextRound1 ==
  ASSUME Inv1, NextRound
  PROVE  Inv1'
<1> USE DEF Inv1, TypeOK
<1>1. plan \in Plans /\ plan \in Seq(Program) /\ round \in DOMAIN plan
  BY PlansAssumption
<1>2. /\ plan' = plan /\ round' = round + 1 /\ round' \in DOMAIN plan
      /\ prog' = plan[round'] /\ prog' \in Program
  BY <1>1 DEF NextRound
<1>3. bench = plan[round]
  BY BenchAtEnd DEF NextRound
<1>4. lockDelay' \in [Mutex -> Seq(Proc)]
  BY <1>1, <1>3, ArrivalsAssumption DEF NextRound
<1>5. lockStruct' \in [Mutex -> LockState] /\ lockTiming' \in [Mutex -> LockState]
  BY DEF NextRound, FreshLock, LockState
<1>6. bench' = [p \in Proc |-> <<>>] /\ bench' \in Program
  BY DEF NextRound, Program
<1>7. TypeOK'
  BY <1>1, <1>2, <1>4, <1>5, <1>6 DEF NextRound
<1>8. ASSUME NEW p \in Proc
      PROVE  plan'[round'][p] = bench'[p] \o <<>> \o prog'[p] /\ pc'[p] = "run"
  <2>1. prog'[p] \in Seq(Cmd) /\ bench'[p] = <<>>
    BY <1>2, <1>6 DEF Program
  <2>2. pc'[p] = "run"
    BY DEF NextRound, RoundOver
  <2> QED BY <1>2, <2>1, <2>2, OnlyOnePart
<1>9. BenchIsExecution'
  BY <1>8 DEF BenchIsExecution
<1> QED BY <1>7, <1>9

\* The answers the handlers give keep the number of unread answers a number.
LEMMA AnswerType ==
  ASSUME TypeOK, NEW P, Answer(P)
  PROVE  resp' \in [Proc -> Nat]
BY DEF TypeOK, Answer

LEMMA Next1 == Inv1 /\ [Next]_vars => Inv1'
<1> SUFFICES ASSUME Inv1, [Next]_vars PROVE Inv1'
  OBVIOUS
<1>1. TypeOK /\ plan \in Plans /\ round \in DOMAIN plan
  BY DEF Inv1, TypeOK
<1>2. ASSUME NEW p \in Proc, NEW m \in Mutex, HandleLockCmd(p, m) PROVE Inv1'
  <2>1. Issue(p, "LOCK", m) /\ UNCHANGED <<plan, round, held, lockTiming, bench>>
    BY <1>2 DEF HandleLockCmd
  <2>2. /\ prog' \in Program /\ cmd' \in [Proc -> Cmd] /\ BenchIsExecution'
        /\ pc' \in [Proc -> {"run", "result", "write", "sync"}]
    BY <2>1, IssueStep1 DEF Op
  <2> DEFINE order == CheckedOrder(p, "LOCK", m)
  <2>3. order \in [Mutex -> Seq(Proc)] /\ srcDelay' \in Program
    BY <1>1, <1>2, CheckedType DEF HandleLockCmd
  <2>4. PopFront(order, m) \in [Mutex -> Seq(Proc)]
    BY <2>3, LockDelayType
  <2>5. lockDelay' \in [Mutex -> Seq(Proc)]
    BY <1>2, <2>3, <2>4 DEF HandleLockCmd
  <2>6. lockStruct' \in [Mutex -> LockState]
    <3>1. lockStruct[m] \in LockState
      BY <1>1 DEF TypeOK
    <3>2. Lock(lockStruct[m], p) \in LockState /\ insertLockCmd(lockStruct[m], p) \in LockState
      BY <3>1, LockStructType
    <3> QED BY <1>1, <1>2, <3>2 DEF HandleLockCmd, TypeOK
  <2>7. resp' \in [Proc -> Nat]
    BY <1>1, <1>2, AnswerType DEF HandleLockCmd, TypeOK
  <2> QED BY <1>1, <2>1, <2>2, <2>3, <2>5, <2>6, <2>7 DEF Inv1, TypeOK
<1>3. ASSUME NEW p \in Proc, NEW m \in Mutex, HandleUnlockCmd(p, m) PROVE Inv1'
  <2>1. Issue(p, "UNLOCK", m) /\ UNCHANGED <<plan, round, lockTiming, bench>>
    BY <1>3 DEF HandleUnlockCmd
  <2>2. /\ prog' \in Program /\ cmd' \in [Proc -> Cmd] /\ BenchIsExecution'
        /\ pc' \in [Proc -> {"run", "result", "write", "sync"}]
    BY <2>1, IssueStep1 DEF Op
  <2> DEFINE order == CheckedOrder(p, "UNLOCK", m)
  <2>3. order \in [Mutex -> Seq(Proc)] /\ srcDelay' \in Program
    BY <1>1, <1>3, CheckedType DEF HandleUnlockCmd
  <2>4. PopFront(order, m) \in [Mutex -> Seq(Proc)]
    BY <2>3, LockDelayType
  <2>5. lockDelay' \in [Mutex -> Seq(Proc)]
    BY <1>3, <2>3, <2>4 DEF HandleUnlockCmd
  <2>6. lockStruct' \in [Mutex -> LockState]
    <3>1. lockStruct[m] \in LockState /\ Unlock(lockStruct[m], p) \in LockState
      BY <1>1, LockStructType DEF TypeOK
    <3>2. ASSUME NEW q \in NextOwners(order, m)
          PROVE  Lock(popLockCmd(Unlock(lockStruct[m], p), q), q) \in LockState
      <4>1. q \in Proc /\ hasLockCmd(lockStruct[m], q)
        BY <3>1 DEF NextOwners, hasLockCmd, LockState
      <4>2. hasLockCmd(Unlock(lockStruct[m], p), q)
        BY <3>1, <4>1 DEF hasLockCmd, Unlock, LockState
      <4>3. popLockCmd(Unlock(lockStruct[m], p), q) \in LockState
        BY <3>1, <4>1, <4>2, LockStructType
      <4> QED BY <4>1, <4>3, LockStructType
    <3> QED BY <1>1, <1>3, <3>1, <3>2 DEF HandleUnlockCmd, TypeOK
  <2>7. resp' \in [Proc -> Nat]
    BY <1>1, <1>3, AnswerType DEF HandleUnlockCmd
  <2>8. held' \in [Proc -> SUBSET Mutex]
    BY <1>1, <1>3 DEF HandleUnlockCmd, TypeOK
  <2> QED BY <1>1, <2>1, <2>2, <2>3, <2>5, <2>6, <2>7, <2>8 DEF Inv1, TypeOK
<1>4. ASSUME NEW p \in Proc, NEW m \in Mutex, HandleLockWrite(p, m) PROVE Inv1'
  <2>1. /\ IssueWrite(p, "LOCK", m) /\ Record(p)
        /\ UNCHANGED <<plan, round, prog, cmd, held, lockStruct, lockDelay>>
    BY <1>4 DEF HandleLockWrite, IssueWrite
  <2>2. /\ bench' \in Program /\ BenchIsExecution'
        /\ pc' \in [Proc -> {"run", "result", "write", "sync"}]
    BY <2>1, WriteStep1 DEF Op
  <2>3. srcDelay' \in Program
    <3>1. srcDelay \in Program /\ PopItem(srcDelay, p, m) \in Program
      BY <1>1, SrcDelayType DEF TypeOK
    <3>2. srcDelay' = PopItem(srcDelay, p, m) \/ srcDelay' = srcDelay
      BY <1>4 DEF HandleLockWrite
    <3> QED BY <3>1, <3>2
  <2>4. lockTiming' \in [Mutex -> LockState]
    <3>1. lockTiming[m] \in LockState
      BY <1>1 DEF TypeOK
    <3>2. Lock(lockTiming[m], p) \in LockState /\ insertLockCmd(lockTiming[m], p) \in LockState
      BY <3>1, LockStructType
    <3> QED BY <1>1, <1>4, <3>2 DEF HandleLockWrite, TypeOK
  <2>5. resp' \in [Proc -> Nat]
    BY <1>1, <1>4, AnswerType DEF HandleLockWrite, TypeOK
  <2> QED BY <1>1, <2>1, <2>2, <2>3, <2>4, <2>5 DEF Inv1, TypeOK
<1>5. ASSUME NEW p \in Proc, NEW m \in Mutex, HandleUnlockWrite(p, m) PROVE Inv1'
  <2>1. /\ IssueWrite(p, "UNLOCK", m) /\ Record(p)
        /\ UNCHANGED <<plan, round, prog, cmd, held, lockStruct, lockDelay>>
    BY <1>5 DEF HandleUnlockWrite, IssueWrite
  <2>2. /\ bench' \in Program /\ BenchIsExecution'
        /\ pc' \in [Proc -> {"run", "result", "write", "sync"}]
    BY <2>1, WriteStep1 DEF Op
  <2> DEFINE s == lockTiming[m]
             q == Head(s.queue)
  <2>3. s \in LockState /\ (Overtaken(s) => q \in Proc /\ hasLockCmd(s, q))
    <3>1. s \in LockState
      BY <1>1 DEF TypeOK
    <3>2. s.queue \in Seq(Proc)
      BY <3>1 DEF LockState
    <3> HIDE DEF s
    <3>3. ASSUME Overtaken(s) PROVE 1 \in DOMAIN s.queue /\ q = s.queue[1] /\ q \in Proc
      BY <3>2, <3>3 DEF Overtaken
    <3> QED BY <3>1, <3>3 DEF hasLockCmd
  <2>4. srcDelay' \in Program
    <3>1. srcDelay \in Program
      BY <1>1 DEF TypeOK
    <3>2. PopItem(srcDelay, p, m) \in Program
      BY <3>1, SrcDelayType
    <3>3. Overtaken(s) => PopItem(PopItem(srcDelay, p, m), q, m) \in Program
      BY <2>3, <3>2, SrcDelayType
    <3>4. \/ srcDelay' = PopItem(srcDelay, p, m)
          \/ Overtaken(s) /\ srcDelay' = PopItem(PopItem(srcDelay, p, m), q, m)
      BY <1>5 DEF HandleUnlockWrite
    <3> QED BY <3>2, <3>3, <3>4
  <2>5. lockTiming' \in [Mutex -> LockState]
    <3>1. Unlock(s, p) \in LockState
      BY <2>3, LockStructType
    <3>2. ASSUME Overtaken(s) PROVE Lock(popLockCmd(Unlock(s, p), q), q) \in LockState
      <4>1. hasLockCmd(Unlock(s, p), q)
        BY <2>3, <3>2 DEF hasLockCmd, Unlock, LockState
      <4>2. popLockCmd(Unlock(s, p), q) \in LockState
        BY <2>3, <3>1, <3>2, <4>1, LockStructType
      <4> QED BY <2>3, <3>2, <4>2, LockStructType
    <3> QED BY <1>1, <1>5, <3>1, <3>2 DEF HandleUnlockWrite, TypeOK
  <2>6. resp' \in [Proc -> Nat]
    BY <1>1, <1>5, AnswerType DEF HandleUnlockWrite
  <2> QED BY <1>1, <2>1, <2>2, <2>4, <2>5, <2>6 DEF Inv1, TypeOK
<1>6. ASSUME NEW p \in Proc, ReadResult(p) PROVE Inv1'
  <2>1. resp' \in [Proc -> Nat]
    <3>1. resp[p] \in Nat /\ resp[p] > 0 /\ resp' = [resp EXCEPT ![p] = resp[p] - 1]
      BY <1>1, <1>6 DEF ReadResult, TypeOK
    <3>2. resp[p] - 1 \in Nat
      BY <3>1
    <3> QED BY <1>1, <3>1, <3>2 DEF TypeOK
  <2>2. held' \in [Proc -> SUBSET Mutex]
    BY <1>1, <1>6 DEF ReadResult, TypeOK, Cmd
  <2>3. TypeOK'
    BY <1>1, <1>6, <2>1, <2>2 DEF ReadResult, TypeOK, delayVars
  <2>4. BenchIsExecution'
    BY <1>1, <1>6 DEF ReadResult, Inv1, TypeOK, BenchIsExecution
  <2> QED BY <2>3, <2>4 DEF Inv1
<1>7. ASSUME NEW p \in Proc, ReadSync(p) PROVE Inv1'
  <2>1. resp' \in [Proc -> Nat]
    <3>1. resp[p] \in Nat /\ resp[p] > 0 /\ resp' = [resp EXCEPT ![p] = resp[p] - 1]
      BY <1>1, <1>7 DEF ReadSync, TypeOK
    <3>2. resp[p] - 1 \in Nat
      BY <3>1
    <3> QED BY <1>1, <3>1, <3>2 DEF TypeOK
  <2>2. held' \in [Proc -> SUBSET Mutex]
    BY <1>1, <1>7 DEF ReadSync, TypeOK
  <2>3. TypeOK'
    BY <1>1, <1>7, <2>1, <2>2 DEF ReadSync, TypeOK, delayVars
  <2>4. BenchIsExecution'
    BY <1>1, <1>7 DEF ReadSync, Inv1, TypeOK, BenchIsExecution
  <2> QED BY <2>3, <2>4 DEF Inv1
<1>8. CASE NextRound
  BY <1>8, NextRound1
<1>9. CASE UNCHANGED vars
  BY <1>9 DEF Inv1, TypeOK, BenchIsExecution, vars, clientVars, delayVars
<1> QED BY <1>2, <1>3, <1>4, <1>5, <1>6, <1>7, <1>8, <1>9 DEF Next, Step, HandleCmd, Stop

\* Every variable keeps its type; the delay information of a round is always a
\* permutation the network can make of what the previous round executed.
THEOREM TypeCorrect == Spec => []TypeOK
<1>1. Inv1 => TypeOK
  BY DEF Inv1
<1> QED BY <1>1, Init1, Next1, PTL DEF Spec

\* The bench that is handed to the network simulator records exactly the
\* transactions the processes executed, in the order of each process.
THEOREM BenchCorrect == Spec => []BenchIsExecution
<1>1. Inv1 => BenchIsExecution
  BY DEF Inv1
<1> QED BY <1>1, Init1, Next1, PTL DEF Spec
-----------------------------------------------------------------------------
(* Every command gets exactly one answer.                                  *)

\* A mutex that is locked or unlocked keeps its list of parked commands.
LEMMA QueueKept ==
  ASSUME NEW s \in LockState, NEW p \in Proc
  PROVE  /\ Lock(s, p).queue = s.queue
         /\ Unlock(s, p).queue = s.queue
BY DEF Lock, Unlock, LockState

\* Parking a command adds its sender to those that wait.
LEMMA Park ==
  ASSUME NEW s \in LockState, IsInjective(s.queue), NEW p \in Proc, ~ hasLockCmd(s, p)
  PROVE  /\ IsInjective(insertLockCmd(s, p).queue)
         /\ \A q \in Proc : hasLockCmd(insertLockCmd(s, p), q) <=> hasLockCmd(s, q) \/ q = p
         /\ insertLockCmd(s, p).locked = s.locked
         /\ insertLockCmd(s, p).last = s.last
<1>1. /\ s.queue \in Seq(Proc)
      /\ insertLockCmd(s, p).queue = Append(s.queue, p)
      /\ insertLockCmd(s, p).locked = s.locked
      /\ insertLockCmd(s, p).last = s.last
  BY DEF LockState, insertLockCmd
<1>2. ~ Occurs(s.queue, p)
  BY DEF hasLockCmd, Occurs
<1>3. /\ IsInjective(Append(s.queue, p))
      /\ Occurs(Append(s.queue, p), p)
      /\ \A q : q # p => (Occurs(Append(s.queue, p), q) <=> Occurs(s.queue, q))
  BY <1>1, <1>2, AppendNew
<1>4. ASSUME NEW q \in Proc
      PROVE  hasLockCmd(insertLockCmd(s, p), q) <=> hasLockCmd(s, q) \/ q = p
  BY <1>1, <1>3 DEF hasLockCmd, Occurs
<1> QED BY <1>1, <1>3, <1>4

\* Handing a locked mutex over takes the new owner, and nobody else, off the list.
LEMMA HandOver ==
  ASSUME NEW s \in LockState, s.locked, IsInjective(s.queue),
         NEW p \in Proc, NEW q \in Proc, hasLockCmd(s, q)
  PROVE  LET t == Lock(popLockCmd(Unlock(s, p), q), q)
         IN  /\ IsInjective(t.queue)
             /\ \A r \in Proc : hasLockCmd(t, r) <=> hasLockCmd(s, r) /\ r # q
             /\ t.locked /\ t.last = q
<1> DEFINE u == Unlock(s, p)
           k == Min({i \in DOMAIN s.queue : s.queue[i] = q})
           t == Lock(popLockCmd(u, q), q)
<1>1. s.queue \in Seq(Proc) /\ u.queue = s.queue /\ ~ u.locked /\ u \in LockState
  BY LockStructType, QueueKept DEF LockState, Unlock
<1>2. popLockCmd(u, q) = [u EXCEPT !.queue = RemoveAt(s.queue, k)]
  BY <1>1 DEF popLockCmd
<1>3. t.queue = RemoveAt(s.queue, k) /\ t.locked /\ t.last = q
  <2> HIDE DEF u, k
  <2> QED BY <1>1, <1>2 DEF LockState, Lock
<1>4. Occurs(s.queue, q)
  BY DEF hasLockCmd, Occurs
<1>5. /\ IsInjective(t.queue)
      /\ ~ Occurs(t.queue, q)
      /\ \A r : r # q => (Occurs(t.queue, r) <=> Occurs(s.queue, r))
  <2> HIDE DEF t
  <2> QED BY <1>1, <1>3, <1>4, RemoveOnly
<1>6. ASSUME NEW r \in Proc PROVE hasLockCmd(t, r) <=> hasLockCmd(s, r) /\ r # q
  <2> HIDE DEF t
  <2> QED BY <1>5 DEF hasLockCmd, Occurs
<1> QED BY <1>3, <1>5, <1>6

\* p is blocked for the answer to a LOCK or WRITE(LOCK) of m, which is not yet
\* given.
Blocked(p, m, at) == pc[p] = at /\ resp[p] = 0 /\ cmd[p] = [op |-> "LOCK", dst |-> m]

\* NoCommandForgotten, by its parts.
Answers ==
  \A p \in Proc :
    /\ resp[p] <= (IF pc[p] \in {"result", "sync"} THEN 1 ELSE 0)
    /\ pc[p] \in {"result", "sync"} /\ cmd[p].op = "UNLOCK" => resp[p] = 1

ParkedOnStruct ==
  \A m \in Mutex :
    /\ IsInjective(lockStruct[m].queue)
    /\ \A p \in Proc : hasLockCmd(lockStruct[m], p) <=> Blocked(p, m, "result")

ParkedOnTiming ==
  \A m \in Mutex :
    /\ IsInjective(lockTiming[m].queue)
    /\ \A p \in Proc : hasLockCmd(lockTiming[m], p) <=> Blocked(p, m, "sync")

LEMMA Parts == NoCommandForgotten <=> Answers /\ ParkedOnStruct /\ ParkedOnTiming
BY DEF NoCommandForgotten, Answers, ParkedOnStruct, ParkedOnTiming, Parked, Blocked

LEMMA PartsNext == (Answers /\ ParkedOnStruct /\ ParkedOnTiming)' => NoCommandForgotten'
BY DEF NoCommandForgotten, Answers, ParkedOnStruct, ParkedOnTiming, Parked, Blocked

\* A process that is not blocked is on no list and has no unread answer.
LEMMA NotBlocked ==
  ASSUME TypeOK, NoCommandForgotten, NEW p \in Proc, pc[p] \in {"run", "write"}
  PROVE  /\ resp[p] = 0
         /\ \A m \in Mutex : ~ hasLockCmd(lockStruct[m], p) /\ ~ hasLockCmd(lockTiming[m], p)
BY Parts DEF TypeOK, Answers, ParkedOnStruct, ParkedOnTiming, Blocked

\* The initial queues of a mutex are empty.
LEMMA FreshEmpty ==
  /\ IsInjective(FreshLock.queue)
  /\ \A p \in Proc : ~ hasLockCmd(FreshLock, p)
  /\ ~ FreshLock.locked
<1>1. FreshLock.queue = <<>> /\ DOMAIN <<>> = {} /\ ~ FreshLock.locked
  BY DEF FreshLock
<1> QED BY <1>1 DEF IsInjective, hasLockCmd

LEMMA Init2 == Init => NoCommandForgotten
<1> SUFFICES ASSUME Init PROVE Answers /\ ParkedOnStruct /\ ParkedOnTiming
  BY Parts
<1>1. Answers
  BY DEF Init, Answers
<1>2. \A p \in Proc, m \in Mutex : ~ Blocked(p, m, "result") /\ ~ Blocked(p, m, "sync")
  BY DEF Init, Blocked
<1>3. ParkedOnStruct /\ ParkedOnTiming
  BY <1>2, FreshEmpty DEF Init, ParkedOnStruct, ParkedOnTiming
<1> QED BY <1>1, <1>3

\* The oldest parked command is parked.
LEMMA HeadParked ==
  ASSUME NEW s \in LockState, s.queue # <<>>
  PROVE  Head(s.queue) \in Proc /\ hasLockCmd(s, Head(s.queue))
<1>1. s.queue \in Seq(Proc)
  BY DEF LockState
<1>2. 1 \in DOMAIN s.queue /\ Head(s.queue) = s.queue[1] /\ Head(s.queue) \in Proc
  BY <1>1
<1> QED BY <1>2 DEF hasLockCmd

\* What an UNLOCK may serve is a parked command.
LEMMA NextOwnersParked ==
  ASSUME NEW m \in Mutex, lockStruct[m] \in LockState, NEW order, NEW q \in NextOwners(order, m)
  PROVE  q \in Proc /\ hasLockCmd(lockStruct[m], q)
BY HeadParked DEF NextOwners

\* A process that prints a functional command.
LEMMA IssueEffect ==
  ASSUME TypeOK, NEW p \in Proc, NEW op \in Op, NEW m \in Mutex, Issue(p, op, m)
  PROVE  /\ pc[p] = "run"
         /\ pc'[p] = "result" /\ cmd'[p] = [op |-> op, dst |-> m]
         /\ \A q \in Proc : q # p => pc'[q] = pc[q] /\ cmd'[q] = cmd[q]
BY DEF Issue, TypeOK

\* A process that prints a WRITE command.
LEMMA IssueWriteEffect ==
  ASSUME TypeOK, NEW p \in Proc, NEW op \in Op, NEW m \in Mutex, IssueWrite(p, op, m)
  PROVE  /\ pc[p] = "write" /\ cmd[p] = [op |-> op, dst |-> m]
         /\ pc'[p] = "sync" /\ cmd' = cmd
         /\ \A q \in Proc : q # p => pc'[q] = pc[q]
BY DEF IssueWrite, TypeOK

LEMMA HandleLockCmd2 ==
  ASSUME TypeOK, NoCommandForgotten, NEW p \in Proc, NEW m \in Mutex, HandleLockCmd(p, m)
  PROVE  NoCommandForgotten'
<1> DEFINE s == lockStruct[m]
<1>1. /\ pc[p] = "run"
      /\ pc'[p] = "result" /\ cmd'[p] = [op |-> "LOCK", dst |-> m]
      /\ \A q \in Proc : q # p => pc'[q] = pc[q] /\ cmd'[q] = cmd[q]
      /\ UNCHANGED lockTiming
  BY IssueEffect DEF HandleLockCmd, Op
<1>2. Answers /\ ParkedOnStruct /\ ParkedOnTiming
  BY Parts
<1>3. s \in LockState /\ lockStruct \in [Mutex -> LockState] /\ resp \in [Proc -> Nat]
  BY DEF TypeOK
<1>4. resp[p] = 0 /\ ~ hasLockCmd(s, p)
  BY <1>1, NotBlocked
<1>5. CASE /\ Answer({p})
           /\ \/ UNCHANGED lockStruct
              \/ lockStruct' = [lockStruct EXCEPT ![m] = Lock(s, p)]
  <2>1. resp'[p] = 1 /\ \A q \in Proc : q # p => resp'[q] = resp[q]
    BY <1>4, <1>5 DEF Answer
  <2>2. \A n \in Mutex : lockStruct'[n].queue = lockStruct[n].queue
    BY <1>3, <1>5, QueueKept
  <2>3. Answers'
    BY <1>1, <1>2, <2>1 DEF Answers
  <2>4. \A q \in Proc, n \in Mutex : /\ Blocked(q, n, "result")' <=> Blocked(q, n, "result")
                                     /\ Blocked(q, n, "sync")' <=> Blocked(q, n, "sync")
    BY <1>1, <2>1 DEF Blocked
  <2>5. ParkedOnStruct'
    BY <1>2, <2>2, <2>4 DEF ParkedOnStruct, hasLockCmd
  <2>6. ParkedOnTiming'
    BY <1>1, <1>2, <2>4 DEF ParkedOnTiming
  <2> QED BY <2>3, <2>5, <2>6, PartsNext
<1>6. CASE lockStruct' = [lockStruct EXCEPT ![m] = insertLockCmd(s, p)] /\ UNCHANGED resp
  <2>1. Answers'
    BY <1>1, <1>2, <1>4, <1>6 DEF Answers
  <2>2. \A q \in Proc, n \in Mutex :
          /\ Blocked(q, n, "result")' <=> Blocked(q, n, "result") \/ (q = p /\ n = m)
          /\ Blocked(q, n, "sync")' <=> Blocked(q, n, "sync")
    BY <1>1, <1>4, <1>6 DEF Blocked
  <2>3. /\ IsInjective(insertLockCmd(s, p).queue)
        /\ \A q \in Proc : hasLockCmd(insertLockCmd(s, p), q) <=> hasLockCmd(s, q) \/ q = p
    BY <1>2, <1>3, <1>4, Park DEF ParkedOnStruct
  <2>4. /\ lockStruct'[m] = insertLockCmd(s, p)
        /\ \A n \in Mutex : n # m => lockStruct'[n] = lockStruct[n]
    BY <1>3, <1>6
  <2>5. ParkedOnStruct'
    BY <1>2, <2>2, <2>3, <2>4 DEF ParkedOnStruct
  <2>6. ParkedOnTiming'
    BY <1>1, <1>2, <2>2 DEF ParkedOnTiming
  <2> QED BY <2>1, <2>5, <2>6, PartsNext
<1> QED BY <1>5, <1>6 DEF HandleLockCmd

LEMMA HandleUnlockCmd2 ==
  ASSUME TypeOK, NoCommandForgotten, NEW p \in Proc, NEW m \in Mutex, HandleUnlockCmd(p, m)
  PROVE  NoCommandForgotten'
<1> DEFINE s == lockStruct[m]
           order == CheckedOrder(p, "UNLOCK", m)
<1>1. /\ pc[p] = "run"
      /\ pc'[p] = "result" /\ cmd'[p] = [op |-> "UNLOCK", dst |-> m]
      /\ \A q \in Proc : q # p => pc'[q] = pc[q] /\ cmd'[q] = cmd[q]
      /\ UNCHANGED lockTiming
  BY IssueEffect DEF HandleUnlockCmd, Op
<1>2. Answers /\ ParkedOnStruct /\ ParkedOnTiming
  BY Parts
<1>3. s \in LockState /\ lockStruct \in [Mutex -> LockState] /\ resp \in [Proc -> Nat]
  BY DEF TypeOK
<1>4. resp[p] = 0 /\ ~ hasLockCmd(s, p)
  BY <1>1, NotBlocked
<1>5. CASE /\ Answer({p})
           /\ \/ UNCHANGED lockStruct
              \/ lockStruct' = [lockStruct EXCEPT ![m] = Unlock(s, p)]
  <2>1. resp'[p] = 1 /\ \A q \in Proc : q # p => resp'[q] = resp[q]
    BY <1>4, <1>5 DEF Answer
  <2>2. \A n \in Mutex : lockStruct'[n].queue = lockStruct[n].queue
    BY <1>3, <1>5, QueueKept
  <2>3. Answers'
    BY <1>1, <1>2, <2>1 DEF Answers
  <2>4. \A q \in Proc, n \in Mutex : /\ Blocked(q, n, "result")' <=> Blocked(q, n, "result")
                                     /\ Blocked(q, n, "sync")' <=> Blocked(q, n, "sync")
    BY <1>1, <2>1 DEF Blocked
  <2>5. ParkedOnStruct'
    BY <1>2, <2>2, <2>4 DEF ParkedOnStruct, hasLockCmd
  <2>6. ParkedOnTiming'
    BY <1>1, <1>2, <2>4 DEF ParkedOnTiming
  <2> QED BY <2>3, <2>5, <2>6, PartsNext
<1>6. ASSUME NEW q \in NextOwners(order, m), s.locked, Answer({p, q}),
             lockStruct' = [lockStruct EXCEPT ![m] = Lock(popLockCmd(Unlock(s, p), q), q)]
      PROVE  NoCommandForgotten'
  <2>1. q \in Proc /\ hasLockCmd(s, q)
    BY <1>3, NextOwnersParked
  <2>2. Blocked(q, m, "result") /\ q # p
    BY <1>2, <1>4, <2>1 DEF ParkedOnStruct
  <2>3. resp'[p] = 1 /\ resp'[q] = 1 /\ \A r \in Proc : r \notin {p, q} => resp'[r] = resp[r]
    BY <1>3, <1>4, <1>6, <2>1, <2>2 DEF Answer, Blocked
  <2>4. Answers'
    BY <1>1, <1>2, <2>2, <2>3 DEF Answers, Blocked
  <2>5. \A r \in Proc, n \in Mutex :
          /\ Blocked(r, n, "result")' <=> Blocked(r, n, "result") /\ r # q
          /\ Blocked(r, n, "sync")' <=> Blocked(r, n, "sync")
    BY <1>1, <2>2, <2>3 DEF Blocked
  <2>6. /\ IsInjective(lockStruct'[m].queue)
        /\ \A r \in Proc : hasLockCmd(lockStruct'[m], r) <=> hasLockCmd(s, r) /\ r # q
    <3>1. IsInjective(s.queue)
      BY <1>2 DEF ParkedOnStruct
    <3> QED BY <1>3, <1>6, <2>1, <3>1, HandOver
  <2>7. \A n \in Mutex : n # m => lockStruct'[n] = lockStruct[n] /\ ~ Blocked(q, n, "result")
    BY <1>3, <1>6, <2>2 DEF Blocked
  <2>8. ParkedOnStruct'
    BY <1>2, <2>5, <2>6, <2>7 DEF ParkedOnStruct
  <2>9. ParkedOnTiming'
    BY <1>1, <1>2, <2>5 DEF ParkedOnTiming
  <2> QED BY <2>4, <2>8, <2>9, PartsNext
<1> QED BY <1>5, <1>6 DEF HandleUnlockCmd

LEMMA HandleLockWrite2 ==
  ASSUME TypeOK, NoCommandForgotten, NEW p \in Proc, NEW m \in Mutex, HandleLockWrite(p, m)
  PROVE  NoCommandForgotten'
<1> DEFINE s == lockTiming[m]
<1>1. /\ pc[p] = "write" /\ cmd[p] = [op |-> "LOCK", dst |-> m]
      /\ pc'[p] = "sync" /\ cmd' = cmd
      /\ \A q \in Proc : q # p => pc'[q] = pc[q]
      /\ UNCHANGED lockStruct
  BY IssueWriteEffect DEF HandleLockWrite, Op
<1>2. Answers /\ ParkedOnStruct /\ ParkedOnTiming
  BY Parts
<1>3. s \in LockState /\ lockTiming \in [Mutex -> LockState] /\ resp \in [Proc -> Nat]
  BY DEF TypeOK
<1>4. resp[p] = 0 /\ ~ hasLockCmd(s, p)
  BY <1>1, NotBlocked
<1>5. CASE /\ Answer({p})
           /\ \/ UNCHANGED lockTiming
              \/ lockTiming' = [lockTiming EXCEPT ![m] = Lock(s, p)]
  <2>1. resp'[p] = 1 /\ \A q \in Proc : q # p => resp'[q] = resp[q]
    BY <1>4, <1>5 DEF Answer
  <2>2. \A n \in Mutex : lockTiming'[n].queue = lockTiming[n].queue
    BY <1>3, <1>5, QueueKept
  <2>3. Answers'
    BY <1>1, <1>2, <2>1 DEF Answers
  <2>4. \A q \in Proc, n \in Mutex : /\ Blocked(q, n, "result")' <=> Blocked(q, n, "result")
                                     /\ Blocked(q, n, "sync")' <=> Blocked(q, n, "sync")
    BY <1>1, <2>1 DEF Blocked
  <2>5. ParkedOnTiming'
    BY <1>2, <2>2, <2>4 DEF ParkedOnTiming, hasLockCmd
  <2>6. ParkedOnStruct'
    BY <1>1, <1>2, <2>4 DEF ParkedOnStruct
  <2> QED BY <2>3, <2>5, <2>6, PartsNext
<1>6. CASE lockTiming' = [lockTiming EXCEPT ![m] = insertLockCmd(s, p)] /\ UNCHANGED resp
  <2>1. Answers'
    BY <1>1, <1>2, <1>4, <1>6 DEF Answers
  <2>2. \A q \in Proc, n \in Mutex :
          /\ Blocked(q, n, "sync")' <=> Blocked(q, n, "sync") \/ (q = p /\ n = m)
          /\ Blocked(q, n, "result")' <=> Blocked(q, n, "result")
    BY <1>1, <1>4, <1>6 DEF Blocked
  <2>3. /\ IsInjective(insertLockCmd(s, p).queue)
        /\ \A q \in Proc : hasLockCmd(insertLockCmd(s, p), q) <=> hasLockCmd(s, q) \/ q = p
    BY <1>2, <1>3, <1>4, Park DEF ParkedOnTiming
  <2>4. /\ lockTiming'[m] = insertLockCmd(s, p)
        /\ \A n \in Mutex : n # m => lockTiming'[n] = lockTiming[n]
    BY <1>3, <1>6
  <2>5. ParkedOnTiming'
    BY <1>2, <2>2, <2>3, <2>4 DEF ParkedOnTiming
  <2>6. ParkedOnStruct'
    BY <1>1, <1>2, <2>2 DEF ParkedOnStruct
  <2> QED BY <2>1, <2>5, <2>6, PartsNext
<1> QED BY <1>5, <1>6 DEF HandleLockWrite

LEMMA HandleUnlockWrite2 ==
  ASSUME TypeOK, NoCommandForgotten, NEW p \in Proc, NEW m \in Mutex, HandleUnlockWrite(p, m)
  PROVE  NoCommandForgotten'
<1> DEFINE s == lockTiming[m]
           q == Head(s.queue)
<1>1. /\ pc[p] = "write" /\ cmd[p] = [op |-> "UNLOCK", dst |-> m]
      /\ pc'[p] = "sync" /\ cmd' = cmd
      /\ \A r \in Proc : r # p => pc'[r] = pc[r]
      /\ UNCHANGED lockStruct
  BY IssueWriteEffect DEF HandleUnlockWrite, Op
<1>2. Answers /\ ParkedOnStruct /\ ParkedOnTiming
  BY Parts
<1>3. s \in LockState /\ lockTiming \in [Mutex -> LockState] /\ resp \in [Proc -> Nat]
  BY DEF TypeOK
<1>4. resp[p] = 0 /\ ~ hasLockCmd(s, p)
  BY <1>1, NotBlocked
<1>5. CASE /\ Answer({p})
           /\ \/ UNCHANGED lockTiming
              \/ lockTiming' = [lockTiming EXCEPT ![m] = Unlock(s, p)]
  <2>1. resp'[p] = 1 /\ \A r \in Proc : r # p => resp'[r] = resp[r]
    BY <1>4, <1>5 DEF Answer
  <2>2. \A n \in Mutex : lockTiming'[n].queue = lockTiming[n].queue
    BY <1>3, <1>5, QueueKept
  <2>3. Answers'
    BY <1>1, <1>2, <2>1 DEF Answers
  <2>4. \A r \in Proc, n \in Mutex : /\ Blocked(r, n, "result")' <=> Blocked(r, n, "result")
                                     /\ Blocked(r, n, "sync")' <=> Blocked(r, n, "sync")
    BY <1>1, <2>1 DEF Blocked
  <2>5. ParkedOnTiming'
    BY <1>2, <2>2, <2>4 DEF ParkedOnTiming, hasLockCmd
  <2>6. ParkedOnStruct'
    BY <1>1, <1>2, <2>4 DEF ParkedOnStruct
  <2> QED BY <2>3, <2>5, <2>6, PartsNext
<1>6. CASE /\ s.locked /\ Overtaken(s) /\ Answer({p, q})
           /\ lockTiming' = [lockTiming EXCEPT ![m] = Lock(popLockCmd(Unlock(s, p), q), q)]
  <2>1. q \in Proc /\ hasLockCmd(s, q)
    BY <1>3, <1>6, HeadParked DEF Overtaken
  <2>2. Blocked(q, m, "sync") /\ q # p
    BY <1>2, <1>4, <2>1 DEF ParkedOnTiming
  <2> HIDE DEF q
  <2>3. resp'[p] = 1 /\ resp'[q] = 1 /\ \A r \in Proc : r \notin {p, q} => resp'[r] = resp[r]
    BY <1>3, <1>4, <1>6, <2>1, <2>2 DEF Answer, Blocked
  <2>4. Answers'
    BY <1>1, <1>2, <2>2, <2>3 DEF Answers, Blocked
  <2>5. \A r \in Proc, n \in Mutex :
          /\ Blocked(r, n, "sync")' <=> Blocked(r, n, "sync") /\ r # q
          /\ Blocked(r, n, "result")' <=> Blocked(r, n, "result")
    BY <1>1, <2>2, <2>3 DEF Blocked
  <2>6. /\ IsInjective(lockTiming'[m].queue)
        /\ \A r \in Proc : hasLockCmd(lockTiming'[m], r) <=> hasLockCmd(s, r) /\ r # q
    <3>1. IsInjective(s.queue)
      BY <1>2 DEF ParkedOnTiming
    <3> QED BY <1>3, <1>6, <2>1, <3>1, HandOver
  <2>7. \A n \in Mutex : n # m => lockTiming'[n] = lockTiming[n] /\ ~ Blocked(q, n, "sync")
    BY <1>3, <1>6, <2>2 DEF Blocked
  <2>8. ParkedOnTiming'
    BY <1>2, <2>5, <2>6, <2>7 DEF ParkedOnTiming
  <2>9. ParkedOnStruct'
    BY <1>1, <1>2, <2>5 DEF ParkedOnStruct
  <2> QED BY <2>4, <2>8, <2>9, PartsNext
<1> QED BY <1>5, <1>6 DEF HandleUnlockWrite

\* Reading an answer: its process goes on, and no list changes.
LEMMA Read2 ==
  ASSUME TypeOK, NoCommandForgotten, NEW p \in Proc, ReadResult(p) \/ ReadSync(p)
  PROVE  NoCommandForgotten'
<1>1. /\ pc[p] \in {"result", "sync"} /\ resp[p] > 0
      /\ pc'[p] \in {"write", "run"}
      /\ resp' = [resp EXCEPT ![p] = resp[p] - 1]
      /\ \A q \in Proc : q # p => pc'[q] = pc[q]
      /\ UNCHANGED <<cmd, lockStruct, lockTiming>>
  BY DEF ReadResult, ReadSync, TypeOK
<1>2. Answers /\ ParkedOnStruct /\ ParkedOnTiming /\ resp \in [Proc -> Nat]
  BY Parts DEF TypeOK
<1>3. resp[p] <= 1
  BY <1>1, <1>2 DEF Answers
<1>4. resp'[p] = 0 /\ \A q \in Proc : q # p => resp'[q] = resp[q]
  BY <1>1, <1>2, <1>3
<1>5. Answers'
  BY <1>1, <1>2, <1>4 DEF Answers
<1>6. \A q \in Proc, n \in Mutex : /\ Blocked(q, n, "result")' <=> Blocked(q, n, "result")
                                   /\ Blocked(q, n, "sync")' <=> Blocked(q, n, "sync")
  BY <1>1, <1>4 DEF Blocked
<1>7. ParkedOnStruct' /\ ParkedOnTiming'
  BY <1>1, <1>2, <1>6 DEF ParkedOnStruct, ParkedOnTiming
<1> QED BY <1>5, <1>7, PartsNext

LEMMA NextRound2 ==
  ASSUME TypeOK, NoCommandForgotten, NextRound
  PROVE  NoCommandForgotten'
<1>1. /\ \A p \in Proc : pc[p] = "run"
      /\ UNCHANGED <<pc, cmd, resp>>
      /\ \A m \in Mutex : lockStruct'[m] = FreshLock /\ lockTiming'[m] = FreshLock
  BY DEF NextRound, RoundOver
<1>2. Answers'
  BY <1>1, Parts DEF Answers
<1>3. \A p \in Proc, m \in Mutex : ~ Blocked(p, m, "result")' /\ ~ Blocked(p, m, "sync")'
  BY <1>1 DEF Blocked
<1>4. ParkedOnStruct' /\ ParkedOnTiming'
  BY <1>1, <1>3, FreshEmpty DEF ParkedOnStruct, ParkedOnTiming
<1> QED BY <1>2, <1>4, PartsNext

LEMMA Next2 == TypeOK /\ NoCommandForgotten /\ [Next]_vars => NoCommandForgotten'
<1> SUFFICES ASSUME TypeOK, NoCommandForgotten, [Next]_vars PROVE NoCommandForgotten'
  OBVIOUS
<1>1. ASSUME NEW p \in Proc, Step(p) PROVE NoCommandForgotten'
  BY <1>1, HandleLockCmd2, HandleUnlockCmd2, HandleLockWrite2, HandleUnlockWrite2, Read2
     DEF Step, HandleCmd
<1>2. CASE NextRound
  BY <1>2, NextRound2
<1>3. CASE UNCHANGED vars
  <2>1. Answers /\ ParkedOnStruct /\ ParkedOnTiming
    BY Parts
  <2>2. UNCHANGED <<pc, cmd, resp, lockStruct, lockTiming>>
    BY <1>3 DEF vars, clientVars
  <2>3. (Answers /\ ParkedOnStruct /\ ParkedOnTiming)'
    BY <2>1, <2>2 DEF Answers, ParkedOnStruct, ParkedOnTiming, Blocked
  <2> QED BY <2>3, PartsNext
<1> QED BY <1>1, <1>2, <1>3 DEF Next, Stop

\* No command is lost, answered twice or parked twice: every blocked process
\* is on exactly one list or has exactly one unread answer.
THEOREM NoCommandLost == Spec => []NoCommandForgotten
BY TypeCorrect, Init2, Next2, PTL DEF Spec

-----------------------------------------------------------------------------
(* The lock order is respected.                                            *)

Granted(m, q) ==
  ~ LockedBy(lockStruct[m], q) /\ LockedBy(lockStruct[m], q)' =>
    \/ ~ HasAddr(lockDelay, m)
    \/ lockDelay[m] = Cons(q, lockDelay'[m])
    \/ lockDelay' = Cleared(lockDelay)

\* Popping the record that names q keeps the information in step.
LEMMA PopInStep ==
  ASSUME TypeOK, NEW p \in Proc, NEW op, NEW m \in Mutex, NEW q \in Proc,
         LET order == CheckedOrder(p, op, m)
         IN  /\ HasAddr(order, m) => FrontSrc(order, m) = q
             /\ lockDelay' = PopFront(order, m)
  PROVE  \/ ~ HasAddr(lockDelay, m)
         \/ lockDelay[m] = Cons(q, lockDelay'[m])
         \/ lockDelay' = Cleared(lockDelay)
<1>1. lockDelay \in [Mutex -> Seq(Proc)]
  BY DEF TypeOK
<1>2. CASE InOrder(srcDelay, p, op, m) /\ HasAddr(lockDelay, m)
  <2>1. lockDelay[m] \in Seq(Proc) /\ lockDelay[m] # <<>> /\ Head(lockDelay[m]) = q
    BY <1>1, <1>2 DEF CheckedOrder, HasAddr, FrontSrc
  <2>2. lockDelay'[m] = Tail(lockDelay[m])
    BY <1>1, <1>2 DEF CheckedOrder, PopFront
  <2>3. lockDelay[m] = <<q>> \o Tail(lockDelay[m])
    BY <2>1
  <2> QED BY <2>2, <2>3 DEF Cons
<1>3. CASE ~ InOrder(srcDelay, p, op, m)
  <2>1. ~ HasAddr(Cleared(lockDelay), m)
    BY <1>1 DEF HasAddr, Cleared
  <2> QED BY <1>3, <2>1 DEF CheckedOrder, PopFront
<1> QED BY <1>2, <1>3

\* Only the step that serves a command makes its source the owner.
LEMMA GrantStep ==
  ASSUME TypeOK, [Next]_vars, NEW n \in Mutex, NEW q \in Proc
  PROVE  Granted(n, q)
<1>1. lockStruct \in [Mutex -> LockState]
  BY DEF TypeOK
<1>2. ASSUME NEW p \in Proc, NEW m \in Mutex, HandleLockCmd(p, m) PROVE Granted(n, q)
  <2> DEFINE s == lockStruct[m]
             order == CheckedOrder(p, "LOCK", m)
  <2>1. s \in LockState
    BY <1>1
  <2>2. CASE UNCHANGED lockStruct
    BY <2>2 DEF Granted
  <2>3. CASE /\ ~ s.locked /\ Admits(order, p, m) /\ lockDelay' = PopFront(order, m)
             /\ lockStruct' = [lockStruct EXCEPT ![m] = Lock(s, p)]
    <3>1. n # m => lockStruct'[n] = lockStruct[n]
      BY <1>1, <2>3
    <3>2. lockStruct'[m].last = p
      BY <1>1, <2>1, <2>3 DEF Lock, LockState
    <3>3. CASE n = m /\ q = p
      BY <2>3, <3>3, PopInStep DEF Granted, Admits
    <3> QED BY <3>1, <3>2, <3>3 DEF Granted, LockedBy
  <2>4. CASE lockStruct' = [lockStruct EXCEPT ![m] = insertLockCmd(s, p)]
    <3>1. \A k \in Mutex : /\ lockStruct'[k].locked = lockStruct[k].locked
                           /\ lockStruct'[k].last = lockStruct[k].last
      BY <1>1, <2>1, <2>4 DEF insertLockCmd, LockState
    <3> QED BY <3>1 DEF Granted, LockedBy
  <2> QED BY <1>2, <2>2, <2>3, <2>4 DEF HandleLockCmd
<1>3. ASSUME NEW p \in Proc, NEW m \in Mutex, HandleUnlockCmd(p, m) PROVE Granted(n, q)
  <2> DEFINE s == lockStruct[m]
             order == CheckedOrder(p, "UNLOCK", m)
  <2>1. s \in LockState
    BY <1>1
  <2>2. CASE UNCHANGED lockStruct
    BY <2>2 DEF Granted
  <2>3. CASE s.locked /\ lockStruct' = [lockStruct EXCEPT ![m] = Unlock(s, p)]
    <3>1. /\ ~ lockStruct'[m].locked
          /\ n # m => lockStruct'[n] = lockStruct[n]
      BY <1>1, <2>1, <2>3 DEF Unlock, LockState
    <3> QED BY <3>1 DEF Granted, LockedBy
  <2>4. ASSUME NEW r \in NextOwners(order, m), lockDelay' = PopFront(order, m), s.locked,
               lockStruct' = [lockStruct EXCEPT ![m] = Lock(popLockCmd(Unlock(s, p), r), r)]
        PROVE  Granted(n, q)
    <3>1. n # m => lockStruct'[n] = lockStruct[n]
      BY <1>1, <2>4
    <3>2. lockStruct'[m].last = r
      <4>1. r \in Proc /\ hasLockCmd(s, r)
        BY <2>1, NextOwnersParked
      <4>2. Unlock(s, p) \in LockState /\ ~ Unlock(s, p).locked
        BY <2>1, <2>4, LockStructType DEF Unlock, LockState
      <4>3. Lock(popLockCmd(Unlock(s, p), r), r).last = r
        BY <4>2 DEF popLockCmd, Lock, LockState
      <4> QED BY <1>1, <2>4, <4>3
    <3>3. CASE n = m /\ q = r
      BY <2>4, <3>3, PopInStep DEF Granted, NextOwners
    <3> QED BY <3>1, <3>2, <3>3 DEF Granted, LockedBy
  <2> QED BY <1>3, <2>2, <2>3, <2>4 DEF HandleUnlockCmd
<1>4. CASE NextRound
  BY <1>4, FreshEmpty DEF NextRound, Granted, LockedBy
<1>5. CASE UNCHANGED lockStruct
  BY <1>5 DEF Granted
<1> QED BY <1>2, <1>3, <1>4, <1>5 DEF Next, Step, HandleCmd, HandleLockWrite,
           HandleUnlockWrite, ReadResult, ReadSync, Stop, vars

\* A mutex with delay information passes to the source that information names,
\* which uses up that record, unless the whole information is cancelled.
THEOREM OrderFollowed == Spec => GrantsFollowOrder
<1>1. TypeOK /\ [Next]_vars =>
        [\A m \in Mutex, p \in Proc :
           ~ LockedBy(lockStruct[m], p) /\ LockedBy(lockStruct[m], p)' =>
             \/ ~ HasAddr(lockDelay, m)
             \/ lockDelay[m] = Cons(p, lockDelay'[m])
             \/ lockDelay' = Cleared(lockDelay)]_vars
  BY GrantStep DEF Granted
<1> QED BY <1>1, TypeCorrect, PTL DEF Spec, GrantsFollowOrder

-----------------------------------------------------------------------------
(* No command is parked without need while the delay information is valid. *)

\* The command a process is about to issue is the one recorded for it, if any
\* is: parse_command will not cancel the delay information.
Recorded ==
  \A p \in Proc :
    pc[p] = "run" /\ prog[p] # <<>> =>
      InOrder(srcDelay, p, Head(prog[p]).op, Head(prog[p]).dst)

\* NoOrphan at one mutex.
NoOrphanAt(m) ==
  ~ lockStruct[m].locked /\ lockStruct[m].queue # <<>> =>
    HasAddr(lockDelay, m) /\ ~ hasLockCmd(lockStruct[m], FrontSrc(lockDelay, m))

LEMMA OrphanSame ==
  ASSUME NEW m \in Mutex, NoOrphanAt(m),
         lockStruct'[m] = lockStruct[m], lockDelay'[m] = lockDelay[m]
  PROVE  NoOrphanAt(m)'
BY DEF NoOrphanAt, HasAddr, FrontSrc, hasLockCmd

\* Both commands leave the other mutexes and their delay information alone.
LEMMA OthersKept ==
  ASSUME TypeOK, Recorded, NEW p \in Proc, NEW m \in Mutex,
         HandleLockCmd(p, m) \/ HandleUnlockCmd(p, m)
  PROVE  /\ CheckedOrder(p, "LOCK", m) = lockDelay \/ ~ HandleLockCmd(p, m)
         /\ CheckedOrder(p, "UNLOCK", m) = lockDelay \/ ~ HandleUnlockCmd(p, m)
         /\ \A n \in Mutex : n # m => /\ lockStruct'[n] = lockStruct[n]
                                      /\ lockDelay'[n] = lockDelay[n]
<1>1. lockStruct \in [Mutex -> LockState] /\ lockDelay \in [Mutex -> Seq(Proc)]
  BY DEF TypeOK
<1>2. ASSUME NEW n \in Mutex, n # m PROVE PopFront(lockDelay, m)[n] = lockDelay[n]
  BY <1>1, <1>2 DEF PopFront
<1>3. CASE HandleLockCmd(p, m)
  <2>1. pc[p] = "run" /\ prog[p] # <<>> /\ Head(prog[p]) = [op |-> "LOCK", dst |-> m]
    BY <1>3 DEF HandleLockCmd, Issue
  <2>2. CheckedOrder(p, "LOCK", m) = lockDelay
    BY <2>1 DEF Recorded, CheckedOrder
  <2>3. lockDelay' = lockDelay \/ lockDelay' = PopFront(lockDelay, m)
    BY <1>3, <2>2 DEF HandleLockCmd
  <2>4. \A n \in Mutex : n # m => lockStruct'[n] = lockStruct[n]
    BY <1>1, <1>3 DEF HandleLockCmd
  <2>5. ~ HandleUnlockCmd(p, m)
    BY <2>1 DEF HandleUnlockCmd, Issue
  <2> QED BY <1>2, <2>2, <2>3, <2>4, <2>5
<1>4. CASE HandleUnlockCmd(p, m)
  <2>1. pc[p] = "run" /\ prog[p] # <<>> /\ Head(prog[p]) = [op |-> "UNLOCK", dst |-> m]
    BY <1>4 DEF HandleUnlockCmd, Issue
  <2>2. CheckedOrder(p, "UNLOCK", m) = lockDelay
    BY <2>1 DEF Recorded, CheckedOrder
  <2>3. lockDelay' = lockDelay \/ lockDelay' = PopFront(lockDelay, m)
    BY <1>4, <2>2 DEF HandleUnlockCmd
  <2>4. \A n \in Mutex : n # m => lockStruct'[n] = lockStruct[n]
    BY <1>1, <1>4 DEF HandleUnlockCmd
  <2>5. ~ HandleLockCmd(p, m)
    BY <2>1 DEF HandleLockCmd, Issue
  <2> QED BY <1>2, <2>2, <2>3, <2>4, <2>5
<1> QED BY <1>3, <1>4

LEMMA HandleLockCmd5 ==
  ASSUME TypeOK, NoCommandForgotten, Recorded, NEW p \in Proc, NEW m \in Mutex,
         HandleLockCmd(p, m), NoOrphanAt(m)
  PROVE  NoOrphanAt(m)'
<1> DEFINE s == lockStruct[m]
<1>1. CheckedOrder(p, "LOCK", m) = lockDelay
  BY OthersKept
<1>2. s \in LockState /\ lockStruct \in [Mutex -> LockState] /\ lockDelay \in [Mutex -> Seq(Proc)]
  BY DEF TypeOK
<1>3. CASE UNCHANGED lockStruct /\ lockDelay' = lockDelay
  BY <1>3, OrphanSame
<1>4. CASE ~ s.locked /\ lockStruct' = [lockStruct EXCEPT ![m] = Lock(s, p)]
  <2>1. lockStruct'[m].locked
    BY <1>2, <1>4 DEF Lock, LockState
  <2> QED BY <2>1 DEF NoOrphanAt
<1>5. CASE /\ IF s.locked THEN s.last # p ELSE ~ Admits(lockDelay, p, m)
           /\ lockStruct' = [lockStruct EXCEPT ![m] = insertLockCmd(s, p)]
           /\ lockDelay' = lockDelay
  <2>1. ~ hasLockCmd(s, p)
    <3>1. pc[p] = "run"
      BY DEF HandleLockCmd, Issue
    <3> QED BY <3>1, NotBlocked
  <2>2. IsInjective(s.queue)
    BY Parts DEF ParkedOnStruct
  <2>3. lockStruct'[m] = insertLockCmd(s, p)
    BY <1>2, <1>5
  <2>4. /\ lockStruct'[m].locked = s.locked
        /\ \A q \in Proc : hasLockCmd(lockStruct'[m], q) <=> hasLockCmd(s, q) \/ q = p
    BY <1>2, <2>1, <2>2, <2>3, Park
  <2>5. CASE s.locked
    BY <2>4, <2>5 DEF NoOrphanAt
  <2>6. CASE ~ s.locked
    <3> DEFINE f == FrontSrc(lockDelay, m)
    <3>1. HasAddr(lockDelay, m) /\ f # p /\ f \in Proc
      <4>1. HasAddr(lockDelay, m) /\ f # p
        BY <1>5, <2>6 DEF Admits
      <4>2. lockDelay[m] \in Seq(Proc) /\ lockDelay[m] # <<>>
        BY <1>2, <4>1 DEF HasAddr
      <4> QED BY <4>1, <4>2 DEF FrontSrc
    <3>2. ~ hasLockCmd(s, f)
      <4>1. CASE s.queue = <<>>
        BY <4>1 DEF hasLockCmd
      <4>2. CASE s.queue # <<>>
        BY <2>6, <4>2 DEF NoOrphanAt
      <4> QED BY <4>1, <4>2
    <3>3. HasAddr(lockDelay', m) /\ FrontSrc(lockDelay', m) = f
      BY <1>5, <3>1 DEF HasAddr, FrontSrc
    <3>4. ~ hasLockCmd(lockStruct'[m], f)
      BY <2>4, <3>1, <3>2
    <3> QED BY <3>3, <3>4 DEF NoOrphanAt
  <2> QED BY <2>5, <2>6
<1> QED BY <1>1, <1>3, <1>4, <1>5 DEF HandleLockCmd

LEMMA HandleUnlockCmd5 ==
  ASSUME TypeOK, NoCommandForgotten, Recorded, NEW p \in Proc, NEW m \in Mutex,
         HandleUnlockCmd(p, m), NoOrphanAt(m)
  PROVE  NoOrphanAt(m)'
<1> DEFINE s == lockStruct[m]
<1>1. CheckedOrder(p, "UNLOCK", m) = lockDelay
  BY OthersKept
<1>2. s \in LockState /\ lockStruct \in [Mutex -> LockState] /\ lockDelay \in [Mutex -> Seq(Proc)]
  BY DEF TypeOK
<1>3. CASE UNCHANGED lockStruct /\ lockDelay' = lockDelay
  BY <1>3, OrphanSame
<1>4. CASE /\ s.locked /\ NextOwners(lockDelay, m) = {} /\ lockDelay' = lockDelay
           /\ lockStruct' = [lockStruct EXCEPT ![m] = Unlock(s, p)]
  <2>1. lockStruct'[m].queue = s.queue
    BY <1>2, <1>4, QueueKept
  <2>2. CASE HasAddr(lockDelay, m)
    <3> DEFINE f == FrontSrc(lockDelay, m)
    <3>1. lockDelay[m] \in Seq(Proc) /\ lockDelay[m] # <<>>
      BY <1>2, <2>2 DEF HasAddr
    <3>2. f \in Proc
      BY <3>1 DEF FrontSrc
    <3>3. ~ hasLockCmd(s, f)
      BY <1>4, <2>2, <3>2 DEF NextOwners
    <3>4. HasAddr(lockDelay', m) /\ FrontSrc(lockDelay', m) = f
      BY <1>4, <2>2 DEF HasAddr, FrontSrc
    <3>5. ~ hasLockCmd(lockStruct'[m], f)
      BY <2>1, <3>3 DEF hasLockCmd
    <3> QED BY <3>4, <3>5 DEF NoOrphanAt
  <2>3. CASE ~ HasAddr(lockDelay, m)
    <3>1. s.queue = <<>>
      BY <1>2, <1>4, <2>3, HeadParked DEF NextOwners
    <3> QED BY <2>1, <3>1 DEF NoOrphanAt
  <2> QED BY <2>2, <2>3
<1>5. ASSUME NEW q \in NextOwners(lockDelay, m), s.locked,
             lockStruct' = [lockStruct EXCEPT ![m] = Lock(popLockCmd(Unlock(s, p), q), q)]
      PROVE  NoOrphanAt(m)'
  <2>1. q \in Proc /\ hasLockCmd(s, q)
    BY <1>2, NextOwnersParked
  <2>2. IsInjective(s.queue)
    BY Parts DEF ParkedOnStruct
  <2>3. lockStruct'[m].locked
    BY <1>2, <1>5, <2>1, <2>2, HandOver
  <2> QED BY <2>3 DEF NoOrphanAt
<1> QED BY <1>1, <1>3, <1>4, <1>5 DEF HandleUnlockCmd

LEMMA Init5 == Init => NoOrphan
<1>1. FreshLock.queue = <<>>
  BY DEF FreshLock
<1> QED BY <1>1 DEF Init, NoOrphan

LEMMA Next5 == TypeOK /\ NoCommandForgotten /\ Recorded /\ NoOrphan /\ [Next]_vars => NoOrphan'
<1> SUFFICES ASSUME TypeOK, NoCommandForgotten, Recorded, NoOrphan, [Next]_vars,
                    NEW n \in Mutex
             PROVE  NoOrphanAt(n)'
  BY DEF NoOrphan, NoOrphanAt, Parked
<1>1. NoOrphanAt(n)
  BY DEF NoOrphan, NoOrphanAt, Parked
<1>2. ASSUME NEW p \in Proc, NEW m \in Mutex, HandleLockCmd(p, m) \/ HandleUnlockCmd(p, m)
      PROVE  NoOrphanAt(n)'
  <2>1. CASE n = m
    BY <1>1, <1>2, <2>1, HandleLockCmd5, HandleUnlockCmd5
  <2>2. CASE n # m
    BY <1>1, <1>2, <2>2, OthersKept, OrphanSame
  <2> QED BY <2>1, <2>2
<1>3. CASE NextRound
  <2>1. lockStruct'[n].queue = <<>>
    BY <1>3 DEF NextRound, FreshLock
  <2> QED BY <2>1 DEF NoOrphanAt
<1>4. CASE UNCHANGED <<lockStruct, lockDelay>>
  BY <1>1, <1>4, OrphanSame
<1> QED BY <1>2, <1>3, <1>4 DEF Next, Step, HandleCmd, HandleLockWrite, HandleUnlockWrite,
           ReadResult, ReadSync, Stop, vars, delayVars

\* As long as no command cancels the delay information, a LOCK stays parked on
\* a free mutex only if that information names another process first, whose LOCK
\* is not parked.
THEOREM NobodyOrphaned == Spec /\ []Recorded => []NoOrphan
BY Init5, Next5, TypeCorrect, NoCommandLost, PTL DEF Spec
-----------------------------------------------------------------------------
(* A round that repeats the previous one keeps to its delay information.   *)

\* Every round executes the programs of the round before.
Replayed ==
  \A ps \in Plans : \A r \in DOMAIN ps : r + 1 \in DOMAIN ps => ps[r + 1] = ps[r]

\* Popping a record of p: the first one, if it has the destination asked for.
LEMMA PopItemAt ==
  ASSUME NEW map \in Program, NEW p \in Proc, NEW m \in Mutex
  PROVE  /\ \A q \in Proc : q # p => PopItem(map, p, m)[q] = map[q]
         /\ map[p] = <<>> => PopItem(map, p, m)[p] = <<>>
         /\ map[p] # <<>> /\ Head(map[p]).dst = m => PopItem(map, p, m)[p] = Tail(map[p])
<1> DEFINE T == RecordsFor(map, p, m)
<1>1. map[p] \in Seq(Cmd) /\ T \in SUBSET DOMAIN map[p]
  BY DEF Program, RecordsFor
<1>2. \A q \in Proc : q # p => PopItem(map, p, m)[q] = map[q]
  BY DEF PopItem, Program
<1>3. ASSUME map[p] = <<>> PROVE PopItem(map, p, m)[p] = <<>>
  BY <1>3 DEF PopItem, RecordsFor
<1>4. ASSUME map[p] # <<>>, Head(map[p]).dst = m PROVE PopItem(map, p, m)[p] = Tail(map[p])
  <2>1. 1 \in DOMAIN map[p] /\ map[p][1] = Head(map[p])
    BY <1>1, <1>4
  <2>2. 1 \in T
    BY <1>4, <2>1 DEF RecordsFor
  <2>3. RemoveAt(map[p], Min(T)) = Tail(map[p])
    <3> HIDE DEF T
    <3> QED BY <1>1, <1>4, <2>2, RemoveHead
  <2>4. PopItem(map, p, m) = [map EXCEPT ![p] = RemoveAt(map[p], Min(T))]
    BY <2>2 DEF PopItem
  <2> HIDE DEF T
  <2> QED BY <2>3, <2>4 DEF Program
<1> QED BY <1>2, <1>3, <1>4

\* The record of the transaction p is in is still to be popped.
Unpopped(p) == pc[p] \in {"result", "write"} \/ (pc[p] = "sync" /\ resp[p] = 0)

\* The records of p are the commands p has still to perform.
Synced(p) ==
  /\ Unpopped(p) => /\ srcDelay[p] # <<>> /\ Head(srcDelay[p]) = cmd[p]
                    /\ Tail(srcDelay[p]) = prog[p]
  /\ ~ Unpopped(p) => srcDelay[p] = prog[p]

InStep ==
  /\ round = 1 => \A p \in Proc : srcDelay[p] = <<>>
  /\ round # 1 => \A p \in Proc : Synced(p)

LEMMA InStepRecorded == InStep => Recorded
<1> SUFFICES ASSUME InStep, NEW p \in Proc, pc[p] = "run", prog[p] # <<>>
             PROVE  InOrder(srcDelay, p, Head(prog[p]).op, Head(prog[p]).dst)
  BY DEF Recorded
<1>1. CASE round = 1
  BY <1>1 DEF InStep, InOrder, HasAddr
<1>2. CASE round # 1
  BY <1>2 DEF InStep, Synced, Unpopped, InOrder
<1> QED BY <1>1, <1>2

LEMMA SyncedSame ==
  ASSUME NEW q \in Proc, Synced(q), srcDelay'[q] = srcDelay[q], prog'[q] = prog[q],
         pc'[q] = pc[q], cmd'[q] = cmd[q], resp'[q] = resp[q] \/ pc[q] = "result"
  PROVE  Synced(q)'
BY DEF Synced, Unpopped

\* A command that is printed.
LEMMA IssueCmd6 ==
  ASSUME TypeOK, NoCommandForgotten, InStep, NEW p \in Proc, NEW m \in Mutex,
         HandleLockCmd(p, m) \/ HandleUnlockCmd(p, m)
  PROVE  InStep'
<1>1. PICK op \in Op : /\ Issue(p, op, m) /\ srcDelay' = CheckedSource(p, op, m)
                       /\ round' = round
  BY DEF HandleLockCmd, HandleUnlockCmd, Op
<1>2. /\ pc[p] = "run" /\ prog[p] # <<>> /\ Head(prog[p]) = [op |-> op, dst |-> m]
      /\ prog'[p] = Tail(prog[p]) /\ pc'[p] = "result" /\ cmd'[p] = Head(prog[p])
      /\ \A q \in Proc : q # p => pc'[q] = pc[q] /\ cmd'[q] = cmd[q] /\ prog'[q] = prog[q]
  BY <1>1 DEF Issue, TypeOK, Program
<1>3. srcDelay' = srcDelay
  <2>1. Recorded
    BY InStepRecorded
  <2> QED BY <1>1, <1>2, <2>1 DEF Recorded, CheckedSource
<1>4. ASSUME NEW q \in Proc, q # p PROVE resp'[q] = resp[q] \/ pc[q] = "result"
  <2>1. CASE HandleLockCmd(p, m)
    BY <1>4, <2>1 DEF HandleLockCmd, Answer
  <2>2. CASE HandleUnlockCmd(p, m)
    <3>1. CASE Answer({p})
      BY <1>4, <3>1 DEF Answer
    <3>2. ASSUME NEW r \in NextOwners(CheckedOrder(p, "UNLOCK", m), m), Answer({p, r}), q = r
          PROVE  pc[q] = "result"
      <4>1. lockStruct[m] \in LockState
        BY DEF TypeOK
      <4>2. hasLockCmd(lockStruct[m], q)
        BY <3>2, <4>1, NextOwnersParked
      <4> QED BY <4>2, Parts DEF ParkedOnStruct, Blocked
    <3>3. ASSUME NEW r \in NextOwners(CheckedOrder(p, "UNLOCK", m), m), Answer({p, r}), q # r
          PROVE  resp'[q] = resp[q]
      BY <1>4, <3>3 DEF Answer
    <3> QED BY <2>2, <3>1, <3>2, <3>3 DEF HandleUnlockCmd
  <2> QED BY <2>1, <2>2
<1>5. CASE round = 1
  BY <1>1, <1>3, <1>5 DEF InStep
<1>6. CASE round # 1
  <2>1. Synced(p)'
    BY <1>2, <1>3, <1>6 DEF InStep, Synced, Unpopped
  <2>2. \A q \in Proc : q # p => Synced(q)'
    BY <1>2, <1>3, <1>4, <1>6, SyncedSame DEF InStep
  <2> QED BY <1>1, <1>6, <2>1, <2>2 DEF InStep
<1> QED BY <1>5, <1>6

\* The record popped is that of the transaction.
LEMMA PopStep ==
  ASSUME NEW map \in Program, NEW p \in Proc, NEW m \in Mutex, InStep, Unpopped(p),
         cmd[p].dst = m, map[p] = srcDelay[p]
  PROVE  /\ \A q \in Proc : q # p => PopItem(map, p, m)[q] = map[q]
         /\ round = 1 => PopItem(map, p, m)[p] = <<>>
         /\ round # 1 => PopItem(map, p, m)[p] = prog[p]
         /\ PopItem(map, p, m) \in Program
BY PopItemAt, SrcDelayType DEF InStep, Synced

LEMMA HandleLockWrite6 ==
  ASSUME TypeOK, NoCommandForgotten, InStep, NEW p \in Proc, NEW m \in Mutex,
         HandleLockWrite(p, m)
  PROVE  InStep'
<1>1. /\ pc[p] = "write" /\ cmd[p] = [op |-> "LOCK", dst |-> m]
      /\ pc'[p] = "sync" /\ cmd' = cmd /\ prog' = prog /\ round' = round
      /\ \A q \in Proc : q # p => pc'[q] = pc[q]
  BY IssueWriteEffect DEF HandleLockWrite, IssueWrite, Op
<1>2. resp[p] = 0 /\ resp \in [Proc -> Nat] /\ srcDelay \in Program /\ Unpopped(p)
  BY <1>1, NotBlocked DEF TypeOK, Unpopped
<1>3. \A q \in Proc : q # p => resp'[q] = resp[q]
  BY DEF HandleLockWrite, Answer
<1>4. CASE srcDelay' = PopItem(srcDelay, p, m) /\ Answer({p})
  <2>1. /\ \A q \in Proc : q # p => srcDelay'[q] = srcDelay[q]
        /\ round = 1 => srcDelay'[p] = <<>>
        /\ round # 1 => srcDelay'[p] = prog[p]
    BY <1>1, <1>2, <1>4, PopStep
  <2>2. resp'[p] = 1
    BY <1>2, <1>4 DEF Answer
  <2>3. CASE round = 1
    BY <1>1, <2>1, <2>3 DEF InStep
  <2>4. CASE round # 1
    <3>1. Synced(p)'
      BY <1>1, <2>1, <2>2, <2>4 DEF Synced, Unpopped
    <3>2. \A q \in Proc : q # p => Synced(q)'
      BY <1>1, <1>3, <2>1, <2>4, SyncedSame DEF InStep
    <3> QED BY <1>1, <2>4, <3>1, <3>2 DEF InStep
  <2> QED BY <2>3, <2>4
<1>5. CASE UNCHANGED <<srcDelay, resp>>
  <2>1. CASE round = 1
    BY <1>1, <1>5, <2>1 DEF InStep
  <2>2. CASE round # 1
    <3>1. Synced(p)'
      BY <1>1, <1>2, <1>5, <2>2 DEF InStep, Synced, Unpopped
    <3>2. \A q \in Proc : q # p => Synced(q)'
      BY <1>1, <1>5, <2>2, SyncedSame DEF InStep
    <3> QED BY <1>1, <2>2, <3>1, <3>2 DEF InStep
  <2> QED BY <2>1, <2>2
<1> QED BY <1>4, <1>5 DEF HandleLockWrite

LEMMA HandleUnlockWrite6 ==
  ASSUME TypeOK, NoCommandForgotten, InStep, NEW p \in Proc, NEW m \in Mutex,
         HandleUnlockWrite(p, m)
  PROVE  InStep'
<1> DEFINE s == lockTiming[m]
<1>1. /\ pc[p] = "write" /\ cmd[p] = [op |-> "UNLOCK", dst |-> m]
      /\ pc'[p] = "sync" /\ cmd' = cmd /\ prog' = prog /\ round' = round
      /\ \A q \in Proc : q # p => pc'[q] = pc[q]
  BY IssueWriteEffect DEF HandleUnlockWrite, IssueWrite, Op
<1>2. resp[p] = 0 /\ resp \in [Proc -> Nat] /\ srcDelay \in Program /\ Unpopped(p)
  BY <1>1, NotBlocked DEF TypeOK, Unpopped
<1>3. s \in LockState
  BY DEF TypeOK
<1> DEFINE map == PopItem(srcDelay, p, m)
<1>4. /\ \A q \in Proc : q # p => map[q] = srcDelay[q]
      /\ round = 1 => map[p] = <<>>
      /\ round # 1 => map[p] = prog[p]
      /\ map \in Program
  BY <1>1, <1>2, PopStep
<1>5. CASE srcDelay' = map /\ Answer({p})
  <2>1. resp'[p] = 1 /\ \A q \in Proc : q # p => resp'[q] = resp[q]
    BY <1>2, <1>5 DEF Answer
  <2> HIDE DEF map
  <2>2. CASE round = 1
    BY <1>1, <1>4, <1>5, <2>2 DEF InStep
  <2>3. CASE round # 1
    <3>1. Synced(p)'
      BY <1>1, <1>4, <1>5, <2>1, <2>3 DEF Synced, Unpopped
    <3>2. \A q \in Proc : q # p => Synced(q)'
      BY <1>1, <1>4, <1>5, <2>1, <2>3, SyncedSame DEF InStep
    <3> QED BY <1>1, <2>3, <3>1, <3>2 DEF InStep
  <2> QED BY <2>2, <2>3
<1>6. ASSUME NEW q \in Proc, hasLockCmd(s, q), srcDelay' = PopItem(map, q, m), Answer({p, q})
      PROVE  InStep'
  <2>1. pc[q] = "sync" /\ resp[q] = 0 /\ cmd[q] = [op |-> "LOCK", dst |-> m]
    BY <1>6, Parts DEF ParkedOnTiming, Blocked
  <2>2. q # p /\ Unpopped(q)
    BY <1>1, <2>1 DEF Unpopped
  <2>3. /\ \A r \in Proc : r # q => srcDelay'[r] = map[r]
        /\ round = 1 => srcDelay'[q] = <<>>
        /\ round # 1 => srcDelay'[q] = prog[q]
    <3> HIDE DEF map
    <3>1. map[q] = srcDelay[q]
      BY <1>4, <2>2
    <3> QED BY <1>4, <1>6, <2>1, <2>2, <3>1, PopStep
  <2>4. resp'[p] = 1 /\ resp'[q] = 1 /\ \A r \in Proc : r \notin {p, q} => resp'[r] = resp[r]
    BY <1>2, <1>6, <2>1 DEF Answer
  <2> HIDE DEF map
  <2>5. CASE round = 1
    BY <1>1, <1>4, <2>3, <2>5 DEF InStep
  <2>6. CASE round # 1
    <3>1. Synced(p)'
      BY <1>1, <1>4, <2>2, <2>3, <2>4, <2>6 DEF Synced, Unpopped
    <3>2. Synced(q)'
      BY <1>1, <2>1, <2>2, <2>3, <2>4, <2>6 DEF Synced, Unpopped
    <3>3. \A r \in Proc : r \notin {p, q} => Synced(r)'
      BY <1>1, <1>4, <2>3, <2>4, <2>6, SyncedSame DEF InStep
    <3> QED BY <1>1, <2>6, <3>1, <3>2, <3>3 DEF InStep
  <2> QED BY <2>5, <2>6
<1>7. CASE /\ s.locked /\ Overtaken(s) /\ Answer({p, Head(s.queue)})
           /\ srcDelay' = PopItem(map, Head(s.queue), m)
  <2>1. Head(s.queue) \in Proc /\ hasLockCmd(s, Head(s.queue))
    BY <1>3, <1>7, HeadParked DEF Overtaken
  <2> HIDE DEF s, map
  <2> QED BY <1>6, <1>7, <2>1
<1> QED BY <1>5, <1>7 DEF HandleUnlockWrite

LEMMA Read6 ==
  ASSUME TypeOK, InStep, NEW p \in Proc, ReadResult(p) \/ ReadSync(p)
  PROVE  InStep'
<1>1. /\ \A q \in Proc : q # p => pc'[q] = pc[q] /\ resp'[q] = resp[q]
      /\ UNCHANGED <<cmd, prog, srcDelay, round>>
  <2>1. CASE ReadResult(p)
    BY <2>1 DEF ReadResult, TypeOK, delayVars
  <2>2. CASE ReadSync(p)
    BY <2>2 DEF ReadSync, TypeOK, delayVars
  <2> QED BY <2>1, <2>2
<1>2. Unpopped(p)' <=> Unpopped(p)
  <2>1. resp[p] # 0
    BY DEF ReadResult, ReadSync, TypeOK
  <2> QED BY <2>1 DEF ReadResult, ReadSync, TypeOK, Unpopped
<1>3. CASE round = 1
  BY <1>1, <1>3 DEF InStep
<1>4. CASE round # 1
  <2>1. Synced(p)'
    BY <1>1, <1>2, <1>4 DEF InStep, Synced
  <2>2. \A q \in Proc : q # p => Synced(q)'
    BY <1>1, <1>4, SyncedSame DEF InStep
  <2> QED BY <1>1, <1>4, <2>1, <2>2 DEF InStep
<1> QED BY <1>3, <1>4

LEMMA NextRound6 ==
  ASSUME Replayed, Inv1, NextRound
  PROVE  InStep'
<1>1. bench = plan[round]
  BY BenchAtEnd DEF NextRound
<1>2. plan \in Plans /\ round \in DOMAIN plan /\ round \in Nat \ {0} /\ round + 1 \in DOMAIN plan
  <2>1. plan \in Plans /\ round \in DOMAIN plan /\ plan \in Seq(Program)
    BY PlansAssumption DEF Inv1, TypeOK
  <2> QED BY <2>1 DEF NextRound
<1>3. plan[round + 1] = plan[round]
  BY <1>2 DEF Replayed
<1>4. srcDelay' = prog' /\ round' # 1 /\ \A p \in Proc : pc'[p] = "run"
  BY <1>1, <1>2, <1>3 DEF NextRound, RoundOver
<1> QED BY <1>4 DEF InStep, Synced, Unpopped

LEMMA Next6 ==
  ASSUME Replayed, Inv1, NoCommandForgotten, InStep, [Next]_vars
  PROVE  InStep'
<1>1. ASSUME NEW p \in Proc, Step(p) PROVE InStep'
  BY <1>1, IssueCmd6, HandleLockWrite6, HandleUnlockWrite6, Read6 DEF Inv1, Step, HandleCmd
<1>2. CASE NextRound
  BY <1>2, NextRound6
<1>3. CASE UNCHANGED vars
  <2>1. UNCHANGED <<pc, cmd, resp, prog, srcDelay, round>>
    BY <1>3 DEF vars, clientVars, delayVars
  <2>2. (\A p \in Proc : Synced(p)) => (\A p \in Proc : Synced(p))'
    BY <2>1, SyncedSame
  <2> QED BY <2>1, <2>2 DEF InStep
<1> QED BY <1>1, <1>2, <1>3 DEF Next, Stop

LEMMA ReplayInStep ==
  ASSUME Replayed
  PROVE  Spec => [](Inv1 /\ InStep)
<1>1. Init => InStep
  BY DEF Init, InStep
<1>2. Inv1 /\ NoCommandForgotten /\ InStep /\ [Next]_vars => InStep'
  BY Next6
<1> QED BY <1>1, <1>2, Init1, Next1, NoCommandLost, PTL DEF Spec

\* If every round repeats the one before, disciplined or not, no command ever
\* cancels the delay information, so no LOCK is parked on a free mutex without
\* need.
THEOREM ReplayNobodyOrphaned ==
  ASSUME Replayed
  PROVE  Spec => []NoOrphan
<1>1. Inv1 /\ InStep => Recorded
  BY InStepRecorded
<1> QED BY <1>1, ReplayInStep, NobodyOrphaned, PTL
=============================================================================
