---------------------- MODULE SyncLockExclusion_proofs ----------------------
(***************************************************************************)
(* Proofs about SyncLock for disciplined processes: mutual exclusion, that *)
(* SyncLock implements AbstractLock, that the timing mutex follows the     *)
(* functional one, and that a round which repeats the previous one uses up *)
(* its delay information.                                                  *)
(*                                                                         *)
(* The inductive invariant OwnerInv says that the bookkeeping of a mutex   *)
(* and the belief of the processes agree: the process that locked a mutex  *)
(* last, while it is locked, is the only one that holds it or has an       *)
(* unread grant of it.  It needs NoCommandForgotten, which says that a     *)
(* parked command has not been answered.  TimingInv follows the timing     *)
(* mutex from the WRITE(LOCK) of its owner to its WRITE(UNLOCK), and rests *)
(* on OwnerInv.  OrderCounted compares the lock order with the requests    *)
(* still to come; it rests on InStep of SyncLock_proofs.                   *)
(***************************************************************************)
EXTENDS SyncLock_proofs

\* p holds m, or has been granted it by an unread RESULT.
Owns(p, m) ==
  \/ m \in held[p]
  \/ pc[p] = "result" /\ resp[p] = 1 /\ cmd[p] = [op |-> "LOCK", dst |-> m]

OwnerInv ==
  \A m \in Mutex :
    /\ lockStruct[m].locked => lockStruct[m].last \in Proc
    /\ \A p \in Proc : Owns(p, m) <=> LockedBy(lockStruct[m], p)

\* What is known before every step of a disciplined behavior.
Known == TypeOK /\ NoCommandForgotten /\ Disciplined /\ OwnerInv

Ow == [m \in Mutex |-> Owners(m)]
Wt == [m \in Mutex |-> ToSet(lockStruct[m].queue)]

LEMMA OwnersAre == \A m \in Mutex : Owners(m) = {p \in Proc : Owns(p, m)}
BY DEF Owners, Owns

LEMMA OwnersNextAre == \A m \in Mutex : Owners(m)' = {p \in Proc : Owns(p, m)'}
BY DEF Owners, Owns

LEMMA WaitingAre ==
  ASSUME NEW s \in LockState
  PROVE  ToSet(s.queue) = {p \in Proc : hasLockCmd(s, p)}
<1>1. s.queue \in Seq(Proc)
  BY DEF LockState
<1>2. \A i \in DOMAIN s.queue : s.queue[i] \in Proc
  BY <1>1
<1> QED BY <1>2 DEF ToSet, hasLockCmd

\* The steps of the abstract mutex, on the refinement mapping.
LEMMA AcquireStep ==
  ASSUME NEW p \in Proc, NEW m \in Mutex,
         Ow[m] = {}, Ow' = [Ow EXCEPT ![m] = {p}], Wt' = Wt
  PROVE  Abstract!Next
<1>1. Abstract!Acquire(p, m)
  BY DEF Abstract!Acquire, Ow, Wt
<1> QED BY <1>1 DEF Abstract!Next

LEMMA WaitStep ==
  ASSUME NEW p \in Proc, NEW m \in Mutex, p \notin Ow[m] \cup Wt[m],
         Wt' = [Wt EXCEPT ![m] = @ \cup {p}], Ow' = Ow
  PROVE  Abstract!Next
<1>1. Abstract!Wait(p, m)
  BY DEF Abstract!Wait, Ow, Wt
<1> QED BY <1>1 DEF Abstract!Next

LEMMA ReleaseStep ==
  ASSUME NEW p \in Proc, NEW m \in Mutex, Ow[m] = {p},
         \/ Ow' = [Ow EXCEPT ![m] = {}] /\ Wt' = Wt
         \/ \E q \in Wt[m] : /\ Ow' = [Ow EXCEPT ![m] = {q}]
                             /\ Wt' = [Wt EXCEPT ![m] = @ \ {q}]
  PROVE  Abstract!Next
<1>1. Abstract!Release(p, m)
  BY DEF Abstract!Release, Ow, Wt
<1> QED BY <1>1 DEF Abstract!Next

LEMMA RestartStep ==
  ASSUME Wt = [m \in Mutex |-> {}], Ow' = [m \in Mutex |-> {}], Wt' = Wt
  PROVE  Abstract!Next
<1>1. Abstract!Restart
  BY DEF Abstract!Restart, Ow, Wt
<1> QED BY <1>1 DEF Abstract!Next

LEMMA StutterStep ==
  ASSUME Ow' = Ow, Wt' = Wt
  PROVE  UNCHANGED Abstract!vars
BY DEF Abstract!vars, Ow, Wt

AbstractStep == [Abstract!Next]_(Abstract!vars)

LEMMA Init3 == Init => OwnerInv /\ Abstract!Init
<1> SUFFICES ASSUME Init PROVE OwnerInv /\ Abstract!Init
  OBVIOUS
<1>1. \A p \in Proc, m \in Mutex : ~ Owns(p, m)
  BY DEF Init, Owns
<1>2. \A m \in Mutex : lockStruct[m] = FreshLock /\ ~ lockStruct[m].locked
  BY FreshEmpty DEF Init
<1>3. OwnerInv
  BY <1>1, <1>2 DEF OwnerInv, LockedBy
<1>4. \A m \in Mutex : Owners(m) = {} /\ ToSet(lockStruct[m].queue) = {}
  <2>1. FreshLock \in LockState
    BY DEF FreshLock, LockState
  <2> QED BY <1>1, <1>2, <2>1, OwnersAre, WaitingAre, FreshEmpty
<1> QED BY <1>3, <1>4 DEF Abstract!Init

\* The mapped variables at a mutex.
LEMMA MappedAt ==
  ASSUME NEW m \in Mutex
  PROVE  /\ Ow[m] = {p \in Proc : Owns(p, m)}
         /\ Ow'[m] = {p \in Proc : Owns(p, m)'}
         /\ Wt[m] = ToSet(lockStruct[m].queue)
         /\ Wt'[m] = ToSet(lockStruct'[m].queue)
BY OwnersAre, OwnersNextAre DEF Ow, Wt

\* The owners are the same, or differ at one mutex.
LEMMA OwSame ==
  ASSUME \A n \in Mutex : \A q \in Proc : Owns(q, n)' <=> Owns(q, n)
  PROVE  Ow' = Ow
<1>1. \A n \in Mutex : Ow'[n] = Ow[n]
  BY MappedAt
<1> QED BY <1>1 DEF Ow

LEMMA OwExcept ==
  ASSUME NEW m \in Mutex, NEW S \in SUBSET Proc, \A q \in Proc : Owns(q, m)' <=> q \in S,
         \A n \in Mutex : n # m => \A q \in Proc : Owns(q, n)' <=> Owns(q, n)
  PROVE  Ow' = [Ow EXCEPT ![m] = S]
<1>1. Ow'[m] = S
  BY MappedAt
<1>2. \A n \in Mutex : n # m => Ow'[n] = Ow[n]
  BY MappedAt
<1> QED BY <1>1, <1>2 DEF Ow

\* The waiting processes are the same, or differ at one mutex.
LEMMA WtSame ==
  ASSUME \A n \in Mutex : lockStruct'[n].queue = lockStruct[n].queue
  PROVE  Wt' = Wt
BY DEF Wt

LEMMA WtExcept ==
  ASSUME NEW m \in Mutex, NEW S \in SUBSET Proc,
         lockStruct'[m] \in LockState, \A q \in Proc : hasLockCmd(lockStruct'[m], q) <=> q \in S,
         \A n \in Mutex : n # m => lockStruct'[n] = lockStruct[n]
  PROVE  Wt' = [Wt EXCEPT ![m] = S]
<1>1. Wt'[m] = {q \in Proc : hasLockCmd(lockStruct'[m], q)}
  BY MappedAt, WaitingAre
<1>2. Wt'[m] = S
  BY <1>1
<1>3. \A n \in Mutex : n # m => Wt'[n] = Wt[n]
  BY MappedAt
<1> QED BY <1>2, <1>3 DEF Wt

LEMMA HandleLockCmd3 ==
  ASSUME Known, TypeOK', NEW p \in Proc, NEW m \in Mutex, HandleLockCmd(p, m)
  PROVE  OwnerInv' /\ AbstractStep
<1> DEFINE s == lockStruct[m]
<1>1. /\ pc[p] = "run"
      /\ pc'[p] = "result" /\ cmd'[p] = [op |-> "LOCK", dst |-> m]
      /\ \A q \in Proc : q # p => pc'[q] = pc[q] /\ cmd'[q] = cmd[q]
      /\ held' = held
  BY IssueEffect DEF HandleLockCmd, Op, Known
<1>2. TypeOK /\ NoCommandForgotten /\ OwnerInv
  BY DEF Known
<1>3. s \in LockState /\ lockStruct \in [Mutex -> LockState] /\ resp \in [Proc -> Nat]
  BY <1>2 DEF TypeOK
<1>4. resp[p] = 0 /\ ~ hasLockCmd(s, p)
  BY <1>1, <1>2, NotBlocked
<1>5. \A n \in Mutex : n # m =>
        \A q \in Proc : resp'[q] = resp[q] \/ q = p => (Owns(q, n)' <=> Owns(q, n))
  BY <1>1 DEF Owns
<1>6. CASE LockedBy(s, p) /\ Answer({p}) /\ UNCHANGED lockStruct
  <2>1. resp'[p] = 1 /\ \A q \in Proc : q # p => resp'[q] = resp[q]
    BY <1>3, <1>4, <1>6 DEF Answer
  <2>2. \A q \in Proc, n \in Mutex : Owns(q, n)' <=> Owns(q, n)
    <3>1. Owns(p, m)' /\ Owns(p, m)
      BY <1>1, <1>2, <1>6, <2>1 DEF Owns, OwnerInv
    <3>2. \A q \in Proc : q # p => (Owns(q, m)' <=> Owns(q, m))
      BY <1>1, <2>1 DEF Owns
    <3> QED BY <1>5, <2>1, <3>1, <3>2
  <2>3. OwnerInv'
    BY <1>2, <1>6, <2>2 DEF OwnerInv
  <2>4. Ow' = Ow /\ Wt' = Wt
    BY <1>6, <2>2, OwSame, WtSame
  <2> QED BY <2>3, <2>4, StutterStep DEF AbstractStep
<1>7. CASE ~ s.locked /\ Answer({p}) /\ lockStruct' = [lockStruct EXCEPT ![m] = Lock(s, p)]
  <2>1. resp'[p] = 1 /\ \A q \in Proc : q # p => resp'[q] = resp[q]
    BY <1>3, <1>4, <1>7 DEF Answer
  <2>2. /\ Owns(p, m)'
        /\ \A q \in Proc : q # p => ~ Owns(q, m)' /\ ~ Owns(q, m)
        /\ ~ Owns(p, m)
    <3>1. \A q \in Proc : ~ Owns(q, m)
      BY <1>2, <1>7 DEF OwnerInv, LockedBy
    <3>2. \A q \in Proc : q # p => (Owns(q, m)' <=> Owns(q, m))
      BY <1>1, <2>1 DEF Owns
    <3> QED BY <1>1, <2>1, <3>1, <3>2 DEF Owns
  <2>3. /\ lockStruct'[m].locked /\ lockStruct'[m].last = p
        /\ lockStruct'[m].queue = lockStruct[m].queue
        /\ \A n \in Mutex : n # m => lockStruct'[n] = lockStruct[n]
    BY <1>3, <1>7 DEF Lock, LockState
  <2>4. OwnerInv'
    BY <1>2, <1>5, <2>1, <2>2, <2>3 DEF OwnerInv, LockedBy
  <2>5. Ow[m] = {} /\ Ow' = [Ow EXCEPT ![m] = {p}]
    <3>1. Ow[m] = {}
      BY <2>2, MappedAt
    <3>2. {p} \in SUBSET Proc /\ \A q \in Proc : Owns(q, m)' <=> q \in {p}
      BY <2>2
    <3> QED BY <1>5, <2>1, <3>1, <3>2, OwExcept
  <2>6. Wt' = Wt
    BY <2>3, WtSame
  <2> QED BY <2>4, <2>5, <2>6, AcquireStep DEF AbstractStep
<1>8. CASE /\ IF s.locked THEN s.last # p ELSE TRUE
           /\ lockStruct' = [lockStruct EXCEPT ![m] = insertLockCmd(s, p)]
           /\ UNCHANGED resp
  <2>1. \A q \in Proc, n \in Mutex : Owns(q, n)' <=> Owns(q, n)
    <3>1. \A q \in Proc : Owns(q, m)' <=> Owns(q, m)
      BY <1>1, <1>4, <1>8 DEF Owns
    <3> QED BY <1>5, <1>8, <3>1
  <2>2. /\ lockStruct'[m] = insertLockCmd(s, p)
        /\ \A n \in Mutex : n # m => lockStruct'[n] = lockStruct[n]
    BY <1>3, <1>8
  <2>3. IsInjective(s.queue)
    BY <1>2, Parts DEF ParkedOnStruct
  <2>4. /\ lockStruct'[m].locked = s.locked /\ lockStruct'[m].last = s.last
        /\ \A q \in Proc : hasLockCmd(lockStruct'[m], q) <=> hasLockCmd(s, q) \/ q = p
    BY <1>3, <1>4, <2>2, <2>3, Park
  <2>5. OwnerInv'
    BY <1>2, <2>1, <2>2, <2>4 DEF OwnerInv, LockedBy
  <2>6. Ow' = Ow
    BY <2>1, OwSame
  <2>7. lockStruct'[m] \in LockState
    BY DEF TypeOK
  <2>8. Wt[m] = {q \in Proc : hasLockCmd(s, q)} /\ Wt[m] \cup {p} \in SUBSET Proc
    <3>1. Wt[m] = {q \in Proc : hasLockCmd(s, q)}
      BY <1>3, MappedAt, WaitingAre
    <3> QED BY <3>1
  <2>9. Wt' = [Wt EXCEPT ![m] = Wt[m] \cup {p}]
    BY <2>2, <2>4, <2>7, <2>8, WtExcept
  <2>10. p \notin Ow[m] \cup Wt[m]
    BY <1>2, <1>4, <1>8, <2>8, MappedAt DEF OwnerInv, LockedBy
  <2> QED BY <2>5, <2>6, <2>9, <2>10, WaitStep DEF AbstractStep
<1> QED BY <1>6, <1>7, <1>8 DEF HandleLockCmd

LEMMA HandleUnlockCmd3 ==
  ASSUME Known, TypeOK', NEW p \in Proc, NEW m \in Mutex, HandleUnlockCmd(p, m)
  PROVE  OwnerInv' /\ AbstractStep
<1> DEFINE s == lockStruct[m]
           order == CheckedOrder(p, "UNLOCK", m)
<1>1. /\ pc[p] = "run" /\ m \in held[p]
      /\ pc'[p] = "result" /\ cmd'[p] = [op |-> "UNLOCK", dst |-> m]
      /\ \A q \in Proc : q # p => pc'[q] = pc[q] /\ cmd'[q] = cmd[q]
      /\ held' = [held EXCEPT ![p] = held[p] \ {m}]
  <2>1. Issue(p, "UNLOCK", m) /\ held' = [held EXCEPT ![p] = held[p] \ {m}]
    BY DEF HandleUnlockCmd
  <2>2. m \in held[p]
    BY <2>1 DEF Known, Disciplined, Issue
  <2> QED BY <2>1, <2>2, IssueEffect DEF Op, Known
<1>2. TypeOK /\ NoCommandForgotten /\ OwnerInv
  BY DEF Known
<1>3. /\ s \in LockState /\ lockStruct \in [Mutex -> LockState] /\ resp \in [Proc -> Nat]
      /\ held \in [Proc -> SUBSET Mutex]
  BY <1>2 DEF TypeOK
<1>4. resp[p] = 0 /\ ~ hasLockCmd(s, p)
  BY <1>1, <1>2, NotBlocked
<1>5. s.locked /\ s.last = p /\ \A q \in Proc : Owns(q, m) <=> q = p
  BY <1>1, <1>2 DEF OwnerInv, LockedBy, Owns
<1>6. Ow[m] = {p}
  BY <1>5, MappedAt
<1>7. /\ ~ Owns(p, m)'
      /\ \A n \in Mutex : n # m =>
        \A q \in Proc : resp'[q] = resp[q] \/ q = p => (Owns(q, n)' <=> Owns(q, n))
  BY <1>1, <1>3 DEF Owns
<1>8. CASE Answer({p}) /\ lockStruct' = [lockStruct EXCEPT ![m] = Unlock(s, p)]
  <2>1. \A q \in Proc : q # p => resp'[q] = resp[q]
    BY <1>3, <1>8 DEF Answer
  <2>2. \A q \in Proc : ~ Owns(q, m)'
    BY <1>1, <1>3, <1>5, <1>7, <2>1 DEF Owns
  <2>3. /\ ~ lockStruct'[m].locked /\ lockStruct'[m].queue = s.queue
        /\ \A n \in Mutex : n # m => lockStruct'[n] = lockStruct[n]
    BY <1>3, <1>5, <1>8 DEF Unlock, LockState
  <2>4. OwnerInv'
    BY <1>2, <1>7, <2>1, <2>2, <2>3 DEF OwnerInv, LockedBy
  <2>5. Ow' = [Ow EXCEPT ![m] = {}]
    <3>1. {} \in SUBSET Proc /\ \A q \in Proc : Owns(q, m)' <=> q \in {}
      BY <2>2
    <3> QED BY <1>7, <2>1, <3>1, OwExcept
  <2>6. Wt' = Wt
    BY <2>3, WtSame
  <2> QED BY <1>6, <2>4, <2>5, <2>6, ReleaseStep DEF AbstractStep
<1>9. ASSUME NEW q \in NextOwners(order, m), Answer({p, q}),
             lockStruct' = [lockStruct EXCEPT ![m] = Lock(popLockCmd(Unlock(s, p), q), q)]
      PROVE  OwnerInv' /\ AbstractStep
  <2>1. q \in Proc /\ hasLockCmd(s, q) /\ q # p
    BY <1>3, <1>4, NextOwnersParked
  <2>2. pc[q] = "result" /\ resp[q] = 0 /\ cmd[q] = [op |-> "LOCK", dst |-> m]
    BY <1>2, <2>1, Parts DEF ParkedOnStruct, Blocked
  <2>3. resp'[q] = 1 /\ \A r \in Proc : r \notin {p, q} => resp'[r] = resp[r]
    BY <1>3, <1>9, <2>1, <2>2 DEF Answer
  <2>4. Owns(q, m)' /\ \A r \in Proc : r # q => ~ Owns(r, m)'
    BY <1>1, <1>3, <1>5, <1>7, <2>1, <2>2, <2>3 DEF Owns
  <2>5. \A n \in Mutex : n # m => \A r \in Proc : Owns(r, n)' <=> Owns(r, n)
    <3>1. \A n \in Mutex : n # m => (Owns(q, n)' <=> Owns(q, n))
      BY <1>1, <1>3, <2>1, <2>2 DEF Owns
    <3> QED BY <1>7, <2>3, <3>1
  <2>6. IsInjective(s.queue)
    BY <1>2, Parts DEF ParkedOnStruct
  <2>7. /\ lockStruct'[m] = Lock(popLockCmd(Unlock(s, p), q), q)
        /\ \A n \in Mutex : n # m => lockStruct'[n] = lockStruct[n]
    BY <1>3, <1>9
  <2>8. /\ \A r \in Proc : hasLockCmd(lockStruct'[m], r) <=> hasLockCmd(s, r) /\ r # q
        /\ lockStruct'[m].locked /\ lockStruct'[m].last = q
    BY <1>3, <1>5, <2>1, <2>6, <2>7, HandOver
  <2>9. OwnerInv'
    BY <1>2, <2>1, <2>4, <2>5, <2>7, <2>8 DEF OwnerInv, LockedBy
  <2>10. Ow' = [Ow EXCEPT ![m] = {q}]
    <3>1. {q} \in SUBSET Proc /\ \A r \in Proc : Owns(r, m)' <=> r \in {q}
      BY <2>1, <2>4
    <3> QED BY <2>5, <3>1, OwExcept
  <2>11. lockStruct'[m] \in LockState
    BY DEF TypeOK
  <2>12. Wt[m] = {r \in Proc : hasLockCmd(s, r)}
    BY <1>3, MappedAt, WaitingAre
  <2>13. Wt' = [Wt EXCEPT ![m] = Wt[m] \ {q}]
    <3>1. Wt[m] \ {q} \in SUBSET Proc
      BY <2>12
    <3>2. \A r \in Proc : hasLockCmd(lockStruct'[m], r) <=> r \in Wt[m] \ {q}
      BY <2>8, <2>12
    <3> QED BY <2>7, <2>11, <3>1, <3>2, WtExcept
  <2>14. q \in Wt[m]
    BY <2>1, <2>12
  <2> QED BY <1>6, <2>9, <2>10, <2>13, <2>14, ReleaseStep DEF AbstractStep
<1> QED BY <1>5, <1>8, <1>9 DEF HandleUnlockCmd


\* A step that leaves the functional bookkeeping and the owners alone.
LEMMA SameOwners ==
  ASSUME OwnerInv, UNCHANGED lockStruct,
         \A q \in Proc, n \in Mutex : Owns(q, n)' <=> Owns(q, n)
  PROVE  OwnerInv' /\ AbstractStep
<1>1. OwnerInv'
  BY DEF OwnerInv
<1>2. Ow' = Ow /\ Wt' = Wt
  BY OwSame, WtSame
<1> QED BY <1>1, <1>2, StutterStep DEF AbstractStep

LEMMA HandleWrite3 ==
  ASSUME Known, NEW p \in Proc, NEW m \in Mutex,
         HandleLockWrite(p, m) \/ HandleUnlockWrite(p, m)
  PROVE  OwnerInv' /\ AbstractStep
<1>1. /\ pc[p] = "write" /\ pc'[p] = "sync" /\ cmd' = cmd /\ held' = held
      /\ \A q \in Proc : q # p => pc'[q] = pc[q]
      /\ lockStruct' = lockStruct
  BY DEF HandleLockWrite, HandleUnlockWrite, IssueWrite, Known, TypeOK
<1>2. ASSUME NEW q \in Proc, pc[q] = "result" PROVE resp'[q] = resp[q]
  <2>1. CASE HandleLockWrite(p, m)
    <3>1. q # p /\ (Answer({p}) \/ resp' = resp)
      BY <1>1, <1>2, <2>1 DEF HandleLockWrite
    <3> QED BY <3>1 DEF Answer
  <2>2. CASE HandleUnlockWrite(p, m)
    <3> DEFINE s == lockTiming[m]
               h == Head(s.queue)
    <3>1. q # p /\ (Answer({p}) \/ (Overtaken(s) /\ Answer({p, h})))
      BY <1>1, <1>2, <2>2 DEF HandleUnlockWrite
    <3>2. ASSUME Overtaken(s) PROVE q # h
      <4>1. s \in LockState
        BY DEF Known, TypeOK
      <4>2. h \in Proc /\ hasLockCmd(s, h)
        BY <3>2, <4>1, HeadParked DEF Overtaken
      <4>3. pc[h] = "sync"
        BY <4>2, Parts DEF Known, ParkedOnTiming, Blocked
      <4> QED BY <1>2, <4>3
    <3> QED BY <3>1, <3>2 DEF Answer
  <2> QED BY <2>1, <2>2
<1>3. \A q \in Proc, n \in Mutex : Owns(q, n)' <=> Owns(q, n)
  BY <1>1, <1>2 DEF Owns
<1> QED BY <1>1, <1>3, SameOwners DEF Known

LEMMA Read3 ==
  ASSUME Known, NEW p \in Proc, ReadResult(p) \/ ReadSync(p)
  PROVE  OwnerInv' /\ AbstractStep
<1>1. resp[p] \in Nat /\ resp[p] > 0 /\ resp[p] <= 1
  BY Parts DEF Known, TypeOK, Answers, ReadResult, ReadSync
<1>2. /\ pc'[p] \in {"write", "run"} /\ cmd' = cmd
      /\ \A q \in Proc : q # p => pc'[q] = pc[q] /\ resp'[q] = resp[q] /\ held'[q] = held[q]
      /\ lockStruct' = lockStruct
  BY DEF Known, TypeOK, ReadResult, ReadSync
<1>3. CASE ReadResult(p)
  <2>1. /\ pc[p] = "result" /\ resp[p] = 1
        /\ held'[p] = IF cmd[p].op = "LOCK" THEN held[p] \cup {cmd[p].dst} ELSE held[p]
    BY <1>1, <1>3 DEF Known, TypeOK, ReadResult
  <2>2. cmd[p] \in [op : Op, dst : Mutex]
    BY DEF Known, TypeOK, Cmd
  <2>3. \A n \in Mutex : cmd[p] = [op |-> "LOCK", dst |-> n] <=> cmd[p].op = "LOCK" /\ cmd[p].dst = n
    BY <2>2
  <2>4. ASSUME NEW n \in Mutex PROVE Owns(p, n)' <=> Owns(p, n)
    <3>1. Owns(p, n)' <=> n \in held'[p]
      BY <1>2 DEF Owns
    <3>2. Owns(p, n) <=> n \in held[p] \/ (cmd[p].op = "LOCK" /\ cmd[p].dst = n)
      BY <2>1, <2>3 DEF Owns
    <3> QED BY <2>1, <3>1, <3>2
  <2>5. \A q \in Proc, n \in Mutex : Owns(q, n)' <=> Owns(q, n)
    BY <1>2, <2>4 DEF Owns
  <2> QED BY <1>2, <2>5, SameOwners DEF Known
<1>4. CASE ReadSync(p)
  <2>1. pc[p] = "sync" /\ held' = held
    BY <1>4 DEF ReadSync
  <2>2. \A q \in Proc, n \in Mutex : Owns(q, n)' <=> Owns(q, n)
    BY <1>2, <2>1 DEF Owns
  <2> QED BY <1>2, <2>2, SameOwners DEF Known
<1> QED BY <1>3, <1>4

LEMMA NextRound3 ==
  ASSUME Known, NextRound
  PROVE  OwnerInv' /\ AbstractStep
<1>1. /\ \A p \in Proc : pc[p] = "run" /\ pc'[p] = "run" /\ held'[p] = {}
      /\ \A m \in Mutex : lockStruct'[m] = FreshLock
  BY DEF NextRound, RoundOver
<1>2. \A p \in Proc, m \in Mutex : ~ Owns(p, m)'
  BY <1>1 DEF Owns
<1>3. OwnerInv'
  BY <1>1, <1>2, FreshEmpty DEF OwnerInv, LockedBy
<1>4. ASSUME NEW m \in Mutex
      PROVE  Ow'[m] = {} /\ Wt[m] = {} /\ Wt'[m] = {}
  <2>1. FreshLock \in LockState /\ lockStruct[m] \in LockState
    BY DEF Known, TypeOK, FreshLock, LockState
  <2>2. \A p \in Proc : ~ hasLockCmd(lockStruct[m], p)
    BY <1>1, Parts DEF Known, ParkedOnStruct, Blocked
  <2>3. ToSet(lockStruct[m].queue) = {} /\ ToSet(FreshLock.queue) = {}
    BY <2>1, <2>2, FreshEmpty, WaitingAre
  <2> QED BY <1>1, <1>2, <2>3, MappedAt
<1>5. Ow' = [m \in Mutex |-> {}] /\ Wt = [m \in Mutex |-> {}] /\ Wt' = Wt
  BY <1>4 DEF Ow, Wt
<1> QED BY <1>3, <1>5, RestartStep DEF AbstractStep

LEMMA Next3 == Known /\ TypeOK' /\ [Next]_vars => OwnerInv' /\ AbstractStep
<1> SUFFICES ASSUME Known, TypeOK', [Next]_vars PROVE OwnerInv' /\ AbstractStep
  OBVIOUS
<1>1. ASSUME NEW p \in Proc, Step(p) PROVE OwnerInv' /\ AbstractStep
  BY <1>1, HandleLockCmd3, HandleUnlockCmd3, HandleWrite3, Read3 DEF Step, HandleCmd
<1>2. CASE NextRound
  BY <1>2, NextRound3
<1>3. CASE UNCHANGED vars
  <2>1. UNCHANGED <<pc, cmd, resp, held, lockStruct>>
    BY <1>3 DEF vars, clientVars
  <2>2. \A q \in Proc, n \in Mutex : Owns(q, n)' <=> Owns(q, n)
    BY <2>1 DEF Owns
  <2> QED BY <2>1, <2>2, SameOwners DEF Known
<1> QED BY <1>1, <1>2, <1>3 DEF Next, Stop

LEMMA OwnersAgree == Spec /\ []Disciplined => []OwnerInv /\ [][Abstract!Next]_(Abstract!vars)
<1>1. Init => OwnerInv
  BY Init3
<1>2. TypeOK /\ TypeOK' /\ NoCommandForgotten /\ Disciplined /\ OwnerInv /\ [Next]_vars
        => OwnerInv' /\ [Abstract!Next]_(Abstract!vars)
  BY Next3 DEF Known, AbstractStep
<1> QED BY <1>1, <1>2, TypeCorrect, NoCommandLost, PTL DEF Spec

\* If no process unlocks a mutex it does not hold, no two processes hold the
\* same mutex, in any round, with or without delay information and whatever
\* order that information gives.
THEOREM Exclusion == Spec /\ []Disciplined => []MutualExclusion
<1>1. OwnerInv /\ TypeOK => MutualExclusion
  <2> SUFFICES ASSUME OwnerInv, TypeOK, NEW p \in Proc, NEW q \in Proc, p # q,
                      NEW m \in held[p] \cap held[q]
               PROVE  FALSE
    BY DEF MutualExclusion
  <2>1. m \in Mutex /\ Owns(p, m) /\ Owns(q, m)
    BY DEF TypeOK, Owns
  <2>2. lockStruct[m].last = p /\ lockStruct[m].last = q
    BY <2>1 DEF OwnerInv, LockedBy
  <2> QED BY <2>2
<1> QED BY <1>1, OwnersAgree, TypeCorrect, PTL

\* For such processes the manager implements the abstract mutex.
THEOREM Refinement == Spec /\ []Disciplined => ImplementsLock
<1>1. Init => Abstract!Init
  BY Init3
<1> QED BY <1>1, OwnersAgree, PTL DEF Spec, ImplementsLock, Abstract!Spec

-----------------------------------------------------------------------------
(* The timing mutex follows the functional mutex.                          *)

\* p has been granted m, or is about to be, and its WRITE(LOCK) is still to be
\* answered.
Entering(p, m) ==
  /\ cmd[p] = [op |-> "LOCK", dst |-> m]
  /\ pc[p] \in {"result", "write"} \/ (pc[p] = "sync" /\ resp[p] = 0)

\* The timing mutex of m, seen from p: it belongs to p from the WRITE(LOCK) to
\* the WRITE(UNLOCK) of p, and only the owner of m is parked for it.
TimingAt(p, m) ==
  LET s == lockTiming[m]
  IN  /\ LockedBy(s, p) => Owns(p, m) \/ Releasing(p, m)
      /\ Releasing(p, m) => LockedBy(s, p) /\ m \notin held[p]
      /\ Owns(p, m) => Entering(p, m) \/ LockedBy(s, p)
      /\ hasLockCmd(s, p) => Owns(p, m) /\ s.locked /\ s.last # p
      /\ cmd[p] = [op |-> "LOCK", dst |-> m] /\ pc[p] \in {"write", "sync"} => m \in held[p]

TimingInv ==
  /\ \A m \in Mutex : lockTiming[m].locked => lockTiming[m].last \in Proc
  /\ \A p \in Proc, m \in Mutex : TimingAt(p, m)

LEMMA Init4 == Init => TimingInv
<1> SUFFICES ASSUME Init PROVE TimingInv
  OBVIOUS
<1>1. /\ \A p \in Proc : pc[p] = "run" /\ held[p] = {}
      /\ \A m \in Mutex : lockTiming[m] = FreshLock
  BY DEF Init
<1> QED BY <1>1, FreshEmpty DEF TimingInv, TimingAt, LockedBy, Releasing, Owns

\* A process and a timing mutex that a step leaves alone.
LEMMA TimingSame ==
  ASSUME NEW q \in Proc, NEW n \in Mutex, TimingAt(q, n),
         lockTiming'[n] = lockTiming[n],
         pc'[q] = pc[q], cmd'[q] = cmd[q], resp'[q] = resp[q], held'[q] = held[q]
  PROVE  TimingAt(q, n)'
BY DEF TimingAt, LockedBy, Releasing, Owns, Entering, hasLockCmd

\* Only one process owns a mutex.
LEMMA OneOwner ==
  ASSUME OwnerInv, NEW m \in Mutex, NEW p \in Proc, NEW q \in Proc, Owns(p, m), Owns(q, m)
  PROVE  p = q
BY DEF OwnerInv, LockedBy

LEMMA HandleLockCmd4 ==
  ASSUME Known, TimingInv, NEW p \in Proc, NEW m \in Mutex, HandleLockCmd(p, m)
  PROVE  TimingInv'
<1>1. /\ pc[p] = "run"
      /\ pc'[p] = "result" /\ cmd'[p] = [op |-> "LOCK", dst |-> m]
      /\ \A q \in Proc : q # p => pc'[q] = pc[q] /\ cmd'[q] = cmd[q]
      /\ held' = held /\ lockTiming' = lockTiming
  BY IssueEffect DEF HandleLockCmd, Op, Known
<1>2. \A n \in Mutex : ~ hasLockCmd(lockTiming[n], p)
  BY <1>1, NotBlocked DEF Known
<1>3. \A q \in Proc : q # p => resp'[q] = resp[q]
  BY DEF HandleLockCmd, Answer
<1>4. ASSUME NEW n \in Mutex PROVE TimingAt(p, n)'
  <2>1. TimingAt(p, n)
    BY DEF TimingInv
  <2>2. n = m => Entering(p, n)'
    BY <1>1 DEF Entering
  <2>3. ~ Entering(p, n) /\ ~ Releasing(p, n) /\ ~ Releasing(p, n)'
    BY <1>1 DEF Entering, Releasing
  <2>4. n \in held[p] <=> Owns(p, n)
    BY <1>1 DEF Owns
  <2>5. Owns(p, n)' => n = m \/ Owns(p, n)
    BY <1>1 DEF Owns
  <2>6. Owns(p, n) => Owns(p, n)'
    BY <1>1, <2>4 DEF Owns
  <2> QED BY <1>1, <1>2, <2>1, <2>2, <2>3, <2>5, <2>6 DEF TimingAt, LockedBy
<1>5. ASSUME NEW q \in Proc, NEW n \in Mutex, q # p PROVE TimingAt(q, n)'
  BY <1>1, <1>3, <1>5, TimingSame DEF TimingInv
<1> QED BY <1>1, <1>4, <1>5 DEF TimingInv

LEMMA HandleUnlockCmd4 ==
  ASSUME Known, TimingInv, NEW p \in Proc, NEW m \in Mutex, HandleUnlockCmd(p, m)
  PROVE  TimingInv'
<1> DEFINE order == CheckedOrder(p, "UNLOCK", m)
<1>1. /\ pc[p] = "run" /\ m \in held[p]
      /\ pc'[p] = "result" /\ cmd'[p] = [op |-> "UNLOCK", dst |-> m]
      /\ \A q \in Proc : q # p => pc'[q] = pc[q] /\ cmd'[q] = cmd[q] /\ held'[q] = held[q]
      /\ held'[p] = held[p] \ {m} /\ lockTiming' = lockTiming
  <2>1. /\ Issue(p, "UNLOCK", m) /\ held' = [held EXCEPT ![p] = held[p] \ {m}]
        /\ lockTiming' = lockTiming
    BY DEF HandleUnlockCmd
  <2>2. m \in held[p]
    BY <2>1 DEF Known, Disciplined, Issue
  <2>3. held \in [Proc -> SUBSET Mutex]
    BY DEF Known, TypeOK
  <2> QED BY <2>1, <2>2, <2>3, IssueEffect DEF Op, Known
<1>2. \A n \in Mutex : ~ hasLockCmd(lockTiming[n], p)
  BY <1>1, NotBlocked DEF Known
<1>3. ASSUME NEW n \in Mutex PROVE TimingAt(p, n)'
  <2>1. TimingAt(p, n)
    BY DEF TimingInv
  <2>2. ~ Entering(p, n) /\ ~ Releasing(p, n) /\ (Releasing(p, n)' <=> n = m)
    BY <1>1 DEF Entering, Releasing
  <2>3. Owns(p, n) <=> n \in held[p]
    BY <1>1 DEF Owns
  <2>4. Owns(p, n)' <=> n \in held[p] /\ n # m
    BY <1>1 DEF Owns
  <2> QED BY <1>1, <1>2, <2>1, <2>2, <2>3, <2>4 DEF TimingAt, LockedBy
\* The process whose parked LOCK is served, if there is one.
<1>4. ASSUME NEW q \in Proc, q # p, resp'[q] # resp[q]
      PROVE  pc[q] = "result" /\ resp[q] = 0 /\ \E n \in Mutex : cmd[q] = [op |-> "LOCK", dst |-> n]
  <2>1. PICK r \in NextOwners(order, m) : Answer({p, r})
    BY <1>4 DEF HandleUnlockCmd, Answer
  <2>2. q = r
    BY <1>4, <2>1 DEF Answer
  <2>3. lockStruct[m] \in LockState
    BY DEF Known, TypeOK
  <2>4. hasLockCmd(lockStruct[m], q)
    BY <2>2, <2>3, NextOwnersParked
  <2> QED BY <2>4, Parts DEF Known, ParkedOnStruct, Blocked
<1>5. ASSUME NEW q \in Proc, NEW n \in Mutex, q # p PROVE TimingAt(q, n)'
  <2>1. TimingAt(q, n)
    BY DEF TimingInv
  <2>2. CASE resp'[q] = resp[q]
    BY <1>1, <1>5, <2>1, <2>2, TimingSame
  <2>3. CASE resp'[q] # resp[q]
    <3>1. PICK k \in Mutex : /\ pc[q] = "result" /\ resp[q] = 0
                             /\ cmd[q] = [op |-> "LOCK", dst |-> k]
      BY <1>4, <1>5, <2>3
    <3>2. Owns(q, n) <=> n \in held[q]
      BY <3>1 DEF Owns
    <3>3. /\ n \in held[q] => Owns(q, n)'
          /\ Owns(q, n)' => n \in held[q] \/ n = k
      BY <1>1, <1>5, <3>1 DEF Owns
    <3>4. ~ Releasing(q, n) /\ ~ Releasing(q, n)'
      BY <1>1, <1>5, <3>1 DEF Releasing
    <3>5. (Entering(q, n)' <=> n = k) /\ (Entering(q, n) <=> n = k)
      BY <1>1, <1>5, <3>1 DEF Entering
    <3> QED BY <1>1, <1>5, <2>1, <3>1, <3>2, <3>3, <3>4, <3>5 DEF TimingAt, LockedBy, hasLockCmd
  <2> QED BY <2>2, <2>3
<1> QED BY <1>1, <1>3, <1>5 DEF TimingInv

LEMMA HandleLockWrite4 ==
  ASSUME Known, TimingInv, NEW p \in Proc, NEW m \in Mutex, HandleLockWrite(p, m)
  PROVE  TimingInv'
<1> DEFINE s == lockTiming[m]
<1>1. /\ pc[p] = "write" /\ cmd[p] = [op |-> "LOCK", dst |-> m]
      /\ pc'[p] = "sync" /\ cmd' = cmd /\ held' = held
      /\ \A q \in Proc : q # p => pc'[q] = pc[q]
  BY IssueWriteEffect DEF HandleLockWrite, IssueWrite, Op, Known
<1>2. \A n \in Mutex : ~ hasLockCmd(lockTiming[n], p)
  BY <1>1, NotBlocked DEF Known
<1>3. \A q \in Proc : q # p => resp'[q] = resp[q]
  BY DEF HandleLockWrite, Answer
<1>4. resp[p] = 0 /\ resp \in [Proc -> Nat] /\ s \in LockState /\ lockTiming \in [Mutex -> LockState]
  BY <1>1, NotBlocked DEF Known, TypeOK
<1>5. m \in held[p] /\ Owns(p, m) /\ Owns(p, m)' /\ \A q \in Proc : q # p => ~ Owns(q, m)
  <2>1. m \in held[p]
    BY <1>1 DEF TimingInv, TimingAt
  <2> QED BY <1>1, <2>1, OneOwner DEF Known, Owns
<1>6. \A n \in Mutex : n # m => lockTiming'[n] = lockTiming[n]
  BY <1>4 DEF HandleLockWrite
<1>7. ASSUME NEW n \in Mutex, n # m PROVE TimingAt(p, n)'
  <2>1. TimingAt(p, n)
    BY DEF TimingInv
  <2>2. ~ Releasing(p, n) /\ ~ Releasing(p, n)' /\ ~ Entering(p, n) /\ (Owns(p, n)' <=> Owns(p, n))
    BY <1>1, <1>7 DEF Releasing, Entering, Owns
  <2> QED BY <1>1, <1>2, <1>6, <1>7, <2>1, <2>2 DEF TimingAt, LockedBy, hasLockCmd
<1>8. ASSUME NEW q \in Proc, NEW n \in Mutex, q # p, n # m PROVE TimingAt(q, n)'
  BY <1>1, <1>3, <1>6, <1>8, TimingSame DEF TimingInv
<1>9. ASSUME lockTiming'[m].locked => lockTiming'[m].last \in Proc,
             \A q \in Proc : TimingAt(q, m)'
      PROVE  TimingInv'
  BY <1>6, <1>7, <1>8, <1>9 DEF TimingInv
<1>10. ~ Releasing(p, m)'
  BY <1>1 DEF Releasing
<1>11. CASE LockedBy(s, p) /\ Answer({p}) /\ UNCHANGED lockTiming
  <2>1. TimingAt(p, m)'
    BY <1>1, <1>2, <1>5, <1>10, <1>11 DEF TimingAt, LockedBy, hasLockCmd
  <2>2. \A q \in Proc : q # p => TimingAt(q, m)'
    BY <1>1, <1>3, <1>11, TimingSame DEF TimingInv
  <2> QED BY <1>9, <1>11, <2>1, <2>2 DEF TimingInv
<1>12. CASE /\ s.locked /\ s.last # p /\ UNCHANGED resp
            /\ lockTiming' = [lockTiming EXCEPT ![m] = insertLockCmd(s, p)]
  <2>1. IsInjective(s.queue)
    BY Parts DEF Known, ParkedOnTiming
  <2>2. lockTiming'[m] = insertLockCmd(s, p)
    BY <1>4, <1>12
  <2>3. /\ lockTiming'[m].locked /\ lockTiming'[m].last = s.last
        /\ \A q \in Proc : hasLockCmd(lockTiming'[m], q) <=> hasLockCmd(s, q) \/ q = p
    BY <1>2, <1>4, <1>12, <2>1, <2>2, Park
  <2>4. TimingAt(p, m)'
    <3>1. Entering(p, m)'
      BY <1>1, <1>4, <1>12 DEF Entering
    <3> QED BY <1>1, <1>5, <1>10, <1>12, <2>3, <3>1 DEF TimingAt, LockedBy
  <2>5. ASSUME NEW q \in Proc, q # p PROVE TimingAt(q, m)'
    <3>1. TimingAt(q, m)
      BY DEF TimingInv
    <3>2. /\ Releasing(q, m)' <=> Releasing(q, m)
          /\ Owns(q, m)' <=> Owns(q, m)
          /\ Entering(q, m)' <=> Entering(q, m)
      BY <1>1, <1>3, <2>5 DEF Releasing, Owns, Entering
    <3> QED BY <1>1, <1>12, <2>3, <2>5, <3>1, <3>2 DEF TimingAt, LockedBy
  <2>6. s.last \in Proc
    BY <1>12 DEF TimingInv
  <2> QED BY <1>9, <2>3, <2>4, <2>5, <2>6
<1>13. CASE ~ s.locked /\ Answer({p}) /\ lockTiming' = [lockTiming EXCEPT ![m] = Lock(s, p)]
  <2>1. /\ lockTiming'[m].locked /\ lockTiming'[m].last = p
        /\ lockTiming'[m].queue = s.queue
    BY <1>4, <1>13 DEF Lock, LockState
  <2>2. TimingAt(p, m)'
    BY <1>1, <1>2, <1>5, <1>10, <2>1 DEF TimingAt, LockedBy, hasLockCmd
  <2>3. ASSUME NEW q \in Proc, q # p PROVE TimingAt(q, m)'
    <3>1. TimingAt(q, m)
      BY DEF TimingInv
    <3>2. ~ LockedBy(s, q) /\ ~ Releasing(q, m) /\ ~ Owns(q, m) /\ ~ hasLockCmd(s, q)
      BY <1>5, <1>13, <2>3, <3>1 DEF TimingAt, LockedBy
    <3>3. ~ Releasing(q, m)' /\ ~ Owns(q, m)'
      BY <1>1, <1>3, <2>3, <3>2 DEF Releasing, Owns
    <3> QED BY <1>1, <2>1, <2>3, <3>1, <3>2, <3>3 DEF TimingAt, LockedBy, hasLockCmd
  <2> QED BY <1>9, <2>1, <2>2, <2>3
<1> QED BY <1>11, <1>12, <1>13 DEF HandleLockWrite

LEMMA HandleUnlockWrite4 ==
  ASSUME Known, TimingInv, NEW p \in Proc, NEW m \in Mutex, HandleUnlockWrite(p, m)
  PROVE  TimingInv'
<1> DEFINE s == lockTiming[m]
           h == Head(s.queue)
<1>1. /\ pc[p] = "write" /\ cmd[p] = [op |-> "UNLOCK", dst |-> m]
      /\ pc'[p] = "sync" /\ cmd' = cmd /\ held' = held
      /\ \A q \in Proc : q # p => pc'[q] = pc[q]
  BY IssueWriteEffect DEF HandleUnlockWrite, IssueWrite, Op, Known
<1>2. \A n \in Mutex : ~ hasLockCmd(lockTiming[n], p)
  BY <1>1, NotBlocked DEF Known
<1>3. resp \in [Proc -> Nat] /\ s \in LockState /\ lockTiming \in [Mutex -> LockState]
  BY DEF Known, TypeOK
<1>4. Releasing(p, m) /\ LockedBy(s, p) /\ m \notin held[p]
  BY <1>1 DEF TimingInv, TimingAt, Releasing
<1>5. \A n \in Mutex : n # m => lockTiming'[n] = lockTiming[n]
  BY <1>3 DEF HandleUnlockWrite
<1>6. ASSUME NEW n \in Mutex PROVE ~ Releasing(p, n)' /\ (Owns(p, n)' <=> n \in held[p])
  BY <1>1 DEF Releasing, Owns
<1>7. ASSUME NEW n \in Mutex, n # m PROVE TimingAt(p, n)'
  <2>1. TimingAt(p, n)
    BY DEF TimingInv
  <2>2. ~ Releasing(p, n) /\ ~ Entering(p, n) /\ (Owns(p, n) <=> n \in held[p])
    BY <1>1, <1>7 DEF Releasing, Entering, Owns
  <2> QED BY <1>1, <1>2, <1>5, <1>6, <1>7, <2>1, <2>2 DEF TimingAt, LockedBy, hasLockCmd
<1>8. ASSUME NEW q \in Proc, q # p PROVE ~ Releasing(q, m) /\ ~ Releasing(q, m)'
  <2>1. ~ Releasing(q, m)
    BY <1>4, <1>8 DEF TimingInv, TimingAt, LockedBy
  <2> QED BY <1>1, <1>8, <2>1 DEF Releasing
<1>9. CASE Answer({p}) /\ ~ Overtaken(s) /\ lockTiming' = [lockTiming EXCEPT ![m] = Unlock(s, p)]
  <2>1. \A q \in Proc : q # p => resp'[q] = resp[q]
    BY <1>9 DEF Answer
  <2>2. ~ lockTiming'[m].locked /\ lockTiming'[m].queue = <<>>
    BY <1>3, <1>4, <1>9 DEF Unlock, LockState, LockedBy, Overtaken
  <2>3. \A q \in Proc : ~ LockedBy(lockTiming'[m], q) /\ ~ hasLockCmd(lockTiming'[m], q)
    BY <2>2 DEF LockedBy, hasLockCmd
  <2>4. TimingAt(p, m)'
    BY <1>1, <1>4, <1>6, <2>3 DEF TimingAt
  <2>5. ASSUME NEW q \in Proc, q # p PROVE TimingAt(q, m)'
    <3>1. TimingAt(q, m)
      BY DEF TimingInv
    <3>2. Owns(q, m)' <=> Owns(q, m)
      BY <1>1, <2>1, <2>5 DEF Owns
    <3>3. Entering(q, m)' <=> Entering(q, m)
      BY <1>1, <2>1, <2>5 DEF Entering
    <3>4. ~ LockedBy(s, q)
      BY <1>4, <2>5 DEF LockedBy
    <3> QED BY <1>1, <1>8, <2>3, <2>5, <3>1, <3>2, <3>3, <3>4 DEF TimingAt
  <2>6. \A q \in Proc, n \in Mutex : q # p /\ n # m => TimingAt(q, n)'
    BY <1>1, <1>5, <2>1, TimingSame DEF TimingInv
  <2> QED BY <1>5, <1>7, <2>2, <2>4, <2>5, <2>6 DEF TimingInv
<1>10. CASE /\ s.locked /\ Overtaken(s) /\ Answer({p, h})
            /\ lockTiming' = [lockTiming EXCEPT ![m] = Lock(popLockCmd(Unlock(s, p), h), h)]
  <2>1. PICK q \in Proc :
          /\ hasLockCmd(s, q) /\ Answer({p, q})
          /\ lockTiming' = [lockTiming EXCEPT ![m] = Lock(popLockCmd(Unlock(s, p), q), q)]
    BY <1>3, <1>10, HeadParked DEF Overtaken
  <2>2. /\ q # p /\ pc[q] = "sync" /\ resp[q] = 0 /\ cmd[q] = [op |-> "LOCK", dst |-> m]
        /\ m \in held[q]
    <3>1. pc[q] = "sync" /\ resp[q] = 0 /\ cmd[q] = [op |-> "LOCK", dst |-> m]
      BY <2>1, Parts DEF Known, ParkedOnTiming, Blocked
    <3> QED BY <1>2, <2>1, <3>1 DEF TimingInv, TimingAt
  <2>3. resp'[q] = 1 /\ \A r \in Proc : r \notin {p, q} => resp'[r] = resp[r]
    BY <1>3, <2>1, <2>2 DEF Answer
  <2>4. IsInjective(s.queue)
    BY Parts DEF Known, ParkedOnTiming
  <2>5. /\ \A r \in Proc : hasLockCmd(lockTiming'[m], r) <=> hasLockCmd(s, r) /\ r # q
        /\ lockTiming'[m].locked /\ lockTiming'[m].last = q
    <3>1. lockTiming'[m] = Lock(popLockCmd(Unlock(s, p), q), q)
      BY <1>3, <2>1
    <3> HIDE DEF s
    <3> QED BY <1>3, <1>10, <2>1, <2>4, <3>1, HandOver
  <2>6. \A r \in Proc : Owns(r, m) => r = q
    BY <2>1, <2>2, OneOwner DEF Known, Owns
  <2>7. \A r \in Proc : ~ hasLockCmd(lockTiming'[m], r)
    BY <2>5, <2>6 DEF TimingInv, TimingAt
  <2>8. TimingAt(p, m)'
    BY <1>1, <1>4, <1>6, <2>2, <2>5, <2>7 DEF TimingAt, LockedBy
  <2>9. TimingAt(q, m)'
    BY <1>1, <1>8, <2>1, <2>2, <2>5, <2>7 DEF TimingAt, LockedBy, Owns
  <2>10. ASSUME NEW r \in Proc, r \notin {p, q} PROVE TimingAt(r, m)'
    <3>1. TimingAt(r, m)
      BY DEF TimingInv
    <3>2. ~ Owns(r, m) /\ ~ Owns(r, m)'
      BY <1>1, <2>3, <2>6, <2>10 DEF Owns
    <3> QED BY <1>1, <1>8, <2>5, <2>7, <2>10, <3>1, <3>2 DEF TimingAt, LockedBy
  <2>11. ASSUME NEW n \in Mutex, n # m PROVE TimingAt(q, n)'
    <3>1. TimingAt(q, n)
      BY <2>1 DEF TimingInv
    <3>2. /\ ~ Releasing(q, n) /\ ~ Releasing(q, n)' /\ ~ Entering(q, n)
          /\ Owns(q, n)' <=> Owns(q, n)
      BY <1>1, <2>1, <2>2, <2>11 DEF Releasing, Entering, Owns
    <3>3. cmd'[q] # [op |-> "LOCK", dst |-> n]
      BY <1>1, <2>2, <2>11
    <3> QED BY <1>1, <1>5, <2>11, <3>1, <3>2, <3>3 DEF TimingAt, LockedBy, hasLockCmd
  <2>12. \A r \in Proc, n \in Mutex : r \notin {p, q} /\ n # m => TimingAt(r, n)'
    BY <1>1, <1>5, <2>3, TimingSame DEF TimingInv
  <2>13. ASSUME NEW r \in Proc, NEW n \in Mutex PROVE TimingAt(r, n)'
    BY <1>7, <2>8, <2>9, <2>10, <2>11, <2>12
  <2> QED BY <1>5, <2>1, <2>5, <2>13 DEF TimingInv
<1> QED BY <1>4, <1>9, <1>10 DEF HandleUnlockWrite, LockedBy

LEMMA Read4 ==
  ASSUME Known, TimingInv, NEW p \in Proc, ReadResult(p) \/ ReadSync(p)
  PROVE  TimingInv'
<1>1. resp[p] \in Nat /\ resp[p] > 0 /\ resp[p] <= 1
  BY Parts DEF Known, TypeOK, Answers, ReadResult, ReadSync
<1>2. /\ cmd' = cmd /\ lockTiming' = lockTiming
      /\ \A q \in Proc : q # p => pc'[q] = pc[q] /\ resp'[q] = resp[q] /\ held'[q] = held[q]
  BY DEF Known, TypeOK, ReadResult, ReadSync
<1>3. \A q \in Proc, n \in Mutex : q # p => TimingAt(q, n)'
  BY <1>2, TimingSame DEF TimingInv
<1>4. \A n \in Mutex : ~ hasLockCmd(lockTiming[n], p)
  <2>1. ParkedOnTiming
    BY Parts DEF Known
  <2>2. resp[p] # 0
    BY <1>1
  <2> QED BY <2>1, <2>2 DEF ParkedOnTiming, Blocked
<1>5. CASE ReadResult(p)
  <2>1. /\ pc[p] = "result" /\ pc'[p] = "write" /\ resp[p] = 1
        /\ held'[p] = IF cmd[p].op = "LOCK" THEN held[p] \cup {cmd[p].dst} ELSE held[p]
    BY <1>1, <1>5 DEF Known, TypeOK, ReadResult
  <2>2. cmd[p] \in [op : Op, dst : Mutex]
    BY DEF Known, TypeOK, Cmd
  <2>3. ASSUME NEW n \in Mutex PROVE TimingAt(p, n)'
    <3> DEFINE locks == cmd[p] = [op |-> "LOCK", dst |-> n]
    <3>1. TimingAt(p, n)
      BY DEF TimingInv
    <3>2. n \in held'[p] <=> n \in held[p] \/ locks
      BY <2>1, <2>2
    <3>3. Owns(p, n) <=> n \in held[p] \/ locks
      BY <2>1 DEF Owns
    <3>4. Owns(p, n)' <=> n \in held'[p]
      BY <2>1 DEF Owns
    <3>5. (Releasing(p, n)' <=> Releasing(p, n)) /\ (Releasing(p, n) => ~ locks)
      BY <1>2, <2>1 DEF Releasing
    <3>6. Entering(p, n)' <=> Entering(p, n)
      BY <1>2, <2>1 DEF Entering
    <3> QED BY <1>2, <1>4, <3>1, <3>2, <3>3, <3>4, <3>5, <3>6 DEF TimingAt
  <2> QED BY <1>2, <1>3, <2>3 DEF TimingInv
<1>6. CASE ReadSync(p)
  <2>1. pc[p] = "sync" /\ pc'[p] = "run" /\ resp[p] = 1 /\ held' = held
    BY <1>1, <1>6 DEF Known, TypeOK, ReadSync
  <2>2. ASSUME NEW n \in Mutex PROVE TimingAt(p, n)'
    <3>1. TimingAt(p, n)
      BY DEF TimingInv
    <3>2. /\ Owns(p, n)' <=> Owns(p, n)
          /\ ~ Releasing(p, n) /\ ~ Releasing(p, n)' /\ ~ Entering(p, n)
      BY <2>1 DEF Owns, Releasing, Entering
    <3> QED BY <1>2, <1>4, <2>1, <3>1, <3>2 DEF TimingAt
  <2> QED BY <1>2, <1>3, <2>2 DEF TimingInv
<1> QED BY <1>5, <1>6

LEMMA NextRound4 ==
  ASSUME NextRound
  PROVE  TimingInv'
<1>1. /\ \A p \in Proc : pc'[p] = "run" /\ held'[p] = {}
      /\ \A m \in Mutex : lockTiming'[m] = FreshLock
  BY DEF NextRound, RoundOver
<1> QED BY <1>1, FreshEmpty DEF TimingInv, TimingAt, LockedBy, Releasing, Owns

LEMMA Next4 == Known /\ TimingInv /\ [Next]_vars => TimingInv'
<1> SUFFICES ASSUME Known, TimingInv, [Next]_vars PROVE TimingInv'
  OBVIOUS
<1>1. ASSUME NEW p \in Proc, Step(p) PROVE TimingInv'
  BY <1>1, HandleLockCmd4, HandleUnlockCmd4, HandleLockWrite4, HandleUnlockWrite4, Read4
     DEF Step, HandleCmd
<1>2. CASE NextRound
  BY <1>2, NextRound4
<1>3. CASE UNCHANGED vars
  <2>1. UNCHANGED <<pc, cmd, resp, held, lockTiming>>
    BY <1>3 DEF vars, clientVars
  <2>2. \A q \in Proc, n \in Mutex : TimingAt(q, n)'
    BY <2>1, TimingSame DEF TimingInv
  <2> QED BY <2>1, <2>2 DEF TimingInv
<1> QED BY <1>1, <1>2, <1>3 DEF Next, Stop

LEMMA TimingAgrees == Known /\ TimingInv => TimingFollows
<1> SUFFICES ASSUME Known, TimingInv, NEW m \in Mutex
             PROVE  LET s == lockTiming[m]
                    IN  /\ s.locked =>
                             \E p \in Proc : /\ LockedBy(s, p)
                                             /\ LockedBy(lockStruct[m], p) \/ Releasing(p, m)
                        /\ s.queue # <<>> =>
                             /\ Len(s.queue) = 1
                             /\ LockedBy(lockStruct[m], Head(s.queue))
                             /\ \E p \in Proc : LockedBy(s, p) /\ Releasing(p, m)
  BY DEF TimingFollows
<1> DEFINE s == lockTiming[m]
<1>1. \A p \in Proc : Owns(p, m) <=> LockedBy(lockStruct[m], p)
  BY DEF Known, OwnerInv
<1>2. ASSUME s.locked
      PROVE  /\ s.last \in Proc /\ LockedBy(s, s.last)
             /\ LockedBy(lockStruct[m], s.last) \/ Releasing(s.last, m)
  <2>1. s.last \in Proc /\ LockedBy(s, s.last)
    BY <1>2 DEF TimingInv, LockedBy
  <2> QED BY <1>1, <2>1 DEF TimingInv, TimingAt
<1>3. s \in LockState /\ s.queue \in Seq(Proc) /\ IsInjective(s.queue)
  BY Parts DEF Known, TypeOK, LockState, ParkedOnTiming
<1>4. ASSUME NEW i \in DOMAIN s.queue
      PROVE  /\ s.queue[i] \in Proc /\ Owns(s.queue[i], m)
             /\ s.locked /\ s.last # s.queue[i]
  <2>1. s.queue[i] \in Proc /\ hasLockCmd(s, s.queue[i])
    BY <1>3 DEF hasLockCmd
  <2> QED BY <2>1 DEF TimingInv, TimingAt
<1>5. ASSUME s.queue # <<>>
      PROVE  /\ Len(s.queue) = 1
             /\ LockedBy(lockStruct[m], Head(s.queue))
             /\ LockedBy(s, s.last) /\ Releasing(s.last, m) /\ s.last \in Proc
  <2>1. 1 \in DOMAIN s.queue /\ Head(s.queue) = s.queue[1]
    BY <1>3, <1>5
  <2>2. \A i \in DOMAIN s.queue : s.queue[i] = s.queue[1]
    BY <1>4, <2>1, OneOwner DEF Known
  <2>3. \A i \in DOMAIN s.queue : i = 1
    BY <1>3, <2>1, <2>2 DEF IsInjective
  <2>4. Len(s.queue) = 1
    <3>1. Len(s.queue) \in Nat /\ DOMAIN s.queue = 1..Len(s.queue)
      BY <1>3
    <3>2. Len(s.queue) \in DOMAIN s.queue
      BY <2>1, <3>1
    <3> QED BY <2>3, <3>2
  <2>5. LockedBy(lockStruct[m], s.queue[1])
    BY <1>1, <1>4, <2>1
  <2>6. s.last \in Proc /\ LockedBy(s, s.last) /\ ~ LockedBy(lockStruct[m], s.last)
    BY <1>2, <1>4, <2>1, <2>5 DEF LockedBy
  <2> QED BY <1>2, <1>4, <2>1, <2>4, <2>5, <2>6
<1> QED BY <1>2, <1>5

\* For such processes the timing mutex belongs to the functional owner or to a
\* process whose WRITE(UNLOCK) is still to come, and only the WRITE(LOCK) of
\* the functional owner can overtake that WRITE(UNLOCK): the answer to a
\* WRITE(UNLOCK) has one command to serve at most, for any number of processes.
THEOREM TimingCorrect == Spec /\ []Disciplined => []TimingFollows
<1>1. Init => TimingInv
  BY Init4
<1>2. TypeOK /\ NoCommandForgotten /\ Disciplined /\ OwnerInv /\ TimingInv /\ [Next]_vars
        => TimingInv'
  BY Next4 DEF Known
<1>3. TypeOK /\ NoCommandForgotten /\ Disciplined /\ OwnerInv /\ TimingInv => TimingFollows
  BY TimingAgrees DEF Known
<1> QED BY <1>1, <1>2, <1>3, OwnersAgree, TypeCorrect, NoCommandLost, PTL DEF Spec
-----------------------------------------------------------------------------
(* A round that repeats the previous one uses up its delay information.    *)

lockOf(m) == [op |-> "LOCK", dst |-> m]

\* No process locks a mutex it holds.
NotReentrant ==
  \A p \in Proc :
    pc[p] = "run" /\ prog[p] # <<>> /\ Head(prog[p]).op = "LOCK" =>
      Head(prog[p]).dst \notin held[p]

\* The lock order names a process once for each of its LOCKs that is still to
\* be issued or is parked.
CountedAt(p, m) ==
  TimesIn(p, lockDelay[m]) =
    TimesIn(lockOf(m), prog[p]) + One(hasLockCmd(lockStruct[m], p))

OrderCounted ==
  /\ round = 1 => \A m \in Mutex : lockDelay[m] = <<>>
  /\ round # 1 => \A p \in Proc, m \in Mutex : CountedAt(p, m)

KnownReplay == Inv1 /\ Known /\ InStep /\ NotReentrant /\ OrderCounted

\* The numbers in CountedAt.
LEMMA CountsAre ==
  ASSUME TypeOK, NEW p \in Proc, NEW m \in Mutex
  PROVE  /\ TimesIn(p, lockDelay[m]) \in Nat /\ TimesIn(lockOf(m), prog[p]) \in Nat
         /\ One(hasLockCmd(lockStruct[m], p)) \in {0, 1}
         /\ lockDelay[m] \in Seq(Proc) /\ prog[p] \in Seq(Cmd)
<1>1. lockDelay[m] \in Seq(Proc) /\ prog[p] \in Seq(Cmd)
  BY DEF TypeOK, Program
<1>2. TimesIn(p, lockDelay[m]) \in Nat /\ TimesIn(lockOf(m), prog[p]) \in Nat
  BY <1>1, PlacesFinite
<1>3. One(hasLockCmd(lockStruct[m], p)) \in {0, 1}
  BY DEF One
<1> QED BY <1>1, <1>2, <1>3

LEMMA CountedSame ==
  ASSUME NEW q \in Proc, NEW n \in Mutex, CountedAt(q, n),
         TimesIn(q, lockDelay[n])' = TimesIn(q, lockDelay[n]),
         TimesIn(lockOf(n), prog[q])' = TimesIn(lockOf(n), prog[q]),
         hasLockCmd(lockStruct[n], q)' <=> hasLockCmd(lockStruct[n], q)
  PROVE  CountedAt(q, n)'
<1>1. One(hasLockCmd(lockStruct[n], q))' = One(hasLockCmd(lockStruct[n], q))
  BY DEF One
<1> QED BY <1>1 DEF CountedAt

\* Popping the front of the order of m.
LEMMA PopCounts ==
  ASSUME TypeOK, NEW p \in Proc, NEW m \in Mutex, TimesIn(p, lockDelay[m]) # 0,
         HasAddr(lockDelay, m) => FrontSrc(lockDelay, m) = p,
         lockDelay' = PopFront(lockDelay, m)
  PROVE  /\ TimesIn(p, lockDelay[m]) = TimesIn(p, lockDelay'[m]) + 1
         /\ \A q \in Proc : q # p => TimesIn(q, lockDelay'[m]) = TimesIn(q, lockDelay[m])
         /\ \A q \in Proc : TimesIn(q, lockDelay'[m]) \in Nat
<1>1. lockDelay \in [Mutex -> Seq(Proc)] /\ lockDelay[m] \in Seq(Proc)
  BY DEF TypeOK
<1>2. lockDelay[m] # <<>>
  BY TimesEmpty
<1>3. Head(lockDelay[m]) = p /\ lockDelay'[m] = Tail(lockDelay[m])
  BY <1>1, <1>2 DEF HasAddr, FrontSrc, PopFront
<1>4. \A q \in Proc : /\ TimesIn(q, lockDelay[m]) = TimesIn(q, lockDelay'[m]) + One(p = q)
                      /\ TimesIn(q, lockDelay'[m]) \in Nat
  <2>1. Tail(lockDelay[m]) \in Seq(Proc)
    BY <1>1, <1>2
  <2> TAKE q \in Proc
  <2>2. TimesIn(q, lockDelay[m]) = TimesIn(q, Tail(lockDelay[m])) + One(Head(lockDelay[m]) = q)
    BY <1>1, <1>2, TimesTail
  <2>3. TimesIn(q, Tail(lockDelay[m])) \in Nat
    BY <2>1, PlacesFinite
  <2> QED BY <1>3, <2>2, <2>3
<1>5. One(p = p) = 1 /\ \A q \in Proc : q # p => One(p = q) = 0
  BY DEF One
<1> QED BY <1>4, <1>5

LEMMA HandleLockCmd6 ==
  ASSUME KnownReplay, TypeOK', NEW p \in Proc, NEW m \in Mutex, HandleLockCmd(p, m)
  PROVE  OrderCounted'
<1> DEFINE s == lockStruct[m]
<1>1. TypeOK /\ NoCommandForgotten /\ OwnerInv /\ Recorded /\ NotReentrant /\ OrderCounted
  BY InStepRecorded DEF KnownReplay, Known
<1>2. /\ pc[p] = "run" /\ prog[p] # <<>> /\ Head(prog[p]) = lockOf(m) /\ round' = round
      /\ prog'[p] = Tail(prog[p]) /\ \A q \in Proc : q # p => prog'[q] = prog[q]
  BY <1>1 DEF HandleLockCmd, Issue, TypeOK, Program, lockOf
<1>3. /\ s \in LockState /\ lockStruct \in [Mutex -> LockState]
      /\ IsInjective(s.queue) /\ ~ hasLockCmd(s, p)
  <2>1. s \in LockState /\ lockStruct \in [Mutex -> LockState]
    BY <1>1 DEF TypeOK
  <2>2. IsInjective(s.queue)
    BY <1>1, Parts DEF ParkedOnStruct
  <2> QED BY <1>1, <1>2, <2>1, <2>2, NotBlocked
<1>4. ~ LockedBy(s, p)
  <2>1. m \notin held[p]
    BY <1>1, <1>2 DEF NotReentrant, lockOf
  <2>2. ~ Owns(p, m)
    BY <1>2, <2>1 DEF Owns
  <2> QED BY <1>1, <2>2 DEF OwnerInv
<1>5. /\ CheckedOrder(p, "LOCK", m) = lockDelay
      /\ \A n \in Mutex : n # m => lockStruct'[n] = lockStruct[n] /\ lockDelay'[n] = lockDelay[n]
  BY <1>1, OthersKept
<1>6. CASE round = 1
  <2>1. lockDelay' = lockDelay \/ lockDelay' = PopFront(lockDelay, m)
    BY <1>5 DEF HandleLockCmd
  <2>2. lockDelay' = lockDelay
    BY <1>1, <1>6, <2>1 DEF OrderCounted, PopFront, HasAddr
  <2> QED BY <1>1, <1>2, <1>6, <2>2 DEF OrderCounted
<1>7. CASE round # 1
  <2>1. \A q \in Proc, n \in Mutex : CountedAt(q, n)
    BY <1>1, <1>7 DEF OrderCounted
  <2>2. /\ TimesIn(lockOf(m), prog[p]) = TimesIn(lockOf(m), prog'[p]) + 1
        /\ \A n \in Mutex : n # m => TimesIn(lockOf(n), prog[p]) = TimesIn(lockOf(n), prog'[p])
        /\ TimesIn(lockOf(m), prog'[p]) \in Nat
    <3>1. prog[p] \in Seq(Cmd) /\ prog'[p] \in Seq(Cmd)
      BY <1>1 DEF TypeOK, Program
    <3>2. \A n \in Mutex : TimesIn(lockOf(n), prog[p]) = TimesIn(lockOf(n), prog'[p]) + One(lockOf(m) = lockOf(n))
      BY <1>2, <3>1, TimesTail
    <3>3. One(lockOf(m) = lockOf(m)) = 1 /\ \A n \in Mutex : n # m => One(lockOf(m) = lockOf(n)) = 0
      BY DEF One, lockOf
    <3>4. \A n \in Mutex : TimesIn(lockOf(n), prog'[p]) \in Nat
      BY <3>1, PlacesFinite
    <3> QED BY <3>2, <3>3, <3>4
  <2>3. ASSUME NEW q \in Proc, NEW n \in Mutex, n # m PROVE CountedAt(q, n)'
    <3>1. TimesIn(lockOf(n), prog'[q]) = TimesIn(lockOf(n), prog[q])
      BY <1>2, <2>2, <2>3
    <3> QED BY <1>5, <2>1, <2>3, <3>1, CountedSame
  <2>4. TimesIn(p, lockDelay[m]) = TimesIn(lockOf(m), prog'[p]) + 1
    <3>1. One(hasLockCmd(s, p)) = 0
      BY <1>3 DEF One
    <3> QED BY <2>1, <2>2, <3>1 DEF CountedAt
  <2>5. ASSUME \A q \in Proc : CountedAt(q, m)' PROVE OrderCounted'
    BY <1>2, <1>7, <2>3, <2>5 DEF OrderCounted
  <2>6. CASE /\ ~ s.locked /\ Admits(lockDelay, p, m) /\ lockDelay' = PopFront(lockDelay, m)
             /\ lockStruct' = [lockStruct EXCEPT ![m] = Lock(s, p)]
    <3>1. lockStruct'[m].queue = s.queue
      BY <1>3, <2>6, QueueKept
    <3>2. \A q \in Proc : hasLockCmd(lockStruct'[m], q) <=> hasLockCmd(s, q)
      BY <3>1 DEF hasLockCmd
    <3>3. TimesIn(p, lockDelay[m]) # 0
      BY <2>2, <2>4
    <3>4. /\ TimesIn(p, lockDelay[m]) = TimesIn(p, lockDelay'[m]) + 1
          /\ \A q \in Proc : q # p => TimesIn(q, lockDelay'[m]) = TimesIn(q, lockDelay[m])
          /\ TimesIn(p, lockDelay'[m]) \in Nat
      BY <1>1, <2>6, <3>3, PopCounts DEF Admits
    <3>5. CountedAt(p, m)'
      <4>1. One(hasLockCmd(lockStruct'[m], p)) = 0
        BY <1>3, <3>2 DEF One
      <4>2. TimesIn(p, lockDelay'[m]) = TimesIn(lockOf(m), prog'[p]) + 0
        BY <2>2, <2>4, <3>4
      <4> QED BY <4>1, <4>2 DEF CountedAt
    <3>6. \A q \in Proc : q # p => CountedAt(q, m)'
      BY <1>2, <2>1, <3>2, <3>4, CountedSame
    <3> QED BY <2>5, <3>5, <3>6
  <2>7. CASE /\ lockDelay' = lockDelay
             /\ lockStruct' = [lockStruct EXCEPT ![m] = insertLockCmd(s, p)]
    <3>1. lockStruct'[m] = insertLockCmd(s, p)
      BY <1>3, <2>7
    <3>2. \A q \in Proc : hasLockCmd(lockStruct'[m], q) <=> hasLockCmd(s, q) \/ q = p
      BY <1>3, <3>1, Park
    <3>3. CountedAt(p, m)'
      <4>1. One(hasLockCmd(lockStruct'[m], p)) = 1
        BY <3>2 DEF One
      <4> QED BY <2>4, <2>7, <4>1 DEF CountedAt
    <3>4. \A q \in Proc : q # p => CountedAt(q, m)'
      BY <1>2, <2>1, <2>7, <3>2, CountedSame
    <3> QED BY <2>5, <3>3, <3>4
  <2> QED BY <1>4, <1>5, <2>6, <2>7 DEF HandleLockCmd
<1> QED BY <1>6, <1>7

LEMMA HandleUnlockCmd6 ==
  ASSUME KnownReplay, TypeOK', NEW p \in Proc, NEW m \in Mutex, HandleUnlockCmd(p, m)
  PROVE  OrderCounted'
<1> DEFINE s == lockStruct[m]
<1>1. TypeOK /\ NoCommandForgotten /\ Recorded /\ OrderCounted
  BY InStepRecorded DEF KnownReplay, Known
<1>2. /\ prog[p] # <<>> /\ Head(prog[p]) = [op |-> "UNLOCK", dst |-> m] /\ round' = round
      /\ prog'[p] = Tail(prog[p]) /\ \A q \in Proc : q # p => prog'[q] = prog[q]
  BY <1>1 DEF HandleUnlockCmd, Issue, TypeOK, Program
<1>3. /\ s \in LockState /\ lockStruct \in [Mutex -> LockState] /\ IsInjective(s.queue)
  <2>1. s \in LockState /\ lockStruct \in [Mutex -> LockState]
    BY <1>1 DEF TypeOK
  <2> QED BY <1>1, <2>1, Parts DEF ParkedOnStruct
<1>4. /\ CheckedOrder(p, "UNLOCK", m) = lockDelay
      /\ \A n \in Mutex : n # m => lockStruct'[n] = lockStruct[n] /\ lockDelay'[n] = lockDelay[n]
  BY <1>1, OthersKept
<1>5. CASE round = 1
  <2>1. lockDelay' = lockDelay \/ lockDelay' = PopFront(lockDelay, m)
    BY <1>4 DEF HandleUnlockCmd
  <2>2. lockDelay' = lockDelay
    BY <1>1, <1>5, <2>1 DEF OrderCounted, PopFront, HasAddr
  <2> QED BY <1>1, <1>2, <1>5, <2>2 DEF OrderCounted
<1>6. CASE round # 1
  <2>1. \A q \in Proc, n \in Mutex : CountedAt(q, n)
    BY <1>1, <1>6 DEF OrderCounted
  <2>2. \A q \in Proc, n \in Mutex : TimesIn(lockOf(n), prog'[q]) = TimesIn(lockOf(n), prog[q])
    <3>1. prog[p] \in Seq(Cmd) /\ prog'[p] \in Seq(Cmd)
      BY <1>1 DEF TypeOK, Program
    <3>2. ASSUME NEW n \in Mutex PROVE TimesIn(lockOf(n), prog'[p]) = TimesIn(lockOf(n), prog[p])
      <4>1. One(Head(prog[p]) = lockOf(n)) = 0
        BY <1>2 DEF One, lockOf
      <4>2. TimesIn(lockOf(n), prog[p]) = TimesIn(lockOf(n), prog'[p]) + One(Head(prog[p]) = lockOf(n))
        BY <1>2, <3>1, TimesTail
      <4>3. TimesIn(lockOf(n), prog'[p]) \in Nat
        BY <3>1, PlacesFinite
      <4> QED BY <4>1, <4>2, <4>3
    <3> QED BY <1>2, <3>2
  <2>3. \A q \in Proc, n \in Mutex : n # m => CountedAt(q, n)'
    BY <1>4, <2>1, <2>2, CountedSame
  <2>4. ASSUME \A q \in Proc : CountedAt(q, m)' PROVE OrderCounted'
    BY <1>2, <1>6, <2>3, <2>4 DEF OrderCounted
  <2>5. CASE /\ lockDelay' = lockDelay
             /\ \/ UNCHANGED lockStruct
                \/ lockStruct' = [lockStruct EXCEPT ![m] = Unlock(s, p)]
    <3>1. lockStruct'[m].queue = s.queue
      BY <1>3, <2>5, QueueKept
    <3>2. \A q \in Proc : hasLockCmd(lockStruct'[m], q) <=> hasLockCmd(s, q)
      BY <3>1 DEF hasLockCmd
    <3> QED BY <2>1, <2>2, <2>4, <2>5, <3>2, CountedSame
  <2>6. ASSUME NEW r \in NextOwners(lockDelay, m), s.locked,
               lockDelay' = PopFront(lockDelay, m),
               lockStruct' = [lockStruct EXCEPT ![m] = Lock(popLockCmd(Unlock(s, p), r), r)]
        PROVE  OrderCounted'
    <3>1. r \in Proc /\ hasLockCmd(s, r)
      BY <1>3, NextOwnersParked
    <3>2. \A q \in Proc : hasLockCmd(lockStruct'[m], q) <=> hasLockCmd(s, q) /\ q # r
      <4>1. lockStruct'[m] = Lock(popLockCmd(Unlock(s, p), r), r)
        BY <1>3, <2>6
      <4> QED BY <1>3, <2>6, <3>1, <4>1, HandOver
    <3>3. TimesIn(r, lockDelay[m]) = TimesIn(lockOf(m), prog[r]) + 1
      <4>1. One(hasLockCmd(s, r)) = 1
        BY <3>1 DEF One
      <4> QED BY <2>1, <3>1, <4>1 DEF CountedAt
    <3>4. TimesIn(r, lockDelay[m]) # 0 /\ TimesIn(lockOf(m), prog[r]) \in Nat
      BY <1>1, <3>1, <3>3, CountsAre
    <3>5. /\ TimesIn(r, lockDelay[m]) = TimesIn(r, lockDelay'[m]) + 1
          /\ \A q \in Proc : q # r => TimesIn(q, lockDelay'[m]) = TimesIn(q, lockDelay[m])
          /\ TimesIn(r, lockDelay'[m]) \in Nat
      <4>1. HasAddr(lockDelay, m) => FrontSrc(lockDelay, m) = r
        BY <2>6 DEF NextOwners
      <4> QED BY <1>1, <2>6, <3>1, <3>4, <4>1, PopCounts
    <3>6. CountedAt(r, m)'
      <4>1. One(hasLockCmd(lockStruct'[m], r)) = 0
        BY <3>1, <3>2 DEF One
      <4>2. TimesIn(r, lockDelay'[m]) = TimesIn(lockOf(m), prog'[r]) + 0
        BY <2>2, <3>1, <3>3, <3>4, <3>5
      <4> QED BY <4>1, <4>2 DEF CountedAt
    <3>7. \A q \in Proc : q # r => CountedAt(q, m)'
      BY <2>1, <2>2, <3>2, <3>5, CountedSame
    <3> QED BY <2>4, <3>6, <3>7
  <2> QED BY <1>4, <2>5, <2>6 DEF HandleUnlockCmd
<1> QED BY <1>5, <1>6

LEMMA NextRound7 ==
  ASSUME Replayed, Inv1, NextRound
  PROVE  OrderCounted'
<1>1. bench = plan[round]
  BY BenchAtEnd DEF NextRound
<1>2. /\ plan \in Plans /\ round \in DOMAIN plan /\ round \in Nat \ {0}
      /\ round + 1 \in DOMAIN plan
  <2>1. plan \in Plans /\ round \in DOMAIN plan /\ plan \in Seq(Program)
    BY PlansAssumption DEF Inv1, TypeOK
  <2> QED BY <2>1 DEF NextRound
<1>3. prog' = plan[round] /\ round' # 1 /\ \A m \in Mutex : lockStruct'[m] = FreshLock
  BY <1>2 DEF NextRound, Replayed
<1>4. Arranges(lockDelay', plan[round])
  BY <1>1, <1>2, RequestsAssumption DEF NextRound
<1>5. ASSUME NEW p \in Proc, NEW m \in Mutex PROVE CountedAt(p, m)'
  <2>1. TimesIn(p, lockDelay'[m]) = TimesIn(lockOf(m), prog'[p])
    <3>1. \A list, item : Places(list, item) = TimesIn(item, list)
      BY DEF Places, TimesIn, PlacesIn
    <3>2. Places(lockDelay'[m], p) = Places(plan[round][p], lockOf(m))
      BY <1>4 DEF Arranges, lockOf
    <3> QED BY <1>3, <3>1, <3>2
  <2>2. One(hasLockCmd(lockStruct'[m], p)) = 0
    BY <1>3, FreshEmpty DEF One
  <2>3. TypeOK'
    BY NextRound1 DEF Inv1
  <2>4. TimesIn(lockOf(m), prog'[p]) \in Nat
    <3>1. prog'[p] \in Seq(Cmd)
      BY <2>3 DEF TypeOK, Program
    <3> QED BY <3>1, PlacesFinite
  <2> QED BY <2>1, <2>2, <2>4 DEF CountedAt
<1> QED BY <1>3, <1>5 DEF OrderCounted

LEMMA Next7 ==
  ASSUME Replayed, KnownReplay, TypeOK', [Next]_vars
  PROVE  OrderCounted'
<1>1. ASSUME NEW p \in Proc, NEW m \in Mutex, HandleLockCmd(p, m) \/ HandleUnlockCmd(p, m)
      PROVE  OrderCounted'
  BY <1>1, HandleLockCmd6, HandleUnlockCmd6
<1>2. CASE NextRound
  BY <1>2, NextRound7 DEF KnownReplay
<1>3. CASE UNCHANGED <<round, prog, lockStruct, lockDelay>>
  BY <1>3 DEF KnownReplay, OrderCounted, CountedAt
<1> QED BY <1>1, <1>2, <1>3 DEF Next, Step, HandleCmd, HandleLockWrite, HandleUnlockWrite,
           IssueWrite, ReadResult, ReadSync, Stop, vars, clientVars, delayVars

LEMMA UsedUp == TypeOK /\ NoCommandForgotten /\ InStep /\ OrderCounted => DelayInfoUsedUp
<1> SUFFICES ASSUME TypeOK, NoCommandForgotten, InStep, OrderCounted PROVE DelayInfoUsedUp
  OBVIOUS
<1>1. ASSUME NEW p \in Proc, pc[p] = "run", prog[p] # <<>>, round > 1
      PROVE  /\ HasAddr(srcDelay, p)
             /\ InOrder(srcDelay, p, Head(prog[p]).op, Head(prog[p]).dst)
  <2>1. Synced(p)
    BY <1>1 DEF InStep
  <2> QED BY <1>1, <2>1 DEF Synced, Unpopped, HasAddr, InOrder
<1>2. ASSUME RoundOver, NEW p \in Proc PROVE ~ HasAddr(srcDelay, p)
  BY <1>2 DEF RoundOver, InStep, Synced, Unpopped, HasAddr
<1>3. ASSUME RoundOver, NEW m \in Mutex PROVE ~ HasAddr(lockDelay, m)
  <2>1. CASE round = 1
    BY <2>1 DEF OrderCounted, HasAddr
  <2>2. CASE round # 1
    <3>1. ASSUME NEW p \in Proc PROVE TimesIn(p, lockDelay[m]) = 0
      <4>1. pc[p] = "run" /\ prog[p] = <<>>
        BY <1>3 DEF RoundOver
      <4>2. One(hasLockCmd(lockStruct[m], p)) = 0
        BY <4>1, NotBlocked DEF One
      <4>3. TimesIn(lockOf(m), prog[p]) = 0
        BY <4>1, TimesEmpty
      <4> QED BY <2>2, <4>2, <4>3 DEF OrderCounted, CountedAt
    <3>2. lockDelay[m] \in Seq(Proc)
      BY DEF TypeOK
    <3> QED BY <3>1, <3>2, TimesNone DEF HasAddr
  <2> QED BY <2>1, <2>2
<1> QED BY <1>1, <1>2, <1>3 DEF DelayInfoUsedUp

\* If every round repeats the one before and no process locks a mutex it holds,
\* the delay information of every round fits its commands one by one and is
\* used up at its end, whatever the order in which the processes run.
THEOREM ReplayUsesDelayInfo ==
  ASSUME Replayed
  PROVE  Spec /\ []Disciplined /\ []NotReentrant => []DelayInfoUsedUp
<1>1. Init => OrderCounted
  BY DEF Init, OrderCounted
<1>2. Inv1 /\ TypeOK' /\ TypeOK /\ NoCommandForgotten /\ Disciplined /\ OwnerInv /\ InStep
        /\ NotReentrant /\ OrderCounted /\ [Next]_vars => OrderCounted'
  BY Next7 DEF KnownReplay, Known
<1>3. TypeOK /\ NoCommandForgotten /\ InStep /\ OrderCounted => DelayInfoUsedUp
  BY UsedUp
<1> QED BY <1>1, <1>2, <1>3, ReplayInStep, OwnersAgree, TypeCorrect, NoCommandLost, PTL DEF Spec
=============================================================================
