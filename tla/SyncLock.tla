------------------------------ MODULE SyncLock ------------------------------
(***************************************************************************)
(* The LOCK/UNLOCK transactions of the synchronization manager             *)
(* (interchiplet): handle_lock_cmd, handle_unlock_cmd and the WRITE        *)
(* handlers with the lock and unlock flags, with the order check that      *)
(* parse_command runs before them, iterated over rounds.                   *)
(*                                                                         *)
(* A simulator process performs a transaction in two halves.  It prints    *)
(* the functional command (LOCK or UNLOCK) and blocks until it reads a     *)
(* RESULT; then it prints the WRITE command of the transaction and blocks  *)
(* until it reads a SYNC.  The manager runs one handler at a time, under   *)
(* SyncStruct::m_mutex, so printing a command and handling it are one      *)
(* step; reading the answer is another.                                    *)
(***************************************************************************)
EXTENDS LockStruct, DelayOrder

CONSTANTS
  Mutex,          \* the mutex uids in use
  Plans,          \* what the processes execute: one program per round
  Arrivals(_)     \* what the network simulator may make of a bench

Op == {"LOCK", "UNLOCK"}
Cmd == [op : Op, dst : Mutex]
Program == [Proc -> Seq(Cmd)]

ASSUME MutexAssumption == Mutex # {}

ASSUME PlansAssumption == \A plan \in Plans : plan # <<>> /\ plan \in Seq(Program)

\* The delay file of a round orders lock requests.
ASSUME ArrivalsAssumption ==
  \A plan \in Plans : \A r \in DOMAIN plan :
    Arrivals(plan[r]) \subseteq [Mutex -> Seq(Proc)]

\* The order of a mutex consists of the requests of that round for it, given by
\* their sources.
Arranges(order, program) ==
  \A p \in Proc, m \in Mutex :
    Places(order[m], p) = Places(program[p], [op |-> "LOCK", dst |-> m])

\* No request is lost or delivered twice by the network simulator.
ASSUME RequestsAssumption ==
  \A plan \in Plans : \A r \in DOMAIN plan :
    \A order \in Arrivals(plan[r]) : Arranges(order, plan[r])

VARIABLES
  plan,        \* the programs of all rounds
  round,       \* the current round
  prog,        \* the commands each process has still to issue this round
  pc,          \* what each process does: runs, or is blocked for an answer
  cmd,         \* the transaction each process is in, or was in last
  resp,        \* answers written to each process and not read yet
  held,        \* the mutexes each process believes it holds
  lockStruct,  \* m_lock_struct, per mutex
  lockTiming,  \* m_lock_timing_struct, per mutex
  srcDelay,    \* m_src_delay_map, per process
  lockDelay,   \* m_lock_delay_map, per mutex
  bench        \* m_bench_list, per source

clientVars == <<prog, pc, cmd, held>>
delayVars == <<srcDelay, lockDelay>>
vars == <<plan, round, clientVars, resp, lockStruct, lockTiming, delayVars, bench>>

TypeOK ==
  /\ plan \in Plans
  /\ round \in DOMAIN plan
  /\ prog \in Program
  /\ pc \in [Proc -> {"run", "result", "write", "sync"}]
  /\ cmd \in [Proc -> Cmd]
  /\ resp \in [Proc -> Nat]
  /\ held \in [Proc -> SUBSET Mutex]
  /\ lockStruct \in [Mutex -> LockState]
  /\ lockTiming \in [Mutex -> LockState]
  /\ srcDelay \in Program
  /\ lockDelay \in [Mutex -> Seq(Proc)]
  /\ bench \in Program

\* The first round finds no delay file.
Init ==
  /\ plan \in Plans
  /\ round = 1
  /\ prog = plan[1]
  /\ pc = [p \in Proc |-> "run"]
  /\ cmd \in [Proc -> {CHOOSE c \in Cmd : TRUE}]
  /\ resp = [p \in Proc |-> 0]
  /\ held = [p \in Proc |-> {}]
  /\ lockStruct = [m \in Mutex |-> FreshLock]
  /\ lockTiming = [m \in Mutex |-> FreshLock]
  /\ srcDelay = [p \in Proc |-> <<>>]
  /\ lockDelay = [m \in Mutex |-> <<>>]
  /\ bench = [p \in Proc |-> <<>>]
-----------------------------------------------------------------------------
(* The processes.                                                          *)

\* The process prints its next functional command.
Issue(p, op, m) ==
  /\ pc[p] = "run"
  /\ prog[p] # <<>>
  /\ Head(prog[p]) = [op |-> op, dst |-> m]
  /\ prog' = [prog EXCEPT ![p] = Tail(@)]
  /\ pc' = [pc EXCEPT ![p] = "result"]
  /\ cmd' = [cmd EXCEPT ![p] = [op |-> op, dst |-> m]]

\* The process prints the WRITE command of its transaction.
IssueWrite(p, op, m) ==
  /\ pc[p] = "write"
  /\ cmd[p] = [op |-> op, dst |-> m]
  /\ pc' = [pc EXCEPT ![p] = "sync"]
  /\ UNCHANGED <<prog, cmd, held>>

\* The process reads the RESULT it is blocked for.
ReadResult(p) ==
  /\ pc[p] = "result" /\ resp[p] > 0
  /\ pc' = [pc EXCEPT ![p] = "write"]
  /\ resp' = [resp EXCEPT ![p] = @ - 1]
  /\ held' = [held EXCEPT ![p] = IF cmd[p].op = "LOCK" THEN @ \cup {cmd[p].dst} ELSE @]
  /\ UNCHANGED <<plan, round, prog, cmd, lockStruct, lockTiming, delayVars, bench>>

\* The process reads the SYNC it is blocked for, and goes on.
ReadSync(p) ==
  /\ pc[p] = "sync" /\ resp[p] > 0
  /\ pc' = [pc EXCEPT ![p] = "run"]
  /\ resp' = [resp EXCEPT ![p] = @ - 1]
  /\ UNCHANGED <<plan, round, prog, cmd, held, lockStruct, lockTiming, delayVars, bench>>
-----------------------------------------------------------------------------
(* The handlers.                                                           *)

\* sendResultCmd and sendSyncCmd, to the processes of P.
Answer(P) == resp' = [p \in Proc |-> IF p \in P THEN resp[p] + 1 ELSE resp[p]]

\* parse_command: a functional command that is not the next one recorded for
\* its sender cancels all delay information.
CheckedOrder(p, op, m) ==
  IF InOrder(srcDelay, p, op, m) THEN lockDelay ELSE Cleared(lockDelay)

CheckedSource(p, op, m) ==
  IF InOrder(srcDelay, p, op, m) THEN srcDelay ELSE Cleared(srcDelay)

\* Faulty variant: a free mutex goes to whoever asks.
Admits_always(order, p, m) == TRUE

\* The delay information lets p have the free mutex m now.
Admits(order, p, m) == HasAddr(order, m) => FrontSrc(order, m) = p

HandleLockCmd(p, m) ==
  LET order == CheckedOrder(p, "LOCK", m)
      s == lockStruct[m]
  IN
  /\ Issue(p, "LOCK", m)
  /\ \/ /\ LockedBy(s, p)
        /\ lockDelay' = order
        /\ Answer({p})
        /\ UNCHANGED lockStruct
     \/ /\ ~ s.locked /\ Admits(order, p, m)
        /\ lockStruct' = [lockStruct EXCEPT ![m] = Lock(@, p)]
        /\ lockDelay' = PopFront(order, m)
        /\ Answer({p})
     \/ /\ IF s.locked THEN s.last # p ELSE ~ Admits(order, p, m)
        /\ lockStruct' = [lockStruct EXCEPT ![m] = insertLockCmd(@, p)]
        /\ lockDelay' = order
        /\ UNCHANGED resp
  /\ srcDelay' = CheckedSource(p, "LOCK", m)
  /\ UNCHANGED <<plan, round, held, lockTiming, bench>>

\* Faulty variant: without delay information no parked command is served.
NextOwners_orderedOnly(order, m) ==
  {q \in Proc : /\ HasAddr(order, m)
                /\ q = FrontSrc(order, m) /\ hasLockCmd(lockStruct[m], q)}

\* The parked LOCK command that an UNLOCK of m serves: the one the delay
\* information names, or the oldest one if there is no delay information.
NextOwners(order, m) ==
  LET s == lockStruct[m]
  IN  {q \in Proc : IF HasAddr(order, m)
                    THEN q = FrontSrc(order, m) /\ hasLockCmd(s, q)
                    ELSE s.queue # <<>> /\ q = Head(s.queue)}

HandleUnlockCmd(p, m) ==
  LET order == CheckedOrder(p, "UNLOCK", m)
      s == lockStruct[m]
  IN
  /\ Issue(p, "UNLOCK", m)
  /\ \/ /\ s.locked /\ NextOwners(order, m) = {}
        /\ lockStruct' = [lockStruct EXCEPT ![m] = Unlock(@, p)]
        /\ lockDelay' = order
        /\ Answer({p})
     \/ \E q \in NextOwners(order, m) :
          /\ s.locked
          /\ lockStruct' = [lockStruct EXCEPT ![m] = Lock(popLockCmd(Unlock(@, p), q), q)]
          /\ lockDelay' = PopFront(order, m)
          /\ Answer({p, q})
     \/ /\ ~ s.locked
        /\ lockDelay' = order
        /\ Answer({p})
        /\ UNCHANGED lockStruct
  /\ held' = [held EXCEPT ![p] = @ \ {m}]
  /\ srcDelay' = CheckedSource(p, "UNLOCK", m)
  /\ UNCHANGED <<plan, round, lockTiming, bench>>

\* Faulty variant: a command that has to wait leaves no record.
Record_served(p) ==
  bench' = IF cmd[p].op = "LOCK" /\ lockTiming[cmd[p].dst].locked
           THEN bench ELSE [bench EXCEPT ![p] = Append(@, cmd[p])]

\* m_bench_list.insert: the record is kept before anything else is decided.
Record(p) == bench' = [bench EXCEPT ![p] = Append(@, cmd[p])]

\* WRITE with the lock flag.  The delay information plays no part here: the
\* functional commands have already been put in order.
HandleLockWrite(p, m) ==
  LET s == lockTiming[m]
  IN
  /\ IssueWrite(p, "LOCK", m)
  /\ Record(p)
  /\ \/ /\ LockedBy(s, p)
        /\ srcDelay' = PopItem(srcDelay, p, m)
        /\ Answer({p})
        /\ UNCHANGED lockTiming
     \/ /\ s.locked /\ s.last # p
        /\ lockTiming' = [lockTiming EXCEPT ![m] = insertLockCmd(@, p)]
        /\ UNCHANGED <<srcDelay, resp>>
     \/ /\ ~ s.locked
        /\ lockTiming' = [lockTiming EXCEPT ![m] = Lock(@, p)]
        /\ srcDelay' = PopItem(srcDelay, p, m)
        /\ Answer({p})
  /\ UNCHANGED <<plan, round, lockStruct, lockDelay>>

\* Faulty variant: a WRITE(UNLOCK) does not look at the parked commands.
Overtaken_never(s) == FALSE

\* hasLockCmd(uid): some WRITE(LOCK) came before the WRITE(UNLOCK).
Overtaken(s) == s.queue # <<>>

\* WRITE with the unlock flag: releases the timing mutex, and gives it to the
\* oldest WRITE(LOCK) that overtook this WRITE(UNLOCK).
HandleUnlockWrite(p, m) ==
  LET s == lockTiming[m]
  IN
  /\ IssueWrite(p, "UNLOCK", m)
  /\ Record(p)
  /\ \/ /\ s.locked /\ ~ Overtaken(s)
        /\ lockTiming' = [lockTiming EXCEPT ![m] = Unlock(@, p)]
        /\ srcDelay' = PopItem(srcDelay, p, m)
        /\ Answer({p})
     \/ /\ s.locked /\ Overtaken(s)
        /\ LET q == Head(s.queue)
           IN  /\ lockTiming' = [lockTiming EXCEPT ![m] = Lock(popLockCmd(Unlock(@, p), q), q)]
               /\ srcDelay' = PopItem(PopItem(srcDelay, p, m), q, m)
               /\ Answer({p, q})
     \/ /\ ~ s.locked
        /\ srcDelay' = PopItem(srcDelay, p, m)
        /\ Answer({p})
        /\ UNCHANGED lockTiming
  /\ UNCHANGED <<plan, round, lockStruct, lockDelay>>
-----------------------------------------------------------------------------
(* The iteration.                                                          *)

\* Every bridge thread has been joined: every process has run to its end.
RoundOver == \A p \in Proc : prog[p] = <<>> /\ pc[p] = "run"

Finished == RoundOver /\ round = Len(plan)

\* dumpBench, the network simulation of phase two, and the next phase one:
\* new child processes, a new SyncStruct, loadDelayInfo.
NextRound ==
  /\ RoundOver
  /\ round < Len(plan)
  /\ round' = round + 1
  /\ prog' = plan[round + 1]
  /\ held' = [p \in Proc |-> {}]
  /\ lockStruct' = [m \in Mutex |-> FreshLock]
  /\ lockTiming' = [m \in Mutex |-> FreshLock]
  /\ srcDelay' = bench
  /\ lockDelay' \in Arrivals(bench)
  /\ bench' = [p \in Proc |-> <<>>]
  /\ UNCHANGED <<plan, pc, cmd, resp>>

HandleCmd(p) ==
  \E m \in Mutex : \/ HandleLockCmd(p, m)
                   \/ HandleUnlockCmd(p, m)
                   \/ HandleLockWrite(p, m)
                   \/ HandleUnlockWrite(p, m)

Step(p) == HandleCmd(p) \/ ReadResult(p) \/ ReadSync(p)

\* main has nothing left to do.
Stop == Finished /\ UNCHANGED vars

Next == (\E p \in Proc : Step(p)) \/ NextRound \/ Stop

Spec == Init /\ [][Next]_vars

\* A simulator process keeps executing, its bridge thread keeps polling, and
\* no handler blocks while it holds the manager's mutex.
Fairness == (\A p \in Proc : WF_vars(Step(p))) /\ WF_vars(NextRound)

FairSpec == Spec /\ Fairness
-----------------------------------------------------------------------------
(* Properties of every program, disciplined or not.                        *)

Parked(struct, p, m) == hasLockCmd(struct[m], p)

\* Every command gets exactly one answer: a blocked process is either parked
\* once, in the list of the mutex and of the kind of command it waits for, or
\* has one unread answer; a process that is not blocked is neither.
NoCommandForgotten ==
  /\ \A p \in Proc :
       /\ resp[p] <= (IF pc[p] \in {"result", "sync"} THEN 1 ELSE 0)
       /\ \A m \in Mutex :
            /\ Parked(lockStruct, p, m) <=>
                 pc[p] = "result" /\ resp[p] = 0 /\ cmd[p] = [op |-> "LOCK", dst |-> m]
            /\ Parked(lockTiming, p, m) <=>
                 pc[p] = "sync" /\ resp[p] = 0 /\ cmd[p] = [op |-> "LOCK", dst |-> m]
       /\ pc[p] \in {"result", "sync"} /\ cmd[p].op = "UNLOCK" => resp[p] = 1
  /\ \A m \in Mutex :
       IsInjective(lockStruct[m].queue) /\ IsInjective(lockTiming[m].queue)

\* The bench handed to the network simulation is what the processes executed:
\* at any time it lacks just the transactions not yet at their WRITE command.
BenchIsExecution ==
  \A p \in Proc :
    plan[round][p] =
      bench[p] \o (IF pc[p] \in {"result", "write"} THEN <<cmd[p]>> ELSE <<>>) \o prog[p]

\* As long as the delay information is valid, a mutex passes to processes in
\* the order in which their requests reached it in the previous round, and the
\* information stays in step with the mutex.
GrantsFollowOrder ==
  [][\A m \in Mutex, p \in Proc :
       ~ LockedBy(lockStruct[m], p) /\ LockedBy(lockStruct[m], p)' =>
         \/ ~ HasAddr(lockDelay, m)
         \/ lockDelay[m] = Cons(p, lockDelay'[m])
         \/ lockDelay' = Cleared(lockDelay)]_vars
-----------------------------------------------------------------------------
(* Properties of disciplined processes, which unlock only what they hold.  *)

\* The discipline, as a condition on the command a process is about to issue.
Disciplined ==
  \A p \in Proc :
    pc[p] = "run" /\ prog[p] # <<>> /\ Head(prog[p]).op = "UNLOCK" =>
      Head(prog[p]).dst \in held[p]

\* No two processes believe they hold the same mutex.
MutualExclusion ==
  \A p, q \in Proc : p # q => held[p] \cap held[q] = {}

\* p has released m, but its WRITE(UNLOCK) is not yet handled.
Releasing(p, m) == pc[p] \in {"result", "write"} /\ cmd[p] = [op |-> "UNLOCK", dst |-> m]

\* The timing mutex follows the functional one: it belongs to the functional
\* owner or to a process whose WRITE(UNLOCK) is still to come, and only one
\* WRITE(LOCK) can overtake that WRITE(UNLOCK).
TimingFollows ==
  \A m \in Mutex :
    /\ lockTiming[m].locked =>
         \E p \in Proc : /\ LockedBy(lockTiming[m], p)
                         /\ LockedBy(lockStruct[m], p) \/ Releasing(p, m)
    /\ lockTiming[m].queue # <<>> =>
         /\ Len(lockTiming[m].queue) = 1
         /\ LockedBy(lockStruct[m], Head(lockTiming[m].queue))
         /\ \E p \in Proc : LockedBy(lockTiming[m], p) /\ Releasing(p, m)

\* A LOCK stays parked on a free mutex only if the delay information names
\* some other process, whose LOCK is not parked, to be served first.
NoOrphan ==
  \A m \in Mutex :
    ~ lockStruct[m].locked /\ lockStruct[m].queue # <<>> =>
      HasAddr(lockDelay, m) /\ ~ Parked(lockStruct, FrontSrc(lockDelay, m), m)

\* A round that repeats the previous one uses up its delay information: it is
\* never cancelled, and every record is consumed by its own transaction.
DelayInfoUsedUp ==
  /\ \A p \in Proc : pc[p] = "run" /\ prog[p] # <<>> /\ round > 1 =>
       /\ HasAddr(srcDelay, p)
       /\ InOrder(srcDelay, p, Head(prog[p]).op, Head(prog[p]).dst)
  /\ RoundOver => /\ \A p \in Proc : ~ HasAddr(srcDelay, p)
                  /\ \A m \in Mutex : ~ HasAddr(lockDelay, m)

\* Every functional command is answered by a RESULT, every WRITE by a SYNC.
EveryCommandAnswered ==
  \A p \in Proc : pc[p] \in {"result", "sync"} ~> resp[p] = 1

\* The simulation terminates: no round blocks.
Termination == <>Finished
-----------------------------------------------------------------------------
(* What the manager promises: a mutex in the sense of AbstractLock.        *)

\* The processes that hold m, or have been granted it by an unread RESULT.
Owners(m) ==
  {p \in Proc : \/ m \in held[p]
                \/ pc[p] = "result" /\ resp[p] = 1 /\ cmd[p] = [op |-> "LOCK", dst |-> m]}

Abstract == INSTANCE AbstractLock
              WITH owners <- [m \in Mutex |-> Owners(m)],
                   waiting <- [m \in Mutex |-> ToSet(lockStruct[m].queue)]

ImplementsLock == Abstract!Spec
=============================================================================
