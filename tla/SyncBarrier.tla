----------------------------- MODULE SyncBarrier -----------------------------
(***************************************************************************)
(* The barrier transactions of the synchronization manager (interchiplet): *)
(* handle_barrier_cmd and handle_barrier_write_cmd, with the order check   *)
(* that parse_command runs before the former, iterated over rounds, and    *)
(* with the simulated time at which processes are released.                *)
(*                                                                         *)
(* A process enters a barrier in two halves.  It prints BARRIER and blocks *)
(* until it reads a RESULT; then it prints a WRITE with the barrier flag   *)
(* and its local cycle, and blocks until it reads a SYNC with the cycle at *)
(* which it goes on.                                                       *)
(***************************************************************************)
EXTENDS BarrierStruct, EndCycle

CONSTANTS
  Proc,           \* the simulator processes
  Uid,            \* the barrier uids in use
  Plans,          \* what the processes execute: one program per round
  Gaps,           \* how long a process may compute before it enters a barrier
  Flits,          \* the packet size of a barrier request
  Networks        \* per source, the latencies of the packets of one round

\* A command names a barrier (dst) and a count (op): the descriptor that the
\* order check compares is the barrier flag with the count.
Cmd == [op : Nat, dst : Uid]
Program == [Proc -> Seq(Cmd)]

\* A packet has at least one flit and spends at least one cycle in the network.
Latency == [1..4 -> Nat \ {0}]
Record == [op : Nat, dst : Uid, cycle : Nat, lat : Latency]

ASSUME ConstantsAssumption ==
  Uid # {} /\ IsFiniteSet(Proc) /\ Gaps \subseteq Nat /\ Flits \in Nat \ {0}

ASSUME PlansAssumption == \A plan \in Plans : plan # <<>> /\ plan \in Seq(Program)

ASSUME NetworksAssumption == Networks \subseteq [Proc -> Seq(Latency)]

\* The processes that use barrier u in a program.
Users(program, u) == {p \in Proc : \E i \in DOMAIN program[p] : program[p][i].dst = u}

\* The count of a barrier is the number of processes to wait for, or zero for
\* the count that an earlier command has given it.
Counted(program) ==
  \A p \in Proc : \A i \in DOMAIN program[p] :
    LET c == program[p][i]
    IN  IF c.op = 0 THEN \E j \in 1..i-1 : program[p][j].dst = c.dst
        ELSE c.op = Cardinality(Users(program, c.dst))

ASSUME CountsAssumption == \A plan \in Plans : \A r \in DOMAIN plan : Counted(plan[r])

VARIABLES
  plan,      \* the programs of all rounds
  round,     \* the current round
  prog,      \* the commands each process has still to issue this round
  pc,        \* what each process does: runs, or is blocked for an answer
  cmd,       \* the barrier command each process is in, or was in last
  now,       \* the local cycle of each process
  sent,      \* the cycle in the last WRITE of each process
  resp,      \* answers to each process it has not read: 0, or the cycle of a SYNC
  barrier,   \* m_barrier_struct, per uid: the processes waiting
  timing,    \* m_barrier_timing_struct, per uid: the processes waiting, with cycles
  srcDelay,  \* m_src_delay_map, per process
  bench      \* m_bench_list, per source

clientVars == <<prog, pc, cmd, now, sent>>
vars == <<plan, round, clientVars, resp, barrier, timing, srcDelay, bench>>

Arrival == [src : Proc, cycle : Nat]

TypeOK ==
  /\ plan \in Plans
  /\ round \in DOMAIN plan
  /\ prog \in Program
  /\ pc \in [Proc -> {"run", "result", "write", "sync"}]
  /\ cmd \in [Proc -> Cmd]
  /\ now \in [Proc -> Nat] /\ sent \in [Proc -> Nat]
  /\ resp \in [Proc -> Seq(Nat)]
  /\ barrier \in [Uid -> BarrierState(Proc)]
  /\ timing \in [Uid -> BarrierState(Arrival)]
  /\ srcDelay \in [Proc -> Seq(Record)]
  /\ bench \in [Proc -> Seq([op : Nat, dst : Uid, cycle : Nat])]

\* The first round finds no delay file.
Init ==
  /\ plan \in Plans
  /\ round = 1
  /\ prog = plan[1]
  /\ pc = [p \in Proc |-> "run"]
  /\ cmd \in [Proc -> {[op |-> 0, dst |-> CHOOSE u \in Uid : TRUE]}]
  /\ now = [p \in Proc |-> 0]
  /\ sent = [p \in Proc |-> 0]
  /\ resp = [p \in Proc |-> <<>>]
  /\ barrier = [u \in Uid |-> FreshBarrier]
  /\ timing = [u \in Uid |-> FreshBarrier]
  /\ srcDelay = [p \in Proc |-> <<>>]
  /\ bench = [p \in Proc |-> <<>>]
-----------------------------------------------------------------------------
(* The processes.                                                          *)

\* The process prints its next BARRIER command.
Issue(p, n, u) ==
  /\ pc[p] = "run"
  /\ prog[p] # <<>>
  /\ Head(prog[p]) = [op |-> n, dst |-> u]
  /\ prog' = [prog EXCEPT ![p] = Tail(@)]
  /\ pc' = [pc EXCEPT ![p] = "result"]
  /\ cmd' = [cmd EXCEPT ![p] = [op |-> n, dst |-> u]]
  /\ UNCHANGED <<now, sent>>

\* The process prints the WRITE command of its barrier, after some computation.
IssueWrite(p, n, u, cycle) ==
  /\ pc[p] = "write"
  /\ cmd[p] = [op |-> n, dst |-> u]
  /\ cycle \in {now[p] + gap : gap \in Gaps}
  /\ pc' = [pc EXCEPT ![p] = "sync"]
  /\ sent' = [sent EXCEPT ![p] = cycle]
  /\ UNCHANGED <<prog, cmd, now>>

\* The process reads the RESULT it is blocked for.
ReadResult(p) ==
  /\ pc[p] = "result" /\ resp[p] # <<>>
  /\ pc' = [pc EXCEPT ![p] = "write"]
  /\ resp' = [resp EXCEPT ![p] = Tail(@)]
  /\ UNCHANGED <<plan, round, prog, cmd, now, sent, barrier, timing, srcDelay, bench>>

\* The process reads the SYNC it is blocked for, and goes on at its cycle.
ReadSync(p) ==
  /\ pc[p] = "sync" /\ resp[p] # <<>>
  /\ pc' = [pc EXCEPT ![p] = "run"]
  /\ now' = [now EXCEPT ![p] = Head(resp[p])]
  /\ resp' = [resp EXCEPT ![p] = Tail(@)]
  /\ UNCHANGED <<plan, round, prog, cmd, sent, barrier, timing, srcDelay, bench>>
-----------------------------------------------------------------------------
(* The handlers.                                                           *)

\* sendResultCmd and sendSyncCmd: value[p] is the answer to p.
Answer(value) ==
  resp' = [p \in Proc |-> IF p \in DOMAIN value THEN Append(resp[p], value[p]) ELSE resp[p]]

HandleBarrierCmd(p, n, u) ==
  LET s == insertBarrier(barrier[u], n, p)
  IN
  /\ Issue(p, n, u)
  /\ \/ /\ overflow(s)
        /\ barrier' = [barrier EXCEPT ![u] = reset(s)]
        /\ Answer([q \in ToSet(s.items) |-> 0])
     \/ /\ ~ overflow(s)
        /\ barrier' = [barrier EXCEPT ![u] = s]
        /\ UNCHANGED resp
  /\ srcDelay' = IF InOrder(srcDelay, p, n, u) THEN srcDelay ELSE Cleared(srcDelay)
  /\ UNCHANGED <<plan, round, timing, bench>>

\* When the request of one waiting process reached the controller.
ArrivalCycle(item, u) ==
  IF RecordsFor(srcDelay, item.src, u) = {}
  THEN DefaultEnd(item.cycle, item.cycle, Flits)
  ELSE LET record == FrontItem(srcDelay, item.src, u) IN record.cycle + record.lat[2]

\* Faulty variant: the barrier overflows with its first request.
getBarrierCycle_first(items, u) == ArrivalCycle(items[1], u)

\* getBarrierCycle
getBarrierCycle(items, u) == Latest({ArrivalCycle(items[i], u) : i \in DOMAIN items})

\* getEndCycle, for one waiting process and the overflow of the barrier.
ReleaseCycle(item, u, overflowCycle) ==
  IF RecordsFor(srcDelay, item.src, u) = {}
  THEN DefaultEnd(item.cycle, overflowCycle, Flits)
  ELSE AcknowledgedEnd(item.cycle, overflowCycle, FrontItem(srcDelay, item.src, u))

\* WRITE with the barrier flag.
HandleBarrierWrite(p, n, u, cycle) ==
  LET s == insertBarrier(timing[u], n, [src |-> p, cycle |-> cycle])
      waiting == {s.items[i].src : i \in DOMAIN s.items}
      itemOf(q) == CHOOSE item \in ToSet(s.items) : item.src = q
  IN
  /\ IssueWrite(p, n, u, cycle)
  /\ bench' = [bench EXCEPT ![p] = Append(@, [op |-> n, dst |-> u, cycle |-> cycle])]
  /\ \/ /\ overflow(s)
        /\ timing' = [timing EXCEPT ![u] = reset(s)]
        /\ Answer([q \in waiting |->
             ReleaseCycle(itemOf(q), u, getBarrierCycle(s.items, u))])
        /\ srcDelay' = [q \in Proc |-> IF q \in waiting THEN PopItem(srcDelay, q, u)[q]
                                       ELSE srcDelay[q]]
     \/ /\ ~ overflow(s)
        /\ timing' = [timing EXCEPT ![u] = s]
        /\ UNCHANGED <<resp, srcDelay>>
  /\ UNCHANGED <<plan, round, barrier>>
-----------------------------------------------------------------------------
(* The iteration.                                                          *)

RoundOver == \A p \in Proc : prog[p] = <<>> /\ pc[p] = "run"

Finished == RoundOver /\ round = Len(plan)

\* dumpBench, the network simulation of phase two and loadDelayInfo: every
\* request of the bench comes back with its latencies.
Delayed(network) ==
  [p \in Proc |-> [i \in DOMAIN bench[p] |->
     [op |-> bench[p][i].op, dst |-> bench[p][i].dst, cycle |-> bench[p][i].cycle,
      lat |-> network[p][i]]]]

\* The next phase one: new child processes and a new SyncStruct.
NextRound ==
  /\ RoundOver
  /\ round < Len(plan)
  /\ round' = round + 1
  /\ prog' = plan[round + 1]
  /\ now' = [p \in Proc |-> 0]
  /\ sent' = [p \in Proc |-> 0]
  /\ barrier' = [u \in Uid |-> FreshBarrier]
  /\ timing' = [u \in Uid |-> FreshBarrier]
  /\ \E network \in Networks :
       /\ \A p \in Proc : Len(bench[p]) <= Len(network[p])
       /\ srcDelay' = Delayed(network)
  /\ bench' = [p \in Proc |-> <<>>]
  /\ UNCHANGED <<plan, pc, cmd, resp>>

HandleCmd(p) ==
  \/ \E c \in ToSet(prog[p]) : HandleBarrierCmd(p, c.op, c.dst)
  \/ \E gap \in Gaps : HandleBarrierWrite(p, cmd[p].op, cmd[p].dst, now[p] + gap)

Step(p) == HandleCmd(p) \/ ReadResult(p) \/ ReadSync(p)

\* main has nothing left to do.
Stop == Finished /\ UNCHANGED vars

Next == (\E p \in Proc : Step(p)) \/ NextRound \/ Stop

Spec == Init /\ [][Next]_vars

\* A simulator process keeps executing, its bridge thread keeps polling, and
\* no handler blocks while it holds the manager's mutex.
Fairness == (\A p \in Proc : WF_vars(Step(p))) /\ WF_vars(NextRound)

FairSpec == Spec /\ Fairness
-----------------------------------------------------------------------------
(* Properties.                                                             *)

\* The processes that use barrier u this round.
Members(u) == Users(plan[round], u)

\* How many commands of this round p has printed.
Printed(p) == Len(plan[round][p]) - Len(prog[p])

\* How often p has printed BARRIER for u, and has been answered.
Entered(p, u) == Cardinality({i \in 1..Printed(p) : plan[round][p][i].dst = u})

In(p, u, stages) == IF cmd[p].dst = u /\ pc[p] \in stages THEN 1 ELSE 0

Left(p, u) == Entered(p, u) - (IF resp[p] = <<>> THEN In(p, u, {"result"}) ELSE 0)

\* How often p has printed WRITE for u, and has been answered.
Written(p, u) == Entered(p, u) - In(p, u, {"result", "write"})

Released(p, u) ==
  Written(p, u) - (IF resp[p] = <<>> THEN In(p, u, {"sync"}) ELSE 0)

\* No process passes a barrier before all its members have entered it as often,
\* neither with its BARRIER command nor with its WRITE command.
BarrierHolds ==
  \A u \in Uid : \A p, q \in Members(u) :
    /\ Left(p, u) <= Entered(q, u)
    /\ Released(p, u) <= Written(q, u)

\* Every command gets exactly one answer: a blocked process either waits once,
\* in the barrier and the list of its command, or has one unread answer.
NoCommandForgotten ==
  \A p \in Proc :
    /\ Len(resp[p]) <= (IF pc[p] \in {"result", "sync"} THEN 1 ELSE 0)
    /\ \A u \in Uid :
         LET blocked(stage) == pc[p] = stage /\ resp[p] = <<>> /\ cmd[p].dst = u
             once(B) == Cardinality(B) = 1
         IN  /\ IF blocked("result")
                THEN once({i \in DOMAIN barrier[u].items : barrier[u].items[i] = p})
                ELSE p \notin ToSet(barrier[u].items)
             /\ IF blocked("sync")
                THEN once({i \in DOMAIN timing[u].items : timing[u].items[i].src = p})
                ELSE \A i \in DOMAIN timing[u].items : timing[u].items[i].src # p

\* p gets the SYNC of its barrier in this step.
Syncs(p) == pc'[p] = "sync" /\ resp[p] = <<>> /\ resp'[p] # <<>>

\* The cycle p is released at is after the cycle at which q entered.
ReleasedAfter(p, q) == Syncs(p) /\ Syncs(q) => Head(resp'[p]) > sent'[q]

\* The delay information is up to date for those released in this step: they
\* entered no later than in the round the information was made from.
UpToDate ==
  \A p \in Proc :
    LET u == cmd[p].dst
    IN  Syncs(p) /\ RecordsFor(srcDelay, p, u) # {}
          => FrontItem(srcDelay, p, u).cycle >= sent'[p]

\* In simulated time nobody leaves a barrier before the last one has entered
\* it, if the delay information is up to date.
ReleaseIsTimely == [][UpToDate => \A p, q \in Proc : ReleasedAfter(p, q)]_vars

\* In simulated time nobody leaves a barrier before the last one has entered it.
BarrierTime == [][\A p, q \in Proc : ReleasedAfter(p, q)]_vars

\* The simulation terminates: no round blocks.
Termination == <>Finished
=============================================================================
