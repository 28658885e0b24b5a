# A verification project for the chiplet simulator

The repository holds two programs of its own and much third-party code.

* **interchiplet** runs several simulators (CPU, GPU, accelerators) as child
  processes, orders what they do to each other, and alternates this with a
  network simulator until the simulated time converges.
* **D2D** simulates a die-to-die interface (UCIe): adapter, sideband, link
  training, in the style of register-transfer code.

This directory models all transactions of the protocol of the first one, and of
the second one the control of the link: how two dies bring it up and take it
down, how a packet crosses the sideband, and how two PHYs train.

## Inventory

### interchiplet (`interchiplet/srcs`, `interchiplet/includes`)

| part | state | operations | modules |
|---|---|---|---|
| dispatch and iteration (`interchiplet.cpp`) | one `SyncStruct` per round, its mutex, `m_unfinished_line` per process | `parse_command`, `bridge_thread`, `__loop_phase_one`, `__loop_phase_two`, `main` | in each of the three state machines |
| mutexes (`SyncLockStruct`) | per uid: locked, last command, list of parked LOCKs; twice, for commands and for timing | `handle_lock_cmd`, `handle_unlock_cmd`, `handle_lock_write_cmd`, `handle_unlock_write_cmd` | `LockStruct`, `SyncLock`, `AbstractLock` |
| barriers (`SyncBarrierStruct`) | per uid: count, waiting commands; twice | `handle_barrier_cmd`, `handle_barrier_write_cmd` | `BarrierStruct`, `SyncBarrier` |
| launches (`SyncLaunchStruct`) | per destination: pending LAUNCHes and WAITLAUNCHes | `handle_launch_cmd`, `handle_waitlaunch_cmd` | `CommandLists`, `SyncMessage` |
| communication (`SyncCommStruct`, `SyncPipeStruct`) | per destination: pending READs and WRITEs; the named pipes | `handle_pipe_cmd`, `handle_read_cmd`, `handle_write_cmd` | `CommandLists`, `SyncMessage` |
| delay information (`net_delay.h`) | records per source; orders per destination for launches and locks | `loadDelayInfo`, `checkOrderOfCommand`, `clearDelayInfo`, `getEndCycle`, `getBarrierCycle` | `DelayOrder`, `EndCycle` |
| bench (`net_bench.h`) | records in cycle order | `insert`, `dumpBench` | variable `bench` |
| client library (`sync_protocol.h`, `pipe_comm.h`, `apis_c.cpp`) | the open pipes of a process | `lockSync`, `barrierSync`, ..., `read_data`, `write_data` | process actions |
| clock (`SyncClockStruct`), YAML, options | a maximum; none | | not modelled |

How they interact. A simulator process performs a transaction in two halves: it
prints a *functional* command (LOCK, UNLOCK, BARRIER, LAUNCH, WAITLAUNCH, SEND,
RECEIVE) and blocks for a RESULT; then it prints a *timing* command (READ or
WRITE, with flags) and blocks for a SYNC that carries the cycle at which it goes
on. One bridge thread per process reads its output; a mutex in `SyncStruct` lets
one command be handled at a time. Timing commands are written to the bench; the
network simulator turns the bench into the delay information of the next round;
the delay information decides, in the next round, in which order launches and
locks are granted and at which cycles processes go on. A command that is not the
next one recorded for its sender cancels all delay information.

What is hard: the interleaving of the processes; the two copies of each
structure, which drift apart between a RESULT and its timing command; the delay
information of one round deciding another one, in which the programs may behave
differently; and termination, since every answer depends on a command of
somebody else. What makes each part correct:

* mutex: exclusion; every LOCK answered; timing follows function; the order of
  the delay information is kept, and stays in step with the mutex.
* barrier: nobody passes early, in order of events and in simulated time; nobody
  is left behind.
* launch and communication: both sides agree on who talks to whom until the end
  of the transaction; a SEND does not end before its data is read; every command
  is answered.
* all: the bench is what the processes executed.

### D2D (`D2D/src`, `D2D/include`)

| part | state | hard behaviour | modules |
|---|---|---|---|
| link management (`d2dadapter/link_*`, `stall_handler`, `logphy/rdi_bringup`, `protocol/protocol_layer`) | link state, request/response flags of the submodules, stall handshakes, RDI state | two dies acting at once, fixed-priority use of one sideband port, flags that live for one sub-state, stall handshake | `LinkExit`, `LinkInit`, `StallHandlers`, `RdiBringup`, `LinkManagement` |
| sideband (`sideband/`) | priority queues, credits, serialiser, switch | credits and full queues, arbitration | `SidebandNode`, `SidebandPath` |
| training (`logphy/link_training_fsm`, `mb_init_fsm`, `sb_msg_wrapper`, `pattern_generator`) | state machines, message exchange with timeout | a timeout racing the answer; one side succeeding alone | `MsgExchange`, `PatternClock`, `ParamExchange`, `LinkTraining` |
| parity negotiation (`parity_negotiation_submodule`) | flags, timer | works in retrain, which nothing enters | |
| queues, clocks (`utils/`) | ring pointers, registers | pointer width, reset, two clocks | the queue and the counter in `SidebandNode` |
| data path (`d2d_mainband_module`, `parity_generator`, lanes, coupler, Hamming code) | buffers | flow control under stall | the stall register in `StallHandlers` |
| assembly (`d2d_adapter`, `logical_phy`, `ccps_top`) | wiring | | the `Edge` actions |

How they interact. Each module of this code is a set of registers and wires. In
one clock edge every module computes the next values of its registers from the
present ones (`calcNextState`), then all registers change (`utils/module.cpp`).
So the code of one die is synchronous, and everything between two dies is not:
their clocks are unrelated, and the sideband takes any time. What makes each
part correct:

* link management: both dies are up or both are down in the end, no request takes
  a die down twice, nobody sends to a receiver that is off, the PHY does not
  move under a mainband that is still sending.
* sideband: credits are neither made nor lost, so that a queue is never asked to
  take more than it can; order per source and class; delivery.
* training: a die does not finish alone, both end with the same rate, and
  training ends.

Not ours: `.changed_files` and `interchiplet/patch` (patched gem5, sniper,
gpgpu-sim), `benchmark/` (example programs), `test/` and the tests at the root
(they include headers that no longer exist), `interchiplet/depreciate` (the
previous version). `popnet`, the network simulator, is a submodule whose sources
are absent; it appears as constants, what it may make of a bench (`Arrivals`, `Networks`).

## Modules

| module | what it is |
|---|---|
| `LockStruct` | operators on one mutex (`SyncLockStruct`) |
| `BarrierStruct` | operators on one barrier (`SyncBarrierStruct`) |
| `CommandLists` | matching and removal in a list of pending commands (`SyncLaunchStruct`, `SyncCommStruct`) |
| `DelayOrder` | the delay records and orders (`NetworkDelayMap`, `NetworkDelayStruct`) |
| `EndCycle` | the end cycles computed from a delay record |
| `SyncLock` | mutex transactions of all processes over rounds |
| `SyncBarrier` | barrier transactions over rounds, with simulated cycles |
| `SyncMessage` | launch and communication transactions over rounds, with the named pipes |
| `AbstractLock` | what a mutex promises: one owner, owner chosen among those waiting |
| `MCSyncLock`, `MCSyncBarrier`, `MCSyncMessage` | the instances TLC checks |
| `LinkExit` | the handshake to leave a working link (`LinkResetSubmodule`, `LinkDisabledSubmodule`) |
| `LinkInit` | the initialisation between reset and active (`LinkInitSubmodule`) |
| `StallHandlers` | the stall handshakes and the stall register of the mainband |
| `RdiBringup` | the state machine of the RDI (`RdiBringup`) |
| `LinkManagement` | two dies: controller, the four modules above, protocol layer, sideband |
| `SidebandNode` | one hop: serialiser with credits, deserialiser, priority queues |
| `SidebandPath` | two hops with the switch of a layer between them |
| `MsgExchange` | one exchange of a training message (`SBMsgWrapper`) |
| `PatternClock` | the clock pattern (`PatternGenerator`) |
| `ParamExchange` | the exchange of parameters (`MBInitFSM`) |
| `LinkTraining` | two PHYs from reset to linkInit or linkError (`LinkTrainingFSM`) |
| `MCLinkManagement`, `MCSidebandPath`, `MCLinkTraining` | the instances TLC checks |
| `ListLemmas` | facts about lists: removing, appending, and how often an item occurs |
| `SyncLock_proofs` | theorems about `SyncLock`: commands, bench, grants, parked LOCKs |
| `SyncLockExclusion_proofs` | theorems about `SyncLock` with disciplined processes: exclusion, refinement, timing, use of the delay information |
| `SyncBarrier_proofs`, `SyncMessage_proofs` | theorems about `SyncBarrier` and `SyncMessage` |
| `LinkManagement_proofs`, `SidebandPath_proofs`, `LinkTraining_proofs` | theorems about these modules |

`SyncLock`, `SyncBarrier` and `SyncMessage` have the same frame. `prog[p]` is
what process p has still to do, `pc[p]` where it is in its transaction, `cmd[p]`
the transaction, `resp[p]` what has been written to its standard input and not
read. Printing a command and handling it are one action (`HandleLockCmd`, ...):
the process does nothing between the print and the blocking read, and the
handler runs under the mutex of `SyncStruct` from the order check on. Reading
the answer is another action (`ReadResult`, `ReadSync`), since the manager goes
on in between. `NextRound` is the end of phase one, phase two, and the start of
the next phase one: every structure is new, the bench has become the delay
information. A command is represented by its source in the queues, since a
process has one command outstanding; that this is so is checked
(`NoCommandForgotten`), not assumed.

The order check, the manager's structures and the delay maps are the code's,
operator by operator; names are the code's where it has one. Two copies of a
structure are two variables (`lockStruct`/`lockTiming`, `barrier`/`timing`).

The D2D modules have another frame. The registers of a submodule are a record;
an operator named after it (`InitNext`, `SerNext`, `ParamNext`, ...) takes the
record and the wires and returns the record after an edge. The composed modules
have one action `Edge` in which all records of a die (of both nodes of a hop,
which share a clock) change from the unprimed state, as the registers do; what
comes from outside, a word, a stall, a lock of the PLL, is a parameter of it.
`LinkManagement` and `LinkTraining` have an `Edge` per die, and the edges
interleave. Wires that are functions of registers are operators with the name of
the state they decide (`LeaveActive`, `SbSnd`, `PassFirst`). What a later
assignment to the same register overrides in the code is overridden in the
operator (`NextCredit`, `ExchangeNext`).

Abstractions in interchiplet. Cycles: only `SyncBarrier` has them (ratio one for every clock);
elsewhere the order they imply is an arbitrary choice of the network within the
constant `Arrivals` (`Arranges`: each request for a mutex appears in its order as
often as it was made), and the bench of one source is in program order, because a
process's cycles do not decrease. Addresses are process or uid model values.
Messages are counted, not carried. Descriptors keep the bits that the order
check compares and that select a handler. The file formats, logging and the
printing of fields are left out. In each model the processes use one family of
transactions; the families share only the delay information per source and its
cancellation, which all three contain.

Abstractions in D2D. A packet or word is a record of what the circuit looks at
(class, address, code, data rate) and a number for the properties; it is on the
wires for a number of beats. Time-outs are an input (`late`) that may come in any
edge, instead of counters of millions of cycles; `patient` is the behaviour in
which none comes. Between two dies `LinkManagement` has a reliable sideband of
any delay, `LinkTraining` one that may lose a word. `LinkManagement` begins where
`LinkTraining` ends, in linkInit, and does not depend on how it got there. Two
wires are parameters of `LinkManagement` because the modules that drive them in
the assembly contradict the tests: `RxFollows` and `PhyPresent`, see the run
`link_bringup` and *Observations*.

## Runs

| run | expected | question |
|---|---|---|
| `lock_replay` | pass | do disciplined programs, repeated, get a mutex, in the network's order, and end? |
| `lock_any` | pass | what still holds for arbitrary programs in the second round? |
| `lock_changed` | violation | is every command answered when delay information is cancelled? |
| `lock_reentrant` | violation | is every command answered when a process locks twice? |
| `barrier_meet` | pass | do barriers hold, in order of events and in simulated time? |
| `barrier_stale` | violation | does a barrier hold in simulated time when processes come later than before? |
| `message_replay` | pass | do launches and messages stay paired, and do programs end? |
| `launch_crossed` | violation | is every command answered when two clients launch two servers crosswise? |
| `link_pair` | pass | do two dies come up and go down together, whoever asks, and whatever the sideband's delay? |
| `link_bringup` | violation | does the link come up with the protocol layer of the repository? |
| `sideband_path` | pass | what do credits guarantee, and is everything else delivered in order? |
| `training` | pass | do two PHYs train together, at one rate, and always end? |

What the passing runs show: `lock_replay` checks exclusion, that the timing
mutex belongs to the functional owner or to the process that has just released
it (so at most one WRITE(LOCK) overtakes a WRITE(UNLOCK), which is all that
`handle_unlock_write_cmd` provides for), that a LOCK waits on a free mutex only
for a process that is still to come, that a repeated round consumes its delay
information exactly, that the iteration ends, and that `AbstractLock` is
implemented. `lock_any` keeps what does not depend on the programs: one answer
per command, a faithful bench, grants in order until cancellation.
`barrier_meet` compares, for every two members, how often each has entered and
left, and every SYNC cycle with the cycles of the others. `message_replay`
checks the agreement of both sides of a launch from RESULT to SYNC, that pipes
and SYNCs keep in step, the bench, the launch order and termination.

`link_pair`: the bring-up of both dies, then a request for link reset or disabled
by one user, or a fault on one die. `LeftOnce` counts how often a die has gone
down against how often a user asked; `LeaveTogether` compares the two dies when
all is quiet; `ReceiverFirst` and `MainbandStopped` relate the state of one part
to a register of another part, of the partner or of the mainband, that was set
by a handshake several edges before; `Settles` is the liveness of the link. The
exception in `Settles` and `LeaveTogether`, a message that left no trace, is the code's: a flag is
kept only in the sub-state that uses it. The exceptions for `disabled` and
linkError in `MainbandStopped` are also the code's.

`sideband_path`: `Ledger` is the exact account of the credits of a hop, with two
history variables for the two leaks of the code: a credit gained when one comes
back in the edge of a payment, and a credit lost with the packet a full queue
drops. `LossIsGain` says that without the first the second does not happen.
`InOrder` and `Delivered` are over both hops and the arbitration between what
passes and what is sent here.

`training`: `InStep` says that no word left over from an earlier exchange
completes a later one; `TrainedTogether` what a die may conclude about its
partner when it is done; `RatesAgree` that both conclude the same rate, unless
the rate was read when no request was on the wires (`blind`, which happens);
`Ends` and `Trains` are liveness, with and without time-outs and losses. Four
patterns seen before two are sent make a counter wrap (`wrapped`, which happens);
without that exception `Trains` would not hold.

What the violations show. Each checks one sentence of the documentation, or what a test establishes.

* `lock_changed`: `clearDelayInfo` leaves a LOCK parked on a free mutex.
* `lock_reentrant`: a repeated LOCK leaves one lock record too many for the next
  round, which then waits for a LOCK nobody issues.
* `barrier_stale`: `getBarrierCycle` takes the cycles of the previous round, so a
  process may leave before another one enters. `ReleaseIsTimely`, with the
  condition that nobody comes later than in that round, holds.
* `launch_crossed`: launch orders are kept per destination and need not agree
  with the programs of the clients.

* `link_bringup`: the protocol layer turns its receiver on only when the link is
  active, the adapter makes the link active only when the receiver is on; the
  test of the adapter turns it on while the link is in reset. Both dies stay in
  reset for ever, although clocks and sideband are fair.

Bounds of the interchiplet runs. Two rounds: delay information comes from the previous round only, so two
rounds are the first instance of every interaction between rounds and a third
starts from the same kind of state. Three processes: an owner, the one the order
names, and one that is neither. Two mutexes, two barriers, two servers: the
order check compares destinations. Programs are listed in the MC modules; they
are chosen for contention, re-use, default counts, changes between rounds and
both orders of dependent commands. `Gaps` and `Latencies` have two values each:
one process late, or not. Nothing else is bounded: programs are finite, so the
state spaces are.

Bounds of the D2D runs. `MaxAsks`, `MaxFaults`, `MaxEvents` = 1: one request or
one fault after a complete bring-up; with a second request a late response of
the first takes a die down again (see *Observations*), so `LeaveTogether` is
claimed for one. `Beats` = 3 (link) makes a message take longer than a chain of
register updates in one die; the number of messages on the way is not bounded.
`Beats` = 2 (sideband) is the least for which a packet is under way between two
edges; `MaxCredit` = 2 and three packets make credits run out and come back in
the edge of a payment; `CompleteDepth` = 1 and two completions fill their queue;
`CreditRange` = 8 lets the register hold every credit that can be gained.
`Capacity` = 1 and `MaxLosses` = 1: one word under way per direction, one lost;
a word is repeated in every edge, so more in flight are copies. `LockWait` = 2 is
the least period with an edge in which the count is not over.

Deadlock is checked where the system must not stop (`Stop` is the end of main);
it is off in `lock_any`, where a program may end holding its mutex, and in the
runs that look for a blocked process.

Fairness. `FairSpec` assumes weak fairness of each process and of the iteration:
a simulator keeps executing, its bridge thread polls it for ever
(`interchiplet.cpp:268`), handlers do not block while they hold the mutex, and
phase two ends. No fairness between processes or on the choice of the network is
assumed. A process blocked for an answer has no enabled step, so fairness of its
step promises nothing about the answer.

In D2D the clock of each die runs (weak fairness of its edges), a message on its
way arrives while the receiver is ready, and the sideband takes what is offered
long enough: these are edges with a certain input, and weakly fair. In
`SidebandPath` the sources and sinks are strongly fair, because a credit or the
switch may be free only now and then: a source keeps its packet on the wires,
which the valid/ready protocol requires, so it is there when they are.
In `LinkTraining` the counters of time run whenever an exchange does, which is
weak fairness of the edge with `late`; nothing makes `patient` behaviours time out.

## Proofs

Every theorem is about `Spec`, without fairness, for all values of the constants
that satisfy the assumptions named with it; no bound of the runs is used. Every
invariant and every action property the passing runs check is a theorem; the
hypotheses some of them need beyond `Spec` are given with them, and what is only
model-checked is at the end of this section.

### Mutexes (`SyncLock_proofs`, `SyncLockExclusion_proofs`)

For every set of processes and mutexes, every list of programs of any length and
number, and every `Arrivals` (`NoProcAssumption`, `MutexAssumption`,
`PlansAssumption`, `ArrivalsAssumption`), whatever the programs do:

* `TypeCorrect`: `TypeOK`. The invariant `Inv1` adds that bench, current
  transaction and remaining program make up the plan (`BenchCorrect`); it is
  needed to show that the next round's source records have the right type.
* `NoCommandLost`: `NoCommandForgotten`, which is inductive together with
  `TypeOK`. It is split into the answers and the two families of queues; the
  lemmas `Park` and `HandOver` say what parking and serving a command do to a
  list without repetitions, and every handler is one of them or neither.
* `OrderFollowed`: an action property, from the two above: the front of the order
  is popped in exactly those steps in which the mutex gets an owner.
* `NobodyOrphaned`: `NoOrphan` under `Spec /\ []Recorded`. `Recorded` says that
  each command a process is about to print is the next one recorded for it, which
  is when the code keeps the delay information; `lock_changed` shows that the
  hypothesis is necessary. `ReplayNobodyOrphaned` discharges it: if every round
  repeats the programs of the one before (`Replayed`), the records are always
  what the programs have still to do (`InStep`), disciplined or not.

For disciplined processes, that is under `Spec /\ []Disciplined`:

* `Exclusion`: `MutualExclusion`. The inductive invariant `OwnerInv` relates the
  processes that hold a mutex, or have an unread RESULT for it, to the state of
  `lockStruct`: a locked mutex has exactly one and it is the source of the last
  command. Exclusion alone is not inductive, because the grant is in the queue of
  answers before the process knows of it. `Disciplined` is a hypothesis and not
  an assumption on `Plans`, because what a process holds is determined by its
  run; the run `lock_replay` has disciplined programs only. It is necessary:
  `handle_unlock_cmd` does not compare the source with the owner.
* `Refinement`: `AbstractLock` is implemented. Each handler acquires, waits,
  releases (with or without a successor) or stutters; one lemma per kind.
* `TimingCorrect`: `TimingFollows`. `TimingInv` says, for each state of a timing
  mutex, which processes may have a WRITE(LOCK) or WRITE(UNLOCK) outstanding; it
  rests on `OwnerInv`, because the timing copy is only ever moved by a process
  that owns the functional one or has just released it.

`ReplayUsesDelayInfo` proves `DelayInfoUsedUp` for rounds that repeat
(`Replayed`) and processes that do not lock what they hold (`NotReentrant`,
necessary by `lock_reentrant`). It is a counting argument (`OrderCounted`): what
is left of the order of a mutex contains each process as often as it has LOCKs of
it to go, parked ones included. It is the only theorem that needs
`RequestsAssumption`, that the network orders exactly the requests made.

### Barriers (`SyncBarrier_proofs`)

For every set of barriers, finite set of processes, programs whose counts agree
with who uses the barrier, computing times and latencies (`ConstantsAssumption`,
`PlansAssumption`, `NetworksAssumption`, `CountsAssumption`):

* `TypeCorrect` and `EveryCommandAnswered`: `TypeOK` and `NoCommandForgotten`. A
  list of a barrier holds exactly the processes blocked for it, once each.
* `BarriersHold`: `BarrierHolds`, in both structures. `Inv2` says why a list that
  reaches its count holds the whole barrier: the members of a barrier have left it
  equally often and have been released equally often (`Together`), the lists hold
  exactly those that have entered once more, and a count that is known is the
  number of members (`CountsKnown`), also when the last command gave none:
  `BarrierStruct` keeps the count of the last command that had one. This is where
  `CountsAssumption` is used.
* `BarrierReleaseIsTimely`: `ReleaseIsTimely`, with the property's own condition
  that nobody comes later than in the previous round (`barrier_stale` is what
  happens without it).

### Launches and messages (`SyncMessage_proofs`)

For every set of processes, programs and `Arrivals` (`AnySourceAssumption`,
`CallerAssumption`, `PlansAssumption`; nothing is assumed of `Arrivals`):

* `TypeCorrect` and `NoCommandLost`: `TypeOK` and `NoCommandForgotten`. The
  invariant `Inv1` gives every list of pending commands and every stream of
  answers as a function of what the processes are blocked for; without that, a
  launch could be matched with a command that is no longer there.
* `LaunchesInPairs` and `DataIsTaken`: `LaunchInPairs` and `DataBeforeSync`. READ
  and WRITE are matched by peer and size, not by transaction, so that they belong
  together must follow from where both processes are in their transactions. `Inv2`
  adds to the two properties who called a server (`CallerKept`) and how the
  messages in a pipe follow from the SENDs and RECEIVEs under way (`PipesInStep`).
* `LaunchesInOrder`: the action property `LaunchesFollowOrder`.
* `BenchCorrect`: `BenchIsExecution`. `Inv3` adds the place of each process in its
  program (`InProgram`, `Benched`). The flags of a record come from the
  pairing of a WRITE with a READ, so this rests on `LaunchInPairs`.
* `NobodyOrphaned` and `ReplayNobodyOrphaned`: `NoOrphan` under
  `Spec /\ []Recorded`, and for rounds that repeat (`Replayed`) programs that
  name their destinations and accept any source (`ServesAnyone`). The second
  hypothesis is necessary: see the first entry of *Observations*.

### Link management (`LinkManagement_proofs`)

For two dies, every set of requests, numbers of requests, faults, messages and
beats, and both variants of the receiver and of the PHY's presence
(`DieAssumption`, `ParametersAssumption`):

* `TypeCorrect`: `TypeOK`.
* `MainbandStops`: `MainbandStopped`. The PHY leaves active several edges after
  the stall handshake, so the invariant says what each sub-state between them
  implies for the stall register (`RequestFollows`).
* `OneDeparturePerRequest`: `LeftOnce`. A counting argument (`Paid`): the
  departures of a die, and the flags and messages that can still cause one, never exceed
  what the users have asked for. Messages on the way have to be part of the sum,
  since a request takes down the die that asked and the partner.
* `ReceiversFirst`: `ReceiverFirst` for users who ask in active
  (`AskIn \subseteq {"active"}`) and under `Spec /\ []NoneHasLeft`, that is for the
  first bring-up, with faults and with requests under way. `InvR` has four parts:
  the PHY stays active under an adapter that has seen it so (`PhyHolds`); the
  receiver goes off only in a die that leaves (`ReceiverKept`); who asks to leave,
  or has answered, is active (`ExitsLate`); and what the ACTIVE messages on the way say
  about their sender (`Handshake`). That a request to leave does not overtake the
  ACTIVE response is the order of the sideband (`ResponseFirst`). Without either
  hypothesis the property fails (see *Observations*); for two requests TLC finds
  no counterexample with one of them alone, but then the proof would need more:
  which messages of an earlier bring-up are still on their way, or how a request
  made in reset races with the handshake.

### Sideband (`SidebandPath_proofs`)

For every set of packets with classes, every plan of the two sources, every
number of beats greater than one, of credits and of places for completions
(`PacketAssumption`, `NodeAssumption`, `PlansAssumption`):

* `TypeCorrect`, `CreditsAddUp`, `LossNeedsGain`: `TypeOK`, `Ledger` and
  `LossIsGain`. Neither of the last two
  is inductive: that a payment finds a credit to pay with depends on what was
  checked when the packet was taken, a packet's length before; that the packet
  offered to the queues is the one paid for depends on both ends counting the
  same beats. `HopInv` says so for one hop, in two parts: what holds whatever the
  credits are (`HopType`), and what holds as long as the credit register cannot
  have wrapped (`HopLedger`). `EdgeSteps` reduces an edge of the whole path to a
  step of each hop, so the rest is about one hop; `CreditedQueues` and
  `FullQueue` are the two facts that tie the queues to the credits.
* `DeliveredInOrder`: `InOrder`, under `Spec /\ []NoWrap` and `NumbersAssumption`
  (packets of a source and class are numbered upwards). A packet passes through
  stages, from the source's plan to the layer that takes it; the invariant says
  that a packet in a later stage has a smaller number than every packet of its
  class in an earlier one. After a wrap of the credit register a packet may be
  sent twice, hence the hypothesis; the run excludes the wrap by `CreditRange`.

### Training (`LinkTraining_proofs`)

For any two dies, any data rates, any number of words on their way and of words
lost, and any times that run out (`DieAssumption`, `TrainingAssumption`):

* `TypeCorrect`, `ExchangesInStep`, `DiesTrainTogether`, `RatesAgreed`: `TypeOK`,
  `InStep`, `TrainedTogether` and `RatesAgree`.
  `InStep` alone is not inductive: that an exchange which reports success was
  begun by the partner depends on every word on the way, repeated or left over,
  being one the partner has begun, and on the register `received` not surviving
  its exchange (`Exchanged`). `TrainedTogether` adds how the steps of the
  parameter exchange determine which exchanges are done (`Progressed`), and
  `RatesAgree` where each rate is known: in the request, on the wire, in the data
  register, in the result (`Agreed`). `EdgeView` states what an edge leaves of
  the registers of both dies, so each part is proved once for the die that moves
  and once for its partner, of which only the wire changes.

### Only model-checked

* Termination and every other liveness property: the prover does no fairness.
* `ReceiverFirst` of `LinkManagement` in a bring-up after a link reset, with
  users who ask in active. An invariant for it has to say which messages of the
  earlier bring-up may still be on their way.
* `NoOrphan` of `SyncMessage` for programs outside `Recorded` and `ServesAnyone`,
  of which `message_replay` has one (`Named`, once).

Nothing is proved by induction over data; the modules have no recursive
definitions, and what is counted (`Places`, `Rank`) is counted by the cardinality
of a set of positions, about which `ListLemmas` has the facts used.

## Observations

What the code does that a reader of its documentation would not expect, met while
modelling and proving.

* A WAITLAUNCH that names its source and the delay information contradict each
  other: `handle_waitlaunch_cmd` looks for the source that is next in the launch
  order, whatever the command names, but parks the command under the name it has.
  Let two clients launch a server in one order while their requests arrived in
  the other. In the next round the server gets the wrong client, or waits for
  ever for one that is parked. It was met in the proof of `NoOrphan`, where
  `Recorded` has to speak of names, and TLC finds it when the programs `Named`
  are repeated.
* The ACTIVE response of `link_init_submodule.cpp` is a promise that outlives the
  bring-up it was made in. If a user may ask for a link reset while the link is
  still coming up, and does so twice (`AskIn = {"reset"}`, `MaxAsks = 2`,
  `ExitRequests = {"linkReset"}`, `RxFollows = TRUE`), a die sends its
  capabilities twice; its partner, which went down in between, takes the second
  for its own second bring-up together with the response to its first, and goes
  to active while the other's receiver is already off. TLC finds this violation of
  `ReceiverFirst` and none with users who ask in active, or ask once. The runs
  let users ask in active, which is when the protocol layer's interface has
  something to leave.
* `protocol_layer.cpp:76`: see `link_bringup`.
* `logical_phy.cpp:50` reports the PHY present only in the training state active,
  which RDI bring-up enters only after the adapter has asked, which the adapter
  does only when the PHY is present. `MCLinkManagement` sets `PhyPresent`.
* `link_init_submodule.cpp:154`: a message one sub-state early is lost for ever.
* A late RSP of two crossed link-reset requests may take a die down again at the
  next request (`link_reset_submodule.cpp:50`).
* `rdi_bringup.cpp:152` and `:40` do not read the status of the exchange, so a
  failed one brings the RDI up; `:35` lets a request mask an error; `:129` lets
  `disabled` pass the stall wait.
* `sideband_node.cpp:205-212`: a returning credit overrides a payment;
  `:35`: nothing is ever refused.
* `d2d_sideband_module.cpp:39`: the lower node of the adapter's switch is never
  ready, while messages of the partner come from there.
* `sideband_channel.cpp:76-110`: in raw mode the PHY channel takes only the raw
  input, while the training machine offers OUT_OF_RESET as a packet in that mode
  (`link_training_fsm.cpp:388-404`).
* `sideband_node.cpp:427`: the link serialiser's done flag is never cleared.
* `sb_msg_wrapper.cpp:98`: the data is read when the exchange ends, not when the
  message comes.
* `mb_init_fsm.cpp:22-29`: the error is visible an edge after the transition, so
  the branch to linkError in `link_training_fsm.cpp:328-333` is not taken.
* `async_queue.hpp:43-45`: a reset re-creates the pointers with half their range.

## Not modelled

* The byte stream from a child: reads of up to 1024 bytes, lines split across
  reads, stdout and stderr sharing one buffer (`interchiplet.cpp:80`). Planned.
* The death of a child. Planned with it.
* CYCLE, the maximum of cycles, and the convergence test (floating point).
* Cycles of lock, launch and communication transactions. Planned for locks.
* Clock ratios other than one, packet sizes, file formats, options, YAML.
* Parity negotiation: it works in the state retrain, which the assembled system
  does not enter (`link_training_fsm.cpp:471` ties the request to false).
* The sideband node towards the link and its raw mode, the encoding of messages,
  and the adapter's table of messages: what they do to the link is in
  *Observations*; the composition of the link models with them would block at
  the first message.
* The asynchronous queue, the data path, Hamming code and parity.
* Third-party code: `.changed_files` (about 23,000 of the 38,000 lines that count
  as implementation are gem5, sniper and gpgpu-sim sources with a few system
  calls added). They are a simulator's internals, not this program's logic; the
  share of the whole tree the models cover is small for that reason.

## Plan

1. Done: locks with proofs, barriers, launches and communication; link
   management, sideband and training with proofs.
2. Theorems left: `ReceiverFirst` over several bring-ups;
   `NoOrphan` of `SyncMessage` for named WAITLAUNCHes whose order agrees with the
   arrival of the requests.
3. `BridgeThread`: the byte stream from a child and its death.
4. `AsyncQueue`, implementing an abstract queue; `ParityNegotiation`.
