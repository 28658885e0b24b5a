----------------------------- MODULE SyncMessage -----------------------------
(***************************************************************************)
(* The launch and the communication transactions of the synchronization    *)
(* manager (interchiplet): handle_launch_cmd, handle_waitlaunch_cmd,       *)
(* handle_pipe_cmd, handle_read_cmd and handle_write_cmd, with the order   *)
(* check of parse_command, iterated over rounds; and the named pipes       *)
(* through which the processes exchange the data themselves.               *)
(*                                                                         *)
(* A process performs a transaction in two halves.  It prints LAUNCH,      *)
(* WAITLAUNCH, SEND or RECEIVE and blocks until it reads a RESULT; a SEND  *)
(* or RECEIVE then moves the data; finally the process prints WRITE (after *)
(* LAUNCH and SEND) or READ, and blocks until it reads a SYNC.             *)
(***************************************************************************)
EXTENDS CommandLists, DelayOrder

CONSTANTS
  Caller,         \* in a program, the source that the last WAITLAUNCH returned
  Plans,          \* what the processes execute: one program per round
  Arrivals(_)     \* the orders in which the launch requests of a bench may arrive

Op == {"LAUNCH", "WAITLAUNCH", "SEND", "RECEIVE"}
Peer == Proc \cup {AnySource, Caller}
Cmd == [op : Op, peer : Peer, nbytes : Nat]
Program == [Proc -> Seq(Cmd)]

ASSUME CallerAssumption == Caller \notin Proc /\ Caller # AnySource

ASSUME PlansAssumption == \A plan \in Plans : plan # <<>> /\ plan \in Seq(Program)

VARIABLES
  plan,         \* the programs of all rounds
  round,        \* the current round
  prog,         \* the commands each process has still to issue this round
  pc,           \* what each process does: runs, moves data, or is blocked
  cmd,          \* the transaction each process is in, or was in last
  caller,       \* the source that the last WAITLAUNCH of each process returned
  resp,         \* answers to each process it has not read: a source or none
  launchList,   \* m_launch_cmd_list, per destination
  waitList,     \* m_waitlaunch_cmd_list, per destination
  writeList,    \* m_write_cmd_list, per destination
  readList,     \* m_read_cmd_list, per destination
  pipes,        \* m_pipe_set: the named pipes, each a source and a destination
  opened,       \* the pipes that both ends have opened
  inPipe,       \* the messages in each pipe
  srcDelay,     \* m_src_delay_map, per process
  launchDelay,  \* m_launch_delay_map, per destination
  bench         \* m_bench_list, per source

clientVars == <<prog, pc, cmd, caller>>
pipeVars == <<opened, inPipe>>
launchVars == <<launchList, waitList>>
commVars == <<writeList, readList>>
vars == <<plan, round, clientVars, resp, launchVars, commVars, pipes, pipeVars,
          srcDelay, launchDelay, bench>>

Pending == [src : Proc, nbytes : Nat, flags : SUBSET {"LAUNCH"}]
Record == [op : SUBSET {"LAUNCH"}, dst : Proc]

TypeOK ==
  /\ plan \in Plans /\ round \in DOMAIN plan
  /\ prog \in Program
  /\ pc \in [Proc -> {"run", "result", "data", "timing", "sync"}]
  /\ cmd \in [Proc -> Cmd]
  /\ caller \in [Proc -> Proc \cup {AnySource}]
  /\ resp \in [Proc -> Seq(Proc \cup {AnySource})]
  /\ launchList \in [Proc -> Seq(Proc)]
  /\ waitList \in [Proc -> Seq(Proc \cup {AnySource})]
  /\ writeList \in [Proc -> Seq(Pending)] /\ readList \in [Proc -> Seq(Pending)]
  /\ pipes \subseteq Proc \X Proc /\ opened \subseteq pipes
  /\ inPipe \in [Proc \X Proc -> Nat]
  /\ srcDelay \in [Proc -> Seq(Record)] /\ bench \in [Proc -> Seq(Record)]
  /\ launchDelay \in [Proc -> Seq(Proc)]

\* An address without commands or records, for every address.
Nothing == [p \in Proc |-> <<>>]

\* The first round finds no delay file.
Init ==
  /\ plan \in Plans
  /\ round = 1
  /\ prog = plan[1]
  /\ cmd = [p \in Proc |-> [op |-> "SEND", peer |-> p, nbytes |-> 0]]
  /\ pc = [p \in Proc |-> "run"]
  /\ caller = [p \in Proc |-> AnySource]
  /\ resp = Nothing
  /\ launchList = Nothing /\ waitList = Nothing
  /\ writeList = Nothing /\ readList = Nothing
  /\ pipes = {} /\ opened = {}
  /\ inPipe = [pipe \in Proc \X Proc |-> 0]
  /\ srcDelay = Nothing /\ launchDelay = Nothing
  /\ bench = Nothing
-----------------------------------------------------------------------------
(* The processes.                                                          *)

\* The next command of p, with the peer the program computes at run time.
NextCmd(p) ==
  LET c == Head(prog[p])
  IN  IF c.peer = Caller THEN [c EXCEPT !.peer = caller[p]] ELSE c

\* The process prints its next functional command.
Issue(p, op, peer) ==
  /\ pc[p] = "run"
  /\ prog[p] # <<>>
  /\ NextCmd(p).op = op /\ NextCmd(p).peer = peer
  /\ prog' = [prog EXCEPT ![p] = Tail(@)]
  /\ pc' = [pc EXCEPT ![p] = "result"]
  /\ cmd' = [cmd EXCEPT ![p] = NextCmd(p)]
  /\ UNCHANGED caller

\* The process prints the READ or WRITE command of its transaction.
IssueTiming(p, ops) ==
  /\ pc[p] = "timing"
  /\ cmd[p].op \in ops
  /\ pc' = [pc EXCEPT ![p] = "sync"]
  /\ UNCHANGED <<prog, cmd, caller>>

\* The process reads the RESULT it is blocked for.  That of a WAITLAUNCH names
\* the source of the launch.
ReadResult(p) ==
  /\ pc[p] = "result" /\ resp[p] # <<>>
  /\ resp' = [resp EXCEPT ![p] = Tail(@)]
  /\ pc' = [pc EXCEPT ![p] = IF cmd[p].op \in {"SEND", "RECEIVE"} THEN "data" ELSE "timing"]
  /\ IF cmd[p].op = "WAITLAUNCH"
     THEN /\ caller' = [caller EXCEPT ![p] = Head(resp[p])]
          /\ cmd' = [cmd EXCEPT ![p].peer = Head(resp[p])]
     ELSE UNCHANGED <<caller, cmd>>
  /\ UNCHANGED <<plan, round, prog, launchVars, commVars, pipes, pipeVars,
                 srcDelay, launchDelay, bench>>

\* The process reads the SYNC it is blocked for, and goes on.
ReadSync(p) ==
  /\ pc[p] = "sync" /\ resp[p] # <<>>
  /\ resp' = [resp EXCEPT ![p] = Tail(@)]
  /\ pc' = [pc EXCEPT ![p] = "run"]
  /\ UNCHANGED <<plan, round, prog, cmd, caller, launchVars, commVars, pipes, pipeVars,
                 srcDelay, launchDelay, bench>>

AtData(p, op, peer) == pc[p] = "data" /\ cmd[p].op = op /\ cmd[p].peer = peer

\* The first use of a named pipe opens it: open() returns at one end when the
\* other end opens it too.
OpenPipe(src, dst) ==
  /\ <<src, dst>> \in pipes \ opened
  /\ AtData(src, "SEND", dst) /\ AtData(dst, "RECEIVE", src)
  /\ opened' = opened \cup {<<src, dst>>}
  /\ UNCHANGED <<plan, round, clientVars, resp, launchVars, commVars, pipes, inPipe,
                 srcDelay, launchDelay, bench>>

\* PipeComm::write_data: the whole message goes into the pipe.
WriteData(src, dst) ==
  /\ <<src, dst>> \in opened
  /\ AtData(src, "SEND", dst)
  /\ inPipe' = [inPipe EXCEPT ![<<src, dst>>] = @ + 1]
  /\ pc' = [pc EXCEPT ![src] = "timing"]
  /\ UNCHANGED <<plan, round, prog, cmd, caller, resp, launchVars, commVars, pipes, opened,
                 srcDelay, launchDelay, bench>>

\* PipeComm::read_data: waits for the whole message.
ReadData(src, dst) ==
  /\ <<src, dst>> \in opened
  /\ AtData(dst, "RECEIVE", src)
  /\ inPipe[<<src, dst>>] > 0
  /\ inPipe' = [inPipe EXCEPT ![<<src, dst>>] = @ - 1]
  /\ pc' = [pc EXCEPT ![dst] = "timing"]
  /\ UNCHANGED <<plan, round, prog, cmd, caller, resp, launchVars, commVars, pipes, opened,
                 srcDelay, launchDelay, bench>>
-----------------------------------------------------------------------------
(* The handlers.                                                           *)

\* sendResultCmd and sendSyncCmd: value[p] is the answer to p.
Answer(value) ==
  resp' = [p \in Proc |-> IF p \in DOMAIN value THEN Append(resp[p], value[p]) ELSE resp[p]]

\* A RESULT without a source, or a SYNC, to the processes of P.
Plain(P) == [p \in P |-> AnySource]

\* The RESULTs of a launch: that of the WAITLAUNCH names the source.
Granted(src, dst) == [p \in {src, dst} |-> IF p = dst THEN src ELSE AnySource]

\* Faulty variant: a WAITLAUNCH has a flag of its own.
Flags_own(op) == IF op \in {"LAUNCH", "WAITLAUNCH"} THEN {op} ELSE {}

\* The descriptor flags of a transaction.
Flags(op) == IF op \in {"LAUNCH", "WAITLAUNCH"} THEN {"LAUNCH"} ELSE {}

\* parse_command: a command that is not the next one recorded for its sender
\* cancels all delay information.
CheckedOrder(p, op, dst) ==
  IF InOrder(srcDelay, p, Flags(op), dst) THEN launchDelay ELSE Cleared(launchDelay)

CheckedSource(p, op, dst) ==
  IF InOrder(srcDelay, p, Flags(op), dst) THEN srcDelay ELSE Cleared(srcDelay)

\* Faulty variant: a LAUNCH takes any WAITLAUNCH that fits.
Admits_always(order, p, dst) == TRUE

\* The delay information lets p be the next to launch dst.
Admits(order, p, dst) == HasAddr(order, dst) => FrontSrc(order, dst) = p

HandleLaunch(p, dst) ==
  LET order == CheckedOrder(p, "LAUNCH", dst)
      waits == MatchWaitlaunch(waitList[dst], p)
  IN
  /\ Issue(p, "LAUNCH", dst)
  /\ \/ /\ ~ Admits(order, p, dst) \/ waits = {}
        /\ launchList' = [launchList EXCEPT ![dst] = Append(@, p)]
        /\ launchDelay' = order
        /\ UNCHANGED <<resp, waitList>>
     \/ /\ Admits(order, p, dst) /\ waits # {}
        /\ waitList' = [waitList EXCEPT ![dst] = PopMatch(@, waits)]
        /\ launchDelay' = PopFront(order, dst)
        /\ Answer(Granted(p, dst))
        /\ UNCHANGED launchList
  /\ srcDelay' = CheckedSource(p, "LAUNCH", dst)
  /\ UNCHANGED <<plan, round, commVars, pipes, pipeVars, bench>>

\* The source that the delay information gives a WAITLAUNCH of p, or else the
\* source it names itself.
Wanted(p, src) == IF HasAddr(launchDelay, p) THEN FrontSrc(launchDelay, p) ELSE src

\* The order check does not apply to WAITLAUNCH.
HandleWaitlaunch(p, src) ==
  LET launches == MatchLaunch(launchList[p], Wanted(p, src))
  IN
  /\ Issue(p, "WAITLAUNCH", src)
  /\ \/ /\ launches = {}
        /\ waitList' = [waitList EXCEPT ![p] = Append(@, src)]
        /\ UNCHANGED <<resp, launchList, launchDelay>>
     \/ /\ launches # {}
        /\ launchList' = [launchList EXCEPT ![p] = PopMatch(@, launches)]
        /\ launchDelay' = PopFront(launchDelay, p)
        /\ Answer(Granted(FirstMatch(launchList[p], launches), p))
        /\ UNCHANGED waitList
  /\ UNCHANGED <<plan, round, commVars, pipes, pipeVars, srcDelay, bench>>

\* SEND and RECEIVE: the pipe is created at its first use in a round.
HandleSend(p, dst) ==
  /\ Issue(p, "SEND", dst)
  /\ pipes' = pipes \cup {<<p, dst>>}
  /\ Answer(Plain({p}))
  /\ srcDelay' = CheckedSource(p, "SEND", dst)
  /\ launchDelay' = CheckedOrder(p, "SEND", dst)
  /\ UNCHANGED <<plan, round, launchVars, commVars, pipeVars, bench>>

HandleReceive(p, src) ==
  /\ Issue(p, "RECEIVE", src)
  /\ pipes' = pipes \cup {<<src, p>>}
  /\ Answer(Plain({p}))
  /\ UNCHANGED <<plan, round, launchVars, commVars, pipeVars, srcDelay, launchDelay, bench>>

\* Faulty variant: the bench record has no descriptor.
PairFlags_none(write, read) == {}

\* The descriptor of a bench record joins those of the two commands.
PairFlags(write, read) == write \cup read

\* A WRITE and a READ are paired: the record for the network, the record of
\* the network, the two answers.
Pair(src, dst, flags) ==
  /\ bench' = [bench EXCEPT ![src] = Append(@, [op |-> flags, dst |-> dst])]
  /\ srcDelay' = PopItem(srcDelay, src, dst)
  /\ Answer(Plain({src, dst}))

\* READ, after WAITLAUNCH and RECEIVE.
HandleRead(p) ==
  LET src == cmd[p].peer
      flags == Flags(cmd[p].op)
      writes == MatchComm(writeList[p], src, cmd[p].nbytes)
  IN
  /\ IssueTiming(p, {"WAITLAUNCH", "RECEIVE"})
  /\ \/ /\ writes = {}
        /\ readList' = [readList EXCEPT ![p] =
             Append(@, [src |-> src, nbytes |-> cmd[p].nbytes, flags |-> flags])]
        /\ UNCHANGED <<resp, writeList, srcDelay, bench>>
     \/ /\ writes # {}
        /\ writeList' = [writeList EXCEPT ![p] = PopMatch(@, writes)]
        /\ Pair(src, p, PairFlags(FirstMatch(writeList[p], writes).flags, flags))
        /\ UNCHANGED readList
  /\ UNCHANGED <<plan, round, launchVars, pipes, pipeVars, launchDelay>>

\* WRITE, after LAUNCH and SEND.
HandleWrite(p) ==
  LET dst == cmd[p].peer
      flags == Flags(cmd[p].op)
      reads == MatchComm(readList[dst], p, cmd[p].nbytes)
  IN
  /\ IssueTiming(p, {"LAUNCH", "SEND"})
  /\ \/ /\ reads = {}
        /\ writeList' = [writeList EXCEPT ![dst] =
             Append(@, [src |-> p, nbytes |-> cmd[p].nbytes, flags |-> flags])]
        /\ UNCHANGED <<resp, readList, srcDelay, bench>>
     \/ /\ reads # {}
        /\ readList' = [readList EXCEPT ![dst] = PopMatch(@, reads)]
        /\ Pair(p, dst, PairFlags(flags, FirstMatch(readList[dst], reads).flags))
        /\ UNCHANGED writeList
  /\ UNCHANGED <<plan, round, launchVars, pipes, pipeVars, launchDelay>>
-----------------------------------------------------------------------------
(* The iteration.                                                          *)

RoundOver == \A p \in Proc : prog[p] = <<>> /\ pc[p] = "run"

Finished == RoundOver /\ round = Len(plan)

\* loadDelayInfo: the launch order of q consists of the launch requests for q in
\* the bench, given by their sources, in the order in which they arrived.
Arranges(order, b) ==
  /\ order \in [Proc -> Seq(Proc)]
  /\ \A p, q \in Proc : Places(order[q], p) = Places(b[p], [op |-> {"LAUNCH"}, dst |-> q])

\* The pipes are removed, the bench goes through the network simulation, and
\* the next phase one starts with new processes and a new SyncStruct.
NextRound ==
  /\ RoundOver
  /\ round < Len(plan)
  /\ round' = round + 1
  /\ prog' = plan[round + 1]
  /\ caller' = [p \in Proc |-> AnySource]
  /\ launchList' = Nothing /\ waitList' = Nothing
  /\ writeList' = Nothing /\ readList' = Nothing
  /\ pipes' = {} /\ opened' = {}
  /\ inPipe' = [pipe \in Proc \X Proc |-> 0]
  /\ srcDelay' = bench
  /\ \E order \in Arrivals(bench) : Arranges(order, bench) /\ launchDelay' = order
  /\ bench' = Nothing
  /\ UNCHANGED <<plan, pc, cmd, resp>>

HandleCmd(p) ==
  \/ \E dst \in Proc : HandleLaunch(p, dst) \/ HandleSend(p, dst)
  \/ \E src \in Proc \cup {AnySource} : HandleWaitlaunch(p, src)
  \/ \E src \in Proc : HandleReceive(p, src)
  \/ HandleRead(p)
  \/ HandleWrite(p)

Step(p) ==
  \/ HandleCmd(p)
  \/ ReadResult(p)
  \/ ReadSync(p)
  \/ \E q \in Proc : OpenPipe(p, q) \/ WriteData(p, q) \/ ReadData(q, p)

\* main has nothing left to do.
Stop == Finished /\ UNCHANGED vars

Next == (\E p \in Proc : Step(p)) \/ NextRound \/ Stop

Spec == Init /\ [][Next]_vars

\* A simulator process keeps executing, its bridge thread keeps polling, and
\* no handler blocks while it holds the manager's mutex.
Fairness == (\A p \in Proc : WF_vars(Step(p))) /\ WF_vars(NextRound)

FairSpec == Spec /\ Fairness
-----------------------------------------------------------------------------
(* Properties.                                                             *)

Blocked(p, op, stage) == pc[p] = stage /\ cmd[p].op = op /\ resp[p] = <<>>

CommEntry(p, src) == [src |-> src, nbytes |-> cmd[p].nbytes, flags |-> Flags(cmd[p].op)]

\* Every command gets exactly one answer: a blocked process has either one
\* command pending, in the list of its kind and destination, or one unread
\* answer; and nothing else is pending.
NoCommandForgotten ==
  /\ \A p \in Proc :
       /\ Len(resp[p]) <= (IF pc[p] \in {"result", "sync"} THEN 1 ELSE 0)
       /\ Blocked(p, "LAUNCH", "result") => Places(launchList[cmd[p].peer], p) = 1
       /\ Blocked(p, "WAITLAUNCH", "result") => waitList[p] = <<cmd[p].peer>>
       /\ \A op \in {"LAUNCH", "SEND"} : Blocked(p, op, "sync") =>
            Places(writeList[cmd[p].peer], CommEntry(p, p)) = 1
       /\ \A op \in {"WAITLAUNCH", "RECEIVE"} : Blocked(p, op, "sync") =>
            readList[p] = <<CommEntry(p, cmd[p].peer)>>
  /\ \A q \in Proc :
       /\ \A i \in DOMAIN launchList[q] :
            LET p == launchList[q][i] IN Blocked(p, "LAUNCH", "result") /\ cmd[p].peer = q
       /\ waitList[q] # <<>> => Blocked(q, "WAITLAUNCH", "result")
       /\ \A i \in DOMAIN writeList[q] :
            LET p == writeList[q][i].src
            IN  \E op \in {"LAUNCH", "SEND"} : Blocked(p, op, "sync") /\ cmd[p].peer = q
       /\ readList[q] # <<>> => \E op \in {"WAITLAUNCH", "RECEIVE"} : Blocked(q, op, "sync")

\* p has been granted its launch of q, and the WRITE of it is not answered.
Launching(p, q) ==
  /\ cmd[p].op = "LAUNCH" /\ cmd[p].peer = q
  /\ \/ pc[p] = "result" /\ resp[p] # <<>>
     \/ pc[p] = "timing"
     \/ pc[p] = "sync" /\ resp[p] = <<>>

\* q has been told that p launches it, and the READ of that is not answered.
Serving(q, p) ==
  /\ cmd[q].op = "WAITLAUNCH"
  /\ \/ pc[q] = "result" /\ resp[q] = <<p>>
     \/ pc[q] = "timing" /\ caller[q] = p
     \/ pc[q] = "sync" /\ resp[q] = <<>> /\ caller[q] = p

\* Both sides of a launch agree on it from its grant to its SYNC: no WRITE or
\* READ of another transaction comes between.
LaunchInPairs == \A p, q \in Proc : Launching(p, q) <=> Serving(q, p)

\* A SEND ends only when its message has been taken out of the pipe, so a pipe
\* never holds more than the message of the SEND in progress.
DataBeforeSync ==
  \A p, q \in Proc : inPipe[<<p, q>>] > 0 =>
    /\ inPipe[<<p, q>>] = 1
    /\ cmd[p].op = "SEND" /\ cmd[p].peer = q
    /\ pc[p] = "timing" \/ (pc[p] = "sync" /\ resp[p] = <<>>)

\* The transactions that leave a bench record at their source, which they name.
Sends(c) == c.op \in {"LAUNCH", "SEND"}

\* The transactions of a program up to the n-th that leave a record.
Sendings(program, n) == {i \in 1..n : Sends(program[i])}

\* p is in a transaction that is not paired yet.
InTransaction(p) == pc[p] # "run" /\ (pc[p] = "sync" => resp[p] = <<>>)

\* The number of transactions of its program that p has completed this round.
Completed(p) ==
  Len(plan[round][p]) - Len(prog[p]) - (IF InTransaction(p) THEN 1 ELSE 0)

\* The records are those of the first n transactions of the program, in order.
Reflects(records, program, n) ==
  /\ Len(records) = Cardinality(Sendings(program, n))
  /\ \A i \in Sendings(program, n) :
       records[Cardinality(Sendings(program, i))] =
         [op |-> Flags(program[i].op), dst |-> program[i].peer]

\* A program that names the destinations of its transactions itself.
Explicit(program) == \A i \in DOMAIN program : Sends(program[i]) => program[i].peer \in Proc

\* The bench handed to the network simulation is what the processes executed,
\* less the transactions not yet paired.
BenchIsExecution ==
  \A p \in Proc : Explicit(plan[round][p]) => Reflects(bench[p], plan[round][p], Completed(p))

\* A LAUNCH and a WAITLAUNCH that fit each other both stay pending only while
\* the delay information names another source, whose LAUNCH is yet to come.
NoOrphan ==
  \A p, q \in Proc :
    p \in ToSet(launchList[q]) /\ ToSet(waitList[q]) \cap {AnySource, p} # {} =>
      HasAddr(launchDelay, q) /\ FrontSrc(launchDelay, q) \notin ToSet(launchList[q])

\* As long as the delay information is valid, a process is launched by its
\* sources in the order in which the LAUNCH requests of the previous round
\* reached it, and the information stays in step.
LaunchesFollowOrder ==
  [][\A p, q \in Proc :
       ~ Launching(p, q) /\ Launching(p, q)' =>
         \/ ~ HasAddr(launchDelay, q)
         \/ launchDelay[q] = Cons(p, launchDelay'[q])
         \/ launchDelay' = Cleared(launchDelay)]_vars

\* Every functional command is answered by a RESULT, every READ and WRITE by a
\* SYNC.
EveryCommandAnswered == \A p \in Proc : pc[p] \in {"result", "sync"} ~> resp[p] # <<>>

\* The simulation terminates: no round blocks.
Termination == <>Finished
=============================================================================
