------------------------- MODULE SyncBarrier_proofs -------------------------
(***************************************************************************)
(* Proofs about SyncBarrier, for any finite set of processes, any          *)
(* barriers, computation times, programs, number of rounds, and networks.  *)
(***************************************************************************)
EXTENDS SyncBarrier, ListLemmas

\* The operations on a barrier return a barrier.
LEMMA BarrierStructType ==
  ASSUME NEW S, NEW s \in BarrierState(S), NEW n \in Nat, NEW item \in S
  PROVE  /\ FreshBarrier \in BarrierState(S)
         /\ insertBarrier(s, n, item) \in BarrierState(S)
         /\ reset(insertBarrier(s, n, item)) \in BarrierState(S)
<1>1. FreshBarrier \in BarrierState(S)
  BY DEF FreshBarrier, BarrierState
<1>2. Append(s.items, item) \in Seq(S)
  BY DEF BarrierState
<1>3. insertBarrier(s, n, item) \in BarrierState(S)
  <2> DEFINE count == IF s.known /\ n = 0 THEN s.count ELSE n
             items == Append(s.items, item)
  <2>1. count \in Nat
    BY DEF BarrierState
  <2>2. insertBarrier(s, n, item) = [known |-> TRUE, count |-> count, items |-> items]
    BY DEF insertBarrier
  <2> HIDE DEF count, items
  <2>3. items \in Seq(S)
    BY <1>2 DEF items
  <2>4. [known |-> TRUE, count |-> count, items |-> items] \in BarrierState(S)
    BY <2>1, <2>3 DEF BarrierState
  <2> QED BY <2>2, <2>4
<1>4. \A r \in BarrierState(S) : reset(r) \in BarrierState(S)
  <2>1. <<>> \in Seq(S)
    OBVIOUS
  <2> QED BY <2>1 DEF reset, BarrierState
<1> QED BY <1>1, <1>3, <1>4

\* insertBarrier appends the item, and reset empties the list.
LEMMA InsertedItems ==
  ASSUME NEW S, NEW s \in BarrierState(S), NEW n \in Nat, NEW item \in S
  PROVE  /\ insertBarrier(s, n, item).items = Append(s.items, item)
         /\ reset(insertBarrier(s, n, item)).items = <<>>
<1>1. insertBarrier(s, n, item).items = Append(s.items, item)
  BY DEF insertBarrier
<1>2. insertBarrier(s, n, item) \in BarrierState(S)
  BY BarrierStructType
<1>3. \A r \in BarrierState(S) : reset(r).items = <<>>
  BY DEF reset, BarrierState
<1> QED BY <1>1, <1>2, <1>3

\* The record that is in front for a barrier is a record of that barrier.
LEMMA FrontItemType ==
  ASSUME NEW map \in [Proc -> Seq(Record)], NEW p \in Proc, NEW u,
         RecordsFor(map, p, u) # {}
  PROVE  FrontItem(map, p, u) \in Record
<1> DEFINE T == RecordsFor(map, p, u)
<1>1. map[p] \in Seq(Record) /\ T \in SUBSET DOMAIN map[p] /\ T \in SUBSET Nat
  BY DEF RecordsFor
<1>2. Min(T) \in DOMAIN map[p]
  BY <1>1, MinIsLeast
<1> QED BY <1>1, <1>2 DEF FrontItem

\* Consuming and cancelling leave delay information.
LEMMA DelayType ==
  ASSUME NEW map \in [Proc -> Seq(Record)], NEW p \in Proc, NEW u
  PROVE  /\ PopItem(map, p, u) \in [Proc -> Seq(Record)]
         /\ Cleared(map) \in [Proc -> Seq(Record)]
<1>1. Cleared(map) \in [Proc -> Seq(Record)]
  BY DEF Cleared
<1>2. PopItem(map, p, u) \in [Proc -> Seq(Record)]
  <2> DEFINE T == RecordsFor(map, p, u)
  <2>1. map[p] \in Seq(Record) /\ T \in SUBSET DOMAIN map[p]
    BY DEF RecordsFor
  <2>2. CASE T = {}
    BY <2>2 DEF PopItem
  <2>3. CASE T # {}
    <3>1. RemoveAt(map[p], Min(T)) \in Seq(Record)
      BY <2>1, <2>3, RemoveFoundType
    <3>2. PopItem(map, p, u) = [map EXCEPT ![p] = RemoveAt(map[p], Min(T))]
      BY <2>3 DEF PopItem
    <3> HIDE DEF T
    <3> QED BY <3>1, <3>2
  <2> QED BY <2>2, <2>3
<1> QED BY <1>1, <1>2
-----------------------------------------------------------------------------
(* Simulated time.                                                         *)

\* The later of two cycles.
LEMMA LatestOfTwo ==
  ASSUME NEW a \in Nat, NEW b \in Nat
  PROVE  Latest({a, b}) \in Nat /\ Latest({a, b}) >= a /\ Latest({a, b}) >= b
<1>1. {a, b} \in SUBSET Nat /\ {a, b} # {} /\ IsFiniteSet({a, b})
  <2>1. IsFiniteSet({a}) /\ {a, b} = {a} \cup {b}
    BY FS_Singleton
  <2> QED BY <2>1, FS_AddElement
<1>2. Max({a, b}) \in {a, b} /\ \A j \in {a, b} : Max({a, b}) >= j
  BY <1>1, MaxIsGreatest
<1> QED BY <1>2 DEF Latest

\* A request reaches the controller after the cycle it is sent in, if it was
\* sent no later in the round its delay information comes from.
LEMMA ArrivalTime ==
  ASSUME TypeOK, NEW item \in Arrival, NEW u \in Uid
  PROVE  /\ ArrivalCycle(item, u) \in Nat
         /\ (RecordsFor(srcDelay, item.src, u) # {} =>
               FrontItem(srcDelay, item.src, u).cycle >= item.cycle)
            => ArrivalCycle(item, u) > item.cycle
<1>1. item.src \in Proc /\ item.cycle \in Nat /\ Flits \in Nat \ {0}
  BY ConstantsAssumption DEF Arrival
<1>2. CASE RecordsFor(srcDelay, item.src, u) = {}
  <2>1. ArrivalCycle(item, u) = Latest({item.cycle, item.cycle}) + Flits
    BY <1>2 DEF ArrivalCycle, DefaultEnd
  <2>2. Latest({item.cycle, item.cycle}) \in Nat /\ Latest({item.cycle, item.cycle}) >= item.cycle
    BY <1>1, LatestOfTwo
  <2> QED BY <1>1, <2>1, <2>2
<1>3. CASE RecordsFor(srcDelay, item.src, u) # {}
  <2> DEFINE record == FrontItem(srcDelay, item.src, u)
  <2>1. record \in Record
    BY <1>1, <1>3, FrontItemType DEF TypeOK
  <2>2. record.cycle \in Nat /\ record.lat[2] \in Nat \ {0}
    BY <2>1 DEF Record, Latency
  <2>3. ArrivalCycle(item, u) = record.cycle + record.lat[2]
    BY <1>3 DEF ArrivalCycle
  <2> HIDE DEF record
  <2> QED BY <1>1, <1>3, <2>2, <2>3 DEF record
<1> QED BY <1>2, <1>3

\* The barrier overflows when the last request has reached the controller.
LEMMA OverflowTime ==
  ASSUME TypeOK, NEW items \in Seq(Arrival), items # <<>>, NEW u \in Uid
  PROVE  /\ getBarrierCycle(items, u) \in Nat
         /\ \A i \in DOMAIN items : getBarrierCycle(items, u) >= ArrivalCycle(items[i], u)
<1> DEFINE D == 1..Len(items)
           f == [i \in D |-> ArrivalCycle(items[i], u)]
           T == {ArrivalCycle(items[i], u) : i \in DOMAIN items}
<1>1. DOMAIN items = D /\ Len(items) \in Nat /\ 1 \in D /\ \A i \in D : items[i] \in Arrival
  OBVIOUS
<1>2. T \in SUBSET Nat /\ T # {}
  BY <1>1, ArrivalTime
<1>3. IsFiniteSet(D)
  BY <1>1, FS_Interval
<1>4. f \in Surjection(D, T)
  BY <1>1 DEF Surjection
<1>5. IsFiniteSet(T)
  BY <1>3, <1>4, FS_Surjection
<1>6. Max(T) \in T /\ \A j \in T : Max(T) >= j
  BY <1>2, <1>5, MaxIsGreatest
<1>7. getBarrierCycle(items, u) = Max(T)
  BY DEF getBarrierCycle, Latest
<1> QED BY <1>2, <1>6, <1>7

\* A process goes on after the cycle in which the barrier overflows.
LEMMA ReleaseTime ==
  ASSUME TypeOK, NEW item \in Arrival, NEW u \in Uid, NEW overflowCycle \in Nat
  PROVE  /\ ReleaseCycle(item, u, overflowCycle) \in Nat
         /\ ReleaseCycle(item, u, overflowCycle) > overflowCycle
<1>1. item.src \in Proc /\ item.cycle \in Nat /\ Flits \in Nat \ {0}
  BY ConstantsAssumption DEF Arrival
<1>2. CASE RecordsFor(srcDelay, item.src, u) = {}
  <2>1. ReleaseCycle(item, u, overflowCycle) = Latest({item.cycle, overflowCycle}) + Flits
    BY <1>2 DEF ReleaseCycle, DefaultEnd
  <2>2. /\ Latest({item.cycle, overflowCycle}) \in Nat
        /\ Latest({item.cycle, overflowCycle}) >= overflowCycle
    BY <1>1, LatestOfTwo
  <2> QED BY <1>1, <2>1, <2>2
<1>3. CASE RecordsFor(srcDelay, item.src, u) # {}
  <2> DEFINE record == FrontItem(srcDelay, item.src, u)
             arrival == item.cycle + record.lat[2]
  <2>1. record \in Record
    BY <1>1, <1>3, FrontItemType DEF TypeOK
  <2>2. record.lat[2] \in Nat /\ record.lat[4] \in Nat \ {0} /\ arrival \in Nat
    BY <1>1, <2>1 DEF Record, Latency
  <2>3. ReleaseCycle(item, u, overflowCycle) = Latest({arrival, overflowCycle}) + record.lat[4]
    BY <1>3 DEF ReleaseCycle, AcknowledgedEnd
  <2> HIDE DEF record, arrival
  <2>4. Latest({arrival, overflowCycle}) \in Nat /\ Latest({arrival, overflowCycle}) >= overflowCycle
    BY <2>2, LatestOfTwo
  <2> QED BY <2>2, <2>3, <2>4
<1> QED BY <1>2, <1>3
-----------------------------------------------------------------------------
(* Type correctness.                                                       *)

LEMMA InitType == Init => TypeOK
<1> SUFFICES ASSUME Init PROVE TypeOK
  OBVIOUS
<1>1. /\ plan \in Plans /\ 1 \in DOMAIN plan /\ plan[1] \in Program
      /\ round = 1 /\ prog = plan[1]
  BY PlansAssumption DEF Init
<1>2. \A S : FreshBarrier \in BarrierState(S)
  BY DEF FreshBarrier, BarrierState
<1>3. \A S : <<>> \in Seq(S)
  OBVIOUS
<1>4. [op |-> 0, dst |-> CHOOSE u \in Uid : TRUE] \in Cmd
  <2>1. (CHOOSE u \in Uid : TRUE) \in Uid
    <3>1. PICK u \in Uid : TRUE
      BY ConstantsAssumption
    <3> QED BY <3>1, Zenon
  <2> QED BY <2>1 DEF Cmd
<1>5. cmd \in [Proc -> Cmd]
  BY <1>4 DEF Init
<1> QED BY <1>1, <1>2, <1>3, <1>5 DEF Init, TypeOK

\* A process that prints a command.
LEMMA IssueType ==
  ASSUME TypeOK, NEW p \in Proc, NEW n, NEW u, Issue(p, n, u)
  PROVE  /\ n \in Nat /\ u \in Uid
         /\ prog' \in Program
         /\ pc' \in [Proc -> {"run", "result", "write", "sync"}]
         /\ cmd' \in [Proc -> Cmd]
<1>1. prog[p] \in Seq(Cmd) /\ prog[p] # <<>> /\ Head(prog[p]) = [op |-> n, dst |-> u]
  BY DEF TypeOK, Program, Issue
<1>2. Head(prog[p]) \in Cmd /\ Tail(prog[p]) \in Seq(Cmd)
  BY <1>1
<1>3. n \in Nat /\ u \in Uid /\ [op |-> n, dst |-> u] \in Cmd
  <2>1. [op |-> n, dst |-> u] \in Cmd
    BY <1>1, <1>2
  <2>2. [op |-> n, dst |-> u].op \in Nat /\ [op |-> n, dst |-> u].dst \in Uid
    BY <2>1 DEF Cmd
  <2> QED BY <2>1, <2>2
<1> QED BY <1>2, <1>3 DEF TypeOK, Program, Issue

\* Answering processes with cycles.
LEMMA AnswerType ==
  ASSUME TypeOK, NEW value, Answer(value), \A p \in DOMAIN value : value[p] \in Nat
  PROVE  resp' \in [Proc -> Seq(Nat)]
<1>1. \A p \in Proc : p \in DOMAIN value => Append(resp[p], value[p]) \in Seq(Nat)
  BY DEF TypeOK
<1> QED BY <1>1 DEF TypeOK, Answer

LEMMA BarrierCmdType ==
  ASSUME TypeOK, NEW p \in Proc, NEW n, NEW u, HandleBarrierCmd(p, n, u)
  PROVE  TypeOK'
<1> DEFINE s == insertBarrier(barrier[u], n, p)
<1>1. Issue(p, n, u)
  BY DEF HandleBarrierCmd
<1>2. /\ n \in Nat /\ u \in Uid /\ prog' \in Program
      /\ pc' \in [Proc -> {"run", "result", "write", "sync"}] /\ cmd' \in [Proc -> Cmd]
  BY <1>1, IssueType
<1>3. s \in BarrierState(Proc) /\ reset(s) \in BarrierState(Proc)
  BY <1>2, BarrierStructType DEF TypeOK
<1> HIDE DEF s
<1>4. barrier' \in [Uid -> BarrierState(Proc)]
  <2>1. barrier' = [barrier EXCEPT ![u] = reset(s)] \/ barrier' = [barrier EXCEPT ![u] = s]
    BY DEF HandleBarrierCmd, s
  <2> QED BY <2>1, <1>2, <1>3 DEF TypeOK
<1>5. resp' \in [Proc -> Seq(Nat)]
  <2>1. Answer([q \in ToSet(s.items) |-> 0]) \/ UNCHANGED resp
    BY DEF HandleBarrierCmd, s
  <2>2. CASE Answer([q \in ToSet(s.items) |-> 0])
    BY <2>2, AnswerType
  <2> QED BY <2>1, <2>2 DEF TypeOK
<1>6. srcDelay' \in [Proc -> Seq(Record)]
  <2>1. srcDelay' = srcDelay \/ srcDelay' = Cleared(srcDelay)
    BY DEF HandleBarrierCmd
  <2>2. Cleared(srcDelay) \in [Proc -> Seq(Record)]
    BY DelayType DEF TypeOK
  <2> QED BY <2>1, <2>2 DEF TypeOK
<1>7. UNCHANGED <<plan, round, timing, bench, now, sent>>
  BY DEF HandleBarrierCmd, Issue
<1> QED BY <1>2, <1>4, <1>5, <1>6, <1>7 DEF TypeOK

\* The timing barrier of u with the command of p, and who waits in it.
Inserted(p, n, u, cycle) == insertBarrier(timing[u], n, [src |-> p, cycle |-> cycle])
Waiting(items) == {items[i].src : i \in DOMAIN items}
ItemOf(items, q) == CHOOSE item \in ToSet(items) : item.src = q

\* The item of a waiting process is in the list.
LEMMA ItemOfWaiting ==
  ASSUME NEW items \in Seq(Arrival), NEW q \in Waiting(items)
  PROVE  /\ q \in Proc /\ ItemOf(items, q) \in Arrival /\ ItemOf(items, q).src = q
         /\ \E i \in DOMAIN items : items[i] = ItemOf(items, q)
<1>1. PICK i \in DOMAIN items : items[i].src = q
  BY DEF Waiting
<1>2. ToSet(items) = {items[j] : j \in DOMAIN items}
  BY DEF ToSet
<1>3. \E item \in ToSet(items) : item.src = q
  BY <1>1, <1>2
<1>4. ItemOf(items, q) \in ToSet(items) /\ ItemOf(items, q).src = q
  BY <1>3 DEF ItemOf
<1>5. PICK j \in DOMAIN items : items[j] = ItemOf(items, q)
  BY <1>2, <1>4
<1>6. items[j] \in Arrival
  OBVIOUS
<1> QED BY <1>4, <1>5, <1>6 DEF Arrival

\* The outcomes of a WRITE: all waiting processes go on, or p waits as well.
Overflows(p, n, u, cycle) ==
  LET s == Inserted(p, n, u, cycle) IN
  /\ overflow(s)
  /\ timing' = [timing EXCEPT ![u] = reset(s)]
  /\ Answer([q \in Waiting(s.items) |->
       ReleaseCycle(ItemOf(s.items, q), u, getBarrierCycle(s.items, u))])
  /\ srcDelay' = [q \in Proc |-> IF q \in Waiting(s.items) THEN PopItem(srcDelay, q, u)[q]
                                 ELSE srcDelay[q]]

Parks(p, n, u, cycle) ==
  LET s == Inserted(p, n, u, cycle) IN
  /\ ~ overflow(s)
  /\ timing' = [timing EXCEPT ![u] = s]
  /\ UNCHANGED <<resp, srcDelay>>

LEMMA WriteOutcomes ==
  ASSUME NEW p, NEW n, NEW u, NEW cycle, HandleBarrierWrite(p, n, u, cycle)
  PROVE  /\ IssueWrite(p, n, u, cycle)
         /\ bench' = [bench EXCEPT ![p] = Append(@, [op |-> n, dst |-> u, cycle |-> cycle])]
         /\ Overflows(p, n, u, cycle) \/ Parks(p, n, u, cycle)
         /\ UNCHANGED <<plan, round, barrier>>
BY DEF HandleBarrierWrite, Overflows, Parks, Inserted, Waiting, ItemOf

\* A process that prints a WRITE.
LEMMA IssueWriteType ==
  ASSUME TypeOK, NEW p \in Proc, NEW n, NEW u, NEW cycle, IssueWrite(p, n, u, cycle)
  PROVE  /\ n \in Nat /\ u \in Uid /\ cycle \in Nat
         /\ [src |-> p, cycle |-> cycle] \in Arrival
         /\ pc' \in [Proc -> {"run", "result", "write", "sync"}]
         /\ sent' \in [Proc -> Nat]
<1>1. cmd[p] \in Cmd /\ cmd[p] = [op |-> n, dst |-> u]
  BY DEF TypeOK, IssueWrite
<1>2. n \in Nat /\ u \in Uid
  <2>1. cmd[p].op \in Nat /\ cmd[p].dst \in Uid
    BY <1>1 DEF Cmd
  <2> QED BY <1>1, <2>1
<1>3. cycle \in Nat
  <2>1. PICK gap \in Gaps : cycle = now[p] + gap
    BY DEF IssueWrite
  <2> QED BY <2>1, ConstantsAssumption DEF TypeOK
<1> QED BY <1>2, <1>3 DEF TypeOK, IssueWrite, Arrival

\* The barrier with the command of p.
LEMMA InsertedType ==
  ASSUME TypeOK, NEW p \in Proc, NEW n \in Nat, NEW u \in Uid, NEW cycle \in Nat
  PROVE  /\ Inserted(p, n, u, cycle) \in BarrierState(Arrival)
         /\ reset(Inserted(p, n, u, cycle)) \in BarrierState(Arrival)
         /\ Inserted(p, n, u, cycle).items
              = Append(timing[u].items, [src |-> p, cycle |-> cycle])
         /\ reset(Inserted(p, n, u, cycle)).items = <<>>
         /\ Inserted(p, n, u, cycle).items \in Seq(Arrival)
         /\ Inserted(p, n, u, cycle).items # <<>>
<1> DEFINE item == [src |-> p, cycle |-> cycle]
<1>1. timing[u] \in BarrierState(Arrival) /\ item \in Arrival /\ timing[u].items \in Seq(Arrival)
  BY DEF TypeOK, Arrival, BarrierState
<1> HIDE DEF item
<1>2. /\ insertBarrier(timing[u], n, item) \in BarrierState(Arrival)
      /\ reset(insertBarrier(timing[u], n, item)) \in BarrierState(Arrival)
      /\ insertBarrier(timing[u], n, item).items = Append(timing[u].items, item)
      /\ reset(insertBarrier(timing[u], n, item)).items = <<>>
  BY <1>1, BarrierStructType, InsertedItems
<1>3. Append(timing[u].items, item) \in Seq(Arrival) /\ Append(timing[u].items, item) # <<>>
  BY <1>1
<1> QED BY <1>2, <1>3 DEF Inserted, item

LEMMA BarrierWriteType ==
  ASSUME TypeOK, NEW p \in Proc, NEW n, NEW u, NEW cycle, HandleBarrierWrite(p, n, u, cycle)
  PROVE  TypeOK'
<1> DEFINE s == Inserted(p, n, u, cycle)
<1>1. /\ IssueWrite(p, n, u, cycle)
      /\ bench' = [bench EXCEPT ![p] = Append(bench[p], [op |-> n, dst |-> u, cycle |-> cycle])]
      /\ Overflows(p, n, u, cycle) \/ Parks(p, n, u, cycle)
      /\ UNCHANGED <<plan, round, barrier>>
  BY WriteOutcomes
<1>2. /\ n \in Nat /\ u \in Uid /\ cycle \in Nat
      /\ pc' \in [Proc -> {"run", "result", "write", "sync"}] /\ sent' \in [Proc -> Nat]
  BY <1>1, IssueWriteType
<1>3. /\ s \in BarrierState(Arrival) /\ reset(s) \in BarrierState(Arrival)
      /\ s.items \in Seq(Arrival) /\ s.items # <<>>
  BY <1>2, InsertedType
<1> HIDE DEF s
<1>4. timing' \in [Uid -> BarrierState(Arrival)]
  <2>1. timing' = [timing EXCEPT ![u] = reset(s)] \/ timing' = [timing EXCEPT ![u] = s]
    BY <1>1 DEF Overflows, Parks, s
  <2> QED BY <2>1, <1>2, <1>3 DEF TypeOK
<1>5. resp' \in [Proc -> Seq(Nat)] /\ srcDelay' \in [Proc -> Seq(Record)]
  <2>1. CASE Overflows(p, n, u, cycle)
    <3> DEFINE value == [q \in Waiting(s.items) |->
                 ReleaseCycle(ItemOf(s.items, q), u, getBarrierCycle(s.items, u))]
    <3>1. \A q \in DOMAIN value : value[q] \in Nat
      <4> TAKE q \in DOMAIN value
      <4>1. q \in Waiting(s.items) /\ ItemOf(s.items, q) \in Arrival
        BY <1>3, ItemOfWaiting
      <4>2. getBarrierCycle(s.items, u) \in Nat
        BY <1>2, <1>3, OverflowTime
      <4>3. ReleaseCycle(ItemOf(s.items, q), u, getBarrierCycle(s.items, u)) \in Nat
        BY <1>2, <4>1, <4>2, ReleaseTime
      <4> QED BY <4>1, <4>3
    <3>2. Answer(value)
      BY <2>1 DEF Overflows, s
    <3> HIDE DEF value
    <3>3. resp' \in [Proc -> Seq(Nat)]
      BY <3>1, <3>2, AnswerType
    <3>4. ASSUME NEW q \in Proc
          PROVE  PopItem(srcDelay, q, u)[q] \in Seq(Record) /\ srcDelay[q] \in Seq(Record)
      <4>1. srcDelay \in [Proc -> Seq(Record)]
        BY DEF TypeOK
      <4>2. PopItem(srcDelay, q, u) \in [Proc -> Seq(Record)]
        BY <4>1, DelayType
      <4> QED BY <4>1, <4>2
    <3>5. srcDelay' \in [Proc -> Seq(Record)]
      BY <2>1, <3>4 DEF Overflows
    <3> QED BY <3>3, <3>5
  <2>2. CASE Parks(p, n, u, cycle)
    BY <2>2 DEF Parks, TypeOK
  <2> QED BY <1>1, <2>1, <2>2
<1>6. bench' \in [Proc -> Seq([op : Nat, dst : Uid, cycle : Nat])]
  <2>1. [op |-> n, dst |-> u, cycle |-> cycle] \in [op : Nat, dst : Uid, cycle : Nat]
    BY <1>2
  <2> DEFINE entry == [op |-> n, dst |-> u, cycle |-> cycle]
             E == [op : Nat, dst : Uid, cycle : Nat]
  <2>2. bench' = [bench EXCEPT ![p] = Append(bench[p], entry)]
    BY <1>1
  <2>3. entry \in E /\ bench \in [Proc -> Seq(E)]
    BY <2>1 DEF TypeOK
  <2> HIDE DEF entry, E
  <2>4. bench' \in [Proc -> Seq(E)]
    BY <2>2, <2>3
  <2> QED BY <2>4 DEF E
<1>7. UNCHANGED <<plan, round, barrier, prog, cmd, now>>
  BY <1>1 DEF IssueWrite
<1> QED BY <1>2, <1>4, <1>5, <1>6, <1>7 DEF TypeOK

\* A process that reads an answer.
LEMMA ReadType ==
  ASSUME TypeOK, NEW p \in Proc, ReadResult(p) \/ ReadSync(p)
  PROVE  TypeOK'
<1>1. resp[p] \in Seq(Nat) /\ resp[p] # <<>>
  BY DEF TypeOK, ReadResult, ReadSync
<1>2. Head(resp[p]) \in Nat /\ Tail(resp[p]) \in Seq(Nat)
  BY <1>1
<1>3. CASE ReadResult(p)
  BY <1>2, <1>3 DEF TypeOK, ReadResult
<1>4. CASE ReadSync(p)
  BY <1>2, <1>4 DEF TypeOK, ReadSync
<1> QED BY <1>3, <1>4

LEMMA NextRoundType == ASSUME TypeOK, NextRound PROVE TypeOK'
<1>1. /\ plan' = plan /\ round' = round + 1 /\ plan \in Seq(Program)
      /\ round' \in DOMAIN plan /\ prog' = plan[round'] /\ prog' \in Program
  BY PlansAssumption DEF TypeOK, NextRound
<1>2. \A S : FreshBarrier \in BarrierState(S) /\ <<>> \in Seq(S)
  BY DEF FreshBarrier, BarrierState
<1>3. srcDelay' \in [Proc -> Seq(Record)]
  <2>1. PICK network \in Networks : /\ \A p \in Proc : Len(bench[p]) <= Len(network[p])
                                    /\ srcDelay' = Delayed(network)
    BY DEF NextRound
  <2>2. network \in [Proc -> Seq(Latency)]
    BY NetworksAssumption
  <2>3. ASSUME NEW p \in Proc PROVE Delayed(network)[p] \in Seq(Record)
    <3> DEFINE E == [op : Nat, dst : Uid, cycle : Nat]
    <3>1. /\ bench[p] \in Seq(E)
          /\ network[p] \in Seq(Latency) /\ Len(bench[p]) <= Len(network[p])
      BY <2>1, <2>2 DEF TypeOK
    <3> HIDE DEF E
    <3>2. ASSUME NEW i \in 1..Len(bench[p])
          PROVE  [op |-> bench[p][i].op, dst |-> bench[p][i].dst,
                  cycle |-> bench[p][i].cycle, lat |-> network[p][i]] \in Record
      <4>1. bench[p][i] \in E /\ network[p][i] \in Latency
        BY <3>1
      <4>2. bench[p][i].op \in Nat /\ bench[p][i].dst \in Uid /\ bench[p][i].cycle \in Nat
        BY <4>1 DEF E
      <4> QED BY <4>1, <4>2 DEF Record
    <3>3. DOMAIN bench[p] = 1..Len(bench[p]) /\ Len(bench[p]) \in Nat
      BY <3>1
    <3>4. Delayed(network)[p] = [i \in 1..Len(bench[p]) |->
            [op |-> bench[p][i].op, dst |-> bench[p][i].dst,
             cycle |-> bench[p][i].cycle, lat |-> network[p][i]]]
      BY <3>3 DEF Delayed
    <3> DEFINE f == [i \in 1..Len(bench[p]) |->
                 [op |-> bench[p][i].op, dst |-> bench[p][i].dst,
                  cycle |-> bench[p][i].cycle, lat |-> network[p][i]]]
    <3>5. f \in [1..Len(bench[p]) -> Record]
      BY <3>2
    <3> HIDE DEF f
    <3>6. f \in Seq(Record)
      BY <3>3, <3>5
    <3> QED BY <3>4, <3>6 DEF f
  <2> QED BY <2>1, <2>3 DEF Delayed
<1> QED BY <1>1, <1>2, <1>3 DEF TypeOK, NextRound

\* The steps of Next, by the operation of the code they model.
LEMMA NextCases ==
  ASSUME [Next]_vars
  PROVE  \/ \E p \in Proc : \E n, u : HandleBarrierCmd(p, n, u)
         \/ \E p \in Proc : \E n, u, cycle : HandleBarrierWrite(p, n, u, cycle)
         \/ \E p \in Proc : ReadResult(p) \/ ReadSync(p)
         \/ NextRound
         \/ UNCHANGED vars
BY DEF Next, Step, HandleCmd, Stop

\* The variables of SyncBarrier keep their types: every answer is a cycle, and
\* the delay information of a round is made of records.
THEOREM TypeCorrect == Spec => []TypeOK
<1>1. Init => TypeOK
  BY InitType
<1>2. TypeOK /\ [Next]_vars => TypeOK'
  <2> SUFFICES ASSUME TypeOK, [Next]_vars PROVE TypeOK'
    OBVIOUS
  <2>1. CASE UNCHANGED vars
    BY <2>1 DEF vars, clientVars, TypeOK
  <2> QED BY <2>1, NextCases, BarrierCmdType, BarrierWriteType, ReadType, NextRoundType
<1> QED BY <1>1, <1>2, PTL DEF Spec
-----------------------------------------------------------------------------
(* Who waits where.  Inv1 is inductive: a blocked process without an       *)
(* unread answer is in the list of its command, and nobody else is in one. *)

\* p is blocked in this half of barrier u, and has not been answered.
Waits(p, stage, u) == pc[p] = stage /\ resp[p] = <<>> /\ cmd[p].dst = u

\* A process has an unread answer only while it is blocked, and only one.
AnswersFit ==
  \A p \in Proc : Len(resp[p]) <= (IF pc[p] \in {"result", "sync"} THEN 1 ELSE 0)

Sources(items) == [i \in DOMAIN items |-> items[i].src]

BarrierList ==
  \A u \in Uid :
    /\ IsInjective(barrier[u].items)
    /\ \A p \in Proc : Occurs(barrier[u].items, p) <=> Waits(p, "result", u)

TimingList ==
  \A u \in Uid :
    /\ IsInjective(Sources(timing[u].items))
    /\ \A p \in Proc : Occurs(Sources(timing[u].items), p) <=> Waits(p, "sync", u)
    /\ \A i \in DOMAIN timing[u].items :
         timing[u].items[i].cycle = sent[timing[u].items[i].src]

Inv1 == TypeOK /\ AnswersFit /\ BarrierList /\ TimingList

\* Who waits after a step in which p starts to wait at u, and after one in
\* which the processes in answered go on.
NowWaits(p, stage, u) ==
  \A q \in Proc, v \in Uid :
    Waits(q, stage, v)' <=> Waits(q, stage, v) \/ (q = p /\ v = u)

GoneOn(answered, stage) ==
  \A q \in Proc, v \in Uid :
    Waits(q, stage, v)' <=> Waits(q, stage, v) /\ q \notin answered

SameWaits(stage) ==
  \A q \in Proc, v \in Uid : Waits(q, stage, v)' <=> Waits(q, stage, v)

LEMMA SourcesOf ==
  ASSUME NEW items \in Seq(Arrival)
  PROVE  /\ Sources(items) \in Seq(Proc) /\ Len(Sources(items)) = Len(items)
         /\ \A i \in DOMAIN items : Sources(items)[i] = items[i].src
         /\ \A item \in Arrival :
              Sources(Append(items, item)) = Append(Sources(items), item.src)
         /\ Waiting(items) = {q \in Proc : Occurs(Sources(items), q)}
<1>1. /\ DOMAIN items = 1..Len(items) /\ Len(items) \in Nat
      /\ \A i \in 1..Len(items) : items[i] \in Arrival /\ items[i].src \in Proc
  <2>1. \A item \in Arrival : item.src \in Proc
    BY DEF Arrival
  <2> QED BY <2>1
<1>2. Sources(items) \in [1..Len(items) -> Proc]
  BY <1>1 DEF Sources
<1>3. /\ Sources(items) \in Seq(Proc) /\ Len(Sources(items)) = Len(items)
      /\ DOMAIN Sources(items) = DOMAIN items
  BY <1>1, <1>2
<1>4. \A i \in DOMAIN items : Sources(items)[i] = items[i].src
  BY DEF Sources
<1>5. ASSUME NEW item \in Arrival
      PROVE  Sources(Append(items, item)) = Append(Sources(items), item.src)
  <2> DEFINE t == Append(items, item)
             r == Append(Sources(items), item.src)
  <2>1. /\ t \in Seq(Arrival) /\ Len(t) = Len(items) + 1 /\ DOMAIN t = 1..Len(items) + 1
        /\ \A i \in 1..Len(items) : t[i] = items[i]
        /\ t[Len(items) + 1] = item
    OBVIOUS
  <2>2. item.src \in Proc
    BY DEF Arrival
  <2>3. /\ r \in Seq(Proc) /\ DOMAIN r = 1..Len(items) + 1
        /\ \A i \in 1..Len(items) : r[i] = Sources(items)[i]
        /\ r[Len(items) + 1] = item.src
    BY <1>3, <2>2
  <2> HIDE DEF t, r
  <2>4. Sources(t) = [i \in 1..Len(items) + 1 |-> t[i].src]
    BY <2>1 DEF Sources
  <2>5. \A i \in 1..Len(items) + 1 : t[i].src = r[i]
    BY <1>1, <1>4, <2>1, <2>3
  <2>6. r = [i \in 1..Len(items) + 1 |-> r[i]]
    BY <2>3
  <2> QED BY <2>4, <2>5, <2>6 DEF t, r
<1>6. Waiting(items) = {q \in Proc : Occurs(Sources(items), q)}
  BY <1>1, <1>3, <1>4 DEF Waiting, Occurs
<1> QED BY <1>3, <1>4, <1>5, <1>6

LEMMA Init1 == Init => Inv1
<1> SUFFICES ASSUME Init PROVE Inv1
  OBVIOUS
<1>1. TypeOK
  BY InitType
<1>2. AnswersFit
  BY DEF Init, AnswersFit
<1>3. \A p \in Proc, stage \in {"result", "sync"}, u \in Uid : ~ Waits(p, stage, u)
  BY DEF Init, Waits
<1>4. \A u \in Uid : barrier[u].items = <<>> /\ timing[u].items = <<>>
  BY DEF Init, FreshBarrier
<1>5. Sources(<<>>) = <<>> /\ IsInjective(<<>>) /\ \A p : ~ Occurs(<<>>, p)
  BY DEF Sources, IsInjective, Occurs
<1>6. BarrierList
  BY <1>3, <1>4, <1>5 DEF BarrierList
<1>7. TimingList
  BY <1>3, <1>4, <1>5 DEF TimingList
<1> QED BY <1>1, <1>2, <1>6, <1>7 DEF Inv1

\* A process that starts to wait had no answer to read.
LEMMA NoAnswer ==
  ASSUME Inv1, NEW p \in Proc
  PROVE  /\ resp[p] \in Seq(Nat) /\ pc[p] \in {"run", "result", "write", "sync"}
         /\ pc[p] \in {"run", "write"} => resp[p] = <<>>
         /\ Len(resp[p]) <= 1
         /\ resp[p] # <<>> => Tail(resp[p]) = <<>>
<1>1. resp[p] \in Seq(Nat) /\ pc[p] \in {"run", "result", "write", "sync"}
  BY DEF Inv1, TypeOK
<1>2. Len(resp[p]) <= (IF pc[p] \in {"result", "sync"} THEN 1 ELSE 0)
  BY DEF Inv1, AnswersFit
<1>3. pc[p] \in {"run", "write"} => Len(resp[p]) = 0
  BY <1>1, <1>2
<1> QED BY <1>1, <1>2, <1>3

\* The list of barrier u after p has joined it.
LEMMA JoinedBarrier ==
  ASSUME Inv1, NEW p \in Proc, NEW n \in Nat, NEW u \in Uid, pc[p] = "run",
         NEW s, s = insertBarrier(barrier[u], n, p)
  PROVE  /\ s.items \in Seq(Proc) /\ IsInjective(s.items)
         /\ reset(s).items = <<>>
         /\ \A q \in Proc : Occurs(s.items, q) <=> q = p \/ Waits(q, "result", u)
         /\ ToSet(s.items) = {q \in Proc : Occurs(s.items, q)}
<1>1. barrier[u] \in BarrierState(Proc) /\ barrier[u].items \in Seq(Proc)
  <2>1. barrier[u] \in BarrierState(Proc)
    BY DEF Inv1, TypeOK
  <2> QED BY <2>1 DEF BarrierState
<1>2. /\ s.items = Append(barrier[u].items, p) /\ reset(s).items = <<>>
      /\ s.items \in Seq(Proc)
  <2>1. /\ insertBarrier(barrier[u], n, p).items = Append(barrier[u].items, p)
        /\ reset(insertBarrier(barrier[u], n, p)).items = <<>>
    BY <1>1, InsertedItems
  <2>2. Append(barrier[u].items, p) \in Seq(Proc)
    BY <1>1
  <2> QED BY <2>1, <2>2
<1>3. IsInjective(barrier[u].items) /\ ~ Occurs(barrier[u].items, p)
  BY DEF Inv1, BarrierList, Waits
<1>4. /\ IsInjective(s.items) /\ Occurs(s.items, p)
      /\ \A q : q # p => (Occurs(s.items, q) <=> Occurs(barrier[u].items, q))
  BY <1>1, <1>2, <1>3, AppendNew
<1>5. \A q \in Proc : Occurs(s.items, q) <=> q = p \/ Waits(q, "result", u)
  BY <1>4 DEF Inv1, BarrierList
<1>6. \A i \in DOMAIN s.items : s.items[i] \in Proc
  BY <1>2
<1>7. ToSet(s.items) = {q \in Proc : Occurs(s.items, q)}
  BY <1>6 DEF ToSet, Occurs
<1> QED BY <1>2, <1>4, <1>5, <1>7

\* The list of barrier u in the timing structure after p has joined it.
Joined(items, p, u, cycle) ==
  /\ items \in Seq(Arrival) /\ items # <<>> /\ IsInjective(Sources(items))
  /\ \A q \in Proc : Occurs(Sources(items), q) <=> q = p \/ Waits(q, "sync", u)
  /\ \A i \in DOMAIN items :
       items[i].cycle = IF items[i].src = p THEN cycle ELSE sent[items[i].src]
  /\ Waiting(items) = {q \in Proc : q = p \/ Waits(q, "sync", u)}

LEMMA JoinedTiming ==
  ASSUME Inv1, NEW p \in Proc, NEW n \in Nat, NEW u \in Uid, NEW cycle \in Nat,
         pc[p] = "write"
  PROVE  Joined(Inserted(p, n, u, cycle).items, p, u, cycle)
<1> DEFINE items == Inserted(p, n, u, cycle).items
           old == timing[u].items
           item == [src |-> p, cycle |-> cycle]
<1>1. /\ old \in Seq(Arrival) /\ item \in Arrival /\ item.src = p /\ item.cycle = cycle
      /\ items = Append(old, item) /\ items \in Seq(Arrival) /\ items # <<>>
  <2>1. timing[u] \in BarrierState(Arrival) /\ TypeOK
    BY DEF Inv1, TypeOK
  <2>2. old \in Seq(Arrival)
    BY <2>1 DEF BarrierState
  <2>3. item \in Arrival /\ item.src = p /\ item.cycle = cycle
    BY DEF Arrival
  <2>4. items = Append(old, item) /\ items \in Seq(Arrival) /\ items # <<>>
    BY <2>1, InsertedType
  <2> QED BY <2>2, <2>3, <2>4
<1>2. /\ IsInjective(Sources(old)) /\ ~ Occurs(Sources(old), p)
      /\ \A q \in Proc : Occurs(Sources(old), q) <=> Waits(q, "sync", u)
      /\ \A i \in DOMAIN old : old[i].cycle = sent[old[i].src]
  BY DEF Inv1, TimingList, Waits
<1> HIDE DEF items, old, item
<1>3. /\ Sources(old) \in Seq(Proc) /\ Sources(items) = Append(Sources(old), p)
      /\ Len(Sources(old)) = Len(old) /\ \A i \in DOMAIN old : Sources(old)[i] = old[i].src
  BY <1>1, SourcesOf
<1>4. /\ IsInjective(Sources(items)) /\ Occurs(Sources(items), p)
      /\ \A q : q # p => (Occurs(Sources(items), q) <=> Occurs(Sources(old), q))
  BY <1>2, <1>3, AppendNew
<1>5. \A q \in Proc : Occurs(Sources(items), q) <=> q = p \/ Waits(q, "sync", u)
  BY <1>2, <1>4
<1>6. ASSUME NEW i \in DOMAIN items
      PROVE  items[i].cycle = IF items[i].src = p THEN cycle ELSE sent[items[i].src]
  <2>1. (i \in DOMAIN old /\ items[i] = old[i]) \/ items[i] = item
    BY <1>1
  <2>2. CASE i \in DOMAIN old /\ items[i] = old[i]
    <3>1. old[i].src # p
      <4>1. DOMAIN old = DOMAIN Sources(old)
        BY <1>1, <1>3
      <4> QED BY <1>2, <1>3, <2>2, <4>1 DEF Occurs
    <3> QED BY <1>2, <2>2, <3>1
  <2>3. CASE items[i] = item
    BY <1>1, <2>3
  <2> QED BY <2>1, <2>2, <2>3
<1>7. Waiting(items) = {q \in Proc : q = p \/ Waits(q, "sync", u)}
  <2>1. Waiting(items) = {q \in Proc : Occurs(Sources(items), q)}
    BY <1>1, SourcesOf
  <2> QED BY <1>5, <2>1
<1> QED BY <1>1, <1>4, <1>5, <1>6, <1>7 DEF Joined, items

\* Reading an answer or changing what is not read leaves the lists fitting.
LEMMA SameLists ==
  ASSUME Inv1, UNCHANGED <<barrier, timing, sent>>, SameWaits("result"), SameWaits("sync")
  PROVE  BarrierList' /\ TimingList'
<1>1. BarrierList'
  BY DEF Inv1, BarrierList, SameWaits
<1>2. TimingList'
  BY DEF Inv1, TimingList, SameWaits, Sources
<1> QED BY <1>1, <1>2

LEMMA BarrierCmdInv1 ==
  ASSUME Inv1, NEW p \in Proc, NEW n, NEW u, HandleBarrierCmd(p, n, u)
  PROVE  Inv1'
<1> DEFINE s == insertBarrier(barrier[u], n, p)
           answered == ToSet(s.items)
<1>1. Issue(p, n, u) /\ TypeOK
  BY DEF HandleBarrierCmd, Inv1
<1>2. n \in Nat /\ u \in Uid /\ TypeOK'
  BY <1>1, IssueType, BarrierCmdType
<1>3. /\ pc[p] = "run" /\ resp[p] = <<>>
      /\ pc' = [pc EXCEPT ![p] = "result"]
      /\ cmd' = [cmd EXCEPT ![p] = [op |-> n, dst |-> u]]
      /\ pc \in [Proc -> {"run", "result", "write", "sync"}] /\ cmd \in [Proc -> Cmd]
      /\ barrier \in [Uid -> BarrierState(Proc)]
      /\ UNCHANGED <<timing, sent>>
  BY <1>1, NoAnswer DEF Issue, HandleBarrierCmd, TypeOK
<1>4. /\ IsInjective(s.items) /\ reset(s).items = <<>>
      /\ \A q \in Proc : Occurs(s.items, q) <=> q = p \/ Waits(q, "result", u)
      /\ answered = {q \in Proc : Occurs(s.items, q)}
  BY <1>2, <1>3, JoinedBarrier
<1> HIDE DEF s, answered
<1>5. [op |-> n, dst |-> u].dst = u
  OBVIOUS
<1>6. CASE overflow(s) /\ barrier' = [barrier EXCEPT ![u] = reset(s)] /\ Answer([q \in answered |-> 0])
  <2>1. /\ \A q \in answered : q \in Proc /\ resp[q] = <<>> /\ resp'[q] = <<0>> /\ pc'[q] = "result"
        /\ \A q \in Proc \ answered : q # p /\ resp'[q] = resp[q] /\ pc'[q] = pc[q] /\ cmd'[q] = cmd[q]
    <3>1. \A q \in Proc : resp'[q] = IF q \in answered THEN Append(resp[q], 0) ELSE resp[q]
      BY <1>6 DEF Answer
    <3>2. Append(<<>>, 0) = <<0>>
      OBVIOUS
    <3>3. \A q \in answered : q \in Proc /\ resp[q] = <<>> /\ (q = p \/ pc[q] = "result")
      BY <1>3, <1>4 DEF Waits
    <3> QED BY <1>3, <1>4, <3>1, <3>2, <3>3
  <2>2. GoneOn(answered, "result") /\ SameWaits("sync")
    BY <1>3, <1>4, <1>5, <2>1 DEF GoneOn, SameWaits, Waits
  <2>3. AnswersFit'
    <3>1. Len(<<0>>) = 1 /\ 1 <= 1
      OBVIOUS
    <3> DEFINE bound(stage) == IF stage \in {"result", "sync"} THEN 1 ELSE 0
    <3>2. \A q \in Proc : Len(resp[q]) <= bound(pc[q])
      BY DEF Inv1, AnswersFit
    <3>3. bound("result") = 1
      OBVIOUS
    <3> HIDE DEF bound
    <3>4. ASSUME NEW q \in Proc PROVE Len(resp'[q]) <= bound(pc'[q])
      BY <2>1, <3>1, <3>2, <3>3
    <3> QED BY <3>4 DEF AnswersFit, bound
  <2>4. BarrierList'
    <3>1. IsInjective(<<>>) /\ \A q : ~ Occurs(<<>>, q)
      BY DEF IsInjective, Occurs
    <3>2. barrier'[u].items = <<>> /\ \A q \in Proc : ~ Waits(q, "result", u)'
      BY <1>2, <1>3, <1>4, <1>6, <2>2 DEF GoneOn
    <3>3. ASSUME NEW v \in Uid, v # u
          PROVE  /\ barrier'[v] = barrier[v]
                 /\ \A q \in Proc : Waits(q, "result", v)' <=> Waits(q, "result", v)
      <4>1. \A q \in answered : ~ Waits(q, "result", v)
        BY <1>3, <1>4, <3>3 DEF Waits
      <4> QED BY <1>3, <1>6, <2>2, <3>3, <4>1 DEF GoneOn
    <3> QED BY <3>1, <3>2, <3>3 DEF Inv1, BarrierList
  <2>5. TimingList'
    BY <1>3, <2>2 DEF Inv1, TimingList, SameWaits, Sources
  <2> QED BY <1>2, <2>3, <2>4, <2>5 DEF Inv1
<1>7. CASE ~ overflow(s) /\ barrier' = [barrier EXCEPT ![u] = s] /\ UNCHANGED resp
  <2>1. NowWaits(p, "result", u) /\ SameWaits("sync")
    BY <1>3, <1>5, <1>7 DEF NowWaits, SameWaits, Waits
  <2>2. AnswersFit'
    BY <1>3, <1>7 DEF Inv1, AnswersFit
  <2>3. BarrierList'
    <3>1. barrier'[u].items = s.items /\ \A v \in Uid : v # u => barrier'[v] = barrier[v]
      BY <1>2, <1>3, <1>7
    <3> QED BY <1>4, <2>1, <3>1 DEF Inv1, BarrierList, NowWaits
  <2>4. TimingList'
    BY <1>3, <2>1 DEF Inv1, TimingList, SameWaits, Sources
  <2> QED BY <1>2, <2>2, <2>3, <2>4 DEF Inv1
<1> QED BY <1>6, <1>7 DEF HandleBarrierCmd, s, answered

LEMMA BarrierWriteInv1 ==
  ASSUME Inv1, NEW p \in Proc, NEW n, NEW u, NEW cycle, HandleBarrierWrite(p, n, u, cycle)
  PROVE  Inv1'
<1> DEFINE s == Inserted(p, n, u, cycle)
           answered == Waiting(s.items)
           time(q) == ReleaseCycle(ItemOf(s.items, q), u, getBarrierCycle(s.items, u))
<1>1. /\ IssueWrite(p, n, u, cycle) /\ TypeOK
      /\ Overflows(p, n, u, cycle) \/ Parks(p, n, u, cycle)
      /\ UNCHANGED barrier
  BY WriteOutcomes DEF Inv1
<1>2. n \in Nat /\ u \in Uid /\ cycle \in Nat /\ TypeOK'
  BY <1>1, IssueWriteType, BarrierWriteType
<1>3. /\ pc[p] = "write" /\ cmd[p].dst = u /\ resp[p] = <<>>
      /\ pc' = [pc EXCEPT ![p] = "sync"] /\ sent' = [sent EXCEPT ![p] = cycle]
      /\ UNCHANGED cmd
      /\ pc \in [Proc -> {"run", "result", "write", "sync"}] /\ sent \in [Proc -> Nat]
      /\ timing \in [Uid -> BarrierState(Arrival)]
  BY <1>1, NoAnswer DEF IssueWrite, TypeOK
<1>4. /\ s.items \in Seq(Arrival) /\ IsInjective(Sources(s.items)) /\ reset(s).items = <<>>
      /\ \A q \in Proc : Occurs(Sources(s.items), q) <=> q = p \/ Waits(q, "sync", u)
      /\ \A i \in DOMAIN s.items :
           s.items[i].cycle = IF s.items[i].src = p THEN cycle ELSE sent[s.items[i].src]
      /\ answered = {q \in Proc : q = p \/ Waits(q, "sync", u)}
  <2>1. reset(s).items = <<>>
    BY <1>1, <1>2, InsertedType
  <2>2. Joined(s.items, p, u, cycle)
    BY <1>2, <1>3, JoinedTiming
  <2> HIDE DEF s
  <2> QED BY <2>1, <2>2 DEF Joined, answered
<1> HIDE DEF s, answered, time
<1>5. ASSUME NEW v \in Uid, v # u, timing'[v] = timing[v]
      PROVE  /\ IsInjective(Sources(timing'[v].items))
             /\ \A q \in Proc : Occurs(Sources(timing'[v].items), q) <=> Waits(q, "sync", v)
             /\ \A i \in DOMAIN timing'[v].items :
                  timing'[v].items[i].cycle = sent'[timing'[v].items[i].src]
  <2>1. /\ IsInjective(Sources(timing[v].items))
        /\ \A q \in Proc : Occurs(Sources(timing[v].items), q) <=> Waits(q, "sync", v)
        /\ \A i \in DOMAIN timing[v].items :
             timing[v].items[i].cycle = sent[timing[v].items[i].src]
    BY DEF Inv1, TimingList
  <2>2. timing[v].items \in Seq(Arrival)
    <3>1. timing[v] \in BarrierState(Arrival)
      BY <1>3
    <3> QED BY <3>1 DEF BarrierState
  <2>3. ASSUME NEW i \in DOMAIN timing[v].items
        PROVE  sent'[timing[v].items[i].src] = sent[timing[v].items[i].src]
    <3> DEFINE q == timing[v].items[i].src
    <3>1. q \in Proc /\ Sources(timing[v].items)[i] = q /\ i \in DOMAIN Sources(timing[v].items)
      <4>1. timing[v].items[i] \in Arrival
        BY <2>2
      <4> QED BY <4>1 DEF Sources, Arrival
    <3>2. Waits(q, "sync", v)
      BY <2>1, <3>1 DEF Occurs
    <3>3. q # p
      BY <1>3, <3>2 DEF Waits
    <3> QED BY <1>3, <3>1, <3>3
  <2> QED BY <1>5, <2>1, <2>3
<1>6. CASE /\ timing' = [timing EXCEPT ![u] = reset(s)]
           /\ Answer([q \in answered |-> time(q)])
  <2>1. /\ \A q \in answered : q \in Proc /\ resp[q] = <<>> /\ resp'[q] = <<time(q)>> /\ pc'[q] = "sync"
        /\ \A q \in Proc \ answered : q # p /\ resp'[q] = resp[q] /\ pc'[q] = pc[q]
    <3>1. \A q \in Proc : resp'[q] = IF q \in answered THEN Append(resp[q], time(q)) ELSE resp[q]
      BY <1>6 DEF Answer
    <3>2. \A c : Append(<<>>, c) = <<c>>
      OBVIOUS
    <3>3. \A q \in answered : q \in Proc /\ resp[q] = <<>> /\ (q = p \/ pc[q] = "sync")
      BY <1>3, <1>4 DEF Waits
    <3> QED BY <1>3, <1>4, <3>1, <3>2, <3>3
  <2>2. \A c : <<c>> # <<>> /\ Len(<<c>>) = 1
    OBVIOUS
  <2>3. GoneOn(answered, "sync") /\ SameWaits("result")
    <3>1. /\ \A q \in answered : resp'[q] # <<>> /\ pc'[q] = "sync"
          /\ \A q \in answered : q = p \/ pc[q] = "sync"
          /\ p \in answered /\ pc[p] = "write"
          /\ UNCHANGED cmd
      <4>1. \A q \in answered : resp'[q] # <<>> /\ pc'[q] = "sync"
        BY <2>1, <2>2
      <4>2. \A q \in answered : q = p \/ pc[q] = "sync"
        BY <1>4 DEF Waits
      <4> QED BY <1>3, <1>4, <4>1, <4>2
    <3>2. GoneOn(answered, "sync")
      BY <2>1, <3>1 DEF GoneOn, Waits
    <3>3. SameWaits("result")
      BY <2>1, <3>1 DEF SameWaits, Waits
    <3> QED BY <3>2, <3>3
  <2>4. AnswersFit'
    <3> DEFINE bound(stage) == IF stage \in {"result", "sync"} THEN 1 ELSE 0
    <3>1. \A q \in Proc : Len(resp[q]) <= bound(pc[q])
      BY DEF Inv1, AnswersFit
    <3>2. bound("sync") = 1 /\ 1 <= 1
      OBVIOUS
    <3> HIDE DEF bound
    <3>3. ASSUME NEW q \in Proc PROVE Len(resp'[q]) <= bound(pc'[q])
      BY <2>1, <2>2, <3>1, <3>2
    <3> QED BY <3>3 DEF AnswersFit, bound
  <2>5. BarrierList'
    BY <1>1, <2>3 DEF Inv1, BarrierList, SameWaits
  <2>6. TimingList'
    <3>1. Sources(<<>>) = <<>> /\ IsInjective(<<>>) /\ \A q : ~ Occurs(<<>>, q)
      BY DEF Sources, IsInjective, Occurs
    <3>2. timing'[u].items = <<>> /\ \A q \in Proc : ~ Waits(q, "sync", u)'
      BY <1>2, <1>3, <1>4, <1>6, <2>3 DEF GoneOn
    <3>3. ASSUME NEW v \in Uid, v # u
          PROVE  /\ timing'[v] = timing[v]
                 /\ \A q \in Proc : Waits(q, "sync", v)' <=> Waits(q, "sync", v)
      <4>1. \A q \in answered : ~ Waits(q, "sync", v)
        BY <1>3, <1>4, <3>3 DEF Waits
      <4> QED BY <1>3, <1>6, <2>3, <3>3, <4>1 DEF GoneOn
    <3> QED BY <1>5, <3>1, <3>2, <3>3 DEF TimingList
  <2> QED BY <1>2, <2>4, <2>5, <2>6 DEF Inv1
<1>7. CASE timing' = [timing EXCEPT ![u] = s] /\ UNCHANGED resp
  <2>1. NowWaits(p, "sync", u) /\ SameWaits("result")
    BY <1>3, <1>7 DEF NowWaits, SameWaits, Waits
  <2>2. AnswersFit'
    BY <1>3, <1>7 DEF Inv1, AnswersFit
  <2>3. BarrierList'
    BY <1>1, <2>1 DEF Inv1, BarrierList, SameWaits
  <2>4. TimingList'
    <3>1. timing'[u].items = s.items /\ \A v \in Uid : v # u => timing'[v] = timing[v]
      BY <1>2, <1>3, <1>7
    <3>2. ASSUME NEW i \in DOMAIN s.items PROVE s.items[i].cycle = sent'[s.items[i].src]
      <4>1. s.items[i].src \in Proc
        <5>1. s.items[i] \in Arrival
          BY <1>4
        <5> QED BY <5>1 DEF Arrival
      <4> QED BY <1>3, <1>4, <4>1
    <3>3. \A v \in Uid : v # u => \A q \in Proc : Waits(q, "sync", v)' <=> Waits(q, "sync", v)
      BY <2>1 DEF NowWaits
    <3> QED BY <1>4, <1>5, <2>1, <3>1, <3>2, <3>3 DEF TimingList, NowWaits
  <2> QED BY <1>2, <2>2, <2>3, <2>4 DEF Inv1
<1> QED BY <1>1, <1>6, <1>7 DEF Overflows, Parks, s, answered, time

LEMMA ReadInv1 ==
  ASSUME Inv1, NEW p \in Proc, ReadResult(p) \/ ReadSync(p)
  PROVE  Inv1'
<1>1. TypeOK'
  BY ReadType DEF Inv1
<1>2. /\ pc \in [Proc -> {"run", "result", "write", "sync"}]
      /\ resp \in [Proc -> Seq(Nat)]
      /\ pc[p] \in {"result", "sync"} /\ resp[p] # <<>>
      /\ pc' = [pc EXCEPT ![p] = IF pc[p] = "result" THEN "write" ELSE "run"]
      /\ resp' = [resp EXCEPT ![p] = Tail(resp[p])]
      /\ UNCHANGED <<barrier, timing, sent, cmd>>
  BY DEF Inv1, TypeOK, ReadResult, ReadSync
<1>3. resp'[p] = <<>> /\ \A q \in Proc : q # p => resp'[q] = resp[q] /\ pc'[q] = pc[q]
  BY <1>2, NoAnswer
<1>4. SameWaits("result") /\ SameWaits("sync")
  BY <1>2, <1>3 DEF SameWaits, Waits
<1>5. AnswersFit'
  <2>1. Len(<<>>) = 0 /\ 0 <= 0 /\ 0 <= 1
    OBVIOUS
  <2> QED BY <1>3, <2>1 DEF Inv1, AnswersFit
<1> QED BY <1>1, <1>2, <1>4, <1>5, SameLists DEF Inv1

LEMMA NextRoundInv1 == ASSUME Inv1, NextRound PROVE Inv1'
<1>1. TypeOK'
  BY NextRoundType DEF Inv1
<1>2. AnswersFit'
  BY DEF NextRound, Inv1, AnswersFit
<1>3. \A p \in Proc, stage \in {"result", "sync"}, u \in Uid : ~ Waits(p, stage, u)'
  BY DEF NextRound, RoundOver, Waits
<1>4. \A u \in Uid : barrier'[u].items = <<>> /\ timing'[u].items = <<>>
  BY DEF NextRound, FreshBarrier
<1>5. Sources(<<>>) = <<>> /\ IsInjective(<<>>) /\ \A p : ~ Occurs(<<>>, p)
  BY DEF Sources, IsInjective, Occurs
<1>6. BarrierList'
  BY <1>3, <1>4, <1>5 DEF BarrierList
<1>7. TimingList'
  BY <1>3, <1>4, <1>5 DEF TimingList
<1> QED BY <1>1, <1>2, <1>6, <1>7 DEF Inv1

LEMMA Step1 == Inv1 /\ [Next]_vars => Inv1'
<1> SUFFICES ASSUME Inv1, [Next]_vars PROVE Inv1'
  OBVIOUS
<1>1. CASE UNCHANGED vars
  <2>1. TypeOK' /\ AnswersFit'
    BY <1>1 DEF vars, clientVars, Inv1, TypeOK, AnswersFit
  <2>2. /\ UNCHANGED <<barrier, timing, sent>>
        /\ SameWaits("result") /\ SameWaits("sync")
    BY <1>1 DEF vars, clientVars, SameWaits, Waits
  <2> QED BY <2>1, <2>2, SameLists DEF Inv1
<1> QED BY <1>1, NextCases, BarrierCmdInv1, BarrierWriteInv1, ReadInv1, NextRoundInv1

LEMMA Invariant1 == Spec => []Inv1
BY Init1, Step1, PTL DEF Spec

\* Every command gets exactly one answer, whatever counts the programs give:
\* a blocked process either waits once, in the barrier and the list of its
\* command, or has one unread answer.
THEOREM EveryCommandAnswered == Spec => []NoCommandForgotten
<1>1. Inv1 => NoCommandForgotten
  <2> SUFFICES ASSUME Inv1, NEW p \in Proc, NEW u \in Uid
               PROVE  /\ Waits(p, "result", u) =>
                           Cardinality({i \in DOMAIN barrier[u].items : barrier[u].items[i] = p}) = 1
                      /\ ~ Waits(p, "result", u) => p \notin ToSet(barrier[u].items)
                      /\ Waits(p, "sync", u) =>
                           Cardinality({i \in DOMAIN timing[u].items : timing[u].items[i].src = p}) = 1
                      /\ ~ Waits(p, "sync", u) =>
                           \A i \in DOMAIN timing[u].items : timing[u].items[i].src # p
    BY DEF Inv1, AnswersFit, NoCommandForgotten, Waits
  <2>1. barrier[u].items \in Seq(Proc) /\ timing[u].items \in Seq(Arrival)
    <3>1. barrier[u] \in BarrierState(Proc) /\ timing[u] \in BarrierState(Arrival)
      BY DEF Inv1, TypeOK
    <3> QED BY <3>1 DEF BarrierState
  <2>2. /\ Sources(timing[u].items) \in Seq(Proc)
        /\ DOMAIN Sources(timing[u].items) = DOMAIN timing[u].items
        /\ \A i \in DOMAIN timing[u].items : Sources(timing[u].items)[i] = timing[u].items[i].src
    BY <2>1, SourcesOf DEF Sources
  <2>3. /\ IsInjective(barrier[u].items) /\ IsInjective(Sources(timing[u].items))
        /\ Occurs(barrier[u].items, p) <=> Waits(p, "result", u)
        /\ Occurs(Sources(timing[u].items), p) <=> Waits(p, "sync", u)
    BY DEF Inv1, BarrierList, TimingList
  <2>4. ~ Waits(p, "result", u) => p \notin ToSet(barrier[u].items)
    BY <2>3 DEF Occurs, ToSet
  <2>5. ~ Waits(p, "sync", u) => \A i \in DOMAIN timing[u].items : timing[u].items[i].src # p
    BY <2>2, <2>3 DEF Occurs
  <2>6. {i \in DOMAIN timing[u].items : timing[u].items[i].src = p}
          = {i \in DOMAIN Sources(timing[u].items) : Sources(timing[u].items)[i] = p}
    BY <2>2
  <2> QED BY <2>1, <2>2, <2>3, <2>4, <2>5, <2>6, OncePosition
<1> QED BY <1>1, Invariant1, PTL
-----------------------------------------------------------------------------
(* Simulated time at a barrier.                                            *)

\* A process that gets its SYNC in a step of p is in the list of p's barrier,
\* with the cycle it sent, and its answer is its release cycle.
SyncedBy(q, p, n, u, cycle) ==
  LET items == Inserted(p, n, u, cycle).items IN
  /\ items \in Seq(Arrival) /\ items # <<>> /\ cmd[q].dst = u
  /\ q \in Waiting(items)
  /\ ItemOf(items, q).cycle = sent'[q]
  /\ Head(resp'[q]) = ReleaseCycle(ItemOf(items, q), u, getBarrierCycle(items, u))

LEMMA WriteSyncs ==
  ASSUME Inv1, NEW p \in Proc, NEW n, NEW u, NEW cycle, HandleBarrierWrite(p, n, u, cycle),
         NEW q \in Proc, Syncs(q)
  PROVE  SyncedBy(q, p, n, u, cycle)
<1> DEFINE items == Inserted(p, n, u, cycle).items
           time(r) == ReleaseCycle(ItemOf(items, r), u, getBarrierCycle(items, u))
<1>1. /\ IssueWrite(p, n, u, cycle) /\ TypeOK
      /\ Overflows(p, n, u, cycle) \/ Parks(p, n, u, cycle)
  BY WriteOutcomes DEF Inv1
<1>2. n \in Nat /\ u \in Uid /\ cycle \in Nat
  BY <1>1, IssueWriteType
<1>3. /\ pc[p] = "write" /\ cmd[p].dst = u
      /\ sent' = [sent EXCEPT ![p] = cycle] /\ sent \in [Proc -> Nat]
  BY <1>1 DEF IssueWrite, TypeOK
<1>4. Joined(items, p, u, cycle)
  BY <1>2, <1>3, JoinedTiming
<1>5. ~ Parks(p, n, u, cycle)
  BY DEF Parks, Syncs
<1>6. Answer([r \in Waiting(items) |-> time(r)])
  BY <1>1, <1>5 DEF Overflows
<1> HIDE DEF items, time
<1>7. /\ q \in Waiting(items) /\ resp'[q] = Append(resp[q], time(q)) /\ resp[q] = <<>>
  BY <1>6 DEF Answer, Syncs
<1>8. q = p \/ Waits(q, "sync", u)
  BY <1>4, <1>7 DEF Joined
<1>9. cmd[q].dst = u
  BY <1>3, <1>8 DEF Waits
<1>10. Head(resp'[q]) = time(q)
  <2>1. \A c : Head(Append(<<>>, c)) = c
    OBVIOUS
  <2> QED BY <1>7, <2>1
<1>11. ItemOf(items, q).cycle = sent'[q]
  <2>1. items \in Seq(Arrival) /\ ItemOf(items, q).src = q
    BY <1>4, <1>7, ItemOfWaiting DEF Joined
  <2>2. PICK i \in DOMAIN items : items[i] = ItemOf(items, q)
    BY <1>4, <1>7, ItemOfWaiting DEF Joined
  <2>3. items[i].cycle = IF q = p THEN cycle ELSE sent[q]
    BY <1>4, <2>1, <2>2 DEF Joined
  <2> QED BY <1>3, <2>2, <2>3
<1> QED BY <1>4, <1>7, <1>9, <1>10, <1>11 DEF SyncedBy, Joined, items, time

\* Only a WRITE releases processes with a SYNC.
LEMMA OnlyWriteSyncs ==
  ASSUME Inv1, [Next]_vars, NEW q \in Proc, Syncs(q)
  PROVE  \E p \in Proc : \E n, u, cycle : HandleBarrierWrite(p, n, u, cycle)
<1>1. ASSUME NEW p \in Proc, NEW n, NEW u, HandleBarrierCmd(p, n, u)
      PROVE  FALSE
  <2> DEFINE s == insertBarrier(barrier[u], n, p)
  <2>1. Issue(p, n, u) /\ n \in Nat /\ u \in Uid
    BY <1>1, IssueType DEF HandleBarrierCmd, Inv1
  <2>2. /\ pc[p] = "run" /\ pc' = [pc EXCEPT ![p] = "result"]
        /\ pc \in [Proc -> {"run", "result", "write", "sync"}]
    BY <2>1 DEF Issue, Inv1, TypeOK
  <2>3. /\ \A r \in Proc : Occurs(s.items, r) <=> r = p \/ Waits(r, "result", u)
        /\ ToSet(s.items) = {r \in Proc : Occurs(s.items, r)}
    BY <2>1, <2>2, JoinedBarrier
  <2>4. Answer([r \in ToSet(s.items) |-> 0])
    BY <1>1 DEF HandleBarrierCmd, Syncs
  <2> HIDE DEF s
  <2>5. q \in ToSet(s.items)
    BY <2>4 DEF Answer, Syncs
  <2>6. q = p \/ pc[q] = "result"
    BY <2>3, <2>5 DEF Waits
  <2> QED BY <2>2, <2>6 DEF Syncs
<1>2. ASSUME NEW p \in Proc, ReadResult(p) \/ ReadSync(p)
      PROVE  FALSE
  <2>1. resp' = [resp EXCEPT ![p] = Tail(resp[p])] /\ resp[p] # <<>> /\ resp \in [Proc -> Seq(Nat)]
    BY <1>2 DEF ReadResult, ReadSync, Inv1, TypeOK
  <2> QED BY <2>1 DEF Syncs
<1>3. ~ NextRound
  BY DEF NextRound, Syncs
<1>4. ~ UNCHANGED vars
  BY DEF vars, Syncs
<1> QED BY <1>1, <1>2, <1>3, <1>4, NextCases

\* In simulated time nobody leaves a barrier before the last one has entered
\* it, if the delay information is up to date: the barrier overflows after
\* every cycle in which a process entered, and everybody leaves later.
THEOREM BarrierReleaseIsTimely == Spec => ReleaseIsTimely
<1>1. ASSUME Inv1, [Next]_vars, UpToDate, NEW p \in Proc, NEW q \in Proc, Syncs(p), Syncs(q)
      PROVE  Head(resp'[p]) > sent'[q]
  <2>0. PICK w \in Proc : \E n, u, cycle : HandleBarrierWrite(w, n, u, cycle)
    BY <1>1, OnlyWriteSyncs
  <2>1. PICK n, u, cycle : HandleBarrierWrite(w, n, u, cycle)
    BY <2>0
  <2> DEFINE items == Inserted(w, n, u, cycle).items
             overflowCycle == getBarrierCycle(items, u)
             release == ReleaseCycle(ItemOf(items, p), u, overflowCycle)
             arrival == ArrivalCycle(ItemOf(items, q), u)
  <2>2. SyncedBy(p, w, n, u, cycle) /\ SyncedBy(q, w, n, u, cycle)
    BY <1>1, <2>1, WriteSyncs
  <2>3. u \in Uid /\ TypeOK /\ TypeOK'
    <3>1. IssueWrite(w, n, u, cycle)
      BY <2>1, WriteOutcomes
    <3> QED BY <1>1, <2>1, <3>1, IssueWriteType, BarrierWriteType DEF Inv1
  <2>4. /\ items \in Seq(Arrival) /\ items # <<>> /\ p \in Waiting(items) /\ q \in Waiting(items)
        /\ cmd[q].dst = u /\ ItemOf(items, q).cycle = sent'[q] /\ Head(resp'[p]) = release
    BY <2>2 DEF SyncedBy
  <2>5. /\ ItemOf(items, p) \in Arrival /\ ItemOf(items, q) \in Arrival
        /\ ItemOf(items, q).src = q
        /\ \E i \in DOMAIN items : items[i] = ItemOf(items, q)
    BY <2>4, ItemOfWaiting
  <2> HIDE DEF items
  <2>6. overflowCycle \in Nat /\ overflowCycle >= arrival
    BY <2>3, <2>4, <2>5, OverflowTime
  <2> HIDE DEF overflowCycle
  <2>7. release \in Nat /\ release > overflowCycle
    BY <2>3, <2>5, <2>6, ReleaseTime
  <2>8. arrival \in Nat /\ arrival > sent'[q]
    <3>1. RecordsFor(srcDelay, q, u) # {} => FrontItem(srcDelay, q, u).cycle >= sent'[q]
      BY <1>1, <2>4 DEF UpToDate
    <3> QED BY <2>3, <2>4, <2>5, <3>1, ArrivalTime
  <2>9. sent'[q] \in Nat
    BY <2>3 DEF TypeOK
  <2> HIDE DEF release, arrival
  <2> QED BY <2>4, <2>6, <2>7, <2>8, <2>9
<1>2. Inv1 /\ [Next]_vars => [UpToDate => \A p, q \in Proc : ReleasedAfter(p, q)]_vars
  BY <1>1 DEF ReleasedAfter
<1> QED BY <1>2, Invariant1, PTL DEF Spec, ReleaseIsTimely
-----------------------------------------------------------------------------
(* Barriers hold.  Inv2 adds to Inv1 that the processes follow their       *)
(* programs, that a barrier which has been named knows its count, and that *)
(* the processes that use a barrier have passed it equally often: they     *)
(* leave it together.                                                      *)

\* What a process has still to issue is the rest of its program, and the
\* command it is blocked in is the last it has printed.
ProgramsAdvance ==
  \A p \in Proc :
    /\ Len(prog[p]) <= Len(plan[round][p])
    /\ \A i \in 1..Len(prog[p]) : prog[p][i] = plan[round][p][Printed(p) + i]
    /\ pc[p] # "run" => Printed(p) >= 1 /\ cmd[p] = plan[round][p][Printed(p)]

\* The two structures of a barrier have the count of its programs once a
\* process has named it there.
CountsKnown ==
  \A u \in Uid :
    /\ IF barrier[u].known THEN barrier[u].count = Cardinality(Members(u))
       ELSE \A p \in Proc : Entered(p, u) = 0
    /\ IF timing[u].known THEN timing[u].count = Cardinality(Members(u))
       ELSE \A p \in Proc : Written(p, u) = 0

Together ==
  \A u \in Uid : \A p, q \in Members(u) :
    Left(p, u) = Left(q, u) /\ Released(p, u) = Released(q, u)

Inv2 == Inv1 /\ ProgramsAdvance /\ CountsKnown /\ Together

\* The programs of the round.
LEMMA RoundProgram ==
  ASSUME TypeOK
  PROVE  /\ plan[round] \in Program /\ Counted(plan[round])
         /\ \A p \in Proc : plan[round][p] \in Seq(Cmd) /\ prog[p] \in Seq(Cmd)
<1>1. plan \in Plans /\ plan \in Seq(Program) /\ round \in DOMAIN plan
  BY PlansAssumption DEF TypeOK
<1>2. plan[round] \in Program /\ Counted(plan[round])
  BY <1>1, CountsAssumption
<1> QED BY <1>2 DEF TypeOK, Program

\* The positions of the commands for u among the first k of p.
Positions(p, u, k) == {i \in 1..k : plan[round][p][i].dst = u}

LEMMA PositionsFinite ==
  ASSUME NEW k \in Nat, NEW p, NEW u
  PROVE  IsFiniteSet(Positions(p, u, k)) /\ Cardinality(Positions(p, u, k)) \in Nat
<1>1. IsFiniteSet(1..k)
  BY FS_Interval
<1>2. Positions(p, u, k) \in SUBSET (1..k)
  BY DEF Positions
<1>3. IsFiniteSet(Positions(p, u, k))
  BY <1>1, <1>2, FS_Subset
<1> QED BY <1>3, FS_CardinalityType

LEMMA PrintedType ==
  ASSUME TypeOK, ProgramsAdvance, NEW p \in Proc
  PROVE  /\ Printed(p) \in 0..Len(plan[round][p])
         /\ \A u : Entered(p, u) = Cardinality(Positions(p, u, Printed(p)))
         /\ \A u : Entered(p, u) \in Nat
<1>1. plan[round][p] \in Seq(Cmd) /\ prog[p] \in Seq(Cmd) /\ Len(prog[p]) <= Len(plan[round][p])
  BY RoundProgram DEF ProgramsAdvance
<1>2. Printed(p) \in 0..Len(plan[round][p])
  <2> DEFINE all == Len(plan[round][p])
             rest == Len(prog[p])
  <2>1. all \in Nat /\ rest \in Nat /\ rest <= all /\ Printed(p) = all - rest
    BY <1>1 DEF Printed
  <2> HIDE DEF all, rest
  <2>2. Printed(p) \in 0..all
    BY <2>1
  <2> QED BY <2>2 DEF all
<1>3. \A u : Entered(p, u) = Cardinality(Positions(p, u, Printed(p)))
  BY DEF Entered, Positions
<1> QED BY <1>2, <1>3, PositionsFinite

\* Printing the next command of the program.
Advances(p, n, u) ==
  /\ ProgramsAdvance'
  /\ Printed(p)' = Printed(p) + 1
  /\ Printed(p) + 1 \in DOMAIN plan[round][p]
  /\ plan[round][p][Printed(p) + 1] = [op |-> n, dst |-> u]
  /\ \A q \in Proc \ {p} : Printed(q)' = Printed(q)

LEMMA IssueAdvances ==
  ASSUME TypeOK, ProgramsAdvance, NEW p \in Proc, NEW n, NEW u,
         Issue(p, n, u), UNCHANGED <<plan, round>>
  PROVE  Advances(p, n, u)
<1> DEFINE P == plan[round][p]
           k == Printed(p)
<1>1. /\ P \in Seq(Cmd) /\ prog[p] \in Seq(Cmd) /\ prog[p] # <<>>
      /\ Head(prog[p]) = [op |-> n, dst |-> u]
      /\ prog' = [prog EXCEPT ![p] = Tail(prog[p])]
      /\ pc' = [pc EXCEPT ![p] = "result"]
      /\ cmd' = [cmd EXCEPT ![p] = [op |-> n, dst |-> u]]
      /\ prog \in [Proc -> Seq(Cmd)] /\ cmd \in [Proc -> Cmd]
      /\ pc \in [Proc -> {"run", "result", "write", "sync"}]
  BY RoundProgram DEF Issue, TypeOK, Program
<1>2. /\ Len(prog[p]) \in Nat \ {0} /\ Len(Tail(prog[p])) = Len(prog[p]) - 1
      /\ \A i \in 1..Len(prog[p]) - 1 : Tail(prog[p])[i] = prog[p][i + 1]
      /\ prog[p][1] = Head(prog[p])
  BY <1>1
<1>3. /\ Len(prog[p]) <= Len(P) /\ k = Len(P) - Len(prog[p]) /\ Len(P) \in Nat
      /\ \A i \in 1..Len(prog[p]) : prog[p][i] = P[k + i]
  BY <1>1 DEF ProgramsAdvance, Printed
<1>4. k \in Nat /\ k + 1 \in DOMAIN P /\ P[k + 1] = [op |-> n, dst |-> u]
  BY <1>1, <1>2, <1>3
<1>5. Printed(p)' = k + 1
  BY <1>1, <1>2, <1>3 DEF Printed
<1>6. \A q \in Proc \ {p} : Printed(q)' = Printed(q)
  BY <1>1 DEF Printed
<1>7. ProgramsAdvance'
  <2>1. ASSUME NEW q \in Proc \ {p}
        PROVE  /\ Len(prog'[q]) <= Len(plan'[round'][q])
               /\ \A i \in 1..Len(prog'[q]) : prog'[q][i] = plan'[round'][q][Printed(q)' + i]
               /\ pc'[q] # "run" => Printed(q)' >= 1 /\ cmd'[q] = plan'[round'][q][Printed(q)']
    BY <1>1, <1>6 DEF ProgramsAdvance
  <2> HIDE DEF k
  <2>2. Len(prog'[p]) <= Len(plan'[round'][p])
    BY <1>1, <1>2, <1>3
  <2>3. ASSUME NEW i \in 1..Len(prog'[p])
        PROVE  prog'[p][i] = plan'[round'][p][Printed(p)' + i]
    <3>1. i \in 1..Len(prog[p]) - 1 /\ i + 1 \in 1..Len(prog[p])
      BY <1>1, <1>2
    <3>2. prog'[p][i] = P[k + (i + 1)]
      BY <1>1, <1>2, <1>3, <3>1
    <3>3. k + (i + 1) = (k + 1) + i
      BY <1>4, <3>1
    <3> QED BY <1>5, <3>2, <3>3
  <2>4. Printed(p)' >= 1 /\ cmd'[p] = plan'[round'][p][Printed(p)']
    BY <1>1, <1>4, <1>5
  <2> QED BY <2>1, <2>2, <2>3, <2>4 DEF ProgramsAdvance
<1> QED BY <1>4, <1>5, <1>6, <1>7 DEF Advances

\* Printing a BARRIER is one more entry of that process to that barrier.
CountsEntry(p, u) ==
  \A q \in Proc, v \in Uid :
    Entered(q, v)' = IF q = p /\ v = u THEN Entered(q, v) + 1 ELSE Entered(q, v)

LEMMA IssueCounts ==
  ASSUME TypeOK, ProgramsAdvance, NEW p \in Proc, NEW n, NEW u,
         Advances(p, n, u), UNCHANGED <<plan, round>>
  PROVE  CountsEntry(p, u)
<1>1. Printed(p) \in Nat /\ Printed(p)' = Printed(p) + 1
      /\ plan[round][p][Printed(p) + 1] = [op |-> n, dst |-> u]
  BY PrintedType DEF Advances
<1>2. ASSUME NEW v \in Uid
      PROVE  Entered(p, v)' = IF v = u THEN Entered(p, v) + 1 ELSE Entered(p, v)
  <2> DEFINE k == Printed(p)
             S == Positions(p, v, k)
             T == Positions(p, v, k + 1)
  <2>1. Entered(p, v) = Cardinality(S) /\ Entered(p, v)' = Cardinality(T)
    BY <1>1 DEF Entered, Positions
  <2>2. IsFiniteSet(S) /\ k + 1 \notin S
    <3>1. IsFiniteSet(S)
      BY <1>1, PositionsFinite
    <3>2. k + 1 \notin 1..k
      BY <1>1
    <3> QED BY <3>1, <3>2 DEF Positions
  <2>3. plan[round][p][k + 1].dst = u
    BY <1>1
  <2>4. T = IF v = u THEN S \cup {k + 1} ELSE S
    BY <1>1, <2>3 DEF Positions
  <2> HIDE DEF S, T
  <2> QED BY <2>1, <2>2, <2>4, FS_AddElement
<1>3. ASSUME NEW q \in Proc \ {p}, NEW v \in Uid
      PROVE  Entered(q, v)' = Entered(q, v)
  BY DEF Entered, Advances
<1> QED BY <1>2, <1>3 DEF CountsEntry

\* What a process has entered and not left, and written and not been released
\* from, is what it waits for.
StagesCount ==
  \A p \in Proc, u \in Uid :
    /\ Left(p, u) = Entered(p, u) - (IF Waits(p, "result", u) THEN 1 ELSE 0)
    /\ Written(p, u) = Entered(p, u)
         - (IF cmd[p].dst = u /\ pc[p] \in {"result", "write"} THEN 1 ELSE 0)
    /\ Released(p, u) = Written(p, u) - (IF Waits(p, "sync", u) THEN 1 ELSE 0)
    /\ Entered(p, u) \in Nat

LEMMA CountsOfStages == TypeOK /\ ProgramsAdvance => StagesCount
<1> SUFFICES ASSUME TypeOK, ProgramsAdvance, NEW p \in Proc, NEW u \in Uid
             PROVE  /\ Left(p, u) = Entered(p, u) - (IF Waits(p, "result", u) THEN 1 ELSE 0)
                    /\ Written(p, u) = Entered(p, u)
                         - (IF cmd[p].dst = u /\ pc[p] \in {"result", "write"} THEN 1 ELSE 0)
                    /\ Released(p, u) = Written(p, u) - (IF Waits(p, "sync", u) THEN 1 ELSE 0)
                    /\ Entered(p, u) \in Nat
  BY DEF StagesCount
<1>1. Entered(p, u) \in Nat
  BY PrintedType
<1> QED BY <1>1 DEF Left, Written, Released, In, Waits

LEMMA CountsOfStagesAfter == TypeOK' /\ ProgramsAdvance' => StagesCount'
BY CountsOfStages, PTL

\* The lists of the barriers show who waits, also after a step.
LEMMA WaitingAfter ==
  ASSUME Inv1'
  PROVE  \A u \in Uid, p \in Proc :
           /\ Occurs((barrier[u].items)', p) <=> Waits(p, "result", u)'
           /\ Occurs(Sources((timing[u].items)'), p) <=> Waits(p, "sync", u)'
BY DEF Inv1, BarrierList, TimingList, Occurs, Sources

\* The members of a barrier are finitely many, and who waits at it is one.
LEMMA MembersFinite ==
  ASSUME NEW u
  PROVE  IsFiniteSet(Members(u)) /\ Cardinality(Members(u)) \in Nat
<1>1. Members(u) \in SUBSET Proc /\ IsFiniteSet(Proc)
  BY ConstantsAssumption DEF Members, Users
<1>2. IsFiniteSet(Members(u))
  BY <1>1, FS_Subset
<1> QED BY <1>2, FS_CardinalityType

LEMMA BlockedIsMember ==
  ASSUME TypeOK, ProgramsAdvance, NEW p \in Proc, pc[p] # "run"
  PROVE  p \in Members(cmd[p].dst)
<1>1. Printed(p) \in DOMAIN plan[round][p]
  BY RoundProgram, PrintedType DEF ProgramsAdvance
<1>2. plan[round][p][Printed(p)].dst = cmd[p].dst
  BY DEF ProgramsAdvance
<1> QED BY <1>1, <1>2 DEF Members, Users

\* A list of as many different members as the barrier counts holds them all.
LEMMA EverybodyIsThere ==
  ASSUME NEW u, NEW s \in Seq(Proc), IsInjective(s), Len(s) >= Cardinality(Members(u)),
         \A q \in Proc : Occurs(s, q) => q \in Members(u)
  PROVE  \A q \in Members(u) : Occurs(s, q)
<1>1. \A i \in DOMAIN s : s[i] \in Members(u)
  BY DEF Occurs
<1>2. s \in Seq(Members(u))
  <2>1. DOMAIN s = 1..Len(s) /\ Len(s) \in Nat /\ s = [i \in 1..Len(s) |-> s[i]]
    OBVIOUS
  <2> QED BY <1>1, <2>1
<1> QED BY <1>2, MembersFinite, FullList

\* A barrier that knows its count, before and after it is reset.
Counts(r, count) ==
  /\ r.known /\ r.count = count
  /\ reset(r).known /\ reset(r).count = count
  /\ overflow(r) <=> Len(r.items) >= count

LEMMA NewCount ==
  ASSUME NEW s, NEW n, NEW item, NEW count,
         s.known => s.count = count, ~ (s.known /\ n = 0) => n = count
  PROVE  Counts(insertBarrier(s, n, item), count)
BY DEF Counts, insertBarrier, reset, overflow

\* A command without a count is not the first one for its barrier.
LEMMA CountOfCommand ==
  ASSUME TypeOK, NEW p \in Proc, NEW k \in DOMAIN plan[round][p], NEW n, NEW u,
         plan[round][p][k] = [op |-> n, dst |-> u]
  PROVE  /\ n # 0 => n = Cardinality(Members(u))
         /\ n = 0 => \E j \in 1..k-1 : plan[round][p][j].dst = u
         /\ p \in Members(u)
<1>1. plan[round][p][k].op = n /\ plan[round][p][k].dst = u
  OBVIOUS
<1>2. Counted(plan[round])
  BY RoundProgram
<1> QED BY <1>1, <1>2 DEF Counted, Members, Users

\* In a step of p at barrier u, the processes that use it pass one of its
\* halves together, or none of them does.
Pass(u, left, released) ==
  \A q \in Proc, v \in Uid :
    IF v = u
    THEN q \in Members(u) =>
           Left(q, v)' = Left(q, v) + left /\ Released(q, v)' = Released(q, v) + released
    ELSE Left(q, v)' = Left(q, v) /\ Released(q, v)' = Released(q, v)

LEMMA TogetherStep ==
  ASSUME Together, NEW u \in Uid, NEW left, NEW released, Pass(u, left, released),
         UNCHANGED <<plan, round>>
  PROVE  Together'
<1>1. \A v : Members(v)' = Members(v)
  BY DEF Members
<1>2. \A v : Members(v) \in SUBSET Proc
  BY DEF Members, Users
<1> QED BY <1>1, <1>2 DEF Together, Pass

LEMMA BarrierCmdInv2 ==
  ASSUME Inv2, NEW p \in Proc, NEW n, NEW u, HandleBarrierCmd(p, n, u)
  PROVE  Inv2'
<1> DEFINE s == insertBarrier(barrier[u], n, p)
           N == Cardinality(Members(u))
<1>1. /\ Inv1 /\ TypeOK /\ ProgramsAdvance /\ Issue(p, n, u)
      /\ UNCHANGED <<plan, round, timing>>
  BY DEF Inv2, Inv1, HandleBarrierCmd
<1>2. Inv1' /\ TypeOK' /\ n \in Nat /\ u \in Uid
  BY <1>1, BarrierCmdInv1, IssueType DEF Inv1
<1>3. Advances(p, n, u) /\ CountsEntry(p, u)
  BY <1>1, IssueAdvances, IssueCounts
<1>4. StagesCount /\ StagesCount'
  BY <1>1, <1>2, <1>3, CountsOfStages, CountsOfStagesAfter DEF Advances
<1>5. /\ pc[p] = "run" /\ pc' = [pc EXCEPT ![p] = "result"]
      /\ cmd' = [cmd EXCEPT ![p] = [op |-> n, dst |-> u]] /\ [op |-> n, dst |-> u].dst = u
      /\ pc \in [Proc -> {"run", "result", "write", "sync"}] /\ cmd \in [Proc -> Cmd]
      /\ barrier \in [Uid -> BarrierState(Proc)]
  BY <1>1 DEF Issue, TypeOK
<1>6. /\ s.items \in Seq(Proc) /\ IsInjective(s.items) /\ reset(s).items = <<>>
      /\ \A q \in Proc : Occurs(s.items, q) <=> q = p \/ Waits(q, "result", u)
  BY <1>1, <1>2, <1>5, JoinedBarrier
<1>7. Counts(s, N)
  <2> DEFINE k == Printed(p)
  <2>1. k \in Nat /\ k + 1 \in DOMAIN plan[round][p]
        /\ plan[round][p][k + 1] = [op |-> n, dst |-> u]
    BY <1>1, <1>3, PrintedType DEF Advances
  <2>2. barrier[u].known => barrier[u].count = N
    BY <1>2 DEF Inv2, CountsKnown
  <2>3. ASSUME ~ barrier[u].known PROVE n # 0
    <3>1. SUFFICES ASSUME n = 0 PROVE FALSE
      OBVIOUS
    <3>2. PICK j \in 1..(k + 1) - 1 : plan[round][p][j].dst = u
      BY <1>1, <2>1, <3>1, CountOfCommand
    <3>3. j \in Positions(p, u, k)
      BY <2>1, <3>2 DEF Positions
    <3>4. Cardinality(Positions(p, u, k)) = 0
      BY <1>1, <1>2, <2>3, PrintedType DEF Inv2, CountsKnown
    <3> QED BY <2>1, <3>3, <3>4, PositionsFinite, FS_EmptySet
  <2>4. n # 0 => n = N
    BY <1>1, <2>1, CountOfCommand
  <2> HIDE DEF N
  <2>5. ~ (barrier[u].known /\ n = 0) => n = N
    BY <2>3, <2>4
  <2> QED BY <2>2, <2>5, NewCount
<1>8. p \in Members(u) /\ \A q \in Proc : Waits(q, "result", u) => q \in Members(u)
  <2>1. p \in Members(u)
    BY <1>1, <1>3, CountOfCommand DEF Advances
  <2>2. \A q \in Proc : Waits(q, "result", u) => q \in Members(u)
    BY <1>1, BlockedIsMember DEF Waits
  <2> QED BY <2>1, <2>2
<1> HIDE DEF s, N
<1>9. /\ \A v \in Uid : v # u => barrier'[v] = barrier[v]
      /\ \/ overflow(s) /\ barrier'[u] = reset(s)
         \/ ~ overflow(s) /\ barrier'[u] = s
  BY <1>2, <1>5 DEF HandleBarrierCmd, s
<1>10. \A q \in Proc, v \in Uid :
         /\ Waits(q, "sync", v)' <=> Waits(q, "sync", v)
         /\ v # u => (Waits(q, "result", v)' <=> Waits(q, "result", v))
         /\ v = u => (Waits(q, "result", v)' <=> Occurs(barrier'[u].items, q))
  BY <1>1, <1>2, <1>9, WaitingAfter DEF Inv1, BarrierList, TimingList
<1>11. \A q \in Proc, v \in Uid : Written(q, v)' = Written(q, v)
  BY <1>3, <1>4, <1>5 DEF StagesCount, CountsEntry
<1>12. \A q \in Proc, v \in Uid : Released(q, v)' = Released(q, v)
  BY <1>4, <1>10, <1>11 DEF StagesCount
<1>13. \A q \in Proc, v \in Uid : v # u => Left(q, v)' = Left(q, v)
  BY <1>3, <1>4, <1>10 DEF StagesCount, CountsEntry
<1>14. ~ Waits(p, "result", u)
  BY <1>5 DEF Waits
<1>15. Pass(u, 1, 0) \/ Pass(u, 0, 0)
  <2>1. CASE overflow(s)
    <3>1. \A q \in Members(u) : q = p \/ Waits(q, "result", u)
      <4>1. \A q \in Members(u) : Occurs(s.items, q)
        BY <1>6, <1>7, <1>8, <2>1, EverybodyIsThere DEF N, Counts
      <4> QED BY <1>6, <4>1 DEF Members, Users
    <3>2. \A q \in Proc : ~ Waits(q, "result", u)'
      <4>1. barrier'[u].items = <<>> /\ \A q : ~ Occurs(<<>>, q)
        BY <1>6, <1>9, <2>1 DEF Occurs
      <4> QED BY <1>2, <1>10, <4>1
    <3>3. ASSUME NEW q \in Proc, q \in Members(u) PROVE Left(q, u)' = Left(q, u) + 1
      <4>1. /\ Left(q, u)' = Entered(q, u)'
            /\ Left(q, u) = Entered(q, u) - (IF q = p THEN 0 ELSE 1)
            /\ Entered(q, u) \in Nat
            /\ Entered(q, u)' = IF q = p THEN Entered(q, u) + 1 ELSE Entered(q, u)
        BY <1>2, <1>3, <1>4, <1>14, <3>1, <3>2, <3>3 DEF StagesCount, CountsEntry
      <4> QED BY <4>1
    <3>4. \A q \in Proc : Released(q, u)' = Released(q, u) + 0
      BY <1>2, <1>4, <1>12 DEF StagesCount
    <3> QED BY <1>12, <1>13, <3>3, <3>4 DEF Pass
  <2>2. CASE ~ overflow(s)
    <3>1. \A q \in Proc : Waits(q, "result", u)' <=> q = p \/ Waits(q, "result", u)
      BY <1>2, <1>6, <1>9, <1>10, <2>2
    <3>2. ASSUME NEW q \in Proc, q \in Members(u) PROVE Left(q, u)' = Left(q, u) + 0
      <4>1. /\ Left(q, u)' = Entered(q, u)'
                 - (IF q = p \/ Waits(q, "result", u) THEN 1 ELSE 0)
            /\ Left(q, u) = Entered(q, u) - (IF Waits(q, "result", u) THEN 1 ELSE 0)
            /\ Entered(q, u) \in Nat
            /\ Entered(q, u)' = IF q = p THEN Entered(q, u) + 1 ELSE Entered(q, u)
        BY <1>2, <1>3, <1>4, <3>1 DEF StagesCount, CountsEntry
      <4> QED BY <1>14, <4>1
    <3>3. \A q \in Proc : Released(q, u)' = Released(q, u) + 0
      BY <1>2, <1>4, <1>12 DEF StagesCount
    <3> QED BY <1>12, <1>13, <3>2, <3>3 DEF Pass
  <2> QED BY <2>1, <2>2
<1>16. Together'
  BY <1>1, <1>2, <1>15, TogetherStep DEF Inv2
<1>17. CountsKnown'
  <2>1. \A v : Members(v)' = Members(v)
    BY <1>1 DEF Members
  <2>2. barrier'[u].known /\ barrier'[u].count = N
    BY <1>7, <1>9 DEF Counts
  <2>3. \A v \in Uid : v # u => \A q \in Proc : Entered(q, v)' = Entered(q, v)
    BY <1>3 DEF CountsEntry
  <2> QED BY <1>1, <1>9, <1>11, <2>1, <2>2, <2>3 DEF Inv2, CountsKnown, N
<1> QED BY <1>2, <1>3, <1>16, <1>17 DEF Inv2, Advances

\* Steps that print no functional command leave the programs where they are.
LEMMA NothingPrinted ==
  ASSUME ProgramsAdvance, UNCHANGED <<plan, round, prog, cmd>>,
         \A p \in Proc : pc'[p] # "run" => pc[p] # "run"
  PROVE  /\ ProgramsAdvance'
         /\ \A p \in Proc, u \in Uid : Entered(p, u)' = Entered(p, u)
         /\ \A u : Members(u)' = Members(u)
<1>1. \A p : Printed(p)' = Printed(p)
  BY DEF Printed
<1>2. ProgramsAdvance'
  BY <1>1 DEF ProgramsAdvance
<1>3. \A p \in Proc, u \in Uid : Entered(p, u)' = Entered(p, u)
  BY <1>1 DEF Entered
<1>4. \A u : Members(u)' = Members(u)
  BY DEF Members
<1> QED BY <1>2, <1>3, <1>4

LEMMA BarrierWriteInv2 ==
  ASSUME Inv2, NEW p \in Proc, NEW n, NEW u, NEW cycle, HandleBarrierWrite(p, n, u, cycle)
  PROVE  Inv2'
<1> DEFINE s == Inserted(p, n, u, cycle)
           N == Cardinality(Members(u))
<1>1. /\ Inv1 /\ TypeOK /\ ProgramsAdvance /\ IssueWrite(p, n, u, cycle)
      /\ Overflows(p, n, u, cycle) \/ Parks(p, n, u, cycle)
      /\ UNCHANGED <<plan, round, barrier>>
  BY WriteOutcomes DEF Inv2, Inv1
<1>2. Inv1' /\ TypeOK' /\ n \in Nat /\ u \in Uid /\ cycle \in Nat
  BY <1>1, BarrierWriteInv1, IssueWriteType DEF Inv1
<1>3. /\ pc[p] = "write" /\ cmd[p] = [op |-> n, dst |-> u] /\ cmd[p].dst = u
      /\ pc' = [pc EXCEPT ![p] = "sync"] /\ UNCHANGED <<prog, cmd>>
      /\ pc \in [Proc -> {"run", "result", "write", "sync"}]
      /\ timing \in [Uid -> BarrierState(Arrival)]
  BY <1>1 DEF IssueWrite, TypeOK
<1>4. /\ ProgramsAdvance' /\ \A q \in Proc, v \in Uid : Entered(q, v)' = Entered(q, v)
      /\ \A v : Members(v)' = Members(v)
  BY <1>1, <1>3, NothingPrinted
<1>5. StagesCount /\ StagesCount'
  BY <1>1, <1>2, <1>4, CountsOfStages, CountsOfStagesAfter
<1>6. Joined(s.items, p, u, cycle) /\ reset(s).items = <<>>
  BY <1>1, <1>2, <1>3, JoinedTiming, InsertedType
<1>7. Counts(s, N)
  <2> DEFINE k == Printed(p)
  <2>1. k \in DOMAIN plan[round][p] /\ k \in Nat /\ plan[round][p][k] = [op |-> n, dst |-> u]
    BY <1>1, <1>3, RoundProgram, PrintedType DEF ProgramsAdvance
  <2>2. timing[u].known => timing[u].count = N
    BY <1>2 DEF Inv2, CountsKnown
  <2>3. ASSUME ~ timing[u].known PROVE n # 0
    <3>1. SUFFICES ASSUME n = 0 PROVE FALSE
      OBVIOUS
    <3>2. PICK j \in 1..k-1 : plan[round][p][j].dst = u
      BY <1>1, <2>1, <3>1, CountOfCommand
    <3>3. Cardinality(Positions(p, u, k)) = 1
      <4>1. Written(p, u) = 0
        BY <1>2, <2>3 DEF Inv2, CountsKnown
      <4>2. Written(p, u) = Entered(p, u) - 1 /\ Entered(p, u) \in Nat
        BY <1>2, <1>3, <1>5 DEF StagesCount
      <4>3. Entered(p, u) = Cardinality(Positions(p, u, k))
        BY <1>1, PrintedType
      <4> QED BY <4>1, <4>2, <4>3
    <3>4. PICK x : Positions(p, u, k) = {x}
      BY <2>1, <3>3, PositionsFinite, FS_Singleton
    <3>5. plan[round][p][k].dst = u
      BY <2>1
    <3>6. j \in Positions(p, u, k) /\ k \in Positions(p, u, k) /\ j # k
      <4>1. j \in 1..k /\ k \in 1..k /\ j # k
        BY <2>1, <3>2
      <4> QED BY <3>2, <3>5, <4>1 DEF Positions
    <3> QED BY <3>4, <3>6
  <2>4. n # 0 => n = N
    BY <1>1, <2>1, CountOfCommand
  <2> HIDE DEF N
  <2>5. ~ (timing[u].known /\ n = 0) => n = N
    BY <2>3, <2>4
  <2> QED BY <2>2, <2>5, NewCount DEF Inserted
<1>8. \A q \in Proc : q = p \/ Waits(q, "sync", u) => q \in Members(u)
  BY <1>1, <1>3, BlockedIsMember DEF Waits
<1> HIDE DEF s, N
<1>9. /\ \A v \in Uid : v # u => timing'[v] = timing[v]
      /\ \/ overflow(s) /\ timing'[u] = reset(s)
         \/ ~ overflow(s) /\ timing'[u] = s
  BY <1>1, <1>2, <1>3 DEF Overflows, Parks, s
<1>10. \A q \in Proc, v \in Uid :
         /\ Waits(q, "result", v)' <=> Waits(q, "result", v)
         /\ v # u => (Waits(q, "sync", v)' <=> Waits(q, "sync", v))
         /\ v = u => (Waits(q, "sync", v)' <=> Occurs(Sources(timing'[u].items), q))
  BY <1>1, <1>2, <1>9, WaitingAfter DEF Inv1, BarrierList, TimingList
<1>11. \A q \in Proc, v \in Uid :
         Written(q, v)' = IF q = p /\ v = u THEN Written(q, v) + 1 ELSE Written(q, v)
  BY <1>3, <1>4, <1>5 DEF StagesCount
<1>12. \A q \in Proc, v \in Uid : Left(q, v)' = Left(q, v) /\ Left(q, v) \in Int
  BY <1>4, <1>5, <1>10 DEF StagesCount
<1>13. \A q \in Proc, v \in Uid : v # u => Released(q, v)' = Released(q, v)
  BY <1>5, <1>10, <1>11 DEF StagesCount
<1>14. ~ Waits(p, "sync", u) /\ \A q \in Proc, v \in Uid : Written(q, v) \in Int
  BY <1>3, <1>5 DEF Waits, StagesCount
<1>15. Pass(u, 0, 1) \/ Pass(u, 0, 0)
  <2>1. CASE overflow(s)
    <3>1. \A q \in Members(u) : q = p \/ Waits(q, "sync", u)
      <4>1. /\ Sources(s.items) \in Seq(Proc) /\ Len(Sources(s.items)) = Len(s.items)
            /\ IsInjective(Sources(s.items))
            /\ \A q \in Proc : Occurs(Sources(s.items), q) <=> q = p \/ Waits(q, "sync", u)
        BY <1>6, SourcesOf DEF Joined
      <4>2. \A q \in Members(u) : Occurs(Sources(s.items), q)
        BY <1>7, <1>8, <2>1, <4>1, EverybodyIsThere DEF N, Counts
      <4> QED BY <4>1, <4>2 DEF Members, Users
    <3>2. \A q \in Proc : ~ Waits(q, "sync", u)'
      <4>1. timing'[u].items = <<>>
        BY <1>6, <1>9, <2>1
      <4>2. Sources(<<>>) = <<>> /\ \A q : ~ Occurs(<<>>, q)
        BY DEF Sources, Occurs
      <4> QED BY <1>2, <1>10, <4>1, <4>2
    <3>3. ASSUME NEW q \in Proc, q \in Members(u) PROVE Released(q, u)' = Released(q, u) + 1
      <4>1. /\ Released(q, u)' = Written(q, u)'
            /\ Released(q, u) = Written(q, u) - (IF q = p THEN 0 ELSE 1)
            /\ Written(q, u) \in Int
            /\ Written(q, u)' = IF q = p THEN Written(q, u) + 1 ELSE Written(q, u)
        BY <1>2, <1>5, <1>11, <1>14, <3>1, <3>2, <3>3 DEF StagesCount
      <4> QED BY <4>1
    <3>4. \A q \in Proc : Left(q, u)' = Left(q, u) + 0
      BY <1>2, <1>12
    <3> QED BY <1>12, <1>13, <3>3, <3>4 DEF Pass
  <2>2. CASE ~ overflow(s)
    <3>1. \A q \in Proc : Waits(q, "sync", u)' <=> q = p \/ Waits(q, "sync", u)
      BY <1>2, <1>6, <1>9, <1>10, <2>2 DEF Joined
    <3>2. ASSUME NEW q \in Proc, q \in Members(u) PROVE Released(q, u)' = Released(q, u) + 0
      <4>1. /\ Released(q, u)' = Written(q, u)'
                 - (IF q = p \/ Waits(q, "sync", u) THEN 1 ELSE 0)
            /\ Released(q, u) = Written(q, u) - (IF Waits(q, "sync", u) THEN 1 ELSE 0)
            /\ Written(q, u) \in Int
            /\ Written(q, u)' = IF q = p THEN Written(q, u) + 1 ELSE Written(q, u)
        BY <1>2, <1>5, <1>11, <1>14, <3>1 DEF StagesCount
      <4> QED BY <1>14, <4>1
    <3>3. \A q \in Proc : Left(q, u)' = Left(q, u) + 0
      BY <1>2, <1>12
    <3> QED BY <1>12, <1>13, <3>2, <3>3 DEF Pass
  <2> QED BY <2>1, <2>2
<1>16. Together'
  BY <1>1, <1>2, <1>15, TogetherStep DEF Inv2
<1>17. CountsKnown'
  <2>1. timing'[u].known /\ timing'[u].count = N
    BY <1>7, <1>9 DEF Counts
  <2> QED BY <1>1, <1>4, <1>9, <1>11, <2>1 DEF Inv2, CountsKnown, N
<1> QED BY <1>2, <1>4, <1>16, <1>17 DEF Inv2

\* Steps in which nobody passes, and nobody joins a barrier.
LEMMA NobodyPasses ==
  ASSUME Inv2, Inv1', UNCHANGED <<plan, round, prog, cmd, barrier, timing>>,
         \A p \in Proc : /\ pc'[p] # "run" => pc[p] # "run"
                         /\ pc'[p] \in {"result", "write"} <=> pc[p] \in {"result", "write"}
  PROVE  Inv2'
<1>1. Inv1 /\ TypeOK /\ TypeOK' /\ ProgramsAdvance
  BY DEF Inv2, Inv1
<1>2. /\ ProgramsAdvance' /\ \A q \in Proc, v \in Uid : Entered(q, v)' = Entered(q, v)
      /\ \A v : Members(v)' = Members(v)
  BY <1>1, NothingPrinted
<1>3. StagesCount /\ StagesCount'
  BY <1>1, <1>2, CountsOfStages, CountsOfStagesAfter
<1>4. \A q \in Proc, v \in Uid :
        /\ Waits(q, "result", v)' <=> Waits(q, "result", v)
        /\ Waits(q, "sync", v)' <=> Waits(q, "sync", v)
  BY <1>1, WaitingAfter DEF Inv1, BarrierList, TimingList
<1>5. \A q \in Proc, v \in Uid : Written(q, v)' = Written(q, v)
  BY <1>2, <1>3 DEF StagesCount
<1>6. \A q \in Proc, v \in Uid : Left(q, v)' = Left(q, v) /\ Released(q, v)' = Released(q, v)
  BY <1>2, <1>3, <1>4, <1>5 DEF StagesCount
<1>7. \A v : Members(v) \in SUBSET Proc
  BY DEF Members, Users
<1>8. Together'
  BY <1>2, <1>6, <1>7 DEF Inv2, Together
<1>9. CountsKnown'
  BY <1>2, <1>5 DEF Inv2, CountsKnown
<1> QED BY <1>2, <1>8, <1>9 DEF Inv2

LEMMA ReadInv2 ==
  ASSUME Inv2, NEW p \in Proc, ReadResult(p) \/ ReadSync(p)
  PROVE  Inv2'
<1>1. Inv1'
  BY ReadInv1 DEF Inv2
<1>2. /\ UNCHANGED <<plan, round, prog, cmd, barrier, timing>>
      /\ \A q \in Proc : /\ pc'[q] # "run" => pc[q] # "run"
                         /\ pc'[q] \in {"result", "write"} <=> pc[q] \in {"result", "write"}
  BY DEF Inv2, Inv1, TypeOK, ReadResult, ReadSync
<1> QED BY <1>1, <1>2, NobodyPasses

\* A round starts with nobody in a barrier and no barrier named.
LEMMA FreshRound ==
  ASSUME TypeOK, prog = plan[round],
         \A p \in Proc : pc[p] = "run",
         \A u \in Uid : barrier[u] = FreshBarrier /\ timing[u] = FreshBarrier
  PROVE  ProgramsAdvance /\ CountsKnown /\ Together
<1>1. \A p \in Proc : Printed(p) = 0 /\ prog[p] = plan[round][p] /\ plan[round][p] \in Seq(Cmd)
  BY RoundProgram DEF Printed
<1>2. ProgramsAdvance
  BY <1>1 DEF ProgramsAdvance
<1>3. \A p \in Proc, u \in Uid : Entered(p, u) = 0
  <2>1. \A p, u : Positions(p, u, 0) = {}
    BY DEF Positions
  <2> QED BY <1>1, <1>2, <2>1, PrintedType, FS_EmptySet
<1>4. \A p \in Proc, u \in Uid : Written(p, u) = 0 /\ Left(p, u) = 0 /\ Released(p, u) = 0
  <2>1. StagesCount
    BY <1>2, CountsOfStages
  <2> QED BY <1>3, <2>1 DEF StagesCount, Waits
<1>5. \A u : Members(u) \in SUBSET Proc
  BY DEF Members, Users
<1>6. CountsKnown
  BY <1>3, <1>4 DEF CountsKnown, FreshBarrier
<1>7. Together
  BY <1>4, <1>5 DEF Together
<1> QED BY <1>2, <1>6, <1>7

\* The hypotheses of FreshRound, as one state predicate.
Fresh ==
  /\ TypeOK /\ prog = plan[round]
  /\ \A p \in Proc : pc[p] = "run"
  /\ \A u \in Uid : barrier[u] = FreshBarrier /\ timing[u] = FreshBarrier

LEMMA FreshHolds == Fresh => ProgramsAdvance /\ CountsKnown /\ Together
BY FreshRound DEF Fresh

LEMMA FreshHoldsAfter == Fresh' => ProgramsAdvance' /\ CountsKnown' /\ Together'
BY FreshHolds, PTL

LEMMA Step2 == Inv2 /\ [Next]_vars => Inv2'
<1> SUFFICES ASSUME Inv2, [Next]_vars PROVE Inv2'
  OBVIOUS
<1>1. CASE NextRound
  <2>1. Inv1'
    BY <1>1, NextRoundInv1 DEF Inv2
  <2>2. Fresh'
    <3>1. plan' = plan /\ prog' = plan[round'] /\ UNCHANGED pc /\ \A p \in Proc : pc[p] = "run"
      BY <1>1 DEF NextRound, RoundOver, Inv2, Inv1, TypeOK
    <3>2. \A u \in Uid : barrier'[u] = FreshBarrier /\ timing'[u] = FreshBarrier
      BY <1>1 DEF NextRound
    <3> QED BY <2>1, <3>1, <3>2 DEF Fresh, Inv1
  <2> QED BY <2>1, <2>2, FreshHoldsAfter DEF Inv2
<1>2. CASE UNCHANGED vars
  <2>1. Inv1'
    BY <1>2, Step1 DEF Inv2
  <2> QED BY <1>2, <2>1, NobodyPasses DEF vars, clientVars
<1> QED BY <1>1, <1>2, NextCases, BarrierCmdInv2, BarrierWriteInv2, ReadInv2

\* No process passes a barrier before all processes that use it have entered
\* it as often, neither with its BARRIER command nor with its WRITE command.
THEOREM BarriersHold == Spec => []BarrierHolds
<1>1. Init => Inv2
  <2> SUFFICES ASSUME Init PROVE Inv2
    OBVIOUS
  <2>1. Inv1
    BY Init1
  <2>2. Fresh
    BY <2>1 DEF Init, Fresh, Inv1
  <2> QED BY <2>1, <2>2, FreshHolds DEF Inv2
<1>2. Inv2 => BarrierHolds
  <2> SUFFICES ASSUME Inv2, NEW u \in Uid, NEW p \in Members(u), NEW q \in Members(u)
               PROVE  Left(p, u) <= Entered(q, u) /\ Released(p, u) <= Written(q, u)
    BY DEF BarrierHolds
  <2>1. StagesCount
    BY CountsOfStages DEF Inv2, Inv1
  <2>2. p \in Proc /\ q \in Proc
    BY DEF Members, Users
  <2>3. /\ Left(q, u) <= Entered(q, u) /\ Released(q, u) <= Written(q, u)
        /\ Left(q, u) \in Int /\ Released(q, u) \in Int
        /\ Entered(q, u) \in Int /\ Written(q, u) \in Int
    BY <2>1, <2>2 DEF StagesCount
  <2>4. Left(p, u) = Left(q, u) /\ Released(p, u) = Released(q, u)
    BY DEF Inv2, Together
  <2> QED BY <2>3, <2>4
<1> QED BY <1>1, <1>2, Step2, PTL DEF Spec
=============================================================================
