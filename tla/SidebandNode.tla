----------------------------- MODULE SidebandNode -----------------------------
(***************************************************************************)
(* One hop of the sideband: the serialiser of the sending node, the wires, *)
(* and the deserialiser and the priority queue of the receiving node       *)
(* (sideband_node.cpp).  Both nodes are in the same clock domain, so a     *)
(* clock edge moves both.  The operators act on the records of their       *)
(* registers; a packet is sent as a whole and counted in beats.            *)
(*                                                                         *)
(* The sender pays one credit for a packet that is no completion, and gets *)
(* it back when the packet leaves the queue of the receiver.               *)
(***************************************************************************)
EXTENDS Integers, Sequences

CONSTANTS
    Packet,        \* what can be sent; a packet has a class
    None,          \* no packet on a wire
    Beats,         \* beats of a packet: its width over the width of the wires
    MaxCredit,     \* sb_params.max_crd
    CreditRange,   \* the credit register wraps here
    CompleteDepth  \* places in the queue of completions

Classes == {"complete", "message", "request"}

ASSUME PacketAssumption == /\ \A p \in Packet : p.cls \in Classes
                           /\ None \notin Packet
ASSUME NodeAssumption ==
    /\ Beats \in Nat /\ Beats > 1
    /\ MaxCredit \in Nat /\ CreditRange \in Nat /\ 0 < MaxCredit /\ MaxCredit < CreditRange
    /\ CompleteDepth \in Nat

Credited(p) == p.cls # "complete"

(* SidebandSerializer.                                                      *)
SerRegs == [sending: BOOLEAN, pkt: Packet \cup {None}, credit: 0..(CreditRange - 1),
            beat: 0..(Beats - 1)]
SerIdle == [sending |-> FALSE, pkt |-> None, credit |-> MaxCredit, beat |-> 0]

\* io.in.ready for packet p, and io.out.valid.
SerReady(s, p) == ~s.sending /\ (Credited(p) => s.credit > 0)
SerValid(s) == s.sending /\ (Credited(s.pkt) => s.credit > 0)

\* The last beat (counter.cpp, isDone) and the count after an edge.
LastBeat(b) == b = Beats - 1

\* Faulty variant: the count goes one beat too far.
NextBeat_late(b, valid) == IF ~valid THEN b ELSE IF b = Beats THEN 0 ELSE b + 1

NextBeat(b, valid) == IF ~valid THEN b ELSE IF LastBeat(b) THEN 0 ELSE b + 1

\* The packet has been sent and is to be paid for.
Pays(s) == LastBeat(s.beat) /\ Credited(s.pkt)

\* Faulty variant: completions are paid for, too.
NextCredit_all(s, back) ==
    IF back THEN IF s.credit + 1 = CreditRange THEN 0 ELSE s.credit + 1
    ELSE IF LastBeat(s.beat) THEN IF s.credit = 0 THEN CreditRange - 1 ELSE s.credit - 1
    ELSE s.credit

\* A credit that comes back overrides the payment in the same edge: both write
\* the register, and the increment is written last.
NextCredit(s, back) ==
    IF back THEN IF s.credit + 1 = CreditRange THEN 0 ELSE s.credit + 1
    ELSE IF Pays(s) THEN IF s.credit = 0 THEN CreditRange - 1 ELSE s.credit - 1
    ELSE s.credit

\* load: the packet taken in this edge, or None; back: io.out.credit.
SerNext(s, load, back) ==
    [sending |-> IF LastBeat(s.beat) THEN FALSE ELSE s.sending \/ load # None,
     pkt     |-> IF load # None THEN load ELSE s.pkt,
     credit  |-> NextCredit(s, back),
     beat    |-> NextBeat(s.beat, SerValid(s))]

(* SidebandDeserializer: full is ~_receiving, the packet is offered to the  *)
(* queues, which always take it (SidebandEnqArbiter).                       *)
DesRegs == [full: BOOLEAN, pkt: Packet \cup {None}, beat: 0..(Beats - 1)]
DesIdle == [full |-> FALSE, pkt |-> None, beat |-> 0]

DesOut(r) == IF r.full THEN r.pkt ELSE None

DesNext(r, valid, p) ==
    [full |-> ~r.full /\ LastBeat(r.beat),
     pkt  |-> IF valid THEN p ELSE r.pkt,
     beat |-> NextBeat(r.beat, valid)]

(* SidebandPriorityQueue: one queue per class.                              *)
Queues == [Classes -> Seq(Packet)]
Depth(c) == IF c = "complete" THEN CompleteDepth ELSE MaxCredit

\* The class the dequeue arbiter offers, and the packet.
Empty(q) == \A c \in Classes : q[c] = <<>>

OutClass(q) ==
    IF q["complete"] # <<>> THEN "complete"
    ELSE IF q["message"] # <<>> THEN "message"
    ELSE "request"
QueueOut(q) == IF Empty(q) THEN None ELSE Head(q[OutClass(q)])

\* A packet for a full queue, although its sender has seen it accepted.
Overflows(q, in) == in # None /\ Len(q[in.cls]) >= Depth(in.cls)

\* One edge: in is offered by the deserialiser, take says that the packet at
\* the output is taken.
Kept(q, c, take) == IF take /\ c = OutClass(q) THEN Tail(q[c]) ELSE q[c]

\* Faulty variant: a packet enters where the next one leaves.
QueueNext_front(q, in, take) ==
    [c \in Classes |-> IF in # None /\ in.cls = c /\ ~Overflows(q, in)
                       THEN <<in>> \o Kept(q, c, take) ELSE Kept(q, c, take)]

Enters(q, c, in) == in # None /\ in.cls = c /\ ~Overflows(q, in)
QueueNext(q, in, take) ==
    [c \in Classes |-> IF Enters(q, c, in) THEN Append(Kept(q, c, take), in)
                       ELSE Kept(q, c, take)]

\* Faulty variant: every packet gives a credit back.
CreditBack_all(q, take) == take

\* io.outer.rx.credit: the packet taken gives its credit back.
CreditBack(q, take) == take /\ Credited(QueueOut(q))
===============================================================================
