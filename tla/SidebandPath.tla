----------------------------- MODULE SidebandPath -----------------------------
(***************************************************************************)
(* The way of a packet through the sideband of a die: from the layer above *)
(* over a first hop into the sideband channel of a layer, where the        *)
(* switcher (sideband_switcher.cpp) keeps what is addressed to this layer  *)
(* and passes the rest on, together with what this layer sends, over a     *)
(* second hop to the layer below (sideband_channel.cpp).  The other        *)
(* direction is the same circuit with above and below exchanged.           *)
(***************************************************************************)
EXTENDS SidebandNode, FiniteSets

CONSTANT Plans   \* what the two sources send, in order

Hop == {"above", "below"}       \* the hop from above, the hop to below
Source == {"layer", "inner"}    \* the layer above, the layer of the channel
Sink == {"inner", "out"}        \* the layer of the channel, the layer below

ASSUME PlansAssumption == Plans \subseteq [Source -> Seq(Packet)]

\* A packet names its source and its number, which counts upwards in each
\* class: this is what tells the packets apart and their order (InOrder).
ASSUME NumbersAssumption ==
    \A p \in Plans : \A s \in Source :
        /\ \A i \in DOMAIN p[s] : p[s][i].src = s
        /\ \A i, j \in DOMAIN p[s] :
              (i < j /\ p[s][i].cls = p[s][j].cls) => p[s][i].num < p[s][j].num

VARIABLES
    ser, des, queue,  \* registers of each hop
    plan, todo,       \* what each source sends, and what it has still to send
    got,              \* history: what each sink has taken
    dropped,          \* history: what found its queue full
    gained,           \* history: credits each sender got for nothing
    wasted            \* history: packets that were dropped with their credit

nodes == <<ser, des, queue>>
history == <<got, dropped, gained, wasted>>
vars == <<nodes, plan, todo, history>>

TypeOK ==
    /\ ser \in [Hop -> SerRegs]
    /\ des \in [Hop -> DesRegs]
    /\ queue \in [Hop -> Queues]
    /\ plan \in Plans
    /\ todo \in [Source -> Seq(Packet)]
    /\ got \in [Sink -> Seq(Packet)]
    /\ dropped \subseteq Packet
    /\ gained \in [Hop -> Nat] /\ wasted \in [Hop -> Nat]

Init ==
    /\ ser = [h \in Hop |-> SerIdle]
    /\ des = [h \in Hop |-> DesIdle]
    /\ queue = [h \in Hop |-> [c \in Classes |-> <<>>]]
    /\ plan \in Plans /\ todo = plan
    /\ got = [k \in Sink |-> <<>>]
    /\ dropped = {}
    /\ gained = [h \in Hop |-> 0] /\ wasted = [h \in Hop |-> 0]

-------------------------------------------------------------------------------
(* The switcher: wires only.                                                *)
Priority(p) == CASE p.cls = "complete" -> 0
                 [] p.cls = "message"  -> 1
                 [] p.cls = "request"  -> 2

\* What the first hop brings, split by its address.
Arrived == QueueOut(queue["above"])
ForHere == IF Arrived # None /\ Arrived.to = "here" THEN Arrived ELSE None
Through == IF Arrived # None /\ Arrived.to # "here" THEN Arrived ELSE None

\* _flag: the packet passing through goes before the one sent here (p, or
\* None) only if it has the better class.
PassFirst(p) == Through # None /\ (p # None => Priority(p) > Priority(Through))
Chosen(p) == IF PassFirst(p) THEN Through ELSE p
Goes(p) == Chosen(p) # None /\ SerReady(ser["below"], Chosen(p))

\* Faulty variant: the packet passing through is told it was taken when the
\* other one was.
PassTaken_any(p) == Through # None /\ Goes(p)

PassTaken(p) == PassFirst(p) /\ Goes(p)
InnerTaken(p) == p # None /\ ~PassFirst(p) /\ Goes(p)

-------------------------------------------------------------------------------
Held(b) == IF b THEN 1 ELSE 0

Offered(s, offer) == IF s \in offer /\ todo[s] # <<>> THEN Head(todo[s]) ELSE None

\* One clock edge.  offer: the sources with a packet on their wires; hear: the
\* layer of the channel takes what is addressed to it; take: the layer below
\* takes what it is offered.
Edge(offer, hear, take) ==
    LET first  == Offered("layer", offer)
        inner  == Offered("inner", offer)
        loads  == [above |-> IF first # None /\ SerReady(ser["above"], first)
                             THEN first ELSE None,
                   below |-> IF Goes(inner) THEN Chosen(inner) ELSE None]
        takes  == [above |-> (ForHere # None /\ hear) \/ PassTaken(inner),
                   below |-> QueueOut(queue["below"]) # None /\ take]
        backs  == [h \in Hop |-> CreditBack(queue[h], takes[h])]
    IN
    /\ ser' = [h \in Hop |-> SerNext(ser[h], loads[h], backs[h])]
    /\ des' = [h \in Hop |-> DesNext(des[h], SerValid(ser[h]), ser[h].pkt)]
    /\ queue' = [h \in Hop |-> QueueNext(queue[h], DesOut(des[h]), takes[h])]
    /\ todo' = [layer |-> IF loads["above"] # None THEN Tail(todo["layer"]) ELSE todo["layer"],
                inner |-> IF InnerTaken(inner) THEN Tail(todo["inner"]) ELSE todo["inner"]]
    /\ got' = [inner |-> IF ForHere # None /\ hear THEN Append(got["inner"], ForHere)
                         ELSE got["inner"],
               out   |-> IF takes["below"] THEN Append(got["out"], QueueOut(queue["below"]))
                         ELSE got["out"]]
    /\ dropped' = dropped \cup {DesOut(des[h]) : h \in {g \in Hop : Overflows(queue[g], DesOut(des[g]))}}
    /\ gained' = [h \in Hop |-> gained[h] + Held(backs[h] /\ Pays(ser[h]))]
    /\ wasted' = [h \in Hop |-> wasted[h] +
                     Held(Overflows(queue[h], DesOut(des[h])) /\ Credited(DesOut(des[h])))]
    /\ UNCHANGED plan

\* What may happen in an edge: a source with nothing to send offers nothing,
\* and a sink takes only what is there.
Offers == SUBSET {s \in Source : todo[s] # <<>>}
Hearings == {FALSE} \cup {b \in {TRUE} : ForHere # None}
Takings == {FALSE} \cup {b \in {TRUE} : ~Empty(queue["below"])}

Next == \E offer \in Offers, hear \in Hearings, take \in Takings : Edge(offer, hear, take)

\* A source keeps its packet on the wires until it is taken, and a sink takes
\* what it is offered sooner or later.
Sends(s) == \E offer \in Offers, hear \in Hearings, take \in Takings :
               s \in offer /\ Edge(offer, hear, take) /\ todo'[s] # todo[s]
Hears == \E offer \in Offers, take \in Takings :
            ForHere # None /\ Edge(offer, TRUE, take)
Takes == \E offer \in Offers, hear \in Hearings :
            ~Empty(queue["below"]) /\ Edge(offer, hear, TRUE)

Spec == Init /\ [][Next]_vars
FairSpec == /\ Spec /\ WF_vars(Next)
            /\ \A s \in Source : SF_vars(Sends(s))
            /\ SF_vars(Hears) /\ SF_vars(Takes)

-------------------------------------------------------------------------------
(* Properties.                                                              *)
\* The credited packets of hop h that have been sent and are not taken yet.
Outstanding(h) ==
    Held(des[h].full /\ Credited(des[h].pkt)) + Len(queue[h]["message"]) + Len(queue[h]["request"])

\* The gained credits have not made the register wrap.
InRange(h) == MaxCredit + gained[h] < CreditRange

\* The credits of a sender and the packets it has paid for add up, except for
\* the credits gained when one came back in the edge of a payment
\* (sideband_node.cpp:205-214), and for those lost with a packet that found its
\* queue full: nothing returns them.
Ledger ==
    \A h \in Hop : InRange(h) =>
        ser[h].credit + Outstanding(h) + wasted[h] = MaxCredit + gained[h]

\* A message or request is lost only after its sender has gained a credit, one
\* for each: the queues, which refuse nothing (sideband_node.cpp:35-38), are as
\* deep as there are credits.
LossIsGain == \A h \in Hop : InRange(h) => wasted[h] <= gained[h]

\* Packets of one source and one class that reach the same sink reach it in
\* the order they were sent in, over both hops and through the arbitration.
InOrder ==
    \A k \in Sink : \A i, j \in DOMAIN got[k] :
        (i < j /\ got[k][i].src = got[k][j].src /\ got[k][i].cls = got[k][j].cls)
            => got[k][i].num < got[k][j].num

\* How often sink k has taken packet p.
Times(p, k) == Cardinality({i \in DOMAIN got[k] : got[k][i] = p})
SinkOf(p) == IF p.to = "here" THEN "inner" ELSE "out"

\* Every packet is delivered, once and where it is addressed, unless it is one
\* that found its queue full; no packet stays on the way for ever behind one of
\* a better class, for want of a credit or between the two inputs of the switch.
Delivered ==
    <>(\A s \in Source : \A i \in 1..Len(plan[s]) :
          plan[s][i] \in dropped \/ Times(plan[s][i], SinkOf(plan[s][i])) = 1)
===============================================================================
