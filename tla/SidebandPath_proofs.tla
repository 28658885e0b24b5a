------------------------- MODULE SidebandPath_proofs -------------------------
(***************************************************************************)
(* Proofs about SidebandPath, for any packets, plans, number of credits,   *)
(* length of packets and depth of the queue of completions, without        *)
(* fairness.                                                               *)
(*                                                                         *)
(* Ledger and LossIsGain are not inductive.  What is missing is that the   *)
(* two counts of beats of a hop agree, that a packet on its way is paid    *)
(* for at its last beat only if a credit was left when it was taken, and   *)
(* that a packet in a queue has the class of that queue.  These facts are  *)
(* stated hop by hop: an edge moves a hop by HopStep, whatever the other   *)
(* hop and the layers do, so that each lemma below is about one hop.       *)
(* InOrder is proved in the last part, from an order of the packets in     *)
(* each hop and of the two hops together.                                  *)
(***************************************************************************)
EXTENDS SidebandPath, TLAPS

\* The packets of a queue have its class.
Sorted(q) == \A c \in Classes : \A i \in DOMAIN q[c] : q[c][i].cls = c

\* What holds of the registers of a hop whatever the credits are.
HopType(s, r, q) ==
    /\ s \in SerRegs /\ r \in DesRegs /\ q \in Queues
    /\ s.sending \/ s.beat > 0 => s.pkt \in Packet
    /\ r.full \/ r.beat > 0 => r.pkt \in Packet
    /\ r.beat = s.beat
    /\ Sorted(q)

\* The credits of a hop: g were gained and w lost.
HopLedger(s, r, q, g, w) ==
    /\ s.beat > 0 => s.sending
    /\ s.sending /\ Credited(s.pkt) => s.credit > 0
    /\ r.full => r.beat = 0
    /\ s.credit + (Held(r.full /\ Credited(r.pkt)) + Len(q["message"]) + Len(q["request"])) + w
         = MaxCredit + g
    /\ w <= g

HopInv(h) ==
    /\ HopType(ser[h], des[h], queue[h])
    /\ InRange(h) => HopLedger(ser[h], des[h], queue[h], gained[h], wasted[h])

Inv == TypeOK /\ \A h \in Hop : HopInv(h)

\* What an edge may do to hop h: load a packet the serialiser is ready for,
\* and take one from the queue.
HopStep(h, load, take) ==
    LET back == CreditBack(queue[h], take) IN
    /\ load # None => load \in Packet /\ SerReady(ser[h], load)
    /\ take => ~Empty(queue[h])
    /\ ser'[h] = SerNext(ser[h], load, back)
    /\ des'[h] = DesNext(des[h], SerValid(ser[h]), ser[h].pkt)
    /\ queue'[h] = QueueNext(queue[h], DesOut(des[h]), take)
    /\ gained'[h] = gained[h] + Held(back /\ Pays(ser[h]))
    /\ wasted'[h] = wasted[h] +
         Held(Overflows(queue[h], DesOut(des[h])) /\ Credited(DesOut(des[h])))

-------------------------------------------------------------------------------
\* The output of the queues is the head of the queue OutClass names.
LEMMA OutOfQueue ==
  ASSUME NEW q \in Queues, Sorted(q), ~Empty(q)
  PROVE  /\ OutClass(q) \in Classes
         /\ q[OutClass(q)] # <<>>
         /\ QueueOut(q) \in Packet
         /\ QueueOut(q).cls = OutClass(q)
         /\ QueueOut(q) = Head(q[OutClass(q)])
<1>1. OutClass(q) \in Classes /\ q[OutClass(q)] # <<>>
  BY DEF OutClass, Empty, Classes
<1>2. q[OutClass(q)] \in Seq(Packet)
  BY <1>1 DEF Queues
<1>3. /\ 1 \in DOMAIN q[OutClass(q)]
      /\ Head(q[OutClass(q)]) = q[OutClass(q)][1]
      /\ Head(q[OutClass(q)]) \in Packet
  BY <1>1, <1>2
<1>4. QueueOut(q) = Head(q[OutClass(q)])
  BY DEF QueueOut
<1> QED BY <1>1, <1>3, <1>4 DEF Sorted

LEMMA NoneOut ==
  ASSUME NEW q, QueueOut(q) # None
  PROVE  ~Empty(q)
BY DEF QueueOut

\* What is kept of a queue when the packet at the output is taken or left.
LEMMA KeptOfQueue ==
  ASSUME NEW q \in Queues, Sorted(q), NEW c \in Classes, NEW take \in BOOLEAN,
         take => ~Empty(q)
  PROVE  /\ Kept(q, c, take) \in Seq(Packet)
         /\ \A i \in DOMAIN Kept(q, c, take) : Kept(q, c, take)[i].cls = c
         /\ Len(Kept(q, c, take)) = Len(q[c]) - Held(take /\ c = OutClass(q))
<1>1. q[c] \in Seq(Packet) /\ \A i \in DOMAIN q[c] : q[c][i].cls = c
  BY DEF Queues, Sorted
<1>2. CASE take /\ c = OutClass(q)
  <2>1. q[c] # <<>>
    BY <1>2, OutOfQueue
  <2>2. /\ Tail(q[c]) \in Seq(Packet)
        /\ Len(Tail(q[c])) = Len(q[c]) - 1
        /\ \A i \in DOMAIN Tail(q[c]) : i + 1 \in DOMAIN q[c] /\ Tail(q[c])[i] = q[c][i + 1]
    BY <1>1, <2>1
  <2>3. Kept(q, c, take) = Tail(q[c])
    BY <1>2 DEF Kept
  <2>4. Held(take /\ c = OutClass(q)) = 1
    BY <1>2 DEF Held
  <2>5. \A i \in DOMAIN Tail(q[c]) : Tail(q[c])[i].cls = c
    BY <1>1, <2>2
  <2> QED BY <2>2, <2>3, <2>4, <2>5
<1>3. CASE ~(take /\ c = OutClass(q))
  <2>1. Kept(q, c, take) = q[c]
    BY <1>3 DEF Kept
  <2>2. Held(take /\ c = OutClass(q)) = 0
    BY <1>3 DEF Held
  <2>3. Len(q[c]) \in Nat
    BY <1>1
  <2>4. Len(q[c]) = Len(q[c]) - 0
    BY <2>3
  <2> QED BY <1>1, <2>1, <2>2, <2>4
<1> QED BY <1>2, <1>3

\* The queues after an edge: their type, and their lengths.
LEMMA QueueStep ==
  ASSUME NEW q \in Queues, Sorted(q), NEW in \in Packet \cup {None}, NEW take \in BOOLEAN,
         take => ~Empty(q)
  PROVE  /\ QueueNext(q, in, take) \in Queues
         /\ Sorted(QueueNext(q, in, take))
         /\ \A c \in Classes : Len(QueueNext(q, in, take)[c]) =
               Len(q[c]) - Held(take /\ c = OutClass(q)) + Held(Enters(q, c, in))
<1> DEFINE n == QueueNext(q, in, take)
<1>1. \A c \in Classes : n[c] = IF Enters(q, c, in) THEN Append(Kept(q, c, take), in)
                                ELSE Kept(q, c, take)
  BY DEF QueueNext
<1>2. ASSUME NEW c \in Classes
      PROVE  /\ n[c] \in Seq(Packet)
             /\ \A i \in DOMAIN n[c] : n[c][i].cls = c
             /\ Len(n[c]) = Len(q[c]) - Held(take /\ c = OutClass(q)) + Held(Enters(q, c, in))
  <2> DEFINE k == Kept(q, c, take)
  <2>1. /\ k \in Seq(Packet)
        /\ \A i \in DOMAIN k : k[i].cls = c
        /\ Len(k) = Len(q[c]) - Held(take /\ c = OutClass(q))
    BY KeptOfQueue
  <2> HIDE DEF k
  <2>2. CASE Enters(q, c, in)
    <3>1. in \in Packet /\ in.cls = c
      BY <2>2 DEF Enters
    <3>2. n[c] = Append(k, in)
      BY <1>1, <2>2 DEF k
    <3>3. /\ Append(k, in) \in Seq(Packet)
          /\ Len(Append(k, in)) = Len(k) + 1
          /\ \A i \in DOMAIN Append(k, in) :
                Append(k, in)[i] = in \/ (i \in DOMAIN k /\ Append(k, in)[i] = k[i])
      BY <2>1, <3>1
    <3>4. Held(Enters(q, c, in)) = 1
      BY <2>2 DEF Held
    <3>5. \A i \in DOMAIN n[c] : n[c][i].cls = c
      BY <2>1, <3>1, <3>2, <3>3
    <3>6. Len(n[c]) = Len(k) + Held(Enters(q, c, in))
      BY <3>2, <3>3, <3>4
    <3> QED BY <2>1, <3>2, <3>3, <3>5, <3>6
  <2>3. CASE ~Enters(q, c, in)
    <3>1. n[c] = k
      BY <1>1, <2>3 DEF k
    <3>2. Held(Enters(q, c, in)) = 0
      BY <2>3 DEF Held
    <3>3. Len(k) \in Nat
      BY <2>1
    <3>4. Len(n[c]) = Len(k) + Held(Enters(q, c, in))
      BY <3>1, <3>2, <3>3
    <3> QED BY <2>1, <3>1, <3>4
  <2> QED BY <2>2, <2>3
<1>3. n \in Queues
  BY <1>2 DEF QueueNext, Queues
<1> QED BY <1>2, <1>3 DEF Sorted
-------------------------------------------------------------------------------
LEMMA BeatType ==
  ASSUME NEW b \in 0..(Beats - 1), NEW valid \in BOOLEAN
  PROVE  /\ NextBeat(b, valid) \in 0..(Beats - 1)
         /\ NextBeat(b, valid) > 0 => b > 0 \/ valid
         /\ LastBeat(b) => b > 0
         /\ LastBeat(b) /\ valid => NextBeat(b, valid) = 0
BY NodeAssumption DEF NextBeat, LastBeat

LEMMA CreditType ==
  ASSUME NEW s \in SerRegs, NEW back \in BOOLEAN
  PROVE  NextCredit(s, back) \in 0..(CreditRange - 1)
<1>1. s.credit \in 0..(CreditRange - 1)
  BY DEF SerRegs
<1> QED BY <1>1, NodeAssumption DEF NextCredit

\* The registers of a hop after an edge, whatever the credits are.
LEMMA HopTypeStep ==
  ASSUME NEW s, NEW r, NEW q, HopType(s, r, q),
         NEW load \in Packet \cup {None}, NEW take \in BOOLEAN, take => ~Empty(q)
  PROVE  HopType(SerNext(s, load, CreditBack(q, take)),
                 DesNext(r, SerValid(s), s.pkt),
                 QueueNext(q, DesOut(r), take))
<1> DEFINE back == CreditBack(q, take)
           valid == SerValid(s)
           s2 == SerNext(s, load, back)
           r2 == DesNext(r, valid, s.pkt)
<1>1. s \in SerRegs /\ r \in DesRegs /\ q \in Queues /\ Sorted(q) /\ r.beat = s.beat
  BY DEF HopType
<1>2. /\ s.sending \in BOOLEAN /\ s.pkt \in Packet \cup {None} /\ s.beat \in 0..(Beats - 1)
      /\ r.full \in BOOLEAN /\ r.pkt \in Packet \cup {None} /\ r.beat \in 0..(Beats - 1)
  BY <1>1 DEF SerRegs, DesRegs
<1>3. back \in BOOLEAN /\ valid \in BOOLEAN
  BY <1>2 DEF CreditBack, Credited, SerValid
<1>4. valid => s.sending
  BY DEF SerValid
<1>5. /\ NextBeat(s.beat, valid) \in 0..(Beats - 1)
      /\ NextBeat(s.beat, valid) > 0 => s.beat > 0 \/ valid
      /\ LastBeat(s.beat) => s.beat > 0
      /\ LastBeat(s.beat) \in BOOLEAN
  BY <1>2, <1>3, BeatType DEF LastBeat
<1>6. NextCredit(s, back) \in 0..(CreditRange - 1)
  BY <1>1, <1>3, CreditType
<1> HIDE DEF back, valid
<1>7. /\ s2.sending = IF LastBeat(s.beat) THEN FALSE ELSE s.sending \/ load # None
      /\ s2.pkt = IF load # None THEN load ELSE s.pkt
      /\ s2.beat = NextBeat(s.beat, valid)
      /\ s2 \in SerRegs
  BY <1>2, <1>5, <1>6 DEF SerNext, SerRegs, valid
<1>8. /\ r2.full = (~r.full /\ LastBeat(r.beat))
      /\ r2.pkt = IF valid THEN s.pkt ELSE r.pkt
      /\ r2.beat = NextBeat(r.beat, valid)
      /\ r2 \in DesRegs
  BY <1>1, <1>2, <1>5 DEF DesNext, DesRegs
<1>9. s2.sending \/ s2.beat > 0 => s2.pkt \in Packet
  BY <1>4, <1>5, <1>7, PacketAssumption DEF HopType
<1>10. r2.full \/ r2.beat > 0 => r2.pkt \in Packet
  BY <1>1, <1>4, <1>5, <1>8 DEF HopType
<1>11. r2.beat = s2.beat
  BY <1>1, <1>7, <1>8
<1>12. DesOut(r) \in Packet \cup {None}
  BY <1>2 DEF DesOut
<1>13. QueueNext(q, DesOut(r), take) \in Queues /\ Sorted(QueueNext(q, DesOut(r), take))
  BY <1>1, <1>12, QueueStep
<1> QED BY <1>7, <1>8, <1>9, <1>10, <1>11, <1>13 DEF HopType, back, valid

\* A packet that finds its queue full: its sender has paid for it only if it
\* had gained a credit nothing lost has used up yet.
LEMMA FullQueue ==
  ASSUME NEW s, NEW r, NEW q, NEW g \in Nat, NEW w \in Nat,
         HopType(s, r, q), HopLedger(s, r, q, g, w),
         r.full, Credited(r.pkt), Overflows(q, r.pkt)
  PROVE  w + 1 <= g
<1>1. r.pkt \in Packet /\ r.pkt.cls \in {"message", "request"}
  BY PacketAssumption DEF HopType, Credited, Classes
<1>2. Len(q[r.pkt.cls]) >= MaxCredit
  BY <1>1 DEF Overflows, Depth
<1>3. Len(q["message"]) \in Nat /\ Len(q["request"]) \in Nat
  BY DEF HopType, Queues, Classes
<1> DEFINE m == Len(q["message"])
           n == Len(q["request"])
<1>4. m + n >= MaxCredit
  <2>1. m >= MaxCredit \/ n >= MaxCredit
    <3>1. CASE r.pkt.cls = "message"
      BY <1>2, <3>1
    <3>2. CASE r.pkt.cls = "request"
      BY <1>2, <3>2
    <3> QED BY <1>1, <3>1, <3>2
  <2>2. m \in Nat /\ n \in Nat
    BY <1>3
  <2> HIDE DEF m, n
  <2> QED BY <2>1, <2>2, NodeAssumption
<1>5. s.credit \in Nat
  BY NodeAssumption DEF HopType, SerRegs
<1>6. s.credit + (1 + Len(q["message"]) + Len(q["request"])) + w = MaxCredit + g
  <2>1. Held(r.full /\ Credited(r.pkt)) = 1
    BY DEF Held
  <2> QED BY <2>1 DEF HopLedger
<1> DEFINE k == s.credit
<1>7. k \in Nat /\ m \in Nat /\ n \in Nat /\ k + (1 + m + n) + w = MaxCredit + g
  BY <1>3, <1>5, <1>6
<1> HIDE DEF k, m, n
<1> QED BY <1>4, <1>7, NodeAssumption

\* What the credited queues of a hop gain and lose in an edge.
LEMMA CreditedQueues ==
  ASSUME NEW q \in Queues, Sorted(q), NEW r \in DesRegs, r.full => r.pkt \in Packet,
         NEW take \in BOOLEAN, take => ~Empty(q)
  PROVE  LET n == QueueNext(q, DesOut(r), take)
             in == DesOut(r) IN
         Len(n["message"]) + Len(n["request"]) + Held(CreditBack(q, take))
           + Held(Overflows(q, in) /\ Credited(in))
         = Len(q["message"]) + Len(q["request"]) + Held(r.full /\ Credited(r.pkt))
<1> DEFINE in == DesOut(r)
           n == QueueNext(q, in, take)
           Out(c) == Held(take /\ c = OutClass(q))
           In(c) == Held(Enters(q, c, in))
<1>1. in \in Packet \cup {None} /\ r.full \in BOOLEAN /\ (in # None <=> r.full)
      /\ (r.full => in = r.pkt)
  BY PacketAssumption DEF DesOut, DesRegs
<1>2. /\ Len(n["message"]) = Len(q["message"]) - Out("message") + In("message")
      /\ Len(n["request"]) = Len(q["request"]) - Out("request") + In("request")
  BY <1>1, QueueStep DEF Classes
<1>3. Len(q["message"]) \in Nat /\ Len(q["request"]) \in Nat
  BY DEF Queues, Classes
<1>4. Out("message") + Out("request") = Held(CreditBack(q, take))
  <2>1. CASE ~take
    BY <2>1 DEF Held, CreditBack
  <2>2. CASE take
    <3>1. OutClass(q) \in Classes /\ QueueOut(q).cls = OutClass(q)
      BY <2>2, OutOfQueue
    <3>2. CASE OutClass(q) = "complete"
      BY <2>2, <3>1, <3>2 DEF Held, CreditBack, Credited
    <3>3. CASE OutClass(q) = "message"
      BY <2>2, <3>1, <3>3 DEF Held, CreditBack, Credited
    <3>4. CASE OutClass(q) = "request"
      BY <2>2, <3>1, <3>4 DEF Held, CreditBack, Credited
    <3> QED BY <3>1, <3>2, <3>3, <3>4 DEF Classes
  <2> QED BY <2>1, <2>2
<1>5. In("message") + In("request") + Held(Overflows(q, in) /\ Credited(in))
        = Held(r.full /\ Credited(r.pkt))
  <2>1. CASE ~r.full
    BY <1>1, <2>1 DEF Held, Enters, Overflows
  <2>2. CASE r.full
    <3>1. in \in Packet /\ in # None /\ in = r.pkt /\ in.cls \in Classes
      BY <1>1, <2>2, PacketAssumption
    <3>2. CASE in.cls = "complete"
      BY <2>2, <3>1, <3>2 DEF Held, Enters, Credited
    <3>3. CASE in.cls = "message"
      BY <2>2, <3>1, <3>3 DEF Held, Enters, Credited
    <3>4. CASE in.cls = "request"
      BY <2>2, <3>1, <3>4 DEF Held, Enters, Credited
    <3> QED BY <3>1, <3>2, <3>3, <3>4 DEF Classes
  <2> QED BY <1>1, <2>1, <2>2
<1>6. \A c \in Classes : Out(c) \in 0..1 /\ In(c) \in 0..1
  BY DEF Held
<1>7. /\ Held(CreditBack(q, take)) \in 0..1 /\ Held(Overflows(q, in) /\ Credited(in)) \in 0..1
      /\ Held(r.full /\ Credited(r.pkt)) \in 0..1
  BY DEF Held
<1>8. \A c \in {"message", "request"} : c \in Classes
  BY DEF Classes
<1> DEFINE m1 == Len(q["message"])
           m2 == Len(n["message"])
           n1 == Len(q["request"])
           n2 == Len(n["request"])
           b == Held(CreditBack(q, take))
           o == Held(Overflows(q, in) /\ Credited(in))
           a == Held(r.full /\ Credited(r.pkt))
<1>9. /\ m1 \in Nat /\ n1 \in Nat
      /\ m2 = m1 - Out("message") + In("message")
      /\ n2 = n1 - Out("request") + In("request")
      /\ Out("message") + Out("request") = b
      /\ In("message") + In("request") + o = a
      /\ Out("message") \in 0..1 /\ Out("request") \in 0..1
      /\ In("message") \in 0..1 /\ In("request") \in 0..1
      /\ o \in 0..1
  BY <1>2, <1>3, <1>4, <1>5, <1>6, <1>7, <1>8
<1>10. m2 + n2 + b + o = m1 + n1 + a
  <2> HIDE DEF m1, m2, n1, n2, b, o, a, Out, In
  <2> QED BY <1>9
<1> QED BY <1>10

\* The credits of a hop after an edge.
LEMMA HopLedgerStep ==
  ASSUME NEW s, NEW r, NEW q, NEW g \in Nat, NEW w \in Nat,
         HopType(s, r, q), HopLedger(s, r, q, g, w),
         NEW load \in Packet \cup {None}, load # None => SerReady(s, load),
         NEW take \in BOOLEAN, take => ~Empty(q),
         MaxCredit + g + Held(CreditBack(q, take) /\ Pays(s)) < CreditRange
  PROVE  HopLedger(SerNext(s, load, CreditBack(q, take)),
                   DesNext(r, SerValid(s), s.pkt),
                   QueueNext(q, DesOut(r), take),
                   g + Held(CreditBack(q, take) /\ Pays(s)),
                   w + Held(Overflows(q, DesOut(r)) /\ Credited(DesOut(r))))
<1> DEFINE back == CreditBack(q, take)
           valid == SerValid(s)
           in == DesOut(r)
           s2 == SerNext(s, load, back)
           r2 == DesNext(r, valid, s.pkt)
           q2 == QueueNext(q, in, take)
           lost == Overflows(q, in) /\ Credited(in)
           here == r.full /\ Credited(r.pkt)
           comes == r2.full /\ Credited(r2.pkt)
           m1 == Len(q["message"]) + Len(q["request"])
           m2 == Len(q2["message"]) + Len(q2["request"])
<1>1. /\ s \in SerRegs /\ r \in DesRegs /\ q \in Queues /\ Sorted(q) /\ r.beat = s.beat
      /\ r.full => r.pkt \in Packet
      /\ s.sending => s.pkt \in Packet
  BY DEF HopType
<1>2. /\ s.sending \in BOOLEAN /\ s.beat \in 0..(Beats - 1) /\ s.credit \in 0..(CreditRange - 1)
      /\ r.full \in BOOLEAN
  BY <1>1 DEF SerRegs, DesRegs
<1>3. /\ s.beat > 0 => s.sending
      /\ s.sending /\ Credited(s.pkt) => s.credit > 0
      /\ r.full => r.beat = 0
      /\ w <= g
  BY DEF HopLedger
<1>4. back \in BOOLEAN /\ valid \in BOOLEAN /\ Pays(s) \in BOOLEAN /\ lost \in BOOLEAN
      /\ here \in BOOLEAN /\ comes \in BOOLEAN
  BY <1>2 DEF CreditBack, SerValid, Pays, LastBeat, Credited, Overflows, DesNext
<1>5. valid <=> s.sending
  BY <1>2, <1>3 DEF SerValid
<1>6. /\ LastBeat(s.beat) => s.beat > 0
      /\ NextBeat(s.beat, valid) > 0 => s.beat > 0 \/ valid
      /\ LastBeat(s.beat) /\ valid => NextBeat(s.beat, valid) = 0
  BY <1>2, <1>4, BeatType
<1>7. \A x \in BOOLEAN : Held(x) = IF x THEN 1 ELSE 0
  BY DEF Held
<1>8. m1 \in Nat
  BY <1>1 DEF Queues, Classes
<1>9. s.credit + (Held(here) + m1) + w = MaxCredit + g
  <2>1. Len(q["message"]) \in Nat /\ Len(q["request"]) \in Nat
    BY <1>1 DEF Queues, Classes
  <2>2. Held(here) \in 0..1
    BY DEF Held
  <2>3. s.credit + (Held(here) + Len(q["message"]) + Len(q["request"])) + w = MaxCredit + g
    BY DEF HopLedger
  <2> DEFINE k == s.credit
             a == Len(q["message"])
             b == Len(q["request"])
             c == Held(here)
  <2>4. k + (c + (a + b)) + w = MaxCredit + g
    <3>1. k \in Nat /\ a \in Nat /\ b \in Nat /\ c \in Nat /\ k + (c + a + b) + w = MaxCredit + g
      BY <1>2, <2>1, <2>2, <2>3, NodeAssumption
    <3> HIDE DEF k, a, b, c
    <3> QED BY <3>1
  <2> QED BY <2>4
<1>10. m2 + Held(back) + Held(lost) = m1 + Held(here)
  BY <1>1, CreditedQueues
<1>11. m2 \in Nat
  <2>1. in \in Packet \cup {None}
    BY <1>1 DEF DesOut
  <2>2. q2 \in Queues
    BY <1>1, <2>1, QueueStep
  <2> HIDE DEF q2
  <2> QED BY <2>2 DEF Queues, Classes
\* What the deserialiser offers next has been paid for in this edge.
<1>12. comes <=> Pays(s)
  <2>1. r2.full = (~r.full /\ LastBeat(r.beat)) /\ r2.pkt = IF valid THEN s.pkt ELSE r.pkt
    BY DEF DesNext
  <2>2. LastBeat(s.beat) => valid /\ ~r.full
    BY <1>1, <1>2, <1>3, <1>5, <1>6
  <2> QED BY <1>1, <2>1, <2>2 DEF Pays
\* The register of the credits does not wrap.
<1>13. Pays(s) => s.credit > 0
  BY <1>3, <1>6 DEF Pays
<1>14. back => m1 >= 1
  <2> SUFFICES ASSUME back PROVE m1 >= 1
    OBVIOUS
  <2>1. take /\ Credited(QueueOut(q))
    BY DEF CreditBack
  <2>2. OutClass(q) \in {"message", "request"} /\ q[OutClass(q)] # <<>>
    BY <1>1, <2>1, OutOfQueue DEF Credited, Classes
  <2>3. q["message"] \in Seq(Packet) /\ q["request"] \in Seq(Packet)
    BY <1>1 DEF Queues, Classes
  <2>4. q["message"] # <<>> \/ q["request"] # <<>>
    BY <2>2
  <2>5. \A x \in Seq(Packet) : Len(x) \in Nat /\ (x # <<>> => Len(x) >= 1)
    OBVIOUS
  <2> DEFINE a == Len(q["message"])
             b == Len(q["request"])
  <2>6. a \in Nat /\ b \in Nat /\ (a >= 1 \/ b >= 1)
    BY <2>3, <2>4, <2>5
  <2>7. a + b >= 1
    <3> HIDE DEF a, b
    <3> QED BY <2>6
  <2> QED BY <2>7
<1> HIDE DEF back, valid, in, q2, lost, here, comes, m1, m2
<1>15. back => s.credit + 1 # CreditRange
  <2> DEFINE k == s.credit
             c == Held(here)
             x == Held(back /\ Pays(s))
  <2>1. /\ k \in Nat /\ c \in 0..1 /\ x \in 0..1 /\ k + (c + m1) + w = MaxCredit + g
        /\ MaxCredit + g + x < CreditRange
    BY <1>2, <1>9, NodeAssumption DEF Held, back
  <2> HIDE DEF k, c, x
  <2>2. back => k + 1 # CreditRange
    BY <1>8, <1>14, <2>1, NodeAssumption
  <2> QED BY <2>2 DEF k
<1>16. NextCredit(s, back) = s.credit + Held(back) - Held(Pays(s)) + Held(back /\ Pays(s))
  <2>1. CASE back
    BY <1>2, <1>4, <1>15, <2>1, NodeAssumption DEF NextCredit, Held
  <2>2. CASE ~back
    BY <1>2, <1>4, <1>13, <2>2, NodeAssumption DEF NextCredit, Held
  <2> QED BY <2>1, <2>2
<1>17. w + Held(lost) <= g
  <2>1. CASE lost
    <3>1. r.full /\ in = r.pkt
      BY <1>4, <2>1 DEF lost, in, DesOut, Overflows
    <3>2. Credited(r.pkt) /\ Overflows(q, r.pkt)
      BY <2>1, <3>1 DEF lost
    <3>3. w + 1 <= g
      BY <3>1, <3>2, FullQueue
    <3> QED BY <2>1, <3>3 DEF Held
  <2>2. CASE ~lost
    BY <1>3, <2>2 DEF Held
  <2> QED BY <2>1, <2>2
<1>18. NextCredit(s, back) + (Held(comes) + m2) + (w + Held(lost))
         = MaxCredit + (g + Held(back /\ Pays(s)))
  <2> DEFINE k == s.credit
             k2 == NextCredit(s, back)
             b == Held(back)
             p == Held(Pays(s))
             x == Held(back /\ Pays(s))
             o == Held(lost)
             a == Held(here)
             c == Held(comes)
  <2>1. /\ k \in Nat /\ k2 = k + b - p + x /\ k + (a + m1) + w = MaxCredit + g
        /\ m2 + b + o = m1 + a /\ c = p
    <3>1. k \in Nat
      BY <1>2, NodeAssumption
    <3>2. c = p
      BY <1>12 DEF Held
    <3> QED BY <1>9, <1>10, <1>16, <3>1, <3>2
  <2>2. /\ b \in 0..1 /\ p \in 0..1 /\ x \in 0..1 /\ o \in 0..1 /\ a \in 0..1
    BY DEF Held
  <2> HIDE DEF k, k2, b, p, x, o, a, c
  <2>3. k2 + (c + m2) + (w + o) = MaxCredit + (g + x)
    BY <1>8, <1>11, <2>1, <2>2, NodeAssumption
  <2> QED BY <2>3 DEF k2, c, o, x
<1>19. /\ s2.sending = IF LastBeat(s.beat) THEN FALSE ELSE s.sending \/ load # None
       /\ s2.pkt = IF load # None THEN load ELSE s.pkt
       /\ s2.beat = NextBeat(s.beat, valid)
       /\ s2.credit = NextCredit(s, back)
  BY DEF SerNext, valid
<1>20. r2.full = (~r.full /\ LastBeat(r.beat)) /\ r2.beat = NextBeat(r.beat, valid)
  BY DEF DesNext
<1> HIDE DEF s2, r2
<1>21. LastBeat(s.beat) => valid
  BY <1>3, <1>5, <1>6
<1>22. s2.beat > 0 => s2.sending
  <2> SUFFICES ASSUME NextBeat(s.beat, valid) > 0 PROVE s2.sending
    BY <1>19
  <2>1. s.sending
    BY <1>3, <1>5, <1>6
  <2>2. ~LastBeat(s.beat)
    BY <1>6, <1>21
  <2> QED BY <1>19, <2>1, <2>2
<1>23. ASSUME s2.sending, Credited(s2.pkt) PROVE s2.credit > 0
  <2>1. ~LastBeat(s.beat) /\ ~Pays(s)
    BY <1>19, <1>23 DEF Pays
  <2>2. s.credit > 0
    BY <1>3, <1>19, <1>23 DEF SerReady
  <2>3. NextCredit(s, back) = s.credit + Held(back)
    BY <1>2, <1>15, <2>1 DEF NextCredit, Held
  <2>4. Held(back) \in 0..1 /\ s.credit \in Nat
    BY <1>2, NodeAssumption DEF Held
  <2> QED BY <1>19, <2>2, <2>3, <2>4
<1>24. r2.full => r2.beat = 0
  BY <1>1, <1>6, <1>20, <1>21
<1>25. w + Held(lost) <= g + Held(back /\ Pays(s))
  <2>1. Held(back /\ Pays(s)) \in 0..1 /\ Held(lost) \in 0..1
    BY DEF Held
  <2> QED BY <1>17, <2>1
<1>26. s2.credit + (Held(comes) + Len(q2["message"]) + Len(q2["request"])) + (w + Held(lost))
         = MaxCredit + (g + Held(back /\ Pays(s)))
  <2> DEFINE k == s2.credit
             a == Len(q2["message"])
             b == Len(q2["request"])
             c == Held(comes)
             o == Held(lost)
             x == Held(back /\ Pays(s))
  <2>1. c + m2 = c + a + b
    <3>1. in \in Packet \cup {None}
      BY <1>1 DEF DesOut, in
    <3>2. q2 \in Queues
      BY <1>1, <3>1, QueueStep DEF q2
    <3>3. a \in Nat /\ b \in Nat /\ c \in 0..1 /\ m2 = a + b
      BY <3>2 DEF Queues, Classes, Held, m2
    <3> HIDE DEF a, b, c
    <3> QED BY <3>3
  <2>2. k + (c + m2) + (w + o) = MaxCredit + (g + x)
    BY <1>18, <1>19
  <2> HIDE DEF k, a, b, c, o, x
  <2>3. k + (c + a + b) + (w + o) = MaxCredit + (g + x)
    BY <2>1, <2>2
  <2> QED BY <2>3 DEF k, a, b, c, o, x
<1>27. HopLedger(s2, r2, q2, g + Held(back /\ Pays(s)), w + Held(lost))
  BY <1>22, <1>23, <1>24, <1>25, <1>26 DEF HopLedger, comes
<1> QED BY <1>27 DEF s2, r2, q2, back, valid, in, lost

-------------------------------------------------------------------------------
\* What a source offers is the first of what it has still to send.
LEMMA OfferedType ==
  ASSUME TypeOK, NEW x \in Source, NEW offer
  PROVE  /\ Offered(x, offer) \in Packet \cup {None}
         /\ Offered(x, offer) # None => todo[x] # <<>>
<1>1. todo[x] \in Seq(Packet)
  BY DEF TypeOK
<1>2. todo[x] # <<>> => Head(todo[x]) \in Packet
  BY <1>1
<1> QED BY <1>2 DEF Offered

\* The first hop arrives at the switch with a packet of its queue, or nothing.
LEMMA ArrivedType ==
  ASSUME Inv
  PROVE  /\ Arrived \in Packet \cup {None}
         /\ Arrived # None => ~Empty(queue["above"])
         /\ ForHere # None => ForHere = Arrived
         /\ Through # None => Through = Arrived
         /\ Through \in Packet \cup {None}
<1>1. queue["above"] \in Queues /\ Sorted(queue["above"])
  BY DEF Inv, HopInv, HopType, Hop
<1>2. Arrived # None => ~Empty(queue["above"])
  BY NoneOut DEF Arrived
<1>3. Arrived \in Packet \cup {None}
  BY <1>1, <1>2, OutOfQueue DEF Arrived
<1> QED BY <1>2, <1>3 DEF ForHere, Through

\* What an edge loads into each hop, and whether it takes a packet from it.
LoadAbove(offer) ==
    LET first == Offered("layer", offer)
    IN  IF first # None /\ SerReady(ser["above"], first) THEN first ELSE None
LoadBelow(offer) ==
    LET inner == Offered("inner", offer) IN IF Goes(inner) THEN Chosen(inner) ELSE None
TakeAbove(offer, hear) == (ForHere # None /\ hear) \/ PassTaken(Offered("inner", offer))
TakeBelow(take) == QueueOut(queue["below"]) # None /\ take

\* An edge moves each hop by its step, whatever is offered and taken.
LEMMA EdgeSteps ==
  ASSUME Inv, NEW offer, NEW hear \in BOOLEAN, NEW take \in BOOLEAN,
         Edge(offer, hear, take)
  PROVE  /\ LoadAbove(offer) \in Packet \cup {None} /\ TakeAbove(offer, hear) \in BOOLEAN
         /\ HopStep("above", LoadAbove(offer), TakeAbove(offer, hear))
         /\ LoadBelow(offer) \in Packet \cup {None} /\ TakeBelow(take) \in BOOLEAN
         /\ HopStep("below", LoadBelow(offer), TakeBelow(take))
<1> DEFINE first == Offered("layer", offer)
           inner == Offered("inner", offer)
           la == LoadAbove(offer)
           lb == LoadBelow(offer)
           ta == TakeAbove(offer, hear)
           tb == TakeBelow(take)
<1>1. first \in Packet \cup {None} /\ inner \in Packet \cup {None}
  BY OfferedType DEF Inv, Source
<1>2. la \in Packet \cup {None} /\ (la # None => la \in Packet /\ SerReady(ser["above"], la))
  BY <1>1 DEF LoadAbove
<1>3. ta \in BOOLEAN /\ (ta => ~Empty(queue["above"]))
  BY ArrivedType DEF TakeAbove, PassTaken, PassFirst, Goes
<1>4. HopStep("above", la, ta)
  BY <1>2, <1>3 DEF Edge, HopStep, Hop, LoadAbove, TakeAbove
<1>5. lb \in Packet \cup {None} /\ (lb # None => lb \in Packet /\ SerReady(ser["below"], lb))
  BY <1>1, ArrivedType DEF LoadBelow, Goes, Chosen
<1>6. tb \in BOOLEAN /\ (tb => ~Empty(queue["below"]))
  BY NoneOut DEF TakeBelow
<1>7. HopStep("below", lb, tb)
  BY <1>5, <1>6 DEF Edge, HopStep, Hop, LoadBelow, TakeBelow
<1> QED BY <1>2, <1>3, <1>4, <1>5, <1>6, <1>7

\* The step of a hop preserves what is claimed of it.
LEMMA HopInvStep ==
  ASSUME TypeOK, NEW h \in Hop, HopInv(h),
         NEW load \in Packet \cup {None}, NEW t \in BOOLEAN, HopStep(h, load, t)
  PROVE  HopInv(h)' /\ gained'[h] \in Nat /\ wasted'[h] \in Nat
<1> DEFINE back == CreditBack(queue[h], t)
           x == Held(back /\ Pays(ser[h]))
           in == DesOut(des[h])
<1>1. gained[h] \in Nat /\ wasted[h] \in Nat
  BY DEF TypeOK
<1>2. /\ ser'[h] = SerNext(ser[h], load, back)
      /\ des'[h] = DesNext(des[h], SerValid(ser[h]), ser[h].pkt)
      /\ queue'[h] = QueueNext(queue[h], in, t)
      /\ gained'[h] = gained[h] + x
      /\ wasted'[h] = wasted[h] + Held(Overflows(queue[h], in) /\ Credited(in))
      /\ t => ~Empty(queue[h])
      /\ load # None => SerReady(ser[h], load)
  BY DEF HopStep
<1>3. x \in 0..1 /\ Held(Overflows(queue[h], in) /\ Credited(in)) \in 0..1
  BY DEF Held
<1>4. gained'[h] \in Nat /\ wasted'[h] \in Nat
  BY <1>1, <1>2, <1>3
<1>5. HopType(ser'[h], des'[h], queue'[h])
  BY <1>2, HopTypeStep DEF HopInv
<1>6. ASSUME MaxCredit + gained'[h] < CreditRange
      PROVE  HopLedger(ser'[h], des'[h], queue'[h], gained'[h], wasted'[h])
  <2>1. MaxCredit + gained[h] + x < CreditRange
    <3> DEFINE g == gained[h]
    <3>1. MaxCredit + (g + x) < CreditRange /\ g \in Nat
      BY <1>1, <1>2, <1>6
    <3> HIDE DEF g, x
    <3>2. MaxCredit + g + x < CreditRange
      BY <1>3, <3>1, NodeAssumption
    <3> QED BY <3>2 DEF g
  <2>2. InRange(h)
    <3> HIDE DEF x
    <3> QED BY <1>1, <1>3, <2>1, NodeAssumption DEF InRange
  <2>3. HopType(ser[h], des[h], queue[h])
        /\ HopLedger(ser[h], des[h], queue[h], gained[h], wasted[h])
    BY <2>2 DEF HopInv
  <2>4. HopLedger(SerNext(ser[h], load, back), DesNext(des[h], SerValid(ser[h]), ser[h].pkt),
                  QueueNext(queue[h], in, t), gained[h] + x,
                  wasted[h] + Held(Overflows(queue[h], in) /\ Credited(in)))
    BY <1>1, <1>2, <2>1, <2>3, HopLedgerStep
  <2> QED BY <1>2, <2>4
<1> QED BY <1>4, <1>5, <1>6 DEF HopInv, InRange

LEMMA InitInv ==
  ASSUME Init
  PROVE  Inv
<1>1. SerIdle \in SerRegs /\ DesIdle \in DesRegs
  BY NodeAssumption DEF SerIdle, SerRegs, DesIdle, DesRegs
<1> DEFINE q == [c \in Classes |-> <<>>]
<1>2. q \in Queues /\ Sorted(q)
  <2>1. \A c \in Classes : q[c] = <<>>
    OBVIOUS
  <2>2. <<>> \in Seq(Packet) /\ DOMAIN <<>> = {}
    OBVIOUS
  <2> QED BY <2>1, <2>2 DEF Queues, Sorted
<1>3. TypeOK
  <2>1. todo \in [Source -> Seq(Packet)]
    BY PlansAssumption DEF Init
  <2>2. got \in [Sink -> Seq(Packet)]
    BY DEF Init
  <2> QED BY <1>1, <1>2, <2>1, <2>2 DEF Init, TypeOK
<1>4. ASSUME NEW h \in Hop PROVE HopInv(h)
  <2>1. ser[h] = SerIdle /\ des[h] = DesIdle /\ queue[h] = q /\ gained[h] = 0 /\ wasted[h] = 0
    BY DEF Init
  <2>2. HopType(SerIdle, DesIdle, q)
    BY <1>1, <1>2 DEF HopType, SerIdle, DesIdle
  <2>3. Held(FALSE /\ Credited(None)) = 0
    BY DEF Held
  <2>4. q["message"] = <<>> /\ q["request"] = <<>> /\ Len(<<>>) = 0
    BY DEF Classes
  <2>5. DesIdle.full = FALSE /\ DesIdle.pkt = None /\ DesIdle.beat = 0
    BY DEF DesIdle
  <2>6. SerIdle.sending = FALSE /\ SerIdle.credit = MaxCredit /\ SerIdle.beat = 0
    BY DEF SerIdle
  <2>7. HopLedger(SerIdle, DesIdle, q, 0, 0)
    BY <2>3, <2>4, <2>5, <2>6, NodeAssumption DEF HopLedger
  <2> QED BY <2>1, <2>2, <2>7 DEF HopInv
<1> QED BY <1>3, <1>4 DEF Inv

\* An edge preserves the types of the histories and of what is still to send.
LEMMA HistoryStep ==
  ASSUME Inv, NEW offer, NEW hear \in BOOLEAN, NEW take \in BOOLEAN, Edge(offer, hear, take)
  PROVE  /\ plan' \in Plans
         /\ todo' \in [Source -> Seq(Packet)]
         /\ got' \in [Sink -> Seq(Packet)]
         /\ dropped' \subseteq Packet
<1> DEFINE first == Offered("layer", offer)
           inner == Offered("inner", offer)
           la == IF first # None /\ SerReady(ser["above"], first) THEN first ELSE None
           tb == QueueOut(queue["below"]) # None /\ take
<1>1. TypeOK
  BY DEF Inv
<1>2. todo' \in [Source -> Seq(Packet)]
  <2>1. /\ todo["layer"] \in Seq(Packet) /\ todo["inner"] \in Seq(Packet)
        /\ la # None => todo["layer"] # <<>>
        /\ InnerTaken(inner) => todo["inner"] # <<>>
    BY <1>1, OfferedType DEF TypeOK, Source, InnerTaken
  <2> DEFINE a == IF la # None THEN Tail(todo["layer"]) ELSE todo["layer"]
             b == IF InnerTaken(inner) THEN Tail(todo["inner"]) ELSE todo["inner"]
  <2>2. a \in Seq(Packet) /\ b \in Seq(Packet)
    BY <2>1
  <2>3. todo' = [layer |-> a, inner |-> b]
    BY DEF Edge
  <2> HIDE DEF a, b
  <2> QED BY <2>2, <2>3 DEF Source
<1>3. got' \in [Sink -> Seq(Packet)]
  <2>1. got["inner"] \in Seq(Packet) /\ got["out"] \in Seq(Packet)
    BY <1>1 DEF TypeOK, Sink
  <2>2. ForHere # None => ForHere \in Packet
    BY ArrivedType
  <2>3. queue["below"] \in Queues /\ Sorted(queue["below"])
    BY DEF Inv, HopInv, HopType, Hop
  <2>4. tb => QueueOut(queue["below"]) \in Packet
    BY <2>3, NoneOut, OutOfQueue
  <2> DEFINE a == IF ForHere # None /\ hear THEN Append(got["inner"], ForHere) ELSE got["inner"]
             b == IF tb THEN Append(got["out"], QueueOut(queue["below"])) ELSE got["out"]
  <2>5. a \in Seq(Packet) /\ b \in Seq(Packet)
    BY <2>1, <2>2, <2>4
  <2>6. got' = [inner |-> a, out |-> b]
    BY DEF Edge
  <2> HIDE DEF a, b
  <2> QED BY <2>5, <2>6 DEF Sink
<1>4. dropped' \subseteq Packet
  <2>1. \A h \in Hop : Overflows(queue[h], DesOut(des[h])) => DesOut(des[h]) \in Packet
    <3> SUFFICES ASSUME NEW h \in Hop, Overflows(queue[h], DesOut(des[h]))
                 PROVE  DesOut(des[h]) \in Packet
      OBVIOUS
    <3>1. des[h].full => des[h].pkt \in Packet
      BY DEF Inv, HopInv, HopType
    <3> QED BY <3>1 DEF Overflows, DesOut
  <2>2. dropped' = dropped \cup {DesOut(des[h]) : h \in {g \in Hop : Overflows(queue[g], DesOut(des[g]))}}
    BY DEF Edge
  <2>3. dropped \subseteq Packet
    BY <1>1 DEF TypeOK
  <2> QED BY <2>1, <2>2, <2>3
<1>5. plan' \in Plans
  BY <1>1 DEF TypeOK, Edge
<1> QED BY <1>2, <1>3, <1>4, <1>5

LEMMA NextInv ==
  ASSUME Inv, [Next]_vars
  PROVE  Inv'
<1>1. CASE UNCHANGED vars
  BY <1>1 DEF vars, nodes, history, Inv, TypeOK, HopInv, InRange
<1>2. CASE Next
  <2>1. PICK offer \in Offers, hear \in Hearings, take \in Takings : Edge(offer, hear, take)
    BY <1>2 DEF Next
  <2>2. hear \in BOOLEAN /\ take \in BOOLEAN
    BY DEF Hearings, Takings
  <2>3. ASSUME NEW h \in Hop PROVE HopInv(h)' /\ gained'[h] \in Nat /\ wasted'[h] \in Nat
    <3>1. PICK load \in Packet \cup {None}, t \in BOOLEAN : HopStep(h, load, t)
      BY <2>1, <2>2, EdgeSteps DEF Hop
    <3> QED BY <3>1, HopInvStep DEF Inv
  <2>4. \A h \in Hop : ser'[h] \in SerRegs /\ des'[h] \in DesRegs /\ queue'[h] \in Queues
    BY <2>3 DEF HopInv, HopType
  <2>5. /\ ser' = [h \in Hop |-> ser'[h]]
        /\ des' = [h \in Hop |-> des'[h]]
        /\ queue' = [h \in Hop |-> queue'[h]]
        /\ gained' = [h \in Hop |-> gained'[h]]
        /\ wasted' = [h \in Hop |-> wasted'[h]]
    BY <2>1 DEF Edge
  <2>6. TypeOK'
    BY <2>1, <2>2, <2>3, <2>4, <2>5, HistoryStep DEF TypeOK
  <2> QED BY <2>3, <2>6 DEF Inv
<1> QED BY <1>1, <1>2

-------------------------------------------------------------------------------
THEOREM InvariantHolds == Spec => []Inv
<1>1. Init => Inv
  BY InitInv
<1>2. Inv /\ [Next]_vars => Inv'
  BY NextInv
<1> QED BY <1>1, <1>2, PTL DEF Spec

\* The registers, queues and histories of both hops keep their types: no beat
\* is counted past the packet, and nothing but a packet enters a queue.
THEOREM TypeCorrect == Spec => []TypeOK
<1>1. Inv => TypeOK
  BY DEF Inv
<1> QED BY <1>1, InvariantHolds, PTL

\* The credits of a sender, the packets it has paid for, those lost, and the
\* credits gained when one came back in the edge of a payment always add up
\* (NextCredit), as long as the register cannot have wrapped.
THEOREM CreditsAddUp == Spec => []Ledger
<1>1. Inv => Ledger
  <2> SUFFICES ASSUME Inv, NEW h \in Hop, InRange(h)
               PROVE  ser[h].credit + Outstanding(h) + wasted[h] = MaxCredit + gained[h]
    BY DEF Ledger
  <2>1. HopLedger(ser[h], des[h], queue[h], gained[h], wasted[h])
    BY DEF Inv, HopInv
  <2> QED BY <2>1 DEF HopLedger, Outstanding
<1> QED BY <1>1, InvariantHolds, PTL

\* A queue of a hop never refuses a message or request unless its sender has
\* gained a credit before, one for each packet lost.
THEOREM LossNeedsGain == Spec => []LossIsGain
<1>1. Inv => LossIsGain
  BY DEF Inv, HopInv, HopLedger, LossIsGain
<1> QED BY <1>1, InvariantHolds, PTL
-------------------------------------------------------------------------------
(***************************************************************************)
(* The order of delivery.  The packets of a hop stand in stages, and each  *)
(* packet is before those of the stages behind it: D, those that have left *)
(* the hop; those in its queues; the one the deserialiser holds; the one   *)
(* the serialiser sends; U, those that are still to come.  The packets     *)
(* delivered are in order because a packet only moves from one stage to    *)
(* the next, as long as no register of credits wraps: a sender that runs   *)
(* out of credits in the middle of a packet would send beats of it twice.  *)
(***************************************************************************)
NoWrap == \A h \in Hop : InRange(h)

Items(list) == {list[i] : i \in DOMAIN list}

Before(a, b) == a.src = b.src /\ a.cls = b.cls => a.num < b.num
Ahead(A, B) == \A a \in A, b \in B : Before(a, b)
Increasing(list) == \A i, j \in DOMAIN list : i < j => Before(list[i], list[j])

\* The stages of a hop.
Waiting(q) == UNION {Items(q[c]) : c \in Classes}
Landed(r) == {p \in {r.pkt} : r.full}
Sent(s) == {p \in {s.pkt} : s.sending}

\* The packet loaded, and the packet taken, if there is one.
OnWire(load) == {p \in {load} : load # None}
Taken(h, t) == {p \in {QueueOut(queue[h])} : t}

Staged(D, W, L, S, U) ==
    /\ Ahead(D, W \cup L \cup S \cup U)
    /\ Ahead(W, L \cup S \cup U)
    /\ Ahead(L, S \cup U)
    /\ Ahead(S, U)

HopOrder(s, r, q, U, D) ==
    /\ \A c \in Classes : Increasing(q[c])
    /\ Staged(D, Waiting(q), Landed(r), Sent(s), U)

\* The packets within hop h; what is still to come there and what has left it.
\* The packets of the layer are the only ones that pass both hops.
Within(s, r, q) == Waiting(q) \cup Landed(r) \cup Sent(s)
Onway(h) == Within(ser[h], des[h], queue[h])
FromLayer(A) == {p \in A : p.src = "layer"}
ToCome(h) == IF h = "above" THEN Items(todo["layer"])
             ELSE Items(todo["inner"]) \cup Items(todo["layer"]) \cup Onway("above")
HasLeft(h) == IF h = "above"
              THEN FromLayer(Items(got["inner"]) \cup Items(got["out"]) \cup Onway("below"))
              ELSE Items(got["out"])

OrderInv ==
    /\ \A s \in Source : (\A p \in Items(todo[s]) : p.src = s) /\ Increasing(todo[s])
    /\ \A p \in Onway("above") : p.src = "layer"
    /\ \A p \in Items(got["inner"]) : p.src = "layer"
    /\ \A k \in Sink : Increasing(got[k])
    /\ \A h \in Hop : HopOrder(ser[h], des[h], queue[h], ToCome(h), HasLeft(h))

\* The first of a list is before the others, and the others keep their order.
LEMMA IncreasingTail ==
  ASSUME NEW list \in Seq(Packet), list # <<>>, Increasing(list)
  PROVE  /\ Head(list) \in Items(list)
         /\ Items(Tail(list)) \subseteq Items(list)
         /\ Increasing(Tail(list))
         /\ Ahead({Head(list)}, Items(Tail(list)))
<1>1. /\ Head(list) = list[1] /\ 1 \in DOMAIN list
      /\ DOMAIN list \subseteq Nat /\ DOMAIN Tail(list) \subseteq Nat
      /\ \A i \in DOMAIN Tail(list) :
            i + 1 \in DOMAIN list /\ 1 < i + 1 /\ Tail(list)[i] = list[i + 1]
  OBVIOUS
<1>2. \A i, j \in DOMAIN Tail(list) : i < j => i + 1 < j + 1
  BY <1>1
<1>3. Increasing(Tail(list))
  BY <1>1, <1>2 DEF Increasing
<1>4. Ahead({Head(list)}, Items(Tail(list)))
  BY <1>1 DEF Increasing, Ahead, Items
<1>5. \A i \in DOMAIN Tail(list) : Tail(list)[i] \in Items(list)
  BY <1>1 DEF Items
<1>6. Items(Tail(list)) \subseteq Items(list)
  BY <1>5 DEF Items
<1>7. Head(list) \in Items(list)
  BY <1>1 DEF Items
<1> QED BY <1>3, <1>4, <1>6, <1>7

\* A list stays in order when what is appended comes after all that is in it.
LEMMA IncreasingAppend ==
  ASSUME NEW list \in Seq(Packet), NEW p \in Packet, Increasing(list), Ahead(Items(list), {p})
  PROVE  /\ Items(Append(list, p)) = Items(list) \cup {p}
         /\ Increasing(Append(list, p))
<1> DEFINE l == Append(list, p)
           n == Len(list)
<1>1. /\ n \in Nat /\ DOMAIN list = 1..n /\ DOMAIN l = 1..(n + 1)
      /\ l[n + 1] = p /\ \A i \in 1..n : l[i] = list[i]
  OBVIOUS
<1> HIDE DEF l, n
<1>2. \A i \in 1..(n + 1) : i \in 1..n \/ i = n + 1
  BY <1>1
<1>3. 1..n \subseteq 1..(n + 1) /\ n + 1 \in 1..(n + 1)
  BY <1>1
<1>4. Items(l) = Items(list) \cup {p}
  <2>1. \A i \in 1..(n + 1) : l[i] \in Items(list) \cup {p}
    BY <1>1, <1>2 DEF Items
  <2>2. \A i \in 1..n : list[i] \in Items(l)
    BY <1>1, <1>3 DEF Items
  <2>3. p \in Items(l)
    BY <1>1, <1>3 DEF Items
  <2>4. Items(l) \subseteq Items(list) \cup {p}
    BY <1>1, <2>1 DEF Items
  <2>5. Items(list) \subseteq Items(l)
    BY <1>1, <2>2 DEF Items
  <2> QED BY <2>3, <2>4, <2>5
<1>5. ASSUME NEW i \in DOMAIN l, NEW j \in DOMAIN l, i < j PROVE Before(l[i], l[j])
  <2>1. i \in 1..n
    BY <1>1, <1>5
  <2>2. CASE j \in 1..n
    BY <1>1, <1>5, <2>1, <2>2 DEF Increasing
  <2>3. CASE j = n + 1
    BY <1>1, <2>1, <2>3 DEF Ahead, Items
  <2> QED BY <1>1, <1>2, <2>2, <2>3
<1>6. Increasing(l)
  BY <1>5 DEF Increasing
<1> QED BY <1>4, <1>6 DEF l

\* The queues of a hop after an edge: what stays is behind the packet taken,
\* and what comes in is behind what stays.
LEMMA QueueOrderStep ==
  ASSUME NEW q \in Queues, Sorted(q), NEW in \in Packet \cup {None}, NEW take \in BOOLEAN,
         take => ~Empty(q), \A c \in Classes : Increasing(q[c]),
         NEW L, in # None => in \in L, Ahead(Waiting(q), L)
  PROVE  \E kept \in SUBSET Waiting(q) :
           /\ Waiting(QueueNext(q, in, take)) \subseteq kept \cup L
           /\ take => QueueOut(q) \in Waiting(q) /\ Ahead({QueueOut(q)}, kept)
           /\ \A c \in Classes : Increasing(QueueNext(q, in, take)[c])
<1> DEFINE n == QueueNext(q, in, take)
           K(c) == Kept(q, c, take)
           kept == UNION {Items(K(c)) : c \in Classes}
<1>1. \A c \in Classes : q[c] \in Seq(Packet) /\ Items(q[c]) \subseteq Waiting(q)
  BY DEF Queues, Waiting
<1>2. \A c \in Classes : \A p \in Items(q[c]) : p.cls = c
  BY DEF Sorted, Items
<1>3. ASSUME NEW c \in Classes
      PROVE  Items(K(c)) \subseteq Items(q[c]) /\ Increasing(K(c))
  <2>1. CASE take /\ c = OutClass(q)
    <3>1. q[c] # <<>> /\ K(c) = Tail(q[c])
      BY <2>1, OutOfQueue DEF Kept
    <3> QED BY <1>1, <3>1, IncreasingTail
  <2>2. CASE ~(take /\ c = OutClass(q))
    BY <2>2 DEF Kept
  <2> QED BY <2>1, <2>2
<1>4. ASSUME take PROVE QueueOut(q) \in Waiting(q) /\ Ahead({QueueOut(q)}, kept)
  <2> DEFINE o == OutClass(q)
  <2>1. o \in Classes /\ q[o] # <<>> /\ QueueOut(q) = Head(q[o]) /\ QueueOut(q).cls = o
    BY <1>4, OutOfQueue
  <2>2. K(o) = Tail(q[o])
    BY <1>4 DEF Kept
  <2>3. QueueOut(q) \in Items(q[o]) /\ Ahead({QueueOut(q)}, Items(K(o)))
    BY <1>1, <2>1, <2>2, IncreasingTail
  <2>4. ASSUME NEW c \in Classes, NEW p \in Items(K(c)) PROVE Before(QueueOut(q), p)
    <3>1. CASE c = o
      BY <2>3, <2>4, <3>1 DEF Ahead
    <3>2. CASE c # o
      <4>1. p.cls = c
        BY <1>2, <1>3, <2>4
      <4> QED BY <2>1, <3>2, <4>1 DEF Before
    <3> QED BY <3>1, <3>2
  <2>5. Ahead({QueueOut(q)}, kept)
    <3> HIDE DEF K
    <3> QED BY <2>4 DEF Ahead
  <2> QED BY <1>1, <2>1, <2>3, <2>5
<1>5. \A c \in Classes : n[c] = IF Enters(q, c, in) THEN Append(K(c), in) ELSE K(c)
  BY DEF QueueNext
<1>6. \A c \in Classes : K(c) \in Seq(Packet)
  BY KeptOfQueue
<1> HIDE DEF n, K
<1>7. ASSUME NEW c \in Classes
      PROVE  Items(n[c]) \subseteq Items(K(c)) \cup L /\ Increasing(n[c])
  <2>1. CASE Enters(q, c, in)
    <3>1. in \in Packet /\ in \in L
      BY <2>1 DEF Enters
    <3>2. Ahead(Items(K(c)), {in})
      BY <1>1, <1>3, <3>1 DEF Ahead
    <3> QED BY <1>3, <1>5, <1>6, <2>1, <3>1, <3>2, IncreasingAppend
  <2>2. CASE ~Enters(q, c, in)
    BY <1>3, <1>5, <2>2
  <2> QED BY <2>1, <2>2
<1>8. Waiting(n) \subseteq kept \cup L
  BY <1>7 DEF Waiting
<1>9. kept \subseteq Waiting(q)
  BY <1>1, <1>3
<1> QED BY <1>4, <1>7, <1>8, <1>9 DEF n

\* Stages of which each is ahead of the later ones, when some of them move on:
\* W to K, what is kept, and T, what is taken; N is what is loaded.
Move(D, W, L, S, U, K, T, N, D2, W2, L2, S2, U2) ==
    /\ K \subseteq W /\ T \subseteq W /\ Ahead(T, K)
    /\ D2 \subseteq D \cup T
    /\ W2 \subseteq K \cup L
    /\ L2 \subseteq S
    /\ S2 \subseteq S \cup N
    /\ L2 = {} \/ S2 = {}
    /\ N \subseteq U /\ U2 \subseteq U /\ Ahead(N, U2)

LEMMA StagesStep ==
  ASSUME NEW D, NEW W, NEW L, NEW S, NEW U, Staged(D, W, L, S, U),
         NEW K, NEW T, NEW N, NEW D2, NEW W2, NEW L2, NEW S2, NEW U2,
         Move(D, W, L, S, U, K, T, N, D2, W2, L2, S2, U2)
  PROVE  Staged(D2, W2, L2, S2, U2)
<1>1. L2 \cup S2 \cup U2 \subseteq S \cup U
  BY DEF Move
<1>2. Ahead(D, W2 \cup L2 \cup S2 \cup U2)
  BY <1>1 DEF Ahead, Staged, Move
<1>3. Ahead(T, W2 \cup L2 \cup S2 \cup U2)
  BY <1>1 DEF Ahead, Staged, Move
<1>4. Ahead(D2, W2 \cup L2 \cup S2 \cup U2)
  BY <1>2, <1>3 DEF Ahead, Move
<1>5. Ahead(W2, L2 \cup S2 \cup U2)
  BY <1>1 DEF Ahead, Staged, Move
<1>6. Ahead(L2, S2 \cup U2)
  BY DEF Ahead, Staged, Move
<1>7. Ahead(S2, U2)
  BY DEF Ahead, Staged, Move
<1> QED BY <1>4, <1>5, <1>6, <1>7 DEF Staged

\* How the packets of a hop move from stage to stage in an edge.
HopMoves(h, load, t, kept) ==
    /\ kept \subseteq Waiting(queue[h])
    /\ Waiting(queue'[h]) \subseteq kept \cup Landed(des[h])
    /\ Landed(des'[h]) \subseteq Sent(ser[h])
    /\ Sent(ser'[h]) \subseteq Sent(ser[h]) \cup OnWire(load)
    /\ Landed(des'[h]) = {} \/ Sent(ser'[h]) = {}
    /\ load # None => load \in Sent(ser'[h])
    /\ Taken(h, t) \subseteq Waiting(queue[h])
    /\ Ahead(Taken(h, t), kept)
    /\ \A c \in Classes : Increasing(queue'[h][c])

LEMMA StagesMove ==
  ASSUME NEW h \in Hop, HopInv(h), InRange(h),
         NEW load \in Packet \cup {None}, NEW t \in BOOLEAN, HopStep(h, load, t),
         \A c \in Classes : Increasing(queue[h][c]), Ahead(Waiting(queue[h]), Landed(des[h]))
  PROVE  \E kept : HopMoves(h, load, t, kept)
<1> DEFINE s == ser[h]
           r == des[h]
           q == queue[h]
           s2 == ser'[h]
           r2 == des'[h]
           q2 == queue'[h]
           T == Taken(h, t)
           N == OnWire(load)
<1>1. /\ s \in SerRegs /\ r \in DesRegs /\ q \in Queues /\ Sorted(q) /\ r.beat = s.beat
      /\ r.full => r.pkt \in Packet
      /\ t => ~Empty(q)
  BY DEF HopInv, HopType, HopStep
<1>2. /\ s.beat > 0 => s.sending
      /\ s.sending /\ Credited(s.pkt) => s.credit > 0
      /\ r.full => r.beat = 0
  BY DEF HopInv, HopLedger
<1>3. s.sending \in BOOLEAN /\ s.beat \in 0..(Beats - 1) /\ r.full \in BOOLEAN
  BY <1>1 DEF SerRegs, DesRegs
<1>4. LastBeat(s.beat) => s.beat > 0
  BY <1>3, BeatType
<1>5. PICK kept \in SUBSET Waiting(q) :
         /\ Waiting(q2) \subseteq kept \cup Landed(r)
         /\ t => QueueOut(q) \in Waiting(q) /\ Ahead({QueueOut(q)}, kept)
         /\ \A c \in Classes : Increasing(q2[c])
  <2>1. DesOut(r) \in Packet \cup {None} /\ (DesOut(r) # None => DesOut(r) \in Landed(r))
    BY <1>1 DEF DesOut, Landed
  <2>2. q2 = QueueNext(q, DesOut(r), t)
    BY DEF HopStep
  <2>3. Ahead(Waiting(q), Landed(r)) /\ \A c \in Classes : Increasing(q[c])
    OBVIOUS
  <2> HIDE DEF q, r, q2
  <2> QED BY <1>1, <2>1, <2>2, <2>3, QueueOrderStep
<1>6. /\ s2.sending = IF LastBeat(s.beat) THEN FALSE ELSE s.sending \/ load # None
      /\ s2.pkt = IF load # None THEN load ELSE s.pkt
      /\ load # None => ~s.sending
  BY DEF HopStep, SerNext, SerReady
<1>7. /\ r2.full = (~r.full /\ LastBeat(r.beat))
      /\ r2.pkt = IF SerValid(s) THEN s.pkt ELSE r.pkt
  BY DEF HopStep, DesNext
<1>8. LastBeat(s.beat) => s.sending /\ SerValid(s)
  BY <1>2, <1>4 DEF SerValid
<1> HIDE DEF s, r, q, s2, r2, q2
<1>9. r2.full => s.sending /\ r2.pkt = s.pkt
  BY <1>1, <1>7, <1>8
<1>10. Landed(r2) \subseteq Sent(s)
  BY <1>9 DEF Landed, Sent
<1>11. Sent(s2) \subseteq Sent(s) \cup N
  BY <1>6 DEF Sent, OnWire
<1>12. Landed(r2) = {} \/ Sent(s2) = {}
  <2>1. CASE LastBeat(s.beat)
    BY <1>6, <2>1 DEF Sent
  <2>2. CASE ~LastBeat(s.beat)
    BY <1>1, <1>7, <2>2 DEF Landed
  <2> QED BY <2>1, <2>2
<1>13. T \subseteq Waiting(q) /\ Ahead(T, kept)
  BY <1>5 DEF Ahead, Taken, q
<1>14. load # None => load \in Sent(s2)
  BY <1>6, <1>8 DEF Sent
<1>15. HopMoves(h, load, t, kept)
  BY <1>5, <1>10, <1>11, <1>12, <1>13, <1>14 DEF HopMoves, s, r, q, s2, r2, q2
<1> QED BY <1>15

\* One edge of a hop in which what is loaded was to come, and nothing leaves
\* but the packet taken: the stages stay in order.
LEMMA HopOrderStep ==
  ASSUME NEW h \in Hop, HopInv(h), InRange(h),
         NEW load \in Packet \cup {None}, NEW t \in BOOLEAN, HopStep(h, load, t),
         NEW U, NEW D, HopOrder(ser[h], des[h], queue[h], U, D),
         NEW U2, U2 \subseteq U,
         load # None => load \in U /\ Ahead({load}, U2),
         NEW D2, D2 \subseteq D \cup Taken(h, t)
  PROVE  HopOrder(ser'[h], des'[h], queue'[h], U2, D2)
<1> DEFINE W == Waiting(queue[h])
           L == Landed(des[h])
           S == Sent(ser[h])
           W2 == Waiting(queue'[h])
           L2 == Landed(des'[h])
           S2 == Sent(ser'[h])
           T == Taken(h, t)
           N == OnWire(load)
<1>1. Staged(D, W, L, S, U) /\ \A c \in Classes : Increasing(queue[h][c])
  BY DEF HopOrder
<1>2. Ahead(W, L)
  BY <1>1 DEF Ahead, Staged
<1>3. PICK kept : HopMoves(h, load, t, kept)
  BY <1>1, <1>2, StagesMove
<1>4. N \subseteq U /\ Ahead(N, U2)
  BY DEF Ahead, OnWire
<1>5. Move(D, W, L, S, U, kept, T, N, D2, W2, L2, S2, U2)
  BY <1>3, <1>4 DEF HopMoves, Move
<1>6. \A c \in Classes : Increasing(queue'[h][c])
  BY <1>3 DEF HopMoves
<1> HIDE DEF W, L, S, W2, L2, S2, T, N
<1>7. Staged(D2, W2, L2, S2, U2)
  BY <1>1, <1>5, StagesStep
<1> QED BY <1>6, <1>7 DEF HopOrder, W2, L2, S2

\* A packet is on its way in a hop after an edge only if it was before, or has
\* been loaded.
LEMMA OnwayStep ==
  ASSUME NEW h \in Hop, HopInv(h), InRange(h),
         NEW load \in Packet \cup {None}, NEW t \in BOOLEAN, HopStep(h, load, t),
         NEW U, NEW D, HopOrder(ser[h], des[h], queue[h], U, D)
  PROVE  /\ Within(ser'[h], des'[h], queue'[h])
               \subseteq Within(ser[h], des[h], queue[h]) \cup OnWire(load)
         /\ load # None => load \in Within(ser'[h], des'[h], queue'[h])
         /\ t => QueueOut(queue[h]) \in Waiting(queue[h])
<1>1. Ahead(Waiting(queue[h]), Landed(des[h])) /\ \A c \in Classes : Increasing(queue[h][c])
  BY DEF HopOrder, Staged, Ahead
<1>2. PICK kept : HopMoves(h, load, t, kept)
  BY <1>1, StagesMove
<1>3. /\ Within(ser'[h], des'[h], queue'[h])
            \subseteq Within(ser[h], des[h], queue[h]) \cup OnWire(load)
      /\ load # None => load \in Within(ser'[h], des'[h], queue'[h])
  BY <1>2 DEF HopMoves, Within
<1> QED BY <1>2, <1>3 DEF HopMoves, Taken

\* What a source takes from its list in an edge is the first of it.
LEMMA TodoStep ==
  ASSUME Inv, OrderInv, NEW offer, NEW hear \in BOOLEAN, NEW take \in BOOLEAN,
         Edge(offer, hear, take), NEW x \in Source
  PROVE  /\ Items(todo'[x]) \subseteq Items(todo[x])
         /\ Increasing(todo'[x])
         /\ \A p \in Items(todo'[x]) : p.src = x
         /\ todo'[x] # todo[x] => /\ todo[x] # <<>> /\ Head(todo[x]) \in Items(todo[x])
                                  /\ Ahead({Head(todo[x])}, Items(todo'[x]))
<1>1. todo[x] \in Seq(Packet) /\ Increasing(todo[x]) /\ \A p \in Items(todo[x]) : p.src = x
  BY DEF Inv, TypeOK, OrderInv
<1>2. todo'[x] = todo[x] \/ (todo[x] # <<>> /\ todo'[x] = Tail(todo[x]))
  <2>1. CASE x = "layer"
    <3>1. Offered("layer", offer) # None => todo["layer"] # <<>>
      BY DEF Offered
    <3> QED BY <2>1, <3>1 DEF Edge
  <2>2. CASE x = "inner"
    <3>1. InnerTaken(Offered("inner", offer)) => todo["inner"] # <<>>
      BY DEF InnerTaken, Offered
    <3> QED BY <2>2, <3>1 DEF Edge
  <2> QED BY <2>1, <2>2 DEF Source
<1>3. CASE todo'[x] = todo[x]
  BY <1>1, <1>3
<1>4. CASE todo[x] # <<>> /\ todo'[x] = Tail(todo[x])
  <2>1. /\ Head(todo[x]) \in Items(todo[x])
        /\ Items(todo'[x]) \subseteq Items(todo[x])
        /\ Increasing(todo'[x])
        /\ Ahead({Head(todo[x])}, Items(todo'[x]))
    BY <1>1, <1>4, IncreasingTail
  <2> QED BY <1>1, <1>4, <2>1
<1> QED BY <1>2, <1>3, <1>4

\* What the first hop is loaded with leaves the list of the layer.
LEMMA LoadedAbove ==
  ASSUME Inv, OrderInv, NEW offer, NEW hear \in BOOLEAN, NEW take \in BOOLEAN,
         Edge(offer, hear, take), LoadAbove(offer) # None
  PROVE  /\ LoadAbove(offer) \in Items(todo["layer"])
         /\ Ahead({LoadAbove(offer)}, Items(todo'["layer"]))
<1>1. LoadAbove(offer) = Head(todo["layer"]) /\ todo["layer"] # <<>>
  BY DEF LoadAbove, Offered
<1>2. todo'["layer"] = Tail(todo["layer"])
  BY DEF Edge, LoadAbove
<1>3. todo["layer"] \in Seq(Packet) /\ Increasing(todo["layer"])
  BY DEF Inv, TypeOK, OrderInv, Source
<1> QED BY <1>1, <1>2, <1>3, IncreasingTail

\* What the second hop is loaded with comes from the list of this layer, or is
\* the packet the first hop is left by.
LEMMA LoadedBelow ==
  ASSUME Inv, OrderInv, NEW offer, NEW hear \in BOOLEAN, NEW take \in BOOLEAN,
         Edge(offer, hear, take), LoadBelow(offer) # None
  PROVE  \/ /\ LoadBelow(offer) \in Items(todo["inner"])
            /\ Ahead({LoadBelow(offer)}, Items(todo'["inner"]))
         \/ LoadBelow(offer) = QueueOut(queue["above"]) /\ TakeAbove(offer, hear)
<1> DEFINE inner == Offered("inner", offer)
<1>1. Goes(inner) /\ LoadBelow(offer) = Chosen(inner) /\ Chosen(inner) # None
  BY DEF LoadBelow, Goes
<1>2. CASE PassFirst(inner)
  <2>1. LoadBelow(offer) = Through /\ TakeAbove(offer, hear) /\ Through # None
    BY <1>1, <1>2 DEF Chosen, TakeAbove, PassTaken, PassFirst
  <2>2. Through = QueueOut(queue["above"])
    BY <2>1 DEF Through, Arrived
  <2> QED BY <2>1, <2>2
<1>3. CASE ~PassFirst(inner)
  <2>1. LoadBelow(offer) = inner /\ inner # None /\ InnerTaken(inner)
    BY <1>1, <1>3 DEF Chosen, InnerTaken
  <2>2. inner = Head(todo["inner"]) /\ todo["inner"] # <<>>
    BY <2>1 DEF Offered
  <2>3. todo'["inner"] = Tail(todo["inner"])
    BY <2>1 DEF Edge
  <2>4. todo["inner"] \in Seq(Packet) /\ Increasing(todo["inner"])
    BY DEF Inv, TypeOK, OrderInv, Source
  <2>5. inner \in Items(todo["inner"]) /\ Ahead({inner}, Items(todo'["inner"]))
    BY <2>2, <2>3, <2>4, IncreasingTail
  <2> QED BY <2>1, <2>5
<1> QED BY <1>2, <1>3

\* What the sinks take: this layer, from the first hop; the layer below, from
\* the second.
LEMMA GotStep ==
  ASSUME Inv, OrderInv, NEW offer, NEW hear \in BOOLEAN, NEW take \in BOOLEAN,
         Edge(offer, hear, take)
  PROVE  /\ Items(got'["inner"]) \subseteq
               Items(got["inner"]) \cup Taken("above", TakeAbove(offer, hear))
         /\ Items(got'["out"]) \subseteq
               Items(got["out"]) \cup Taken("below", TakeBelow(take))
         /\ \A p \in Items(got'["inner"]) : p.src = "layer"
         /\ Increasing(got'["inner"]) /\ Increasing(got'["out"])
<1> DEFINE a == QueueOut(queue["above"])
           b == QueueOut(queue["below"])
<1>1. \A k \in {"inner", "out"} : got[k] \in Seq(Packet) /\ Increasing(got[k])
  BY DEF Inv, TypeOK, OrderInv, Sink
<1>2. PICK la \in Packet \cup {None}, lb \in Packet \cup {None} :
         /\ HopStep("above", la, TakeAbove(offer, hear)) /\ HopStep("below", lb, TakeBelow(take))
         /\ TakeAbove(offer, hear) \in BOOLEAN /\ TakeBelow(take) \in BOOLEAN
  BY EdgeSteps
<1>3. \A h \in Hop : queue[h] \in Queues /\ Sorted(queue[h])
  BY DEF Inv, HopInv, HopType
<1>4. ASSUME NEW h \in Hop, QueueOut(queue[h]) # None
      PROVE  QueueOut(queue[h]) \in Packet /\ QueueOut(queue[h]) \in Waiting(queue[h])
  <2>1. ~Empty(queue[h])
    BY <1>4, NoneOut
  <2> DEFINE c == OutClass(queue[h])
  <2>2. c \in Classes /\ queue[h][c] # <<>> /\ QueueOut(queue[h]) \in Packet
        /\ QueueOut(queue[h]) = Head(queue[h][c])
    BY <1>3, <2>1, OutOfQueue
  <2>3. queue[h][c] \in Seq(Packet) /\ 1 \in DOMAIN queue[h][c] /\ Head(queue[h][c]) = queue[h][c][1]
    BY <1>3, <2>2 DEF Queues
  <2>4. QueueOut(queue[h]) \in Items(queue[h][c])
    BY <2>2, <2>3 DEF Items
  <2> QED BY <2>2, <2>4 DEF Waiting
<1>5. /\ Items(got'["inner"]) \subseteq Items(got["inner"]) \cup Taken("above", TakeAbove(offer, hear))
      /\ \A p \in Items(got'["inner"]) : p.src = "layer"
      /\ Increasing(got'["inner"])
  <2>1. CASE ForHere # None /\ hear
    <3>1. ForHere = a /\ a # None /\ TakeAbove(offer, hear)
      BY <2>1 DEF ForHere, Arrived, TakeAbove
    <3>2. a \in Packet /\ a \in Waiting(queue["above"])
      BY <1>4, <3>1 DEF Hop
    <3>3. got'["inner"] = Append(got["inner"], a)
      BY <2>1, <3>1 DEF Edge
    <3>4. a.src = "layer"
      BY <3>2 DEF OrderInv, Onway, Within
    <3>5. Ahead(HasLeft("above"), Waiting(queue["above"]))
      BY DEF OrderInv, HopOrder, Staged, Ahead, Hop
    <3>6. Items(got["inner"]) \subseteq HasLeft("above")
      BY DEF OrderInv, HasLeft, FromLayer
    <3>7. Ahead(Items(got["inner"]), {a})
      BY <3>2, <3>5, <3>6 DEF Ahead
    <3>8. Items(got'["inner"]) = Items(got["inner"]) \cup {a} /\ Increasing(got'["inner"])
      BY <1>1, <3>2, <3>3, <3>7, IncreasingAppend
    <3>9. \A p \in Items(got["inner"]) : p.src = "layer"
      BY DEF OrderInv
    <3> QED BY <3>1, <3>4, <3>8, <3>9 DEF Taken
  <2>2. CASE ~(ForHere # None /\ hear)
    <3>1. got'["inner"] = got["inner"]
      BY <2>2 DEF Edge
    <3> QED BY <1>1, <3>1 DEF OrderInv
  <2> QED BY <2>1, <2>2
<1>6. /\ Items(got'["out"]) \subseteq Items(got["out"]) \cup Taken("below", TakeBelow(take))
      /\ Increasing(got'["out"])
  <2>1. CASE TakeBelow(take)
    <3>1. got'["out"] = Append(got["out"], b) /\ b # None
      BY <2>1 DEF Edge, TakeBelow
    <3>2. b \in Packet /\ b \in Waiting(queue["below"])
      BY <1>4, <3>1 DEF Hop
    <3>3. Ahead(HasLeft("below"), Waiting(queue["below"]))
      BY DEF OrderInv, HopOrder, Staged, Ahead, Hop
    <3>4. Ahead(Items(got["out"]), {b})
      BY <3>2, <3>3 DEF Ahead, HasLeft
    <3>5. Items(got'["out"]) = Items(got["out"]) \cup {b} /\ Increasing(got'["out"])
      BY <1>1, <3>1, <3>2, <3>4, IncreasingAppend
    <3> QED BY <2>1, <3>5 DEF Taken
  <2>2. CASE ~TakeBelow(take)
    <3>1. got'["out"] = got["out"]
      BY <2>2 DEF Edge, TakeBelow
    <3> QED BY <1>1, <3>1
  <2> QED BY <2>1, <2>2
<1> QED BY <1>5, <1>6

\* The first hop after an edge.
LEMMA AboveStep ==
  ASSUME Inv, NoWrap, OrderInv, NEW offer, NEW hear \in BOOLEAN, NEW take \in BOOLEAN,
         Edge(offer, hear, take)
  PROVE  /\ HopOrder(ser'["above"], des'["above"], queue'["above"],
                     ToCome("above")', HasLeft("above")')
         /\ Onway("above")' \subseteq Onway("above") \cup OnWire(LoadAbove(offer))
<1> DEFINE la == LoadAbove(offer)
           lb == LoadBelow(offer)
           ta == TakeAbove(offer, hear)
           tb == TakeBelow(take)
           A == Taken("above", ta)
<1>1. /\ la \in Packet \cup {None} /\ ta \in BOOLEAN /\ HopStep("above", la, ta)
      /\ lb \in Packet \cup {None} /\ tb \in BOOLEAN /\ HopStep("below", lb, tb)
  BY EdgeSteps
<1>2. /\ HopInv("above") /\ InRange("above")
      /\ HopOrder(ser["above"], des["above"], queue["above"], ToCome("above"), HasLeft("above"))
      /\ HopInv("below") /\ InRange("below")
      /\ HopOrder(ser["below"], des["below"], queue["below"], ToCome("below"), HasLeft("below"))
  BY DEF Inv, NoWrap, OrderInv, Hop
<1>3. "above" \in Hop /\ "below" \in Hop
  BY DEF Hop
<1> HIDE DEF la, lb, ta, tb
<1>4. Onway("above")' \subseteq Onway("above") \cup OnWire(la)
  <2>1. Within(ser'["above"], des'["above"], queue'["above"])
          \subseteq Within(ser["above"], des["above"], queue["above"]) \cup OnWire(la)
    BY <1>1, <1>2, <1>3, OnwayStep
  <2> QED BY <2>1 DEF Onway
<1>5. /\ Onway("below")' \subseteq Onway("below") \cup OnWire(lb)
      /\ tb => QueueOut(queue["below"]) \in Waiting(queue["below"])
  <2>1. /\ Within(ser'["below"], des'["below"], queue'["below"])
             \subseteq Within(ser["below"], des["below"], queue["below"]) \cup OnWire(lb)
        /\ tb => QueueOut(queue["below"]) \in Waiting(queue["below"])
    BY <1>1, <1>2, <1>3, OnwayStep
  <2> QED BY <2>1 DEF Onway
<1>6. ToCome("above") = Items(todo["layer"]) /\ ToCome("above")' = Items(todo'["layer"])
  BY DEF ToCome
<1>7. ToCome("above")' \subseteq ToCome("above")
  BY <1>6, TodoStep DEF Source
<1>8. la # None => la \in ToCome("above") /\ Ahead({la}, ToCome("above")')
  BY <1>6, LoadedAbove DEF la
\* What has left the hop: the layers have it, or it is in the second hop.
<1>9. HasLeft("above")' \subseteq HasLeft("above") \cup A
  <2>1. /\ Items(got'["inner"]) \subseteq Items(got["inner"]) \cup A
        /\ Items(got'["out"]) \subseteq Items(got["out"]) \cup Onway("below")
    BY <1>5, GotStep DEF ta, tb, Onway, Within, Taken
  <2>2. FromLayer(OnWire(lb)) \subseteq A
    <3> SUFFICES ASSUME lb # None, lb.src = "layer" PROVE lb \in A
      BY DEF FromLayer, OnWire
    <3>1. lb \notin Items(todo["inner"])
      BY DEF OrderInv, Source
    <3> QED BY <3>1, LoadedBelow DEF lb, ta, Taken
  <2>3. /\ HasLeft("above") = FromLayer(Items(got["inner"]) \cup Items(got["out"]) \cup Onway("below"))
        /\ HasLeft("above")' =
              FromLayer(Items(got'["inner"]) \cup Items(got'["out"]) \cup Onway("below")')
    BY DEF HasLeft, FromLayer, Items
  <2> HIDE DEF A
  <2> QED BY <1>5, <2>1, <2>2, <2>3 DEF FromLayer
<1> DEFINE U2 == ToCome("above")'
           D2 == HasLeft("above")'
<1>10. U2 \subseteq ToCome("above") /\ D2 \subseteq HasLeft("above") \cup A
       /\ (la # None => la \in ToCome("above") /\ Ahead({la}, U2))
  BY <1>7, <1>8, <1>9
<1> HIDE DEF U2, D2
<1>11. HopOrder(ser'["above"], des'["above"], queue'["above"], U2, D2)
  BY <1>1, <1>2, <1>3, <1>10, HopOrderStep
<1> QED BY <1>4, <1>11 DEF U2, D2, la

\* The second hop after an edge: what is still to come there stands behind the
\* packet that was passed on, because it did in the first hop.
LEMMA BelowStep ==
  ASSUME Inv, NoWrap, OrderInv, NEW offer, NEW hear \in BOOLEAN, NEW take \in BOOLEAN,
         Edge(offer, hear, take)
  PROVE  HopOrder(ser'["below"], des'["below"], queue'["below"],
                  ToCome("below")', HasLeft("below")')
<1> DEFINE la == LoadAbove(offer)
           lb == LoadBelow(offer)
           ta == TakeAbove(offer, hear)
           tb == TakeBelow(take)
           B == Taken("below", tb)
           U2 == ToCome("below")'
           D2 == HasLeft("below")'
<1>1. /\ lb \in Packet \cup {None} /\ tb \in BOOLEAN /\ HopStep("below", lb, tb)
      /\ la \in Packet \cup {None} /\ ta \in BOOLEAN /\ HopStep("above", la, ta)
  BY EdgeSteps
<1>2. /\ HopInv("above") /\ InRange("above")
      /\ HopOrder(ser["above"], des["above"], queue["above"], ToCome("above"), HasLeft("above"))
      /\ HopInv("below") /\ InRange("below")
      /\ HopOrder(ser["below"], des["below"], queue["below"], ToCome("below"), HasLeft("below"))
  BY DEF Inv, NoWrap, OrderInv, Hop
<1>3. "above" \in Hop /\ "below" \in Hop
  BY DEF Hop
<1>4. /\ HopOrder(ser'["above"], des'["above"], queue'["above"],
                  ToCome("above")', HasLeft("above")')
      /\ Onway("above")' \subseteq Onway("above") \cup OnWire(la)
  BY AboveStep
<1>5. \A x \in Source : /\ Items(todo'[x]) \subseteq Items(todo[x])
                        /\ \A p \in Items(todo'[x]) : p.src = x
  BY TodoStep
<1>6. la # None => la \in Items(todo["layer"])
  BY LoadedAbove
<1>7. /\ ToCome("below") = Items(todo["inner"]) \cup Items(todo["layer"]) \cup Onway("above")
      /\ U2 = Items(todo'["inner"]) \cup Items(todo'["layer"]) \cup Onway("above")'
  BY DEF ToCome, Items
<1>8. U2 \subseteq ToCome("below")
  <2> HIDE DEF la, U2
  <2> QED BY <1>4, <1>5, <1>6, <1>7 DEF Source, OnWire
<1>9. \A p \in Items(todo'["layer"]) \cup Onway("above")' : p.src = "layer"
  <2>1. \A p \in Onway("above") \cup Items(todo["layer"]) : p.src = "layer"
    BY DEF OrderInv, Source
  <2> HIDE DEF la
  <2> QED BY <1>4, <1>5, <1>6, <2>1 DEF Source, OnWire
<1>10. lb # None => lb \in ToCome("below") /\ Ahead({lb}, U2)
  <2> SUFFICES ASSUME lb # None PROVE lb \in ToCome("below") /\ Ahead({lb}, U2)
    OBVIOUS
  <2>1. CASE lb \in Items(todo["inner"]) /\ Ahead({lb}, Items(todo'["inner"]))
    <3>1. lb.src = "inner"
      BY <2>1 DEF OrderInv, Source
    <3>2. \A p \in Items(todo'["layer"]) \cup Onway("above")' : Before(lb, p)
      BY <1>9, <3>1 DEF Before
    <3> HIDE DEF lb, U2
    <3> QED BY <1>7, <2>1, <3>2 DEF Ahead
  <2>2. CASE lb = QueueOut(queue["above"]) /\ ta
    <3>1. lb \in Waiting(queue["above"])
      BY <1>1, <1>2, <1>3, <2>2, OnwayStep
    <3>2. lb \in Onway("above") /\ lb.src = "layer"
      BY <3>1 DEF Onway, Within, OrderInv
    <3>3. lb \in HasLeft("above")'
      <4>1. lb \in Within(ser'["below"], des'["below"], queue'["below"])
        BY <1>1, <1>2, <1>3, OnwayStep
      <4>2. lb \in Onway("below")'
        BY <4>1 DEF Onway
      <4>3. HasLeft("above")' =
              FromLayer(Items(got'["inner"]) \cup Items(got'["out"]) \cup Onway("below")')
        BY DEF HasLeft, FromLayer, Items
      <4> HIDE DEF lb
      <4> QED BY <3>2, <4>2, <4>3 DEF FromLayer
    <3>4. Ahead(HasLeft("above")', Onway("above")' \cup ToCome("above")')
      BY <1>4 DEF HopOrder, Staged, Ahead, Onway, Within
    <3>5. ToCome("above")' = Items(todo'["layer"])
      BY DEF ToCome, Items
    <3>6. \A p \in Items(todo'["inner"]) : Before(lb, p)
      BY <1>5, <3>2 DEF Before, Source
    <3>7. \A p \in Items(todo'["layer"]) \cup Onway("above")' : Before(lb, p)
      BY <3>3, <3>4, <3>5 DEF Ahead
    <3>8. lb \in ToCome("below")
      BY <1>7, <3>2
    <3> HIDE DEF lb, U2
    <3> QED BY <1>7, <3>6, <3>7, <3>8 DEF Ahead
  <2> QED BY <2>1, <2>2, LoadedBelow
<1>11. D2 \subseteq HasLeft("below") \cup B
  <2>1. D2 = Items(got'["out"]) /\ HasLeft("below") = Items(got["out"])
    BY DEF HasLeft, Items
  <2> QED BY <2>1, GotStep
<1> HIDE DEF lb, tb, U2, D2
<1>12. HopOrder(ser'["below"], des'["below"], queue'["below"], U2, D2)
  BY <1>1, <1>2, <1>3, <1>8, <1>10, <1>11, HopOrderStep
<1> QED BY <1>12 DEF U2, D2

LEMMA OrderInit ==
  ASSUME Init
  PROVE  OrderInv
<1>1. plan \in Plans /\ todo = plan
  BY DEF Init
<1>2. ASSUME NEW x \in Source
      PROVE  (\A p \in Items(todo[x]) : p.src = x) /\ Increasing(todo[x])
  <2>1. /\ \A i \in DOMAIN todo[x] : todo[x][i].src = x
        /\ \A i, j \in DOMAIN todo[x] :
              (i < j /\ todo[x][i].cls = todo[x][j].cls) => todo[x][i].num < todo[x][j].num
    BY <1>1, NumbersAssumption
  <2> QED BY <2>1 DEF Items, Increasing, Before
<1>3. ASSUME NEW h \in Hop
      PROVE  Waiting(queue[h]) = {} /\ Landed(des[h]) = {} /\ Sent(ser[h]) = {}
  <2>1. \A c \in Classes : queue[h][c] = <<>>
    BY DEF Init
  <2>2. des[h].full = FALSE /\ ser[h].sending = FALSE
    BY DEF Init, DesIdle, SerIdle
  <2>3. Items(<<>>) = {}
    BY DEF Items
  <2> QED BY <2>1, <2>2, <2>3 DEF Waiting, Landed, Sent
<1>4. \A k \in Sink : got[k] = <<>> /\ Items(got[k]) = {} /\ Increasing(got[k])
  BY DEF Init, Items, Increasing
<1>5. \A h \in Hop : Onway(h) = {}
  BY <1>3 DEF Onway, Within
<1>6. \A h \in Hop : HasLeft(h) = {}
  BY <1>4, <1>5 DEF HasLeft, FromLayer, Sink, Hop
<1>7. ASSUME NEW h \in Hop
      PROVE  HopOrder(ser[h], des[h], queue[h], ToCome(h), HasLeft(h))
  <2>1. \A c \in Classes : queue[h][c] = <<>> /\ Increasing(queue[h][c])
    BY DEF Init, Increasing
  <2> QED BY <1>3, <1>6, <2>1 DEF HopOrder, Staged, Ahead
<1> QED BY <1>2, <1>4, <1>5, <1>7 DEF OrderInv, Sink, Hop

LEMMA OrderNext ==
  ASSUME Inv, NoWrap, OrderInv, [Next]_vars
  PROVE  OrderInv'
<1>1. CASE UNCHANGED vars
  BY <1>1 DEF vars, nodes, history, OrderInv, Onway, ToCome, HasLeft
<1>2. CASE Next
  <2>1. PICK offer \in Offers, hear \in Hearings, take \in Takings : Edge(offer, hear, take)
    BY <1>2 DEF Next
  <2>2. hear \in BOOLEAN /\ take \in BOOLEAN
    BY DEF Hearings, Takings
  <2>3. \A x \in Source : (\A p \in Items(todo'[x]) : p.src = x) /\ Increasing(todo'[x])
    BY <2>1, <2>2, TodoStep
  <2>4. \A p \in Onway("above")' : p.src = "layer"
    <3>1. Onway("above")' \subseteq Onway("above") \cup OnWire(LoadAbove(offer))
      BY <2>1, <2>2, AboveStep
    <3>2. \A p \in OnWire(LoadAbove(offer)) : p \in Items(todo["layer"])
      BY <2>1, <2>2, LoadedAbove DEF OnWire
    <3>3. \A p \in Onway("above") \cup Items(todo["layer"]) : p.src = "layer"
      BY DEF OrderInv, Source
    <3> QED BY <3>1, <3>2, <3>3
  <2>5. (\A p \in Items(got'["inner"]) : p.src = "layer") /\ \A k \in Sink : Increasing(got'[k])
    BY <2>1, <2>2, GotStep DEF Sink
  <2>6. ASSUME NEW h \in Hop
        PROVE  HopOrder(ser'[h], des'[h], queue'[h], ToCome(h)', HasLeft(h)')
    <3>1. CASE h = "above"
      BY <2>1, <2>2, <3>1, AboveStep
    <3>2. CASE h = "below"
      BY <2>1, <2>2, <3>2, BelowStep
    <3> QED BY <3>1, <3>2 DEF Hop
  <2> QED BY <2>3, <2>4, <2>5, <2>6 DEF OrderInv
<1> QED BY <1>1, <1>2

\* As long as no register of credits wraps, packets of one source and one class
\* that reach the same layer reach it in the order they were sent in, over both
\* hops, past packets of other classes and through the arbitration with what
\* the layer in between sends itself (sideband_switcher.cpp).
THEOREM DeliveredInOrder == Spec /\ []NoWrap => []InOrder
<1>1. Init => OrderInv
  BY OrderInit
<1>2. Inv /\ NoWrap /\ OrderInv /\ [Next]_vars => OrderInv'
  BY OrderNext
<1>3. OrderInv => InOrder
  BY DEF OrderInv, InOrder, Increasing, Before
<1> QED BY <1>1, <1>2, <1>3, InvariantHolds, PTL DEF Spec
===============================================================================
