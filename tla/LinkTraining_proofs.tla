------------------------- MODULE LinkTraining_proofs -------------------------
(***************************************************************************)
(* Proofs about LinkTraining, for any two dies and data rates, any number  *)
(* of words on their way or lost, and any time-outs, without fairness.     *)
(*                                                                         *)
(* The invariant has three parts for each die.  Exchanged: what is on the  *)
(* wires, or has been received, was begun by the partner.  Progressed: how *)
(* far the parameter exchange is determines which exchanges are done.      *)
(* Agreed: which rates are known where.  Each part needs the ones before.  *)
(***************************************************************************)
EXTENDS LinkTraining, TLAPS

MessageCodes == Codes \ {"none", "clock"}

MinRate(d) ==
    IF OfferedRate[d] >= OfferedRate[Other(d)] THEN OfferedRate[Other(d)] ELSE OfferedRate[d]

Exchanged(d) ==
    /\ msg[d].st # "IDLE" => msg[d].req.code \in MessageCodes /\ msg[d].req.code \in began[d]
    /\ msg[d].received => msg[d].st # "IDLE" /\ msg[d].req.code \in began[Other(d)]
    /\ msg[d].st = "WAIT_ACK" /\ msg[d].ok => msg[d].received
    /\ \A i \in DOMAIN wire[d] :
          wire[d][i].code # "clock" => wire[d][i].code \in began[Other(d)]
    /\ done[d] \subseteq began[Other(d)]

Progressed(d) ==
    /\ InMbInit(d) => param[d].st = "PARAM"
    /\ InMbInit(d) /\ param[d].sub = "WAIT_REQ" => msg[d].req.code = "PARAM_REQ"
    /\ InMbInit(d) /\ param[d].sub = "WAIT_RESP" => msg[d].req.code = "PARAM_RESP"
    /\ InMbInit(d) /\ param[d].sub \in {"SEND_RESP", "WAIT_RESP"} => "PARAM_REQ" \in done[d]
    /\ "PARAM_RESP" \in began[d] =>
          "PARAM_REQ" \in done[d] /\ fsm[d].st \in {"mbInit", "linkInit"}
    /\ Trained(d) => "PARAM_RESP" \in done[d]

Agreed(d) ==
    /\ InMbInit(d) /\ param[d].sub \in {"SEND_REQ", "WAIT_REQ"} => param[d].rate = OfferedRate[d]
    /\ msg[d].st # "IDLE" /\ msg[d].req.code = "PARAM_REQ" => msg[d].req.rate = OfferedRate[d]
    /\ \A i \in DOMAIN wire[d] :
          wire[d][i].code = "PARAM_REQ" => wire[d][i].rate = OfferedRate[Other(d)]
    /\ ~blind[d] =>
         /\ msg[d].st = "WAIT_ACK" /\ msg[d].ok /\ msg[d].req.code = "PARAM_REQ" =>
               msg[d].data = OfferedRate[Other(d)]
         /\ InMbInit(d) /\ param[d].sub = "SEND_RESP" =>
               /\ param[d].got = OfferedRate[Other(d)]
               /\ param[d].rate \in {OfferedRate[d], MinRate(d)}
         /\ InMbInit(d) /\ param[d].sub = "WAIT_RESP" => param[d].rate = MinRate(d)
         /\ Trained(d) => param[d].rate = MinRate(d)

Inv == TypeOK /\ \A d \in Die : Exchanged(d) /\ Progressed(d) /\ Agreed(d)

-------------------------------------------------------------------------------
(* The dies, and the words they exchange.                                   *)
LEMMA TwoDies ==
  ASSUME NEW d \in Die
  PROVE  /\ Other(d) \in Die /\ Other(d) # d /\ Other(Other(d)) = d
         /\ \A x \in Die : x = d \/ x = Other(d)
<1>1. PICK a \in Die, b \in Die : a # b /\ Die = {a, b}
  BY DieAssumption
<1>2. \A x \in Die : \E y \in Die : y # x
  BY <1>1
<1>3. \A x \in Die : Other(x) \in Die /\ Other(x) # x
  BY <1>2 DEF Other
<1> QED BY <1>1, <1>3

LEMMA SomeRates ==
  /\ Rates \subseteq Nat /\ 0 \in Rates
  /\ \A d \in Die : OfferedRate[d] \in Rates /\ OfferedRate[d] \in Nat
BY TrainingAssumption DEF Rates

LEMMA SomeWords ==
  /\ NoWord \in Words /\ Clock \in Words
  /\ \A code \in Codes, rate \in Rates : Word(code, rate) \in Words
  /\ \A code, rate : Word(code, rate).code = code /\ Word(code, rate).rate = rate
  /\ NoWord.code = "none" /\ NoWord.rate = 0 /\ Clock.code = "clock"
BY SomeRates DEF Words, Word, NoWord, Clock, Codes

MsgRegs == [st: ExchangeStates, sent: BOOLEAN, received: BOOLEAN,
            req: Words, ok: BOOLEAN, data: Rates]
ParamRegs == [st: ParamStates, sub: ParamSubStates, rate: Rates, got: Rates]

-------------------------------------------------------------------------------
(* The submodules, one edge at a time.                                      *)
LEMMA PatternTyped ==
  ASSUME NEW p \in PatternRegs, NEW asks \in BOOLEAN, NEW taken \in BOOLEAN,
         NEW fired \in BOOLEAN, NEW sees \in BOOLEAN, NEW late \in BOOLEAN
  PROVE  PatternNext(p, asks, taken, fired, sees, late) \in PatternRegs
<1>1. \A n \in 0..(Wrap - 1), b \in BOOLEAN : Count(n, b) \in 0..(Wrap - 1)
  BY DEF Count, Wrap
<1>2. 0 \in 0..(Wrap - 1)
  BY DEF Wrap
<1>3. /\ p.busy \in BOOLEAN /\ p.valid \in BOOLEAN /\ p.ok \in BOOLEAN
      /\ p.written \in 0..(Wrap - 1) /\ p.seen \in 0..(Wrap - 1)
  BY DEF PatternRegs
<1>4. /\ Count(p.written, p.busy /\ fired) \in 0..(Wrap - 1)
      /\ Count(p.seen, p.busy /\ sees) \in 0..(Wrap - 1)
  BY <1>1, <1>3
<1>5. PatternDone(p) \in BOOLEAN
  BY DEF PatternDone
<1> HIDE DEF Wrap, Count, PatternDone
<1> QED BY <1>2, <1>3, <1>4, <1>5 DEF PatternNext, PatternRegs

\* The wrapper: what an edge does in each of its states.
ExchangeMoves(w, w2, valid, m, taken, fired, word, bits) ==
    /\ w2 \in MsgRegs
    /\ w.st = "IDLE" /\ valid => w2.st = "EXCHANGE" /\ w2.req = m /\ w2.received = w.received
    /\ w.st # "IDLE" \/ ~valid => w2.req = w.req
    /\ w.st = "IDLE" /\ ~valid => w2 = w
    /\ w.st = "EXCHANGE" =>
          /\ w2.st # "IDLE"
          /\ w2.received => w.received \/ word.code = w.req.code
          /\ w2.st = "WAIT_ACK" /\ w2.ok =>
                Complete(w, fired, word) /\ w2.received /\ w2.data = bits
    /\ w.st = "WAIT_ACK" => IF taken THEN w2.st = "IDLE" /\ ~w2.received ELSE w2 = w

LEMMA ExchangeEdge ==
  ASSUME NEW w \in MsgRegs, NEW valid \in BOOLEAN, NEW m \in Words, NEW taken \in BOOLEAN,
         NEW fired \in BOOLEAN, NEW word \in Words, NEW bits \in Rates, NEW late \in BOOLEAN
  PROVE  ExchangeMoves(w, ExchangeNext(w, valid, m, taken, fired, word, bits, late),
                       valid, m, taken, fired, word, bits)
<1> DEFINE w2 == ExchangeNext(w, valid, m, taken, fired, word, bits, late)
<1>1. w.st \in {"IDLE", "EXCHANGE", "WAIT_ACK"} /\ w.sent \in BOOLEAN /\ w.received \in BOOLEAN
        /\ w.req \in Words /\ w.ok \in BOOLEAN /\ w.data \in Rates
  BY DEF MsgRegs, ExchangeStates
<1>2. /\ Complete(w, fired, word) \in BOOLEAN /\ JustReceived(w, word) \in BOOLEAN
      /\ ExchangeEnds(w, fired, word, late) \in BOOLEAN
  BY <1>1 DEF Complete, JustReceived, ExchangeEnds
<1>3. CASE w.st = "IDLE"
  <2>1. w2 = IF valid THEN [w EXCEPT !.st = "EXCHANGE", !.req = m] ELSE w
    BY <1>3 DEF ExchangeNext
  <2> QED BY <1>1, <1>3, <2>1 DEF MsgRegs, ExchangeStates, ExchangeMoves
<1>4. CASE w.st = "EXCHANGE"
  <2>1. w2 = [w EXCEPT !.st = IF ExchangeEnds(w, fired, word, late) THEN "WAIT_ACK" ELSE @,
                     !.sent = @ \/ fired,
                     !.received = @ \/ JustReceived(w, word),
                     !.data = IF Complete(w, fired, word) THEN bits ELSE @,
                     !.ok = ~late /\ (@ \/ Complete(w, fired, word))]
    BY <1>4 DEF ExchangeNext
  <2>2. /\ w2.st = IF ExchangeEnds(w, fired, word, late) THEN "WAIT_ACK" ELSE w.st
        /\ w2.sent = (w.sent \/ fired)
        /\ w2.received = (w.received \/ JustReceived(w, word))
        /\ w2.data = IF Complete(w, fired, word) THEN bits ELSE w.data
        /\ w2.ok = (~late /\ (w.ok \/ Complete(w, fired, word)))
        /\ w2.req = w.req
    BY <2>1 DEF MsgRegs
  <2>3. w2 \in MsgRegs
    <3>1. /\ (w.sent \/ fired) \in BOOLEAN
          /\ (w.received \/ JustReceived(w, word)) \in BOOLEAN
          /\ (~late /\ (w.ok \/ Complete(w, fired, word))) \in BOOLEAN
      OBVIOUS
    <3>2. /\ (IF ExchangeEnds(w, fired, word, late) THEN "WAIT_ACK" ELSE w.st) \in ExchangeStates
          /\ (IF Complete(w, fired, word) THEN bits ELSE w.data) \in Rates
      BY <1>1, <1>4 DEF ExchangeStates
    <3> HIDE DEF ExchangeStates
    <3> QED BY <2>1, <3>1, <3>2 DEF MsgRegs
  <2>4. w2.st # "IDLE" /\ (w2.received => w.received \/ word.code = w.req.code)
    BY <1>4, <2>2 DEF JustReceived
  <2>5. w2.st = "WAIT_ACK" /\ w2.ok => Complete(w, fired, word) /\ w2.received /\ w2.data = bits
    BY <1>4, <2>2 DEF ExchangeEnds, Complete
  <2> QED BY <1>4, <2>2, <2>3, <2>4, <2>5 DEF ExchangeMoves
<1>5. CASE w.st = "WAIT_ACK"
  <2>1. w2 = IF taken THEN [w EXCEPT !.st = "IDLE", !.sent = FALSE, !.received = FALSE] ELSE w
    BY <1>5 DEF ExchangeNext
  <2> QED BY <1>1, <1>5, <2>1 DEF MsgRegs, ExchangeStates, ExchangeMoves
<1> HIDE DEF w2
<1> QED BY <1>1, <1>3, <1>4, <1>5 DEF ExchangeMoves, w2

\* The mainband initialisation.
ParamMoves(m, m2, accepted, status, ok, data) ==
    /\ m2 \in ParamRegs
    /\ m2.st = ParamState(m, status, ok)
    /\ m2.sub # m.sub =>
          \/ m.sub = "SEND_REQ" /\ accepted /\ m2.sub = "WAIT_REQ"
          \/ m.sub = "WAIT_REQ" /\ m.st = "PARAM" /\ status /\ ok /\ m2.sub = "SEND_RESP"
                /\ m2.got = data
          \/ m.sub = "SEND_RESP" /\ accepted /\ m2.sub = "WAIT_RESP"
    /\ m2.rate = IF m.st = "PARAM" /\ m.sub = "SEND_RESP" THEN AgreedRate(m) ELSE m.rate
    /\ m.sub # "WAIT_REQ" => m2.got = m.got

LEMMA ParamEdge ==
  ASSUME NEW m \in ParamRegs, NEW accepted \in BOOLEAN, NEW status \in BOOLEAN,
         NEW ok \in BOOLEAN, NEW data \in Rates
  PROVE  ParamMoves(m, ParamNext(m, accepted, status, ok, data), accepted, status, ok, data)
<1> DEFINE m2 == ParamNext(m, accepted, status, ok, data)
<1>1. /\ m.st \in ParamStates /\ m.sub \in ParamSubStates /\ m.rate \in Rates /\ m.got \in Rates
  BY DEF ParamRegs
<1>2. AgreedRate(m) \in Rates
  BY <1>1 DEF AgreedRate
<1>3. ParamState(m, status, ok) \in ParamStates
  BY <1>1 DEF ParamState, ParamStates
<1>4. /\ m2.st = ParamState(m, status, ok)
      /\ m2.sub = CASE m.sub = "SEND_REQ" /\ accepted -> "WAIT_REQ"
                    [] (ParamReady(m) /\ m.sub = "WAIT_REQ" /\ status) /\ ok -> "SEND_RESP"
                    [] m.sub = "SEND_RESP" /\ accepted -> "WAIT_RESP"
                    [] OTHER -> m.sub
      /\ m2.rate = IF m.st = "PARAM" /\ m.sub = "SEND_RESP" THEN AgreedRate(m) ELSE m.rate
      /\ m2.got = IF ParamReady(m) /\ m.sub = "WAIT_REQ" /\ status THEN data ELSE m.got
      /\ m2 = [st |-> m2.st, sub |-> m2.sub, rate |-> m2.rate, got |-> m2.got]
  BY DEF ParamNext
<1>5. m2.sub \in ParamSubStates
  BY <1>1, <1>4 DEF ParamSubStates
<1>6. m2 \in ParamRegs
  BY <1>1, <1>2, <1>3, <1>4, <1>5 DEF ParamRegs
<1> HIDE DEF m2
<1> QED BY <1>1, <1>4, <1>6 DEF ParamReady, ParamSubStates, ParamMoves, m2

-------------------------------------------------------------------------------
(* One edge of one die.                                                     *)
Incoming(d, hear) == IF hear THEN Head(wire[d]) ELSE NoWord
Heard(d, hear) == IF UsesPattern(d) THEN NoWord ELSE Incoming(d, hear)
Ending(d, hear) == Exchanging(msg[d]) /\ Complete(msg[d], Fires(d), Heard(d, hear))

LEMMA TypedParts ==
  ASSUME TypeOK, NEW d \in Die
  PROVE  /\ fsm[d].st \in TrainingStates /\ fsm[d].rst \in ResetSubStates
         /\ fsm[d].sb \in SbInitSubStates /\ fsm[d].count \in 0..(LockWait - 1)
         /\ pattern[d] \in PatternRegs /\ msg[d] \in MsgRegs /\ param[d] \in ParamRegs
         /\ msg[d].st \in ExchangeStates /\ msg[d].req \in Words /\ msg[d].data \in Rates
         /\ msg[d].req.code \in Codes
         /\ msg[d].ok \in BOOLEAN /\ msg[d].received \in BOOLEAN /\ pattern[d].busy \in BOOLEAN
         /\ param[d].st \in ParamStates /\ param[d].sub \in ParamSubStates
         /\ param[d].rate \in Rates /\ param[d].got \in Rates
         /\ wire[d] \in Seq(Words) /\ Len(wire[d]) <= Capacity
         /\ began[d] \subseteq Codes /\ done[d] \subseteq Codes
<1>1. pattern[d] \in PatternRegs /\ msg[d] \in MsgRegs /\ param[d] \in ParamRegs
  BY DEF TypeOK, MsgRegs, ParamRegs
<1>2. /\ msg[d].st \in ExchangeStates /\ msg[d].req \in Words /\ msg[d].data \in Rates
      /\ msg[d].ok \in BOOLEAN /\ msg[d].received \in BOOLEAN
  BY <1>1 DEF MsgRegs
<1>3. msg[d].req.code \in Codes
  BY <1>2 DEF Words
<1>4. /\ param[d].st \in ParamStates /\ param[d].sub \in ParamSubStates
      /\ param[d].rate \in Rates /\ param[d].got \in Rates
  BY <1>1 DEF ParamRegs
<1>5. pattern[d].busy \in BOOLEAN
  BY <1>1 DEF PatternRegs
<1>6. /\ fsm[d].st \in TrainingStates /\ fsm[d].rst \in ResetSubStates
      /\ fsm[d].sb \in SbInitSubStates /\ fsm[d].count \in 0..(LockWait - 1)
  <2>1. fsm[d] \in [st: TrainingStates, rst: ResetSubStates, sb: SbInitSubStates,
                    count: 0..(LockWait - 1)]
    BY DEF TypeOK
  <2> QED BY <2>1
<1>7. wire[d] \in Seq(Words) /\ Len(wire[d]) <= Capacity
  BY DEF TypeOK
<1>8. began[d] \subseteq Codes /\ done[d] \subseteq Codes
  BY DEF TypeOK
<1> QED BY <1>1, <1>2, <1>3, <1>4, <1>5, <1>6, <1>7, <1>8

\* What a die asks its wrapper to send.
LEMMA Asked ==
  ASSUME TypeOK, NEW d \in Die
  PROVE  /\ MsgOf(d) \in Words
         /\ MsgValid(d) \in BOOLEAN /\ StatusReady(d) \in BOOLEAN
         /\ MsgValid(d) => MsgOf(d).code \in MessageCodes
         /\ MsgValid(d) /\ MsgOf(d).code = "PARAM_REQ" =>
               InMbInit(d) /\ param[d].sub = "SEND_REQ" /\ MsgOf(d).rate = param[d].rate
         /\ MsgValid(d) /\ MsgOf(d).code = "PARAM_RESP" =>
               InMbInit(d) /\ param[d].st = "PARAM" /\ param[d].sub = "SEND_RESP"
         /\ MsgValid(d) /\ InMbInit(d) =>
               MsgOf(d).code = IF param[d].sub = "SEND_REQ" THEN "PARAM_REQ" ELSE "PARAM_RESP"
<1>1. /\ param[d].st \in ParamStates /\ param[d].sub \in ParamSubStates
      /\ param[d].rate \in Rates /\ AgreedRate(param[d]) \in Rates
  BY TypedParts DEF AgreedRate
<1>2. MsgValid(d) \in BOOLEAN /\ StatusReady(d) \in BOOLEAN
  BY DEF MsgValid, StatusReady, InSbInit, ParamValid, ParamReady
<1>3. CASE fsm[d].st = "mbInit"
  <2>1. MsgOf(d) = ParamMsg(param[d])
    BY <1>3 DEF MsgOf, InSbInit
  <2>2. CASE param[d].sub = "SEND_REQ"
    <3>1. MsgOf(d) = Word("PARAM_REQ", param[d].rate)
      BY <2>1, <2>2 DEF ParamMsg
    <3>2. /\ MsgOf(d) \in Words /\ MsgOf(d).code = "PARAM_REQ"
          /\ MsgOf(d).rate = param[d].rate
      BY <1>1, <3>1, SomeWords DEF Codes
    <3> QED BY <1>2, <1>3, <2>2, <3>2 DEF MessageCodes, Codes, InMbInit
  <2>3. CASE param[d].sub # "SEND_REQ"
    <3>1. MsgOf(d) = Word("PARAM_RESP", AgreedRate(param[d]))
      BY <2>1, <2>3 DEF ParamMsg
    <3>2. MsgOf(d) \in Words /\ MsgOf(d).code = "PARAM_RESP"
      BY <1>1, <3>1, SomeWords DEF Codes
    <3>3. MsgValid(d) => param[d].st = "PARAM" /\ param[d].sub = "SEND_RESP"
      BY <1>3, <2>3 DEF MsgValid, InSbInit, ParamValid
    <3> QED BY <1>2, <1>3, <2>3, <3>2, <3>3 DEF MessageCodes, Codes, InMbInit
  <2> QED BY <2>2, <2>3
<1>4. CASE fsm[d].st # "mbInit"
  <2>1. MsgOf(d) = CASE InSbInit(d, {"SB_OUT_OF_RESET_EXCH"}) -> Word("OUT_OF_RESET", 0)
                     [] InSbInit(d, {"SB_DONE_REQ"}) -> Word("DONE_REQ", 0)
                     [] InSbInit(d, {"SB_DONE_RESP"}) -> Word("DONE_RESP", 0)
                     [] OTHER -> NoWord
    BY <1>4 DEF MsgOf, InSbInit
  <2>2. MsgOf(d) \in {Word("OUT_OF_RESET", 0), Word("DONE_REQ", 0), Word("DONE_RESP", 0), NoWord}
    BY <2>1
  <2>3. /\ MsgOf(d) \in Words
        /\ MsgOf(d).code \in {"OUT_OF_RESET", "DONE_REQ", "DONE_RESP", "none"}
    BY <2>2, SomeWords, SomeRates DEF Codes
  <2>4. MsgValid(d) => MsgOf(d).code \in {"OUT_OF_RESET", "DONE_REQ", "DONE_RESP"}
    BY <1>4, <2>1, SomeWords DEF MsgValid, InSbInit
  <2> QED BY <1>2, <1>4, <2>3, <2>4 DEF MessageCodes, Codes, InMbInit
<1> QED BY <1>3, <1>4

\* The word on the wires of the receiver, and the word the die sends.
LEMMA OnWires ==
  ASSUME TypeOK, NEW d \in Die, NEW hear \in BOOLEAN, hear => wire[d] # <<>>
  PROVE  /\ Incoming(d, hear) \in Words /\ Heard(d, hear) \in Words
         /\ hear => /\ 1 \in DOMAIN wire[d] /\ Incoming(d, hear) = wire[d][1]
                    /\ Tail(wire[d]) \in Seq(Words) /\ Len(Tail(wire[d])) <= Capacity
                    /\ \A i \in DOMAIN Tail(wire[d]) :
                          i + 1 \in DOMAIN wire[d] /\ Tail(wire[d])[i] = wire[d][i + 1]
         /\ Heard(d, hear).code \notin {"none", "clock"} => hear /\ Heard(d, hear) = wire[d][1]
         /\ Sends(d) \in Words
         /\ Fires(d) => Len(wire[Other(d)]) < Capacity /\ Sends(d) # NoWord
         /\ Sends(d) # NoWord => Sends(d) = Clock \/ (msg[d].st # "IDLE" /\ Sends(d) = msg[d].req)
<1>1. wire[d] \in Seq(Words) /\ Len(wire[d]) <= Capacity /\ msg[d].req \in Words
  BY TypedParts
<1>2. ASSUME hear
      PROVE  /\ 1 \in DOMAIN wire[d] /\ Incoming(d, hear) = wire[d][1] /\ wire[d][1] \in Words
             /\ Tail(wire[d]) \in Seq(Words) /\ Len(Tail(wire[d])) <= Capacity
             /\ \A i \in DOMAIN Tail(wire[d]) :
                   i + 1 \in DOMAIN wire[d] /\ Tail(wire[d])[i] = wire[d][i + 1]
  <2>1. wire[d] # <<>>
    BY <1>2
  <2>2. Capacity \in Nat
    BY TrainingAssumption
  <2> QED BY <1>1, <1>2, <2>1, <2>2 DEF Incoming
<1>3. Incoming(d, hear) \in Words /\ Heard(d, hear) \in Words
  BY <1>2, SomeWords DEF Incoming, Heard
<1>4. Heard(d, hear).code \notin {"none", "clock"} => hear /\ Heard(d, hear) = wire[d][1]
  BY <1>2, SomeWords DEF Incoming, Heard
<1>5. Sends(d) \in Words
  BY <1>1, SomeWords DEF Sends
<1>6. Fires(d) => Len(wire[Other(d)]) < Capacity /\ Sends(d) # NoWord
  BY DEF Fires
<1>7. Sends(d) # NoWord => Sends(d) = Clock \/ (msg[d].st # "IDLE" /\ Sends(d) = msg[d].req)
  BY DEF Sends, Exchanging
<1> QED BY <1>2, <1>3, <1>4, <1>5, <1>6, <1>7

\* The edge, die by die.
EdgeView(d, lock, hear, stale, late) ==
    /\ hear => wire[d] # <<>>
    /\ fsm'[d] = NextFsm(d, lock)
    /\ pattern'[d] = PatternNext(pattern[d], AsksPattern(d), PatternStatus(d), Fires(d),
                         UsesPattern(d) /\ Incoming(d, hear) = Clock, late)
    /\ msg'[d] = ExchangeNext(msg[d], MsgValid(d), MsgOf(d), StatusReady(d), Fires(d),
                         Heard(d, hear), IF hear THEN Incoming(d, hear).rate ELSE stale, late)
    /\ param'[d] = NextParam(d, lock)
    /\ wire'[d] = IF hear THEN Tail(wire[d]) ELSE wire[d]
    /\ wire'[Other(d)] = IF Fires(d) THEN Append(wire[Other(d)], Sends(d)) ELSE wire[Other(d)]
    /\ began'[d] = IF Accepted(d) THEN began[d] \cup {MsgOf(d).code} ELSE began[d]
    /\ done'[d] = IF Status(d) /\ msg[d].ok THEN done[d] \cup {msg[d].req.code} ELSE done[d]
    /\ blind'[d] = (blind[d] \/ (Ending(d, hear) /\ msg[d].req.code = "PARAM_REQ"
                                   /\ Incoming(d, hear).code # "PARAM_REQ"))
    /\ wrapped' \in BOOLEAN
    /\ UNCHANGED <<patient, lost>>
    /\ LET e == Other(d) IN
         /\ fsm'[e] = fsm[e] /\ pattern'[e] = pattern[e] /\ msg'[e] = msg[e]
         /\ param'[e] = param[e] /\ began'[e] = began[e] /\ done'[e] = done[e]
         /\ blind'[e] = blind[e]
    /\ fsm' = [fsm EXCEPT ![d] = fsm'[d]] /\ pattern' = [pattern EXCEPT ![d] = pattern'[d]]
    /\ msg' = [msg EXCEPT ![d] = msg'[d]] /\ param' = [param EXCEPT ![d] = param'[d]]
    /\ wire' = [wire EXCEPT ![d] = wire'[d], ![Other(d)] = wire'[Other(d)]]
    /\ began' = [began EXCEPT ![d] = began'[d]] /\ done' = [done EXCEPT ![d] = done'[d]]
    /\ blind' = [blind EXCEPT ![d] = blind'[d]]

LEMMA EdgeParts ==
  ASSUME TypeOK, NEW d \in Die, NEW lock \in BOOLEAN, NEW hear \in BOOLEAN,
         NEW stale \in Rates, NEW late \in BOOLEAN, Edge(d, lock, hear, stale, late)
  PROVE  EdgeView(d, lock, hear, stale, late)
<1>1. Other(d) \in Die /\ Other(d) # d
  BY TwoDies
<1>2. \A D, f : f \in [Die -> D] => DOMAIN f = Die
  OBVIOUS
<1>3. /\ DOMAIN fsm = Die /\ DOMAIN pattern = Die /\ DOMAIN msg = Die /\ DOMAIN param = Die
      /\ DOMAIN wire = Die /\ DOMAIN began = Die /\ DOMAIN done = Die /\ DOMAIN blind = Die
  BY DEF TypeOK
<1> HIDE DEF NextFsm, PatternNext, ExchangeNext, NextParam, Fires, Sends, Accepted, Status,
             UsesPattern, MsgOf, MsgValid, StatusReady, RxReady, Complete, PatternStatus,
             AsksPattern, Other, Exchanging
<1>4. /\ hear => wire[d] # <<>>
      /\ fsm'[d] = NextFsm(d, lock)
      /\ fsm'[Other(d)] = fsm[Other(d)]
      /\ fsm' = [fsm EXCEPT ![d] = fsm'[d]]
  BY <1>1, <1>3 DEF Edge
<1>5. /\ pattern'[d] = PatternNext(pattern[d], AsksPattern(d), PatternStatus(d), Fires(d),
                              UsesPattern(d) /\ Incoming(d, hear) = Clock, late)
      /\ pattern'[Other(d)] = pattern[Other(d)]
      /\ pattern' = [pattern EXCEPT ![d] = pattern'[d]]
  BY <1>1, <1>3 DEF Edge, Incoming
<1>6. /\ msg'[d] = ExchangeNext(msg[d], MsgValid(d), MsgOf(d), StatusReady(d), Fires(d),
                              Heard(d, hear), IF hear THEN Incoming(d, hear).rate ELSE stale, late)
      /\ msg'[Other(d)] = msg[Other(d)]
      /\ msg' = [msg EXCEPT ![d] = msg'[d]]
  <2>1. (IF hear THEN Incoming(d, hear).rate ELSE stale)
          = (IF hear THEN (IF hear THEN Head(wire[d]) ELSE NoWord).rate ELSE stale)
    BY DEF Incoming
  <2> QED BY <1>1, <1>3, <2>1 DEF Edge, Incoming, Heard
<1>7. /\ param'[d] = NextParam(d, lock) /\ param'[Other(d)] = param[Other(d)]
      /\ param' = [param EXCEPT ![d] = param'[d]]
  BY <1>1, <1>3 DEF Edge
<1>8. /\ wire'[d] = IF hear THEN Tail(wire[d]) ELSE wire[d]
      /\ wire'[Other(d)] = IF Fires(d) THEN Append(wire[Other(d)], Sends(d)) ELSE wire[Other(d)]
      /\ wire' = [wire EXCEPT ![d] = wire'[d], ![Other(d)] = wire'[Other(d)]]
  BY <1>1, <1>3 DEF Edge
<1>9. /\ began'[d] = IF Accepted(d) THEN began[d] \cup {MsgOf(d).code} ELSE began[d]
      /\ began'[Other(d)] = began[Other(d)]
      /\ began' = [began EXCEPT ![d] = began'[d]]
  BY <1>1, <1>3 DEF Edge
<1>10. /\ done'[d] = IF Status(d) /\ msg[d].ok THEN done[d] \cup {msg[d].req.code} ELSE done[d]
       /\ done'[Other(d)] = done[Other(d)]
       /\ done' = [done EXCEPT ![d] = done'[d]]
  BY <1>1, <1>3 DEF Edge
<1>11. /\ blind'[d] = (blind[d] \/ (Ending(d, hear) /\ msg[d].req.code = "PARAM_REQ"
                                     /\ Incoming(d, hear).code # "PARAM_REQ"))
       /\ blind'[Other(d)] = blind[Other(d)]
       /\ blind' = [blind EXCEPT ![d] = blind'[d]]
  BY <1>1, <1>3 DEF Edge, Ending, Incoming, Heard
<1>12. wrapped' \in BOOLEAN /\ UNCHANGED <<patient, lost>>
  BY DEF Edge, TypeOK
<1> QED BY <1>4, <1>5, <1>6, <1>7, <1>8, <1>9, <1>10, <1>11, <1>12 DEF EdgeView

\* The training machine.
LEMMA FsmEdge ==
  ASSUME TypeOK, NEW d \in Die, NEW lock \in BOOLEAN
  PROVE  /\ NextFsm(d, lock) \in [st: TrainingStates, rst: ResetSubStates,
                                  sb: SbInitSubStates, count: 0..(LockWait - 1)]
         /\ NextFsm(d, lock).st = NextState(d, lock)
         /\ NextState(d, lock) = "mbInit" /\ ~InMbInit(d) => fsm[d].st = "sbInit"
         /\ InMbInit(d) /\ param[d].st = "PARAM" =>
               \/ NextState(d, lock) = "linkInit"
               \/ /\ NextState(d, lock) = "mbInit"
                  /\ ParamState(param[d], ParamStatus(d), msg[d].ok) \notin {"IDLE", "ERR"}
         /\ fsm[d].st = "linkInit" => NextState(d, lock) = "linkInit"
<1>1. /\ fsm[d].st \in TrainingStates /\ fsm[d].rst \in ResetSubStates
      /\ fsm[d].sb \in SbInitSubStates /\ fsm[d].count \in 0..(LockWait - 1)
  BY TypedParts
<1>2. NextState(d, lock) \in TrainingStates
  <2>1. NextState(d, lock) \in {"sbInit", "linkError", "mbInit", "linkInit", fsm[d].st}
    BY DEF NextState
  <2> QED BY <1>1, <2>1 DEF TrainingStates
<1>3. ResetSub(d, lock) \in ResetSubStates
  BY <1>1 DEF ResetSub, ResetSubStates
<1>4. SbSub(d) \in SbInitSubStates
  BY <1>1 DEF SbSub, SbInitSubStates
<1>5. LockWait \in Nat \ {0}
  BY TrainingAssumption
<1>6. 0 \in 0..(LockWait - 1)
  BY <1>5
<1>7. (fsm[d].count + 1) % LockWait \in 0..(LockWait - 1)
  BY <1>1, <1>5
<1>8. NextFsm(d, lock).count \in 0..(LockWait - 1)
  BY <1>1, <1>6, <1>7 DEF NextFsm
<1>9. /\ NextFsm(d, lock) = [st |-> NextState(d, lock), rst |-> ResetSub(d, lock),
                             sb |-> SbSub(d), count |-> NextFsm(d, lock).count]
      /\ NextFsm(d, lock).st = NextState(d, lock)
  BY DEF NextFsm
<1>10. NextFsm(d, lock) \in [st: TrainingStates, rst: ResetSubStates,
                             sb: SbInitSubStates, count: 0..(LockWait - 1)]
  BY <1>2, <1>3, <1>4, <1>8, <1>9
<1>11. NextState(d, lock) = "mbInit" /\ ~InMbInit(d) => fsm[d].st = "sbInit"
  BY DEF NextState, InMbInit, InSbInit
<1>12. ASSUME InMbInit(d), param[d].st = "PARAM"
       PROVE  \/ NextState(d, lock) = "linkInit"
              \/ /\ NextState(d, lock) = "mbInit"
                 /\ ParamState(param[d], ParamStatus(d), msg[d].ok) \notin {"IDLE", "ERR"}
  BY <1>12 DEF NextState, InMbInit, InSbInit, ParamError, ParamTransition
<1>13. fsm[d].st = "linkInit" => NextState(d, lock) = "linkInit"
  BY DEF NextState, InMbInit, InSbInit
<1> QED BY <1>9, <1>10, <1>11, <1>12, <1>13

\* The mainband initialisation of a die.
ParamOf(d, m2) == ParamMoves(param[d], m2, InMbInit(d) /\ Accepted(d), ParamStatus(d),
                             msg[d].ok, msg[d].data)

LEMMA ParamOfEdge ==
  ASSUME TypeOK, NEW d \in Die, NEW lock \in BOOLEAN
  PROVE  LET m2 == NextParam(d, lock) IN
         /\ m2 \in ParamRegs
         /\ NextState(d, lock) = "mbInit" /\ ~InMbInit(d) => m2 = ParamReset(OfferedRate[d])
         /\ NextState(d, lock) # "mbInit" \/ InMbInit(d) => ParamOf(d, m2)
<1> DEFINE accepted == InMbInit(d) /\ Accepted(d)
           status == ParamStatus(d)
           m3 == ParamNext(param[d], accepted, status, msg[d].ok, msg[d].data)
<1>1. /\ param[d] \in ParamRegs /\ msg[d].ok \in BOOLEAN /\ msg[d].data \in Rates
  BY TypedParts
<1>2. ParamReset(OfferedRate[d]) \in ParamRegs
  BY SomeRates DEF ParamReset, ParamRegs, ParamStates, ParamSubStates
<1>3. accepted \in BOOLEAN /\ status \in BOOLEAN
  BY DEF InMbInit, ParamStatus
<1>4. ParamOf(d, m3)
  <2>1. ParamMoves(param[d], m3, accepted, status, msg[d].ok, msg[d].data)
    <3> HIDE DEF accepted, status
    <3> QED BY <1>1, <1>3, ParamEdge
  <2> QED BY <2>1 DEF ParamOf
<1>5. m3 \in ParamRegs
  BY <1>4 DEF ParamOf, ParamMoves
<1>6. NextParam(d, lock) = IF NextState(d, lock) = "mbInit" /\ ~InMbInit(d)
                           THEN ParamReset(OfferedRate[d]) ELSE m3
  BY DEF NextParam
<1> HIDE DEF m3
<1> QED BY <1>2, <1>4, <1>5, <1>6

\* The wrapper of a die.
LEMMA MsgOfEdge ==
  ASSUME TypeOK, NEW d \in Die, NEW lock \in BOOLEAN, NEW hear \in BOOLEAN,
         NEW stale \in Rates, NEW late \in BOOLEAN, EdgeView(d, lock, hear, stale, late)
  PROVE  /\ msg'[d] \in MsgRegs
         /\ Accepted(d) =>
               /\ msg'[d].st = "EXCHANGE" /\ msg'[d].req = MsgOf(d)
               /\ msg'[d].received = msg[d].received
         /\ ~Accepted(d) => msg'[d].req = msg[d].req
         /\ msg[d].st = "IDLE" /\ ~Accepted(d) => msg'[d] = msg[d]
         /\ msg[d].st = "EXCHANGE" =>
               /\ msg'[d].st # "IDLE"
               /\ msg'[d].received => msg[d].received \/ Heard(d, hear).code = msg[d].req.code
               /\ msg'[d].st = "WAIT_ACK" /\ msg'[d].ok =>
                     /\ Ending(d, hear) /\ msg'[d].received
                     /\ hear => msg'[d].data = Incoming(d, hear).rate
         /\ msg[d].st = "WAIT_ACK" =>
               (msg'[d].st = "IDLE" /\ ~msg'[d].received) \/ msg'[d] = msg[d]
<1> DEFINE valid == MsgValid(d)
           taken == StatusReady(d)
           fired == Fires(d)
           bits == IF hear THEN Incoming(d, hear).rate ELSE stale
<1>1. valid \in BOOLEAN /\ MsgOf(d) \in Words /\ taken \in BOOLEAN
  BY Asked
<1>2. fired \in BOOLEAN
  BY DEF Fires
<1>3. Heard(d, hear) \in Words /\ Incoming(d, hear) \in Words
  <2>1. hear => wire[d] # <<>>
    BY DEF EdgeView
  <2> QED BY <2>1, OnWires
<1>4. bits \in Rates
  BY <1>3 DEF Words
<1>5. msg'[d] = ExchangeNext(msg[d], valid, MsgOf(d), taken, fired, Heard(d, hear), bits, late)
  BY DEF EdgeView
<1>6. /\ Accepted(d) <=> valid /\ msg[d].st = "IDLE"
      /\ hear => bits = Incoming(d, hear).rate
  BY DEF Accepted
<1>8. msg[d].st = "EXCHANGE" /\ Complete(msg[d], fired, Heard(d, hear)) => Ending(d, hear)
  BY DEF Ending, Exchanging
<1>7. msg[d] \in MsgRegs
  BY TypedParts
<1> HIDE DEF valid, taken, fired, bits
<1>9. ExchangeMoves(msg[d], msg'[d], valid, MsgOf(d), taken, fired, Heard(d, hear), bits)
  BY <1>1, <1>2, <1>3, <1>4, <1>5, <1>7, ExchangeEdge
<1>10. msg[d].st \in {"IDLE", "EXCHANGE", "WAIT_ACK"}
  BY <1>7 DEF MsgRegs, ExchangeStates
<1> QED BY <1>6, <1>8, <1>9, <1>10 DEF ExchangeMoves

-------------------------------------------------------------------------------
(* The type invariant.                                                      *)
LEMMA InitTyped == Init => TypeOK
<1> SUFFICES ASSUME Init PROVE TypeOK
  OBVIOUS
<1>1. \A d \in Die : ParamReset(OfferedRate[d])
                        \in [st: ParamStates, sub: ParamSubStates, rate: Rates, got: Rates]
  BY SomeRates DEF ParamReset, ParamStates, ParamSubStates
<1>2. PatternIdle \in PatternRegs
  BY DEF PatternIdle, PatternRegs, Wrap
<1>3. ExchangeIdle \in [st: ExchangeStates, sent: BOOLEAN,
                        received: BOOLEAN, req: Words, ok: BOOLEAN, data: Rates]
  BY SomeRates, SomeWords DEF ExchangeIdle, ExchangeStates
<1>4. 0 \in 0..(LockWait - 1) /\ 0 <= Capacity /\ 0 \in 0..MaxLosses
  BY TrainingAssumption
<1>5. fsm \in [Die -> [st: TrainingStates, rst: ResetSubStates, sb: SbInitSubStates,
                       count: 0..(LockWait - 1)]]
  BY <1>4 DEF Init, TrainingStates, ResetSubStates, SbInitSubStates
<1>6. wire \in [Die -> Seq(Words)] /\ \A d \in Die : Len(wire[d]) <= Capacity
  BY <1>4 DEF Init
<1> QED BY <1>1, <1>2, <1>3, <1>4, <1>5, <1>6 DEF Init, TypeOK

LEMMA EdgeTyped ==
  ASSUME TypeOK, NEW d \in Die, NEW lock \in BOOLEAN, NEW hear \in BOOLEAN,
         NEW stale \in Rates, NEW late \in BOOLEAN, Edge(d, lock, hear, stale, late)
  PROVE  TypeOK'
<1> DEFINE e == Other(d)
<1>0. EdgeView(d, lock, hear, stale, late)
  BY EdgeParts
<1>1. e \in Die /\ e # d
  BY TwoDies
<1>2. hear => wire[d] # <<>>
  BY <1>0 DEF EdgeView
<1>3. /\ msg[d] \in MsgRegs /\ pattern[d] \in PatternRegs /\ wire[d] \in Seq(Words)
      /\ Len(wire[d]) <= Capacity /\ wire[e] \in Seq(Words) /\ Len(wire[e]) <= Capacity
      /\ msg[d].req.code \in Codes
  BY <1>1, TypedParts
<1>4. fsm' \in [Die -> [st: TrainingStates, rst: ResetSubStates, sb: SbInitSubStates,
                        count: 0..(LockWait - 1)]]
  <2>1. fsm'[d] \in [st: TrainingStates, rst: ResetSubStates, sb: SbInitSubStates,
                        count: 0..(LockWait - 1)]
    BY <1>0, FsmEdge DEF EdgeView
  <2>2. fsm' = [fsm EXCEPT ![d] = fsm'[d]]
    BY <1>0 DEF EdgeView
  <2> QED BY <2>1, <2>2 DEF TypeOK
<1>5. pattern' \in [Die -> PatternRegs]
  <2> DEFINE asks == AsksPattern(d)
             taken == PatternStatus(d)
             fired == Fires(d)
             sees == UsesPattern(d) /\ Incoming(d, hear) = Clock
  <2>1. asks \in BOOLEAN /\ taken \in BOOLEAN /\ fired \in BOOLEAN /\ sees \in BOOLEAN
    <3>1. pattern[d].valid \in BOOLEAN
      BY <1>3 DEF PatternRegs
    <3> QED BY <3>1 DEF AsksPattern, PatternStatus, PatternReady, InSbInit, Fires
  <2>2. pattern'[d] \in PatternRegs
    <3>1. pattern'[d] = PatternNext(pattern[d], asks, taken, fired, sees, late)
      BY <1>0 DEF EdgeView
    <3> HIDE DEF asks, taken, fired, sees
    <3> QED BY <1>3, <2>1, <3>1, PatternTyped
  <2>3. pattern' = [pattern EXCEPT ![d] = pattern'[d]]
    BY <1>0 DEF EdgeView
  <2> QED BY <2>2, <2>3 DEF TypeOK
<1>6. msg' \in [Die -> MsgRegs]
  <2>5. msg'[d] \in MsgRegs
    BY <1>0, MsgOfEdge
  <2>6. msg' = [msg EXCEPT ![d] = msg'[d]]
    BY <1>0 DEF EdgeView
  <2> QED BY <2>5, <2>6 DEF TypeOK, MsgRegs
<1>7. param' \in [Die -> ParamRegs]
  <2>1. param'[d] \in ParamRegs
    BY <1>0, ParamOfEdge DEF EdgeView
  <2>2. param' = [param EXCEPT ![d] = param'[d]]
    BY <1>0 DEF EdgeView
  <2> QED BY <2>1, <2>2 DEF TypeOK, ParamRegs
<1>8. wire' \in [Die -> Seq(Words)] /\ \A x \in Die : Len(wire'[x]) <= Capacity
  <2>1. Capacity \in Nat
    BY TrainingAssumption
  <2>2. wire'[d] \in Seq(Words) /\ Len(wire'[d]) <= Capacity
    BY <1>0, <1>2, <1>3, OnWires DEF EdgeView
  <2>3. wire'[e] \in Seq(Words) /\ Len(wire'[e]) <= Capacity
    <3>1. CASE Fires(d)
      <4>1. Sends(d) \in Words /\ Len(wire[e]) < Capacity
        BY <1>2, <3>1, OnWires
      <4>2. wire'[e] = Append(wire[e], Sends(d))
        BY <1>0, <3>1 DEF EdgeView
      <4> QED BY <1>3, <2>1, <4>1, <4>2
    <3>2. CASE ~Fires(d)
      BY <1>0, <1>3, <3>2 DEF EdgeView
    <3> QED BY <3>1, <3>2
  <2>4. wire' = [wire EXCEPT ![d] = wire'[d], ![e] = wire'[e]]
    BY <1>0 DEF EdgeView
  <2>5. wire' \in [Die -> Seq(Words)]
    BY <1>1, <2>2, <2>3, <2>4 DEF TypeOK
  <2>6. \A x \in Die : x = d \/ x = e
    BY TwoDies
  <2> QED BY <2>2, <2>3, <2>5, <2>6
<1>9. began' \in [Die -> SUBSET Codes]
  <2>1. MsgOf(d).code \in Codes
    BY Asked DEF Words
  <2>2. began'[d] \in SUBSET Codes
    BY <1>0, <2>1, TypedParts DEF EdgeView
  <2>3. began' = [began EXCEPT ![d] = began'[d]]
    BY <1>0 DEF EdgeView
  <2> QED BY <2>2, <2>3 DEF TypeOK
<1>10. done' \in [Die -> SUBSET Codes]
  <2>1. done'[d] \in SUBSET Codes
    BY <1>0, <1>3, TypedParts DEF EdgeView
  <2>2. done' = [done EXCEPT ![d] = done'[d]]
    BY <1>0 DEF EdgeView
  <2> QED BY <2>1, <2>2 DEF TypeOK
<1>11. blind' \in [Die -> BOOLEAN]
  <2>1. blind[d] \in BOOLEAN
    BY DEF TypeOK
  <2>2. blind'[d] \in BOOLEAN
    BY <1>0, <2>1 DEF EdgeView
  <2>3. blind' = [blind EXCEPT ![d] = blind'[d]]
    BY <1>0 DEF EdgeView
  <2> QED BY <2>2, <2>3 DEF TypeOK
<1>12. patient' \in BOOLEAN /\ lost' \in 0..MaxLosses /\ wrapped' \in BOOLEAN
  BY <1>0 DEF EdgeView, TypeOK
<1> QED BY <1>4, <1>5, <1>6, <1>7, <1>8, <1>9, <1>10, <1>11, <1>12 DEF TypeOK, MsgRegs, ParamRegs

LEMMA LoseTyped ==
  ASSUME TypeOK, NEW d \in Die, Lose(d)
  PROVE  TypeOK'
<1>1. wire[d] \in Seq(Words) /\ Len(wire[d]) <= Capacity /\ wire[d] # <<>>
  BY TypedParts DEF Lose
<1>2. Capacity \in Nat /\ MaxLosses \in Nat
  BY TrainingAssumption
<1>3. Tail(wire[d]) \in Seq(Words) /\ Len(Tail(wire[d])) <= Capacity
  BY <1>1, <1>2
<1>4. wire' = [wire EXCEPT ![d] = Tail(wire[d])]
  BY DEF Lose
<1>5. wire' \in [Die -> Seq(Words)]
  BY <1>3, <1>4 DEF TypeOK
<1>6. \A x \in Die : Len(wire'[x]) <= Capacity
  BY <1>3, <1>4 DEF TypeOK
<1>7. lost' \in 0..MaxLosses
  BY <1>2 DEF Lose, TypeOK
<1>8. UNCHANGED <<regs, patient, began, done, blind, wrapped>>
  BY DEF Lose
<1> QED BY <1>5, <1>6, <1>7, <1>8 DEF TypeOK, regs

-------------------------------------------------------------------------------
(* The exchanges stay in step.                                              *)

\* What a die sends it has begun.
LEMMA SendsKnown ==
  ASSUME TypeOK, NEW d \in Die, Exchanged(d), Sends(d) # NoWord
  PROVE  Sends(d).code # "clock" => msg[d].st # "IDLE" /\ Sends(d) = msg[d].req
                                      /\ Sends(d).code \in began[d]
<1>1. Sends(d) = Clock \/ (msg[d].st # "IDLE" /\ Sends(d) = msg[d].req)
  BY DEF Sends, Exchanging
<1>2. Clock.code = "clock"
  BY SomeWords
<1> QED BY <1>1, <1>2 DEF Exchanged

LEMMA ExchangedSelf ==
  ASSUME Inv, NEW d \in Die, NEW lock \in BOOLEAN, NEW hear \in BOOLEAN,
         NEW stale \in Rates, NEW late \in BOOLEAN, EdgeView(d, lock, hear, stale, late)
  PROVE  Exchanged(d)'
<1>0. TypeOK /\ Exchanged(d)
  BY DEF Inv
<1>1. Other(d) \in Die
  BY TwoDies
<1>2. /\ began[d] \subseteq began'[d] /\ began'[Other(d)] = began[Other(d)]
      /\ Accepted(d) => MsgOf(d).code \in began'[d]
  BY DEF EdgeView
<1>3. msg[d].st \in {"IDLE", "EXCHANGE", "WAIT_ACK"}
  BY <1>0, TypedParts DEF ExchangeStates
<1>4. Accepted(d) => msg[d].st = "IDLE" /\ MsgOf(d).code \in MessageCodes
  BY <1>0, Asked DEF Accepted
<1>5. hear => wire[d] # <<>>
  BY DEF EdgeView
<1>6. \A c \in MessageCodes : c \notin {"none", "clock"}
  BY DEF MessageCodes
<1>7. Heard(d, hear).code \in MessageCodes => Heard(d, hear).code \in began[Other(d)]
  <2> SUFFICES ASSUME Heard(d, hear).code \in MessageCodes
               PROVE  Heard(d, hear).code \in began[Other(d)]
    OBVIOUS
  <2>1. Heard(d, hear).code \notin {"none", "clock"}
    BY <1>6
  <2>2. hear /\ Heard(d, hear) = wire[d][1]
    BY <1>0, <1>5, <2>1, OnWires
  <2>3. 1 \in DOMAIN wire[d]
    BY <1>0, <1>5, <2>2, OnWires
  <2> QED BY <1>0, <2>1, <2>2, <2>3 DEF Exchanged
<1>8. msg'[d].st # "IDLE" => msg'[d].req.code \in MessageCodes /\ msg'[d].req.code \in began'[d]
  <2>1. CASE Accepted(d)
    BY <1>0, <1>2, <1>4, <2>1, MsgOfEdge
  <2>2. CASE ~Accepted(d)
    <3>1. msg'[d].st # "IDLE" => msg[d].st # "IDLE" /\ msg'[d].req = msg[d].req
      BY <1>0, <1>3, <2>2, MsgOfEdge
    <3> QED BY <1>0, <1>2, <3>1 DEF Exchanged
  <2> QED BY <2>1, <2>2
<1>9. msg'[d].received => msg'[d].st # "IDLE" /\ msg'[d].req.code \in began'[Other(d)]
  <2>1. CASE msg[d].st = "IDLE"
    <3>1. ~msg[d].received
      BY <1>0, <2>1 DEF Exchanged
    <3> QED BY <1>0, <2>1, <3>1, MsgOfEdge
  <2>2. CASE msg[d].st = "EXCHANGE"
    <3>1. /\ msg'[d].st # "IDLE" /\ msg'[d].req = msg[d].req
          /\ msg'[d].received => msg[d].received \/ Heard(d, hear).code = msg[d].req.code
      BY <1>0, <1>4, <2>2, MsgOfEdge
    <3>2. msg[d].req.code \in MessageCodes
      BY <1>0, <2>2 DEF Exchanged
    <3> QED BY <1>0, <1>2, <1>7, <3>1, <3>2 DEF Exchanged
  <2>3. CASE msg[d].st = "WAIT_ACK"
    BY <1>0, <1>2, <2>3, MsgOfEdge DEF Exchanged
  <2> QED BY <1>3, <2>1, <2>2, <2>3
<1>10. msg'[d].st = "WAIT_ACK" /\ msg'[d].ok => msg'[d].received
  <2>1. CASE msg[d].st = "IDLE"
    BY <1>0, <2>1, MsgOfEdge
  <2>2. CASE msg[d].st = "EXCHANGE"
    BY <1>0, <2>2, MsgOfEdge
  <2>3. CASE msg[d].st = "WAIT_ACK"
    BY <1>0, <2>3, MsgOfEdge DEF Exchanged
  <2> QED BY <1>3, <2>1, <2>2, <2>3
<1>11. \A i \in DOMAIN wire'[d] : wire'[d][i].code # "clock" =>
           wire'[d][i].code \in began'[Other(d)]
  <2>1. CASE hear
    <3>1. wire'[d] = Tail(wire[d])
      BY <2>1 DEF EdgeView
    <3>2. \A i \in DOMAIN Tail(wire[d]) :
              i + 1 \in DOMAIN wire[d] /\ Tail(wire[d])[i] = wire[d][i + 1]
      BY <1>0, <1>5, <2>1, OnWires
    <3> QED BY <1>0, <1>2, <3>1, <3>2 DEF Exchanged
  <2>2. CASE ~hear
    <3>1. wire'[d] = wire[d]
      BY <2>2 DEF EdgeView
    <3> QED BY <1>0, <1>2, <3>1 DEF Exchanged
  <2> QED BY <2>1, <2>2
<1>12. done'[d] \subseteq began'[Other(d)]
  <2>1. CASE Status(d) /\ msg[d].ok
    <3>1. msg[d].st = "WAIT_ACK" /\ msg[d].ok
      BY <2>1 DEF Status, Reports
    <3>2. msg[d].req.code \in began[Other(d)]
      BY <1>0, <3>1 DEF Exchanged
    <3>3. done'[d] = done[d] \cup {msg[d].req.code}
      BY <2>1 DEF EdgeView
    <3> QED BY <1>0, <1>2, <3>2, <3>3 DEF Exchanged
  <2>2. CASE ~(Status(d) /\ msg[d].ok)
    <3>1. done'[d] = done[d]
      BY <2>2 DEF EdgeView
    <3> QED BY <1>0, <1>2, <3>1 DEF Exchanged
  <2> QED BY <2>1, <2>2
<1> QED BY <1>8, <1>9, <1>10, <1>11, <1>12 DEF Exchanged, Other

\* What a word that is sent adds to the wire of the partner.
LEMMA Added ==
  ASSUME TypeOK, NEW d \in Die, NEW lock \in BOOLEAN, NEW hear \in BOOLEAN,
         NEW stale \in Rates, NEW late \in BOOLEAN, EdgeView(d, lock, hear, stale, late),
         NEW i \in DOMAIN (wire'[Other(d)])
  PROVE  \/ i \in DOMAIN wire[Other(d)] /\ wire'[Other(d)][i] = wire[Other(d)][i]
         \/ Fires(d) /\ wire'[Other(d)][i] = Sends(d)
<1> DEFINE e == Other(d)
<1>1. wire[e] \in Seq(Words)
  BY TwoDies, TypedParts
<1>2. CASE Fires(d)
  <2>1. Sends(d) \in Words
    <3>1. hear => wire[d] # <<>>
      BY DEF EdgeView
    <3> QED BY <3>1, OnWires
  <2>2. wire'[e] = Append(wire[e], Sends(d))
    BY <1>2 DEF EdgeView
  <2> QED BY <1>1, <1>2, <2>1, <2>2
<1>3. CASE ~Fires(d)
  <2>1. wire'[e] = wire[e]
    BY <1>3 DEF EdgeView
  <2> QED BY <2>1
<1> QED BY <1>2, <1>3

LEMMA ExchangedOther ==
  ASSUME Inv, NEW d \in Die, NEW lock \in BOOLEAN, NEW hear \in BOOLEAN,
         NEW stale \in Rates, NEW late \in BOOLEAN, EdgeView(d, lock, hear, stale, late)
  PROVE  Exchanged(Other(d))'
<1> DEFINE e == Other(d)
<1>1. e \in Die /\ Other(e) = d
  BY TwoDies
<1>0. TypeOK /\ Exchanged(d) /\ Exchanged(e)
  BY <1>1 DEF Inv
<1>2. /\ began[d] \subseteq began'[d] /\ began'[e] = began[e]
      /\ msg'[e] = msg[e] /\ done'[e] = done[e]
  BY DEF EdgeView
<1>3. ASSUME NEW i \in DOMAIN (wire'[e]), wire'[e][i].code # "clock"
      PROVE  wire'[e][i].code \in began[d]
  <2>1. CASE i \in DOMAIN wire[e] /\ wire'[e][i] = wire[e][i]
    BY <1>0, <1>1, <1>3, <2>1 DEF Exchanged
  <2>2. CASE Fires(d) /\ wire'[e][i] = Sends(d)
    <3>1. Sends(d) # NoWord
      BY <2>2 DEF Fires
    <3> QED BY <1>0, <1>3, <2>2, <3>1, SendsKnown
  <2> QED BY <1>0, <2>1, <2>2, Added
<1> HIDE DEF e
<1>4. Exchanged(e)'
  BY <1>0, <1>1, <1>2, <1>3 DEF Exchanged, Other
<1> QED BY <1>4 DEF e

-------------------------------------------------------------------------------
(* How far the parameter exchange is.                                       *)

\* A die in the mainband initialisation, one edge later: it is there for the
\* first time, has left it, or is one step further.
LEMMA MainbandEdge ==
  ASSUME Inv, NEW d \in Die, NEW lock \in BOOLEAN, NEW hear \in BOOLEAN,
         NEW stale \in Rates, NEW late \in BOOLEAN, EdgeView(d, lock, hear, stale, late)
  PROVE  /\ InMbInit(d)' => \/ /\ ~InMbInit(d) /\ param'[d].st = "PARAM"
                               /\ param'[d].sub = "SEND_REQ" /\ param'[d].rate = OfferedRate[d]
                            \/ InMbInit(d) /\ param'[d].st = "PARAM" /\ ParamOf(d, param'[d])
         /\ InMbInit(d) => fsm'[d].st \in {"mbInit", "linkInit"} /\ ParamOf(d, param'[d])
         /\ fsm[d].st = "linkInit" => fsm'[d].st = "linkInit"
         /\ ~InMbInit(d) /\ ~InMbInit(d)' => ParamOf(d, param'[d])
         /\ fsm'[d].st = "mbInit" /\ fsm[d].st # "mbInit" => fsm[d].st = "sbInit"
<1>1. TypeOK /\ Progressed(d)
  BY DEF Inv
<1>2. fsm'[d].st = NextState(d, lock)
  BY <1>1, FsmEdge DEF EdgeView
<1>3. param'[d] = NextParam(d, lock)
  BY DEF EdgeView
<1>4. InMbInit(d)' <=> NextState(d, lock) = "mbInit"
  BY <1>2 DEF InMbInit
<1>5. /\ InMbInit(d)' /\ ~InMbInit(d) => param'[d] = ParamReset(OfferedRate[d])
      /\ ~InMbInit(d)' \/ InMbInit(d) => ParamOf(d, param'[d])
  BY <1>1, <1>3, <1>4, ParamOfEdge
<1>6. InMbInit(d) => \/ NextState(d, lock) = "linkInit"
                     \/ /\ NextState(d, lock) = "mbInit"
                        /\ ParamState(param[d], ParamStatus(d), msg[d].ok) \notin {"IDLE", "ERR"}
  BY <1>1, FsmEdge DEF Progressed
<1>7. ASSUME InMbInit(d), InMbInit(d)' PROVE param'[d].st = "PARAM"
  <2>1. ParamOf(d, param'[d])
    BY <1>5, <1>7
  <2>2. param'[d].st = ParamState(param[d], ParamStatus(d), msg[d].ok) /\ param'[d] \in ParamRegs
    BY <2>1 DEF ParamOf, ParamMoves
  <2>3. param'[d].st \in {"PARAM", "IDLE", "ERR"}
    BY <2>2 DEF ParamRegs, ParamStates
  <2> QED BY <1>4, <1>6, <1>7, <2>2, <2>3
<1>8. fsm[d].st = "linkInit" => fsm'[d].st = "linkInit"
  BY <1>1, <1>2, FsmEdge
<1>9. fsm'[d].st = "mbInit" /\ fsm[d].st # "mbInit" => fsm[d].st = "sbInit"
  BY <1>1, <1>2, FsmEdge DEF InMbInit
<1>10. \A r : /\ ParamReset(r).st = "PARAM" /\ ParamReset(r).sub = "SEND_REQ"
              /\ ParamReset(r).rate = r
  BY DEF ParamReset
<1> QED BY <1>2, <1>5, <1>6, <1>7, <1>8, <1>9, <1>10

LEMMA ProgressedSelf ==
  ASSUME Inv, NEW d \in Die, NEW lock \in BOOLEAN, NEW hear \in BOOLEAN,
         NEW stale \in Rates, NEW late \in BOOLEAN, EdgeView(d, lock, hear, stale, late)
  PROVE  Progressed(d)'
<1> DEFINE sub == param[d].sub
           sub2 == param'[d].sub
<1>0. TypeOK /\ Progressed(d) /\ Exchanged(d)
  BY DEF Inv
<1>1. sub \in {"SEND_REQ", "WAIT_REQ", "SEND_RESP", "WAIT_RESP"}
  BY <1>0, TypedParts DEF ParamSubStates
<1>2. InMbInit(d)' => param'[d].st = "PARAM"
  BY MainbandEdge
<1>3. InMbInit(d)' => \/ sub2 = "SEND_REQ"
                      \/ /\ InMbInit(d) /\ param[d].st = "PARAM"
                         /\ \/ sub2 = sub
                            \/ sub = "SEND_REQ" /\ Accepted(d) /\ sub2 = "WAIT_REQ"
                            \/ sub = "WAIT_REQ" /\ ParamStatus(d) /\ msg[d].ok
                                 /\ sub2 = "SEND_RESP"
                            \/ sub = "SEND_RESP" /\ Accepted(d) /\ sub2 = "WAIT_RESP"
  <2>1. CASE InMbInit(d)
    <3>1. ParamMoves(param[d], param'[d], InMbInit(d) /\ Accepted(d), ParamStatus(d),
                     msg[d].ok, msg[d].data)
      BY <2>1, MainbandEdge DEF ParamOf
    <3>2. param[d].st = "PARAM"
      BY <1>0, <2>1 DEF Progressed
    <3> QED BY <2>1, <3>1, <3>2 DEF ParamMoves
  <2>2. CASE ~InMbInit(d)
    BY <2>2, MainbandEdge
  <2> QED BY <2>1, <2>2
<1>4. /\ done[d] \subseteq done'[d]
      /\ Status(d) /\ msg[d].ok => msg[d].req.code \in done'[d]
      /\ began'[d] = IF Accepted(d) THEN began[d] \cup {MsgOf(d).code} ELSE began[d]
  BY DEF EdgeView
<1>5. /\ Accepted(d) => msg'[d].req = MsgOf(d) /\ MsgValid(d)
      /\ ~Accepted(d) => msg'[d].req = msg[d].req
  BY <1>0, MsgOfEdge DEF Accepted
<1>6. InMbInit(d) /\ Accepted(d) => /\ sub \in {"SEND_REQ", "SEND_RESP"}
                                    /\ sub = "SEND_REQ" => MsgOf(d).code = "PARAM_REQ"
                                    /\ sub = "SEND_RESP" => MsgOf(d).code = "PARAM_RESP"
  <2>1. InMbInit(d) /\ MsgValid(d) => sub \in {"SEND_REQ", "SEND_RESP"}
    BY DEF InMbInit, MsgValid, InSbInit, ParamValid
  <2> QED BY <1>0, <2>1, Asked DEF Accepted
<1>7. InMbInit(d)' /\ sub2 = "WAIT_REQ" => msg'[d].req.code = "PARAM_REQ"
  BY <1>0, <1>3, <1>5, <1>6 DEF Progressed
<1>8. InMbInit(d)' /\ sub2 = "WAIT_RESP" => msg'[d].req.code = "PARAM_RESP"
  BY <1>0, <1>3, <1>5, <1>6 DEF Progressed
<1>9. InMbInit(d)' /\ sub2 \in {"SEND_RESP", "WAIT_RESP"} => "PARAM_REQ" \in done'[d]
  <2>1. InMbInit(d) /\ sub = "WAIT_REQ" /\ ParamStatus(d) /\ msg[d].ok => "PARAM_REQ" \in done'[d]
    BY <1>0, <1>4 DEF ParamStatus, Progressed
  <2> QED BY <1>0, <1>3, <1>4, <2>1 DEF Progressed
<1>10. "PARAM_RESP" \in began'[d] =>
          "PARAM_REQ" \in done'[d] /\ fsm'[d].st \in {"mbInit", "linkInit"}
  <2>1. CASE "PARAM_RESP" \in began[d]
    <3>1. "PARAM_REQ" \in done[d] /\ (InMbInit(d) \/ fsm[d].st = "linkInit")
      BY <1>0, <2>1 DEF Progressed, InMbInit
    <3> QED BY <1>4, <3>1, MainbandEdge
  <2>2. CASE Accepted(d) /\ MsgOf(d).code = "PARAM_RESP"
    <3>1. InMbInit(d) /\ sub = "SEND_RESP"
      BY <1>0, <2>2, Asked DEF Accepted
    <3> QED BY <1>0, <1>4, <3>1, MainbandEdge DEF Progressed
  <2> QED BY <1>4, <2>1, <2>2
<1>11. Trained(d)' => "PARAM_RESP" \in done'[d]
  <2> SUFFICES ASSUME param'[d].st = "IDLE" PROVE "PARAM_RESP" \in done'[d]
    BY DEF Trained
  <2>1. CASE param[d].st = "IDLE"
    BY <1>0, <1>4, <2>1 DEF Progressed, Trained
  <2>2. CASE param[d].st # "IDLE"
    <3>1. ~InMbInit(d)'
      BY <1>2
    <3>2. ParamOf(d, param'[d])
      BY <3>1, MainbandEdge
    <3>3. ParamState(param[d], ParamStatus(d), msg[d].ok) = "IDLE"
      BY <3>2 DEF ParamOf, ParamMoves
    <3>4. ParamStatus(d) /\ msg[d].ok /\ sub = "WAIT_RESP"
      BY <2>2, <3>3 DEF ParamState
    <3> QED BY <1>0, <1>4, <3>4 DEF ParamStatus, Progressed
  <2> QED BY <2>1, <2>2
<1> HIDE DEF sub, sub2
<1> QED BY <1>2, <1>7, <1>8, <1>9, <1>10, <1>11 DEF Progressed, InMbInit, sub2

LEMMA ProgressedOther ==
  ASSUME Inv, NEW d \in Die, NEW lock \in BOOLEAN, NEW hear \in BOOLEAN,
         NEW stale \in Rates, NEW late \in BOOLEAN, EdgeView(d, lock, hear, stale, late)
  PROVE  Progressed(Other(d))'
<1> DEFINE e == Other(d)
<1>1. e \in Die
  BY TwoDies
<1>2. Progressed(e)
  BY <1>1 DEF Inv
<1>3. /\ fsm'[e] = fsm[e] /\ msg'[e] = msg[e] /\ param'[e] = param[e]
      /\ began'[e] = began[e] /\ done'[e] = done[e]
  BY DEF EdgeView
<1> HIDE DEF e
<1>4. Progressed(e)'
  BY <1>2, <1>3 DEF Progressed, InMbInit, Trained
<1> QED BY <1>4 DEF e

-------------------------------------------------------------------------------
(* Which rates are known.                                                   *)
LEMMA Smaller ==
  ASSUME NEW d \in Die, NEW m, m.got = OfferedRate[Other(d)],
         m.rate \in {OfferedRate[d], MinRate(d)}
  PROVE  AgreedRate(m) = MinRate(d)
<1>1. OfferedRate[d] \in Nat /\ OfferedRate[Other(d)] \in Nat
  BY SomeRates, TwoDies
<1> QED BY <1>1 DEF AgreedRate, MinRate

\* What the wrapper reports is the rate in the request it heard.
LEMMA DataHeard ==
  ASSUME Inv, NEW d \in Die, NEW lock \in BOOLEAN, NEW hear \in BOOLEAN,
         NEW stale \in Rates, NEW late \in BOOLEAN, EdgeView(d, lock, hear, stale, late),
         ~blind'[d], msg'[d].st = "WAIT_ACK", msg'[d].ok, msg'[d].req.code = "PARAM_REQ"
  PROVE  msg'[d].data = OfferedRate[Other(d)]
<1>0. TypeOK /\ Agreed(d) /\ ~blind[d]
  BY DEF Inv, EdgeView
<1>1. msg[d].st \in {"IDLE", "EXCHANGE", "WAIT_ACK"}
  BY <1>0, TypedParts DEF ExchangeStates
<1>2. CASE msg[d].st = "IDLE"
  BY <1>0, <1>2, MsgOfEdge
<1>3. CASE msg[d].st = "EXCHANGE"
  <2>1. ~Accepted(d)
    BY <1>3 DEF Accepted
  <2>2. /\ Ending(d, hear) /\ msg[d].req.code = "PARAM_REQ"
        /\ hear => msg'[d].data = Incoming(d, hear).rate
    BY <1>0, <1>3, <2>1, MsgOfEdge
  <2>3. Incoming(d, hear).code = "PARAM_REQ"
    BY <2>2 DEF EdgeView
  <2>4. hear
    BY <2>3, SomeWords DEF Incoming
  <2>5. 1 \in DOMAIN wire[d] /\ Incoming(d, hear) = wire[d][1]
    <3>1. hear => wire[d] # <<>>
      BY DEF EdgeView
    <3> QED BY <1>0, <2>4, <3>1, OnWires
  <2> QED BY <1>0, <2>2, <2>3, <2>4, <2>5 DEF Agreed
<1>4. CASE msg[d].st = "WAIT_ACK"
  <2>1. msg'[d] = msg[d]
    BY <1>0, <1>4, MsgOfEdge
  <2> QED BY <1>0, <1>4, <2>1 DEF Agreed
<1> QED BY <1>1, <1>2, <1>3, <1>4

LEMMA AgreedSelf ==
  ASSUME Inv, NEW d \in Die, NEW lock \in BOOLEAN, NEW hear \in BOOLEAN,
         NEW stale \in Rates, NEW late \in BOOLEAN, EdgeView(d, lock, hear, stale, late)
  PROVE  Agreed(d)'
<1> DEFINE m == param[d]
           m2 == param'[d]
           own == OfferedRate[d]
           its == OfferedRate[Other(d)]
<1>0. TypeOK /\ Agreed(d) /\ Progressed(d)
  BY DEF Inv
<1>1. ~blind'[d] => ~blind[d]
  BY DEF EdgeView
<1>2. /\ InMbInit(d)' => \/ m2.sub = "SEND_REQ" /\ m2.rate = own /\ m2.st = "PARAM"
                         \/ InMbInit(d) /\ m2.st = "PARAM" /\ ParamOf(d, m2)
      /\ ~InMbInit(d)' => ParamOf(d, m2)
  BY MainbandEdge
<1>3. /\ ParamOf(d, m2) =>
           /\ m2.st = ParamState(m, ParamStatus(d), msg[d].ok)
           /\ m2.sub # m.sub =>
                \/ m.sub = "SEND_REQ" /\ m2.sub = "WAIT_REQ"
                \/ m.sub = "WAIT_REQ" /\ ParamStatus(d) /\ msg[d].ok
                     /\ m2.sub = "SEND_RESP" /\ m2.got = msg[d].data
                \/ m.sub = "SEND_RESP" /\ m2.sub = "WAIT_RESP"
           /\ m2.rate = IF m.st = "PARAM" /\ m.sub = "SEND_RESP" THEN AgreedRate(m) ELSE m.rate
           /\ m.sub # "WAIT_REQ" => m2.got = m.got
      /\ InMbInit(d) => m.st = "PARAM"
  BY <1>0 DEF ParamOf, ParamMoves, Progressed
<1>4. InMbInit(d)' /\ m2.sub \in {"SEND_REQ", "WAIT_REQ"} => m2.rate = own
  BY <1>0, <1>2, <1>3 DEF Agreed
<1>5. msg'[d].st # "IDLE" /\ msg'[d].req.code = "PARAM_REQ" => msg'[d].req.rate = own
  <2>1. CASE Accepted(d)
    <3>1. msg'[d].req = MsgOf(d) /\ MsgValid(d)
      BY <1>0, <2>1, MsgOfEdge DEF Accepted
    <3>2. MsgOf(d).code = "PARAM_REQ" =>
              InMbInit(d) /\ m.sub = "SEND_REQ" /\ MsgOf(d).rate = m.rate
      BY <1>0, <3>1, Asked
    <3> QED BY <1>0, <3>1, <3>2 DEF Agreed
  <2>2. CASE ~Accepted(d)
    <3>1. msg'[d].req = msg[d].req
      BY <1>0, <2>2, MsgOfEdge
    <3>2. msg[d].st = "IDLE" => msg'[d].st = "IDLE"
      BY <1>0, <2>2, MsgOfEdge
    <3> QED BY <1>0, <3>1, <3>2 DEF Agreed
  <2> QED BY <2>1, <2>2
<1>6. \A i \in DOMAIN wire'[d] : wire'[d][i].code = "PARAM_REQ" => wire'[d][i].rate = its
  <2>1. CASE hear
    <3>1. wire'[d] = Tail(wire[d]) /\ wire[d] # <<>>
      BY <2>1 DEF EdgeView
    <3>2. \A i \in DOMAIN Tail(wire[d]) :
              i + 1 \in DOMAIN wire[d] /\ Tail(wire[d])[i] = wire[d][i + 1]
      BY <1>0, <2>1, <3>1, OnWires
    <3> QED BY <1>0, <3>1, <3>2 DEF Agreed
  <2>2. CASE ~hear
    <3>1. wire'[d] = wire[d]
      BY <2>2 DEF EdgeView
    <3> QED BY <1>0, <3>1 DEF Agreed
  <2> QED BY <2>1, <2>2
<1>7. ~blind'[d] /\ msg'[d].st = "WAIT_ACK" /\ msg'[d].ok /\ msg'[d].req.code = "PARAM_REQ" =>
          msg'[d].data = its
  BY DataHeard
<1>8. ~blind'[d] /\ InMbInit(d) /\ m.sub = "SEND_RESP" => AgreedRate(m) = MinRate(d)
  <2>1. ~blind'[d] /\ InMbInit(d) /\ m.sub = "SEND_RESP" =>
            m.got = its /\ m.rate \in {own, MinRate(d)}
    BY <1>0, <1>1 DEF Agreed
  <2> QED BY <2>1, Smaller
<1>9. ~blind'[d] /\ InMbInit(d)' /\ m2.sub = "SEND_RESP" =>
          m2.got = its /\ m2.rate \in {own, MinRate(d)}
  <2> SUFFICES ASSUME ~blind'[d], InMbInit(d)', m2.sub = "SEND_RESP"
               PROVE  m2.got = its /\ m2.rate \in {own, MinRate(d)}
    OBVIOUS
  <2>1. InMbInit(d) /\ ParamOf(d, m2)
    BY <1>2
  <2>2. CASE m.sub = "SEND_RESP"
    <3>1. m2.got = m.got /\ m2.rate = MinRate(d)
      BY <1>3, <1>8, <2>1, <2>2
    <3> QED BY <1>0, <1>1, <2>1, <2>2, <3>1 DEF Agreed
  <2>3. CASE m.sub # "SEND_RESP"
    <3>1. m.sub = "WAIT_REQ" /\ ParamStatus(d) /\ msg[d].ok /\ m2.got = msg[d].data
            /\ m2.rate = m.rate
      BY <1>3, <2>1, <2>3
    <3>2. msg[d].st = "WAIT_ACK" /\ msg[d].req.code = "PARAM_REQ"
      BY <1>0, <2>1, <3>1 DEF ParamStatus, Status, Reports, Progressed
    <3> QED BY <1>0, <1>1, <2>1, <3>1, <3>2 DEF Agreed
  <2> QED BY <2>2, <2>3
<1>10. ~blind'[d] /\ InMbInit(d)' /\ m2.sub = "WAIT_RESP" => m2.rate = MinRate(d)
  <2> SUFFICES ASSUME ~blind'[d], InMbInit(d)', m2.sub = "WAIT_RESP"
               PROVE  m2.rate = MinRate(d)
    OBVIOUS
  <2>1. InMbInit(d) /\ ParamOf(d, m2)
    BY <1>2
  <2>2. CASE m.sub = "SEND_RESP"
    BY <1>3, <1>8, <2>1, <2>2
  <2>3. CASE m.sub # "SEND_RESP"
    <3>1. m.sub = "WAIT_RESP" /\ m2.rate = m.rate
      BY <1>3, <2>1, <2>3
    <3> QED BY <1>0, <1>1, <2>1, <3>1 DEF Agreed
  <2> QED BY <2>2, <2>3
<1>11. ~blind'[d] /\ Trained(d)' => m2.rate = MinRate(d)
  <2> SUFFICES ASSUME ~blind'[d], m2.st = "IDLE"
               PROVE  m2.rate = MinRate(d)
    BY DEF Trained
  <2>1. ParamOf(d, m2)
    BY <1>2
  <2>2. CASE m.st = "IDLE"
    <3>1. m2.rate = m.rate
      BY <1>3, <2>1, <2>2
    <3> QED BY <1>0, <1>1, <2>2, <3>1 DEF Agreed, Trained
  <2>3. CASE m.st # "IDLE"
    <3>1. ParamStatus(d) /\ m.sub = "WAIT_RESP"
      BY <1>3, <2>1, <2>3 DEF ParamState
    <3>2. InMbInit(d) /\ m2.rate = m.rate
      BY <1>3, <2>1, <3>1 DEF ParamStatus
    <3> QED BY <1>0, <1>1, <3>1, <3>2 DEF Agreed
  <2> QED BY <2>2, <2>3
<1> QED BY <1>4, <1>5, <1>6, <1>7, <1>9, <1>10, <1>11
        DEF Agreed, InMbInit, Trained, MinRate, Other

LEMMA AgreedOther ==
  ASSUME Inv, NEW d \in Die, NEW lock \in BOOLEAN, NEW hear \in BOOLEAN,
         NEW stale \in Rates, NEW late \in BOOLEAN, EdgeView(d, lock, hear, stale, late)
  PROVE  Agreed(Other(d))'
<1> DEFINE e == Other(d)
<1>1. e \in Die /\ Other(e) = d
  BY TwoDies
<1>0. TypeOK /\ Agreed(e) /\ Agreed(d) /\ Exchanged(d)
  BY <1>1 DEF Inv
<1>2. /\ fsm'[e] = fsm[e] /\ msg'[e] = msg[e] /\ param'[e] = param[e] /\ blind'[e] = blind[e]
  BY DEF EdgeView
<1>3. ASSUME NEW i \in DOMAIN (wire'[e]), wire'[e][i].code = "PARAM_REQ"
      PROVE  wire'[e][i].rate = OfferedRate[d]
  <2>1. CASE i \in DOMAIN wire[e] /\ wire'[e][i] = wire[e][i]
    BY <1>0, <1>1, <1>3, <2>1 DEF Agreed
  <2>2. CASE Fires(d) /\ wire'[e][i] = Sends(d)
    <3>1. Sends(d) # NoWord
      BY <2>2 DEF Fires
    <3>2. msg[d].st # "IDLE" /\ Sends(d) = msg[d].req
      BY <1>0, <1>3, <2>2, <3>1, SendsKnown
    <3> QED BY <1>0, <1>3, <2>2, <3>2 DEF Agreed
  <2> QED BY <1>0, <2>1, <2>2, Added
<1> HIDE DEF e
<1>4. Agreed(e)'
  BY <1>0, <1>1, <1>2, <1>3 DEF Agreed, InMbInit, Trained, MinRate, Other
<1> QED BY <1>4 DEF e

-------------------------------------------------------------------------------
(* The invariant.                                                           *)
LEMMA InitInv == Init => Inv
<1> SUFFICES ASSUME Init PROVE Inv
  OBVIOUS
<1>1. \A d \in Die : /\ msg[d].st = "IDLE" /\ ~msg[d].received
                     /\ wire[d] = <<>> /\ done[d] = {} /\ began[d] = {}
                     /\ fsm[d].st = "reset" /\ param[d].st = "PARAM"
  BY DEF Init, ExchangeIdle, ParamReset
<1>2. \A d \in Die : Exchanged(d) /\ Progressed(d) /\ Agreed(d)
  BY <1>1 DEF Exchanged, Progressed, Agreed, InMbInit, Trained
<1> QED BY <1>2, InitTyped DEF Inv

\* A lost word was the first of its wire: what is left was on the wire before.
LEMMA LoseInv ==
  ASSUME Inv, NEW d \in Die, Lose(d)
  PROVE  Inv'
<1>0. TypeOK
  BY DEF Inv
<1>1. TypeOK'
  BY <1>0, LoseTyped
<1>2. /\ UNCHANGED <<fsm, msg, param, began, done, blind>>
      /\ wire' = [wire EXCEPT ![d] = Tail(wire[d])] /\ wire[d] # <<>>
  BY DEF Lose, regs
<1>3. wire \in [Die -> Seq(Words)]
  BY <1>0 DEF TypeOK
<1>4. ASSUME NEW x \in Die, NEW i \in DOMAIN (wire'[x])
      PROVE  \E j \in DOMAIN wire[x] : wire'[x][i] = wire[x][j]
  <2>1. CASE x = d
    <3>1. wire[d] \in Seq(Words) /\ wire'[x] = Tail(wire[d])
      BY <1>2, <1>3, <2>1
    <3> QED BY <1>2, <1>4, <2>1, <3>1
  <2>2. CASE x # d
    BY <1>2, <1>3, <1>4, <2>2
  <2> QED BY <2>1, <2>2
<1>5. \A x \in Die : Exchanged(x)'
  <2> SUFFICES ASSUME NEW x \in Die PROVE Exchanged(x)'
    OBVIOUS
  <2>1. Exchanged(x)
    BY DEF Inv
  <2>2. \A i \in DOMAIN (wire'[x]) :
            wire'[x][i].code # "clock" => wire'[x][i].code \in began[Other(x)]
    BY <1>4, <2>1 DEF Exchanged
  <2> QED BY <1>2, <2>1, <2>2 DEF Exchanged, Other
<1>6. \A x \in Die : Progressed(x)'
  BY <1>2 DEF Inv, Progressed, InMbInit, Trained
<1>7. \A x \in Die : Agreed(x)'
  <2> SUFFICES ASSUME NEW x \in Die PROVE Agreed(x)'
    OBVIOUS
  <2>1. Agreed(x)
    BY DEF Inv
  <2>2. \A i \in DOMAIN (wire'[x]) :
            wire'[x][i].code = "PARAM_REQ" => wire'[x][i].rate = OfferedRate[Other(x)]
    BY <1>4, <2>1 DEF Agreed
  <2> QED BY <1>2, <2>1, <2>2 DEF Agreed, InMbInit, Trained, MinRate, Other
<1> QED BY <1>1, <1>5, <1>6, <1>7 DEF Inv

LEMMA TickInv ==
  ASSUME Inv, NEW d \in Die, Tick(d)
  PROVE  Inv'
<1>1. PICK lock \in BOOLEAN, hear \in BOOLEAN, late \in BOOLEAN, stale \in Rates :
          Edge(d, lock, hear, stale, late)
  BY DEF Tick
<1>2. TypeOK
  BY DEF Inv
<1>3. EdgeView(d, lock, hear, stale, late)
  BY <1>1, <1>2, EdgeParts
<1>4. TypeOK'
  BY <1>1, <1>2, EdgeTyped
<1>5. Exchanged(d)' /\ Progressed(d)' /\ Agreed(d)'
  BY <1>3, ExchangedSelf, ProgressedSelf, AgreedSelf
<1>6. Exchanged(Other(d))' /\ Progressed(Other(d))' /\ Agreed(Other(d))'
  BY <1>3, ExchangedOther, ProgressedOther, AgreedOther
<1>7. \A x \in Die : x = d \/ x = Other(d)
  BY TwoDies
<1>8. \A x \in Die : (Exchanged(x) /\ Progressed(x) /\ Agreed(x))'
  BY <1>5, <1>6, <1>7
<1> QED BY <1>4, <1>8 DEF Inv

LEMMA StutterInv ==
  ASSUME Inv, UNCHANGED vars
  PROVE  Inv'
<1>1. TypeOK'
  BY DEF Inv, TypeOK, vars, regs, history
<1>2. \A d \in Die : (Exchanged(d) /\ Progressed(d) /\ Agreed(d))'
  BY DEF Inv, vars, regs, history, Exchanged, Progressed, Agreed, InMbInit, Trained, MinRate, Other
<1> QED BY <1>1, <1>2 DEF Inv

LEMMA NextInv == Inv /\ [Next]_vars => Inv'
<1> SUFFICES ASSUME Inv, [Next]_vars PROVE Inv'
  OBVIOUS
<1>1. CASE \E d \in Die : Tick(d)
  BY <1>1, TickInv
<1>2. CASE \E d \in Die : Lose(d)
  BY <1>2, LoseInv
<1>3. CASE UNCHANGED vars
  BY <1>3, StutterInv
<1> QED BY <1>1, <1>2, <1>3 DEF Next

\* The registers, the words on their way and the histories have their types in
\* every behaviour, whatever the dies offer and whatever is lost or late.
THEOREM TypeCorrect == Spec => []TypeOK
<1>1. Inv => TypeOK
  BY DEF Inv
<1> QED BY <1>1, InitInv, NextInv, PTL DEF Spec

\* No exchange ends well on what is left of another one: the partner had begun
\* the same exchange (sb_msg_wrapper.cpp:67-77).
THEOREM ExchangesInStep == Spec => []InStep
<1>1. Inv => InStep
  BY DEF Inv, Exchanged, InStep
<1> QED BY <1>1, InitInv, NextInv, PTL DEF Spec

\* A die that has exchanged its parameters has a partner that knows its rate and
\* is through the sideband initialisation, though the last exchange may fail for
\* one die only (mb_init_fsm.cpp:22-29, link_training_fsm.cpp:328-333).
THEOREM DiesTrainTogether == Spec => []TrainedTogether
<1>1. Inv => TrainedTogether
  <2> SUFFICES ASSUME Inv, NEW d \in Die, Trained(d)
               PROVE  /\ "PARAM_REQ" \in done[Other(d)]
                      /\ fsm[Other(d)].st \in {"mbInit", "linkInit"}
    BY DEF TrainedTogether
  <2>1. "PARAM_RESP" \in began[Other(d)]
    BY DEF Inv, Exchanged, Progressed
  <2> QED BY <2>1, TwoDies DEF Inv, Progressed
<1> QED BY <1>1, InitInv, NextInv, PTL DEF Spec

\* Two dies that have exchanged their parameters work at the smaller of their
\* data rates, unless one read a rate that was no longer on the wires
\* (sb_msg_wrapper.cpp:98-101).
THEOREM RatesAgreed == Spec => []RatesAgree
<1>1. Inv => RatesAgree
  <2> SUFFICES ASSUME Inv, NEW d \in Die, NEW e \in Die, Trained(d), Trained(e),
                      ~blind[d], ~blind[e]
               PROVE  param[d].rate = param[e].rate /\ param[d].rate <= OfferedRate[d]
    BY DEF RatesAgree
  <2>1. param[d].rate = MinRate(d) /\ param[e].rate = MinRate(e)
    BY DEF Inv, Agreed
  <2>2. OfferedRate[d] \in Nat /\ OfferedRate[Other(d)] \in Nat
    BY SomeRates, TwoDies
  <2>3. MinRate(d) <= OfferedRate[d] /\ MinRate(Other(d)) = MinRate(d)
    <3>1. Other(Other(d)) = d
      BY TwoDies
    <3> QED BY <2>2, <3>1 DEF MinRate
  <2>4. e = d \/ e = Other(d)
    BY TwoDies
  <2> QED BY <2>1, <2>3, <2>4
<1> QED BY <1>1, InitInv, NextInv, PTL DEF Spec
===============================================================================
