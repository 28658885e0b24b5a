------------------------- MODULE LinkManagement_proofs -------------------------
(***************************************************************************)
(* Proofs about LinkManagement, for any requests of the users, faults,     *)
(* bounds, and both ways of driving the receiver and the presence of the   *)
(* PHY, without fairness.                                                  *)
(*                                                                         *)
(* The mainband stops before the PHY leaves active because of what one die *)
(* does, whatever its partner sends.  The PHY leaves active in three       *)
(* edges or more: it asks for the stall, it waits for the acknowledgement, *)
(* it goes where it was asked to.  But a request that is still there       *)
(* overrides the wait, so the proof needs that a request for linkReset     *)
(* does not last: RequestFollows.                                          *)
(*                                                                         *)
(* That a die leaves the link once per request is a matter of counting: a  *)
(* departure is paid for with a request of a user.  Paid counts, beside    *)
(* the departures, the requests nobody has answered, wherever they are,    *)
(* and the answers nobody has acted upon; no step makes the sum grow       *)
(* without a user asking.                                                  *)
(*                                                                         *)
(* That the partner's receiver is on when a die goes to active is proved   *)
(* for the first bring-up.  The ACTIVE response a die acts upon was sent   *)
(* by a partner whose receiver was on; the partner keeps it on unless it   *)
(* leaves, it leaves only after an exchange with an active die, and its    *)
(* request to leave comes after its response (InvR).                       *)
(***************************************************************************)
EXTENDS LinkManagement, ListLemmas

\* The PHY never retrains: it is asked to only when it does already.
NeverRetrain(d) ==
    /\ ctl[d].state # "retrain" /\ ctl[d].rdireq # "retrain"
    /\ rdi[d].state # "retrain" /\ rdi[d].to # "retrain"

\* What the controller asks of the PHY, and where it is itself.  A request for
\* linkReset is there for one edge: the protocol layer asks for active at once.
RequestFollows(d) ==
    /\ ctl[d].state = "active" => ctl[d].rdireq = "active"
    /\ ctl[d].rdireq = "linkReset" =>
          /\ ctl[d].state \in {"linkReset", "reset", "disabled", "linkError"}
          /\ proto[d].req = "active"
    /\ ctl[d].rdireq = "disabled" => ctl[d].state \in {"disabled", "reset", "linkError"}
    /\ ctl[d].rdireq \in ExitTargets => exit[d]["linkReset"] = ExitIdle

\* How far the stall handshake of a PHY in active is.  While it waits for the
\* acknowledgement, a request for linkReset is not there before the mainband is
\* closed.
Closing(d) ==
    /\ stall[d].rdi = "REQFALL" => stall[d].closed
    /\ rdi[d].state = "active" =>
          /\ rdi[d].stall # "ACTIVE" => rdi[d].to # "active"
          /\ rdi[d].stall = "LP_STALLACK_DEASSERT" =>
                stall[d].closed /\ stall[d].rdi # "REQSNT"
          /\ rdi[d].stall = "LP_STALLACK_WAIT" /\ stall[d].rdi = "IDLE" =>
                /\ ctl[d].rdireq # "linkReset"
                /\ ctl[d].state = "linkReset" => proto[d].req = "active"
          /\ rdi[d].stall = "LP_STALLACK_WAIT" /\ stall[d].rdi = "REQSNT" =>
                stall[d].closed \/ ctl[d].rdireq # "linkReset"

Inv == TypeOK /\ \A d \in Die : NeverRetrain(d) /\ RequestFollows(d) /\ Closing(d)

-------------------------------------------------------------------------------
(* The operators over registers keep their types.                           *)
LEMMA OtherDie ==
  \A d \in Die : /\ Other(d) \in Die /\ Other(d) # d /\ Other(Other(d)) = d
                 /\ \A x \in Die : x = d \/ x = Other(d)
<1>1. PICK a \in Die, b \in Die : a # b /\ Die = {a, b}
  BY DieAssumption
<1>2. \A x \in Die : \E y \in Die : y # x
  BY <1>1
<1>3. \A x \in Die : Other(x) \in Die /\ Other(x) # x
  BY <1>2 DEF Other
<1> QED BY <1>1, <1>3

LEMMA InitNextType ==
  ASSUME NEW state, NEW i \in InitRegs, NEW rx, NEW lp, NEW prev, NEW r, NEW pres,
         NEW rdy, NEW rcv
  PROVE  InitNext(state, i, rx, lp, prev, r, pres, rdy, rcv) \in InitRegs
<1>1. InitStep(i, r, pres) \in InitStates
  BY DEF InitStep, InitRegs, InitStates
<1> QED BY <1>1 DEF InitNext, InitRegs, InitStates

LEMMA ExitNextType ==
  ASSUME NEW to, NEW state, NEW x \in ExitRegs, NEW lp, NEW prev, NEW rdy, NEW rcv
  PROVE  ExitNext(to, state, x, lp, prev, rdy, rcv) \in ExitRegs
BY DEF ExitNext, ExitRegs, ExitIdle

LEMMA RdiNextType ==
  ASSUME NEW r \in RdiRegs, NEW req \in PhyStateReqs, NEW error, NEW ack, NEW accepted, NEW done
  PROVE  RdiNext(r, req, error, ack, accepted, done) \in RdiRegs
<1> DEFINE target == RdiTarget(r, req, error, done)
<1>1. target \in PhyStates
  BY DEF RdiTarget, RdiRegs, PhyStates, PhyStateReqs
<1> HIDE DEF target
<1>2. RdiState(r, target, ack) \in PhyStates
  BY <1>1 DEF RdiState, RdiRegs, PhyStates
<1>3. RdiSub(r, target, accepted, done) \in RdiSubStates
  BY DEF RdiSub, RdiRegs, RdiSubStates
<1>4. RdiStall(r, target, ack) \in RdiStalls
  BY DEF RdiStall, RdiRegs, RdiStalls
<1> QED BY <1>1, <1>2, <1>3, <1>4 DEF RdiNext, RdiRegs, target

LEMMA StallNextType ==
  ASSUME NEW fdi \in FdiStallStates, NEW r \in RdiStallStates, NEW a, NEW b
  PROVE  FdiStallNext(fdi, a, b) \in FdiStallStates /\ RdiStallNext(r, a, b) \in RdiStallStates
BY DEF FdiStallNext, RdiStallNext, FdiStallStates, RdiStallStates

LEMMA SomeStates ==
  /\ \A d \in Die : NextState(d) \in PhyStates \/ ctl[d].state \notin PhyStates
  /\ ExitTargets \subseteq PhyStates /\ ExitTargets \subseteq PhyStateReqs
<1>1. ASSUME NEW d \in Die, ctl[d].state \in PhyStates
      PROVE  NextState(d) \in PhyStates
  BY <1>1 DEF NextState, LeaveReset, LeaveActive, LeaveRetrain, LeaveLinkError, LeaveDisabled,
              LeaveLinkReset, PhyStates
<1> QED BY <1>1 DEF ExitTargets, PhyStates, PhyStateReqs

\* The messages a die sends.
LEMMA OfferedType == \A d : SbSnd(d) \in AdapterMessages \cup {Nop}
<1> TAKE d
<1>1. \A to \in ExitTargets : \A state, x : ExitSnd(to, state, x) \in AdapterMessages \cup {Nop}
  BY DEF ExitSnd, AdapterMessages
<1>2. \A state, i, rx : InitSnd(state, i, rx) \in AdapterMessages \cup {Nop}
  BY DEF InitSnd, AdapterMessages
<1>3. /\ Offer(d).disabled \in AdapterMessages \cup {Nop}
      /\ Offer(d).linkReset \in AdapterMessages \cup {Nop}
      /\ Offer(d).init \in AdapterMessages \cup {Nop}
  BY <1>1, <1>2 DEF Offer, ExitTargets
<1> QED BY <1>3 DEF SbSnd

LEMMA SentType ==
  ASSUME NEW d \in Die, NEW rdy \in BOOLEAN, rdy => SbSnd(d) # Nop
  PROVE  Sent(d, rdy) \in Seq(RdiMessages \cup AdapterMessages)
<1> DEFINE Messages == RdiMessages \cup AdapterMessages
<1>1. RdiMessage(d) \in Messages
  BY DEF RdiMessage, RdiMessages
<1>2. SbSnd(d) \in AdapterMessages \cup {Nop}
  BY OfferedType
<1>3. rdy => <<SbSnd(d)>> \in Seq(Messages)
  BY <1>2
<1>4. <<RdiMessage(d)>> \in Seq(Messages) /\ <<>> \in Seq(Messages)
  BY <1>1
<1>5. \A s, t \in Seq(Messages) : s \o t \in Seq(Messages)
  OBVIOUS
<1> QED BY <1>3, <1>4, <1>5 DEF Sent

\* A clock edge, register by register.
LEMMA EdgeTypes ==
  ASSUME TypeOK, NEW d \in Die, NEW rdy \in BOOLEAN, NEW take \in BOOLEAN,
         NEW ask \in ExitRequests \cup {"nop"}, Edge(d, rdy, take, ask)
  PROVE  TypeOK'
<1>1. ctl' \in [Die -> CtlRegs]
  <2>1. NextState(d) \in PhyStates
    BY SomeStates DEF TypeOK, CtlRegs
  <2>2. NextRdiReq(d) \in PhyStateReqs
    BY DEF NextRdiReq, RdiStateReq, TypeOK, CtlRegs, PhyStates, PhyStateReqs
  <2>3. NextRxReq(d) \in BOOLEAN /\ NextInband(d) \in BOOLEAN
    BY DEF NextRxReq, NextInband, RxActiveReq, InbandPres, TypeOK, CtlRegs, PhyStates
  <2>4. proto[d].req \in PhyStateReqs /\ fault[d] \in BOOLEAN
    BY DEF TypeOK
  <2>5. NextCtl(d) \in CtlRegs
    BY <2>1, <2>2, <2>3, <2>4 DEF NextCtl, CtlRegs
  <2> QED BY <2>5 DEF Edge, TypeOK
<1>2. init' \in [Die -> InitRegs]
  BY InitNextType DEF Edge, TypeOK
<1>3. exit' \in [Die -> [ExitTargets -> ExitRegs]]
  <2>1. \A to \in ExitTargets : exit[d][to] \in ExitRegs
    BY DEF TypeOK
  <2>2. exit'[d] \in [ExitTargets -> ExitRegs]
    BY <2>1, ExitNextType DEF Edge, TypeOK
  <2>3. exit' = [exit EXCEPT ![d] = exit'[d]]
    BY DEF Edge, TypeOK
  <2> QED BY <2>2, <2>3 DEF TypeOK
<1>4. stall' \in [Die -> [fdi: FdiStallStates, rdi: RdiStallStates, closed: BOOLEAN]]
  <2>1. stall[d].fdi \in FdiStallStates /\ stall[d].rdi \in RdiStallStates
    BY DEF TypeOK
  <2>2. NextStall(d) \in [fdi: FdiStallStates, rdi: RdiStallStates, closed: BOOLEAN]
    BY <2>1, StallNextType DEF NextStall, StallRegNext, MainbandStallReq, TypeOK
  <2> QED BY <2>2 DEF Edge, TypeOK
<1>5. proto' \in [Die -> [rx: BOOLEAN, req: PhyStateReqs, ack: BOOLEAN]]
  <2>1. ask \in PhyStateReqs /\ "active" \in PhyStateReqs
    BY ParametersAssumption, SomeStates DEF PhyStateReqs
  <2>2. NextRx(d) \in BOOLEAN
    BY DEF NextRx, TypeOK, CtlRegs
  <2>3. NextProto(d, ask) \in [rx: BOOLEAN, req: PhyStateReqs, ack: BOOLEAN]
    BY <2>1, <2>2 DEF NextProto, FdiStallReq
  <2> QED BY <2>3 DEF Edge, TypeOK
<1>6. rdi' \in [Die -> RdiRegs]
  <2>1. rdi[d] \in RdiRegs /\ ctl[d].rdireq \in PhyStateReqs
    BY DEF TypeOK, CtlRegs
  <2>2. NextRdi(d) \in RdiRegs
    BY <2>1, RdiNextType DEF NextRdi
  <2> QED BY <2>2 DEF Edge, TypeOK
<1>7. training' \in [Die -> {"linkInit", "active", "retrain", "linkError"}]
  BY DEF Edge, TypeOK, NextTraining
<1>8. heard' \in [Die -> SUBSET RdiMessages]
  BY DEF Edge, TypeOK
<1>9. inbox' \in [Die -> Seq(RdiMessages \cup AdapterMessages)]
  <2> DEFINE Messages == RdiMessages \cup AdapterMessages
             kept == IF take THEN Tail(inbox[d]) ELSE inbox[d]
  <2>1. Other(d) \in Die /\ Other(d) # d
    BY OtherDie
  <2>2. inbox[d] \in Seq(Messages) /\ inbox[Other(d)] \in Seq(Messages)
    BY <2>1 DEF TypeOK
  <2>3. kept \in Seq(Messages)
    <3>1. take => inbox[d] # <<>>
      BY DEF Edge
    <3> QED BY <2>2, <3>1
  <2>4. Sent(d, rdy) \in Seq(Messages)
    BY SentType DEF Edge
  <2>5. inbox[Other(d)] \o Sent(d, rdy) \in Seq(Messages)
    BY <2>2, <2>4
  <2>6. inbox' = [inbox EXCEPT ![d] = kept, ![Other(d)] = @ \o Sent(d, rdy)]
    BY DEF Edge
  <2> HIDE DEF kept, Messages
  <2>7. inbox' \in [Die -> Seq(Messages)]
    BY <2>1, <2>3, <2>5, <2>6 DEF TypeOK, Messages
  <2> QED BY <2>7 DEF Messages
<1>10. beats' \in [Die -> 0..Beats]
  BY ParametersAssumption DEF Edge, TypeOK
<1>11. asks' \in 0..MaxAsks /\ UNCHANGED <<fault, faults>>
  BY ParametersAssumption DEF Edge, TypeOK, pins
<1>12. left' \in [Die -> Nat]
  BY DEF Edge, TypeOK
<1>13. lost' \in [Die -> SUBSET AdapterMessages]
  <2> DEFINE rcv == IF take THEN Head(inbox[d]) ELSE Nop
  <2>1. lost' = [lost EXCEPT ![d] = IF rcv \in AdapterMessages /\ Deaf(d, rcv)
                                    THEN @ \cup {rcv} ELSE @]
    BY DEF Edge
  <2> HIDE DEF rcv
  <2> QED BY <2>1 DEF TypeOK
<1> QED BY <1>1, <1>2, <1>3, <1>4, <1>5, <1>6, <1>7, <1>8, <1>9, <1>10, <1>11, <1>12, <1>13
        DEF TypeOK

LEMMA InitTypes == Init => TypeOK
<1>1. /\ RdiIdle \in RdiRegs /\ InitIdle \in InitRegs /\ ExitIdle \in ExitRegs
  BY DEF RdiIdle, RdiRegs, InitIdle, InitRegs, ExitIdle, ExitRegs, PhyStates, PhyStateReqs,
         RdiSubStates, RdiStalls, InitStates
<1>2. "nop" \in PhyStateReqs /\ "reset" \in PhyStates /\ "IDLE" \in FdiStallStates
      /\ "IDLE" \in RdiStallStates
  BY DEF PhyStateReqs, PhyStates, FdiStallStates, RdiStallStates
<1>3. Beats \in 0..Beats /\ MaxAsks \in 0..MaxAsks /\ MaxFaults \in 0..MaxFaults
  BY ParametersAssumption
<1>4. <<>> \in Seq(RdiMessages \cup AdapterMessages)
  OBVIOUS
<1> QED BY <1>1, <1>2, <1>3, <1>4 DEF Init, TypeOK, CtlRegs

\* A step of either die, a fault, or none, keeps the types.
LEMMA NextTypes ==
  ASSUME TypeOK, [Next]_vars
  PROVE  TypeOK'
<1>1. ASSUME NEW d \in Die, Tick(d)
      PROVE  TypeOK'
  BY <1>1, EdgeTypes DEF Tick
<1>2. ASSUME NEW d \in Die, RaiseFault(d) \/ ClearFault(d)
      PROVE  TypeOK'
  <2>1. fault' \in [Die -> BOOLEAN] /\ faults' \in 0..MaxFaults
    <3>1. fault' \in [Die -> BOOLEAN]
      BY <1>2 DEF RaiseFault, ClearFault, TypeOK
    <3>2. faults' = faults \/ (faults > 0 /\ faults' = faults - 1)
      BY <1>2 DEF RaiseFault, ClearFault
    <3> QED BY <3>1, <3>2, ParametersAssumption DEF TypeOK
  <2>2. UNCHANGED <<regs, inbox, beats, history, asks>>
    BY <1>2 DEF RaiseFault, ClearFault
  <2> QED BY <2>1, <2>2 DEF TypeOK, regs, history
<1>3. CASE UNCHANGED vars
  BY <1>3 DEF vars, regs, pins, history, TypeOK
<1> QED BY <1>1, <1>2, <1>3 DEF Next

\* Every register keeps its type, what is on its way are messages, and the
\* bounds are kept.
THEOREM TypeCorrect == Spec => []TypeOK
BY InitTypes, NextTypes, PTL DEF Spec

-------------------------------------------------------------------------------
(* The mainband stops.                                                      *)

\* A clock edge of a die, as far as the stall handshake is concerned.
LEMMA EdgeRegs ==
  ASSUME TypeOK, NEW d \in Die, NEW rdy \in BOOLEAN, NEW take \in BOOLEAN,
         NEW ask \in ExitRequests \cup {"nop"}, Edge(d, rdy, take, ask)
  PROVE  /\ ctl'[d].state = NextState(d) /\ ctl'[d].rdireq = NextRdiReq(d)
         /\ proto'[d].req = (IF ReqActive(d) THEN "active" ELSE ask)
         /\ rdi'[d] = NextRdi(d)
         /\ stall'[d].rdi = RdiStallNext(stall[d].rdi, RdiStallReq(rdi[d]), stall[d].closed)
         /\ stall'[d].closed = StallRegNext(stall[d].closed, MainbandStallReq(stall[d].rdi),
                                            ctl[d].state)
         /\ ctl[d].state \notin WorksIn("linkReset") => exit'[d]["linkReset"] = ExitIdle
         /\ \A e \in Die : e # d =>
               ctl'[e] = ctl[e] /\ exit'[e] = exit[e] /\ stall'[e] = stall[e]
               /\ proto'[e] = proto[e] /\ rdi'[e] = rdi[e]
<1>1. ctl'[d] = NextCtl(d) /\ stall'[d] = NextStall(d)
  BY DEF Edge, TypeOK
<1>2. proto'[d] = NextProto(d, ask) /\ rdi'[d] = NextRdi(d)
  BY DEF Edge, TypeOK
<1>3. ctl[d].state \notin WorksIn("linkReset") => exit'[d]["linkReset"] = ExitIdle
  <2>1. "linkReset" \in ExitTargets
    BY DEF ExitTargets
  <2>2. PICK x, rd, rcv : exit'[d]["linkReset"] =
          ExitNext("linkReset", ctl[d].state, x, proto[d].req, ctl[d].prev, rd, rcv)
    BY <2>1 DEF Edge, TypeOK
  <2> QED BY <2>2 DEF ExitNext
<1>4. \A e \in Die : e # d =>
         ctl'[e] = ctl[e] /\ exit'[e] = exit[e] /\ stall'[e] = stall[e]
         /\ proto'[e] = proto[e] /\ rdi'[e] = rdi[e]
  BY DEF Edge, TypeOK
<1> QED BY <1>1, <1>2, <1>3, <1>4 DEF NextCtl, NextStall, NextProto

\* The types of the registers these are about.
LEMMA SomeRegs ==
  ASSUME TypeOK, NEW d \in Die
  PROVE  /\ ctl[d].state \in PhyStates /\ ctl[d].rdireq \in PhyStateReqs
         /\ rdi[d].state \in PhyStates /\ rdi[d].stall \in RdiStalls
         /\ rdi[d].to \in PhyStates
         /\ stall[d].rdi \in RdiStallStates /\ stall[d].closed \in BOOLEAN
BY DEF TypeOK, CtlRegs, RdiRegs

\* Where the PHY goes: where it was, to an error, or where the adapter asks.
LEMMA PhyTarget ==
  ASSUME NEW r, NEW req, NEW error, NEW done
  PROVE  \/ RdiTarget(r, req, error, done) = "active" /\ r.state = "reset"
         \/ RdiTarget(r, req, error, done) = req /\ req # "nop"
         \/ RdiTarget(r, req, error, done) = "linkError"
         \/ RdiTarget(r, req, error, done) = r.state
BY DEF RdiTarget

LEMMA KeepsNeverRetrain ==
  ASSUME TypeOK, NEW d \in Die, NEW rdy \in BOOLEAN, NEW take \in BOOLEAN,
         NEW ask \in ExitRequests \cup {"nop"}, Edge(d, rdy, take, ask), NeverRetrain(d)
  PROVE  NeverRetrain(d)'
<1>1. ctl'[d].state # "retrain"
  <2>1. NextState(d) # "retrain"
    BY SomeRegs DEF NextState, LeaveReset, LeaveActive, LeaveLinkError, LeaveDisabled,
         LeaveLinkReset, NeverRetrain, PhyRetrain, PhyStates
  <2> QED BY <2>1, EdgeRegs
<1>2. ctl'[d].rdireq # "retrain"
  <2>1. NextRdiReq(d) # "retrain"
    BY SomeRegs DEF NextRdiReq, RdiStateReq, NeverRetrain, PhyRetrain, PhyStates
  <2> QED BY <2>1, EdgeRegs
<1>3. rdi'[d].state # "retrain" /\ rdi'[d].to # "retrain"
  <2>1. PICK error, ack, accepted, done :
           NextRdi(d) = RdiNext(rdi[d], ctl[d].rdireq, error, ack, accepted, done)
    BY DEF NextRdi
  <2> DEFINE target == RdiTarget(rdi[d], ctl[d].rdireq, error, done)
  <2>2. target # "retrain"
    BY PhyTarget DEF NeverRetrain
  <2> HIDE DEF target
  <2>3. RdiState(rdi[d], target, ack) # "retrain"
    BY <2>2 DEF RdiState, NeverRetrain
  <2>4. NextRdi(d).state # "retrain" /\ NextRdi(d).to # "retrain"
    BY <2>1, <2>2, <2>3 DEF RdiNext, NeverRetrain, target
  <2> QED BY <2>4, EdgeRegs
<1> QED BY <1>1, <1>2, <1>3 DEF NeverRetrain

LEMMA KeepsRequestFollows ==
  ASSUME TypeOK, NEW d \in Die, NEW rdy \in BOOLEAN, NEW take \in BOOLEAN,
         NEW ask \in ExitRequests \cup {"nop"}, Edge(d, rdy, take, ask),
         NeverRetrain(d), RequestFollows(d)
  PROVE  RequestFollows(d)'
<1>1. ctl'[d].state = "active" => ctl'[d].rdireq = "active"
  <2>1. NextState(d) = "active" => NextRdiReq(d) = "active"
    BY SomeRegs DEF NextState, LeaveReset, LeaveActive, LeaveRetrain, LeaveLinkError,
         LeaveDisabled, LeaveLinkReset, NextRdiReq, RdiStateReq, ActiveEntry, RequestFollows,
         NeverRetrain, PhyRetrain, PhyStates
  <2> QED BY <2>1, EdgeRegs
<1>2. ctl'[d].rdireq = "linkReset" => ctl[d].state = "linkReset" /\ proto[d].req # "active"
  <2>1. NextRdiReq(d) = "linkReset" => ctl[d].state = "linkReset" /\ proto[d].req # "active"
    BY SomeRegs DEF NextRdiReq, RdiStateReq, RequestFollows, PhyStates
  <2> QED BY <2>1, EdgeRegs
<1>3. ctl'[d].rdireq = "disabled" => ctl[d].state = "disabled"
  <2>1. NextRdiReq(d) = "disabled" => ctl[d].state = "disabled"
    BY SomeRegs DEF NextRdiReq, RdiStateReq, RequestFollows, PhyStates
  <2> QED BY <2>1, EdgeRegs
<1>4. ctl[d].state = "linkReset" =>
         /\ ctl'[d].state \in {"linkReset", "reset", "disabled", "linkError"}
         /\ proto'[d].req = "active"
  BY EdgeRegs DEF NextState, LeaveLinkReset, ReqActive
<1>5. ctl[d].state = "disabled" => ctl'[d].state \in {"disabled", "reset", "linkError"}
  BY EdgeRegs DEF NextState, LeaveDisabled
<1>6. ctl[d].state \in ExitTargets => exit'[d]["linkReset"] = ExitIdle
  BY EdgeRegs DEF WorksIn, ExitTargets
<1> QED BY <1>1, <1>2, <1>3, <1>4, <1>5, <1>6 DEF RequestFollows, ExitTargets

\* The PHY and the two registers of the stall in one edge; target is where the
\* PHY wants to go.
PhyEdge(d, target) ==
    LET ack == stall[d].rdi = "REQFALL" IN
    /\ \/ target = "active" /\ rdi[d].state = "reset"
       \/ target = ctl[d].rdireq /\ target # "nop"
       \/ target = "linkError"
       \/ target = rdi[d].state
    /\ rdi'[d].state = RdiState(rdi[d], target, ack)
    /\ rdi'[d].stall = RdiStall(rdi[d], target, ack)
    /\ rdi'[d].to = IF RdiStallBegins(rdi[d], target) THEN target ELSE rdi[d].to
    /\ stall'[d].rdi = RdiStallNext(stall[d].rdi, rdi[d].stall = "LP_STALLACK_WAIT",
                                    stall[d].closed)
    /\ stall[d].rdi # "IDLE" => stall'[d].closed

LEMMA EdgeOfPhy ==
  ASSUME TypeOK, NEW d \in Die, NEW rdy \in BOOLEAN, NEW take \in BOOLEAN,
         NEW ask \in ExitRequests \cup {"nop"}, Edge(d, rdy, take, ask)
  PROVE  \E target : PhyEdge(d, target)
<1>1. PICK error, ack, accepted, done :
         /\ ack = RdiStallAck(stall[d].rdi)
         /\ NextRdi(d) = RdiNext(rdi[d], ctl[d].rdireq, error, ack, accepted, done)
  BY DEF NextRdi
<1> DEFINE target == RdiTarget(rdi[d], ctl[d].rdireq, error, done)
<1>2. /\ rdi'[d].state = RdiState(rdi[d], target, ack)
      /\ rdi'[d].stall = RdiStall(rdi[d], target, ack)
      /\ rdi'[d].to = IF RdiStallBegins(rdi[d], target) THEN target ELSE rdi[d].to
  BY <1>1, EdgeRegs DEF RdiNext
<1>3. \/ target = "active" /\ rdi[d].state = "reset"
      \/ target = ctl[d].rdireq /\ target # "nop"
      \/ target = "linkError"
      \/ target = rdi[d].state
  BY PhyTarget
<1> HIDE DEF target
<1>4. stall'[d].rdi = RdiStallNext(stall[d].rdi, rdi[d].stall = "LP_STALLACK_WAIT",
                                   stall[d].closed)
  BY EdgeRegs DEF RdiStallReq
<1>5. stall[d].rdi # "IDLE" => stall'[d].closed
  BY EdgeRegs DEF StallRegNext, MainbandStallReq
<1> QED BY <1>1, <1>2, <1>3, <1>4, <1>5 DEF PhyEdge, RdiStallAck

\* A request to leave active that begins a stall handshake is not followed by
\* one for linkReset, nor is one that comes while the handshake waits.
LEMMA NoNewRequest ==
  ASSUME TypeOK, NEW d \in Die, NEW rdy \in BOOLEAN, NEW take \in BOOLEAN,
         NEW ask \in ExitRequests \cup {"nop"}, Edge(d, rdy, take, ask),
         NeverRetrain(d), RequestFollows(d)
  PROVE  /\ ctl[d].rdireq \in ExitTargets =>
               /\ ctl'[d].rdireq # "linkReset"
               /\ ctl'[d].state = "linkReset" => proto'[d].req = "active"
         /\ (ctl[d].state = "linkReset" => proto[d].req = "active") =>
               ctl'[d].rdireq # "linkReset"
<1>1. ctl'[d].rdireq = "linkReset" => ctl[d].state = "linkReset" /\ proto[d].req # "active"
  <2>1. NextRdiReq(d) = "linkReset" => ctl[d].state = "linkReset" /\ proto[d].req # "active"
    BY SomeRegs DEF NextRdiReq, RdiStateReq, RequestFollows, PhyStates
  <2> QED BY <2>1, EdgeRegs
<1>2. ASSUME ctl[d].rdireq \in ExitTargets
      PROVE  ctl'[d].rdireq # "linkReset"
  BY <1>1, <1>2 DEF RequestFollows, ExitTargets
<1>3. ASSUME ctl[d].rdireq \in ExitTargets, ctl'[d].state = "linkReset"
      PROVE  proto'[d].req = "active"
  <2>1. ctl[d].state \in {"linkReset", "reset", "disabled", "linkError"}
    BY <1>3 DEF RequestFollows, ExitTargets
  <2>2. ~Entry(d, "linkReset")
    BY <1>3 DEF RequestFollows, Entry, ExitEntry, ExitIdle
  <2>3. ctl[d].state = "linkReset"
    BY <1>3, <2>1, <2>2, EdgeRegs DEF NextState, LeaveReset, LeaveLinkError, LeaveDisabled
  <2> QED BY <2>3, EdgeRegs DEF ReqActive
<1> QED BY <1>1, <1>2, <1>3

LEMMA KeepsClosing ==
  ASSUME TypeOK, NEW d \in Die, NEW rdy \in BOOLEAN, NEW take \in BOOLEAN,
         NEW ask \in ExitRequests \cup {"nop"}, Edge(d, rdy, take, ask),
         NeverRetrain(d), RequestFollows(d), Closing(d)
  PROVE  Closing(d)'
<1>1. PICK target : PhyEdge(d, target)
  BY EdgeOfPhy
<1>2. /\ rdi[d].state \in PhyStates /\ rdi[d].stall \in RdiStalls
      /\ stall[d].rdi \in RdiStallStates /\ stall[d].closed \in BOOLEAN
  BY SomeRegs
<1>3. stall'[d].rdi = "REQFALL" => stall'[d].closed
  BY <1>1, <1>2 DEF PhyEdge, RdiStallNext, RdiStallStates
<1>4. ASSUME rdi'[d].state = "active", rdi'[d].stall # "ACTIVE"
      PROVE  /\ rdi[d].state = "active"
             /\ rdi[d].stall = "ACTIVE" => RdiStallBegins(rdi[d], target)
             /\ rdi[d].stall = "LP_STALLACK_DEASSERT" => stall[d].rdi = "REQFALL"
  <2>1. rdi[d].state = "active"
    BY <1>1, <1>4 DEF PhyEdge, RdiState, RdiStall, RdiStallBegins
  <2>2. rdi[d].stall = "ACTIVE" => RdiStallBegins(rdi[d], target)
    BY <1>1, <1>4, <2>1 DEF PhyEdge, RdiStall
  <2>3. rdi[d].stall = "LP_STALLACK_DEASSERT" => stall[d].rdi = "REQFALL"
    BY <1>1, <1>4, <2>1 DEF PhyEdge, RdiState, RdiStallBegins, Closing
  <2> QED BY <2>1, <2>2, <2>3
<1>5. ASSUME RdiStallBegins(rdi[d], target)
      PROVE  target \in ExitTargets /\ ctl[d].rdireq = target
  BY <1>1, <1>5 DEF PhyEdge, RdiStallBegins, ExitTargets, NeverRetrain
<1>6. ASSUME rdi'[d].state = "active", rdi'[d].stall # "ACTIVE"
      PROVE  rdi'[d].to # "active"
  BY <1>1, <1>4, <1>5, <1>6 DEF PhyEdge, Closing, ExitTargets
<1>7. ASSUME rdi'[d].state = "active", rdi'[d].stall = "LP_STALLACK_DEASSERT"
      PROVE  stall'[d].closed /\ stall'[d].rdi # "REQSNT"
  <2>1. stall[d].rdi = "REQFALL"
    BY <1>1, <1>2, <1>4, <1>7 DEF PhyEdge, RdiStall, RdiStallBegins, RdiStalls
  <2> QED BY <1>1, <2>1 DEF PhyEdge, RdiStallNext
<1>8. ASSUME rdi'[d].state = "active", rdi'[d].stall = "LP_STALLACK_WAIT"
      PROVE  /\ stall'[d].rdi = "IDLE" =>
                   /\ ctl'[d].rdireq # "linkReset"
                   /\ ctl'[d].state = "linkReset" => proto'[d].req = "active"
             /\ stall'[d].rdi = "REQSNT" => stall'[d].closed \/ ctl'[d].rdireq # "linkReset"
  <2>1. CASE RdiStallBegins(rdi[d], target)
    BY <1>5, <2>1, NoNewRequest
  <2>2. CASE ~RdiStallBegins(rdi[d], target)
    <3>1. rdi[d].state = "active" /\ rdi[d].stall = "LP_STALLACK_WAIT" /\ stall[d].rdi # "REQFALL"
      BY <1>1, <1>2, <1>4, <1>8, <2>2 DEF PhyEdge, RdiStall, RdiStalls
    <3>2. CASE stall[d].rdi = "IDLE"
      <4>1. ctl'[d].rdireq # "linkReset"
        BY <3>1, <3>2, NoNewRequest DEF Closing
      <4>2. stall'[d].rdi = "REQSNT"
        BY <1>1, <3>1, <3>2 DEF PhyEdge, RdiStallNext
      <4> QED BY <4>1, <4>2
    <3>3. CASE stall[d].rdi = "REQSNT"
      <4>1. stall'[d].closed /\ stall'[d].rdi # "IDLE"
        BY <1>1, <3>1, <3>3 DEF PhyEdge, RdiStallNext
      <4> QED BY <4>1
    <3> QED BY <1>2, <3>1, <3>2, <3>3 DEF RdiStallStates
  <2> QED BY <2>1, <2>2
<1> QED BY <1>3, <1>6, <1>7, <1>8 DEF Closing

\* A die moves only its own registers, so each part is kept die by die.
LEMMA Invariant == Spec => []Inv
<1>1. Init => Inv
  <2>1. Init => TypeOK
    BY InitTypes
  <2>2. ASSUME Init, NEW d \in Die
        PROVE  NeverRetrain(d) /\ RequestFollows(d) /\ Closing(d)
    BY <2>2 DEF Init, NeverRetrain, RequestFollows, Closing, RdiIdle, ExitTargets
  <2> QED BY <2>1, <2>2 DEF Inv
<1>2. ASSUME Inv, [Next]_vars
      PROVE  Inv'
  <2>1. TypeOK /\ TypeOK'
    BY <1>2, NextTypes DEF Inv
  <2>2. ASSUME NEW d \in Die, Tick(d), NEW e \in Die
        PROVE  (NeverRetrain(e) /\ RequestFollows(e) /\ Closing(e))'
    <3>1. PICK rdy \in BOOLEAN, take \in BOOLEAN, ask \in ExitRequests \cup {"nop"} :
             Edge(d, rdy, take, ask)
      BY <2>2 DEF Tick
    <3>2. NeverRetrain(e) /\ RequestFollows(e) /\ Closing(e)
      BY <1>2 DEF Inv
    <3>3. CASE e = d
      BY <2>1, <3>1, <3>2, <3>3, KeepsNeverRetrain, KeepsRequestFollows, KeepsClosing
    <3>4. CASE e # d
      <4>1. ctl'[e] = ctl[e] /\ exit'[e] = exit[e] /\ stall'[e] = stall[e]
            /\ proto'[e] = proto[e] /\ rdi'[e] = rdi[e]
        BY <2>1, <3>1, <3>4, EdgeRegs
      <4> QED BY <3>2, <4>1 DEF NeverRetrain, RequestFollows, Closing
    <3> QED BY <3>3, <3>4
  <2>3. ASSUME UNCHANGED regs, NEW e \in Die
        PROVE  (NeverRetrain(e) /\ RequestFollows(e) /\ Closing(e))'
    BY <1>2, <2>3 DEF regs, Inv, NeverRetrain, RequestFollows, Closing
  <2>4. (\E d \in Die : Tick(d)) \/ UNCHANGED regs
    BY <1>2 DEF Next, RaiseFault, ClearFault, vars
  <2> QED BY <2>1, <2>2, <2>3, <2>4 DEF Inv
<1> QED BY <1>1, <1>2, PTL DEF Spec

\* The PHY leaves active only when the mainband above it has stopped, except for
\* an error and for disabled: a request for linkReset that could override the
\* wait for the acknowledgement does not come before the mainband is closed.
THEOREM MainbandStops == Spec => MainbandStopped
<1>1. ASSUME Inv, NEW d \in Die, [Next]_vars, rdi[d].state = "active",
             rdi'[d].state \in {"reset", "retrain", "linkReset"}
      PROVE  stall[d].closed
  <2>1. /\ TypeOK /\ NeverRetrain(d) /\ Closing(d)
        /\ rdi[d].stall \in RdiStalls /\ stall[d].rdi \in RdiStallStates
        /\ ctl[d].rdireq \in PhyStateReqs
    BY <1>1, SomeRegs DEF Inv
  <2>2. PICK target : PhyEdge(d, target)
    <3>1. PICK e \in Die : Tick(e)
      BY <1>1 DEF Next, RaiseFault, ClearFault, vars, regs
    <3>2. PICK rdy \in BOOLEAN, take \in BOOLEAN, ask \in ExitRequests \cup {"nop"} :
             Edge(e, rdy, take, ask)
      BY <3>1 DEF Tick
    <3>3. d # e => rdi'[d] = rdi[d]
      BY <2>1, <3>2, EdgeRegs
    <3>4. e = d
      BY <1>1, <3>3
    <3> QED BY <2>1, <3>2, <3>4, EdgeOfPhy
  <2>3. CASE rdi[d].stall = "ACTIVE"
    <3>1. ~RdiStallBegins(rdi[d], target)
      BY <1>1, <2>2 DEF PhyEdge, RdiState
    <3>2. target = rdi'[d].state
      BY <1>1, <2>2, <2>3, <3>1 DEF PhyEdge, RdiState
    <3>3. target = ctl[d].rdireq
      BY <1>1, <2>2, <3>2 DEF PhyEdge
    <3> QED BY <1>1, <2>1, <2>3, <3>1, <3>2, <3>3 DEF RdiStallBegins, PhyStateReqs
  <2>4. CASE rdi[d].stall = "LP_STALLACK_DEASSERT"
    BY <1>1, <2>1, <2>4 DEF Closing
  <2>5. CASE rdi[d].stall = "LP_STALLACK_WAIT"
    <3>1. stall[d].rdi # "REQFALL"
      BY <1>1, <2>2, <2>5 DEF PhyEdge, RdiState, RdiStallBegins
    <3>2. target = rdi'[d].state
      BY <1>1, <2>2, <2>5, <3>1 DEF PhyEdge, RdiState, RdiStallBegins
    <3>3. ctl[d].rdireq = "linkReset"
      BY <1>1, <2>1, <2>2, <3>2 DEF PhyEdge, NeverRetrain, PhyStateReqs
    <3> QED BY <1>1, <2>1, <2>5, <3>1, <3>3 DEF Closing, RdiStallStates
  <2> QED BY <2>1, <2>3, <2>4, <2>5 DEF RdiStalls
<1>2. Inv /\ [Next]_vars =>
         [\A d \in Die :
            rdi[d].state = "active" /\ rdi'[d].state \in {"reset", "retrain", "linkReset"}
               => stall[d].closed]_vars
  BY <1>1
<1> QED BY <1>2, Invariant, PTL DEF Spec, MainbandStopped
-------------------------------------------------------------------------------
(* One departure per request.                                               *)

\* A flag of an exit submodule counts only in the link states in which the
\* submodule works: in the others it is about to be cleared.
Flag(d, to, flag) == One(ctl[d].state \in WorksIn(to) /\ flag)

\* The requests of die d that are not answered yet: asked for by its user,
\* noted, on their way, or received by the partner.
Unanswered(d, to) ==
    One(proto[d].req = to)
    + Flag(d, to, exit[d][to].want /\ ~exit[d][to].reqSnt)
    + TimesIn(Req(to), inbox[Other(d)])
    + Flag(Other(d), to, exit[Other(d)][to].reqRcv /\ ~exit[Other(d)][to].rspSnt)

\* The answers that may still make die d leave: its partner's, and its own.
Answers(d, to) ==
    TimesIn(Rsp(to), inbox[d]) + Flag(d, to, exit[d][to].rspRcv) + Flag(d, to, exit[d][to].rspSnt)

MayLeave(d, to) == Unanswered(d, to) + Unanswered(Other(d), to) + Answers(d, to)

\* Every time a die has left, or may still leave, is paid for by a request of a
\* user.
Paid(d) == left[d] + MayLeave(d, "linkReset") + MayLeave(d, "disabled") <= MaxAsks - asks

-------------------------------------------------------------------------------
(* A clock edge, for one of the two exits.                                  *)
Received(d, take) == IF take THEN Head(inbox[d]) ELSE Nop
Goes(d, rdy, m) == rdy /\ SbSnd(d) = m
Leaves(d, to) == NextState(d) = to /\ ctl[d].state # to

\* What goes out is what the submodule offers, and the submodule is told so.
LEMMA PortReady ==
  ASSUME NEW d \in Die, NEW rdy \in BOOLEAN, NEW to \in ExitTargets,
         NEW m \in {Req(to), Rsp(to)}, Goes(d, rdy, m)
  PROVE  SbRdy(d, rdy)[to] /\ ExitSnd(to, ctl[d].state, exit[d][to]) = m
<1>1. /\ \A t \in ExitTargets : \A state, x : ExitSnd(t, state, x) \in {Nop, Req(t), Rsp(t)}
      /\ \A state, i, rx : InitSnd(state, i, rx) \in {Nop, AdvCap, Req("active"), Rsp("active")}
  BY DEF ExitSnd, InitSnd
<1>2. /\ Offer(d).disabled \in {Nop, Req("disabled"), Rsp("disabled")}
      /\ Offer(d).linkReset \in {Nop, Req("linkReset"), Rsp("linkReset")}
      /\ Offer(d).init \in {Nop, AdvCap, Req("active"), Rsp("active")}
  BY <1>1 DEF Offer, ExitTargets
<1>3. CASE to = "disabled"
  <2>1. m \in {Req("disabled"), Rsp("disabled")} /\ rdy /\ SbSnd(d) = m
    BY <1>3 DEF Goes
  <2>2. Offer(d).disabled = m
    BY <1>2, <2>1 DEF SbSnd, Nop, Req, Rsp, AdvCap
  <2> QED BY <1>3, <2>1, <2>2 DEF SbRdy, Offer
<1>4. CASE to = "linkReset"
  <2>1. m \in {Req("linkReset"), Rsp("linkReset")} /\ rdy /\ SbSnd(d) = m
    BY <1>4 DEF Goes
  <2>2. Offer(d).disabled = Nop /\ Offer(d).linkReset = m
    BY <1>2, <2>1 DEF SbSnd, Nop, Req, Rsp, AdvCap
  <2> QED BY <1>4, <2>1, <2>2 DEF SbRdy, Offer
<1> QED BY <1>3, <1>4 DEF ExitTargets

\* A die leaves for a state only when the handshake for it is over, and then
\* its flags do not count any more.
LEMMA LeavingEnds ==
  ASSUME TypeOK, NEW d \in Die, NEW to \in ExitTargets, Leaves(d, to)
  PROVE  Entry(d, to) /\ to \notin WorksIn(to)
<1>1. to \in {"linkReset", "disabled"}
  BY DEF ExitTargets
<1>2. Entry(d, to)
  BY <1>1, SomeRegs DEF Leaves, NextState, LeaveReset, LeaveActive, LeaveRetrain,
     LeaveLinkError, LeaveDisabled, LeaveLinkReset, PhyStates
<1> QED BY <1>1, <1>2 DEF WorksIn

\* The flags of an exit submodule after an edge.
LEMMA EdgeFlags ==
  ASSUME TypeOK, NEW d \in Die, NEW rdy \in BOOLEAN, NEW take \in BOOLEAN,
         NEW ask \in ExitRequests \cup {"nop"}, Edge(d, rdy, take, ask), NEW to \in ExitTargets
  PROVE  LET x == exit[d][to]
             y == exit'[d][to]
             works == ctl[d].state \in WorksIn(to)
             reqGoes == Goes(d, rdy, Req(to))
             rspGoes == Goes(d, rdy, Rsp(to))
         IN  /\ y.want /\ ~y.reqSnt =>
                   ~reqGoes /\ ((works /\ x.want /\ ~x.reqSnt) \/ proto[d].req = to)
             /\ reqGoes => works /\ x.want /\ ~x.reqSnt
             /\ y.reqRcv /\ ~y.rspSnt =>
                   ~rspGoes /\ ((works /\ x.reqRcv /\ ~x.rspSnt) \/ Received(d, take) = Req(to))
             /\ rspGoes => works /\ x.reqRcv /\ ~x.rspSnt
             /\ y.rspRcv => (works /\ x.rspRcv) \/ Received(d, take) = Rsp(to)
             /\ y.rspSnt => (works /\ x.rspSnt) \/ rspGoes
<1> DEFINE x == exit[d][to]
           y == exit'[d][to]
           snd == ExitSnd(to, ctl[d].state, x)
           works == ctl[d].state \in WorksIn(to)
           rcv == Received(d, take)
           goes == SbRdy(d, rdy)[to]
<1>1. y = ExitNext(to, ctl[d].state, x, proto[d].req, ctl[d].prev, goes, rcv)
  BY DEF Edge, TypeOK, Received
<1>2. x \in ExitRegs
  BY DEF TypeOK
<1>3. /\ goes = (SbRdy(d, rdy)[to])
      /\ \A m \in {Req(to), Rsp(to)} : Goes(d, rdy, m) => goes /\ snd = m
  BY PortReady
<1>4. \A m \in {Req(to), Rsp(to)} : goes /\ snd = m => Goes(d, rdy, m)
  <2>1. ASSUME NEW m \in {Req(to), Rsp(to)}, goes, snd = m
        PROVE  Goes(d, rdy, m)
    <3>1. to \in {"disabled", "linkReset"} /\ m # Nop
      BY DEF ExitTargets, Req, Rsp, Nop
    <3>2. CASE to = "disabled"
      <4>1. Offer(d).disabled = m
        BY <2>1, <3>2 DEF Offer
      <4>2. rdy
        BY <2>1, <3>2 DEF SbRdy
      <4> QED BY <3>1, <4>1, <4>2 DEF Goes, SbSnd
    <3>3. CASE to = "linkReset"
      <4>1. Offer(d).linkReset = m
        BY <2>1, <3>3 DEF Offer
      <4>2. rdy /\ Offer(d).disabled = Nop
        BY <2>1, <3>3 DEF SbRdy
      <4> QED BY <3>1, <4>1, <4>2 DEF Goes, SbSnd
    <3> QED BY <3>1, <3>2, <3>3
  <2> QED BY <2>1
<1>5. /\ Req(to) # Rsp(to) /\ Req(to) # Nop /\ Rsp(to) # Nop
  BY DEF Req, Rsp, Nop
<1>6. /\ snd = Req(to) => works /\ x.want /\ ~x.reqRcv /\ ~x.reqSnt
      /\ snd = Rsp(to) => works /\ x.reqRcv /\ ~x.rspSnt
  BY <1>5 DEF ExitSnd
<1> HIDE DEF x, y, snd, rcv, goes
<1>7. CASE ~works
  <2>1. y = ExitIdle
    BY <1>1, <1>7 DEF ExitNext
  <2>2. ~Goes(d, rdy, Req(to)) /\ ~Goes(d, rdy, Rsp(to))
    BY <1>3, <1>6, <1>7
  <2> QED BY <2>1, <2>2 DEF ExitIdle, x, y
<1>8. CASE works
  <2>1. /\ y.want => x.want \/ proto[d].req = to
        /\ y.reqRcv => x.reqRcv \/ rcv = Req(to)
        /\ y.rspRcv => x.rspRcv \/ rcv = Rsp(to)
        /\ ~y.reqSnt => ~x.reqSnt /\ ~(goes /\ snd = Req(to))
        /\ y.rspSnt <=> x.rspSnt \/ (goes /\ snd = Rsp(to))
    BY <1>1, <1>2, <1>8 DEF ExitNext, snd, ExitRegs
  <2> QED BY <1>3, <1>4, <1>6, <1>8, <2>1 DEF x, y, rcv
<1> QED BY <1>7, <1>8

\* The messages of the two exits on their way, after an edge of die d.
LEMMA EdgeMessages ==
  ASSUME TypeOK, NEW d \in Die, NEW rdy \in BOOLEAN, NEW take \in BOOLEAN,
         NEW ask \in ExitRequests \cup {"nop"}, Edge(d, rdy, take, ask),
         NEW to \in ExitTargets, NEW m \in {Req(to), Rsp(to)}
  PROVE  /\ TimesIn(m, inbox[d]) = TimesIn(m, inbox'[d]) + One(Received(d, take) = m)
         /\ TimesIn(m, inbox'[Other(d)]) = TimesIn(m, inbox[Other(d)]) + One(Goes(d, rdy, m))
         /\ TimesIn(m, inbox[d]) \in Nat /\ TimesIn(m, inbox'[d]) \in Nat
         /\ TimesIn(m, inbox[Other(d)]) \in Nat
<1> DEFINE Messages == RdiMessages \cup AdapterMessages
           e == Other(d)
           s == inbox[e]
           first == SbSnd(d)
           second == RdiMessage(d)
<1>1. e \in Die /\ e # d
  BY OtherDie
<1>2. inbox[d] \in Seq(Messages) /\ s \in Seq(Messages)
  BY <1>1 DEF TypeOK
<1>3. /\ inbox'[d] = IF take THEN Tail(inbox[d]) ELSE inbox[d]
      /\ inbox'[e] = s \o Sent(d, rdy)
      /\ take => inbox[d] # <<>>
      /\ rdy => first # Nop
  BY <1>1 DEF Edge, TypeOK
<1>4. m # Nop /\ m # second
  <2>1. to # "rdi" /\ m.of = to /\ second.of = "rdi"
    BY DEF ExitTargets, Req, Rsp, RdiMessage
  <2>2. m # Nop
    BY DEF Req, Rsp, Nop
  <2> QED BY <2>1, <2>2
<1>5. Sent(d, rdy) \in Seq(Messages)
  BY <1>3, SentType
<1>6. TimesIn(m, inbox[d]) \in Nat /\ TimesIn(m, inbox'[d]) \in Nat /\ TimesIn(m, s) \in Nat
  <2>1. inbox'[d] \in Seq(Messages)
    BY <1>2, <1>3
  <2> HIDE DEF Messages, s
  <2> QED BY <1>2, <2>1, PlacesFinite
<1>7. TimesIn(m, inbox[d]) = TimesIn(m, inbox'[d]) + One(Received(d, take) = m)
  <2>1. CASE take
    <3> HIDE DEF Messages
    <3> QED BY <1>2, <1>3, <2>1, TimesTail DEF Received
  <2>2. CASE ~take
    BY <1>3, <1>4, <1>6, <2>2 DEF Received, One
  <2> QED BY <2>1, <2>2
<1>8. TimesIn(m, inbox'[e]) = TimesIn(m, s) + One(Goes(d, rdy, m))
  <2>1. second \in Messages /\ (rdy => first \in Messages)
    <3>1. second \in RdiMessages
      BY DEF RdiMessage, RdiMessages
    <3>2. first \in AdapterMessages \cup {Nop}
      BY OfferedType
    <3> HIDE DEF first, second
    <3> QED BY <1>3, <3>1, <3>2
  <2> HIDE DEF Messages, s, first, second
  <2>2. s \o <<>> = s /\ \A x \in Messages : <<x>> \in Seq(Messages) /\ s \o <<x>> = Append(s, x)
    BY <1>2, ConcatEmptySeq, AppendIsConcat
  <2>3. CASE ~rdy /\ ~RdiAccepted(d)
    <3>1. Sent(d, rdy) = <<>>
      BY <2>3 DEF Sent
    <3> QED BY <1>3, <1>6, <2>2, <2>3, <3>1 DEF Goes, One
  <2>4. CASE rdy /\ ~RdiAccepted(d)
    <3>1. Sent(d, rdy) = <<first>>
      <4>1. <<first>> \o <<>> = <<first>>
        BY <2>1, <2>2, <2>4, ConcatEmptySeq
      <4> QED BY <2>4, <4>1 DEF Sent, first
    <3>2. inbox'[e] = Append(s, first)
      BY <1>3, <2>1, <2>2, <2>4, <3>1
    <3> QED BY <1>2, <2>1, <2>4, <3>2, TimesAppend DEF Goes, first
  <2>5. CASE ~rdy /\ RdiAccepted(d)
    <3>1. Sent(d, rdy) = <<second>>
      <4>1. <<>> \o <<second>> = <<second>>
        BY <2>1, <2>2, ConcatEmptySeq
      <4> QED BY <2>5, <4>1 DEF Sent, second
    <3>2. inbox'[e] = Append(s, second)
      BY <1>3, <2>1, <2>2, <3>1
    <3>3. TimesIn(m, Append(s, second)) = TimesIn(m, s) + One(second = m)
      BY <1>2, <2>1, TimesAppend
    <3> QED BY <1>4, <1>6, <2>5, <3>2, <3>3 DEF Goes, One
  <2>6. CASE rdy /\ RdiAccepted(d)
    <3>1. Sent(d, rdy) = <<first>> \o <<second>>
      BY <2>6 DEF Sent, first, second
    <3>2. s \o (<<first>> \o <<second>>) = (s \o <<first>>) \o <<second>>
      BY <1>2, <2>1, <2>2, <2>6, ConcatAssociative
    <3>3. Append(s, first) \in Seq(Messages)
      BY <1>2, <2>1, <2>6
    <3>4. inbox'[e] = Append(Append(s, first), second)
      BY <1>3, <2>1, <2>2, <2>6, <3>1, <3>2, <3>3, AppendIsConcat
    <3>5. TimesIn(m, Append(s, first)) = TimesIn(m, s) + One(first = m)
      BY <1>2, <2>1, <2>6, TimesAppend
    <3>6. TimesIn(m, inbox'[e]) = TimesIn(m, Append(s, first)) + One(second = m)
      <4> DEFINE r == Append(s, first)
      <4>1. r \in Seq(Messages) /\ inbox'[e] = Append(r, second)
        BY <3>3, <3>4
      <4> HIDE DEF r
      <4>2. TimesIn(m, Append(r, second)) = TimesIn(m, r) + One(second = m)
        BY <2>1, <4>1, TimesAppend
      <4> QED BY <4>1, <4>2 DEF r
    <3>7. One(second = m) = 0
      BY <1>4 DEF One
    <3>8. One(Goes(d, rdy, m)) = One(first = m)
      BY <2>6 DEF Goes, One, first
    <3>9. One(first = m) \in Nat
      BY DEF One
    <3> QED BY <1>6, <3>5, <3>6, <3>7, <3>8, <3>9
  <2> QED BY <2>3, <2>4, <2>5, <2>6
<1> QED BY <1>6, <1>7, <1>8

\* The sums after an edge of die d, for one of the two exits.
LEMMA EdgeUnanswered ==
  ASSUME TypeOK, NEW d \in Die, NEW rdy \in BOOLEAN, NEW take \in BOOLEAN,
         NEW ask \in ExitRequests \cup {"nop"}, Edge(d, rdy, take, ask), NEW to \in ExitTargets
  PROVE  /\ Unanswered(d, to) \in Nat /\ Unanswered(d, to)' \in Nat
         /\ Unanswered(Other(d), to) \in Nat /\ Unanswered(Other(d), to)' \in Nat
         /\ Unanswered(d, to)' <= Unanswered(d, to) + One(ask = to)
         /\ Unanswered(Other(d), to)' + One(Goes(d, rdy, Rsp(to))) <= Unanswered(Other(d), to)
<1> DEFINE e == Other(d)
<1>1. e \in Die /\ e # d /\ Other(e) = d
  BY OtherDie
<1>2. ctl'[e] = ctl[e] /\ exit'[e] = exit[e] /\ proto'[e] = proto[e]
  BY <1>1, EdgeRegs
<1>3. proto'[d].req = to => ask = to
  BY EdgeRegs DEF ExitTargets
<1>4. /\ TimesIn(Req(to), inbox[d]) = TimesIn(Req(to), inbox'[d]) + One(Received(d, take) = Req(to))
      /\ TimesIn(Req(to), inbox'[e]) = TimesIn(Req(to), inbox[e]) + One(Goes(d, rdy, Req(to)))
      /\ TimesIn(Req(to), inbox[d]) \in Nat /\ TimesIn(Req(to), inbox'[d]) \in Nat
      /\ TimesIn(Req(to), inbox[e]) \in Nat
  BY EdgeMessages
<1> DEFINE asked(x) == Flag(x, to, exit[x][to].want /\ ~exit[x][to].reqSnt)
           heardReq(x) == Flag(x, to, exit[x][to].reqRcv /\ ~exit[x][to].rspSnt)
<1>5. /\ asked(d) \in {0, 1} /\ asked(d)' \in {0, 1} /\ asked(e) \in {0, 1}
      /\ heardReq(d) \in {0, 1} /\ heardReq(d)' \in {0, 1} /\ heardReq(e) \in {0, 1}
  BY DEF Flag, One
<1>6. asked(d)' + One(Goes(d, rdy, Req(to))) <= asked(d) + One(proto[d].req = to)
  BY EdgeFlags DEF Flag, One
<1>7. heardReq(d)' + One(Goes(d, rdy, Rsp(to))) <= heardReq(d) + One(Received(d, take) = Req(to))
  BY EdgeFlags DEF Flag, One
<1>8. asked(e)' = asked(e) /\ heardReq(e)' = heardReq(e)
  BY <1>2 DEF Flag
<1>9. One(proto'[d].req = to) <= One(ask = to)
  BY <1>3 DEF One
<1>10. \A b : One(b) \in {0, 1}
  BY DEF One
<1>11. /\ Unanswered(d, to) = One(proto[d].req = to) + asked(d) + TimesIn(Req(to), inbox[e]) + heardReq(e)
       /\ Unanswered(d, to)' = One(proto'[d].req = to) + asked(d)' + TimesIn(Req(to), inbox'[e]) + heardReq(e)'
       /\ Unanswered(e, to) = One(proto[e].req = to) + asked(e) + TimesIn(Req(to), inbox[d]) + heardReq(d)
       /\ Unanswered(e, to)' = One(proto'[e].req = to) + asked(e)' + TimesIn(Req(to), inbox'[d]) + heardReq(d)'
  BY <1>1 DEF Unanswered
<1> HIDE DEF asked, heardReq
<1>12. /\ Unanswered(d, to)' <= Unanswered(d, to) + One(ask = to)
       /\ Unanswered(d, to) \in Nat /\ Unanswered(d, to)' \in Nat
  BY <1>4, <1>5, <1>6, <1>8, <1>9, <1>10, <1>11
<1>13. /\ Unanswered(e, to)' + One(Goes(d, rdy, Rsp(to))) <= Unanswered(e, to)
       /\ Unanswered(e, to) \in Nat /\ Unanswered(e, to)' \in Nat
  BY <1>2, <1>4, <1>5, <1>7, <1>8, <1>10, <1>11
<1> QED BY <1>12, <1>13

LEMMA EdgeAnswers ==
  ASSUME TypeOK, NEW d \in Die, NEW rdy \in BOOLEAN, NEW take \in BOOLEAN,
         NEW ask \in ExitRequests \cup {"nop"}, Edge(d, rdy, take, ask), NEW to \in ExitTargets
  PROVE  /\ Answers(d, to) \in Nat /\ Answers(d, to)' \in Nat
         /\ Answers(Other(d), to) \in Nat /\ Answers(Other(d), to)' \in Nat
         /\ Answers(d, to)' + One(Leaves(d, to)) <= Answers(d, to) + One(Goes(d, rdy, Rsp(to)))
         /\ Answers(Other(d), to)' = Answers(Other(d), to) + One(Goes(d, rdy, Rsp(to)))
<1> DEFINE e == Other(d)
<1>1. e \in Die /\ e # d
  BY OtherDie
<1>2. ctl'[e] = ctl[e] /\ exit'[e] = exit[e] /\ ctl'[d].state = NextState(d)
  BY <1>1, EdgeRegs
<1>3. /\ TimesIn(Rsp(to), inbox[d]) = TimesIn(Rsp(to), inbox'[d]) + One(Received(d, take) = Rsp(to))
      /\ TimesIn(Rsp(to), inbox'[e]) = TimesIn(Rsp(to), inbox[e]) + One(Goes(d, rdy, Rsp(to)))
      /\ TimesIn(Rsp(to), inbox[d]) \in Nat /\ TimesIn(Rsp(to), inbox'[d]) \in Nat
      /\ TimesIn(Rsp(to), inbox[e]) \in Nat
  BY EdgeMessages
<1> DEFINE heardRsp(x) == Flag(x, to, exit[x][to].rspRcv)
           gaveRsp(x) == Flag(x, to, exit[x][to].rspSnt)
<1>4. /\ heardRsp(d) \in {0, 1} /\ heardRsp(d)' \in {0, 1} /\ heardRsp(e) \in {0, 1}
      /\ gaveRsp(d) \in {0, 1} /\ gaveRsp(d)' \in {0, 1} /\ gaveRsp(e) \in {0, 1}
  BY DEF Flag, One
<1>5. /\ heardRsp(d)' <= heardRsp(d) + One(Received(d, take) = Rsp(to))
      /\ gaveRsp(d)' <= gaveRsp(d) + One(Goes(d, rdy, Rsp(to)))
  BY EdgeFlags DEF Flag, One
<1>6. Leaves(d, to) => heardRsp(d)' = 0 /\ gaveRsp(d)' = 0 /\ heardRsp(d) + gaveRsp(d) >= 1
  <2>1. ASSUME Leaves(d, to)
        PROVE  /\ ctl'[d].state \notin WorksIn(to) /\ ctl[d].state \in WorksIn(to)
               /\ exit[d][to].rspSnt \/ exit[d][to].rspRcv
    BY <1>2, <2>1, LeavingEnds DEF Leaves, Entry, ExitEntry
  <2> QED BY <2>1 DEF Flag, One
<1>7. heardRsp(e)' = heardRsp(e) /\ gaveRsp(e)' = gaveRsp(e)
  BY <1>2 DEF Flag
<1>8. \A b : One(b) \in {0, 1} /\ (~b => One(b) = 0)
  BY DEF One
<1>9. /\ Answers(d, to) = TimesIn(Rsp(to), inbox[d]) + heardRsp(d) + gaveRsp(d)
      /\ Answers(d, to)' = TimesIn(Rsp(to), inbox'[d]) + heardRsp(d)' + gaveRsp(d)'
      /\ Answers(e, to) = TimesIn(Rsp(to), inbox[e]) + heardRsp(e) + gaveRsp(e)
      /\ Answers(e, to)' = TimesIn(Rsp(to), inbox'[e]) + heardRsp(e)' + gaveRsp(e)'
  BY DEF Answers
<1> HIDE DEF heardRsp, gaveRsp
<1>10. /\ Answers(d, to) \in Nat /\ Answers(d, to)' \in Nat
       /\ Answers(d, to)' + One(Leaves(d, to)) <= Answers(d, to) + One(Goes(d, rdy, Rsp(to)))
  <2>1. CASE Leaves(d, to)
    <3>1. /\ One(Leaves(d, to)) = 1 /\ One(Goes(d, rdy, Rsp(to))) \in {0, 1}
          /\ One(Received(d, take) = Rsp(to)) \in {0, 1}
      BY <2>1 DEF One
    <3>2. /\ heardRsp(d)' = 0 /\ gaveRsp(d)' = 0 /\ heardRsp(d) + gaveRsp(d) >= 1
      BY <1>6, <2>1
    <3> HIDE DEF Leaves
    <3> QED BY <1>3, <1>4, <1>9, <3>1, <3>2
  <2>2. CASE ~Leaves(d, to)
    BY <1>3, <1>4, <1>5, <1>8, <1>9, <2>2
  <2> QED BY <2>1, <2>2
<1>11. /\ Answers(e, to)' = Answers(e, to) + One(Goes(d, rdy, Rsp(to)))
       /\ Answers(e, to) \in Nat /\ Answers(e, to)' \in Nat
  BY <1>3, <1>4, <1>7, <1>8, <1>9
<1> QED BY <1>10, <1>11

LEMMA MayLeaveType ==
  ASSUME TypeOK, NEW d \in Die, NEW to \in ExitTargets
  PROVE  MayLeave(d, to) \in Nat
<1>1. \A x \in Die : inbox[x] \in Seq(RdiMessages \cup AdapterMessages)
  BY DEF TypeOK
<1>2. \A x \in Die : \A m : TimesIn(m, inbox[x]) \in Nat
  BY <1>1, PlacesFinite
<1>3. ASSUME NEW x \in Die
      PROVE  Unanswered(x, to) \in Nat /\ Answers(x, to) \in Nat
  <2>1. /\ One(proto[x].req = to) \in Nat
        /\ Flag(x, to, exit[x][to].rspRcv) \in Nat /\ Flag(x, to, exit[x][to].rspSnt) \in Nat
    BY DEF Flag, One
  <2>2. Unanswered(x, to) \in Nat
    <3>1. /\ Flag(x, to, exit[x][to].want /\ ~exit[x][to].reqSnt) \in Nat
          /\ Flag(Other(x), to, exit[Other(x)][to].reqRcv /\ ~exit[Other(x)][to].rspSnt) \in Nat
      BY DEF Flag, One
    <3>2. TimesIn(Req(to), inbox[Other(x)]) \in Nat
      BY <1>2, OtherDie
    <3> QED BY <2>1, <3>1, <3>2 DEF Unanswered
  <2>3. Answers(x, to) \in Nat
    BY <1>2, <2>1 DEF Answers
  <2> QED BY <2>2, <2>3
<1>4. Other(d) \in Die
  BY OtherDie
<1> QED BY <1>3, <1>4 DEF MayLeave

\* A die that leaves uses up what it was due; only a user adds to it.
LEMMA EdgeMayLeave ==
  ASSUME TypeOK, NEW d \in Die, NEW rdy \in BOOLEAN, NEW take \in BOOLEAN,
         NEW ask \in ExitRequests \cup {"nop"}, Edge(d, rdy, take, ask), NEW to \in ExitTargets
  PROVE  /\ MayLeave(d, to)' + One(Leaves(d, to)) <= MayLeave(d, to) + One(ask = to)
         /\ MayLeave(Other(d), to)' <= MayLeave(Other(d), to) + One(ask = to)
         /\ MayLeave(d, to) \in Nat /\ MayLeave(d, to)' \in Nat
         /\ MayLeave(Other(d), to) \in Nat /\ MayLeave(Other(d), to)' \in Nat
<1> DEFINE e == Other(d)
<1>1. Other(e) = d
  BY OtherDie
<1>2. /\ MayLeave(d, to) = Unanswered(d, to) + Unanswered(e, to) + Answers(d, to)
      /\ MayLeave(e, to) = Unanswered(e, to) + Unanswered(d, to) + Answers(e, to)
      /\ MayLeave(d, to)' = Unanswered(d, to)' + Unanswered(e, to)' + Answers(d, to)'
      /\ MayLeave(e, to)' = Unanswered(e, to)' + Unanswered(d, to)' + Answers(e, to)'
  BY <1>1 DEF MayLeave
<1>3. \A b : One(b) \in {0, 1}
  BY DEF One
<1> QED BY <1>2, <1>3, EdgeUnanswered, EdgeAnswers

\* The answers for which a die leaves are paid for, and nothing else makes it
\* leave.
LEMMA KeepsPaid ==
  ASSUME TypeOK, NEW d \in Die, NEW rdy \in BOOLEAN, NEW take \in BOOLEAN,
         NEW ask \in ExitRequests \cup {"nop"}, Edge(d, rdy, take, ask),
         \A x \in Die : Paid(x), NEW x \in Die
  PROVE  Paid(x)'
<1> DEFINE a == One(ask = "linkReset")
           b == One(ask = "disabled")
<1>1. "linkReset" \in ExitTargets /\ "disabled" \in ExitTargets
  BY DEF ExitTargets
<1>2. /\ asks' \in Int /\ asks \in Int /\ MaxAsks \in Int
      /\ asks' = IF ask = "nop" THEN asks ELSE asks - 1
  BY ParametersAssumption DEF Edge, TypeOK
<1>3. a \in {0, 1} /\ b \in {0, 1} /\ (MaxAsks - asks) + a + b <= MaxAsks - asks'
  BY <1>2 DEF One
<1>4. left[d] \in Nat /\ left[Other(d)] \in Nat /\ Paid(d) /\ Paid(Other(d))
  BY OtherDie DEF TypeOK
<1>5. CASE x = d
  <2> DEFINE p == One(Leaves(d, "linkReset"))
             q == One(Leaves(d, "disabled"))
  <2>1. p \in {0, 1} /\ q \in {0, 1} /\ left'[d] <= left[d] + p + q /\ left'[d] \in Nat
    <3>1. left'[d] = IF NextState(d) \in ExitTargets \ {ctl[d].state} THEN left[d] + 1 ELSE left[d]
      BY DEF Edge, TypeOK
    <3>2. NextState(d) \in ExitTargets \ {ctl[d].state} =>
             Leaves(d, "linkReset") \/ Leaves(d, "disabled")
      BY DEF ExitTargets, Leaves
    <3> QED BY <1>4, <3>1, <3>2 DEF One
  <2>2. /\ MayLeave(d, "linkReset")' + p <= MayLeave(d, "linkReset") + a
        /\ MayLeave(d, "disabled")' + q <= MayLeave(d, "disabled") + b
    BY <1>1, EdgeMayLeave
  <2>3. /\ MayLeave(d, "linkReset") \in Nat /\ MayLeave(d, "linkReset")' \in Nat
        /\ MayLeave(d, "disabled") \in Nat /\ MayLeave(d, "disabled")' \in Nat
    BY <1>1, EdgeMayLeave
  <2>4. left[d] + MayLeave(d, "linkReset") + MayLeave(d, "disabled") <= MaxAsks - asks
    BY <1>4 DEF Paid
  <2> HIDE DEF a, b, p, q
  <2>5. left'[d] + MayLeave(d, "linkReset")' + MayLeave(d, "disabled")' <= MaxAsks - asks'
    BY <1>2, <1>3, <1>4, <2>1, <2>2, <2>3, <2>4
  <2> QED BY <1>5, <2>5 DEF Paid
<1>6. CASE x = Other(d)
  <2> DEFINE e == Other(d)
  <2>1. left'[e] = left[e]
    BY OtherDie DEF Edge, TypeOK
  <2>2. /\ MayLeave(e, "linkReset")' <= MayLeave(e, "linkReset") + a
        /\ MayLeave(e, "disabled")' <= MayLeave(e, "disabled") + b
    BY <1>1, EdgeMayLeave
  <2>3. /\ MayLeave(e, "linkReset") \in Nat /\ MayLeave(e, "linkReset")' \in Nat
        /\ MayLeave(e, "disabled") \in Nat /\ MayLeave(e, "disabled")' \in Nat
    BY <1>1, EdgeMayLeave
  <2>4. left[e] + MayLeave(e, "linkReset") + MayLeave(e, "disabled") <= MaxAsks - asks
    BY <1>4 DEF Paid
  <2> HIDE DEF a, b, e
  <2>5. left'[e] + MayLeave(e, "linkReset")' + MayLeave(e, "disabled")' <= MaxAsks - asks'
    BY <1>2, <1>3, <1>4, <2>1, <2>2, <2>3, <2>4 DEF e
  <2> QED BY <1>6, <2>5 DEF Paid, e
<1> QED BY <1>5, <1>6, OtherDie

\* One request of a user takes a die out of the link at most once, whatever is
\* asked for by whom and however late the messages come: a flag that makes a
\* die leave is set by a message, the message answers a request, and the flags
\* are cleared in the state the die leaves for.
THEOREM OneDeparturePerRequest == Spec => []LeftOnce
<1> DEFINE PaidInv == TypeOK /\ \A x \in Die : Paid(x)
<1>1. Init => PaidInv
  <2>1. ASSUME Init, NEW x \in Die
        PROVE  Paid(x)
    <3>1. Other(x) \in Die
      BY OtherDie
    <3>2. \A m : TimesIn(m, <<>>) = 0
      <4>1. \A m : PlacesIn(m, <<>>) = {}
        BY DEF PlacesIn
      <4> QED BY <4>1, FS_EmptySet DEF TimesIn
    <3>3. \A y \in Die, to \in ExitTargets :
             /\ inbox[y] = <<>> /\ exit[y][to] = ExitIdle /\ proto[y].req # to
             /\ Unanswered(y, to) = 0 /\ Answers(y, to) = 0
      <4>1. ASSUME NEW y \in Die, NEW to \in ExitTargets
            PROVE  inbox[y] = <<>> /\ exit[y][to] = ExitIdle /\ proto[y].req # to
        BY <2>1 DEF Init, ExitTargets
      <4>2. ASSUME NEW y \in Die, NEW to \in ExitTargets
            PROVE  Unanswered(y, to) = 0 /\ Answers(y, to) = 0
        BY <3>2, <4>1, OtherDie DEF Unanswered, Answers, Flag, One, ExitIdle
      <4> QED BY <4>1, <4>2
    <3>4. MayLeave(x, "linkReset") = 0 /\ MayLeave(x, "disabled") = 0
      BY <3>1, <3>3 DEF MayLeave, ExitTargets
    <3> QED BY <2>1, <3>4, ParametersAssumption DEF Paid, Init
  <2> QED BY <2>1, InitTypes
<1>2. ASSUME PaidInv, [Next]_vars
      PROVE  PaidInv'
  <2>1. TypeOK'
    BY <1>2, NextTypes
  <2>2. ASSUME NEW d \in Die, Tick(d), NEW x \in Die
        PROVE  Paid(x)'
    BY <1>2, <2>2, KeepsPaid DEF Tick
  <2>3. ASSUME UNCHANGED <<regs, inbox, asks, history>>, NEW x \in Die
        PROVE  Paid(x)'
    BY <1>2, <2>3 DEF regs, history, Paid, MayLeave, Unanswered, Answers, Flag
  <2>4. (\E d \in Die : Tick(d)) \/ UNCHANGED <<regs, inbox, asks, history>>
    BY <1>2 DEF Next, RaiseFault, ClearFault, vars
  <2> QED BY <2>1, <2>2, <2>3, <2>4
<1>3. PaidInv => LeftOnce
  <2>1. ASSUME PaidInv, NEW d \in Die
        PROVE  left[d] <= MaxAsks - asks
    <3>1. /\ \A to \in ExitTargets : MayLeave(d, to) \in Nat
          /\ left[d] \in Nat /\ MaxAsks - asks \in Int /\ Paid(d)
      BY <2>1, MayLeaveType, ParametersAssumption DEF TypeOK
    <3> QED BY <3>1 DEF Paid, ExitTargets
  <2> QED BY <2>1 DEF LeftOnce
<1> HIDE DEF PaidInv
<1> QED BY <1>1, <1>2, <1>3, PTL DEF Spec
-------------------------------------------------------------------------------
(* The receiver of the partner is on.                                       *)

\* No die has left the link.
NoneHasLeft == \A d \in Die : left[d] = 0

Active(d) == ctl[d].state = "active"
Within(d, st) == ctl[d].state = "reset" /\ init[d].st = st

\* The adapter of d has seen its PHY active, and exchanges capabilities, or
\* ACTIVE messages, or is done with that.
Linked(d) ==
    Active(d) \/ Within(d, "PARAM_EXCH") \/ Within(d, "FDI_BRINGUP") \/ Within(d, "INIT_DONE")
Shaking(d) == Active(d) \/ Within(d, "FDI_BRINGUP") \/ Within(d, "INIT_DONE")

\* d has sent, or received, the ACTIVE response.
Answered(d) == Active(d) \/ Within(d, "INIT_DONE") \/ (Within(d, "FDI_BRINGUP") /\ init[d].rspSnt)
Confirmed(d) == Active(d) \/ Within(d, "INIT_DONE") \/ (Within(d, "FDI_BRINGUP") /\ init[d].rspRcv)

\* d keeps its receiver on.
Wanted(d) == Active(d) \/ Within(d, "INIT_DONE") \/ (Within(d, "FDI_BRINGUP") /\ init[d].reqRcv)
Serves(d) == proto[d].rx /\ ctl[d].rxreq /\ Wanted(d)

\* The PHY stays active under an adapter that has seen it active, and nothing
\* asks for the receiver before.
PhyHolds(d) ==
    /\ ctl[d].state \in {"reset", "active", "linkError"}
    /\ ctl[d].rdireq \in {"nop", "active"}
    /\ rdi[d].state \in {"reset", "active", "linkError"} /\ rdi[d].stall = "ACTIVE"
    /\ Linked(d) => rdi[d].state = "active" /\ ctl[d].rdireq = "active"
    /\ Within(d, "INIT_START") =>
          ctl[d].rdireq = "nop" /\ (rdi[d].state = "active" => training[d] = "linkError")
    /\ Within(d, "RDI_BRINGUP") /\ rdi[d].state = "active" => ctl[d].rdireq = "active"
    /\ ctl[d].state = "linkError" => rdi[d].state # "reset"
    /\ rdi[d].state = "reset" /\ rdi[d].sub # "WAIT_LP_STATE_REQ" =>
          ctl[d].rdireq = "active" /\ Within(d, "RDI_BRINGUP")
    /\ ctl[d].inband \/ proto[d].req = "active" => Linked(d)

\* The receiver of d is on when it is wanted, unless d is leaving.
ReceiverKept(d) ==
    /\ ctl[d].rxreq => Wanted(d)
    /\ proto[d].rx => Wanted(d) /\ (ctl[d].rxreq \/ Leaving(d))

\* Who asks to leave is active, and who answers is too.
ExitsLate(d, to) ==
    /\ proto[d].req = to \/ exit[d][to].want => Active(d)
    /\ Occurs(inbox[d], Req(to)) \/ exit[d][to].reqRcv => Active(Other(d))
    /\ exit[d][to].reqRcv => Active(d) \/ Within(d, "INIT_DONE")
    /\ Occurs(inbox[d], Rsp(to)) \/ exit[d][to].rspRcv \/ exit[d][to].rspSnt =>
          Active(d) /\ Active(Other(d))

\* A request to leave comes after the ACTIVE response.
ResponseFirst(d, to) ==
    \A j \in DOMAIN inbox[d] : inbox[d][j] = Req(to) =>
        Confirmed(d) \/ \E i \in 1..(j - 1) : inbox[d][i] = Rsp("active")

\* What the ACTIVE messages to d say about its partner.
Handshake(d) ==
    LET e == Other(d)
        promised == Occurs(inbox[d], Rsp("active")) \/ Confirmed(d)
    IN  /\ Occurs(inbox[d], Req("active")) \/ (Within(d, "FDI_BRINGUP") /\ init[d].reqRcv) => Shaking(e)
        /\ Occurs(inbox[d], Rsp("active")) => Shaking(d)
        /\ promised <=> Answered(e)
        /\ promised /\ ~Active(d) => Serves(e)

InvR == \A d \in Die :
    /\ PhyHolds(d) /\ ReceiverKept(d) /\ Handshake(d)
    /\ \A to \in ExitTargets : ExitsLate(d, to) /\ ResponseFirst(d, to)

\* A die that has seen its PHY active goes through the bring-up to active and
\* stays there, as long as it does not leave the link.
Advances(d) ==
    LET i == init[d] IN
    /\ ctl'[d].state \in {"reset", "active", "linkError"}
    /\ Active(d) => Active(d)'
    /\ Within(d, "INIT_DONE") => Active(d)'
    /\ Active(d)' => Active(d) \/ Within(d, "INIT_DONE")
    /\ Within(d, "FDI_BRINGUP") =>
          IF i.rspSnt /\ i.rspRcv THEN Within(d, "INIT_DONE")' ELSE Within(d, "FDI_BRINGUP")'
    /\ Within(d, "INIT_DONE")' => Within(d, "FDI_BRINGUP") /\ i.rspSnt /\ i.rspRcv
    /\ Within(d, "PARAM_EXCH") => Within(d, "PARAM_EXCH")' \/ Within(d, "FDI_BRINGUP")'
    /\ Within(d, "FDI_BRINGUP")' => Within(d, "FDI_BRINGUP") \/ Within(d, "PARAM_EXCH")
    /\ Within(d, "PARAM_EXCH")' =>
          Within(d, "PARAM_EXCH") \/ (Within(d, "RDI_BRINGUP") /\ rdi[d].state = "active")
    /\ Within(d, "RDI_BRINGUP") /\ ~PhyError(d) =>
          IF rdi[d].state = "active" THEN Within(d, "PARAM_EXCH")' ELSE Within(d, "RDI_BRINGUP")'
    /\ Within(d, "RDI_BRINGUP")' =>
          Within(d, "INIT_START") \/ (Within(d, "RDI_BRINGUP") /\ rdi[d].state # "active")
    /\ Within(d, "INIT_START")' =>
          Within(d, "INIT_START") \/ (ctl[d].state = "linkError" /\ PhyError(d))
    /\ ctl'[d].state = "linkError" => PhyError(d) \/ ctl[d].state = "linkError"

LEMMA EdgeAdvances ==
  ASSUME TypeOK, NEW d \in Die, NEW rdy \in BOOLEAN, NEW take \in BOOLEAN,
         NEW ask \in ExitRequests \cup {"nop"}, Edge(d, rdy, take, ask),
         NeverRetrain(d), PhyHolds(d), left[d] = 0, left'[d] = 0
  PROVE  Advances(d)
<1> DEFINE i == init[d]
           st == ctl[d].state
           next == NextState(d)
<1>1. st \in {"reset", "active", "linkError"} /\ i \in InitRegs /\ i.st \in InitStates
  BY DEF TypeOK, PhyHolds, InitRegs
<1>2. ctl'[d].state = next
  BY EdgeRegs
<1>3. next \notin ExitTargets
  <2>1. left'[d] = IF NextState(d) \in ExitTargets \ {ctl[d].state} THEN left[d] + 1 ELSE left[d]
    BY DEF Edge, TypeOK
  <2> QED BY <1>1, <2>1 DEF ExitTargets
<1>4. init'[d].st = IF st = "reset" THEN InitStep(i, rdi[d].state, PhyPresent \/ training[d] = "active")
                    ELSE "INIT_START"
  <2>1. PICK rd, rcv : init'[d] = InitNext(st, i, proto[d].rx, proto[d].req, ctl[d].prev,
                                           rdi[d].state, PhyPresent \/ training[d] = "active", rd, rcv)
    BY DEF Edge, TypeOK
  <2> QED BY <1>1, <2>1 DEF InitNext, InitRegs
<1>5. Linked(d) => ~PhyError(d)
  BY DEF PhyHolds, PhyError
<1>6. st = "active" => next = "active"
  BY <1>1, <1>3, <1>5 DEF NextState, LeaveActive, Linked, Active, PhyRetrain, NeverRetrain, ExitTargets
<1>7. st = "reset" => next = IF PhyError(d) THEN "linkError"
                             ELSE IF i.st = "INIT_DONE" THEN "active" ELSE "reset"
  BY <1>1, <1>3 DEF NextState, LeaveReset, ActiveEntry, ExitTargets
<1>8. st = "linkError" => next = "linkError" \/ (next = "reset" /\ PhyError(d))
  <2>1. st = "linkError" => proto[d].req # "active"
    BY DEF PhyHolds, Linked, Active, Within
  <2> QED BY <1>1, <2>1 DEF NextState, LeaveLinkError
<1> HIDE DEF next
<1> QED BY <1>1, <1>2, <1>4, <1>5, <1>6, <1>7, <1>8 DEF Advances, Active, Within, Linked, InitStep, InitStates

\* The PHY of such a die: it goes to active and stays, or to an error.
LEMMA EdgePhy ==
  ASSUME TypeOK, NEW d \in Die, NEW rdy \in BOOLEAN, NEW take \in BOOLEAN,
         NEW ask \in ExitRequests \cup {"nop"}, Edge(d, rdy, take, ask),
         NeverRetrain(d), PhyHolds(d)
  PROVE  LET r == rdi[d]
             s == rdi'[d]
             req == ctl[d].rdireq
         IN  /\ s.state \in {"reset", "active", "linkError"} /\ s.stall = "ACTIVE"
             /\ r.state = "active" => s.state \in {"active", "linkError"}
             /\ r.state = "active" /\ req = "active" => s.state = "active"
             /\ r.state = "active" /\ req = "nop" /\ training[d] = "linkError" =>
                   s.state = "linkError"
             /\ r.state = "linkError" => s.state \in {"active", "linkError"}
             /\ r.state = "linkError" /\ req = "nop" => s.state = "linkError"
             /\ r.state = "reset" /\ s.state = "active" => r.sub # "WAIT_LP_STATE_REQ"
             /\ s.state = "reset" => r.state = "reset"
             /\ s.state = "reset" /\ s.sub # "WAIT_LP_STATE_REQ" =>
                   r.sub # "WAIT_LP_STATE_REQ" \/ req = "active"
<1> DEFINE r == rdi[d]
           s == rdi'[d]
           req == ctl[d].rdireq
<1>0. PICK error, ack, accepted, done :
         /\ NextRdi(d) = RdiNext(r, req, error, ack, accepted, done)
         /\ training[d] = "linkError" => error
  BY DEF NextRdi
<1> DEFINE target == RdiTarget(r, req, error, done)
<1>1. s.state = RdiState(r, target, ack) /\ s.stall = RdiStall(r, target, ack)
  BY <1>0, EdgeRegs DEF RdiNext
<1>2. s.sub = RdiSub(r, target, accepted, done)
  BY <1>0, EdgeRegs DEF RdiNext
<1>3. /\ r.state \in {"reset", "active", "linkError"} /\ r.stall = "ACTIVE"
      /\ req \in {"nop", "active"}
  BY DEF PhyHolds
<1>4. /\ target \in {"active", "linkError", r.state}
      /\ r.state # "reset" /\ req = "active" => target = "active"
      /\ r.state # "reset" /\ req = "nop" /\ error => target = "linkError"
      /\ r.state = "linkError" /\ req = "nop" => target = "linkError"
      /\ r.state = "reset" /\ target = "active" =>
            r.sub # "WAIT_LP_STATE_REQ" \/ req = "active"
  BY <1>3 DEF RdiTarget
<1> HIDE DEF target
<1>5. /\ s.state = IF r.state = "reset" /\ r.sub = "WAIT_LP_STATE_REQ" /\ target = "active"
                   THEN "reset" ELSE target
      /\ s.stall = "ACTIVE"
  <2>1. ~RdiStallBegins(r, target)
    BY <1>3, <1>4 DEF RdiStallBegins
  <2> QED BY <1>1, <1>3, <2>1 DEF RdiState, RdiStall
<1>6. r.state = "reset" /\ s.sub # "WAIT_LP_STATE_REQ" =>
         r.sub # "WAIT_LP_STATE_REQ" \/ target = "active"
  BY <1>2 DEF RdiSub
<1> QED BY <1>0, <1>3, <1>4, <1>5, <1>6

LEMMA KeepsPhyHolds ==
  ASSUME TypeOK, NEW d \in Die, NEW rdy \in BOOLEAN, NEW take \in BOOLEAN,
         NEW ask \in ExitRequests \cup {"nop"}, Edge(d, rdy, take, ask),
         NeverRetrain(d), PhyHolds(d), Advances(d)
  PROVE  PhyHolds(d)'
<1> DEFINE st == ctl[d].state
           i == init[d]
           r == rdi[d]
           s == rdi'[d]
<1>1. /\ st \in {"reset", "active", "linkError"} /\ r.state \in {"reset", "active", "linkError"}
      /\ ctl[d].rdireq \in {"nop", "active"} /\ i.st \in InitStates
  BY DEF PhyHolds, TypeOK, InitRegs
<1>2. /\ st = "reset" => ctl'[d].rdireq = IF i.st # "INIT_START" THEN "active" ELSE "nop"
      /\ st = "active" => ctl'[d].rdireq = ctl[d].rdireq
      /\ st = "linkError" => ctl'[d].rdireq = "nop"
  <2>1. st = "linkError" => proto[d].req # "active"
    BY DEF PhyHolds, Linked, Active, Within
  <2> QED BY <1>1, <2>1, EdgeRegs DEF NextRdiReq, RdiStateReq, PhyRetrain, NeverRetrain
<1>3. training'[d] = IF r.state \in {"active", "linkError"} THEN r.state ELSE training[d]
  BY <1>1 DEF Edge, TypeOK, NextTraining
<1>4. Linked(d)' => /\ Linked(d) \/ (Within(d, "RDI_BRINGUP") /\ r.state = "active")
                    /\ r.state = "active" /\ ctl[d].rdireq = "active"
                    /\ s.state = "active" /\ ctl'[d].rdireq = "active"
  <2>1. Linked(d)' => Linked(d) \/ (Within(d, "RDI_BRINGUP") /\ r.state = "active")
    BY DEF Linked, Advances
  <2>2. Linked(d) \/ (Within(d, "RDI_BRINGUP") /\ r.state = "active") =>
           r.state = "active" /\ ctl[d].rdireq = "active"
    BY DEF PhyHolds
  <2>3. Linked(d) \/ Within(d, "RDI_BRINGUP") =>
           st = "active" \/ (st = "reset" /\ i.st # "INIT_START")
    BY DEF Linked, Active, Within
  <2> QED BY <1>2, <2>1, <2>2, <2>3, EdgePhy
<1>5. Within(d, "INIT_START")' =>
         /\ ctl'[d].rdireq = "nop"
         /\ s.state = "active" => training'[d] = "linkError"
  <2>1. CASE Within(d, "INIT_START")
    BY <1>1, <1>2, <2>1, EdgePhy DEF Within, PhyHolds
  <2>2. CASE st = "linkError" /\ PhyError(d)
    BY <1>2, <1>3, <2>2 DEF PhyError
  <2> QED BY <2>1, <2>2 DEF Advances
<1>6. Within(d, "RDI_BRINGUP")' /\ s.state = "active" => ctl'[d].rdireq = "active"
  <2>1. CASE Within(d, "INIT_START")
    <3>1. ctl[d].rdireq = "nop" /\ (r.state = "active" => training[d] = "linkError")
      BY <2>1 DEF PhyHolds
    <3>2. r.state = "reset" => r.sub = "WAIT_LP_STATE_REQ"
      BY <2>1 DEF PhyHolds, Within
    <3> QED BY <1>1, <3>1, <3>2, EdgePhy
  <2>2. CASE Within(d, "RDI_BRINGUP")
    BY <1>2, <2>2 DEF Within
  <2> QED BY <2>1, <2>2 DEF Advances
<1>7. ctl'[d].state = "linkError" => s.state # "reset"
  BY EdgePhy DEF Advances, PhyError, PhyHolds
<1>8. s.state = "reset" /\ s.sub # "WAIT_LP_STATE_REQ" =>
         ctl'[d].rdireq = "active" /\ Within(d, "RDI_BRINGUP")'
  <2>1. ASSUME s.state = "reset", s.sub # "WAIT_LP_STATE_REQ"
        PROVE  ctl'[d].rdireq = "active" /\ Within(d, "RDI_BRINGUP")'
    <3>1. r.state = "reset" /\ (r.sub # "WAIT_LP_STATE_REQ" \/ ctl[d].rdireq = "active")
      BY <2>1, EdgePhy
    <3>2. ctl[d].rdireq = "active" /\ st = "reset" /\ ~Linked(d)
      BY <1>1, <3>1 DEF PhyHolds, Within, Linked, Active
    <3>3. Within(d, "RDI_BRINGUP")
      BY <1>1, <3>1, <3>2 DEF PhyHolds, Within, Linked, InitStates
    <3> QED BY <1>2, <3>1, <3>3 DEF Advances, PhyError, Within
  <2> QED BY <2>1
<1>9. ctl'[d].inband \/ proto'[d].req = "active" => Linked(d)'
  <2>1. ctl'[d].inband => Linked(d)
    <3>1. ctl'[d].inband = NextInband(d)
      BY DEF Edge, TypeOK, NextCtl
    <3> QED BY <1>1, <3>1 DEF NextInband, InbandPres, Linked, Active, Within
  <2>2. proto'[d].req = "active" => Linked(d)
    <3>1. ask # "active"
      BY ParametersAssumption DEF ExitTargets
    <3> QED BY <1>1, <3>1, EdgeRegs DEF ReqActive, PhyHolds
  <2>3. Linked(d) => Linked(d)'
    BY DEF Linked, Advances
  <2> QED BY <2>1, <2>2, <2>3
<1>10. /\ ctl'[d].state \in {"reset", "active", "linkError"}
       /\ ctl'[d].rdireq \in {"nop", "active"}
       /\ s.state \in {"reset", "active", "linkError"} /\ s.stall = "ACTIVE"
  BY <1>1, <1>2, EdgePhy DEF Advances
<1> QED BY <1>4, <1>5, <1>6, <1>7, <1>8, <1>9, <1>10 DEF PhyHolds

\* The flags of the ACTIVE handshake after an edge.
LEMMA HandshakeFlags ==
  ASSUME TypeOK, NEW d \in Die, NEW rdy \in BOOLEAN, NEW take \in BOOLEAN,
         NEW ask \in ExitRequests \cup {"nop"}, Edge(d, rdy, take, ask)
  PROVE  LET i == init[d]
             j == init'[d]
             fdi == Within(d, "FDI_BRINGUP")
         IN  /\ Goes(d, rdy, Req("active")) => fdi
             /\ Goes(d, rdy, Rsp("active")) => fdi /\ i.reqRcv /\ proto[d].rx
             /\ fdi => /\ j.reqRcv <=> i.reqRcv \/ Received(d, take) = Req("active")
                       /\ j.rspRcv <=> i.rspRcv \/ Received(d, take) = Rsp("active")
                       /\ j.rspSnt <=> i.rspSnt \/ Goes(d, rdy, Rsp("active"))
             /\ ctl[d].state = "reset" /\ ~fdi => ~j.reqRcv /\ ~j.rspRcv /\ ~j.rspSnt
<1> DEFINE i == init[d]
           j == init'[d]
           fdi == Within(d, "FDI_BRINGUP")
           snd == InitSnd(ctl[d].state, i, proto[d].rx)
           goes == SbRdy(d, rdy).init
           rcv == Received(d, take)
<1>1. PICK pres : j = InitNext(ctl[d].state, i, proto[d].rx, proto[d].req, ctl[d].prev,
                               rdi[d].state, pres, goes, rcv)
  BY DEF Edge, TypeOK, Received
<1>2. /\ Req("active") # Nop /\ Rsp("active") # Nop /\ Req("active") # Rsp("active")
      /\ AdvCap # Req("active") /\ AdvCap # Rsp("active")
  BY DEF Req, Rsp, Nop, AdvCap
<1>3. /\ snd = Req("active") => fdi
      /\ snd = Rsp("active") => fdi /\ i.reqRcv /\ proto[d].rx
  BY <1>2 DEF InitSnd, Within
<1>4. \A m \in {Req("active"), Rsp("active")} : Goes(d, rdy, m) <=> goes /\ snd = m
  <2>1. \A t \in ExitTargets : \A state, x : ExitSnd(t, state, x) \in {Nop, Req(t), Rsp(t)}
    BY DEF ExitSnd
  <2>2. /\ Offer(d).disabled \in {Nop, Req("disabled"), Rsp("disabled")}
        /\ Offer(d).linkReset \in {Nop, Req("linkReset"), Rsp("linkReset")}
        /\ Offer(d).init = snd
    BY <2>1 DEF Offer, ExitTargets
  <2>3. goes <=> rdy /\ Offer(d).disabled = Nop /\ Offer(d).linkReset = Nop
    BY DEF SbRdy
  <2>4. ASSUME NEW m \in {Req("active"), Rsp("active")}
        PROVE  Goes(d, rdy, m) <=> goes /\ snd = m
    <3>1. m \notin {Nop, Req("disabled"), Rsp("disabled"), Req("linkReset"), Rsp("linkReset")}
      BY DEF Req, Rsp, Nop
    <3> HIDE DEF goes, snd
    <3> QED BY <2>2, <2>3, <3>1 DEF Goes, SbSnd
  <2> QED BY <2>4
<1>5. i \in InitRegs
  BY DEF TypeOK
<1> HIDE DEF snd, goes, rcv
<1>6. ctl[d].state = "reset" =>
         /\ j.reqRcv = (i.st = "FDI_BRINGUP" /\ (i.reqRcv \/ rcv = Req("active")))
         /\ j.rspRcv = (i.st = "FDI_BRINGUP" /\ (i.rspRcv \/ rcv = Rsp("active")))
         /\ j.rspSnt = (i.st = "FDI_BRINGUP" /\ (i.rspSnt \/ (goes /\ snd = Rsp("active"))))
  BY <1>1 DEF InitNext, snd
<1>7. fdi <=> ctl[d].state = "reset" /\ i.st = "FDI_BRINGUP"
  BY DEF Within
<1> HIDE DEF fdi, i, j
<1> QED BY <1>3, <1>4, <1>6, <1>7, Zenon DEF rcv, fdi, i, j

\* The messages under way after an edge of die d.
LEMMA EdgeInbox ==
  ASSUME TypeOK, NEW d \in Die, NEW rdy \in BOOLEAN, NEW take \in BOOLEAN,
         NEW ask \in ExitRequests \cup {"nop"}, Edge(d, rdy, take, ask)
  PROVE  LET k == IF take THEN 1 ELSE 0
             e == Other(d)
         IN  /\ Len(inbox[d]) \in Nat /\ Len(inbox[e]) \in Nat
             /\ DOMAIN inbox[d] = 1..Len(inbox[d]) /\ DOMAIN inbox[e] = 1..Len(inbox[e])
             /\ \A j \in DOMAIN inbox'[d] :
                   j \in Nat \ {0} /\ j + k \in DOMAIN inbox[d] /\ inbox'[d][j] = inbox[d][j + k]
             /\ \A j \in DOMAIN inbox[d] :
                   j > k => j - k \in DOMAIN inbox'[d] /\ inbox'[d][j - k] = inbox[d][j]
             /\ take => 1 \in DOMAIN inbox[d] /\ Received(d, take) = inbox[d][1]
             /\ ~take => Received(d, take) = Nop
             /\ \A j \in DOMAIN inbox[e] : j \in DOMAIN inbox'[e] /\ inbox'[e][j] = inbox[e][j]
             /\ \A j \in DOMAIN inbox'[e] \ DOMAIN inbox[e] :
                   /\ j \in Nat /\ j > Len(inbox[e])
                   /\ inbox'[e][j] = RdiMessage(d) \/ Goes(d, rdy, inbox'[e][j])
             /\ \A m : Goes(d, rdy, m) => Occurs(inbox'[e], m)
<1> DEFINE Messages == RdiMessages \cup AdapterMessages
           e == Other(d)
           s == inbox[e]
           t == Sent(d, rdy)
           k == IF take THEN 1 ELSE 0
           in == inbox[d]
<1>1. e \in Die /\ e # d
  BY OtherDie
<1>2. in \in Seq(Messages) /\ s \in Seq(Messages)
  BY <1>1 DEF TypeOK
<1>3. /\ inbox'[d] = IF take THEN Tail(in) ELSE in
      /\ inbox'[e] = s \o t
      /\ take => in # <<>>
  BY <1>1 DEF Edge, TypeOK
<1>4. t \in Seq(Messages)
  BY SentType DEF Edge
<1>5. /\ \A j \in DOMAIN t : t[j] = RdiMessage(d) \/ Goes(d, rdy, t[j])
      /\ \A m : Goes(d, rdy, m) => \E j \in DOMAIN t : t[j] = m
  <2> DEFINE first == SbSnd(d)
             second == RdiMessage(d)
  <2>1. t = (IF rdy THEN <<first>> ELSE <<>>) \o (IF RdiAccepted(d) THEN <<second>> ELSE <<>>)
    BY DEF Sent
  <2> HIDE DEF first, second
  <2>2. /\ \A j \in DOMAIN t : t[j] = second \/ (rdy /\ t[j] = first)
        /\ rdy => 1 \in DOMAIN t /\ t[1] = first
    <3>1. CASE rdy /\ RdiAccepted(d)
      BY <2>1, <3>1
    <3>2. CASE rdy /\ ~RdiAccepted(d)
      BY <2>1, <3>2
    <3>3. CASE ~rdy /\ RdiAccepted(d)
      BY <2>1, <3>3
    <3>4. CASE ~rdy /\ ~RdiAccepted(d)
      BY <2>1, <3>4
    <3> QED BY <3>1, <3>2, <3>3, <3>4
  <2> QED BY <2>2 DEF Goes, first, second
<1> HIDE DEF Messages, s, t, in
<1>6. /\ Len(in) \in Nat /\ Len(s) \in Nat
      /\ DOMAIN in = 1..Len(in) /\ DOMAIN s = 1..Len(s)
  BY <1>2
<1>7. /\ \A j \in DOMAIN inbox'[d] :
            j \in Nat \ {0} /\ j + k \in DOMAIN in /\ inbox'[d][j] = in[j + k]
      /\ \A j \in DOMAIN in :
            j > k => j - k \in DOMAIN inbox'[d] /\ inbox'[d][j - k] = in[j]
  <2>1. CASE take
    <3> DEFINE u == Tail(in)
    <3>1. /\ Len(u) = Len(in) - 1 /\ DOMAIN u = 1..Len(u)
          /\ \A j \in 1..(Len(in) - 1) : u[j] = in[j + 1]
      BY <1>2, <1>3, <2>1
    <3>2. inbox'[d] = u /\ k = 1
      BY <1>3, <2>1
    <3> HIDE DEF u, k
    <3> QED BY <1>6, <3>1, <3>2
  <2>2. CASE ~take
    BY <1>3, <1>6, <2>2
  <2> QED BY <2>1, <2>2
<1>8. /\ take => 1 \in DOMAIN in /\ Received(d, take) = in[1]
      /\ ~take => Received(d, take) = Nop
  BY <1>2, <1>3 DEF Received, in
<1>9. /\ DOMAIN (s \o t) = 1..(Len(s) + Len(t)) /\ Len(t) \in Nat /\ DOMAIN t = 1..Len(t)
      /\ \A j \in 1..Len(s) : (s \o t)[j] = s[j]
      /\ \A j \in (Len(s) + 1)..(Len(s) + Len(t)) : (s \o t)[j] = t[j - Len(s)]
  BY <1>2, <1>4
<1>10. \A j \in DOMAIN s : j \in DOMAIN inbox'[e] /\ inbox'[e][j] = s[j]
  BY <1>3, <1>6, <1>9
<1>11. ASSUME NEW j \in DOMAIN inbox'[e] \ DOMAIN s
       PROVE  /\ j \in Nat /\ j > Len(s)
              /\ inbox'[e][j] = RdiMessage(d) \/ Goes(d, rdy, inbox'[e][j])
  <2>1. /\ j \in (Len(s) + 1)..(Len(s) + Len(t)) /\ j - Len(s) \in DOMAIN t
        /\ inbox'[e][j] = t[j - Len(s)]
    BY <1>3, <1>6, <1>9
  <2> QED BY <1>5, <1>6, <2>1
<1>12. ASSUME NEW m, Goes(d, rdy, m)
       PROVE  Occurs(inbox'[e], m)
  <2>1. PICK j \in DOMAIN t : t[j] = m
    BY <1>5, <1>12
  <2>2. /\ Len(s) + j \in DOMAIN inbox'[e]
        /\ inbox'[e][Len(s) + j] = t[j]
    BY <1>3, <1>6, <1>9
  <2> QED BY <2>1, <2>2 DEF Occurs
<1> QED BY <1>6, <1>7, <1>8, <1>10, <1>11, <1>12 DEF in, s

\* The messages of the adapter are not those of the PHY.
LEMMA AdapterOnly ==
  \A d : \A st \in ExitTargets \cup {"active"} : \A m \in {Req(st), Rsp(st)} :
     m # Nop /\ m # RdiMessage(d)
<1> TAKE d
<1>1. ASSUME NEW st \in ExitTargets \cup {"active"}, NEW m \in {Req(st), Rsp(st)}
      PROVE  m # Nop /\ m # RdiMessage(d)
  <2>1. m.of = st /\ Nop.of = "nop" /\ RdiMessage(d).of = "rdi"
    BY DEF Req, Rsp, Nop, RdiMessage
  <2> QED BY <2>1 DEF ExitTargets
<1> QED BY <1>1

LEMMA EdgeOccurs ==
  ASSUME TypeOK, NEW d \in Die, NEW rdy \in BOOLEAN, NEW take \in BOOLEAN,
         NEW ask \in ExitRequests \cup {"nop"}, Edge(d, rdy, take, ask),
         NEW m, m # Nop, m # RdiMessage(d)
  PROVE  /\ Occurs(inbox'[d], m) => Occurs(inbox[d], m)
         /\ Occurs(inbox[d], m) => Occurs(inbox'[d], m) \/ Received(d, take) = m
         /\ Received(d, take) = m => Occurs(inbox[d], m)
         /\ Occurs(inbox'[Other(d)], m) <=> Occurs(inbox[Other(d)], m) \/ Goes(d, rdy, m)
<1> DEFINE e == Other(d)
<1>1. Occurs(inbox'[d], m) => Occurs(inbox[d], m)
  BY EdgeInbox DEF Occurs
<1>2. Received(d, take) = m => Occurs(inbox[d], m)
  BY EdgeInbox DEF Occurs
<1>3. ASSUME Occurs(inbox[d], m), Received(d, take) # m
      PROVE  Occurs(inbox'[d], m)
  <2>1. PICK j \in DOMAIN inbox[d] : inbox[d][j] = m
    BY <1>3 DEF Occurs
  <2>2. j \in 1..Len(inbox[d]) /\ (take => j # 1)
    BY <1>3, <2>1, EdgeInbox
  <2>3. j > (IF take THEN 1 ELSE 0)
    BY <2>2, EdgeInbox
  <2> QED BY <2>1, <2>3, EdgeInbox DEF Occurs
<1>4. Occurs(inbox[e], m) => Occurs(inbox'[e], m)
  BY EdgeInbox DEF Occurs
<1>5. Goes(d, rdy, m) => Occurs(inbox'[e], m)
  BY EdgeInbox
<1>6. ASSUME Occurs(inbox'[e], m)
      PROVE  Occurs(inbox[e], m) \/ Goes(d, rdy, m)
  <2>1. PICK j \in DOMAIN inbox'[e] : inbox'[e][j] = m
    BY <1>6 DEF Occurs
  <2>2. CASE j \in DOMAIN inbox[e]
    BY <2>1, <2>2, EdgeInbox DEF Occurs
  <2>3. CASE j \notin DOMAIN inbox[e]
    BY <2>1, <2>3, EdgeInbox
  <2> QED BY <2>2, <2>3
<1> QED BY <1>1, <1>2, <1>3, <1>4, <1>5, <1>6

\* The flags of an exit submodule, one by one.
LEMMA ExitFlags ==
  ASSUME TypeOK, NEW d \in Die, NEW rdy \in BOOLEAN, NEW take \in BOOLEAN,
         NEW ask \in ExitRequests \cup {"nop"}, Edge(d, rdy, take, ask), NEW to \in ExitTargets
  PROVE  LET x == exit[d][to]
             y == exit'[d][to]
         IN  /\ y.want => x.want \/ proto[d].req = to
             /\ y.reqRcv => x.reqRcv \/ Received(d, take) = Req(to)
             /\ y.rspRcv => x.rspRcv \/ Received(d, take) = Rsp(to)
             /\ y.rspSnt => x.rspSnt \/ Goes(d, rdy, Rsp(to))
             /\ Goes(d, rdy, Req(to)) => x.want
             /\ Goes(d, rdy, Rsp(to)) => x.reqRcv
             /\ ctl[d].state \in WorksIn(to) => (x.rspSnt => y.rspSnt) /\ (x.rspRcv => y.rspRcv)
<1> DEFINE x == exit[d][to]
           y == exit'[d][to]
           rcv == Received(d, take)
           goes == SbRdy(d, rdy)[to]
           snd == ExitSnd(to, ctl[d].state, x)
<1>1. y = ExitNext(to, ctl[d].state, x, proto[d].req, ctl[d].prev, goes, rcv)
  BY DEF Edge, TypeOK, Received
<1> HIDE DEF goes, rcv, snd
<1>2. ctl[d].state \in WorksIn(to) =>
         /\ y.want = (x.want \/ (proto[d].req = to /\ (ctl[d].state = "reset" => ctl[d].prev = "nop")))
         /\ y.reqRcv = (x.reqRcv \/ rcv = Req(to))
         /\ y.rspRcv = (x.rspRcv \/ rcv = Rsp(to))
         /\ y.rspSnt = (x.rspSnt \/ (goes /\ snd = Rsp(to)))
  BY <1>1 DEF ExitNext, snd
<1>3. ctl[d].state \notin WorksIn(to) => ~y.want /\ ~y.reqRcv /\ ~y.rspRcv /\ ~y.rspSnt
  BY <1>1 DEF ExitNext, ExitIdle
<1>4. /\ Goes(d, rdy, Req(to)) => x.want
      /\ Goes(d, rdy, Rsp(to)) => x.reqRcv
      /\ y.rspSnt => x.rspSnt \/ Goes(d, rdy, Rsp(to))
  BY EdgeFlags
<1> HIDE DEF x, y
<1>5. /\ y.want => x.want \/ proto[d].req = to
      /\ y.reqRcv => x.reqRcv \/ rcv = Req(to)
      /\ y.rspRcv => x.rspRcv \/ rcv = Rsp(to)
  BY <1>2, <1>3, Zenon
<1>6. ctl[d].state \in WorksIn(to) => (x.rspSnt => y.rspSnt) /\ (x.rspRcv => y.rspRcv)
  BY <1>2, Zenon
<1> QED BY <1>4, <1>5, <1>6 DEF x, y, rcv

\* The receiver is on only while it is wanted; the request for it is withdrawn
\* only by a die that leaves.
LEMMA KeepsWanted ==
  ASSUME TypeOK, NEW d \in Die, NEW rdy \in BOOLEAN, NEW take \in BOOLEAN,
         NEW ask \in ExitRequests \cup {"nop"}, Edge(d, rdy, take, ask),
         NeverRetrain(d), PhyHolds(d), Advances(d)
  PROVE  /\ Wanted(d) => Wanted(d)'
         /\ ctl'[d].rxreq <=> Wanted(d) /\ ~Leaving(d)
         /\ proto'[d].rx = NextRx(d)
         /\ Wanted(d) /\ Leaving(d) => Leaving(d)'
<1>1. Wanted(d) => Wanted(d)'
  BY HandshakeFlags DEF Wanted, Advances, Within, Active
<1>2. ctl'[d].rxreq = NextRxReq(d) /\ proto'[d].rx = NextRx(d)
  BY DEF Edge, TypeOK, NextCtl, NextProto
<1>3. Wanted(d) => ~PhyError(d)
  BY DEF Wanted, PhyHolds, Linked, PhyError
<1>4. NextRxReq(d) <=> Wanted(d) /\ ~Leaving(d)
  <2>1. ~PhyRetrain(d)
    BY DEF PhyRetrain, NeverRetrain
  <2>2. ctl[d].state # "active" => (Wanted(d) <=> RxActiveReq(ctl[d].state, init[d]))
    BY DEF Wanted, Active, Within, RxActiveReq
  <2>3. ctl[d].state = "active" => Wanted(d)
    BY DEF Wanted, Active
  <2> QED BY <1>3, <2>1, <2>2, <2>3 DEF NextRxReq
<1>5. Wanted(d) /\ Leaving(d) => Leaving(d)'
  <2>1. ASSUME NEW to \in ExitTargets, Wanted(d), Entry(d, to)
        PROVE  Entry(d, to)'
    <3>1. ctl[d].state \in WorksIn(to) /\ ctl'[d].state \in WorksIn(to)
      BY <1>1, <2>1 DEF Wanted, Active, Within, WorksIn
    <3> QED BY <2>1, <3>1, ExitFlags DEF Entry, ExitEntry
  <2> QED BY <2>1 DEF Leaving, ExitTargets
<1> QED BY <1>1, <1>2, <1>4, <1>5

LEMMA KeepsReceiverKept ==
  ASSUME TypeOK, NEW d \in Die, NEW rdy \in BOOLEAN, NEW take \in BOOLEAN,
         NEW ask \in ExitRequests \cup {"nop"}, Edge(d, rdy, take, ask),
         NeverRetrain(d), PhyHolds(d), Advances(d), ReceiverKept(d)
  PROVE  /\ ReceiverKept(d)'
         /\ Serves(d) /\ ~Leaving(d) => Serves(d)'
         /\ proto[d].rx /\ ~Leaving(d) => Serves(d)
<1>1. NextRx(d) => Wanted(d)
  BY DEF NextRx, ReceiverKept
<1>2. Serves(d) => NextRx(d)
  BY DEF NextRx, Serves
<1> QED BY <1>1, <1>2, KeepsWanted DEF ReceiverKept, Serves

\* How far the die that moves gets in the handshake.
LEMMA EdgeHandshake ==
  ASSUME TypeOK, NEW d \in Die, NEW rdy \in BOOLEAN, NEW take \in BOOLEAN,
         NEW ask \in ExitRequests \cup {"nop"}, Edge(d, rdy, take, ask), Advances(d)
  PROVE  /\ Shaking(d) => Shaking(d)'
         /\ Answered(d)' <=> Answered(d) \/ Goes(d, rdy, Rsp("active"))
         /\ Confirmed(d)' <=>
               Confirmed(d) \/ (Within(d, "FDI_BRINGUP") /\ Received(d, take) = Rsp("active"))
         /\ Within(d, "FDI_BRINGUP")' /\ init'[d].reqRcv =>
               Within(d, "FDI_BRINGUP") /\ (init[d].reqRcv \/ Received(d, take) = Req("active"))
<1> DEFINE fdi == Within(d, "FDI_BRINGUP")
           goes == Goes(d, rdy, Rsp("active"))
           comes == Received(d, take) = Rsp("active")
<1>1. Shaking(d) => Shaking(d)'
  BY DEF Shaking, Advances
<1>2. /\ fdi => /\ init'[d].rspRcv <=> init[d].rspRcv \/ comes
                /\ init'[d].rspSnt <=> init[d].rspSnt \/ goes
      /\ goes => fdi
      /\ Within(d, "PARAM_EXCH") => ~init'[d].rspRcv /\ ~init'[d].rspSnt /\ ~init'[d].reqRcv
      /\ fdi /\ init'[d].reqRcv => init[d].reqRcv \/ Received(d, take) = Req("active")
  BY HandshakeFlags DEF Within
<1>3. fdi' => fdi \/ Within(d, "PARAM_EXCH")
  BY DEF Advances
<1>4. fdi => fdi' \/ Within(d, "INIT_DONE")'
  BY DEF Advances
<1>5. /\ Active(d)' <=> Active(d) \/ Within(d, "INIT_DONE")
      /\ Within(d, "INIT_DONE")' => fdi /\ init[d].rspSnt /\ init[d].rspRcv
  BY DEF Advances
<1> HIDE DEF fdi, goes, comes
<1>6. Answered(d) <=> Active(d) \/ Within(d, "INIT_DONE") \/ (fdi /\ init[d].rspSnt)
  BY DEF Answered, fdi
<1>7. Answered(d)' <=> Active(d)' \/ Within(d, "INIT_DONE")' \/ (fdi' /\ init'[d].rspSnt)
  BY DEF Answered, fdi
<1>8. Confirmed(d) <=> Active(d) \/ Within(d, "INIT_DONE") \/ (fdi /\ init[d].rspRcv)
  BY DEF Confirmed, fdi
<1>9. Confirmed(d)' <=> Active(d)' \/ Within(d, "INIT_DONE")' \/ (fdi' /\ init'[d].rspRcv)
  BY DEF Confirmed, fdi
<1>10. Answered(d)' <=> Answered(d) \/ goes
  BY <1>2, <1>3, <1>4, <1>5, <1>6, <1>7
<1>11. Confirmed(d)' <=> Confirmed(d) \/ (fdi /\ comes)
  BY <1>2, <1>3, <1>4, <1>5, <1>8, <1>9
<1>12. fdi' /\ init'[d].reqRcv => fdi /\ (init[d].reqRcv \/ Received(d, take) = Req("active"))
  BY <1>2, <1>3
<1> QED BY <1>1, <1>10, <1>11, <1>12 DEF fdi, goes, comes

\* The die that does not move is where it was.
LEMMA PartnerStays ==
  ASSUME TypeOK, NEW d \in Die, NEW rdy \in BOOLEAN, NEW take \in BOOLEAN,
         NEW ask \in ExitRequests \cup {"nop"}, Edge(d, rdy, take, ask)
  PROVE  LET e == Other(d) IN
         /\ ctl'[e] = ctl[e] /\ init'[e] = init[e] /\ exit'[e] = exit[e]
         /\ proto'[e] = proto[e] /\ rdi'[e] = rdi[e] /\ training'[e] = training[e]
         /\ Active(e)' <=> Active(e)
         /\ \A st \in InitStates : Within(e, st)' <=> Within(e, st)
         /\ Shaking(e)' <=> Shaking(e)
         /\ Answered(e)' <=> Answered(e)
         /\ Confirmed(e)' <=> Confirmed(e)
         /\ Serves(e)' <=> Serves(e)
<1> DEFINE e == Other(d)
<1>1. e \in Die /\ e # d
  BY OtherDie
<1>2. /\ ctl'[e] = ctl[e] /\ init'[e] = init[e] /\ exit'[e] = exit[e]
      /\ proto'[e] = proto[e] /\ rdi'[e] = rdi[e] /\ training'[e] = training[e]
  BY <1>1 DEF Edge, TypeOK
<1>3. /\ Active(e)' <=> Active(e)
      /\ \A st \in InitStates : Within(e, st)' <=> Within(e, st)
  BY <1>2 DEF Active, Within
<1>4. /\ Shaking(e)' <=> Shaking(e)
      /\ Answered(e)' <=> Answered(e)
      /\ Confirmed(e)' <=> Confirmed(e)
      /\ Serves(e)' <=> Serves(e)
  BY <1>2 DEF Active, Within, Shaking, Answered, Confirmed, Serves, Wanted
<1> QED BY <1>2, <1>3, <1>4

\* A die that leaves has an active partner.
LEMMA LeavesTogether ==
  ASSUME NEW d \in Die, \A to \in ExitTargets : ExitsLate(d, to), Leaving(d)
  PROVE  Active(d) /\ Active(Other(d))
BY DEF Leaving, Entry, ExitEntry, ExitsLate, ExitTargets

LEMMA KeepsHandshake ==
  ASSUME TypeOK, NEW d \in Die, NEW rdy \in BOOLEAN, NEW take \in BOOLEAN,
         NEW ask \in ExitRequests \cup {"nop"}, Edge(d, rdy, take, ask),
         NeverRetrain(d), InvR, Advances(d)
  PROVE  Handshake(d)' /\ Handshake(Other(d))'
<1> DEFINE e == Other(d)
           req == Req("active")
           rsp == Rsp("active")
<1>1. e \in Die /\ e # d /\ Other(e) = d
  BY OtherDie
<1>2. Handshake(d) /\ Handshake(e) /\ PhyHolds(d) /\ ReceiverKept(d)
  BY <1>1 DEF InvR
<1>3. req # Nop /\ req # RdiMessage(d) /\ rsp # Nop /\ rsp # RdiMessage(d)
  BY AdapterOnly
<1>4. /\ Occurs(inbox'[d], req) => Occurs(inbox[d], req)
      /\ Received(d, take) = req => Occurs(inbox[d], req)
      /\ Occurs(inbox'[e], req) => Occurs(inbox[e], req) \/ Goes(d, rdy, req)
  BY <1>3, EdgeOccurs
<1>5. /\ Occurs(inbox'[d], rsp) => Occurs(inbox[d], rsp)
      /\ Occurs(inbox[d], rsp) => Occurs(inbox'[d], rsp) \/ Received(d, take) = rsp
      /\ Received(d, take) = rsp => Occurs(inbox[d], rsp)
      /\ Occurs(inbox'[e], rsp) <=> Occurs(inbox[e], rsp) \/ Goes(d, rdy, rsp)
  BY <1>3, EdgeOccurs
<1>6. /\ Goes(d, rdy, req) => Within(d, "FDI_BRINGUP")
      /\ Goes(d, rdy, rsp) => Within(d, "FDI_BRINGUP") /\ init[d].reqRcv /\ proto[d].rx
  BY HandshakeFlags
<1>7. /\ Active(e)' <=> Active(e)
      /\ Within(e, "FDI_BRINGUP")' <=> Within(e, "FDI_BRINGUP")
      /\ Shaking(e)' <=> Shaking(e)
      /\ init'[e] = init[e]
      /\ Answered(e)' <=> Answered(e)
      /\ Confirmed(e)' <=> Confirmed(e)
      /\ Serves(e)' <=> Serves(e)
  BY PartnerStays DEF InitStates
<1>8. /\ Shaking(d) => Shaking(d)'
      /\ Active(d) => Active(d)'
      /\ Answered(d)' <=> Answered(d) \/ Goes(d, rdy, rsp)
      /\ Confirmed(d)' <=> Confirmed(d) \/ (Within(d, "FDI_BRINGUP") /\ Received(d, take) = rsp)
      /\ Within(d, "FDI_BRINGUP")' /\ init'[d].reqRcv =>
            Within(d, "FDI_BRINGUP") /\ (init[d].reqRcv \/ Received(d, take) = req)
  BY EdgeHandshake DEF Advances
<1>9. Shaking(d) => Within(d, "FDI_BRINGUP") \/ Confirmed(d)
  BY DEF Shaking, Confirmed
<1> HIDE DEF req, rsp
<1>10. Handshake(d)'
  <2>0. Occurs(inbox[d], req) \/ (Within(d, "FDI_BRINGUP") /\ init[d].reqRcv) => Shaking(e)
    BY <1>2 DEF Handshake, req
  <2>1. Occurs(inbox'[d], req) \/ (Within(d, "FDI_BRINGUP")' /\ init'[d].reqRcv) => Shaking(e)'
    BY <1>4, <1>7, <1>8, <2>0
  <2>2. Occurs(inbox'[d], rsp) => Shaking(d)'
    BY <1>2, <1>5, <1>8 DEF Handshake, rsp
  <2>3. Occurs(inbox'[d], rsp) \/ Confirmed(d)' <=> Occurs(inbox[d], rsp) \/ Confirmed(d)
    BY <1>2, <1>5, <1>8, <1>9 DEF Handshake, rsp
  <2>4. (Occurs(inbox[d], rsp) \/ Confirmed(d)) <=> Answered(e)
    BY <1>2 DEF Handshake, rsp
  <2>5. (Occurs(inbox[d], rsp) \/ Confirmed(d)) /\ ~Active(d) => Serves(e)
    BY <1>2 DEF Handshake, rsp
  <2> QED BY <1>7, <1>8, <2>1, <2>2, <2>3, <2>4, <2>5 DEF Handshake, req, rsp
<1>11. Handshake(e)'
  <2>1. Within(d, "FDI_BRINGUP") => Shaking(d)
    BY DEF Shaking
  <2>0. Occurs(inbox[e], req) \/ (Within(e, "FDI_BRINGUP") /\ init[e].reqRcv) => Shaking(d)
    BY <1>1, <1>2 DEF Handshake, req
  <2>2. Occurs(inbox'[e], req) \/ (Within(e, "FDI_BRINGUP")' /\ init'[e].reqRcv) => Shaking(d)'
    BY <1>4, <1>6, <1>7, <1>8, <2>0, <2>1
  <2>3. Goes(d, rdy, rsp) => Shaking(e)
    <3>1. Within(d, "FDI_BRINGUP") /\ init[d].reqRcv => Shaking(e)
      BY <1>2 DEF Handshake
    <3> QED BY <1>6, <3>1
  <2>4. Occurs(inbox'[e], rsp) => Shaking(e)'
    BY <1>2, <1>5, <1>7, <2>3 DEF Handshake, rsp
  <2>5. (Occurs(inbox[e], rsp) \/ Confirmed(e)) <=> Answered(d)
    BY <1>1, <1>2 DEF Handshake, rsp
  <2>6. (Occurs(inbox'[e], rsp) \/ Confirmed(e)') <=> Answered(d)'
    BY <1>5, <1>7, <1>8, <2>5
  <2>7. ASSUME Occurs(inbox'[e], rsp) \/ Confirmed(e)', ~Active(e)
        PROVE  Serves(d)'
    <3>1. ~Leaving(d)
      BY <1>1, <2>7, LeavesTogether DEF InvR
    <3>2. Serves(d)
      <4>1. Goes(d, rdy, rsp) => Serves(d)
        BY <1>2, <1>6, <3>1, KeepsReceiverKept
      <4>2. Occurs(inbox[e], rsp) \/ Confirmed(e) => Serves(d)
        BY <1>1, <1>2, <2>7 DEF Handshake, rsp
      <4> QED BY <1>5, <1>7, <2>7, <4>1, <4>2
    <3> QED BY <1>2, <3>1, <3>2, KeepsReceiverKept
  <2> QED BY <1>1, <1>7, <2>2, <2>4, <2>6, <2>7 DEF Handshake, req, rsp
<1> QED BY <1>10, <1>11

LEMMA KeepsExitsLate ==
  ASSUME TypeOK, NEW d \in Die, NEW rdy \in BOOLEAN, NEW take \in BOOLEAN,
         NEW ask \in ExitRequests \cup {"nop"}, Edge(d, rdy, take, ask),
         InvR, Advances(d), AskIn \subseteq {"active"}, NEW to \in ExitTargets
  PROVE  ExitsLate(d, to)' /\ ExitsLate(Other(d), to)'
<1> DEFINE e == Other(d)
           req == Req(to)
           rsp == Rsp(to)
           x == exit[d][to]
           y == exit'[d][to]
<1>1. e \in Die /\ e # d /\ Other(e) = d
  BY OtherDie
<1>2. /\ ExitsLate(d, to) /\ ExitsLate(e, to) /\ ResponseFirst(d, to)
      /\ Handshake(d) /\ Handshake(e)
  BY <1>1 DEF InvR
<1>3. req # Nop /\ req # RdiMessage(d) /\ rsp # Nop /\ rsp # RdiMessage(d)
  BY AdapterOnly
<1>4. /\ Occurs(inbox'[d], req) => Occurs(inbox[d], req)
      /\ Received(d, take) = req => Occurs(inbox[d], req)
      /\ Occurs(inbox'[e], req) => Occurs(inbox[e], req) \/ Goes(d, rdy, req)
  BY <1>3, EdgeOccurs
<1>5. /\ Occurs(inbox'[d], rsp) => Occurs(inbox[d], rsp)
      /\ Received(d, take) = rsp => Occurs(inbox[d], rsp)
      /\ Occurs(inbox'[e], rsp) => Occurs(inbox[e], rsp) \/ Goes(d, rdy, rsp)
  BY <1>3, EdgeOccurs
<1>6. /\ y.want => x.want \/ proto[d].req = to
      /\ y.reqRcv => x.reqRcv \/ Received(d, take) = req
      /\ y.rspRcv => x.rspRcv \/ Received(d, take) = rsp
      /\ y.rspSnt => x.rspSnt \/ Goes(d, rdy, rsp)
      /\ Goes(d, rdy, req) => x.want
      /\ Goes(d, rdy, rsp) => x.reqRcv
  BY ExitFlags
<1>7. /\ Active(e)' <=> Active(e)
      /\ exit'[e] = exit[e] /\ proto'[e] = proto[e]
      /\ Within(e, "INIT_DONE")' <=> Within(e, "INIT_DONE")
  BY PartnerStays DEF InitStates
<1>8. Active(d) \/ Within(d, "INIT_DONE") => Active(d)'
  BY DEF Advances
<1>9. proto'[d].req = to => Active(d)
  <2>1. proto'[d].req = to => ask = to /\ ask # "nop"
    BY EdgeRegs DEF ExitTargets
  <2>2. ask # "nop" => ctl[d].state = "active"
    BY DEF Edge
  <2> QED BY <2>1, <2>2 DEF Active
\* A request is never taken before the ACTIVE response.
<1>10. Received(d, take) = req => Active(d)' \/ Within(d, "INIT_DONE")'
  <2>1. ASSUME Received(d, take) = req
        PROVE  Active(d)' \/ Within(d, "INIT_DONE")'
    <3>1. 1 \in DOMAIN inbox[d] /\ inbox[d][1] = req
      BY <1>3, <2>1, EdgeInbox
    <3>2. Confirmed(d)
      BY <1>2, <3>1 DEF ResponseFirst
    <3>3. Active(e)
      BY <1>2, <1>4, <2>1 DEF ExitsLate
    <3>4. Answered(d)
      <4>1. Confirmed(e)
        BY <3>3 DEF Confirmed
      <4> QED BY <1>1, <1>2, <4>1 DEF Handshake
    <3> QED BY <1>8, <3>2, <3>4 DEF Confirmed, Answered, Advances
  <2> QED BY <2>1
<1> HIDE DEF req, rsp, x, y
<1>11. /\ proto[d].req = to \/ x.want => Active(d)
       /\ Occurs(inbox[d], req) \/ x.reqRcv => Active(e)
       /\ x.reqRcv => Active(d) \/ Within(d, "INIT_DONE")
       /\ Occurs(inbox[d], rsp) \/ x.rspRcv \/ x.rspSnt => Active(d) /\ Active(e)
  BY <1>2 DEF ExitsLate, req, rsp, x
<1>12. ExitsLate(d, to)'
  <2>1. proto'[d].req = to \/ y.want => Active(d)'
    BY <1>6, <1>8, <1>9, <1>11
  <2>2. Occurs(inbox'[d], req) \/ y.reqRcv => Active(e)'
    BY <1>4, <1>6, <1>7, <1>11
  <2>3. y.reqRcv => Active(d)' \/ Within(d, "INIT_DONE")'
    BY <1>6, <1>8, <1>10, <1>11
  <2>4. Occurs(inbox'[d], rsp) \/ y.rspRcv \/ y.rspSnt => Active(d)' /\ Active(e)'
    BY <1>5, <1>6, <1>7, <1>8, <1>11
  <2> QED BY <2>1, <2>2, <2>3, <2>4 DEF ExitsLate, req, rsp, y
<1>13. ExitsLate(e, to)'
  <2>1. proto[e].req = to \/ exit[e][to].want => Active(e)
    BY <1>2 DEF ExitsLate
  <2>2. Occurs(inbox[e], req) \/ exit[e][to].reqRcv => Active(d)
    BY <1>1, <1>2 DEF ExitsLate, req
  <2>3. exit[e][to].reqRcv => Active(e) \/ Within(e, "INIT_DONE")
    BY <1>2 DEF ExitsLate
  <2>4. Occurs(inbox[e], rsp) \/ exit[e][to].rspRcv \/ exit[e][to].rspSnt =>
           Active(e) /\ Active(d)
    BY <1>1, <1>2 DEF ExitsLate, rsp
  <2>5. Occurs(inbox'[e], req) => Active(d)'
    BY <1>4, <1>6, <1>8, <1>11, <2>2
  <2>6. Occurs(inbox'[e], rsp) => Active(e) /\ Active(d)'
    BY <1>5, <1>6, <1>8, <1>11, <2>4
  <2> QED BY <1>1, <1>7, <1>8, <2>1, <2>2, <2>3, <2>4, <2>5, <2>6 DEF ExitsLate, req, rsp
<1> QED BY <1>12, <1>13

LEMMA KeepsResponseFirst ==
  ASSUME TypeOK, NEW d \in Die, NEW rdy \in BOOLEAN, NEW take \in BOOLEAN,
         NEW ask \in ExitRequests \cup {"nop"}, Edge(d, rdy, take, ask),
         InvR, Advances(d), NEW to \in ExitTargets
  PROVE  ResponseFirst(d, to)' /\ ResponseFirst(Other(d), to)'
<1> DEFINE e == Other(d)
           req == Req(to)
           rsp == Rsp("active")
           k == IF take THEN 1 ELSE 0
<1>1. e \in Die /\ e # d /\ Other(e) = d
  BY OtherDie
<1>2. /\ ExitsLate(d, to) /\ ResponseFirst(d, to) /\ ResponseFirst(e, to)
      /\ Handshake(d) /\ Handshake(e)
  BY <1>1 DEF InvR
<1>3. rsp # Nop /\ rsp # RdiMessage(d) /\ req # Nop /\ req # RdiMessage(d)
  BY AdapterOnly
<1>4. ASSUME NEW j \in DOMAIN inbox'[d], inbox'[d][j] = req, ~Confirmed(d)'
      PROVE  \E i \in 1..(j - 1) : inbox'[d][i] = rsp
  <2>1. j \in Nat \ {0} /\ j + k \in DOMAIN inbox[d] /\ inbox[d][j + k] = req
    BY <1>4, EdgeInbox
  <2>2. ~Confirmed(d)
    BY <1>4, EdgeHandshake
  <2>3. PICK i \in 1..((j + k) - 1) : inbox[d][i] = rsp
    BY <1>2, <2>1, <2>2 DEF ResponseFirst
  <2>4. i \in DOMAIN inbox[d]
    <3> HIDE DEF k
    <3> QED BY <2>1, <2>3, EdgeInbox DEF k
  <2>5. i > k
    <3>1. CASE take /\ i = 1
      <4>0. inbox[d][1] = rsp /\ 1 \in DOMAIN inbox[d]
        BY <2>3, <2>4, <3>1
      <4>1. Received(d, take) = rsp /\ Occurs(inbox[d], rsp)
        <5>1. /\ take => Received(d, take) = inbox[d][1]
              /\ ~take => Received(d, take) = Nop
          BY EdgeInbox
        <5> QED BY <3>1, <4>0, <5>1 DEF Occurs
      <4>2. Shaking(d)
        BY <1>2, <4>1 DEF Handshake
      <4>3. Within(d, "FDI_BRINGUP")
        BY <2>2, <4>2 DEF Shaking, Confirmed
      <4>4. Confirmed(d)'
        BY <4>1, <4>3, EdgeHandshake
      <4> QED BY <1>4, <4>4
    <3>2. CASE ~(take /\ i = 1)
      BY <2>1, <2>3, <3>2
    <3> QED BY <3>1, <3>2
  <2>6. inbox'[d][i - k] = rsp
    BY <2>3, <2>4, <2>5, EdgeInbox
  <2>7. i - k \in 1..(j - 1)
    BY <2>1, <2>3, <2>5
  <2> QED BY <2>6, <2>7
<1>5. ASSUME NEW j \in DOMAIN inbox'[e], inbox'[e][j] = req, ~Confirmed(e)'
      PROVE  \E i \in 1..(j - 1) : inbox'[e][i] = rsp
  <2>1. ~Confirmed(e)
    BY <1>5, PartnerStays
  <2>2. CASE j \in DOMAIN inbox[e]
    <3>1. inbox[e][j] = req
      BY <1>5, <2>2, EdgeInbox
    <3>2. PICK i \in 1..(j - 1) : inbox[e][i] = rsp
      BY <1>2, <2>1, <2>2, <3>1 DEF ResponseFirst
    <3>3. i \in DOMAIN inbox[e]
      BY <2>2, <3>2, EdgeInbox
    <3> QED BY <3>2, <3>3, EdgeInbox
  <2>3. CASE j \notin DOMAIN inbox[e]
    <3>1. j \in Nat /\ j > Len(inbox[e]) /\ Goes(d, rdy, req)
      BY <1>3, <1>5, <2>3, EdgeInbox
    <3>2. Active(d)
      BY <1>2, <3>1, ExitFlags DEF ExitsLate
    <3>3. Occurs(inbox[e], rsp)
      <4>1. Answered(d)
        BY <3>2 DEF Answered
      <4> QED BY <1>1, <1>2, <2>1, <4>1 DEF Handshake
    <3>4. PICK i \in DOMAIN inbox[e] : inbox[e][i] = rsp
      BY <3>3 DEF Occurs
    <3>5. i \in 1..(j - 1) /\ inbox'[e][i] = rsp
      BY <3>1, <3>4, EdgeInbox
    <3> QED BY <3>5
  <2> QED BY <2>2, <2>3
<1> QED BY <1>1, <1>4, <1>5 DEF ResponseFirst

\* An edge of either die in the first bring-up keeps all parts.
LEMMA KeepsInvR ==
  ASSUME Inv, InvR, NoneHasLeft, NoneHasLeft', AskIn \subseteq {"active"},
         NEW d \in Die, Tick(d)
  PROVE  InvR'
<1>1. PICK rdy \in BOOLEAN, take \in BOOLEAN, ask \in ExitRequests \cup {"nop"} :
         Edge(d, rdy, take, ask)
  BY DEF Tick
<1>2. /\ TypeOK /\ NeverRetrain(d) /\ PhyHolds(d) /\ ReceiverKept(d)
      /\ left[d] = 0 /\ left'[d] = 0
  BY DEF Inv, InvR, NoneHasLeft
<1>3. Advances(d)
  BY <1>1, <1>2, EdgeAdvances
<1>4. Other(d) \in Die /\ \A x \in Die : x = d \/ x = Other(d)
  BY OtherDie
<1>5. PhyHolds(d)' /\ ReceiverKept(d)'
  BY <1>1, <1>2, <1>3, KeepsPhyHolds, KeepsReceiverKept
<1>6. PhyHolds(Other(d))' /\ ReceiverKept(Other(d))'
  <2> DEFINE e == Other(d)
  <2>1. /\ ctl'[e] = ctl[e] /\ init'[e] = init[e] /\ exit'[e] = exit[e]
        /\ proto'[e] = proto[e] /\ rdi'[e] = rdi[e] /\ training'[e] = training[e]
    BY <1>1, <1>2, PartnerStays
  <2>2. PhyHolds(e) /\ ReceiverKept(e)
    BY <1>4 DEF InvR
  <2>3. PhyHolds(e)'
    BY <2>1, <2>2 DEF PhyHolds, Linked, Active, Within
  <2>4. ReceiverKept(e)'
    BY <2>1, <2>2 DEF ReceiverKept, Wanted, Active, Within, Leaving, Entry
  <2> QED BY <2>3, <2>4
<1>7. Handshake(d)' /\ Handshake(Other(d))'
  BY <1>1, <1>2, <1>3, KeepsHandshake
<1>8. ASSUME NEW to \in ExitTargets
      PROVE  /\ ExitsLate(d, to)' /\ ExitsLate(Other(d), to)'
             /\ ResponseFirst(d, to)' /\ ResponseFirst(Other(d), to)'
  BY <1>1, <1>2, <1>3, KeepsExitsLate, KeepsResponseFirst
<1> QED BY <1>4, <1>5, <1>6, <1>7, <1>8 DEF InvR

LEMMA StartsInvR == Init => InvR
<1> SUFFICES ASSUME Init, NEW d \in Die
             PROVE  /\ PhyHolds(d) /\ ReceiverKept(d) /\ Handshake(d)
                    /\ \A to \in ExitTargets : ExitsLate(d, to) /\ ResponseFirst(d, to)
  BY DEF InvR
<1>1. Other(d) \in Die
  BY OtherDie
<1>2. \A x \in Die : /\ ctl[x].state = "reset" /\ ctl[x].rdireq = "nop"
                     /\ ~ctl[x].rxreq /\ ~ctl[x].inband
                     /\ init[x] = InitIdle /\ rdi[x] = RdiIdle
                     /\ proto[x].req = "nop" /\ ~proto[x].rx /\ inbox[x] = <<>>
                     /\ \A to \in ExitTargets : exit[x][to] = ExitIdle
  BY DEF Init
<1>3. \A x \in Die : /\ ~Active(x) /\ Within(x, "INIT_START")
                     /\ ~Within(x, "RDI_BRINGUP") /\ ~Within(x, "PARAM_EXCH")
                     /\ ~Within(x, "FDI_BRINGUP") /\ ~Within(x, "INIT_DONE")
  BY <1>2 DEF Active, Within, InitIdle
<1>4. PhyHolds(d)
  BY <1>2, <1>3 DEF PhyHolds, Linked, RdiIdle
<1>5. ReceiverKept(d)
  BY <1>2 DEF ReceiverKept
<1>6. \A m : ~Occurs(inbox[d], m)
  BY <1>2 DEF Occurs
<1>7. Handshake(d)
  BY <1>1, <1>3, <1>6 DEF Handshake, Answered, Confirmed
<1>8. ASSUME NEW to \in ExitTargets
      PROVE  ExitsLate(d, to) /\ ResponseFirst(d, to)
  <2>1. ExitsLate(d, to)
    BY <1>2, <1>6, <1>8 DEF ExitsLate, ExitIdle, ExitTargets
  <2>2. DOMAIN inbox[d] = {}
    BY <1>2
  <2> QED BY <2>1, <2>2 DEF ResponseFirst
<1> QED BY <1>4, <1>5, <1>7, <1>8

\* When the link comes up, a die goes to active only when the receiver of its
\* partner is on, if the users do not ask to leave before: the ACTIVE response
\* a die acts upon is kept by its partner, and no request to leave overtakes it.
THEOREM ReceiversFirst ==
  ASSUME AskIn \subseteq {"active"}
  PROVE  Spec /\ []NoneHasLeft => ReceiverFirst
<1>1. Init => InvR
  BY StartsInvR
<1>2. ASSUME Inv, InvR, NoneHasLeft, NoneHasLeft', [Next]_vars
      PROVE  InvR'
  <2>1. ASSUME NEW d \in Die, Tick(d)
        PROVE  InvR'
    BY <1>2, <2>1, KeepsInvR
  <2>2. ASSUME UNCHANGED <<regs, inbox>>
        PROVE  InvR'
    BY <1>2, <2>2 DEF regs, InvR, PhyHolds, ReceiverKept, Handshake, ExitsLate, ResponseFirst,
       Linked, Shaking, Answered, Confirmed, Wanted, Serves, Active, Within, Leaving, Entry
  <2>3. (\E d \in Die : Tick(d)) \/ UNCHANGED <<regs, inbox>>
    BY <1>2 DEF Next, RaiseFault, ClearFault, vars
  <2> QED BY <2>1, <2>2, <2>3
<1>3. ASSUME Inv, InvR, NoneHasLeft, NoneHasLeft', Next, NEW d \in Die,
             ctl[d].state # "active", ctl'[d].state = "active"
      PROVE  proto[Other(d)].rx
  <2>1. PICK c \in Die : Tick(c)
    BY <1>3 DEF Next, RaiseFault, ClearFault, regs
  <2>2. PICK rdy \in BOOLEAN, take \in BOOLEAN, ask \in ExitRequests \cup {"nop"} :
           Edge(c, rdy, take, ask)
    BY <2>1 DEF Tick
  <2>3. /\ TypeOK /\ NeverRetrain(d) /\ PhyHolds(d) /\ Handshake(d)
        /\ left[d] = 0 /\ left'[d] = 0
    BY <1>3 DEF Inv, InvR, NoneHasLeft
  <2>4. c = d
    <3>1. d # c => ctl'[d] = ctl[d]
      BY <2>2, <2>3, EdgeRegs
    <3> QED BY <1>3, <3>1
  <2>5. Advances(d)
    BY <2>2, <2>3, <2>4, EdgeAdvances
  <2>6. Within(d, "INIT_DONE") /\ ~Active(d)
    BY <1>3, <2>5 DEF Advances, Active
  <2> QED BY <2>3, <2>6 DEF Handshake, Confirmed, Serves
<1>4. Inv /\ InvR /\ NoneHasLeft /\ NoneHasLeft' /\ [Next]_vars =>
         [\A d \in Die : ctl[d].state # "active" /\ ctl'[d].state = "active"
                            => proto[Other(d)].rx]_vars
  BY <1>3
<1> QED BY <1>1, <1>2, <1>4, Invariant, PTL DEF Spec, ReceiverFirst
===============================================================================
