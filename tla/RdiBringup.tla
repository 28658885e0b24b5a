------------------------------ MODULE RdiBringup ------------------------------
(***************************************************************************)
(* The state machine behind the RDI of a PHY (rdi_bringup.cpp): from reset *)
(* to active by two message exchanges with the partner, out of active by a *)
(* stall handshake with the adapter, and directly between all the other    *)
(* states.  Operators over the record of its registers.                    *)
(***************************************************************************)

PhyStates == {"reset", "active", "linkReset", "linkError", "retrain", "disabled"}
PhyStateReqs == {"nop", "active", "linkReset", "retrain", "disabled"}

RdiSubStates == {"WAIT_LP_STATE_REQ", "REQ_ACTIVE_SEND", "REQ_ACTIVE_WAIT",
                 "RESP_ACTIVE_SEND", "RESP_ACTIVE_WAIT"}
RdiStalls == {"ACTIVE", "LP_STALLACK_WAIT", "LP_STALLACK_DEASSERT"}

\* prev: _prev_req; to: _next_state_req.
RdiRegs == [state: PhyStates, sub: RdiSubStates, stall: RdiStalls,
            prev: PhyStateReqs, to: PhyStates]

RdiIdle == [state |-> "reset", sub |-> "WAIT_LP_STATE_REQ", stall |-> "ACTIVE",
            prev |-> "nop", to |-> "reset"]

\* The wires: msg_req.valid, msg_req_status.ready, pl_stall_req.
RdiMsgValid(r) == r.state = "reset" /\ r.sub \in {"REQ_ACTIVE_SEND", "RESP_ACTIVE_SEND"}
RdiStatusReady(r) == r.state = "reset" /\ r.sub \in {"REQ_ACTIVE_WAIT", "RESP_ACTIVE_WAIT"}
RdiStallReq(r) == r.stall = "LP_STALLACK_WAIT"

\* _next_state: a request of the adapter overrides an error, except that in
\* reset only the edge from nop to a request counts.  error stands for
\* internal_error or lp_link_error; internal_retrain is tied to false.
RdiTarget(r, req, error, done) ==
    IF r.state = "reset" /\ r.sub = "RESP_ACTIVE_WAIT" /\ done THEN "active"
    ELSE IF req # "nop" /\ (r.state # "reset" \/ r.prev = "nop") THEN req
    ELSE IF error THEN "linkError"
    ELSE r.state

\* The next sub-state of the bring-up: accepted is msg_req.ready, done says
\* that the exchange reported its status.  What the status says is not read.
RdiSub(r, target, accepted, done) ==
    IF r.state # "reset" THEN IF target = "reset" THEN "WAIT_LP_STATE_REQ" ELSE r.sub
    ELSE CASE r.sub = "WAIT_LP_STATE_REQ" /\ target = "active" -> "REQ_ACTIVE_SEND"
           [] r.sub = "REQ_ACTIVE_SEND" /\ accepted -> "REQ_ACTIVE_WAIT"
           [] r.sub = "REQ_ACTIVE_WAIT" /\ done -> "RESP_ACTIVE_SEND"
           [] r.sub = "RESP_ACTIVE_SEND" /\ accepted -> "RESP_ACTIVE_WAIT"
           [] OTHER -> r.sub

\* Leaving active for a state that needs a stall begins the handshake.
RdiStallBegins(r, target) ==
    /\ r.state = "active" /\ r.stall = "ACTIVE"
    /\ target \in {"retrain", "linkReset", "disabled"}

RdiStall(r, target, ack) ==
    IF r.state # "active" THEN IF target = "active" THEN "ACTIVE" ELSE r.stall
    ELSE IF RdiStallBegins(r, target) THEN "LP_STALLACK_WAIT"
    ELSE IF r.stall = "LP_STALLACK_WAIT" /\ ack THEN "LP_STALLACK_DEASSERT"
    ELSE r.stall

\* Faulty variant: leaving active does not wait for the stall handshake.
RdiState_hasty(r, target, ack) ==
    IF r.state = "reset" /\ r.sub = "WAIT_LP_STATE_REQ" /\ target = "active" THEN "reset"
    ELSE IF r.state = "active" /\ r.stall = "LP_STALLACK_DEASSERT" /\ ~ack THEN r.to
    ELSE target

\* The state register: the target, except where the bring-up or the stall
\* handshake holds it back.
RdiState(r, target, ack) ==
    IF r.state = "reset" /\ r.sub = "WAIT_LP_STATE_REQ" /\ target = "active" THEN "reset"
    ELSE IF RdiStallBegins(r, target) THEN "active"
    ELSE IF r.state = "active" /\ r.stall = "LP_STALLACK_WAIT" /\ ack THEN "active"
    ELSE IF r.state = "active" /\ r.stall = "LP_STALLACK_DEASSERT" /\ ~ack THEN r.to
    ELSE target

\* One clock edge; req and ack are lp_state_req and lp_stall_ack.
RdiNext(r, req, error, ack, accepted, done) ==
    LET target == RdiTarget(r, req, error, done) IN
    [state |-> RdiState(r, target, ack),
     sub   |-> RdiSub(r, target, accepted, done),
     stall |-> RdiStall(r, target, ack),
     prev  |-> req,
     to    |-> IF RdiStallBegins(r, target) THEN target ELSE r.to]
===============================================================================
