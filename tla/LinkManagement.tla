---------------------------- MODULE LinkManagement ----------------------------
(***************************************************************************)
(* Two dies bringing their link up and taking it down: the link management *)
(* controller of each adapter (link_management_controller.cpp) with its    *)
(* submodules and stall handlers, the protocol layer above it              *)
(* (protocol_layer.cpp), the RDI state machine of the PHY below it         *)
(* (rdi_bringup.cpp), and the sideband between them.                       *)
(*                                                                         *)
(* Each die has a clock.  A clock edge moves all registers of the die at   *)
(* once (utils/module.cpp: calcNextState of every module, then the         *)
(* registers), so it is one action; the edges of the two dies interleave   *)
(* in any order.  The sideband delivers the messages of a die in order,    *)
(* after any delay.                                                        *)
(***************************************************************************)
EXTENDS Naturals, Sequences, FiniteSets, LinkInit, StallHandlers, RdiBringup

CONSTANTS
    Die,          \* the two dies
    RxFollows,    \* TRUE: the receiver status follows the request of the adapter,
                  \* as link_management_controller_test.cpp drives it;
                  \* FALSE: as ProtocolLayer computes it
    PhyPresent,   \* TRUE: the PHY reports its presence from the start, as the test
                  \* drives it; FALSE: as LogicalPhy computes it
    ExitRequests, \* what the user of a die may ask for: "linkReset", "disabled"
    AskIn,        \* the link states in which the users ask
    MaxAsks,      \* how often the two users ask, together
    MaxFaults,    \* how often a fault is reported, on both dies together
    MaxEvents,    \* how often either of these happens
    Beats         \* clock edges a packet is on the wires before it is complete

ASSUME DieAssumption == \E a, b \in Die : a # b /\ Die = {a, b}
ASSUME ParametersAssumption ==
    /\ RxFollows \in BOOLEAN /\ PhyPresent \in BOOLEAN
    /\ ExitRequests \subseteq ExitTargets
    /\ AskIn \subseteq PhyStates
    /\ MaxAsks \in Nat /\ MaxFaults \in Nat /\ MaxEvents \in Nat /\ Beats \in Nat

VARIABLES
    ctl,       \* registers of the controller
    init,      \* registers of the link initialisation
    exit,      \* registers of the link reset and the disabled submodules
    stall,     \* stall handlers and the stall register of the mainband
    proto,     \* registers of the protocol layer
    rdi,       \* registers of RdiBringup
    training,  \* state of the training machine, from linkInit on
    heard,     \* RDI messages of the partner received by the PHY
    inbox,     \* messages on their way to the die
    beats,     \* edges to go before the first of them can be complete
    fault,     \* the fault input of the protocol layer
    asks, faults, \* how often they may still be raised
    left,      \* history: how often the die went to linkReset or disabled
    lost       \* history: messages of the partner that left no trace

pins == <<fault, faults>>
regs == <<ctl, init, exit, stall, proto, rdi, training, heard>>
history == <<left, lost>>
vars == <<regs, inbox, beats, asks, pins, history>>

\* Bound: something may still happen to the link.
Room == (MaxAsks - asks) + (MaxFaults - faults) < MaxEvents

Other(d) == CHOOSE e \in Die : e # d

RdiMessages == {Req("rdi"), Rsp("rdi")}
AdapterMessages ==
    {AdvCap} \cup {Req(s) : s \in ExitTargets \cup {"active"}}
             \cup {Rsp(s) : s \in ExitTargets \cup {"active"}}

CtlRegs == [state: PhyStates, prev: PhyStateReqs, stallreq: BOOLEAN, rxreq: BOOLEAN,
            inband: BOOLEAN, rdireq: PhyStateReqs, linkerror: BOOLEAN]

TypeOK ==
    /\ ctl \in [Die -> CtlRegs]
    /\ init \in [Die -> InitRegs]
    /\ exit \in [Die -> [ExitTargets -> ExitRegs]]
    /\ stall \in [Die -> [fdi: FdiStallStates, rdi: RdiStallStates, closed: BOOLEAN]]
    /\ proto \in [Die -> [rx: BOOLEAN, req: PhyStateReqs, ack: BOOLEAN]]
    /\ rdi \in [Die -> RdiRegs]
    /\ training \in [Die -> {"linkInit", "active", "retrain", "linkError"}]
    /\ heard \in [Die -> SUBSET RdiMessages]
    /\ inbox \in [Die -> Seq(RdiMessages \cup AdapterMessages)]
    /\ beats \in [Die -> 0..Beats]
    /\ fault \in [Die -> BOOLEAN]
    /\ asks \in 0..MaxAsks /\ faults \in 0..MaxFaults
    /\ left \in [Die -> Nat]
    /\ lost \in [Die -> SUBSET AdapterMessages]

Init ==
    /\ ctl = [d \in Die |-> [state |-> "reset", prev |-> "nop", stallreq |-> FALSE,
                             rxreq |-> FALSE, inband |-> FALSE, rdireq |-> "nop",
                             linkerror |-> FALSE]]
    /\ init = [d \in Die |-> InitIdle]
    /\ exit = [d \in Die |-> [to \in ExitTargets |-> ExitIdle]]
    /\ stall = [d \in Die |-> [fdi |-> "IDLE", rdi |-> "IDLE", closed |-> FALSE]]
    /\ proto = [d \in Die |-> [rx |-> FALSE, req |-> "nop", ack |-> FALSE]]
    /\ rdi = [d \in Die |-> RdiIdle]
    /\ training = [d \in Die |-> "linkInit"]
    /\ heard = [d \in Die |-> {}]
    /\ inbox = [d \in Die |-> <<>>]
    /\ beats = [d \in Die |-> Beats]
    /\ fault = [d \in Die |-> FALSE]
    /\ asks = MaxAsks /\ faults = MaxFaults
    /\ left = [d \in Die |-> 0]
    /\ lost = [d \in Die |-> {}]

-------------------------------------------------------------------------------
(* The wires of the controller.                                             *)

Entry(d, to) == ExitEntry(to, ctl[d].state, exit[d][to])
RxDeactive(d) == ~proto[d].rx /\ ~ctl[d].rxreq
StallDone(d) == ctl[d].stallreq /\ FdiStallDone(stall[d].fdi)
PhyError(d) == rdi[d].state = "linkError"
PhyRetrain(d) == rdi[d].state = "retrain"

\* What the submodules offer, and what the one sideband port sends: disabled
\* goes before link reset, and both before the initialisation.
Offer(d) ==
    [disabled  |-> ExitSnd("disabled", ctl[d].state, exit[d]["disabled"]),
     linkReset |-> ExitSnd("linkReset", ctl[d].state, exit[d]["linkReset"]),
     init      |-> InitSnd(ctl[d].state, init[d], proto[d].rx)]

SbSnd(d) ==
    LET o == Offer(d) IN
    IF o.disabled # Nop THEN o.disabled
    ELSE IF o.linkReset # Nop THEN o.linkReset
    ELSE o.init

\* The ready signal each submodule sees.
SbRdy(d, rdy) ==
    LET o == Offer(d) IN
    [disabled  |-> rdy,
     linkReset |-> rdy /\ o.disabled = Nop,
     init      |-> rdy /\ o.disabled = Nop /\ o.linkReset = Nop]

(* The link state, one operator per state it is left from.                  *)
LeaveReset(d) ==
    IF PhyError(d) THEN "linkError"
    ELSE IF Entry(d, "disabled") /\ RxDeactive(d) THEN "disabled"
    ELSE IF Entry(d, "linkReset") /\ RxDeactive(d) THEN "linkReset"
    ELSE IF ActiveEntry(ctl[d].state, init[d]) THEN "active"
    ELSE "reset"

LeaveActive(d) ==
    LET quiet == RxDeactive(d) /\ StallDone(d) IN
    IF PhyError(d) THEN "linkError"
    ELSE IF Entry(d, "disabled") /\ quiet THEN "disabled"
    ELSE IF Entry(d, "linkReset") /\ quiet THEN "linkReset"
    ELSE IF PhyRetrain(d) /\ quiet THEN "retrain"
    ELSE "active"

LeaveRetrain(d) ==
    IF PhyError(d) THEN "linkError"
    ELSE IF Entry(d, "disabled") THEN "disabled"
    ELSE IF Entry(d, "linkReset") THEN "linkReset"
    ELSE "retrain"

LeaveLinkError(d) ==
    IF (proto[d].req = "active" \/ PhyError(d)) /\ RxDeactive(d) THEN "reset" ELSE "linkError"

LeaveDisabled(d) ==
    IF PhyError(d) THEN "linkError"
    ELSE IF proto[d].req = "active" \/ rdi[d].state = "reset" THEN "reset"
    ELSE "disabled"

LeaveLinkReset(d) ==
    IF PhyError(d) THEN "linkError"
    ELSE IF Entry(d, "disabled") /\ RxDeactive(d) THEN "disabled"
    ELSE IF proto[d].req = "active" \/ rdi[d].state = "reset" THEN "reset"
    ELSE "linkReset"

NextState(d) ==
    CASE ctl[d].state = "reset"     -> LeaveReset(d)
      [] ctl[d].state = "active"    -> LeaveActive(d)
      [] ctl[d].state = "retrain"   -> LeaveRetrain(d)
      [] ctl[d].state = "linkError" -> LeaveLinkError(d)
      [] ctl[d].state = "disabled"  -> LeaveDisabled(d)
      [] ctl[d].state = "linkReset" -> LeaveLinkReset(d)

(* The other registers of the controller.                                   *)
Leaving(d) == Entry(d, "linkReset") \/ Entry(d, "disabled")

NextRxReq(d) ==
    IF ctl[d].state = "active"
    THEN ~Leaving(d) /\ ~PhyRetrain(d) /\ ~PhyError(d)
    ELSE ~Leaving(d) /\ ~PhyError(d) /\ RxActiveReq(ctl[d].state, init[d])

NextInband(d) ==
    CASE ctl[d].state = "reset" -> ~PhyError(d) /\ InbandPres(ctl[d].state, init[d])
      [] ctl[d].state \in {"linkError", "disabled", "linkReset"} -> FALSE
      [] OTHER -> ~PhyError(d)

\* Faulty variant: a link state is written where a request belongs.
NextRdiReq_state(d) ==
    LET active == proto[d].req = "active" IN
    CASE ctl[d].state = "reset"     -> RdiStateReq(ctl[d].state, init[d])
      [] ctl[d].state = "active"    -> IF PhyRetrain(d) THEN "retrain" ELSE ctl[d].rdireq
      [] ctl[d].state = "retrain"   -> "nop"
      [] ctl[d].state = "linkError" -> IF active /\ PhyError(d) THEN "active" ELSE "reset"
      [] ctl[d].state = "disabled"  -> IF active THEN "active" ELSE "disabled"
      [] ctl[d].state = "linkReset" -> IF active THEN "active" ELSE "linkReset"

NextRdiReq(d) ==
    LET active == proto[d].req = "active" IN
    CASE ctl[d].state = "reset"     -> RdiStateReq(ctl[d].state, init[d])
      [] ctl[d].state = "active"    -> IF PhyRetrain(d) THEN "retrain" ELSE ctl[d].rdireq
      [] ctl[d].state = "retrain"   -> "nop"
      [] ctl[d].state = "linkError" -> IF active /\ PhyError(d) THEN "active" ELSE "nop"
      [] ctl[d].state = "disabled"  -> IF active THEN "active" ELSE "disabled"
      [] ctl[d].state = "linkReset" -> IF active THEN "active" ELSE "linkReset"

NextCtl(d) ==
    [state     |-> NextState(d),
     prev      |-> proto[d].req,
     stallreq  |-> ctl[d].state = "active" /\ (Leaving(d) \/ PhyRetrain(d)),
     rxreq     |-> NextRxReq(d),
     inband    |-> NextInband(d),
     rdireq    |-> NextRdiReq(d),
     linkerror |-> fault[d]]

NextStall(d) ==
    [fdi    |-> FdiStallNext(stall[d].fdi, ctl[d].stallreq, proto[d].ack),
     rdi    |-> RdiStallNext(stall[d].rdi, RdiStallReq(rdi[d]), stall[d].closed),
     closed |-> StallRegNext(stall[d].closed, MainbandStallReq(stall[d].rdi), ctl[d].state)]

(* The protocol layer: it asks for active when the link is in reset and the *)
(* other side is present, and at once after a link reset.                   *)
ReqActive(d) ==
    \/ ctl[d].state = "reset" /\ proto[d].req = "nop" /\ ctl[d].inband
    \/ ctl[d].state = "linkReset"

NextRx(d) ==
    IF RxFollows THEN ctl[d].rxreq
    ELSE proto[d].rx \/ (ctl[d].rxreq /\ ctl[d].state = "active")

NextProto(d, ask) ==
    [rx  |-> NextRx(d),
     req |-> IF ReqActive(d) THEN "active" ELSE ask,
     ack |-> FdiStallReq(stall[d].fdi)]

(* The exchange of an RDI message: SBMsgWrapper reports success when its     *)
(* message has been taken and the partner's same message has come.          *)
RdiMessage(d) == IF rdi[d].sub = "REQ_ACTIVE_SEND" THEN Req("rdi") ELSE Rsp("rdi")
RdiAccepted(d) == RdiMsgValid(rdi[d]) /\ training[d] = "linkInit"
RdiDone(d) ==
    /\ RdiStatusReady(rdi[d]) /\ training[d] = "linkInit"
    /\ (IF rdi[d].sub = "REQ_ACTIVE_WAIT" THEN Req("rdi") ELSE Rsp("rdi")) \in heard[d]

NextRdi(d) ==
    RdiNext(rdi[d], ctl[d].rdireq, ctl[d].linkerror \/ training[d] = "linkError",
            RdiStallAck(stall[d].rdi), RdiAccepted(d), RdiDone(d))

NextTraining(d) ==
    IF rdi[d].state \in {"active", "retrain", "linkError"} THEN rdi[d].state ELSE training[d]

\* A message that comes when the submodule it is for does not work, or the
\* initialisation is in another sub-state.
Deaf(d, m) ==
    CASE m = AdvCap        -> ctl[d].state # "reset" \/ init[d].st # "PARAM_EXCH"
      [] m.of = "active"   -> ctl[d].state # "reset" \/ init[d].st # "FDI_BRINGUP"
      [] m.of \in ExitTargets -> ctl[d].state \notin WorksIn(m.of)

-------------------------------------------------------------------------------
(* One clock edge of die d.  rdy: the sideband takes the offered message.   *)
(* take: a message of the partner is complete in this edge.                 *)
Sent(d, rdy) ==
    (IF rdy THEN <<SbSnd(d)>> ELSE <<>>) \o (IF RdiAccepted(d) THEN <<RdiMessage(d)>> ELSE <<>>)

Edge(d, rdy, take, ask) ==
    LET rcv == IF take THEN Head(inbox[d]) ELSE Nop
        sb  == SbRdy(d, rdy)
        e   == Other(d)
    IN
    /\ ask # "nop" => asks > 0 /\ Room /\ ctl[d].state \in AskIn
    /\ asks' = IF ask = "nop" THEN asks ELSE asks - 1
    /\ rdy => SbSnd(d) # Nop
    /\ take => inbox[d] # <<>> /\ beats[d] = 0
    /\ ctl' = [ctl EXCEPT ![d] = NextCtl(d)]
    /\ init' = [init EXCEPT ![d] =
                   InitNext(ctl[d].state, @, proto[d].rx, proto[d].req, ctl[d].prev,
                            rdi[d].state, PhyPresent \/ training[d] = "active",
                            sb.init, rcv)]
    /\ exit' = [exit EXCEPT ![d] = [to \in ExitTargets |->
                   ExitNext(to, ctl[d].state, @[to], proto[d].req, ctl[d].prev,
                            sb[to], rcv)]]
    /\ stall' = [stall EXCEPT ![d] = NextStall(d)]
    /\ proto' = [proto EXCEPT ![d] = NextProto(d, ask)]
    /\ rdi' = [rdi EXCEPT ![d] = NextRdi(d)]
    /\ training' = [training EXCEPT ![d] = NextTraining(d)]
    /\ heard' = [heard EXCEPT ![d] = @ \cup ({rcv} \cap RdiMessages)]
    /\ beats' = [beats EXCEPT ![d] = IF take \/ inbox[d] = <<>> THEN Beats
                                    ELSE IF @ > 0 THEN @ - 1 ELSE 0]
    /\ inbox' = [inbox EXCEPT ![d] = IF take THEN Tail(@) ELSE @,
                              ![e] = @ \o Sent(d, rdy)]
    /\ left' = [left EXCEPT ![d] = IF NextState(d) \in ExitTargets \ {ctl[d].state}
                                  THEN @ + 1 ELSE @]
    /\ lost' = [lost EXCEPT ![d] = IF rcv \in AdapterMessages /\ Deaf(d, rcv)
                                  THEN @ \cup {rcv} ELSE @]
    /\ UNCHANGED pins

Tick(d) == \E rdy, take \in BOOLEAN, ask \in ExitRequests \cup {"nop"} : Edge(d, rdy, take, ask)

RaiseFault(d) ==
    /\ ~fault[d] /\ faults > 0 /\ Room
    /\ fault' = [fault EXCEPT ![d] = TRUE]
    /\ faults' = faults - 1
    /\ UNCHANGED <<regs, inbox, beats, history, asks>>

ClearFault(d) ==
    /\ fault[d]
    /\ fault' = [fault EXCEPT ![d] = FALSE]
    /\ UNCHANGED <<regs, inbox, beats, history, asks, faults>>

Next == \E d \in Die :
    \/ Tick(d)
    \/ RaiseFault(d)
    \/ ClearFault(d)

\* The clocks run, the sideband takes what is offered long enough, and a
\* message on its way arrives.
Fairness == \A d \in Die :
    /\ WF_vars(Tick(d))
    /\ WF_vars(\E take \in BOOLEAN : Edge(d, TRUE, take, "nop"))
    /\ WF_vars(\E rdy \in BOOLEAN : Edge(d, rdy, TRUE, "nop"))

Spec == Init /\ [][Next]_vars
FairSpec == Spec /\ Fairness

-------------------------------------------------------------------------------
(* Properties.                                                              *)

NoMessageLost == \A d \in Die : lost[d] = {}
BothIn(state) == \A d \in Die : ctl[d].state = state

\* One request of a user takes a die out of the link at most once: the flags of
\* the two exit submodules, set by messages that may come late, do not take it
\* out again when it is back in reset (link_reset_submodule.cpp:50-103).
LeftOnce == \A d \in Die : left[d] <= MaxAsks - asks

\* A die goes to active only when the receiver of its partner is on: the ACTIVE
\* response is a promise that still holds when it is acted upon
\* (link_init_submodule.cpp:116-146, 211-225).
ReceiverFirst ==
    [][\A d \in Die : ctl[d].state # "active" /\ ctl'[d].state = "active"
                         => proto[Other(d)].rx]_vars

\* The PHY leaves active only when the mainband above it has stopped, except for
\* an error (no stall by design) and for disabled: there the request stays on,
\* and the second edge of it overrides the wait for the acknowledgement
\* (rdi_bringup.cpp:129, 161-165).
MainbandStopped ==
    [][\A d \in Die :
         rdi[d].state = "active" /\ rdi'[d].state \in {"reset", "retrain", "linkReset"}
            => stall[d].closed]_vars

\* The link settles: both dies are active for good, after a link reset too, or
\* both disabled, unless a fault was reported or a message came to a die that
\* was not ready for it and left no trace.
Settles ==
    <>[](\/ BothIn("active") \/ BothIn("disabled")
         \/ ~NoMessageLost \/ faults < MaxFaults)

\* The two dies leave the link together: when all is quiet each has left as
\* often as the other, unless a message left no trace.
LeaveTogether == <>[](~NoMessageLost \/ \A d, e \in Die : left[d] = left[e])

\* The link comes up: what the tests of the controller and of the link
\* initialisation establish for one adapter between drivers.
BringUp == <>[]BothIn("active")
===============================================================================
