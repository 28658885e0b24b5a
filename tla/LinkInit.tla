------------------------------- MODULE LinkInit -------------------------------
(***************************************************************************)
(* The initialisation of a link by the adapter, between reset and active   *)
(* (link_init_submodule.cpp): wait for the PHY, exchange the capabilities, *)
(* exchange ACTIVE requests and responses.  Operators over the record of   *)
(* the submodule's registers, as in LinkExit.                              *)
(***************************************************************************)
EXTENDS LinkExit

AdvCap == [op |-> "adv", of |-> "cap"]

InitStates == {"INIT_START", "RDI_BRINGUP", "PARAM_EXCH", "FDI_BRINGUP", "INIT_DONE"}

\* st: _linkinit_state_reg; advRcv, advSnt: the flags of the capability
\* exchange; the others belong to the ACTIVE handshake, want is
\* _transition_to_active_reg.
InitRegs == [st: InitStates, advRcv: BOOLEAN, advSnt: BOOLEAN, reqRcv: BOOLEAN,
             rspRcv: BOOLEAN, reqSnt: BOOLEAN, rspSnt: BOOLEAN, want: BOOLEAN]

InitIdle == [st |-> "INIT_START", advRcv |-> FALSE, advSnt |-> FALSE, reqRcv |-> FALSE,
             rspRcv |-> FALSE, reqSnt |-> FALSE, rspSnt |-> FALSE, want |-> FALSE]

\* The wires to the controller; all are off when the link is not in reset.
InbandPres(state, i) == state = "reset" /\ i.st \in {"FDI_BRINGUP", "INIT_DONE"}

RxActiveReq(state, i) ==
    state = "reset" /\ (i.st = "INIT_DONE" \/ (i.st = "FDI_BRINGUP" /\ i.reqRcv))

RdiStateReq(state, i) ==
    IF state = "reset" /\ i.st # "INIT_START" THEN "active" ELSE "nop"

ActiveEntry(state, i) == state = "reset" /\ i.st = "INIT_DONE"

\* Faulty variant: the response does not wait for the receiver.
InitSnd_early(state, i, rx) ==
    IF state # "reset" THEN Nop
    ELSE IF i.st = "PARAM_EXCH" /\ ~i.advSnt THEN AdvCap
    ELSE IF i.st = "FDI_BRINGUP" /\ i.reqRcv /\ ~i.rspSnt THEN Rsp("active")
    ELSE IF i.st = "FDI_BRINGUP" /\ i.want /\ ~i.reqSnt THEN Req("active")
    ELSE Nop

\* The message the submodule offers; rx is fdi_lp_rxactive_sts.
InitSnd(state, i, rx) ==
    IF state # "reset" THEN Nop
    ELSE IF i.st = "PARAM_EXCH" /\ ~i.advSnt THEN AdvCap
    ELSE IF i.st = "FDI_BRINGUP" /\ rx /\ i.reqRcv /\ ~i.rspSnt THEN Rsp("active")
    ELSE IF i.st = "FDI_BRINGUP" /\ i.want /\ ~i.reqSnt THEN Req("active")
    ELSE Nop

\* Faulty variant: the exchange is over when the response has come.
InitStep_half(i, rdi, pres) ==
    CASE i.st = "INIT_START"  -> IF pres THEN "RDI_BRINGUP" ELSE i.st
      [] i.st = "RDI_BRINGUP" -> IF rdi = "active" THEN "PARAM_EXCH" ELSE i.st
      [] i.st = "PARAM_EXCH"  -> IF i.advSnt /\ i.advRcv THEN "FDI_BRINGUP" ELSE i.st
      [] i.st = "FDI_BRINGUP" -> IF i.rspRcv THEN "INIT_DONE" ELSE i.st
      [] i.st = "INIT_DONE"   -> "INIT_DONE"

\* Where the sub-state register goes; rdi is rdi_pl_state_sts, pres
\* rdi_pl_inband_pres.
InitStep(i, rdi, pres) ==
    CASE i.st = "INIT_START"  -> IF pres THEN "RDI_BRINGUP" ELSE i.st
      [] i.st = "RDI_BRINGUP" -> IF rdi = "active" THEN "PARAM_EXCH" ELSE i.st
      [] i.st = "PARAM_EXCH"  -> IF i.advSnt /\ i.advRcv THEN "FDI_BRINGUP" ELSE i.st
      [] i.st = "FDI_BRINGUP" -> IF i.rspSnt /\ i.rspRcv THEN "INIT_DONE" ELSE i.st
      [] i.st = "INIT_DONE"   -> "INIT_DONE"

\* One clock edge.  Every flag is cleared unless the sub-state it belongs to
\* keeps or sets it, so a message that arrives in another sub-state leaves no
\* trace.  Outside reset the flags of the ACTIVE handshake are left alone.
InitNext(state, i, rx, lp, prev, rdi, pres, rdy, rcv) ==
    LET snd == InitSnd(state, i, rx)
        par == i.st = "PARAM_EXCH"
        fdi == i.st = "FDI_BRINGUP"
    IN  IF state # "reset"
        THEN [i EXCEPT !.st = "INIT_START", !.advRcv = FALSE, !.advSnt = FALSE]
        ELSE [st     |-> InitStep(i, rdi, pres),
              advRcv |-> par /\ (i.advRcv \/ rcv = AdvCap),
              advSnt |-> par /\ (i.advSnt \/ (rdy /\ snd = AdvCap)),
              reqRcv |-> fdi /\ (i.reqRcv \/ rcv = Req("active")),
              rspRcv |-> fdi /\ (i.rspRcv \/ rcv = Rsp("active")),
              reqSnt |-> fdi /\ (i.reqSnt \/ (rdy /\ snd = Req("active"))),
              rspSnt |-> fdi /\ (i.rspSnt \/ (rdy /\ snd = Rsp("active"))),
              want   |-> fdi /\ (i.want \/ (lp = "active" /\ prev = "nop"))]
===============================================================================
