------------------------------- MODULE LinkExit -------------------------------
(***************************************************************************)
(* The handshake by which two dies leave a working link together           *)
(* (link_reset_submodule.cpp, link_disabled_submodule.cpp).  The two       *)
(* submodules differ in their target state, their messages and the link    *)
(* states they work in, so one set of operators models both: `to' is       *)
(* "linkReset" or "disabled".                                              *)
(*                                                                         *)
(* The module owns no variable.  A submodule is a record of its five       *)
(* registers; ExitNext is its calcNextState, from the wires of one clock   *)
(* edge to the registers after it.                                         *)
(***************************************************************************)
\* Sideband messages (types.hpp, SideBandMessage): what is asked and for which
\* state.
Nop == [op |-> "nop", of |-> "nop"]
Req(state) == [op |-> "req", of |-> state]
Rsp(state) == [op |-> "rsp", of |-> state]

ExitTargets == {"linkReset", "disabled"}

\* The link states in which a submodule works; it is held idle in the others.
WorksIn(to) ==
    {"reset", "active", "retrain"} \cup (IF to = "disabled" THEN {"linkReset"} ELSE {})

\* want: _fdi_req_reg; reqRcv, rspRcv: what came from the partner;
\* reqSnt, rspSnt: what the sideband took from here.
ExitRegs == [want: BOOLEAN, reqRcv: BOOLEAN, rspRcv: BOOLEAN,
             reqSnt: BOOLEAN, rspSnt: BOOLEAN]

ExitIdle == [want |-> FALSE, reqRcv |-> FALSE, rspRcv |-> FALSE,
             reqSnt |-> FALSE, rspSnt |-> FALSE]

\* Faulty variant: the die that answers does not count itself as done.
ExitEntry_asker(to, state, x) == state \in WorksIn(to) /\ x.rspRcv

\* io.linkreset_entry and io.disabled_entry: the handshake is over on this side.
ExitEntry(to, state, x) == state \in WorksIn(to) /\ (x.rspSnt \/ x.rspRcv)

\* The message the submodule offers to the sideband.
ExitSnd(to, state, x) ==
    IF state \notin WorksIn(to) THEN Nop
    ELSE IF x.want /\ ~x.reqRcv /\ ~x.reqSnt THEN Req(to)
    ELSE IF x.reqRcv /\ ~x.rspSnt THEN Rsp(to)
    ELSE Nop

\* Faulty variant: the registers are not cleared in the states the submodule
\* does not work in.
ExitNext_keeps(to, state, x, lp, prev, rdy, rcv) ==
    LET snd == ExitSnd(to, state, x) IN
    IF state \notin WorksIn(to) THEN x
    ELSE [want   |-> x.want \/ (lp = to /\ (state = "reset" => prev = "nop")),
          reqRcv |-> x.reqRcv \/ rcv = Req(to),
          rspRcv |-> x.rspRcv \/ rcv = Rsp(to),
          reqSnt |-> x.reqSnt \/ (rdy /\ snd = Req(to)),
          rspSnt |-> x.rspSnt \/ (rdy /\ snd = Rsp(to))]

\* One clock edge.  lp and prev are the request of the protocol layer now and
\* one edge ago, rdy says that the sideband takes what the submodule offers,
\* rcv is the message received in this edge.
ExitNext(to, state, x, lp, prev, rdy, rcv) ==
    LET snd == ExitSnd(to, state, x) IN
    IF state \notin WorksIn(to) THEN ExitIdle
    ELSE [want   |-> x.want \/ (lp = to /\ (state = "reset" => prev = "nop")),
          reqRcv |-> x.reqRcv \/ rcv = Req(to),
          rspRcv |-> x.rspRcv \/ rcv = Rsp(to),
          reqSnt |-> x.reqSnt \/ (rdy /\ snd = Req(to)),
          rspSnt |-> x.rspSnt \/ (rdy /\ snd = Rsp(to))]
===============================================================================
