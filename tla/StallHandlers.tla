---------------------------- MODULE StallHandlers ----------------------------
(***************************************************************************)
(* The two handlers of the four-phase stall handshakes (stall_handler.cpp) *)
(* and the register of the mainband that answers one of them               *)
(* (d2d_mainband_module.cpp).  The output registers of a handler are a     *)
(* function of its state register, so the state stands for all of them.    *)
(***************************************************************************)

\* FDI: the controller asks, the protocol layer acknowledges.
FdiStallStates == {"IDLE", "REQSNT", "REQFALL", "COMPLETE"}
FdiStallReq(st) == st = "REQSNT"        \* io.fdi_pl_stallreq
FdiStallDone(st) == st = "COMPLETE"     \* io.linkmgmt_stalldone

FdiStallNext(st, stallreq, ack) ==
    CASE st = "IDLE"     -> IF stallreq /\ ~ack THEN "REQSNT" ELSE st
      [] st = "REQSNT"   -> IF ack THEN "REQFALL" ELSE st
      [] st = "REQFALL"  -> IF ~ack THEN "COMPLETE" ELSE st
      [] st = "COMPLETE" -> IF ~stallreq THEN "IDLE" ELSE st

\* RDI: the PHY asks, the mainband stops.
RdiStallStates == {"IDLE", "REQSNT", "REQFALL"}
MainbandStallReq(st) == st # "IDLE"     \* io.mainband_stallreq
RdiStallAck(st) == st = "REQFALL"       \* io.rdi_lp_stallack

RdiStallNext(st, stallreq, stalldone) ==
    CASE st = "IDLE"    -> IF stallreq THEN "REQSNT" ELSE st
      [] st = "REQSNT"  -> IF stalldone THEN "REQFALL" ELSE st
      [] st = "REQFALL" -> IF ~stallreq THEN "IDLE" ELSE st

\* _stall_reg of the mainband, which is also mainband_stalldone and closes the
\* data path: set while a stall is asked for, cleared only out of active.
StallRegNext(stalled, req, state) == req \/ (stalled /\ state = "active")
===============================================================================
