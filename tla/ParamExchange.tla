---------------------------- MODULE ParamExchange ----------------------------
(***************************************************************************)
(* The mainband initialisation (mb_init_fsm.cpp): the dies exchange their  *)
(* maximum data rate and then the smaller of the two.  The other           *)
(* parameters are sent but not used, and left out.  Operators over the     *)
(* record of the registers.                                                *)
(***************************************************************************)
EXTENDS MsgExchange

ParamStates == {"PARAM", "IDLE", "ERR"}
ParamSubStates == {"SEND_REQ", "WAIT_REQ", "SEND_RESP", "WAIT_RESP"}

\* The registers at reset, for a die whose maximum rate is rate.
ParamReset(rate) == [st |-> "PARAM", sub |-> "SEND_REQ", rate |-> rate, got |-> 0]

ParamValid(m) == m.st = "PARAM" /\ m.sub \in {"SEND_REQ", "SEND_RESP"}
ParamReady(m) == m.st = "PARAM" /\ m.sub \in {"WAIT_REQ", "WAIT_RESP"}

\* Faulty variant: the larger rate.
AgreedRate_max(m) == IF m.rate >= m.got THEN m.rate ELSE m.got

\* _exchange_max_data_rate.
AgreedRate(m) == IF m.rate >= m.got THEN m.got ELSE m.rate

ParamMsg(m) ==
    IF m.sub = "SEND_REQ" THEN Word("PARAM_REQ", m.rate) ELSE Word("PARAM_RESP", AgreedRate(m))

\* Faulty variant: the response is not waited for.
ParamState_early(m, status, ok) ==
    CASE ParamReady(m) /\ status /\ ~ok -> "ERR"
      [] ParamReady(m) /\ status /\ ok -> "IDLE"
      [] OTHER -> m.st

\* status: the exchange reports; ok: what it reports.
ParamState(m, status, ok) ==
    CASE ParamReady(m) /\ status /\ ~ok -> "ERR"
      [] ParamReady(m) /\ status /\ ok /\ m.sub = "WAIT_RESP" -> "IDLE"
      [] OTHER -> m.st

\* What the training machine sees: a transition to an end state, computed from
\* the next state, and an error, read from the state itself.
ParamTransition(m, status, ok) == ParamState(m, status, ok) \in {"IDLE", "ERR"}
ParamError(m) == m.st = "ERR"

\* One clock edge; accepted: the message was given to the wrapper; data: the rate
\* the exchange reports.
ParamNext(m, accepted, status, ok, data) ==
    LET heard == ParamReady(m) /\ m.sub = "WAIT_REQ" /\ status IN
    [st   |-> ParamState(m, status, ok),
     sub  |-> CASE m.sub = "SEND_REQ" /\ accepted -> "WAIT_REQ"
                [] heard /\ ok -> "SEND_RESP"
                [] m.sub = "SEND_RESP" /\ accepted -> "WAIT_RESP"
                [] OTHER -> m.sub,
     rate |-> IF m.st = "PARAM" /\ m.sub = "SEND_RESP" THEN AgreedRate(m) ELSE m.rate,
     got  |-> IF heard THEN data ELSE m.got]
===============================================================================
