----------------------------- MODULE LinkTraining -----------------------------
(***************************************************************************)
(* Two PHYs training their link (link_training_fsm.cpp): out of reset when *)
(* the PLLs have locked, the sideband opened by a clock pattern and three  *)
(* exchanges of messages, the mainband initialised by two more.  Each PHY  *)
(* has a clock; an edge of it moves the registers of the training machine  *)
(* and of its submodules at once.  LinkManagement goes on from linkInit.   *)
(* The sideband between the dies is the interface the tests of the machine *)
(* drive: a word that was taken arrives, in order, after any delay, unless *)
(* it is lost.                                                             *)
(***************************************************************************)
EXTENDS Sequences, PatternClock, ParamExchange

CONSTANTS
    Die,         \* the two dies
    OfferedRate, \* the maximum data rate of each die
    LockWait,    \* pll_wait_time - 1, the period of the counter
    Capacity,    \* words that can be on their way to a die
    MaxLosses    \* bound: words that may be lost

ASSUME DieAssumption == \E a, b \in Die : a # b /\ Die = {a, b}
ASSUME TrainingAssumption ==
    /\ OfferedRate \in [Die -> Nat]
    /\ LockWait \in Nat \ {0} /\ Capacity \in Nat \ {0} /\ MaxLosses \in Nat

VARIABLES
    fsm,      \* registers of the training machine
    pattern,  \* registers of the pattern generator
    msg,      \* registers of the message wrapper
    param,    \* registers of the mainband initialisation
    wire,     \* words on their way to the die
    patient,  \* no time given to an exchange runs out
    lost,     \* history: words lost
    began, done, \* history: the exchanges begun, and those reported complete
    blind,    \* history: the requested rate was read when no request was there
    wrapped   \* history: the counter of the patterns seen has wrapped

regs == <<fsm, pattern, msg, param>>
history == <<lost, began, done, blind, wrapped>>
vars == <<regs, wire, patient, history>>

Other(d) == CHOOSE e \in Die : e # d

TrainingStates == {"reset", "sbInit", "mbInit", "linkInit", "linkError"}
ResetSubStates == {"INIT", "FREQ_SEL_CYC_WAIT", "FREQ_SEL_LOCK_WAIT"}
SbInitSubStates == {"SEND_CLOCK", "WAIT_CLOCK", "SB_OUT_OF_RESET_EXCH", "SB_OUT_OF_RESET_WAIT",
                    "SB_DONE_REQ", "SB_DONE_REQ_WAIT", "SB_DONE_RESP", "SB_DONE_RESP_WAIT"}

Rates == {0} \cup {OfferedRate[d] : d \in Die}
Words == [code: Codes, rate: Rates]

TypeOK ==
    /\ fsm \in [Die -> [st: TrainingStates, rst: ResetSubStates, sb: SbInitSubStates,
                        count: 0..(LockWait - 1)]]
    /\ pattern \in [Die -> PatternRegs]
    /\ msg \in [Die -> [st: ExchangeStates, sent: BOOLEAN,
                        received: BOOLEAN, req: Words, ok: BOOLEAN, data: Rates]]
    /\ param \in [Die -> [st: ParamStates, sub: ParamSubStates, rate: Rates, got: Rates]]
    /\ wire \in [Die -> Seq(Words)] /\ \A d \in Die : Len(wire[d]) <= Capacity
    /\ patient \in BOOLEAN
    /\ lost \in 0..MaxLosses
    /\ began \in [Die -> SUBSET Codes] /\ done \in [Die -> SUBSET Codes]
    /\ blind \in [Die -> BOOLEAN] /\ wrapped \in BOOLEAN

Init ==
    /\ fsm = [d \in Die |-> [st |-> "reset", rst |-> "INIT", sb |-> "SEND_CLOCK", count |-> 0]]
    /\ pattern = [d \in Die |-> PatternIdle]
    /\ msg = [d \in Die |-> ExchangeIdle]
    /\ param = [d \in Die |-> ParamReset(OfferedRate[d])]
    /\ wire = [d \in Die |-> <<>>]
    /\ patient \in BOOLEAN
    /\ lost = 0
    /\ began = [d \in Die |-> {}] /\ done = [d \in Die |-> {}]
    /\ blind = [d \in Die |-> FALSE] /\ wrapped = FALSE

-------------------------------------------------------------------------------
(* The wires of the training machine.                                       *)
InSbInit(d, subs) == fsm[d].st = "sbInit" /\ fsm[d].sb \in subs
UsesPattern(d) ==
    InSbInit(d, {"SEND_CLOCK", "WAIT_CLOCK"})
        \/ fsm[d].st \notin {"sbInit", "mbInit", "linkInit"}

AsksPattern(d) == InSbInit(d, {"SEND_CLOCK"})
PatternReady(d) == InSbInit(d, {"WAIT_CLOCK"})

MsgValid(d) ==
    \/ InSbInit(d, {"SB_OUT_OF_RESET_EXCH", "SB_DONE_REQ", "SB_DONE_RESP"})
    \/ fsm[d].st = "mbInit" /\ ParamValid(param[d])

MsgOf(d) ==
    CASE fsm[d].st = "mbInit" -> ParamMsg(param[d])
      [] InSbInit(d, {"SB_OUT_OF_RESET_EXCH"}) -> Word("OUT_OF_RESET", 0)
      [] InSbInit(d, {"SB_DONE_REQ"}) -> Word("DONE_REQ", 0)
      [] InSbInit(d, {"SB_DONE_RESP"}) -> Word("DONE_RESP", 0)
      [] OTHER -> NoWord

StatusReady(d) ==
    \/ InSbInit(d, {"SB_OUT_OF_RESET_WAIT", "SB_DONE_REQ_WAIT", "SB_DONE_RESP_WAIT"})
    \/ fsm[d].st = "mbInit" /\ ParamReady(param[d])

\* A request is taken, a status is read.
Accepted(d) == MsgValid(d) /\ msg[d].st = "IDLE"
Status(d) == Reports(msg[d]) /\ StatusReady(d)
PatternStatus(d) == pattern[d].valid /\ PatternReady(d)

\* The sideband: what the die sends and whether it is ready to receive.
RxReady(d) == IF UsesPattern(d) THEN pattern[d].busy ELSE Exchanging(msg[d])
Sends(d) == IF pattern[d].busy THEN Clock
            ELSE IF Exchanging(msg[d]) THEN msg[d].req ELSE NoWord
Fires(d) == Sends(d) # NoWord /\ Len(wire[Other(d)]) < Capacity

-------------------------------------------------------------------------------
(* The training machine; lock: both PLLs are locked.                        *)
InMbInit(d) == fsm[d].st = "mbInit"
ParamStatus(d) == InMbInit(d) /\ Status(d)

\* _next_state.
NextState(d, lock) ==
    LET failed == \/ PatternStatus(d) /\ ~pattern[d].ok
                  \/ Status(d) /\ ~msg[d].ok
    IN
    CASE fsm[d].st = "reset" /\ fsm[d].rst = "FREQ_SEL_LOCK_WAIT" /\ lock -> "sbInit"
      [] fsm[d].st = "sbInit" /\ failed -> "linkError"
      [] InSbInit(d, {"SB_DONE_RESP_WAIT"}) /\ Status(d) /\ msg[d].ok -> "mbInit"
      [] InMbInit(d) /\ ParamTransition(param[d], ParamStatus(d), msg[d].ok) ->
             IF ParamError(param[d]) THEN "linkError" ELSE "linkInit"
      [] OTHER -> fsm[d].st

ResetSub(d, lock) ==
    CASE fsm[d].st = "reset" /\ fsm[d].rst = "INIT" /\ lock -> "FREQ_SEL_CYC_WAIT"
      [] fsm[d].st = "reset" /\ fsm[d].rst = "FREQ_SEL_CYC_WAIT"
            /\ fsm[d].count + 1 = LockWait -> "FREQ_SEL_LOCK_WAIT"
      [] OTHER -> fsm[d].rst

SbSub(d) ==
    CASE AsksPattern(d) /\ ~pattern[d].busy -> "WAIT_CLOCK"
      [] PatternStatus(d) /\ pattern[d].ok -> "SB_OUT_OF_RESET_EXCH"
      [] InSbInit(d, {"SB_OUT_OF_RESET_EXCH"}) /\ Accepted(d) -> "SB_OUT_OF_RESET_WAIT"
      [] InSbInit(d, {"SB_OUT_OF_RESET_WAIT"}) /\ Status(d) /\ msg[d].ok -> "SB_DONE_REQ"
      [] InSbInit(d, {"SB_DONE_REQ"}) /\ Accepted(d) -> "SB_DONE_REQ_WAIT"
      [] InSbInit(d, {"SB_DONE_REQ_WAIT"}) /\ Status(d) /\ msg[d].ok -> "SB_DONE_RESP"
      [] InSbInit(d, {"SB_DONE_RESP"}) /\ Accepted(d) -> "SB_DONE_RESP_WAIT"
      [] OTHER -> fsm[d].sb

NextFsm(d, lock) ==
    [st    |-> NextState(d, lock),
     rst   |-> ResetSub(d, lock),
     sb    |-> SbSub(d),
     count |-> IF fsm[d].st = "reset" /\ fsm[d].rst = "INIT" THEN 0
               ELSE IF fsm[d].st = "reset" THEN (fsm[d].count + 1) % LockWait
               ELSE fsm[d].count]

\* Entering mbInit resets the mainband initialisation.
NextParam(d, lock) ==
    IF NextState(d, lock) = "mbInit" /\ ~InMbInit(d) THEN ParamReset(OfferedRate[d])
    ELSE ParamNext(param[d], InMbInit(d) /\ Accepted(d), ParamStatus(d), msg[d].ok, msg[d].data)

-------------------------------------------------------------------------------
\* One clock edge of die d.  hear: a word of the partner comes in; stale: the
\* rate on the wires of the receiver when none does; late: the time is up.
Edge(d, lock, hear, stale, late) ==
    LET e      == Other(d)
        word   == IF hear THEN Head(wire[d]) ELSE NoWord
        heard  == IF UsesPattern(d) THEN NoWord ELSE word
        fired  == Fires(d)
        ends   == Exchanging(msg[d]) /\ Complete(msg[d], fired, heard)
    IN
    /\ late => ~patient /\ (pattern[d].busy \/ Exchanging(msg[d]))
    /\ hear => RxReady(d) /\ wire[d] # <<>>
    /\ stale # 0 => ends /\ ~hear /\ msg[d].req.code = "PARAM_REQ"
    /\ fsm' = [fsm EXCEPT ![d] = NextFsm(d, lock)]
    /\ pattern' = [pattern EXCEPT ![d] =
                      PatternNext(@, AsksPattern(d), PatternStatus(d), fired,
                                  UsesPattern(d) /\ word = Clock, late)]
    /\ msg' = [msg EXCEPT ![d] =
                  ExchangeNext(@, MsgValid(d), MsgOf(d), StatusReady(d), fired, heard,
                               IF hear THEN word.rate ELSE stale, late)]
    /\ param' = [param EXCEPT ![d] = NextParam(d, lock)]
    /\ wire' = [wire EXCEPT ![d] = IF hear THEN Tail(@) ELSE @,
                            ![e] = IF fired THEN Append(@, Sends(d)) ELSE @]
    /\ began' = [began EXCEPT ![d] = IF Accepted(d) THEN @ \cup {MsgOf(d).code} ELSE @]
    /\ done' = [done EXCEPT ![d] = IF Status(d) /\ msg[d].ok THEN @ \cup {msg[d].req.code}
                                   ELSE @]
    /\ blind' = [blind EXCEPT ![d] =
                    @ \/ (ends /\ msg[d].req.code = "PARAM_REQ" /\ word.code # "PARAM_REQ")]
    /\ wrapped' = (wrapped \/ (pattern'[d].busy /\ pattern'[d].seen < pattern[d].seen))
    /\ UNCHANGED <<patient, lost>>

Tick(d) == \E lock, hear, late \in BOOLEAN, stale \in Rates : Edge(d, lock, hear, stale, late)

\* A word is lost on its way.
Lose(d) ==
    /\ ~patient /\ lost < MaxLosses /\ wire[d] # <<>>
    /\ wire' = [wire EXCEPT ![d] = Tail(@)]
    /\ lost' = lost + 1
    /\ UNCHANGED <<regs, patient, began, done, blind, wrapped>>

Next == \E d \in Die : Tick(d) \/ Lose(d)

\* The clocks run, the PLLs lock, a word on its way arrives, and the time runs
\* out unless it is long enough.
Fairness == \A d \in Die :
    /\ WF_vars(\E hear, late \in BOOLEAN, stale \in Rates : Edge(d, TRUE, hear, stale, late))
    /\ WF_vars(\E late \in BOOLEAN, stale \in Rates : Edge(d, TRUE, TRUE, stale, late))
    /\ WF_vars(\E hear \in BOOLEAN, stale \in Rates : Edge(d, TRUE, hear, stale, TRUE))

Spec == Init /\ [][Next]_vars
FairSpec == Spec /\ Fairness

-------------------------------------------------------------------------------
(* Properties.                                                              *)
Trained(d) == param[d].st = "IDLE"

\* An exchange that ends well was an exchange: the partner had begun the same
\* one.  What is left on the sideband of the exchanges before, repeated in every
\* edge until they ended, completes none (sb_msg_wrapper.cpp:67-77).
InStep == \A d \in Die : done[d] \subseteq began[Other(d)]

\* A die whose parameter exchange has ended well has a partner that knows its
\* rate and is through the sideband initialisation for good.  More cannot be
\* said: a partner whose time is up in the last exchange goes on to linkInit too,
\* for the error is seen one edge late (mb_init_fsm.cpp:22-29,
\* link_training_fsm.cpp:328-333).
TrainedTogether ==
    \A d \in Die : Trained(d) =>
        "PARAM_REQ" \in done[Other(d)] /\ fsm[Other(d)].st \in {"mbInit", "linkInit"}

\* Two dies that have exchanged their parameters work at the same data rate, the
\* smaller of the two, unless one read the partner's rate in an edge in which
\* the request was no longer on the wires: the wrapper takes the data when the
\* exchange is complete, not when the message comes (sb_msg_wrapper.cpp:98-101).
RatesAgree ==
    \A d, e \in Die : Trained(d) /\ Trained(e) /\ ~blind[d] /\ ~blind[e] =>
        param[d].rate = param[e].rate /\ param[d].rate <= OfferedRate[d]

\* The training ends, well or not: every exchange is limited in time.
Ends == \A d \in Die :
    <>[](patient \/ fsm[d].st \in {"linkInit", "linkError"})

\* If no word is lost and no time is up, both dies are trained: neither leaves an
\* exchange before the partner can leave it too, and words of one phase that are
\* still on the way do not hold up the next.  Not so if four patterns come before
\* two are sent: the register that counts the patterns seen is then zero again
\* (pattern_generator.cpp:19, 97), and the partner may have stopped.
Trains == <>[](~patient \/ lost > 0 \/ wrapped \/ \A d \in Die : Trained(d))
===============================================================================
