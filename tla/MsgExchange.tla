----------------------------- MODULE MsgExchange -----------------------------
(***************************************************************************)
(* One exchange of a training message (sb_msg_wrapper.cpp): the wrapper    *)
(* sends the message it was given again and again until it has been taken  *)
(* once and the message of the same kind has come from the partner, or     *)
(* until the time is up.  Operators over the record of its registers; the  *)
(* counter of the time is left out, the last edge it allows is an input.   *)
(***************************************************************************)
EXTENDS Naturals

\* What the sideband carries: a clock pattern or a message, with the data rate
\* in it if it has one (0 if not).
Codes == {"none", "clock", "OUT_OF_RESET", "DONE_REQ", "DONE_RESP",
          "PARAM_REQ", "PARAM_RESP"}
Word(code, rate) == [code |-> code, rate |-> rate]
NoWord == Word("none", 0)
Clock == Word("clock", 0)

ExchangeStates == {"IDLE", "EXCHANGE", "WAIT_ACK"}
ExchangeIdle == [st |-> "IDLE", sent |-> FALSE, received |-> FALSE,
                 req |-> NoWord, ok |-> FALSE, data |-> 0]

Exchanging(w) == w.st = "EXCHANGE"
Reports(w) == w.st = "WAIT_ACK"

\* Faulty variant: any message of the partner will do.
JustReceived_any(w, word) == word # NoWord

\* messageIsEqual: the kind of the message, not what is in it.
JustReceived(w, word) == word.code = w.req.code

\* Faulty variant: the message of the partner is enough.
Complete_deaf(w, fired, word) == JustReceived(w, word) \/ w.received

\* fired: the message is taken in this edge; word: what comes in this edge.
Complete(w, fired, word) ==
    /\ fired \/ w.sent
    /\ JustReceived(w, word) \/ w.received

\* Faulty variant: only a complete exchange ends.
ExchangeEnds_never(w, fired, word, late) == Complete(w, fired, word)

\* late: the time is up in this edge.
ExchangeEnds(w, fired, word, late) == Complete(w, fired, word) \/ late

\* One clock edge.  valid, msg: the request; taken: the status is read; bits: the
\* rate on the wires of the receiver.  If the time is up in the edge that
\* completes the exchange, it has failed.
ExchangeNext(w, valid, msg, taken, fired, word, bits, late) ==
    CASE w.st = "IDLE" ->
           IF valid THEN [w EXCEPT !.st = "EXCHANGE", !.req = msg] ELSE w
      [] w.st = "EXCHANGE" ->
           [w EXCEPT !.st = IF ExchangeEnds(w, fired, word, late) THEN "WAIT_ACK" ELSE @,
                     !.sent = @ \/ fired,
                     !.received = @ \/ JustReceived(w, word),
                     !.data = IF Complete(w, fired, word) THEN bits ELSE @,
                     !.ok = ~late /\ (@ \/ Complete(w, fired, word))]
      [] w.st = "WAIT_ACK" ->
           IF taken THEN [w EXCEPT !.st = "IDLE", !.sent = FALSE, !.received = FALSE]
           ELSE w
===============================================================================
