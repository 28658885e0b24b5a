----------------------------- MODULE PatternClock -----------------------------
(***************************************************************************)
(* The clock pattern that opens the sideband (pattern_generator.cpp): it   *)
(* is sent until it has been sent twice and seen once, or the time is up.  *)
(* Operators over the record of the generator's registers; the counter of  *)
(* the time is left out, the last edge it allows is an input.              *)
(***************************************************************************)
EXTENDS Naturals

\* Both counters are small registers (pattern_generator.cpp:19-20): the 2 bits
\* of the words written, and the 9 bits of the pattern bits seen, of which a
\* word brings 128, start again after four words.
Wrap == 4

PatternRegs == [busy: BOOLEAN, valid: BOOLEAN, ok: BOOLEAN,
                written: 0..(Wrap - 1), seen: 0..(Wrap - 1)]
PatternIdle == [busy |-> FALSE, valid |-> FALSE, ok |-> TRUE,
                written |-> 0, seen |-> 0]

PatternDone(p) == p.written >= 2 /\ p.seen >= 1

\* Faulty variant: the counters do not wrap.
Count_wide(n, b) == IF b THEN n + 1 ELSE n

\* The counters at the end of a clock edge.  A word taken in the edge in which
\* they are cleared is written over the zero, with the old count; the pattern is
\* sent once in the life of a PHY, so what remains is not read and left out.
Count(n, b) == IF b THEN (n + 1) % Wrap ELSE n

\* One clock edge.  asks: a request is on the wires; taken: the status is ready
\* to be read; fired: a word is taken; sees: the pattern comes in; late: the
\* time is up in this edge.
PatternNext(p, asks, taken, fired, sees, late) ==
    LET starts == asks /\ ~p.busy
        ends   == p.busy /\ (late \/ PatternDone(p))
    IN
    [busy    |-> starts \/ (p.busy /\ ~ends),
     valid   |-> ends \/ (p.valid /\ ~taken /\ ~starts),
     ok      |-> IF ends THEN ~late ELSE p.ok,
     written |-> IF ends THEN 0 ELSE Count(p.written, p.busy /\ fired),
     seen    |-> IF ends THEN 0 ELSE Count(p.seen, p.busy /\ sees)]
===============================================================================
