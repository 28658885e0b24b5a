---------------------------- MODULE BarrierStruct ----------------------------
(***************************************************************************)
(* SyncBarrierStruct of interchiplet/includes/cmd_handler.h: one barrier,  *)
(* that is a uid, with the commands waiting in it.  The manager keeps two  *)
(* of them per uid, one driven by the BARRIER commands and one driven by   *)
(* the WRITE commands with the barrier flag.                               *)
(***************************************************************************)
EXTENDS Integers, Sequences

BarrierState(Item) == [known : BOOLEAN, count : Nat, items : Seq(Item)]

\* Faulty variant: an unnamed barrier has no count.
FreshBarrier_uncounted == [known |-> FALSE, count |-> -1, items |-> <<>>]

\* No command has named the uid: it has no entry in m_barrier_count_map.
FreshBarrier == [known |-> FALSE, count |-> 0, items |-> <<>>]

\* Faulty variant: a default count overrides the count of a known barrier.
insertBarrier_override(s, count, item) ==
  [known |-> TRUE, count |-> count, items |-> Append(s.items, item)]

\* A zero count leaves the count of a known barrier alone; the first command
\* that names a barrier sets its count, zero or not.
insertBarrier(s, count, item) ==
  [known |-> TRUE,
   count |-> IF s.known /\ count = 0 THEN s.count ELSE count,
   items |-> Append(s.items, item)]

\* Faulty variant: the barrier overflows one command late.
overflow_late(s) == ~ s.known \/ Len(s.items) > s.count

overflow(s) == ~ s.known \/ Len(s.items) >= s.count

\* Faulty variant: the barrier overflows but keeps its commands.
reset_keeps(s) == s

\* reset() empties the barrier and keeps its count.
reset(s) == [s EXCEPT !.items = <<>>]
=============================================================================
