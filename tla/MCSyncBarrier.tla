---------------------------- MODULE MCSyncBarrier ----------------------------
(***************************************************************************)
(* Instances of SyncBarrier: the programs of the processes, and networks   *)
(* that differ in the latency of each source.                              *)
(***************************************************************************)
EXTENDS SyncBarrier

CONSTANTS p1, p2, p3, u1, u2, Latencies

enter(u, n) == [op |-> n, dst |-> u]

Same(program, n) == [r \in 1..n |-> program]

\* The first command that names a barrier gives its count.  Two processes meet
\* twice, the second time with the default count; two processes meet in one
\* barrier and then with a third one in another; three processes meet, and in
\* the next round in another barrier, which cancels the delay information.
MeetingPlans ==
  {Same([p \in Proc |-> IF p = p3 THEN <<>> ELSE <<enter(u1, 2), enter(u1, 0)>>], 2),
   Same([p \in Proc |-> IF p = p3 THEN <<enter(u2, 3)>>
                        ELSE <<enter(u1, 2), enter(u2, 3)>>], 1),
   <<[p \in Proc |-> <<enter(u1, 3)>>],
     [p \in Proc |-> <<enter(u2, 3)>>]>>}

\* Two processes meet once, in each of two rounds.
TwoRounds == {Same([p \in Proc |-> <<enter(u1, 2)>>], 2)}

\* All packets of a source have the same latency.
Uniform ==
  {[p \in Proc |-> [i \in 1..2 |-> [k \in 1..4 |-> lat[p]]]] : lat \in [Proc -> Latencies]}
=============================================================================
