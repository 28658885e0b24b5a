------------------------------ MODULE EndCycle ------------------------------
(***************************************************************************)
(* The end cycle of a transaction, of interchiplet/includes/net_delay.h.   *)
(* A delay record is [op, dst, cycle, lat]: lat[1] and lat[2] are the      *)
(* latencies of the request at its source and its destination, lat[3] and  *)
(* lat[4] those of the acknowledgement (m_delay_list, from zero).  Cycles  *)
(* are those of the manager: every clock ratio is one.                     *)
(***************************************************************************)
EXTENDS DelayOrder

Latest(cycles) == Max(cycles)

\* getDefaultEndCycle: without a record the packet takes one cycle per flit
\* after the later of the two commands.
DefaultEnd(write, read, flits) == Latest({write, read}) + flits

\* getEndCycle for a transaction with acknowledgement, as its source sees it:
\* the request arrives, the destination is ready, the acknowledgement arrives.
AcknowledgedEnd(write, read, item) == Latest({write + item.lat[2], read}) + item.lat[4]
=============================================================================
