----------------------------- MODULE DelayOrder -----------------------------
(***************************************************************************)
(* NetworkDelayMap and the ordering part of NetworkDelayStruct, of         *)
(* interchiplet/includes/net_delay.h.                                      *)
(*                                                                         *)
(* The delay file written by the network simulator of the previous         *)
(* iteration is kept in maps from an address to the records of that        *)
(* address in cycle order (a multimap).  The source map is keyed by the    *)
(* sender; what decides anything in a record of it is the operation (the   *)
(* descriptor flag) and the destination.  The launch and lock maps are     *)
(* keyed by the destination and only the sender of a record is read, so a  *)
(* record of theirs is that sender.                                        *)
(***************************************************************************)
EXTENDS Naturals, Sequences, SequencesExt, FiniteSets

\* How many records a list has for an item.
Places(list, item) == Cardinality({i \in DOMAIN list : list[i] = item})

\* hasAddr(addr)
HasAddr(map, addr) == map[addr] # <<>>

\* front(addr).m_src, on the launch or the lock map.
FrontSrc(map, addr) == Head(map[addr])

\* Faulty variant: the record is used but not popped.
PopFront_keeps(map, addr) == map

\* pop(addr): an address without records is left alone.
PopFront(map, addr) ==
  IF HasAddr(map, addr) THEN [map EXCEPT ![addr] = Tail(@)] ELSE map

\* hasAddr(addr, src, dst), with addr = src: the sender's records for that
\* destination, whatever their descriptor.
RecordsFor(map, src, dst) == {i \in DOMAIN map[src] : map[src][i].dst = dst}

\* front(addr, src, dst)
FrontItem(map, src, dst) == map[src][Min(RecordsFor(map, src, dst))]

\* Faulty variant: the record is used but not popped.
PopItem_keeps(map, src, dst) == map

\* pop(addr, src, dst): getEndCycle consumes the first such record.
PopItem(map, src, dst) ==
  IF RecordsFor(map, src, dst) = {} THEN map
  ELSE [map EXCEPT ![src] = RemoveAt(@, Min(RecordsFor(map, src, dst)))]

\* checkOrderOfCommand: the sender has no record left, or the next one is for
\* this command.
InOrder(map, src, op, dst) ==
  HasAddr(map, src) => Head(map[src]).op = op /\ Head(map[src]).dst = dst

\* clearDelayInfo, on one of the maps.
Cleared(map) == [addr \in DOMAIN map |-> <<>>]
=============================================================================
