---------------------------- MODULE CommandLists ----------------------------
(***************************************************************************)
(* The lists of pending commands in which the manager pairs commands:      *)
(* SyncLaunchStruct and SyncCommStruct of                                  *)
(* interchiplet/includes/cmd_handler.h, for one destination address.       *)
(* A match is the set of the positions that fit; the first one is used.    *)
(***************************************************************************)
EXTENDS Naturals, Sequences, SequencesExt

CONSTANTS Proc, AnySource

ASSUME AnySourceAssumption == AnySource \notin Proc

\* hasMatchWaitlaunch: the pending WAITLAUNCH commands, given by the source
\* they name, that a LAUNCH of src fits.
MatchWaitlaunch(list, src) == {i \in DOMAIN list : list[i] \in {AnySource, src}}

\* Faulty variant: a WAITLAUNCH without a source fits no pending LAUNCH.
MatchLaunch_named(list, src) == {i \in DOMAIN list : list[i] = src}

\* hasMatchLaunch: the pending LAUNCH commands, given by their source, that a
\* WAITLAUNCH naming src fits.
MatchLaunch(list, src) == {i \in DOMAIN list : src \in {AnySource, list[i]}}

\* Faulty variant: the source is not compared.
MatchComm_anySource(list, src, nbytes) == {i \in DOMAIN list : list[i].nbytes = nbytes}

\* hasMatchWrite, hasMatchRead: the source and the number of bytes decide, the
\* descriptor does not.
MatchComm(list, src, nbytes) ==
  {i \in DOMAIN list : list[i].src = src /\ list[i].nbytes = nbytes}

\* The command that the pop functions return, and the list they leave.
FirstMatch(list, matches) == list[Min(matches)]

\* Faulty variant: the command is returned but not erased.
PopMatch_keeps(list, matches) == list

PopMatch(list, matches) == RemoveAt(list, Min(matches))
=============================================================================
