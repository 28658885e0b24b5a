----------------------------- MODULE LockStruct -----------------------------
(***************************************************************************)
(* SyncLockStruct of interchiplet/includes/cmd_handler.h: the bookkeeping  *)
(* of one mutex.  The manager keeps two of them per mutex, one driven by   *)
(* the LOCK/UNLOCK commands and one driven by the WRITE commands that      *)
(* carry the lock and unlock flags.                                        *)
(*                                                                         *)
(* A command is represented by the process that sent it: a process has at  *)
(* most one command outstanding, so the process identifies it.             *)
(***************************************************************************)
EXTENDS Naturals, Sequences, SequencesExt

CONSTANTS Proc, NoProc

ASSUME NoProcAssumption == NoProc \notin Proc

LockState == [locked : BOOLEAN, last : Proc \cup {NoProc}, queue : Seq(Proc)]

\* Faulty variant: the last command of a fresh mutex is read as a default one.
FreshLock_defaultLast == [locked |-> FALSE, last |-> <<>>, queue |-> <<>>]

\* A mutex no command has named: no entry in m_lock_set, m_last_cmd_map and
\* m_lock_cmd_list.
FreshLock == [locked |-> FALSE, last |-> NoProc, queue |-> <<>>]

\* lock() and unlock() record the command in m_last_cmd_map, and do nothing
\* when the mutex is already in the requested state.
Lock(s, p) == IF s.locked THEN s ELSE [s EXCEPT !.locked = TRUE, !.last = p]

Unlock(s, p) == IF s.locked THEN [s EXCEPT !.locked = FALSE, !.last = p] ELSE s

\* Faulty variant: the source of the last command is not compared.
LockedBy_anySource(s, p) == s.locked

\* isLocked(), and hasLastCmd() with getLastCmd().m_src == m_src.
LockedBy(s, p) == s.locked /\ s.last = p

insertLockCmd(s, p) == [s EXCEPT !.queue = Append(@, p)]

\* hasLockCmd(uid, src) and popLockCmd(uid, src): the first parked command of
\* that source.
hasLockCmd(s, p) == \E i \in DOMAIN s.queue : s.queue[i] = p

\* Faulty variant: the command is returned but not erased.
popLockCmd_keeps(s, p) == s

popLockCmd(s, p) ==
  LET first == Min({i \in DOMAIN s.queue : s.queue[i] = p})
  IN  [s EXCEPT !.queue = RemoveAt(@, first)]
=============================================================================
