---------------------------- MODULE AbstractLock ----------------------------
(***************************************************************************)
(* What a mutex of the synchronization manager promises to the processes,  *)
(* whatever the delay information says: it is granted only when nobody     *)
(* holds it and only to a process that asked for it, and it is released    *)
(* only by its owner.                                                      *)
(***************************************************************************)
CONSTANTS Proc, Mutex

VARIABLES owners, waiting

vars == <<owners, waiting>>

Init ==
  /\ owners = [m \in Mutex |-> {}]
  /\ waiting = [m \in Mutex |-> {}]

\* A request for a free mutex is granted at once.
Acquire(p, m) ==
  /\ owners[m] = {}
  /\ owners' = [owners EXCEPT ![m] = {p}]
  /\ UNCHANGED waiting

\* A request is delayed: the mutex is taken, or another process is due first.
Wait(p, m) ==
  /\ p \notin owners[m] \cup waiting[m]
  /\ waiting' = [waiting EXCEPT ![m] = @ \cup {p}]
  /\ UNCHANGED owners

\* The owner releases the mutex, which may pass to a process that waits.
Release(p, m) ==
  /\ owners[m] = {p}
  /\ \/ /\ owners' = [owners EXCEPT ![m] = {}]
        /\ UNCHANGED waiting
     \/ \E q \in waiting[m] :
          /\ owners' = [owners EXCEPT ![m] = {q}]
          /\ waiting' = [waiting EXCEPT ![m] = @ \ {q}]

\* A new round starts once nobody waits any more.
Restart ==
  /\ waiting = [m \in Mutex |-> {}]
  /\ owners' = [m \in Mutex |-> {}]
  /\ UNCHANGED waiting

Next ==
  \/ \E p \in Proc, m \in Mutex : Acquire(p, m) \/ Wait(p, m) \/ Release(p, m)
  \/ Restart

Spec == Init /\ [][Next]_vars
=============================================================================
