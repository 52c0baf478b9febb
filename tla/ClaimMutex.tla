------------------------------ MODULE ClaimMutex ------------------------------
(***************************************************************************)
(* What the claim-store lock (acquireClaimStoreLock in claims.ts) promises *)
(* the commands that take it: at most one live holder, and a lock left     *)
(* behind by a dead process may be taken away from it, never a live one's. *)
(* ClaimLock implements it; LocalFileStore and ClaimLeases build on it.    *)
(***************************************************************************)
CONSTANTS Process, Nobody

VARIABLES
  holder,   \* the process that owns the lock, or Nobody
  dead      \* the processes that have died

vars == <<holder, dead>>

TypeOK ==
  /\ holder \in Process \cup {Nobody}
  /\ dead \subseteq Process

Init ==
  /\ holder = Nobody
  /\ dead = {}

Acquire(p) ==
  /\ p \notin dead
  /\ holder = Nobody
  /\ holder' = p
  /\ UNCHANGED dead

Release(p) ==
  /\ p \notin dead
  /\ holder = p
  /\ holder' = Nobody
  /\ UNCHANGED dead

(* The holder dies and the file it created stays on disk. *)
Die(p) ==
  /\ p \notin dead
  /\ dead' = dead \cup {p}
  /\ UNCHANGED holder

(* Another process finds the holder dead and removes its file. *)
Reclaim ==
  /\ holder \in dead
  /\ holder' = Nobody
  /\ UNCHANGED dead

Next ==
  \/ \E p \in Process : Acquire(p) \/ Release(p) \/ Die(p)
  \/ Reclaim

Spec == Init /\ [][Next]_vars
=============================================================================
