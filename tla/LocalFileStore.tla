---------------------------- MODULE LocalFileStore ----------------------------
(***************************************************************************)
(* The local-file claim backend (claims/backends/local-file.ts) under the  *)
(* claim-create command of several processes: each one reads the store,    *)
(* adds its own claim, and writes the result conditional on what it read.  *)
(* A write takes the direct write lock (a file opened with "wx"), reads    *)
(* the store again, compares, and renames a complete temporary file over   *)
(* it.  Every system call another process can come between is a step.      *)
(*                                                                         *)
(* A process stands for its claim, so the store is a set of processes.     *)
(* Serialized says whether callers hold the claim-store lock (createClaim  *)
(* does, through ClaimMutex) or use the backend on its own.                *)
(***************************************************************************)
CONSTANTS
  Process, Nobody,
  Serialized,    \* callers hold the claim-store lock around read and write
  MayDie,        \* the processes that may be killed at any step
  Foreign,       \* the processes that the others have no right to signal
  Prompt         \* a live process finishes a write within DIRECT_WRITE_LOCK_STALE_MS

ASSUME StoreAssumption ==
  /\ Nobody \notin Process
  /\ MayDie \subseteq Process /\ Foreign \subseteq Process
  /\ Serialized \in BOOLEAN
  /\ Prompt \in BOOLEAN

VARIABLES
  file,      \* the claims in claims.json
  lock,      \* the direct write lock file: owner, stamped (content written), old
  pc,        \* where each process is
  base,      \* the state each process read, passed to write as `previous`
  outcome,   \* what the last write told its caller
  holder,    \* the claim-store lock (ClaimMutex)
  dead       \* the killed processes

vars == <<file, lock, pc, base, outcome, holder, dead>>

Mutex == INSTANCE ClaimMutex

Free == [owner |-> Nobody, stamped |-> FALSE, old |-> FALSE]
Blank(p) == [owner |-> p, stamped |-> FALSE, old |-> FALSE]

Location == {"start", "read", "open", "inspect", "remove", "reopen", "stamp",
             "compare", "rename", "unlock", "return", "done"}

TypeOK ==
  /\ file \subseteq Process
  /\ lock \in [owner : Process \cup {Nobody}, stamped : BOOLEAN, old : BOOLEAN]
  /\ pc \in [Process -> Location]
  /\ base \in [Process -> SUBSET Process]
  /\ outcome \in [Process -> {"none", "ok", "conflict"}]
  /\ Mutex!TypeOK

Init ==
  /\ file = {}
  /\ lock = Free
  /\ pc = [p \in Process |-> "start"]
  /\ base = [p \in Process |-> {}]
  /\ outcome = [p \in Process |-> "none"]
  /\ Mutex!Init

At(p, here) == p \notin dead /\ pc[p] = here
Goto(p, there) == pc' = [pc EXCEPT ![p] = there]
Conflict(p) == outcome' = [outcome EXCEPT ![p] = "conflict"]

-----------------------------------------------------------------------------
(* Mutant: the command does not take the claim-store lock. *)
BeginUnlocked(p) ==
  /\ At(p, "start")
  /\ Goto(p, "read")
  /\ UNCHANGED <<file, lock, base, outcome, holder, dead>>

(* createClaim around the write: lock, read, ..., release. *)
Begin(p) ==
  /\ At(p, "start")
  /\ IF Serialized THEN Mutex!Acquire(p) ELSE UNCHANGED <<holder, dead>>
  /\ Goto(p, "read")
  /\ UNCHANGED <<file, lock, base, outcome>>

Read(p) ==
  /\ At(p, "read")
  /\ base' = [base EXCEPT ![p] = file]
  /\ Goto(p, "open")
  /\ UNCHANGED <<file, lock, outcome, holder, dead>>

Return(p) ==
  /\ At(p, "return")
  /\ IF Serialized THEN Mutex!Release(p) ELSE UNCHANGED <<holder, dead>>
  /\ Goto(p, "done")
  /\ UNCHANGED <<file, lock, base, outcome>>

(* The caller follows "reread and retry" and runs the command again. *)
Retry(p) ==
  /\ At(p, "done")
  /\ outcome[p] = "conflict"
  /\ outcome' = [outcome EXCEPT ![p] = "none"]
  /\ Goto(p, "start")
  /\ UNCHANGED <<file, lock, base, holder, dead>>

-----------------------------------------------------------------------------
(* openDirectWriteLock: open with "wx", once more after a stale recovery. *)
Open(p) ==
  /\ At(p, "open")
  /\ IF lock = Free
       THEN lock' = Blank(p) /\ Goto(p, "stamp")
       ELSE UNCHANGED lock /\ Goto(p, "inspect")
  /\ UNCHANGED <<file, base, outcome, holder, dead>>

(* processIsAlive says no of a process that it may not signal (EPERM). *)
Gone(p) == p \in dead \cup Foreign

(* Mutant: a lock without a process id is never stale. *)
StaleNeedsPid(l) == l.owner # Nobody /\ l.old /\ l.stamped /\ Gone(l.owner)

(* recoverStaleDirectWriteLock up to its last return FALSE.  A lock without *)
(* a process id counts as one whose process is gone.                        *)
Stale(l) == l.owner # Nobody /\ l.old /\ (l.stamped => Gone(l.owner))

Inspect(p) ==
  /\ At(p, "inspect")
  /\ IF Stale(lock)
       THEN Goto(p, "remove") /\ UNCHANGED outcome
       ELSE Goto(p, "return") /\ Conflict(p)
  /\ UNCHANGED <<file, lock, base, holder, dead>>

(* rmSync(lockPath, force): whatever file is there by now. *)
Remove(p) ==
  /\ At(p, "remove")
  /\ lock' = Free
  /\ Goto(p, "reopen")
  /\ UNCHANGED <<file, base, outcome, holder, dead>>

Reopen(p) ==
  /\ At(p, "reopen")
  /\ IF lock = Free
       THEN lock' = Blank(p) /\ Goto(p, "stamp") /\ UNCHANGED outcome
       ELSE UNCHANGED lock /\ Goto(p, "return") /\ Conflict(p)
  /\ UNCHANGED <<file, base, holder, dead>>

-----------------------------------------------------------------------------
(* withDirectWriteLock: the process id goes into the file p has open, which *)
(* may no longer be the one at the lock's path.                             *)
Stamp(p) ==
  /\ At(p, "stamp")
  /\ lock' = IF lock.owner = p THEN [lock EXCEPT !.stamped = TRUE] ELSE lock
  /\ Goto(p, "compare")
  /\ UNCHANGED <<file, base, outcome, holder, dead>>

Compare(p) ==
  /\ At(p, "compare")
  /\ IF file = base[p]
       THEN Goto(p, "rename") /\ UNCHANGED outcome
       ELSE Goto(p, "unlock") /\ Conflict(p)
  /\ UNCHANGED <<file, lock, base, holder, dead>>

(* writeStateAtomic: the rename publishes next in one step. *)
Rename(p) ==
  /\ At(p, "rename")
  /\ file' = base[p] \cup {p}
  /\ Goto(p, "unlock")
  /\ UNCHANGED <<lock, base, outcome, holder, dead>>

(* Mutant: the lock file is closed and left where it is. *)
UnlockForgets(p) ==
  /\ At(p, "unlock")
  /\ outcome' = [outcome EXCEPT ![p] = IF @ = "none" THEN "ok" ELSE @]
  /\ Goto(p, "return")
  /\ UNCHANGED <<file, lock, base, holder, dead>>

(* Mutant: the file is emptied instead of removed. *)
UnlockKeepsFile(p) ==
  /\ At(p, "unlock")
  /\ lock' = [lock EXCEPT !.owner = "none"]
  /\ outcome' = [outcome EXCEPT ![p] = IF @ = "none" THEN "ok" ELSE @]
  /\ Goto(p, "return")
  /\ UNCHANGED <<file, base, holder, dead>>

(* finally: close, rmSync(lockPath, force), and return or throw. *)
Unlock(p) ==
  /\ At(p, "unlock")
  /\ lock' = Free
  /\ outcome' = [outcome EXCEPT ![p] = IF @ = "none" THEN "ok" ELSE @]
  /\ Goto(p, "return")
  /\ UNCHANGED <<file, base, holder, dead>>

-----------------------------------------------------------------------------
(* The environment: a kill, the reclaim of a dead holder's claim-store lock *)
(* and the passing of DIRECT_WRITE_LOCK_STALE_MS.                           *)
Die(p) ==
  /\ p \in MayDie
  /\ Mutex!Die(p)
  /\ UNCHANGED <<file, lock, pc, base, outcome>>

Reclaim ==
  /\ Mutex!Reclaim
  /\ UNCHANGED <<file, lock, pc, base, outcome>>

Age ==
  /\ lock # Free
  /\ ~lock.old
  /\ Prompt => lock.owner \in dead
  /\ lock' = [lock EXCEPT !.old = TRUE]
  /\ UNCHANGED <<file, pc, base, outcome, holder, dead>>

Step(p) ==
  \/ Begin(p) \/ Read(p) \/ Open(p) \/ Inspect(p) \/ Remove(p) \/ Reopen(p)
  \/ Stamp(p) \/ Compare(p) \/ Rename(p) \/ Unlock(p) \/ Return(p) \/ Retry(p)

Next ==
  \/ \E p \in Process : Step(p) \/ Die(p)
  \/ Reclaim
  \/ Age

Spec == Init /\ [][Next]_vars

(* A live process keeps running, time passes, and callers retry conflicts. *)
Fairness ==
  /\ \A p \in Process : WF_vars(Step(p))
  /\ WF_vars(Reclaim)
  /\ WF_vars(Age)

FairSpec == Spec /\ Fairness

-----------------------------------------------------------------------------
(* No silent lost update: a process whose write returned normally finds its *)
(* claim in the store from then on, whatever other writers, kills and stale *)
(* lock recoveries do (the promise in the header of local-file.ts).         *)
NoSilentLostUpdate == \A p \in Process : outcome[p] = "ok" => p \in file

(* A live process that is not inside withDirectWriteLock has left no write  *)
(* lock behind: every path out of it, conflicts included, removes the file. *)
NoLeakedWriteLock ==
  lock.owner \in Process \ dead =>
    pc[lock.owner] \in {"stamp", "compare", "rename", "unlock"}

(* The backend implements the ledger: every rename appends exactly the      *)
(* writer's claim to what is stored, and only stored claims are confirmed.  *)
Ledger == INSTANCE ClaimLedger WITH
  Claim <- Process,
  stored <- file,
  acknowledged <- {p \in Process : outcome[p] = "ok"}

ImplementsLedger == Ledger!Spec

(* A caller that retries conflicts gets its claim stored in the end, even   *)
(* when killed processes left the write lock and the claim-store lock.      *)
EventuallyStored == \A p \in Process : <>(p \in dead \/ outcome[p] = "ok")
=============================================================================
