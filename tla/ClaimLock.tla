------------------------------- MODULE ClaimLock -------------------------------
(***************************************************************************)
(* The claim-store lock of claims.ts: a file opened with "wx", whose       *)
(* content names its process, and the recovery of a file left behind by a  *)
(* dead one.  A process that finds the lock stale takes a token, another   *)
(* "wx" file whose name is a digest of the stale content, looks at the     *)
(* lock again and unlinks it.  A token can be left behind as well, and is  *)
(* recovered in the same way with a token of its own, to a bounded depth.  *)
(*                                                                         *)
(* A path is the sequence of the contents in its name: <<>> is the lock,   *)
(* <<c>> the token for a lock with content c, <<c, d>> the token for that  *)
(* token when its content is d.  A content is the process that wrote it,   *)
(* or Blank before anything is written (all blank files share one token).  *)
(***************************************************************************)
EXTENDS Naturals, SequencesExt

CONSTANTS
  Process, Nobody, Blank,
  Elsewhere,  \* the processes on a second host (or of another boot)
  MaxDepth,   \* CLAIM_LOCK_RECLAIM_MAX_DEPTH
  MayDie,     \* the processes that may be killed at any step
  Prompt      \* one pass of a live process takes less than CLAIM_LOCK_STALE_AFTER_MS

ASSUME LockAssumption ==
  /\ Nobody \notin Process
  /\ Blank \notin Process
  /\ MaxDepth \in Nat \ {0}
  /\ MayDie \subseteq Process
  /\ Elsewhere \subseteq Process
  /\ Prompt \in BOOLEAN

Content == Process \cup {Blank}
Path == UNION {[1..n -> Content] : n \in 0..MaxDepth}
Lock == <<>>
Host(p) == p \in Elsewhere

VARIABLES
  files,     \* the file at each path; its owner is Nobody when there is none
  pc,        \* where each process is
  name,      \* the path p examines, and from "token" on the path of its token
  seenOld,   \* whether the mtime p saw last is past the stale age
  freed,     \* whether p's unlink succeeded
  fresh,     \* the paths whose file was made during p's current pass
  dead       \* the killed processes

vars == <<files, pc, name, seenOld, freed, fresh, dead>>

NoFile == [owner |-> Nobody, stamped |-> FALSE, old |-> FALSE]
NewFile(p) == [owner |-> p, stamped |-> FALSE, old |-> FALSE]
Text(f) == IF f.stamped THEN f.owner ELSE Blank

Recovering == {"stat", "read", "token", "token2", "stampToken", "restat",
               "reread", "unlink", "untoken"}

TypeOK ==
  /\ files \in [Path -> [owner : Process \cup {Nobody}, stamped : BOOLEAN, old : BOOLEAN]]
  /\ pc \in [Process -> {"idle", "stamp", "held"} \cup Recovering]
  /\ name \in [Process -> Path]
  /\ seenOld \in [Process -> BOOLEAN]
  /\ freed \in [Process -> BOOLEAN]
  /\ fresh \in [Process -> SUBSET Path]
  /\ dead \subseteq Process

Init ==
  /\ files = [path \in Path |-> NoFile]
  /\ pc = [p \in Process |-> "idle"]
  /\ name = [p \in Process |-> Lock]
  /\ seenOld = [p \in Process |-> FALSE]
  /\ freed = [p \in Process |-> FALSE]
  /\ fresh = [p \in Process |-> {}]
  /\ dead = {}

At(p, here) == p \notin dead /\ pc[p] = here
Goto(p, there) == pc' = [pc EXCEPT ![p] = there]
Exists(path) == files[path].owner # Nobody
Busy(q) == q \notin dead /\ pc[q] \in Recovering \cup {"stamp"}

(* The pass is over, the caller sleeps and tries again or gives up. *)
Leave(p) ==
  /\ Goto(p, "idle")
  /\ name' = [name EXCEPT ![p] = Lock]
  /\ seenOld' = [seenOld EXCEPT ![p] = FALSE]
  /\ fresh' = [fresh EXCEPT ![p] = {}]

(* Mutant: openSync with "w" instead of "wx". *)
CreateOver(p, path) ==
  /\ files' = [files EXCEPT ![path] = NewFile(p)]
  /\ fresh' = [q \in Process |-> IF Busy(q) \/ q = p THEN fresh[q] \cup {path} ELSE fresh[q]]

(* tryAcquireClaimLockFile up to its openSync: the file is there, blank. *)
Create(p, path) ==
  /\ ~Exists(path)
  /\ files' = [files EXCEPT ![path] = NewFile(p)]
  /\ fresh' = [q \in Process |-> IF Busy(q) \/ q = p THEN fresh[q] \cup {path} ELSE fresh[q]]

(* Its writeFileSync, into the file p has open, wherever that one is now. *)
WriteText(p, path) ==
  files' = IF files[path].owner = p
             THEN [files EXCEPT ![path] = [owner |-> p, stamped |-> TRUE, old |-> FALSE]]
             ELSE files

Delete(path) == files' = [files EXCEPT ![path] = NoFile]

(* Mutant: a lock that names no process is not stale. *)
StaleNamed(p, path, f) ==
  /\ f.stamped
  /\ f.old
  /\ path = Lock => Host(f.owner) = Host(p)
  /\ f.owner \in dead \/ Host(f.owner) # Host(p)

(* claimLockSnapshotIsStale for the stat p made and the file f it reads.    *)
(* The lock names its host and boot, a token only a process id and a time.  *)
Stale(p, path, f) ==
  /\ IF f.stamped THEN f.old ELSE seenOld[p]
  /\ f.stamped /\ path = Lock => Host(f.owner) = Host(p)
  /\ f.stamped => f.owner \in dead \/ Host(f.owner) # Host(p)

-----------------------------------------------------------------------------
(* acquireClaimStoreLock: one pass of its loop. *)
Try(p) ==
  /\ At(p, "idle")
  /\ \/ Create(p, Lock) /\ Goto(p, "stamp")
     \/ Exists(Lock) /\ Goto(p, "stat") /\ UNCHANGED <<files, fresh>>
  /\ freed' = [freed EXCEPT ![p] = FALSE]
  /\ UNCHANGED <<name, seenOld, dead>>

Stamp(p) ==
  /\ At(p, "stamp")
  /\ WriteText(p, Lock)
  /\ Goto(p, "held")
  /\ fresh' = [fresh EXCEPT ![p] = {}]
  /\ UNCHANGED <<name, seenOld, freed, dead>>

(* lock.release(): unlink whatever is at the lock's path. *)
Release(p) ==
  /\ At(p, "held")
  /\ Delete(Lock)
  /\ Goto(p, "idle")
  /\ UNCHANGED <<name, seenOld, freed, fresh, dead>>

-----------------------------------------------------------------------------
(* removeStaleClaimLockFile(name[p], Len(name[p])): readClaimLockSnapshot   *)
(* looks at the file's age and then, in a second call, at its content.      *)
Stat(p) ==
  /\ At(p, "stat")
  /\ IF Exists(name[p])
       THEN /\ seenOld' = [seenOld EXCEPT ![p] = files[name[p]].old]
            /\ Goto(p, "read")
            /\ UNCHANGED <<name, fresh>>
       ELSE Leave(p)
  /\ UNCHANGED <<files, freed, dead>>

Read(p) ==
  /\ At(p, "read")
  /\ IF Exists(name[p]) /\ Stale(p, name[p], files[name[p]])
       THEN /\ name' = [name EXCEPT ![p] = Append(@, Text(files[name[p]]))]
            /\ Goto(p, "token")
            /\ UNCHANGED <<seenOld, fresh>>
       ELSE Leave(p)
  /\ UNCHANGED <<files, freed, dead>>

(* Take the token, or recover it when it is taken and the depth allows. *)
TakeToken(p) ==
  /\ At(p, "token")
  /\ \/ Create(p, name[p]) /\ Goto(p, "stampToken") /\ UNCHANGED <<name, seenOld>>
     \/ /\ Exists(name[p]) /\ Len(name[p]) < MaxDepth
        /\ Goto(p, "stat")
        /\ UNCHANGED <<files, name, seenOld, fresh>>
     \/ /\ Exists(name[p]) /\ Len(name[p]) >= MaxDepth
        /\ Leave(p)
        /\ UNCHANGED files
  /\ UNCHANGED <<freed, dead>>

(* Once more, after a token left behind has been removed. *)
RetakeToken(p) ==
  /\ At(p, "token2")
  /\ \/ Create(p, name[p]) /\ Goto(p, "stampToken") /\ UNCHANGED <<name, seenOld>>
     \/ Exists(name[p]) /\ Leave(p) /\ UNCHANGED files
  /\ UNCHANGED <<freed, dead>>

StampToken(p) ==
  /\ At(p, "stampToken")
  /\ WriteText(p, name[p])
  /\ Goto(p, "restat")
  /\ UNCHANGED <<name, seenOld, freed, fresh, dead>>

(* The file the token is for, and the second look at it. *)
Target(p) == Front(name[p])

Restat(p) ==
  /\ At(p, "restat")
  /\ freed' = [freed EXCEPT ![p] = FALSE]
  /\ IF Exists(Target(p))
       THEN /\ seenOld' = [seenOld EXCEPT ![p] = files[Target(p)].old]
            /\ Goto(p, "reread")
       ELSE Goto(p, "untoken") /\ UNCHANGED seenOld
  /\ UNCHANGED <<files, name, fresh, dead>>

(* Mutant: the file is only looked for, its age and content are not read. *)
StillThere(p) == Exists(Target(p))

Unmoved(p) ==
  LET f == files[Target(p)] IN
  Exists(Target(p)) /\ Text(f) = Last(name[p]) /\ Stale(p, Target(p), f)

Reread(p) ==
  /\ At(p, "reread")
  /\ Goto(p, IF Unmoved(p) THEN "unlink" ELSE "untoken")
  /\ UNCHANGED <<files, name, seenOld, freed, fresh, dead>>

Unlink(p) ==
  /\ At(p, "unlink")
  /\ Delete(Target(p))
  /\ freed' = [freed EXCEPT ![p] = Exists(Target(p))]
  /\ Goto(p, "untoken")
  /\ UNCHANGED <<name, seenOld, fresh, dead>>

(* token.release(), and back to the caller one level up. *)
DropToken(p) ==
  /\ At(p, "untoken")
  /\ Delete(name[p])
  /\ IF freed[p] /\ Target(p) # Lock
       THEN /\ name' = [name EXCEPT ![p] = Front(@)]
            /\ Goto(p, "token2")
            /\ UNCHANGED <<seenOld, fresh>>
       ELSE Leave(p)
  /\ UNCHANGED <<freed, dead>>

-----------------------------------------------------------------------------
(* The environment: a kill, and a file passing the stale age.  A file made  *)
(* during a live process's pass stays young until that pass is over.        *)
Die(p) ==
  /\ p \in MayDie \ dead
  /\ dead' = dead \cup {p}
  /\ UNCHANGED <<files, pc, name, seenOld, freed, fresh>>

Age(path) ==
  /\ Exists(path)
  /\ ~files[path].old
  /\ Prompt => \A q \in Process : path \in fresh[q] => q \in dead
  /\ files' = [files EXCEPT ![path].old = TRUE]
  /\ UNCHANGED <<pc, name, seenOld, freed, fresh, dead>>

Step(p) ==
  \/ Try(p) \/ Stamp(p) \/ Release(p) \/ Stat(p) \/ Read(p) \/ TakeToken(p)
  \/ RetakeToken(p) \/ StampToken(p) \/ Restat(p) \/ Reread(p) \/ Unlink(p)
  \/ DropToken(p)

Next ==
  \/ \E p \in Process : Step(p) \/ Die(p)
  \/ \E path \in Path : Age(path)

Spec == Init /\ [][Next]_vars

(* Live processes run on, keep trying, and time passes. *)
FairSpec ==
  /\ Spec
  /\ \A p \in Process : WF_vars(Step(p))
  /\ \A path \in Path : WF_vars(Age(path))

-----------------------------------------------------------------------------
Mutex == INSTANCE ClaimMutex WITH holder <- files[Lock].owner

(* The lock file is a mutex: it goes from free to one owner, and back by    *)
(* a release or by the recovery of a dead owner's file.                     *)
ImplementsMutex == Mutex!Spec

(* A live process loses the lock by its own release only: neither a recovery *)
(* that was decided on earlier, nor a release by another, removes its file.  *)
LiveLockStays ==
  [][\A q \in Process \ dead :
       files[Lock].owner = q /\ files'[Lock].owner # q => Release(q)]_vars

(* Two live processes never hold the lock at once. *)
OneHolder ==
  \A p, q \in Process : At(p, "held") /\ At(q, "held") => p = q

(* A lock left behind on a host where a process lives on is recovered,      *)
(* whatever tokens were left with it, and on whichever host.                *)
LeftLockRecovered ==
  \A q \in Process : (\E s \in Process \ MayDie : Host(s) = Host(q)) =>
    (q \in dead /\ files[Lock].owner = q ~> files[Lock].owner # q)
=============================================================================
