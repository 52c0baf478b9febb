----------------------------- MODULE BaselineRatchet -----------------------------
(***************************************************************************)
(* The accepted baseline of one cell: baseline create, update, sign and    *)
(* check (cli/src/index.ts, engine baseline.ts, baseline-ratchet.ts,       *)
(* baseline-seal.ts) on a working tree that is edited in between, in       *)
(* environments that hold different keys.  Cells are compared one by one;  *)
(* the others matter here only for the seal, which is over the whole file. *)
(* Nothing locks the baseline: a command reads and later writes, and       *)
(* anything may happen between the two, another command included.  A seal  *)
(* has no date: an older file that is put back is as good as it was.       *)
(*                                                                         *)
(* A record is what a baseline accepts for the cell, or what the checker   *)
(* observes of it.  items stands for the sets that are compared by         *)
(* inclusion (public symbols, dependency edges, artifact contracts,        *)
(* resource accesses), entry for what must stay the same (the public entry *)
(* and the hash of its surface), counts for the numbers that may not grow. *)
(* The baselines of older versions have the counts and nothing else.       *)
(***************************************************************************)
EXTENDS Naturals, FiniteSets

CONSTANTS
  Item, Entry,
  Dependency,       \* external dependencies
  Owned,            \* the values of ownedPathSet, sets of patterns
  Subset,           \* <<p, q>>: every path p matches is matched by q
  Metric, Lines,    \* the metrics that are counted, publicSurfaceLines among them
  Observation,      \* what the checker may observe of the cell
  Draft,            \* what else an edit may write into the baseline
  Environment,      \* which keys a command has: [privateKey, publicKey, secret]
  Command,          \* the runs of a command that may be at work at one time
  MaxKept,          \* how many files are kept elsewhere
  Absent,           \* the cell is not in the manifest, or not in the baseline
  Unrecorded,       \* what an older baseline has of a field
  NoFile

Covered(paths, others) == \A p \in paths : \E q \in others : <<p, q>> \in Subset
OrUnrecorded(S) == {Unrecorded} \cup S

Observed ==
  [items : SUBSET Item, owned : Owned, entry : Entry, deps : SUBSET Dependency, counts : [Metric -> Nat]]
Record ==
  [items : OrUnrecorded(SUBSET Item), owned : OrUnrecorded(Owned), entry : OrUnrecorded(Entry),
   deps : OrUnrecorded(SUBSET Dependency), counts : [Metric -> Nat]]
Algorithm == {"none", "hmac-sha256", "ed25519"}

ASSUME RatchetAssumption ==
  /\ Observation \subseteq Observed /\ Draft \subseteq Record
  /\ Environment \subseteq [privateKey : BOOLEAN, publicKey : BOOLEAN, secret : BOOLEAN]
  /\ Lines \in Metric
  /\ \A set \in (SUBSET Item) \cup Owned \cup (SUBSET Dependency) : set # Unrecorded
  /\ \A entry \in Entry : entry # Unrecorded
  /\ \A paths \in Owned : Covered(paths, paths)
  /\ \A paths, others, third \in Owned :
       Covered(paths, others) /\ Covered(others, third) => Covered(paths, third)

Maybe(recs) == {Absent} \cup recs
File == [rec : Maybe(Observation \cup Draft), alg : Algorithm, intact : BOOLEAN]

ASSUME DistinctAssumption ==
  /\ \A rec \in Observation \cup Draft : rec # Absent
  /\ \A f \in File : f # NoFile

VARIABLES
  tree,       \* what the checker observes of the cell
  locked,     \* the cell's "locked" in the manifest
  file,       \* the baseline file: a record, and the seal over it
  kept,       \* the files that are kept elsewhere, in commits and copies
  run,        \* how far each command is, and what it has read
  reviewed,   \* the records that were created, signed, or accepted without a lock
  green       \* baseline check has passed on the tree and the baseline as they are

vars == <<tree, locked, file, kept, run, reviewed, green>>

Idle == [step |-> "idle"]
Run ==
  {Idle}
    \cup [step : {"creating", "updating"}, env : Environment]
    \cup [step : {"created", "updated"}, env : Environment, next : Maybe(Observation)]
    \cup [step : {"guarding", "guarded"}, env : Environment, next : Maybe(Observation), unlocked : BOOLEAN]
    \cup [step : {"signing"}, env : Environment, read : File]

TypeOK ==
  /\ tree \in Maybe(Observation)
  /\ locked \in BOOLEAN
  /\ file \in {NoFile} \cup File
  /\ kept \in SUBSET File
  /\ run \in [Command -> Run]
  /\ reviewed \in SUBSET (Observation \cup Draft)
  /\ green \in BOOLEAN

Init ==
  /\ tree \in Observation
  /\ locked = FALSE
  /\ file = NoFile
  /\ kept = {}
  /\ run = [c \in Command |-> Idle]
  /\ reviewed = {}
  /\ green = FALSE

-----------------------------------------------------------------------------
(* baseline-seal.ts *)
SealWith(env) ==
  CASE env.privateKey -> "ed25519"
    [] ~env.privateKey /\ env.secret -> "hmac-sha256"
    [] OTHER -> "none"

Verifier(env) ==
  CASE env.publicKey -> "ed25519"
    [] ~env.publicKey /\ env.secret -> "hmac-sha256"
    [] OTHER -> "none"

(* Mutant: a seal counts by its presence, its digest is not computed. *)
SealPresent(env, f, lock) ==
  /\ Verifier(env) = "none" => ~lock
  /\ f.alg = Verifier(env)

(* validateBaselineSealFindings finds nothing, given the locked flag. *)
SealValid(env, f, lock) ==
  /\ Verifier(env) = "none" => ~lock
  /\ f.alg = Verifier(env)
  /\ f.alg # "none" => f.intact

(* What a baseline permits a locked cell: guardBaselineUpdate, field by     *)
(* field.  What the previous record does not have, the next may not add,    *)
(* but for the dependencies.                                                *)
Recorded(set) == IF set = Unrecorded THEN {} ELSE set
Within(next, previous) ==
  /\ next.items \subseteq Recorded(previous.items)
  /\ Covered(next.owned, Recorded(previous.owned))
  /\ next.entry = previous.entry
  /\ previous.deps # Unrecorded => next.deps \subseteq previous.deps
  /\ \A m \in Metric : next.counts[m] <= previous.counts[m]

(* Mutant: the seal of the existing baseline is not looked at. *)
GuardUnsealed(env, next, lock) ==
  \/ file = NoFile /\ ~lock
  \/ /\ file # NoFile
     /\ lock => file.rec # Absent /\ next # Absent /\ Within(next, file.rec)

(* guardBaselineUpdate, with the locked flag of the manifest it has read *)
Guard(env, next, lock) ==
  \/ file = NoFile /\ ~lock
  \/ /\ file # NoFile
     /\ SealValid(env, file, lock)
     /\ lock => file.rec # Absent /\ next # Absent /\ Within(next, file.rec)

(* compareBaseline and the baseline part of validateExternalDependencyPolicy *)
(* on a tree whose manifest declares the given dependencies: what the record *)
(* does not have is not compared, and lines count without a surface hash.    *)
Permits(rec, observed, declared) ==
  /\ rec.items # Unrecorded => observed.items \subseteq rec.items
  /\ rec.owned # Unrecorded => Covered(observed.owned, rec.owned)
  /\ rec.entry # Unrecorded => observed.entry = rec.entry
  /\ rec.deps # Unrecorded => observed.deps \subseteq rec.deps \cup declared
  /\ \A m \in Metric : m # Lines \/ rec.entry = Unrecorded => observed.counts[m] <= rec.counts[m]

Accepts(rec, declared) ==
  tree # Absent => rec # Absent /\ Permits(rec, tree, IF locked THEN {} ELSE declared)

Passes(env, declared) ==
  file # NoFile /\ SealValid(env, file, locked) /\ Accepts(file.rec, declared)

-----------------------------------------------------------------------------
(* Mutant: the baseline of an update is written as it was made. *)
WriteUnsealed(env, next) == file' = [rec |-> next, alg |-> "none", intact |-> TRUE]

(* writeBaselineFile, which seals what createBaseline made when it can. *)
Write(env, next) == file' = [rec |-> next, alg |-> SealWith(env), intact |-> TRUE]

At(c, step) == run[c].step = step
Go(c, state) == run' = [run EXCEPT ![c] = state]
Review(rec) == reviewed' = reviewed \cup ({rec} \ {Absent})

(* commandBaselineCreate looks for the file, computes a baseline, and writes *)
(* it whatever is there by then.                                             *)
FindNone(c, env) ==
  /\ At(c, "idle") /\ file = NoFile
  /\ Go(c, [step |-> "creating", env |-> env])
  /\ UNCHANGED <<tree, locked, file, kept, reviewed, green>>

(* commandBaselineUpdate *)
BeginUpdate(c, env) ==
  /\ At(c, "idle")
  /\ Go(c, [step |-> "updating", env |-> env])
  /\ UNCHANGED <<tree, locked, file, kept, reviewed, green>>

(* createBaseline, of either *)
Compute(c) ==
  /\ At(c, "creating") \/ At(c, "updating")
  /\ Go(c, [step |-> IF At(c, "creating") THEN "created" ELSE "updated", env |-> run[c].env, next |-> tree])
  /\ UNCHANGED <<tree, locked, file, kept, reviewed, green>>

WriteCreated(c) ==
  /\ At(c, "created")
  /\ Write(run[c].env, run[c].next)
  /\ Review(run[c].next)
  /\ green' = FALSE
  /\ Go(c, Idle)
  /\ UNCHANGED <<tree, locked, kept>>

(* The guard reads the manifest, then the baseline; the write comes after. *)
ReadManifest(c) ==
  /\ At(c, "updated")
  /\ Go(c, [step |-> "guarding", env |-> run[c].env, next |-> run[c].next, unlocked |-> ~locked])
  /\ UNCHANGED <<tree, locked, file, kept, reviewed, green>>

PassGuard(c) ==
  /\ At(c, "guarding")
  /\ Guard(run[c].env, run[c].next, ~run[c].unlocked)
  /\ Go(c, [step |-> "guarded", env |-> run[c].env, next |-> run[c].next, unlocked |-> run[c].unlocked])
  /\ UNCHANGED <<tree, locked, file, kept, reviewed, green>>

Refuse(c) ==
  /\ At(c, "guarding")
  /\ ~Guard(run[c].env, run[c].next, ~run[c].unlocked)
  /\ Go(c, Idle)
  /\ UNCHANGED <<tree, locked, file, kept, reviewed, green>>

WriteUpdated(c) ==
  /\ At(c, "guarded")
  /\ Write(run[c].env, run[c].next)
  /\ IF run[c].unlocked THEN Review(run[c].next) ELSE UNCHANGED reviewed
  /\ green' = FALSE
  /\ Go(c, Idle)
  /\ UNCHANGED <<tree, locked, kept>>

(* commandBaselineSign: without a signing key it fails on an unsealed       *)
(* baseline and writes a sealed one as it was read.                         *)
ReadToSign(c, env) ==
  /\ At(c, "idle") /\ file # NoFile
  /\ SealWith(env) # "none" \/ file.alg # "none"
  /\ Go(c, [step |-> "signing", env |-> env, read |-> file])
  /\ UNCHANGED <<tree, locked, file, kept, reviewed, green>>

WriteSigned(c) ==
  /\ At(c, "signing")
  /\ IF SealWith(run[c].env) = "none" THEN file' = run[c].read /\ UNCHANGED reviewed
     ELSE Write(run[c].env, run[c].read.rec) /\ Review(run[c].read.rec)
  /\ green' = FALSE
  /\ Go(c, Idle)
  /\ UNCHANGED <<tree, locked, kept>>

(* A command fails or is killed before it writes. *)
Stop(c) ==
  /\ ~At(c, "idle")
  /\ Go(c, Idle)
  /\ UNCHANGED <<tree, locked, file, kept, reviewed, green>>

(* commandBaselineCheck, on a tree that every other rule passes. *)
Check(env, declared) ==
  /\ Passes(env, declared)
  /\ green' = TRUE
  /\ UNCHANGED <<tree, locked, file, kept, run, reviewed>>

-----------------------------------------------------------------------------
(* The people and agents at work: on code and manifest, and on the baseline *)
(* file, where an edit by hand leaves a seal that does not fit and a file   *)
(* that was kept comes back with the seal it had.                           *)
Edit(observed) ==
  /\ observed # tree
  /\ tree' = observed
  /\ locked' = (locked /\ observed # Absent)
  /\ green' = FALSE
  /\ UNCHANGED <<file, kept, run, reviewed>>

SetLocked(b) ==
  /\ b # locked
  /\ tree # Absent
  /\ locked' = b
  /\ green' = FALSE
  /\ UNCHANGED <<tree, file, kept, run, reviewed>>

EditFile(rec, alg) ==
  /\ file' = [rec |-> rec, alg |-> alg, intact |-> FALSE]
  /\ green' = FALSE
  /\ UNCHANGED <<tree, locked, kept, run, reviewed>>

DeleteFile ==
  /\ file # NoFile
  /\ file' = NoFile
  /\ green' = FALSE
  /\ UNCHANGED <<tree, locked, kept, run, reviewed>>

(* A file is kept in a commit or a copy, where its seal fits: any other is  *)
(* as easily written.                                                       *)
Keep ==
  /\ file # NoFile /\ file.alg # "none" /\ file.intact
  /\ Cardinality(kept) < MaxKept
  /\ kept' = kept \cup {file}
  /\ UNCHANGED <<tree, locked, file, run, reviewed, green>>

PutBack(f) ==
  /\ file' = f
  /\ green' = FALSE
  /\ UNCHANGED <<tree, locked, kept, run, reviewed>>

Next ==
  \/ \E c \in Command :
       \/ Compute(c) \/ WriteCreated(c) \/ ReadManifest(c) \/ PassGuard(c) \/ Refuse(c) \/ WriteUpdated(c)
       \/ WriteSigned(c) \/ Stop(c)
       \/ \E env \in Environment : FindNone(c, env) \/ BeginUpdate(c, env) \/ ReadToSign(c, env)
  \/ \E env \in Environment, declared \in SUBSET Dependency : Check(env, declared)
  \/ \E observed \in Maybe(Observation) : Edit(observed)
  \/ \E b \in BOOLEAN : SetLocked(b)
  \/ \E rec \in Maybe(Observation \cup Draft), alg \in Algorithm : EditFile(rec, alg)
  \/ DeleteFile
  \/ Keep
  \/ \E f \in kept : PutBack(f)

Spec == Init /\ [][Next]_vars

-----------------------------------------------------------------------------
(* A record that was reviewed, or what updates of a locked cell have made of *)
(* one.                                                                      *)
StaysReviewed(rec) == \E r \in reviewed : rec = r \/ (rec \in Observation /\ Within(rec, r))

(* No seal is ever laundered: whatever a seal that fits is over was created  *)
(* or signed, or accepted without a lock, or is within what was, however     *)
(* commands overlap, whatever is edited, and whichever file is put back.     *)
SealedIsReviewed ==
  file # NoFile /\ file.alg # "none" /\ file.intact /\ file.rec # Absent => StaysReviewed(file.rec)

(* A locked cell whose baseline check is green is what a reviewed record     *)
(* permits, whatever was done to the manifest and the baseline.              *)
GreenIsReviewed ==
  green /\ locked => \E r \in reviewed : Permits(r, tree, {})

(* An update leaves a baseline that accepts the tree it was made from, in   *)
(* the environment it was made in, provided that one verifies what it signs *)
(* and no cell was locked on the way that it cannot verify.                 *)
UpdateSettles ==
  [][\A c \in Command, env \in Environment :
       /\ WriteUpdated(c) /\ run[c].env = env /\ run[c].next = tree
       /\ SealWith(env) = Verifier(env) /\ (locked => Verifier(env) # "none")
       => Passes(env, {})']_vars
=============================================================================
