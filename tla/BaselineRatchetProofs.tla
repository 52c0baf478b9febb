------------------------- MODULE BaselineRatchetProofs -------------------------
(* Proofs about BaselineRatchet, for all sets of items, entries and          *)
(* dependencies, all ownership sets and every relation between patterns,     *)
(* for any number of commands at work and of files that are kept.            *)
EXTENDS BaselineRatchet, TLAPS

(* What a seal that fits is over was reviewed. *)
Trusted(f) == f.alg # "none" /\ f.intact /\ f.rec # Absent => StaysReviewed(f.rec)

(* So it is with the files that are kept and those that are being signed,  *)
(* and with what an update is about to write over a locked cell.           *)
KeptIsTrusted == \A f \in kept : Trusted(f)
ReadIsTrusted == \A c \in Command : run[c].step = "signing" => Trusted(run[c].read)
GuardedIsReviewed ==
  \A c \in Command :
    run[c].step = "guarded" /\ ~run[c].unlocked /\ run[c].next # Absent => StaysReviewed(run[c].next)

(* A locked cell is a cell of the manifest. *)
LockedPresent == locked => tree # Absent

IInv ==
  /\ TypeOK /\ LockedPresent
  /\ SealedIsReviewed /\ KeptIsTrusted /\ ReadIsTrusted /\ GuardedIsReviewed
  /\ GreenIsReviewed

-----------------------------------------------------------------------------
(* An observation has every field, and is no model value. *)
LEMMA ObservationFields ==
  ASSUME RatchetAssumption, DistinctAssumption, NEW rec \in Observation
  PROVE  /\ rec # Absent
         /\ rec.items \in SUBSET Item /\ rec.items # Unrecorded
         /\ rec.owned \in Owned /\ rec.owned # Unrecorded
         /\ rec.entry \in Entry /\ rec.entry # Unrecorded
         /\ rec.deps \in SUBSET Dependency /\ rec.deps # Unrecorded
         /\ \A m \in Metric : rec.counts[m] \in Nat
<1>1. rec \in Observed
  BY DEF RatchetAssumption
<1> QED
  BY <1>1 DEF Observed, RatchetAssumption, DistinctAssumption

(* Every record has its counts, and an ownership set if it has one recorded. *)
LEMMA RecordFields ==
  ASSUME RatchetAssumption, NEW rec \in Observation \cup Draft
  PROVE  /\ rec.owned # Unrecorded => rec.owned \in Owned
         /\ \A m \in Metric : rec.counts[m] \in Nat
<1>1. CASE rec \in Observation
  <2>1. rec \in Observed
    BY <1>1 DEF RatchetAssumption
  <2> QED
    BY <2>1 DEF Observed
<1>2. CASE rec \in Draft
  <2>1. rec \in Record
    BY <1>2 DEF RatchetAssumption
  <2> QED
    BY <2>1 DEF Record, OrUnrecorded
<1> QED
  BY <1>1, <1>2

(* Nothing but nothing is covered by no pattern, and everything is by a set *)
(* with what covers it.                                                     *)
LEMMA CoveredTransitive ==
  ASSUME RatchetAssumption, NEW paths \in Owned, NEW others \in Owned, NEW third \in Owned,
         Covered(paths, others), Covered(others, third)
  PROVE  Covered(paths, third)
BY DEF RatchetAssumption

LEMMA NothingCovers ==
  ASSUME NEW paths, NEW others, NEW any, Covered(paths, others), Covered(others, {})
  PROVE  Covered(paths, any)
BY DEF Covered

(* What is within an observation that is within a third record is within   *)
(* the third.                                                              *)
LEMMA WithinTransitive ==
  ASSUME RatchetAssumption, DistinctAssumption, NEW next \in Observation,
         NEW mid \in Observation, NEW top \in Observation \cup Draft,
         Within(next, mid), Within(mid, top)
  PROVE  Within(next, top)
<1>1. next.items \subseteq Recorded(top.items)
  BY ObservationFields DEF Within, Recorded
<1>2. Covered(next.owned, Recorded(top.owned))
  <2>1. next.owned \in Owned /\ mid.owned \in Owned /\ Recorded(mid.owned) = mid.owned
    BY ObservationFields DEF Recorded
  <2>2. Covered(next.owned, mid.owned) /\ Covered(mid.owned, Recorded(top.owned))
    BY <2>1 DEF Within
  <2>3. CASE top.owned = Unrecorded
    BY <2>2, <2>3, NothingCovers DEF Recorded
  <2>4. CASE top.owned # Unrecorded
    <3>1. top.owned \in Owned /\ Recorded(top.owned) = top.owned
      BY <2>4, RecordFields DEF Recorded
    <3> QED
      BY <2>1, <2>2, <3>1, CoveredTransitive
  <2> QED
    BY <2>3, <2>4
<1>3. next.entry = top.entry
  BY DEF Within
<1>4. top.deps # Unrecorded => next.deps \subseteq top.deps
  BY ObservationFields DEF Within
<1>5. \A m \in Metric : next.counts[m] <= top.counts[m]
  BY ObservationFields, RecordFields DEF Within
<1> QED
  BY <1>1, <1>2, <1>3, <1>4, <1>5 DEF Within

(* What an observation permits, every record it is within permits. *)
LEMMA PermitsWider ==
  ASSUME RatchetAssumption, DistinctAssumption, NEW observed \in Observation,
         NEW mid \in Observation, NEW top \in Observation \cup Draft,
         Permits(mid, observed, {}), Within(mid, top)
  PROVE  Permits(top, observed, {})
<1>1. top.items # Unrecorded => observed.items \subseteq top.items
  BY ObservationFields DEF Within, Recorded, Permits
<1>2. top.owned # Unrecorded => Covered(observed.owned, top.owned)
  <2> SUFFICES ASSUME top.owned # Unrecorded PROVE Covered(observed.owned, top.owned)
    OBVIOUS
  <2>1. observed.owned \in Owned /\ mid.owned \in Owned /\ mid.owned # Unrecorded
    BY ObservationFields
  <2>2. top.owned \in Owned /\ Recorded(top.owned) = top.owned
    BY RecordFields DEF Recorded
  <2>3. Covered(observed.owned, mid.owned)
    BY <2>1 DEF Permits
  <2>4. Covered(mid.owned, top.owned)
    BY <2>2 DEF Within
  <2> QED
    BY <2>1, <2>2, <2>3, <2>4, CoveredTransitive
<1>3. mid.entry = top.entry /\ mid.entry # Unrecorded /\ observed.entry = mid.entry
  BY ObservationFields DEF Within, Permits
<1>4. top.deps # Unrecorded => observed.deps \subseteq top.deps
  BY ObservationFields DEF Within, Permits
<1>5. ASSUME NEW m \in Metric, m # Lines PROVE observed.counts[m] <= top.counts[m]
  <2>1. observed.counts[m] \in Nat /\ mid.counts[m] \in Nat /\ top.counts[m] \in Nat
    BY <1>5, ObservationFields, RecordFields
  <2>2. observed.counts[m] <= mid.counts[m] /\ mid.counts[m] <= top.counts[m]
    BY <1>5 DEF Permits, Within
  <2> QED
    BY <2>1, <2>2
<1> QED
  BY <1>1, <1>2, <1>3, <1>4, <1>5 DEF Permits

(* A seal that verifies on a baseline with a locked cell is a seal, and it  *)
(* is over what the baseline says now.                                      *)
LEMMA LockedSeal ==
  ASSUME NEW env \in Environment, NEW f \in File, SealValid(env, f, TRUE)
  PROVE  f.alg # "none" /\ f.intact
BY DEF SealValid

(* What is within a record that was reviewed, or came of one, did too. *)
LEMMA StaysWithin ==
  ASSUME RatchetAssumption, DistinctAssumption, TypeOK, NEW next \in Observation,
         NEW rec \in Observation \cup Draft, StaysReviewed(rec), Within(next, rec)
  PROVE  StaysReviewed(next)
<1>1. PICK r \in reviewed : rec = r \/ (rec \in Observation /\ Within(rec, r))
  BY DEF StaysReviewed
<1>2. r \in Observation \cup Draft
  BY DEF TypeOK
<1>3. Within(next, r)
  BY <1>1, <1>2, WithinTransitive
<1> QED
  BY <1>1, <1>3 DEF StaysReviewed

(* More reviewed records take nothing back. *)
LEMMA ReviewedGrows ==
  ASSUME reviewed \subseteq reviewed'
  PROVE  /\ \A rec : StaysReviewed(rec) => StaysReviewed(rec)'
         /\ \A f : Trusted(f) => Trusted(f)'
BY DEF StaysReviewed, Trusted, Within, Covered, Recorded
-----------------------------------------------------------------------------
LEMMA WrittenIsFile ==
  ASSUME NEW env \in Environment, NEW next \in Maybe(Observation \cup Draft)
  PROVE  [rec |-> next, alg |-> SealWith(env), intact |-> TRUE] \in File
<1>1. SealWith(env) \in Algorithm
  BY DEF SealWith, Algorithm
<1> QED
  BY <1>1 DEF File

(* What a command that is at work has read. *)
LEMMA RunFields ==
  ASSUME TypeOK, NEW c \in Command
  PROVE  /\ run[c] \in Run
         /\ ~At(c, "idle") => run[c].env \in Environment
         /\ At(c, "created") \/ At(c, "updated") \/ At(c, "guarding") \/ At(c, "guarded") =>
              run[c].next \in Maybe(Observation)
         /\ At(c, "guarding") \/ At(c, "guarded") => run[c].unlocked \in BOOLEAN
         /\ At(c, "signing") => run[c].read \in File
<1>1. run[c] \in Run
  BY DEF TypeOK
<1> QED
  BY <1>1 DEF Run, Idle, At

LEMMA GoTypes ==
  ASSUME TypeOK, NEW c \in Command, NEW state \in Run, Go(c, state)
  PROVE  run' \in [Command -> Run] /\ run'[c] = state /\ \A d \in Command \ {c} : run'[d] = run[d]
BY DEF TypeOK, Go

(* No command and no edit leaves the types. *)
LEMMA TypeStep ==
  ASSUME RatchetAssumption, DistinctAssumption, TypeOK, [Next]_vars
  PROVE  TypeOK'
<1> DEFINE Others == <<tree, locked, file, kept, reviewed, green>>
<1>1. ASSUME NEW c \in Command, NEW state \in Run, Go(c, state), UNCHANGED Others PROVE TypeOK'
  BY <1>1, GoTypes DEF TypeOK
<1>2. ASSUME NEW c \in Command, Go(c, Idle), UNCHANGED <<tree, locked, kept>>, green' = FALSE,
             file' \in File, reviewed' \in SUBSET (Observation \cup Draft)
      PROVE  TypeOK'
  <2>1. Idle \in Run
    BY DEF Run
  <2> QED
    BY <1>2, <2>1, GoTypes DEF TypeOK
<1>3. ASSUME NEW c \in Command, NEW env \in Environment, FindNone(c, env) PROVE TypeOK'
  BY <1>1, <1>3 DEF FindNone, Run
<1>4. ASSUME NEW c \in Command, NEW env \in Environment, BeginUpdate(c, env) PROVE TypeOK'
  BY <1>1, <1>4 DEF BeginUpdate, Run
<1>5. ASSUME NEW c \in Command, Compute(c) PROVE TypeOK'
  <2> DEFINE state == [step |-> IF At(c, "creating") THEN "created" ELSE "updated",
                       env |-> run[c].env, next |-> tree]
  <2>1. run[c].env \in Environment /\ tree \in Maybe(Observation)
    BY <1>5, RunFields DEF Compute, At, TypeOK
  <2>2. state \in Run
    BY <2>1 DEF Run
  <2> QED
    BY <1>1, <1>5, <2>2 DEF Compute
<1>6. ASSUME NEW c \in Command, WriteCreated(c) PROVE TypeOK'
  <2>1. run[c].env \in Environment /\ run[c].next \in Maybe(Observation \cup Draft)
    BY <1>6, RunFields DEF WriteCreated, At, Maybe
  <2>2. file' \in File
    BY <1>6, <2>1, WrittenIsFile DEF WriteCreated, Write
  <2>3. reviewed' \in SUBSET (Observation \cup Draft)
    BY <1>6, <2>1 DEF WriteCreated, Review, Maybe, TypeOK
  <2> QED
    BY <1>2, <1>6, <2>2, <2>3 DEF WriteCreated
<1>6a. ASSUME NEW c \in Command, ReadManifest(c) PROVE TypeOK'
  <2> DEFINE state == [step |-> "guarding", env |-> run[c].env, next |-> run[c].next, unlocked |-> ~locked]
  <2>1. run[c].env \in Environment /\ run[c].next \in Maybe(Observation)
    BY <1>6a, RunFields DEF ReadManifest, At
  <2>2. state \in Run
    BY <2>1 DEF Run
  <2> QED
    BY <1>1, <1>6a, <2>2 DEF ReadManifest
<1>7. ASSUME NEW c \in Command, PassGuard(c) PROVE TypeOK'
  <2> DEFINE state == [step |-> "guarded", env |-> run[c].env, next |-> run[c].next, unlocked |-> run[c].unlocked]
  <2>1. run[c].env \in Environment /\ run[c].next \in Maybe(Observation) /\ run[c].unlocked \in BOOLEAN
    BY <1>7, RunFields DEF PassGuard, At
  <2>2. state \in Run
    BY <2>1 DEF Run
  <2> QED
    BY <1>1, <1>7, <2>2 DEF PassGuard
<1>8. ASSUME NEW c \in Command, Refuse(c) \/ Stop(c) PROVE TypeOK'
  BY <1>1, <1>8 DEF Refuse, Stop, Run
<1>9. ASSUME NEW c \in Command, WriteUpdated(c) PROVE TypeOK'
  <2>1. run[c].env \in Environment /\ run[c].next \in Maybe(Observation \cup Draft)
    BY <1>9, RunFields DEF WriteUpdated, At, Maybe
  <2>2. file' \in File
    BY <1>9, <2>1, WrittenIsFile DEF WriteUpdated, Write
  <2>3. reviewed' \in SUBSET (Observation \cup Draft)
    BY <1>9, <2>1 DEF WriteUpdated, Review, Maybe, TypeOK
  <2> QED
    BY <1>2, <1>9, <2>2, <2>3 DEF WriteUpdated
<1>10. ASSUME NEW c \in Command, NEW env \in Environment, ReadToSign(c, env) PROVE TypeOK'
  <2>1. [step |-> "signing", env |-> env, read |-> file] \in Run
    BY <1>10 DEF ReadToSign, TypeOK, Run
  <2> QED
    BY <1>1, <1>10, <2>1 DEF ReadToSign
<1>11. ASSUME NEW c \in Command, WriteSigned(c) PROVE TypeOK'
  <2>1. run[c].env \in Environment /\ run[c].read \in File /\ run[c].read.rec \in Maybe(Observation \cup Draft)
    BY <1>11, RunFields DEF WriteSigned, At, File
  <2>2. file' \in File
    BY <1>11, <2>1, WrittenIsFile DEF WriteSigned, Write
  <2>3. reviewed' \in SUBSET (Observation \cup Draft)
    BY <1>11, <2>1 DEF WriteSigned, Review, Maybe, TypeOK
  <2> QED
    BY <1>2, <1>11, <2>2, <2>3 DEF WriteSigned
<1>12. ASSUME NEW env \in Environment, NEW declared \in SUBSET Dependency, Check(env, declared)
       PROVE  TypeOK'
  BY <1>12 DEF Check, TypeOK
<1>13. ASSUME NEW observed \in Maybe(Observation), Edit(observed) PROVE TypeOK'
  BY <1>13 DEF Edit, TypeOK
<1>14. ASSUME NEW b \in BOOLEAN, SetLocked(b) PROVE TypeOK'
  BY <1>14 DEF SetLocked, TypeOK
<1>15. ASSUME NEW rec \in Maybe(Observation \cup Draft), NEW alg \in Algorithm, EditFile(rec, alg)
       PROVE  TypeOK'
  BY <1>15 DEF EditFile, TypeOK, File
<1>16. ASSUME DeleteFile PROVE TypeOK'
  BY <1>16 DEF DeleteFile, TypeOK
<1>17. ASSUME Keep PROVE TypeOK'
  BY <1>17 DEF Keep, TypeOK
<1>18. ASSUME NEW f \in kept, PutBack(f) PROVE TypeOK'
  BY <1>18 DEF PutBack, TypeOK
<1>19. CASE UNCHANGED vars
  BY <1>19 DEF vars, TypeOK
<1> QED
  BY <1>3, <1>4, <1>5, <1>6, <1>7, <1>8, <1>9, <1>10, <1>11, <1>12, <1>13, <1>14, <1>15, <1>16,
     <1>17, <1>18, <1>19, <1>6a DEF Next

-----------------------------------------------------------------------------
(* The invariant, without the types. *)
Reviewing ==
  LockedPresent /\ SealedIsReviewed /\ KeptIsTrusted /\ ReadIsTrusted /\ GuardedIsReviewed /\ GreenIsReviewed

(* A command that reads and does not write only has to have read well. *)
LEMMA ReadStep ==
  ASSUME IInv, NEW c \in Command, NEW state \in Run, Go(c, state),
         UNCHANGED <<tree, locked, file, kept, reviewed, green>>,
         state.step = "signing" => Trusted(state.read),
         state.step = "guarded" /\ ~state.unlocked /\ state.next # Absent => StaysReviewed(state.next)
  PROVE  Reviewing'
<1>1. run'[c] = state /\ \A d \in Command \ {c} : run'[d] = run[d]
  BY GoTypes DEF IInv
<1>2. \A rec : StaysReviewed(rec)' <=> StaysReviewed(rec)
  BY DEF StaysReviewed
<1>3. \A f : Trusted(f)' <=> Trusted(f)
  BY <1>2 DEF Trusted
<1>4. LockedPresent' /\ SealedIsReviewed' /\ KeptIsTrusted' /\ GreenIsReviewed'
  BY <1>2, <1>3 DEF IInv, LockedPresent, SealedIsReviewed, KeptIsTrusted, GreenIsReviewed, StaysReviewed
<1>5. ReadIsTrusted'
  <2> SUFFICES ASSUME NEW d \in Command, run'[d].step = "signing" PROVE Trusted(run[d].read)'
    BY DEF ReadIsTrusted
  <2>1. Trusted(run'[d].read)
    BY <1>1 DEF IInv, ReadIsTrusted
  <2> QED
    BY <2>1 DEF Trusted, StaysReviewed
<1>6. GuardedIsReviewed'
  <2> SUFFICES ASSUME NEW d \in Command, run'[d].step = "guarded", ~run'[d].unlocked, run'[d].next # Absent
               PROVE  StaysReviewed(run[d].next)'
    BY DEF GuardedIsReviewed
  <2>1. StaysReviewed(run'[d].next)
    BY <1>1 DEF IInv, GuardedIsReviewed
  <2> QED
    BY <2>1 DEF StaysReviewed
<1> QED
  BY <1>4, <1>5, <1>6 DEF Reviewing

(* A write has to leave a file that can be trusted; green' says that a check *)
(* has not been made since.                                                  *)
LEMMA WriteStep ==
  ASSUME IInv, reviewed \subseteq reviewed', UNCHANGED <<tree, kept>>, locked' => tree' # Absent,
         ~green', file' # NoFile => Trusted(file)',
         \A c \in Command : run'[c] = run[c] \/ run'[c] = Idle
  PROVE  Reviewing'
<1>1. LockedPresent' /\ GreenIsReviewed' /\ SealedIsReviewed'
  BY DEF LockedPresent, GreenIsReviewed, SealedIsReviewed, Trusted
<1>2. \A rec : StaysReviewed(rec) => StaysReviewed(rec)'
  BY ReviewedGrows
<1>3. \A f : Trusted(f) => Trusted(f)'
  BY ReviewedGrows
<1>4. KeptIsTrusted'
  BY <1>3 DEF IInv, KeptIsTrusted
<1>5. ReadIsTrusted'
  <2> SUFFICES ASSUME NEW d \in Command, run'[d].step = "signing" PROVE Trusted(run[d].read)'
    BY DEF ReadIsTrusted
  <2>1. run'[d] = run[d] /\ Trusted(run'[d].read)
    BY DEF IInv, ReadIsTrusted, Idle
  <2> QED
    BY <1>2, <2>1 DEF Trusted, StaysReviewed
<1>6. GuardedIsReviewed'
  <2> SUFFICES ASSUME NEW d \in Command, run'[d].step = "guarded", ~run'[d].unlocked, run'[d].next # Absent
               PROVE  StaysReviewed(run[d].next)'
    BY DEF GuardedIsReviewed
  <2>1. StaysReviewed(run'[d].next)
    BY DEF IInv, GuardedIsReviewed, Idle
  <2> QED
    BY <2>1 DEF StaysReviewed
<1> QED
  BY <1>1, <1>4, <1>5, <1>6 DEF Reviewing

(* An update that passes the guard of a cell it has found locked stays      *)
(* within what was reviewed.                                                *)
LEMMA GuardReviewed ==
  ASSUME RatchetAssumption, DistinctAssumption, IInv, NEW c \in Command, PassGuard(c),
         ~run[c].unlocked, run[c].next # Absent
  PROVE  StaysReviewed(run[c].next)
<1>1. run[c].env \in Environment /\ run[c].next \in Observation
  BY RunFields DEF IInv, PassGuard, At, Maybe
<1>0. Guard(run[c].env, run[c].next, TRUE)
  <2>1. run[c].unlocked = FALSE
    BY RunFields DEF IInv, PassGuard, At
  <2>2. Guard(run[c].env, run[c].next, ~run[c].unlocked)
    BY DEF PassGuard
  <2> QED
    BY <2>1, <2>2
<1>2. /\ file # NoFile /\ SealValid(run[c].env, file, TRUE)
      /\ file.rec # Absent /\ Within(run[c].next, file.rec)
  BY <1>0 DEF Guard
<1>3. file \in File /\ file.rec \in Observation \cup Draft
  BY <1>2 DEF IInv, TypeOK, File, Maybe
<1>4. StaysReviewed(file.rec)
  BY <1>1, <1>2, <1>3, LockedSeal DEF IInv, SealedIsReviewed
<1> QED
  BY <1>1, <1>2, <1>3, <1>4, StaysWithin DEF IInv

(* A tree that the baseline of a locked cell accepts is what a reviewed     *)
(* record permits.                                                          *)
LEMMA CheckReviewed ==
  ASSUME RatchetAssumption, DistinctAssumption, IInv, NEW env \in Environment,
         NEW declared \in SUBSET Dependency, Passes(env, declared), locked
  PROVE  \E r \in reviewed : Permits(r, tree, {})
<1>0. locked = TRUE
  BY DEF IInv, TypeOK
<1>1. file # NoFile /\ SealValid(env, file, TRUE) /\ Accepts(file.rec, declared) /\ tree # Absent
  BY <1>0 DEF Passes, IInv, LockedPresent
<1>2. file \in File /\ tree \in Observation
  BY <1>1 DEF IInv, TypeOK, Maybe
<1>3. file.rec # Absent /\ Permits(file.rec, tree, {})
  BY <1>1 DEF Accepts
<1>4. StaysReviewed(file.rec)
  BY <1>1, <1>2, <1>3, LockedSeal DEF IInv, SealedIsReviewed
<1>5. PICK r \in reviewed : file.rec = r \/ (file.rec \in Observation /\ Within(file.rec, r))
  BY <1>4 DEF StaysReviewed
<1>6. r \in Observation \cup Draft
  BY DEF IInv, TypeOK
<1>7. Permits(r, tree, {})
  BY <1>2, <1>3, <1>5, <1>6, PermitsWider
<1> QED
  BY <1>7

(* What is reviewed when it is written can be trusted. *)
LEMMA WriteTrusted ==
  ASSUME NEW env \in Environment, NEW next, Write(env, next), reviewed \subseteq reviewed',
         next # Absent => StaysReviewed(next) \/ next \in reviewed'
  PROVE  Trusted(file)'
<1>1. file'.rec = next
  BY DEF Write
<1>2. StaysReviewed(next) => StaysReviewed(file.rec)'
  BY <1>1 DEF StaysReviewed
<1> QED
  BY <1>1, <1>2 DEF Trusted, StaysReviewed

(* No step takes what is sealed, or is going to be, beyond what was reviewed. *)
LEMMA ReviewStep ==
  ASSUME RatchetAssumption, DistinctAssumption, IInv, TypeOK', [Next]_vars
  PROVE  Reviewing'
<1> USE DEF IInv
<1>0. Idle \in Run /\ Idle.step = "idle"
  BY DEF Idle, Run
<1>1. ASSUME NEW c \in Command, Go(c, Idle), UNCHANGED <<tree, locked, kept>>, ~green',
             reviewed \subseteq reviewed', Trusted(file)'
      PROVE  Reviewing'
  <2>1. \A d \in Command : run'[d] = run[d] \/ run'[d] = Idle
    BY <1>0, <1>1, GoTypes
  <2> QED
    BY <1>1, <2>1, WriteStep DEF LockedPresent
<1>2. ASSUME UNCHANGED <<tree, kept, reviewed, run>>, locked' => tree' # Absent, ~green',
             file' # NoFile => Trusted(file)'
      PROVE  Reviewing'
  BY <1>2, WriteStep
<1>3. ASSUME NEW c \in Command, NEW env \in Environment, FindNone(c, env) PROVE Reviewing'
  <2> DEFINE state == [step |-> "creating", env |-> env]
  <2>1. state \in Run
    BY DEF Run
  <2> QED
    BY <1>3, <2>1, ReadStep DEF FindNone
<1>4. ASSUME NEW c \in Command, NEW env \in Environment, BeginUpdate(c, env) PROVE Reviewing'
  <2> DEFINE state == [step |-> "updating", env |-> env]
  <2>1. state \in Run
    BY DEF Run
  <2> QED
    BY <1>4, <2>1, ReadStep DEF BeginUpdate
<1>5. ASSUME NEW c \in Command, Compute(c) PROVE Reviewing'
  <2> DEFINE state == [step |-> IF At(c, "creating") THEN "created" ELSE "updated",
                       env |-> run[c].env, next |-> tree]
  <2>1. run[c].env \in Environment /\ tree \in Maybe(Observation)
    BY <1>5, RunFields DEF Compute, At, TypeOK
  <2>2. state \in Run /\ state.step # "signing" /\ state.step # "guarded"
    BY <2>1 DEF Run
  <2>3. Go(c, state) /\ UNCHANGED <<tree, locked, file, kept, reviewed, green>>
    BY <1>5 DEF Compute
  <2> HIDE DEF state
  <2> QED
    BY <2>2, <2>3, ReadStep
<1>6. ASSUME NEW c \in Command, WriteCreated(c) PROVE Reviewing'
  <2>1. run[c].env \in Environment
    BY <1>6, RunFields DEF WriteCreated, At
  <2>2. Write(run[c].env, run[c].next) /\ Review(run[c].next)
    BY <1>6 DEF WriteCreated
  <2>3. reviewed \subseteq reviewed' /\ (run[c].next # Absent => run[c].next \in reviewed')
    BY <2>2 DEF Review
  <2>4. Trusted(file)'
    BY <2>1, <2>2, <2>3, WriteTrusted
  <2> QED
    BY <1>1, <1>6, <2>3, <2>4 DEF WriteCreated
<1>6a. ASSUME NEW c \in Command, ReadManifest(c) PROVE Reviewing'
  <2> DEFINE state == [step |-> "guarding", env |-> run[c].env, next |-> run[c].next, unlocked |-> ~locked]
  <2>1. run[c].env \in Environment /\ run[c].next \in Maybe(Observation)
    BY <1>6a, RunFields DEF ReadManifest, At
  <2>2. state \in Run /\ state.step # "signing" /\ state.step # "guarded"
    BY <2>1 DEF Run
  <2>3. Go(c, state) /\ UNCHANGED <<tree, locked, file, kept, reviewed, green>>
    BY <1>6a DEF ReadManifest
  <2> HIDE DEF state
  <2> QED
    BY <2>2, <2>3, ReadStep
<1>7. ASSUME NEW c \in Command, PassGuard(c) PROVE Reviewing'
  <2> DEFINE state == [step |-> "guarded", env |-> run[c].env, next |-> run[c].next, unlocked |-> run[c].unlocked]
  <2>1. run[c].env \in Environment /\ run[c].next \in Maybe(Observation) /\ run[c].unlocked \in BOOLEAN
    BY <1>7, RunFields DEF PassGuard, At
  <2>2. state \in Run /\ state.step # "signing" /\ state.next = run[c].next /\ state.unlocked = run[c].unlocked
    BY <2>1 DEF Run
  <2>3. Go(c, state) /\ UNCHANGED <<tree, locked, file, kept, reviewed, green>>
    BY <1>7 DEF PassGuard
  <2>4. ~state.unlocked /\ state.next # Absent => StaysReviewed(state.next)
    BY <1>7, <2>2, GuardReviewed
  <2> HIDE DEF state
  <2> QED
    BY <2>2, <2>3, <2>4, ReadStep
<1>8. ASSUME NEW c \in Command, Refuse(c) \/ Stop(c) PROVE Reviewing'
  BY <1>0, <1>8, ReadStep DEF Refuse, Stop
<1>9. ASSUME NEW c \in Command, WriteUpdated(c) PROVE Reviewing'
  <2>1. run[c].env \in Environment /\ Write(run[c].env, run[c].next) /\ At(c, "guarded")
    BY <1>9, RunFields DEF WriteUpdated, At
  <2>2. reviewed \subseteq reviewed'
    BY <1>9 DEF WriteUpdated, Review
  <2>3. CASE run[c].unlocked
    <3>1. Review(run[c].next)
      BY <1>9, <2>3 DEF WriteUpdated
    <3>2. run[c].next # Absent => run[c].next \in reviewed'
      BY <3>1 DEF Review
    <3> QED
      BY <1>1, <1>9, <2>1, <2>2, <3>2, WriteTrusted DEF WriteUpdated
  <2>4. CASE ~run[c].unlocked
    <3>1. run[c].next # Absent => StaysReviewed(run[c].next)
      BY <2>1, <2>4 DEF GuardedIsReviewed, At
    <3> QED
      BY <1>1, <1>9, <2>1, <2>2, <3>1, WriteTrusted DEF WriteUpdated
  <2> QED
    BY <2>3, <2>4
<1>10. ASSUME NEW c \in Command, NEW env \in Environment, ReadToSign(c, env) PROVE Reviewing'
  <2> DEFINE state == [step |-> "signing", env |-> env, read |-> file]
  <2>1. state \in Run /\ state.step # "guarded" /\ state.read = file
    BY <1>10 DEF ReadToSign, TypeOK, Run
  <2>2. Trusted(file)
    BY <1>10 DEF ReadToSign, SealedIsReviewed, Trusted
  <2>3. Go(c, state) /\ UNCHANGED <<tree, locked, file, kept, reviewed, green>>
    BY <1>10 DEF ReadToSign
  <2> HIDE DEF state
  <2> QED
    BY <2>1, <2>2, <2>3, ReadStep
<1>11. ASSUME NEW c \in Command, WriteSigned(c) PROVE Reviewing'
  <2>1. run[c].env \in Environment /\ Trusted(run[c].read)
    BY <1>11, RunFields DEF WriteSigned, At, ReadIsTrusted
  <2>2. CASE SealWith(run[c].env) = "none"
    <3>1. file' = run[c].read /\ reviewed' = reviewed
      BY <1>11, <2>2 DEF WriteSigned
    <3>2. Trusted(file)'
      BY <2>1, <3>1 DEF Trusted, StaysReviewed
    <3> QED
      BY <1>1, <1>11, <3>1, <3>2 DEF WriteSigned
  <2>3. CASE SealWith(run[c].env) # "none"
    <3>1. Write(run[c].env, run[c].read.rec) /\ Review(run[c].read.rec)
      BY <1>11, <2>3 DEF WriteSigned
    <3>2. reviewed \subseteq reviewed' /\ (run[c].read.rec # Absent => run[c].read.rec \in reviewed')
      BY <3>1 DEF Review
    <3>3. Trusted(file)'
      BY <2>1, <3>1, <3>2, WriteTrusted
    <3> QED
      BY <1>1, <1>11, <3>2, <3>3 DEF WriteSigned
  <2> QED
    BY <2>2, <2>3
<1>12. ASSUME NEW env \in Environment, NEW declared \in SUBSET Dependency, Check(env, declared)
       PROVE  Reviewing'
  <2>1. UNCHANGED <<tree, locked, file, kept, run, reviewed>> /\ Passes(env, declared)
    BY <1>12 DEF Check
  <2>2. \A rec : StaysReviewed(rec)' <=> StaysReviewed(rec)
    BY <2>1 DEF StaysReviewed
  <2>3. SealedIsReviewed' /\ LockedPresent' /\ KeptIsTrusted' /\ ReadIsTrusted' /\ GuardedIsReviewed'
    BY <2>1, <2>2 DEF SealedIsReviewed, LockedPresent, KeptIsTrusted, ReadIsTrusted, GuardedIsReviewed,
       Trusted, StaysReviewed
  <2>4. locked => \E r \in reviewed : Permits(r, tree, {})
    BY <2>1, CheckReviewed
  <2>5. GreenIsReviewed'
    BY <2>1, <2>4 DEF GreenIsReviewed
  <2> QED
    BY <2>3, <2>5 DEF Reviewing
<1>13. ASSUME NEW observed \in Maybe(Observation), Edit(observed) PROVE Reviewing'
  <2>1. UNCHANGED <<file, kept, run, reviewed>> /\ ~green' /\ (locked' => tree' # Absent)
    BY <1>13 DEF Edit
  <2> QED
    BY <2>1 DEF Reviewing, SealedIsReviewed, LockedPresent, KeptIsTrusted, ReadIsTrusted,
       GuardedIsReviewed, GreenIsReviewed, Trusted, StaysReviewed
<1>14. ASSUME NEW b \in BOOLEAN, SetLocked(b) PROVE Reviewing'
  <2>1. UNCHANGED <<tree, file, kept, run, reviewed>> /\ ~green' /\ (locked' => tree' # Absent)
    BY <1>14 DEF SetLocked
  <2>2. file' # NoFile => Trusted(file)'
    BY <2>1 DEF SealedIsReviewed, Trusted, StaysReviewed
  <2> QED
    BY <1>2, <2>1, <2>2
<1>15. ASSUME NEW rec \in Maybe(Observation \cup Draft), NEW alg \in Algorithm, EditFile(rec, alg)
       PROVE  Reviewing'
  BY <1>2, <1>15 DEF EditFile, Trusted, LockedPresent
<1>16. ASSUME DeleteFile PROVE Reviewing'
  BY <1>2, <1>16 DEF DeleteFile, LockedPresent
<1>17. ASSUME Keep PROVE Reviewing'
  <2>1. UNCHANGED <<tree, locked, file, run, reviewed, green>> /\ kept' = kept \cup {file} /\ Trusted(file)
    BY <1>17 DEF Keep, SealedIsReviewed, Trusted
  <2>2. KeptIsTrusted'
    BY <2>1 DEF KeptIsTrusted, Trusted, StaysReviewed
  <2> QED
    BY <2>1, <2>2 DEF Reviewing, SealedIsReviewed, LockedPresent, ReadIsTrusted, GuardedIsReviewed,
       GreenIsReviewed, Trusted, StaysReviewed
<1>18. ASSUME NEW f \in kept, PutBack(f) PROVE Reviewing'
  <2>1. Trusted(f) /\ file' = f /\ UNCHANGED <<tree, locked, kept, run, reviewed>> /\ ~green'
    BY <1>18 DEF PutBack, KeptIsTrusted
  <2>2. Trusted(file)'
    BY <2>1 DEF Trusted, StaysReviewed
  <2> QED
    BY <1>2, <2>1, <2>2 DEF LockedPresent
<1>19. CASE UNCHANGED vars
  BY <1>19 DEF vars, Reviewing, SealedIsReviewed, LockedPresent, KeptIsTrusted, ReadIsTrusted,
     GuardedIsReviewed, GreenIsReviewed, Trusted, StaysReviewed
<1> QED
  BY <1>3, <1>4, <1>5, <1>6, <1>7, <1>8, <1>9, <1>10, <1>11, <1>12, <1>13, <1>14, <1>15, <1>16,
     <1>17, <1>18, <1>19, <1>6a DEF Next

(* Types and reviewed records hold in every reachable state. *)
LEMMA Inductive == Spec => []IInv
<1>1. Init => IInv
  <2> SUFFICES ASSUME Init PROVE IInv
    OBVIOUS
  <2>1. TypeOK
    BY DEF Init, TypeOK, Maybe, Run
  <2>2. \A c \in Command : run[c].step = "idle"
    BY DEF Init, Idle
  <2>3. ReadIsTrusted /\ GuardedIsReviewed
    BY <2>2 DEF ReadIsTrusted, GuardedIsReviewed
  <2>4. LockedPresent /\ SealedIsReviewed /\ KeptIsTrusted /\ GreenIsReviewed
    BY DEF Init, LockedPresent, SealedIsReviewed, KeptIsTrusted, GreenIsReviewed
  <2> QED
    BY <2>1, <2>3, <2>4 DEF IInv
<1>2. IInv /\ [Next]_vars => IInv'
  <2> SUFFICES ASSUME IInv, [Next]_vars PROVE IInv'
    OBVIOUS
  <2>1. TypeOK'
    BY TypeStep, RatchetAssumption, DistinctAssumption DEF IInv
  <2>2. Reviewing'
    BY <2>1, ReviewStep, RatchetAssumption, DistinctAssumption
  <2> QED
    BY <2>1, <2>2 DEF IInv, Reviewing
<1> QED
  BY <1>1, <1>2, PTL DEF Spec

(* Whatever is under a seal that fits was created or signed, or accepted of *)
(* an unlocked cell, or is within what was, however commands overlap and    *)
(* whichever file is put back.                                              *)
THEOREM SealsAreReviewed == Spec => []SealedIsReviewed
<1>1. IInv => SealedIsReviewed
  BY DEF IInv
<1> QED
  BY <1>1, Inductive, PTL

(* A locked cell with a green baseline check is what some reviewed record   *)
(* permits.                                                                 *)
THEOREM GreenTreesAreReviewed == Spec => []GreenIsReviewed
<1>1. IInv => GreenIsReviewed
  BY DEF IInv
<1> QED
  BY <1>1, Inductive, PTL

(* What an update writes over an unchanged tree passes the check where the  *)
(* key that signs is the one that verifies, even if a cell was locked after *)
(* the guard had looked.                                                    *)
LEMMA UpdatePasses ==
  ASSUME RatchetAssumption, DistinctAssumption, TypeOK, NEW c \in Command, NEW env \in Environment,
         WriteUpdated(c), run[c].env = env, run[c].next = tree, SealWith(env) = Verifier(env),
         locked => Verifier(env) # "none"
  PROVE  Passes(env, {})'
<1> DEFINE f == [rec |-> tree, alg |-> SealWith(env), intact |-> TRUE]
<1>1. file' = f /\ tree' = tree /\ locked' = locked
  BY DEF WriteUpdated, Write
<1>2. f \in File
  BY WrittenIsFile DEF TypeOK, Maybe
<1>3. f # NoFile
  BY <1>2 DEF DistinctAssumption
<1>4. f.alg = Verifier(env) /\ f.intact /\ f.rec = tree
  OBVIOUS
<1> HIDE DEF f
<1>5. SealValid(env, file, locked)'
  BY <1>1, <1>4 DEF SealValid
<1>6. tree # Absent => Permits(tree, tree, {})
  <2> SUFFICES ASSUME tree # Absent PROVE Permits(tree, tree, {})
    OBVIOUS
  <2>1. tree \in Observation
    BY DEF TypeOK, Maybe
  <2>2. Covered(tree.owned, tree.owned) /\ \A m \in Metric : tree.counts[m] <= tree.counts[m]
    BY <2>1, ObservationFields DEF RatchetAssumption
  <2> QED
    BY <2>2 DEF Permits
<1>7. Accepts(file.rec, {})'
  BY <1>1, <1>4, <1>6 DEF Accepts, Permits, Covered
<1> QED
  BY <1>1, <1>3, <1>5, <1>7 DEF Passes

(* An update settles the check of the tree it was made from. *)
THEOREM UpdatesSettle == Spec => UpdateSettles
<1>1. IInv /\ [Next]_vars =>
        [\A c \in Command, env \in Environment :
           /\ WriteUpdated(c) /\ run[c].env = env /\ run[c].next = tree
           /\ SealWith(env) = Verifier(env) /\ (locked => Verifier(env) # "none")
           => Passes(env, {})']_vars
  BY UpdatePasses, RatchetAssumption, DistinctAssumption DEF IInv
<1> QED
  BY <1>1, Inductive, PTL DEF Spec, UpdateSettles

(* Every state of the baseline is one of its types. *)
THEOREM RatchetTypes == Spec => []TypeOK
<1>1. IInv => TypeOK
  BY DEF IInv
<1> QED
  BY <1>1, Inductive, PTL
=============================================================================
