------------------------- MODULE LocalFileStoreProofs -------------------------
(* Proofs about the local-file claim backend, for every set of processes,   *)
(* whoever may die, serialized or not.                                      *)
EXTENDS LocalFileStore, TLAPS

(* No step leaves the types.                                               *)
LEMMA TypeStep ==
  ASSUME StoreAssumption, TypeOK, [Next]_vars
  PROVE  TypeOK'
<1> USE StoreAssumption DEF TypeOK, Mutex!TypeOK
<1> USE DEF At, Goto, Conflict, Free, Blank, Location
<1>1. ASSUME NEW p \in Process, Begin(p) PROVE TypeOK'
  BY <1>1 DEF Begin, Mutex!Acquire
<1>2. ASSUME NEW p \in Process, Read(p) PROVE TypeOK'
  BY <1>2 DEF Read
<1>3. ASSUME NEW p \in Process, Open(p) PROVE TypeOK'
  <2>1. CASE lock = Free
    <3>1. Blank(p) \in [owner : Process \cup {Nobody}, stamped : BOOLEAN, old : BOOLEAN]
      OBVIOUS
    <3>2. lock' = Blank(p) /\ pc' = [pc EXCEPT ![p] = "stamp"]
      BY <1>3, <2>1 DEF Open
    <3>3. UNCHANGED <<file, base, outcome, holder, dead>>
      BY <1>3, <2>1 DEF Open
    <3>4. QED
      BY <3>1, <3>2, <3>3
  <2>2. CASE lock # Free
    BY <1>3, <2>2 DEF Open
  <2>3. QED
    BY <2>1, <2>2
<1>4. ASSUME NEW p \in Process, Inspect(p) PROVE TypeOK'
  BY <1>4 DEF Inspect
<1>5. ASSUME NEW p \in Process, Remove(p) PROVE TypeOK'
  BY <1>5 DEF Remove
<1>6. ASSUME NEW p \in Process, Reopen(p) PROVE TypeOK'
  <2>1. CASE lock = Free
    <3>1. Blank(p) \in [owner : Process \cup {Nobody}, stamped : BOOLEAN, old : BOOLEAN]
      OBVIOUS
    <3>2. lock' = Blank(p) /\ pc' = [pc EXCEPT ![p] = "stamp"]
      BY <1>6, <2>1 DEF Reopen
    <3>3. UNCHANGED <<file, base, outcome, holder, dead>>
      BY <1>6, <2>1 DEF Reopen
    <3>4. QED
      BY <3>1, <3>2, <3>3
  <2>2. CASE lock # Free
    BY <1>6, <2>2 DEF Reopen
  <2>3. QED
    BY <2>1, <2>2
<1>7. ASSUME NEW p \in Process, Stamp(p) PROVE TypeOK'
  BY <1>7 DEF Stamp
<1>8. ASSUME NEW p \in Process, Compare(p) PROVE TypeOK'
  BY <1>8 DEF Compare
<1>9. ASSUME NEW p \in Process, Rename(p) PROVE TypeOK'
  BY <1>9 DEF Rename
<1>10. ASSUME NEW p \in Process, Unlock(p) PROVE TypeOK'
  BY <1>10 DEF Unlock
<1>11. ASSUME NEW p \in Process, Return(p) PROVE TypeOK'
  BY <1>11 DEF Return, Mutex!Release
<1>12. ASSUME NEW p \in Process, Retry(p) PROVE TypeOK'
  BY <1>12 DEF Retry
<1>13. ASSUME NEW p \in Process, Die(p) PROVE TypeOK'
  BY <1>13 DEF Die, Mutex!Die
<1>14. CASE Reclaim
  BY <1>14 DEF Reclaim, Mutex!Reclaim
<1>15. CASE Age
  BY <1>15 DEF Age
<1>16. CASE UNCHANGED vars
  BY <1>16 DEF vars
<1>17. QED
  BY <1>1, <1>2, <1>3, <1>4, <1>5, <1>6, <1>7, <1>8, <1>9, <1>10, <1>11,
     <1>12, <1>13, <1>14, <1>15, <1>16 DEF Next, Step

(* Every state is well-typed. *)
THEOREM TypeCorrect == Spec => []TypeOK
<1>1. Init => TypeOK
  BY StoreAssumption DEF Init, TypeOK, Mutex!TypeOK, Mutex!Init, Free, Location
<1>2. TypeOK /\ [Next]_vars => TypeOK'
  BY TypeStep, StoreAssumption
<1>3. QED
  BY <1>1, <1>2, PTL DEF Spec

(* No live process leaves the write lock behind: the lock file of a live    *)
(* process exists only while that process is inside withDirectWriteLock.    *)
THEOREM WriteLockNotLeaked == Spec => []NoLeakedWriteLock
<1> USE StoreAssumption DEF NoLeakedWriteLock
<1>1. Init => NoLeakedWriteLock
  BY DEF Init, Mutex!Init, Free
<1>2. TypeOK /\ NoLeakedWriteLock /\ [Next]_vars => NoLeakedWriteLock'
  <2> SUFFICES ASSUME TypeOK, NoLeakedWriteLock, [Next]_vars
               PROVE  NoLeakedWriteLock'
    OBVIOUS
  <2> USE DEF TypeOK, Mutex!TypeOK, At, Goto, Free, Blank
  <2>1. ASSUME NEW p \in Process, Begin(p) \/ Return(p) \/ Read(p) \/ Retry(p)
        PROVE  NoLeakedWriteLock'
    BY <2>1 DEF Begin, Mutex!Acquire, Return, Mutex!Release, Read, Retry
  <2>2. ASSUME NEW p \in Process, Open(p) \/ Reopen(p) PROVE NoLeakedWriteLock'
    BY <2>2 DEF Open, Reopen
  <2>3. ASSUME NEW p \in Process, Inspect(p) \/ Remove(p) PROVE NoLeakedWriteLock'
    BY <2>3 DEF Inspect, Remove
  <2>4. ASSUME NEW p \in Process, Stamp(p) \/ Compare(p) \/ Rename(p)
        PROVE  NoLeakedWriteLock'
    BY <2>4 DEF Stamp, Compare, Rename
  <2>5. ASSUME NEW p \in Process, Unlock(p) PROVE NoLeakedWriteLock'
    BY <2>5 DEF Unlock
  <2>6. ASSUME NEW p \in Process, Die(p) PROVE NoLeakedWriteLock'
    BY <2>6 DEF Die, Mutex!Die
  <2>7. CASE Reclaim
    BY <2>7 DEF Reclaim, Mutex!Reclaim
  <2>8. CASE Age
    BY <2>8 DEF Age
  <2>9. CASE UNCHANGED vars
    BY <2>9 DEF vars
  <2>10. QED
    BY <2>1, <2>2, <2>3, <2>4, <2>5, <2>6, <2>7, <2>8, <2>9 DEF Next, Step
<1>3. QED
  BY <1>1, <1>2, TypeCorrect, PTL DEF Spec
-----------------------------------------------------------------------------
(* With the claim-store lock around it, a write compares and publishes while *)
(* nobody else can: the invariant behind the refinement of the ledger.       *)

Holding == {"read", "open", "inspect", "remove", "reopen", "stamp", "compare",
            "rename", "unlock", "return"}
Writing == {"open", "inspect", "remove", "reopen", "stamp", "compare", "rename"}

(* A live process in the critical section holds the claim-store lock. *)
Serial == \A p \in Process \ dead : pc[p] \in Holding => holder = p

(* What it has read is still what is stored. *)
BaseCurrent == \A p \in Process \ dead : pc[p] \in Writing => base[p] = file

(* A live process has its claim stored from its rename on, and is told so. *)
Stored ==
  \A p \in Process \ dead :
    /\ pc[p] \in {"start", "read"} \cup Writing => p \notin file /\ outcome[p] = "none"
    /\ pc[p] \in {"unlock", "return", "done"} =>
         (p \in file <=> outcome[p] # "conflict")
    /\ pc[p] \in {"return", "done"} => outcome[p] # "none"

Confirmed == \A p \in Process : outcome[p] = "ok" => p \in file

SInv == TypeOK /\ Serial /\ BaseCurrent /\ Stored /\ Confirmed

(* With the claim-store lock around it a write finds the store as it read  *)
(* it.                                                                     *)
LEMMA SerialStep ==
  ASSUME StoreAssumption, Serialized, SInv, [Next]_vars, TypeOK'
  PROVE  SInv'
<1> USE DEF TypeOK, Mutex!TypeOK, At, Goto, Conflict, Holding, Writing, Location
<1> DEFINE Rest == Serial /\ BaseCurrent /\ Stored /\ Confirmed
<1>0. SUFFICES Rest'
  BY DEF SInv
<1> USE DEF SInv, Serial, BaseCurrent, Stored, Confirmed
<1>1. ASSUME NEW p \in Process, Begin(p) PROVE Rest'
  BY <1>1 DEF Begin, Mutex!Acquire
<1>2. ASSUME NEW p \in Process, Read(p) PROVE Rest'
  BY <1>2 DEF Read
<1>3. ASSUME NEW p \in Process, Open(p) PROVE Rest'
  BY <1>3 DEF Open
<1>4. ASSUME NEW p \in Process, Inspect(p) PROVE Rest'
  BY <1>4 DEF Inspect
<1>5. ASSUME NEW p \in Process, Remove(p) PROVE Rest'
  BY <1>5 DEF Remove
<1>6. ASSUME NEW p \in Process, Reopen(p) PROVE Rest'
  BY <1>6 DEF Reopen
<1>7. ASSUME NEW p \in Process, Stamp(p) PROVE Rest'
  BY <1>7 DEF Stamp
<1>8. ASSUME NEW p \in Process, Compare(p) PROVE Rest'
  BY <1>8 DEF Compare
<1>9. ASSUME NEW p \in Process, Rename(p) PROVE Rest'
  BY <1>9 DEF Rename
<1>10. ASSUME NEW p \in Process, Unlock(p) PROVE Rest'
  BY <1>10 DEF Unlock
<1>11. ASSUME NEW p \in Process, Return(p) PROVE Rest'
  BY <1>11 DEF Return, Mutex!Release
<1>12. ASSUME NEW p \in Process, Retry(p) PROVE Rest'
  BY <1>12 DEF Retry
<1>13. ASSUME NEW p \in Process, Die(p) PROVE Rest'
  BY <1>13 DEF Die, Mutex!Die
<1>14. CASE Reclaim
  BY <1>14, StoreAssumption DEF Reclaim, Mutex!Reclaim
<1>15. CASE Age
  BY <1>15 DEF Age
<1>16. CASE UNCHANGED vars
  BY <1>16 DEF vars
<1> QED
  BY <1>1, <1>2, <1>3, <1>4, <1>5, <1>6, <1>7, <1>8, <1>9, <1>10, <1>11,
     <1>12, <1>13, <1>14, <1>15, <1>16 DEF Next, Step

(* Every step is a step of the ledger, or leaves it as it is: a rename       *)
(* appends the claim of its process, an unlock confirms it.                  *)
LEMMA LedgerStep ==
  ASSUME StoreAssumption, Serialized, SInv, [Next]_vars
  PROVE  [Ledger!Next]_(Ledger!vars)
<1> DEFINE Ok == {p \in Process : outcome[p] = "ok"}
<1> USE DEF SInv, TypeOK, Mutex!TypeOK, At, Goto, Conflict, Writing
<1>1. ASSUME NEW p \in Process, Rename(p) PROVE [Ledger!Next]_(Ledger!vars)
  <2>1. file' = file \cup {p} /\ p \notin file /\ Ok' = Ok
    BY <1>1 DEF Rename, BaseCurrent, Stored
  <2> QED
    BY <2>1 DEF Ledger!Next, Ledger!Append
<1>2. ASSUME NEW p \in Process, Unlock(p) PROVE [Ledger!Next]_(Ledger!vars)
  <2>1. CASE outcome[p] = "none"
    <3>1. p \in file \ Ok /\ file' = file
      BY <1>2, <2>1 DEF Unlock, Stored
    <3>2. Ok' = Ok \cup {p}
      BY <1>2, <2>1 DEF Unlock
    <3> QED
      BY <3>1, <3>2 DEF Ledger!Next, Ledger!Acknowledge
  <2>2. CASE outcome[p] # "none"
    <3>1. outcome' = outcome /\ file' = file
      BY <1>2, <2>2 DEF Unlock
    <3> QED
      BY <3>1 DEF Ledger!vars
  <2> QED
    BY <2>1, <2>2
<1>3. ASSUME NEW p \in Process, Inspect(p) \/ Reopen(p) \/ Compare(p) \/ Retry(p)
      PROVE  [Ledger!Next]_(Ledger!vars)
  <2>1. file' = file /\ Ok' = Ok
    BY <1>3 DEF Inspect, Reopen, Compare, Retry, Stored
  <2> QED
    BY <2>1 DEF Ledger!vars
<1>4. ASSUME file' = file, outcome' = outcome PROVE [Ledger!Next]_(Ledger!vars)
  BY <1>4 DEF Ledger!vars
<1>5. ASSUME NEW p \in Process,
             Begin(p) \/ Read(p) \/ Open(p) \/ Remove(p) \/ Stamp(p) \/ Return(p) \/ Die(p)
      PROVE  file' = file /\ outcome' = outcome
  BY <1>5 DEF Begin, Read, Open, Remove, Stamp, Return, Die
<1>6. ASSUME Reclaim \/ Age \/ UNCHANGED vars PROVE file' = file /\ outcome' = outcome
  BY <1>6 DEF Reclaim, Age, vars
<1> QED
  BY <1>1, <1>2, <1>3, <1>4, <1>5, <1>6 DEF Next, Step

(* The invariant of a serialized backend holds in every reachable state.   *)
LEMMA SerialInvariance == ASSUME Serialized PROVE Spec => []SInv
<1>1. Init => SInv
  BY StoreAssumption
  DEF Init, Mutex!Init, Free, SInv, TypeOK, Mutex!TypeOK, Serial, BaseCurrent, Stored, Confirmed,
      Holding, Writing, Location
<1>2. SInv /\ [Next]_vars => SInv'
  <2> SUFFICES ASSUME SInv, [Next]_vars PROVE SInv'
    OBVIOUS
  <2>1. TypeOK'
    BY TypeStep, StoreAssumption DEF SInv
  <2> QED
    BY <2>1, SerialStep, StoreAssumption
<1> QED
  BY <1>1, <1>2, PTL DEF Spec

(* The backend under the claim-store lock implements the claim ledger, for   *)
(* every set of processes, whoever may be killed and however long a write    *)
(* takes: no confirmed claim is ever lost.                                   *)
THEOREM SerializedIsLedger == ASSUME Serialized PROVE Spec => ImplementsLedger
<1>1. Spec => []SInv
  BY SerialInvariance
<1>2. Init => Ledger!Init
  BY DEF Init, Ledger!Init
<1>3. SInv /\ [Next]_vars => [Ledger!Next]_(Ledger!vars)
  BY LedgerStep, StoreAssumption
<1> QED
  BY <1>1, <1>2, <1>3, PTL DEF Spec, ImplementsLedger, Ledger!Spec

(* Under the claim-store lock no update is lost: a claim that a create has   *)
(* returned with is in the file from then on, although write locks are taken *)
(* from processes that cannot be signalled or were killed in mid-write.      *)
THEOREM NothingIsLost == ASSUME Serialized PROVE Spec => []NoSilentLostUpdate
<1>1. Spec => []SInv
  BY SerialInvariance
<1>2. SInv => NoSilentLostUpdate
  BY DEF SInv, Confirmed, NoSilentLostUpdate
<1> QED
  BY <1>1, <1>2, PTL
=============================================================================
