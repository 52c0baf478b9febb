--------------------------- MODULE RedisStoreProofs ---------------------------
(* Proofs about the Redis claim backend, for every set of processes, every   *)
(* number of attempts and every number of failing commands: what its callers *)
(* are told is true, although a lease may run out under any of them.         *)
EXTENDS RedisStore, TLAPS

Before == {"start", "relock", "read", "watch", "compare", "exec", "reply"}

(* A command that does not have the reply to its EXEC has told nothing. *)
Untold == \A p \in Process : pc[p] \in Before => outcome[p] = "none"

(* While a WATCH is whole, what its process compared is what is stored. *)
WatchHolds == \A p \in watched : pc[p] = "exec" => base[p] = store

(* What is confirmed, or about to be, is stored. *)
Confirmed == \A p \in Process : outcome[p] = "ok" \/ pc[p] = "reply" => p \in store

IInv ==
  /\ TypeOK
  /\ LeaseExclusive
  /\ Untold
  /\ WatchHolds
  /\ Confirmed
  /\ RefusedIsNotStored

(* No step leaves the types.                                               *)
LEMMA TypeStep ==
  ASSUME RedisAssumption, TypeOK, [Next]_vars
  PROVE  TypeOK'
<1> USE RedisAssumption DEF RedisAssumption, TypeOK, Goto, End, Grant, Lose, Location
<1>1. ASSUME NEW p \in Process, Acquire(p) PROVE TypeOK'
  BY <1>1 DEF Acquire
<1>2. ASSUME NEW p \in Process, AcquireLost(p) PROVE TypeOK'
  BY <1>2 DEF AcquireLost
<1>3. ASSUME NEW p \in Process, Reacquire(p) PROVE TypeOK'
  BY <1>3 DEF Reacquire
<1>4. ASSUME NEW p \in Process, Read(p) PROVE TypeOK'
  BY <1>4 DEF Read
<1>5. ASSUME NEW p \in Process, Watch(p) PROVE TypeOK'
  BY <1>5 DEF Watch
<1>6. ASSUME NEW p \in Process, Compare(p) PROVE TypeOK'
  BY <1>6 DEF Compare
<1>7. ASSUME NEW p \in Process, Exec(p) PROVE TypeOK'
  BY <1>7 DEF Exec, Publish
<1>8. ASSUME NEW p \in Process, Confirm(p) PROVE TypeOK'
  BY <1>8 DEF Confirm
<1>9. ASSUME NEW p \in Process, WriteLost(p) PROVE TypeOK'
  BY <1>9 DEF WriteLost
<1>10. ASSUME NEW p \in Process, Release(p) PROVE TypeOK'
  BY <1>10 DEF Release, Unlock
<1>11. ASSUME NEW p \in Process, Retry(p) PROVE TypeOK'
  BY <1>11 DEF Retry
<1>12. CASE Expire
  BY <1>12 DEF Expire
<1>13. CASE UNCHANGED vars
  BY <1>13 DEF vars
<1>14. ASSUME NEW p \in Process, ReacquireLost(p) PROVE TypeOK'
  BY <1>14 DEF ReacquireLost
<1>15. ASSUME NEW p \in Process, ReadLost(p) PROVE TypeOK'
  BY <1>15 DEF ReadLost
<1>16. ASSUME NEW p \in Process, ReleaseLost(p) PROVE TypeOK'
  BY <1>16 DEF ReleaseLost, Unlock
<1> QED
  BY <1>1, <1>2, <1>3, <1>4, <1>5, <1>6, <1>7, <1>8, <1>9, <1>10, <1>11,
     <1>12, <1>13, <1>14, <1>15, <1>16 DEF Next, Step

(* The lease: whoever acquires finds it free, and a release compares. *)
LEMMA LeaseStep ==
  ASSUME RedisAssumption, TypeOK, LeaseExclusive, [Next]_vars
  PROVE  LeaseExclusive'
<1> USE RedisAssumption DEF RedisAssumption, TypeOK, LeaseExclusive, Grant
<1>1. ASSUME NEW p \in Process, Acquire(p) \/ AcquireLost(p) \/ Reacquire(p)
      PROVE  LeaseExclusive'
  BY <1>1 DEF Acquire, AcquireLost, Reacquire
<1>2. ASSUME NEW p \in Process, Release(p) \/ ReleaseLost(p) PROVE LeaseExclusive'
  BY <1>2 DEF Release, ReleaseLost, Unlock
<1>3. CASE Expire
  BY <1>3 DEF Expire
<1>4. ASSUME NEW p \in Process,
             \/ Read(p) \/ ReadLost(p) \/ Watch(p) \/ Compare(p) \/ Exec(p) \/ Confirm(p)
             \/ WriteLost(p) \/ Retry(p)
      PROVE  UNCHANGED <<lease, valid>>
  BY <1>4 DEF Read, ReadLost, Watch, Compare, Exec, Confirm, WriteLost, Retry
<1>5. ASSUME UNCHANGED vars PROVE UNCHANGED <<lease, valid>>
  BY <1>5 DEF vars
<1>6. ASSUME UNCHANGED <<lease, valid>> PROVE LeaseExclusive'
  BY <1>6
<1>7. ASSUME NEW p \in Process, ReacquireLost(p) PROVE LeaseExclusive'
  BY <1>7 DEF ReacquireLost
<1> QED
  BY <1>1, <1>2, <1>3, <1>4, <1>5, <1>6, <1>7 DEF Next, Step

(* The write: only EXEC stores, and only over what was compared. *)
LEMMA WriteStep ==
  ASSUME RedisAssumption, IInv, [Next]_vars
  PROVE  Untold' /\ WatchHolds' /\ Confirmed' /\ RefusedIsNotStored'
<1> DEFINE Told == Untold /\ WatchHolds /\ Confirmed/\ RefusedIsNotStored
<1> SUFFICES Told'
  OBVIOUS
<1> USE DEF IInv, TypeOK, Goto, End, Lose, Before, Location,
            Untold, WatchHolds, Confirmed, RefusedIsNotStored
<1>1. ASSUME NEW p \in Process, Acquire(p) PROVE Told'
  BY <1>1 DEF Acquire
<1>2. ASSUME NEW p \in Process, AcquireLost(p) PROVE Told'
  BY <1>2 DEF AcquireLost
<1>3. ASSUME NEW p \in Process, Reacquire(p) PROVE Told'
  BY <1>3 DEF Reacquire
<1>4. ASSUME NEW p \in Process, Read(p) PROVE Told'
  BY <1>4 DEF Read
<1>5. ASSUME NEW p \in Process, Watch(p) PROVE Told'
  BY <1>5 DEF Watch
<1>6. ASSUME NEW p \in Process, Compare(p) PROVE Told'
  BY <1>6 DEF Compare
<1>7. ASSUME NEW p \in Process, Exec(p) PROVE Told'
  <2>1. CASE p \in watched
    BY <1>7, <2>1 DEF Exec, Publish
  <2>2. CASE p \notin watched
    BY <1>7, <2>2 DEF Exec, Publish
  <2> QED
    BY <2>1, <2>2
<1>8. ASSUME NEW p \in Process, Confirm(p) PROVE Told'
  BY <1>8 DEF Confirm
<1>9. ASSUME NEW p \in Process, WriteLost(p) PROVE Told'
  BY <1>9 DEF WriteLost, Writing
<1>10. ASSUME NEW p \in Process, Release(p) PROVE Told'
  BY <1>10 DEF Release
<1>11. ASSUME NEW p \in Process, Retry(p) PROVE Told'
  BY <1>11 DEF Retry
<1>12. CASE Expire
  BY <1>12 DEF Expire
<1>13. CASE UNCHANGED vars
  BY <1>13 DEF vars
<1>14. ASSUME NEW p \in Process, ReacquireLost(p) PROVE Told'
  BY <1>14 DEF ReacquireLost
<1>15. ASSUME NEW p \in Process, ReadLost(p) PROVE Told'
  BY <1>15 DEF ReadLost
<1>16. ASSUME NEW p \in Process, ReleaseLost(p) PROVE Told'
  BY <1>16 DEF ReleaseLost
<1> QED
  BY <1>1, <1>2, <1>3, <1>4, <1>5, <1>6, <1>7, <1>8, <1>9, <1>10, <1>11,
     <1>12, <1>13, <1>14, <1>15, <1>16 DEF Next, Step

(* The invariant of the backend holds in every reachable state.            *)
LEMMA Invariance == Spec => []IInv
<1>1. Init => IInv
  BY RedisAssumption
  DEF RedisAssumption, Init, IInv, TypeOK, LeaseExclusive, Untold, WatchHolds, Confirmed,
      RefusedIsNotStored, Before, Location
<1>2. IInv /\ [Next]_vars => IInv'
  BY TypeStep, LeaseStep, WriteStep, RedisAssumption DEF IInv
<1> QED
  BY <1>1, <1>2, PTL DEF Spec

(* A lease that has not run out belongs to one process, and no late release  *)
(* of an older holder ends it.                                               *)
THEOREM LeaseIsExclusive == Spec => []LeaseExclusive
<1>1. IInv => LeaseExclusive
  BY DEF IInv
<1> QED
  BY <1>1, Invariance, PTL

(* A caller that was refused ("conflict", "lock held") has stored nothing.   *)
THEOREM RefusalsAreHonest == Spec => []RefusedIsNotStored
<1>1. IInv => RefusedIsNotStored
  BY DEF IInv
<1> QED
  BY <1>1, Invariance, PTL

(* Every step is a step of the ledger, or leaves it as it is. *)
LEMMA LedgerStep ==
  ASSUME IInv, [Next]_vars
  PROVE  [Ledger!Next]_(Ledger!vars)
<1> DEFINE Ok == {p \in Process : pc[p] = "done" /\ outcome[p] = "ok"}
<1> USE DEF IInv, TypeOK, Goto, End, Before
<1>1. ASSUME store' = store, Ok' = Ok PROVE [Ledger!Next]_(Ledger!vars)
  BY <1>1 DEF Ledger!vars
<1>2. ASSUME NEW p \in Process, Exec(p) PROVE [Ledger!Next]_(Ledger!vars)
  <2>1. pc[p] = "exec" /\ outcome[p] = "none"
    BY <1>2 DEF Exec, Untold
  <2>2. Ok' = Ok
    BY <1>2, <2>1 DEF Exec
  <2>3. CASE Publish(p)
    <3>1. p \notin store
      BY <2>1 DEF RefusedIsNotStored
    <3>2. store' = store \cup {p}
      BY <2>1, <2>3 DEF Publish, WatchHolds
    <3> QED
      BY <2>2, <3>1, <3>2 DEF Ledger!Next, Ledger!Append
  <2>4. CASE ~Publish(p)
    BY <1>1, <1>2, <2>2, <2>4 DEF Exec
  <2> QED
    BY <2>3, <2>4
<1>3. ASSUME NEW p \in Process, Release(p) PROVE [Ledger!Next]_(Ledger!vars)
  <2>1. store' = store /\ pc[p] # "done"
    BY <1>3 DEF Release
  <2>2. CASE outcome[p] = "ok"
    <3>1. Ok' = Ok \cup {p} /\ p \notin Ok /\ p \in store
      BY <1>3, <2>2 DEF Release, Confirmed
    <3> QED
      BY <2>1, <3>1 DEF Ledger!Next, Ledger!Acknowledge
  <2>3. CASE outcome[p] # "ok"
    <3>1. Ok' = Ok
      BY <1>3, <2>3 DEF Release
    <3> QED
      BY <1>1, <2>1, <3>1
  <2> QED
    BY <2>2, <2>3
<1>4. ASSUME NEW p \in Process,
             \/ Acquire(p) \/ Reacquire(p) \/ ReacquireLost(p) \/ Read(p) \/ ReadLost(p)
             \/ Compare(p) \/ Confirm(p) \/ WriteLost(p) \/ ReleaseLost(p) \/ Retry(p)
      PROVE  [Ledger!Next]_(Ledger!vars)
  <2>1. store' = store /\ Ok' = Ok
    BY <1>4 DEF Acquire, Reacquire, ReacquireLost, Read, ReadLost, Compare, Confirm, WriteLost,
       ReleaseLost, Retry, Untold, Writing
  <2> QED
    BY <1>1, <2>1
<1>5. ASSUME NEW p \in Process, AcquireLost(p) \/ Watch(p)
      PROVE  [Ledger!Next]_(Ledger!vars)
  <2>1. store' = store /\ Ok' = Ok
    BY <1>5 DEF AcquireLost, Watch
  <2> QED
    BY <1>1, <2>1
<1>6. ASSUME Expire \/ UNCHANGED vars PROVE store' = store /\ Ok' = Ok
  BY <1>6 DEF Expire, vars
<1> QED
  BY <1>1, <1>2, <1>3, <1>4, <1>5, <1>6 DEF Next, Step

(* The Redis backend implements the claim ledger for every set of processes, *)
(* however often leases run out and commands fail: no claim that a command  *)
(* returned with is ever overwritten.  The lease plays no part in it, the WATCH does.         *)
THEOREM RedisIsLedger == Spec => ImplementsLedger
<1>1. Init => Ledger!Init
  BY DEF Init, Ledger!Init
<1>2. IInv /\ [Next]_vars => [Ledger!Next]_(Ledger!vars)
  BY LedgerStep
<1> QED
  BY <1>1, <1>2, Invariance, PTL DEF Spec, ImplementsLedger, Ledger!Spec
=============================================================================
