------------------------------- MODULE RedisStore -------------------------------
(***************************************************************************)
(* The Redis claim backend (claims/backends/redis.ts) under the            *)
(* asynchronous claim-create command of several processes.  The lock is a  *)
(* lease (SET NX PX) that may run out at any time while its taker works on,*)
(* so it is the write, an optimistic WATCH / GET / MULTI / EXEC, that keeps*)
(* concurrent creates apart.  Every command to the server is a step, and   *)
(* any of them may fail, before or after the server has done it.           *)
(*                                                                         *)
(* A process stands for its claim, so the store is a set of processes.     *)
(***************************************************************************)
EXTENDS Naturals

CONSTANTS
  Process, Nobody,
  MaxCasRetries,   \* options.maxCasRetries
  MaxLost          \* bound of the model: commands that fail in a behaviour

ASSUME RedisAssumption ==
  /\ Nobody \notin Process
  /\ MaxCasRetries \in Nat \ {0}
  /\ MaxLost \in Nat

VARIABLES
  store,     \* the claims under the key
  lease,     \* whose token is under the lock key
  valid,     \* the processes whose lease has neither run out nor been released
  watched,   \* the connections with a WATCH that no write has broken
  pc,        \* where each process is
  base,      \* the store each process has read, passed to write as `previous`
  attempt,   \* how many EXECs of this write came to nothing
  outcome,   \* what the command told its caller, "unknown" for an error that it threw
  lost       \* how many commands to the server have failed

vars == <<store, lease, valid, watched, pc, base, attempt, outcome, lost>>

Location == {"start", "relock", "read", "watch", "compare", "exec", "reply", "release", "rerelease", "done"}

TypeOK ==
  /\ store \subseteq Process
  /\ lease \in Process \cup {Nobody}
  /\ valid \subseteq Process
  /\ watched \subseteq Process
  /\ pc \in [Process -> Location]
  /\ base \in [Process -> SUBSET Process]
  /\ attempt \in [Process -> 0..MaxCasRetries - 1]
  /\ outcome \in [Process -> {"none", "ok", "busy", "invalid", "conflict", "unknown"}]
  /\ lost \in 0..MaxLost

Init ==
  /\ store = {}
  /\ lease = Nobody
  /\ valid = {}
  /\ watched = {}
  /\ pc = [p \in Process |-> "start"]
  /\ base = [p \in Process |-> {}]
  /\ attempt = [p \in Process |-> 0]
  /\ outcome = [p \in Process |-> "none"]
  /\ lost = 0

Goto(p, there) == pc' = [pc EXCEPT ![p] = there]
End(p, o) == outcome' = [outcome EXCEPT ![p] = o]
Grant(p) == lease' = p /\ valid' = valid \cup {p}
Unlock(p) == lease' = IF lease = p THEN Nobody ELSE lease
Lose == lost < MaxLost /\ lost' = lost + 1

-----------------------------------------------------------------------------
(* lock(): SET key token NX PX, as the client takes its options. *)
Acquire(p) ==
  /\ pc[p] = "start"
  /\ IF lease = Nobody
       THEN Grant(p) /\ Goto(p, "read") /\ UNCHANGED outcome
       ELSE Goto(p, "done") /\ End(p, "busy") /\ UNCHANGED <<lease, valid>>
  /\ UNCHANGED <<store, watched, base, attempt, lost>>

(* redisSetNxPx when the call throws: the server may have set the key. *)
AcquireLost(p) ==
  /\ pc[p] = "start"
  /\ Lose
  /\ (lease = Nobody /\ Grant(p)) \/ UNCHANGED <<lease, valid>>
  /\ Goto(p, "relock")
  /\ UNCHANGED <<store, watched, base, attempt, outcome>>

(* Its second try, in the older argument form: the key p may have set itself *)
(* counts as another's.                                                      *)
Reacquire(p) ==
  /\ pc[p] = "relock"
  /\ IF lease = Nobody
       THEN Grant(p) /\ Goto(p, "read") /\ UNCHANGED outcome
       ELSE Goto(p, "done") /\ End(p, "busy") /\ UNCHANGED <<lease, valid>>
  /\ UNCHANGED <<store, watched, base, attempt, lost>>

(* Its error is reported as a lock that is not to be had. *)
ReacquireLost(p) ==
  /\ pc[p] = "relock"
  /\ Lose
  /\ (lease = Nobody /\ lease' = p) \/ UNCHANGED lease
  /\ Goto(p, "done") /\ End(p, "busy")
  /\ UNCHANGED <<store, valid, watched, base, attempt>>

(* readClaimStoreAsync and prepareClaimCreate, which refuses a claim that is *)
(* already stored.                                                           *)
Read(p) ==
  /\ pc[p] = "read"
  /\ base' = [base EXCEPT ![p] = store]
  /\ attempt' = [attempt EXCEPT ![p] = 0]
  /\ IF p \in store THEN Goto(p, "release") /\ End(p, "invalid")
                     ELSE Goto(p, "watch") /\ UNCHANGED outcome
  /\ UNCHANGED <<store, lease, valid, watched, lost>>

(* A store that cannot be read is a finding, and nothing is written. *)
ReadLost(p) ==
  /\ pc[p] = "read"
  /\ Lose
  /\ End(p, "invalid")
  /\ Goto(p, "release")
  /\ UNCHANGED <<store, lease, valid, watched, base, attempt>>

Watch(p) ==
  /\ pc[p] = "watch"
  /\ watched' = watched \cup {p}
  /\ Goto(p, "compare")
  /\ UNCHANGED <<store, lease, valid, base, attempt, outcome, lost>>

(* Mutant: a write that finds another state tries again as it is. *)
CompareAgain(p) ==
  /\ pc[p] = "compare"
  /\ Goto(p, IF store = base[p] THEN "exec" ELSE "watch")
  /\ watched' = IF store = base[p] THEN watched ELSE watched \ {p}
  /\ UNCHANGED <<store, lease, valid, base, attempt, outcome, lost>>

(* GET, and the digest of what it returns against that of `previous`. *)
Compare(p) ==
  /\ pc[p] = "compare"
  /\ IF store = base[p]
       THEN Goto(p, "exec") /\ UNCHANGED <<watched, outcome>>
       ELSE /\ watched' = watched \ {p}
            /\ End(p, "conflict")
            /\ Goto(p, "release")
  /\ UNCHANGED <<store, lease, valid, base, attempt, lost>>

(* The SET of a transaction that goes through breaks every other WATCH. *)
Publish(p) ==
  /\ p \in watched
  /\ store' = base[p] \cup {p}
  /\ watched' = {}

(* Mutant: an EXEC that came to nothing counts as a write. *)
ExecUnchecked(p) ==
  /\ pc[p] = "exec"
  /\ Publish(p) \/ (p \notin watched /\ UNCHANGED <<store, watched>>)
  /\ Goto(p, "reply")
  /\ UNCHANGED <<lease, valid, base, attempt, outcome, lost>>

(* MULTI, SET, EXEC: null, and another attempt, when the WATCH is broken. *)
Exec(p) ==
  /\ pc[p] = "exec"
  /\ \/ Publish(p) /\ Goto(p, "reply") /\ UNCHANGED <<attempt, outcome>>
     \/ /\ p \notin watched
        /\ attempt[p] + 1 < MaxCasRetries
        /\ attempt' = [attempt EXCEPT ![p] = @ + 1]
        /\ Goto(p, "watch")
        /\ UNCHANGED <<store, watched, outcome>>
     \/ /\ p \notin watched
        /\ attempt[p] + 1 = MaxCasRetries
        /\ End(p, "conflict")
        /\ Goto(p, "release")
        /\ UNCHANGED <<store, watched, attempt>>
  /\ UNCHANGED <<lease, valid, base, lost>>

Confirm(p) ==
  /\ pc[p] = "reply"
  /\ End(p, "ok")
  /\ Goto(p, "release")
  /\ UNCHANGED <<store, lease, valid, watched, base, attempt, lost>>

Writing == {"watch", "compare", "exec", "reply"}

(* Mutant: a broken connection is taken for an EXEC that came to nothing. *)
WriteLostRetried(p) ==
  /\ pc[p] \in Writing
  /\ Lose
  /\ watched' = watched \ {p}
  /\ Goto(p, "watch")
  /\ UNCHANGED <<store, lease, valid, base, attempt, outcome>>

(* WATCH, GET or EXEC fails, or EXEC was done and its reply, or that to the *)
(* QUIT after it, is not to be had: the error, which is no conflict, leaves *)
(* the command as it is.                                                    *)
WriteLost(p) ==
  /\ pc[p] \in Writing
  /\ Lose
  /\ watched' = watched \ {p}
  /\ End(p, "unknown")
  /\ Goto(p, "release")
  /\ UNCHANGED <<store, lease, valid, base, attempt>>

(* Mutant: release deletes the lock key without a look at its token. *)
ReleaseAny(p) ==
  /\ pc[p] \in {"release", "rerelease"}
  /\ lease' = Nobody
  /\ valid' = valid \ {p}
  /\ Goto(p, "done")
  /\ UNCHANGED <<store, watched, base, attempt, outcome, lost>>

(* The Lua compare-and-delete of the returned release function. *)
Release(p) ==
  /\ pc[p] \in {"release", "rerelease"}
  /\ Unlock(p)
  /\ valid' = valid \ {p}
  /\ Goto(p, "done")
  /\ UNCHANGED <<store, watched, base, attempt, outcome, lost>>

(* redisEvalRelease when it throws, and is tried again in the older form.   *)
(* If that fails as well, or the QUIT after it, the error takes the place   *)
(* of whatever the command had to tell, and the lease is left to run out.   *)
ReleaseLost(p) ==
  /\ pc[p] \in {"release", "rerelease"}
  /\ Lose
  /\ Unlock(p) \/ UNCHANGED lease
  /\ valid' = valid \ {p}
  /\ \/ pc[p] = "release" /\ Goto(p, "rerelease") /\ UNCHANGED outcome
     \/ (pc[p] = "rerelease" \/ Unlock(p)) /\ Goto(p, "done") /\ End(p, "unknown")
  /\ UNCHANGED <<store, watched, base, attempt>>

(* The caller runs the command again when it was refused. *)
Retry(p) ==
  /\ pc[p] = "done"
  /\ outcome[p] \in {"busy", "invalid", "conflict"}
  /\ End(p, "none")
  /\ Goto(p, "start")
  /\ UNCHANGED <<store, lease, valid, watched, base, attempt, lost>>

(* PX runs out. *)
Expire ==
  /\ lease # Nobody
  /\ lease' = Nobody
  /\ valid' = valid \ {lease}
  /\ UNCHANGED <<store, watched, pc, base, attempt, outcome, lost>>

Step(p) ==
  \/ Acquire(p) \/ AcquireLost(p) \/ Reacquire(p) \/ ReacquireLost(p)
  \/ Read(p) \/ ReadLost(p)
  \/ Watch(p) \/ Compare(p) \/ Exec(p) \/ Confirm(p) \/ WriteLost(p)
  \/ Release(p) \/ ReleaseLost(p)
  \/ Retry(p)

Next == (\E p \in Process : Step(p)) \/ Expire

Spec == Init /\ [][Next]_vars

(* Processes run on, callers retry, and leases run out. *)
FairSpec == Spec /\ (\A p \in Process : WF_vars(Step(p))) /\ WF_vars(Expire)

-----------------------------------------------------------------------------
(* The lease is exclusive while it lasts: as long as a process's lease has  *)
(* not run out, nobody else's does either, and no late release of an older  *)
(* holder takes it away.                                                    *)
LeaseExclusive == \A p \in valid : lease = p

(* An optimistic write implements the ledger, with or without the lease:    *)
(* each EXEC adds exactly the writer's claim to what is stored, and the     *)
(* command returns with a claim only if it is stored.                       *)
Ledger == INSTANCE ClaimLedger WITH
  Claim <- Process,
  stored <- store,
  acknowledged <- {p \in Process : pc[p] = "done" /\ outcome[p] = "ok"}

ImplementsLedger == Ledger!Spec

(* A caller that is refused may run the command again: its claim is not in  *)
(* the store.  Only an error leaves a claim stored without the caller       *)
(* knowing.                                                                 *)
RefusedIsNotStored ==
  \A p \in store : outcome[p] \in {"ok", "unknown"} \/ pc[p] = "reply"

(* Every create whose caller retries what is refused is stored in the end,  *)
(* or left in doubt by an error, although lock keys that nobody knows of    *)
(* stay until they run out.                                                 *)
EventuallySettled == \A p \in Process : <>(outcome[p] \in {"ok", "unknown"})
=============================================================================
