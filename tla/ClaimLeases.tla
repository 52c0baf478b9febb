------------------------------ MODULE ClaimLeases ------------------------------
(***************************************************************************)
(* Claims as leases (claims.ts): agents reserve surfaces of the repository *)
(* for a time with claim create, and a write is allowed by checkWriteAccess*)
(* to the agent whose active claim covers the file.  Commands run in       *)
(* different processes that share nothing but the claim store, which they  *)
(* change by compare-and-swap (ClaimLedger); each reads its own clock,     *)
(* which may be MaxSkew off in either direction at every reading.          *)
(*                                                                         *)
(* A surface stands for the cells, paths, symbols, resources and lanes of  *)
(* one claim.  Overlap is claimConflictSurfaces, Covers claimCoversFile.   *)
(***************************************************************************)
EXTENDS Integers, FiniteSets

CONSTANTS
  Process, Agent,
  AgentOf,      \* AgentOf[p]: the --agent that process p runs for
  Surface, File,
  Covers,       \* Covers[s]: the files a claim on s covers
  Overlap,      \* the pairs of surfaces that conflict
  RequestedId,  \* ids given with --id; other claims get a digest of the draft
  Lifetime,     \* expiry minus creation: --ttl is positive, --expires may not be
  BadTtl,       \* a --ttl that parseTtlMillis refuses
  MaxSkew,
  NoClaim,
  MaxTime, MaxClaims    \* bounds of the model

ASSUME LeaseAssumption ==
  /\ AgentOf \in [Process -> Agent]
  /\ Covers \in [Surface -> SUBSET File]
  /\ Overlap \subseteq Surface \X Surface
  /\ \A s, t \in Surface : <<s, t>> \in Overlap => <<t, s>> \in Overlap
  /\ \A s, t \in Surface : Covers[s] \cap Covers[t] # {} => <<s, t>> \in Overlap
  /\ Lifetime \subseteq Int
  /\ BadTtl \notin Int
  /\ MaxSkew \in Nat
  /\ MaxTime \in Nat
  /\ MaxClaims \in Nat

Draft == [agent : Agent, surface : Surface, created : Int, expires : Int]
Claim == [agent : Agent, surface : Surface, created : Int, expires : Int,
          id : RequestedId \cup Draft]

ASSUME NoClaimAssumption == NoClaim \notin Claim

VARIABLES
  store,     \* the claims in the store
  time,      \* the true time
  pc,        \* whether a process runs no command, has read the store, or writes
  base,      \* the store as its command has read it
  prepared,  \* the claim each process is about to add to its base, or NoClaim
  grant,     \* for each file, the claim its latest write was allowed by
  grantTime  \* and the true time at which that was decided

vars == <<store, time, pc, base, prepared, grant, grantTime>>

TypeOK ==
  /\ store \subseteq Claim
  /\ time \in 0..MaxTime
  /\ pc \in [Process -> {"idle", "ready", "write"}]
  /\ base \in [Process -> SUBSET Claim]
  /\ prepared \in [Process -> Claim \cup {NoClaim}]
  /\ grant \in [File -> Claim \cup {NoClaim}]
  /\ grantTime \in [File -> 0..MaxTime]

Init ==
  /\ store = {}
  /\ time = 0
  /\ pc = [p \in Process |-> "idle"]
  /\ base = [p \in Process |-> {}]
  /\ prepared = [p \in Process |-> NoClaim]
  /\ grant = [f \in File |-> NoClaim]
  /\ grantTime = [f \in File |-> 0]

(* What a process may read from its clock now. *)
Reading == (time - MaxSkew)..(time + MaxSkew)

Active(claims, now) == {c \in claims : c.expires > now}
Conflict(c, d) == <<c.surface, d.surface>> \in Overlap

(* The command of p is over, and what it had read is gone. *)
End(p) ==
  /\ pc' = [pc EXCEPT ![p] = "idle"]
  /\ base' = [base EXCEPT ![p] = {}]
  /\ prepared' = [prepared EXCEPT ![p] = NoClaim]

-----------------------------------------------------------------------------
Tick ==
  /\ time < MaxTime
  /\ time' = time + 1
  /\ UNCHANGED <<store, pc, base, prepared, grant, grantTime>>

(* readClaimStore, at the start of every command. *)
ReadStore(p) ==
  /\ pc[p] = "idle"
  /\ pc' = [pc EXCEPT ![p] = "ready"]
  /\ base' = [base EXCEPT ![p] = store]
  /\ UNCHANGED <<store, time, prepared, grant, grantTime>>

(* A create or a check that is refused, and claim list. *)
Refuse(p) ==
  /\ pc[p] = "ready"
  /\ End(p)
  /\ UNCHANGED <<store, time, grant, grantTime>>

NewClaim(p, s, now, life, id) ==
  LET draft == [agent |-> AgentOf[p], surface |-> s, created |-> now,
                expires |-> now + life]
  IN [agent |-> draft.agent, surface |-> s, created |-> now, expires |-> draft.expires,
      id |-> IF id = NoClaim THEN draft ELSE id]

(* Mutant: the agent's own claims are not looked at for a conflict. *)
PrepareOverOwn(p) ==
  /\ pc[p] = "ready"
  /\ Cardinality(base[p]) < MaxClaims
  /\ \E s \in Surface, now \in Reading, life \in Lifetime :
       LET c == NewClaim(p, s, now, life, NoClaim) IN
       /\ \A d \in base[p] : d.id # c.id
       /\ \A d \in Active(base[p], now) : Conflict(d, c) => d.agent = c.agent
       /\ prepared' = [prepared EXCEPT ![p] = c]
  /\ pc' = [pc EXCEPT ![p] = "write"]
  /\ UNCHANGED <<store, time, base, grant, grantTime>>

(* Mutant: the requested id may name a claim that is already stored. *)
PrepareAnyId(p) ==
  /\ pc[p] = "ready"
  /\ Cardinality(base[p]) < MaxClaims
  /\ \E s \in Surface, now \in Reading, life \in Lifetime,
        id \in RequestedId \cup {NoClaim} :
       LET c == NewClaim(p, s, now, life, id) IN
       /\ \A d \in Active(base[p], now) : ~Conflict(d, c)
       /\ prepared' = [prepared EXCEPT ![p] = c]
  /\ pc' = [pc EXCEPT ![p] = "write"]
  /\ UNCHANGED <<store, time, base, grant, grantTime>>

(* prepareClaimCreate when it does not refuse: the id is not in the store,  *)
(* whoever holds it, and no claim that is active by this clock conflicts,   *)
(* whichever agent it belongs to.                                           *)
Prepare(p) ==
  /\ pc[p] = "ready"
  /\ Cardinality(base[p]) < MaxClaims
  /\ \E s \in Surface, now \in Reading, life \in Lifetime,
        id \in RequestedId \cup {NoClaim} :
       LET c == NewClaim(p, s, now, life, id) IN
       /\ \A d \in base[p] : d.id # c.id
       /\ \A d \in Active(base[p], now) : ~Conflict(d, c)
       /\ prepared' = [prepared EXCEPT ![p] = c]
  /\ pc' = [pc EXCEPT ![p] = "write"]
  /\ UNCHANGED <<store, time, base, grant, grantTime>>

(* Mutant: the write is not conditional on the state that was read. *)
CommitBlind(p) ==
  /\ pc[p] = "write"
  /\ store' = {d \in base[p] : d.id # prepared[p].id} \cup {prepared[p]}
  /\ End(p)
  /\ UNCHANGED <<time, grant, grantTime>>

(* writeClaimStore: nextClaims when the store is what was read, else the    *)
(* command ends with "claim store changed".                                 *)
Commit(p) ==
  /\ pc[p] = "write"
  /\ store' = IF store = base[p]
                THEN {d \in store : d.id # prepared[p].id} \cup {prepared[p]}
                ELSE store
  /\ End(p)
  /\ UNCHANGED <<time, grant, grantTime>>

-----------------------------------------------------------------------------
(* validateActiveClaimConflicts finds nothing. *)
ConflictFree(claims) ==
  \A c, d \in claims : c.id # d.id => ~Conflict(c, d)

Covering(claims, f) == {c \in claims : f \in Covers[c.surface]}

(* evaluateWriteAccess on the store p has read, when it allows the write of *)
(* all of these files: no two active claims conflict, and for every one of  *)
(* the files no active claim of another agent covers it and one of the      *)
(* agent's own does.                                                        *)
Allow(p, files) ==
  pc[p] = "ready" /\ \E now \in Reading, lease \in [files -> base[p]] :
    LET active == Active(base[p], now) IN
    /\ ConflictFree(active)
    /\ \A f \in files :
         /\ lease[f] \in Covering(active, f)
         /\ \A d \in Covering(active, f) : d.agent = AgentOf[p]
    /\ grant' = [f \in File |-> IF f \in files THEN lease[f] ELSE grant[f]]
    /\ grantTime' = [f \in File |-> IF f \in files THEN time ELSE grantTime[f]]
    /\ End(p)
    /\ UNCHANGED <<store, time>>

Next ==
  \/ Tick
  \/ \E p \in Process :
       \/ ReadStore(p) \/ Refuse(p) \/ Prepare(p) \/ Commit(p)
       \/ \E files \in (SUBSET File) \ {{}} : Allow(p, files)

Spec == Init /\ [][Next]_vars

-----------------------------------------------------------------------------
(* Leases that conflict do not overlap in time: of two stored claims one    *)
(* ends before the other was made, however wrong the clocks are.            *)
LeasesDisjoint ==
  \A c, d \in store :
    c # d /\ Conflict(c, d) => c.expires <= d.created \/ d.expires <= c.created

(* Two conflicting claims are never both active for a reader whose clock is *)
(* not behind: checkWriteAccess refuses everybody while they are, and that  *)
(* passes within the skew.                                                  *)
NoLastingLockout ==
  \A c, d \in Active(store, time + MaxSkew) : c # d => ~Conflict(c, d)

(* A stored claim stays stored: no create takes over an id that is in use,  *)
(* expired or not (C-2 and H-2 in prepareClaimCreate).                      *)
ClaimsKept == [][store \subseteq store']_vars

(* Authority over a file moves forward: when a write is allowed to another  *)
(* agent than the one before, the new lease began no earlier than the old   *)
(* one ended, or else the two decisions are closer than twice the skew (at  *)
(* skew zero: never).                                                       *)
MovesForward(f) ==
  LET old == grant[f]
      new == grant'[f]
  IN new # old /\ old # NoClaim /\ old.agent # new.agent =>
       old.expires <= new.created \/ time < grantTime[f] + 2 * MaxSkew
HandoffForward == [][\A f \in File : MovesForward(f)]_vars
=============================================================================
