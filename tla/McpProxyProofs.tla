----------------------------- MODULE McpProxyProofs -----------------------------
(***************************************************************************)
(* Proofs about the claim leases and about the MCP proxy on top of them,   *)
(* for all sets of processes, surfaces, files, ids, tools and              *)
(* configurations, every overlap relation, every skew, every set of        *)
(* lifetimes and every bound of the log.                                   *)
(*                                                                         *)
(* The first part is about the leases alone.  The proxies' steps are steps *)
(* of the claim protocol or leave it alone (ProxyIsLeases), so what holds  *)
(* of the leases holds with proxies around.  On top of it, in the second   *)
(* part: what is sent to the server carries a stored lease of its sender   *)
(* for each of its files, from the decision to the write, and every line   *)
(* that is still to be appended to the audit log was found to fit.         *)
(***************************************************************************)
EXTENDS McpProxy, FiniteSetTheorems, WellFoundedInduction, TLAPS

(* The leases                                                              *)

(* What a process has read is still there: stored claims stay. *)
ReadsStay == \A p \in Process : base[p] \subseteq store

(* A prepared claim has an id of its own and starts after every conflicting *)
(* claim it was checked against has ended.                                  *)
PreparedFits ==
  \A p \in Process : pc[p] = "write" =>
    /\ prepared[p] \in Claim
    /\ prepared[p].created <= time + MaxSkew
    /\ \A d \in base[p] :
         /\ d.id # prepared[p].id
         /\ Conflict(d, prepared[p]) => d.expires <= prepared[p].created

NotFromTheFuture == \A c \in store : c.created <= time + MaxSkew

(* The latest grant for a file was made under a stored claim that covers it *)
(* and was active, give or take the skew, when it was made.                 *)
GrantsBacked ==
  \A f \in File : grant[f] # NoClaim =>
    /\ grant[f] \in store
    /\ f \in Covers[grant[f].surface]
    /\ grant[f].created <= grantTime[f] + MaxSkew
    /\ grantTime[f] <= time

IInv == TypeOK /\ LeasesDisjoint /\ ReadsStay /\ PreparedFits /\ NotFromTheFuture /\ GrantsBacked

-----------------------------------------------------------------------------
(* A claim made by a create is a claim. *)
LEMMA NewClaimType ==
  ASSUME LeaseAssumption, NEW p \in Process, NEW s \in Surface, NEW now \in Int,
         NEW life \in Lifetime, NEW id \in RequestedId \cup {NoClaim}
  PROVE  /\ NewClaim(p, s, now, life, id) \in Claim
         /\ NewClaim(p, s, now, life, id).created = now
<1>1. AgentOf[p] \in Agent /\ now + life \in Int
  BY DEF LeaseAssumption
<1> DEFINE draft == [agent |-> AgentOf[p], surface |-> s, created |-> now, expires |-> now + life]
<1>2. draft \in Draft
  BY <1>1 DEF Draft
<1>3. (IF id = NoClaim THEN draft ELSE id) \in RequestedId \cup Draft
  BY <1>2
<1>4. draft.expires = now + life /\ draft.agent = AgentOf[p]
  OBVIOUS
<1> HIDE DEF draft
<1>5. NewClaim(p, s, now, life, id) =
        [agent |-> AgentOf[p], surface |-> s, created |-> now, expires |-> now + life,
         id |-> IF id = NoClaim THEN draft ELSE id]
  BY <1>4 DEF NewClaim, draft
<1> QED
  BY <1>1, <1>3, <1>5 DEF Claim

(* Claims that cover a common file conflict. *)
LEMMA CoverersConflict ==
  ASSUME LeaseAssumption, NEW c \in Claim, NEW d \in Claim, NEW f \in File,
         f \in Covers[c.surface], f \in Covers[d.surface]
  PROVE  Conflict(c, d)
BY DEF LeaseAssumption, Claim, Conflict

(* The invariant holds of an empty store.                                  *)
LEMMA InitIInv == LeaseAssumption /\ Init => IInv
BY DEF LeaseAssumption, Init, IInv, TypeOK, LeasesDisjoint, ReadsStay, PreparedFits,
       NotFromTheFuture, GrantsBacked

(* Ending a command disturbs nothing but the command's own state. *)
LEMMA EndKeeps ==
  ASSUME TypeOK, ReadsStay, PreparedFits, NEW p \in Process, End(p),
         store \subseteq store', time' = time
  PROVE  /\ pc' \in [Process -> {"idle", "ready", "write"}]
         /\ base' \in [Process -> SUBSET Claim]
         /\ prepared' \in [Process -> Claim \cup {NoClaim}]
         /\ ReadsStay' /\ PreparedFits'
<1>1. /\ pc' \in [Process -> {"idle", "ready", "write"}]
      /\ base' \in [Process -> SUBSET Claim]
      /\ prepared' \in [Process -> Claim \cup {NoClaim}]
  BY DEF TypeOK, End
<1>2. \A q \in Process : q # p => pc'[q] = pc[q] /\ base'[q] = base[q] /\ prepared'[q] = prepared[q]
  BY DEF TypeOK, End
<1>3. pc'[p] = "idle" /\ base'[p] = {}
  BY DEF TypeOK, End
<1>4. ReadsStay'
  BY <1>2, <1>3 DEF ReadsStay
<1>5. PreparedFits'
  BY <1>2, <1>3 DEF PreparedFits, Conflict
<1> QED
  BY <1>1, <1>4, <1>5

-----------------------------------------------------------------------------
(* Time that passes disturbs nothing: ends of leases only come nearer.     *)
LEMMA TickStep == LeaseAssumption /\ IInv /\ Tick => IInv'
<1> SUFFICES ASSUME LeaseAssumption, IInv, Tick PROVE IInv'
  OBVIOUS
<1>1. TypeOK'
  BY DEF LeaseAssumption, IInv, TypeOK, Tick
<1>2. LeasesDisjoint' /\ ReadsStay'
  BY DEF IInv, LeasesDisjoint, ReadsStay, Tick, Conflict
<1>3. time \in Int /\ MaxSkew \in Int /\ time' = time + 1 /\ store \subseteq Claim
  BY DEF LeaseAssumption, IInv, TypeOK, Tick
<1>4. PreparedFits'
  BY <1>3 DEF IInv, PreparedFits, Tick, Conflict, Claim
<1>5. NotFromTheFuture'
  BY <1>3 DEF IInv, NotFromTheFuture, Tick, Claim
<1>6. GrantsBacked'
  BY <1>3 DEF LeaseAssumption, IInv, TypeOK, GrantsBacked, Tick
<1> QED
  BY <1>1, <1>2, <1>4, <1>5, <1>6 DEF IInv

(* A reader takes down a store as it is.                                   *)
LEMMA ReadStep ==
  ASSUME LeaseAssumption, IInv, NEW p \in Process, ReadStore(p) PROVE IInv'
<1>1. TypeOK'
  BY DEF IInv, TypeOK, ReadStore
<1>2. ReadsStay'
  BY DEF IInv, TypeOK, ReadsStay, ReadStore
<1>3. \A q \in Process : pc'[q] = "write" => q # p /\ pc[q] = "write" /\ base'[q] = base[q]
  BY DEF IInv, TypeOK, ReadStore
<1>4. PreparedFits'
  BY <1>3 DEF IInv, PreparedFits, ReadStore, Conflict
<1>5. LeasesDisjoint' /\ NotFromTheFuture' /\ GrantsBacked'
  BY DEF IInv, LeasesDisjoint, NotFromTheFuture, GrantsBacked, ReadStore, Conflict
<1> QED
  BY <1>1, <1>2, <1>4, <1>5 DEF IInv

(* A refused create changes nothing that is stored.                        *)
LEMMA RefuseStep ==
  ASSUME LeaseAssumption, IInv, NEW p \in Process, Refuse(p) PROVE IInv'
<1>1. /\ pc' \in [Process -> {"idle", "ready", "write"}]
      /\ base' \in [Process -> SUBSET Claim]
      /\ prepared' \in [Process -> Claim \cup {NoClaim}]
      /\ ReadsStay' /\ PreparedFits'
  BY EndKeeps DEF IInv, Refuse
<1>2. TypeOK'
  BY <1>1 DEF IInv, TypeOK, Refuse
<1>3. LeasesDisjoint' /\ NotFromTheFuture' /\ GrantsBacked'
  BY DEF IInv, LeasesDisjoint, NotFromTheFuture, GrantsBacked, Refuse, Conflict
<1> QED
  BY <1>1, <1>2, <1>3 DEF IInv

(* A create that found no conflict in what it read prepares a lease.       *)
LEMMA PrepareStep ==
  ASSUME LeaseAssumption, IInv, NEW p \in Process, Prepare(p) PROVE IInv'
<1>1. PICK s \in Surface, now \in Reading, life \in Lifetime, id \in RequestedId \cup {NoClaim} :
        /\ \A d \in base[p] : d.id # NewClaim(p, s, now, life, id).id
        /\ \A d \in Active(base[p], now) : ~Conflict(d, NewClaim(p, s, now, life, id))
        /\ prepared' = [prepared EXCEPT ![p] = NewClaim(p, s, now, life, id)]
  BY DEF Prepare
<1> DEFINE c == NewClaim(p, s, now, life, id)
<1>2. now \in Int /\ now <= time + MaxSkew
  BY DEF LeaseAssumption, IInv, TypeOK, Reading
<1>3. c \in Claim /\ c.created = now
  BY <1>2, NewClaimType
<1> HIDE DEF c
<1>4. \A d \in base[p] : Conflict(d, c) => d.expires <= c.created
  <2> SUFFICES ASSUME NEW d \in base[p], Conflict(d, c) PROVE d.expires <= now
    BY <1>3
  <2>1. d \notin Active(base[p], now)
    BY <1>1 DEF c
  <2>2. d.expires \in Int
    BY DEF IInv, TypeOK, Claim
  <2> QED
    BY <2>1, <2>2, <1>2 DEF Active
<1>5. TypeOK'
  BY <1>1, <1>3 DEF IInv, TypeOK, Prepare, c
<1>6. PreparedFits'
  <2>1. \A q \in Process : q # p => pc'[q] = pc[q] /\ prepared'[q] = prepared[q]
    BY <1>1 DEF IInv, TypeOK, Prepare
  <2>2. prepared'[p] = c
    BY <1>1 DEF IInv, TypeOK, c
  <2>3. base' = base /\ time' = time
    BY DEF Prepare
  <2>4. \A d \in base[p] : d.id # c.id
    BY <1>1 DEF c
  <2>5. ASSUME NEW q \in Process, pc'[q] = "write"
        PROVE  /\ prepared'[q] \in Claim
               /\ prepared'[q].created <= time + MaxSkew
               /\ \A d \in base[q] :
                    /\ d.id # prepared'[q].id
                    /\ Conflict(d, prepared'[q]) => d.expires <= prepared'[q].created
    <3>1. CASE q = p
      BY <3>1, <2>2, <2>4, <1>2, <1>3, <1>4
    <3>2. CASE q # p
      BY <3>2, <2>1, <2>5 DEF IInv, PreparedFits
    <3> QED
      BY <3>1, <3>2
  <2> QED
    BY <2>3, <2>5 DEF PreparedFits, Conflict
<1>7. LeasesDisjoint' /\ ReadsStay' /\ NotFromTheFuture' /\ GrantsBacked'
  BY DEF IInv, LeasesDisjoint, ReadsStay, NotFromTheFuture, GrantsBacked, Prepare, Conflict
<1> QED
  BY <1>5, <1>6, <1>7 DEF IInv

(* The store takes a lease only where nobody has written since it was read.*)
LEMMA CommitStep ==
  ASSUME LeaseAssumption, IInv, NEW p \in Process, Commit(p)
  PROVE  IInv' /\ store \subseteq store'
<1> DEFINE c == prepared[p]
<1>1. /\ c \in Claim
      /\ c.created <= time + MaxSkew
      /\ \A d \in base[p] : d.id # c.id /\ (Conflict(d, c) => d.expires <= c.created)
  BY DEF IInv, PreparedFits, Commit
<1>2. store' = store \/ (store = base[p] /\ store' = store \cup {c})
  <2>1. CASE store = base[p]
    <3>1. {d \in store : d.id # c.id} = store
      BY <1>1, <2>1
    <3> QED
      BY <2>1, <3>1 DEF Commit
  <2>2. CASE store # base[p]
    BY <2>2 DEF Commit
  <2> QED
    BY <2>1, <2>2
<1>3. store \subseteq store' /\ time' = time
  BY <1>2 DEF Commit
<1>4. /\ pc' \in [Process -> {"idle", "ready", "write"}]
      /\ base' \in [Process -> SUBSET Claim]
      /\ prepared' \in [Process -> Claim \cup {NoClaim}]
      /\ ReadsStay' /\ PreparedFits'
  BY <1>3, EndKeeps DEF IInv, Commit
<1>5. TypeOK'
  BY <1>1, <1>2, <1>4 DEF IInv, TypeOK, Commit
<1>6. LeasesDisjoint'
  <2>1. CASE store' = store
    BY <2>1 DEF IInv, LeasesDisjoint, Conflict
  <2>2. CASE store = base[p] /\ store' = store \cup {c}
    <3> SUFFICES ASSUME NEW x \in store', NEW y \in store', x # y, Conflict(x, y)
                 PROVE  x.expires <= y.created \/ y.expires <= x.created
      BY DEF LeasesDisjoint, Conflict
    <3>1. CASE x \in store /\ y \in store
      BY <3>1 DEF IInv, LeasesDisjoint
    <3>2. CASE x \in store /\ y = c
      BY <3>2, <2>2, <1>1
    <3>3. CASE x = c /\ y \in store
      <4>1. Conflict(y, c)
        BY <3>3, <1>1 DEF Conflict, LeaseAssumption, IInv, TypeOK, Claim
      <4> QED
        BY <4>1, <3>3, <2>2, <1>1
    <3> QED
      BY <2>2, <3>1, <3>2, <3>3
  <2> QED
    BY <1>2, <2>1, <2>2
<1>7. NotFromTheFuture'
  BY <1>1, <1>2, <1>3 DEF IInv, NotFromTheFuture
<1>8. GrantsBacked'
  BY <1>3 DEF IInv, GrantsBacked, Commit
<1> QED
  BY <1>3, <1>4, <1>5, <1>6, <1>7, <1>8 DEF IInv

(* An allowed write of some files: the invariant is kept and the authority  *)
(* over each of them moves forward.                                         *)
LEMMA AllowStep ==
  ASSUME LeaseAssumption, IInv, NEW p \in Process, NEW files \in SUBSET File, Allow(p, files)
  PROVE  IInv' /\ \A g \in File : MovesForward(g)
<1>1. PICK now \in Reading, lease \in [files -> base[p]] :
        /\ \A f \in files : lease[f] \in Covering(Active(base[p], now), f)
        /\ grant' = [f \in File |-> IF f \in files THEN lease[f] ELSE grant[f]]
        /\ grantTime' = [f \in File |-> IF f \in files THEN time ELSE grantTime[f]]
        /\ End(p)
        /\ UNCHANGED <<store, time>>
  BY DEF Allow
<1>2. ASSUME NEW f \in files
      PROVE  /\ lease[f] \in store /\ lease[f] \in Claim
             /\ f \in Covers[lease[f].surface] /\ lease[f].expires > now
             /\ lease[f].created <= time + MaxSkew
  BY <1>1 DEF IInv, TypeOK, ReadsStay, NotFromTheFuture, Covering, Active
<1>3. time \in Int /\ MaxSkew \in Nat /\ now \in Int /\ time - MaxSkew <= now
  BY DEF LeaseAssumption, IInv, TypeOK, Reading
<1>4. /\ pc' \in [Process -> {"idle", "ready", "write"}]
      /\ base' \in [Process -> SUBSET Claim]
      /\ prepared' \in [Process -> Claim \cup {NoClaim}]
      /\ ReadsStay' /\ PreparedFits'
  BY <1>1, EndKeeps DEF IInv
<1>5. TypeOK'
  <2>1. grant' \in [File -> Claim \cup {NoClaim}]
    BY <1>1, <1>2 DEF IInv, TypeOK
  <2>2. grantTime' \in [File -> 0..MaxTime]
    BY <1>1 DEF IInv, TypeOK
  <2> QED
    BY <1>1, <1>4, <2>1, <2>2 DEF IInv, TypeOK
<1>6. LeasesDisjoint' /\ NotFromTheFuture'
  BY <1>1 DEF IInv, LeasesDisjoint, NotFromTheFuture, Conflict
<1>7. \A f \in files : grant'[f] = lease[f] /\ grantTime'[f] = time
  BY <1>1
<1>8. \A g \in File \ files : grant'[g] = grant[g] /\ grantTime'[g] = grantTime[g]
  BY <1>1
<1>9. GrantsBacked'
  <2> SUFFICES ASSUME NEW g \in File, grant'[g] # NoClaim
               PROVE  /\ grant'[g] \in store
                      /\ g \in Covers[grant'[g].surface]
                      /\ grant'[g].created <= grantTime'[g] + MaxSkew
                      /\ grantTime'[g] <= time
    BY <1>1 DEF GrantsBacked
  <2>1. CASE g \in files
    BY <2>1, <1>2, <1>3, <1>7
  <2>2. CASE g \notin files
    BY <2>2, <1>8 DEF IInv, GrantsBacked
  <2> QED
    BY <2>1, <2>2
<1>10. ASSUME NEW f \in File PROVE MovesForward(f)
  <2> DEFINE old == grant[f]
             c == lease[f]
  <2>1. CASE f \notin files
    BY <2>1, <1>8 DEF MovesForward
  <2>2. CASE f \in files /\ old # NoClaim /\ old # c
    <3>1. /\ old \in store /\ old \in Claim /\ f \in Covers[old.surface]
          /\ old.created <= grantTime[f] + MaxSkew
      BY <2>2 DEF IInv, TypeOK, GrantsBacked
    <3>2. /\ c \in store /\ c \in Claim /\ f \in Covers[c.surface] /\ c.expires > now
      BY <2>2, <1>2
    <3>3. Conflict(old, c)
      BY <3>1, <3>2, CoverersConflict
    <3>4. old.expires <= c.created \/ c.expires <= old.created
      BY <3>1, <3>2, <3>3, <2>2 DEF IInv, LeasesDisjoint
    <3>5. grantTime[f] \in Int /\ c.expires \in Int /\ old.created \in Int
      BY <3>1, <3>2 DEF IInv, TypeOK, Claim
    <3>6. grant'[f] = c
      BY <2>2, <1>7
    <3> HIDE DEF old, c
    <3>7. old.expires <= c.created \/ time < grantTime[f] + 2 * MaxSkew
      BY <3>1, <3>2, <3>4, <3>5, <1>3
    <3> QED
      BY <3>6, <3>7, <2>2 DEF MovesForward, old
  <2>3. CASE f \in files /\ (old = NoClaim \/ old = c)
    BY <2>3, <1>7 DEF MovesForward
  <2> QED
    BY <2>1, <2>2, <2>3
<1> QED
  BY <1>4, <1>5, <1>6, <1>9, <1>10 DEF IInv

(* A step that changes nothing keeps the invariant.                        *)
LEMMA StutterStep == LeaseAssumption /\ IInv /\ UNCHANGED vars => IInv'
BY DEF IInv, TypeOK, LeasesDisjoint, ReadsStay, PreparedFits, NotFromTheFuture,
       GrantsBacked, Conflict, vars

(* Every step keeps the invariant and the stored claims, and moves the      *)
(* authority over every file forward.                                       *)
LEMMA NextStep ==
  ASSUME LeaseAssumption, IInv, [Next]_vars
  PROVE  IInv' /\ store \subseteq store' /\ \A f \in File : MovesForward(f)
<1>1. CASE Tick
  BY <1>1, TickStep DEF Tick, MovesForward
<1>2. ASSUME NEW p \in Process, ReadStore(p) \/ Refuse(p) \/ Prepare(p)
      PROVE  IInv' /\ store \subseteq store' /\ \A f \in File : MovesForward(f)
  BY <1>2, ReadStep, RefuseStep, PrepareStep DEF ReadStore, Refuse, Prepare, MovesForward
<1>3. ASSUME NEW p \in Process, Commit(p)
      PROVE  IInv' /\ store \subseteq store' /\ \A f \in File : MovesForward(f)
  BY <1>3, CommitStep DEF Commit, MovesForward
<1>4. ASSUME NEW p \in Process, NEW files \in SUBSET File, Allow(p, files)
      PROVE  IInv' /\ store \subseteq store' /\ \A g \in File : MovesForward(g)
  BY <1>4, AllowStep DEF Allow
<1>5. CASE UNCHANGED vars
  BY <1>5, StutterStep DEF vars, MovesForward
<1> QED
  BY <1>1, <1>2, <1>3, <1>4, <1>5 DEF Next

(* The invariant of the leases holds in every reachable state.             *)
THEOREM Inductive == Spec => []IInv
<1>1. Init => IInv
  BY LeaseAssumption, InitIInv
<1>2. IInv /\ [Next]_vars => IInv'
  BY LeaseAssumption, NextStep
<1> QED
  BY <1>1, <1>2, PTL DEF Spec

(* Conflicting leases never overlap in time, whatever the clocks say. *)
THEOREM LeasesAreDisjoint == Spec => []LeasesDisjoint
<1>1. IInv => LeasesDisjoint
  BY DEF IInv
<1> QED
  BY <1>1, Inductive, PTL

(* Readers whose clock is not behind never find the store in conflict. *)
THEOREM LockoutPasses == Spec => []NoLastingLockout
<1>1. IInv => NoLastingLockout
  <2> SUFFICES ASSUME IInv,
                      NEW c \in Active(store, time + MaxSkew),
                      NEW d \in Active(store, time + MaxSkew), c # d, Conflict(c, d)
               PROVE  FALSE
    BY DEF NoLastingLockout
  <2>1. c \in store /\ d \in store /\ c.expires > time + MaxSkew /\ d.expires > time + MaxSkew
    BY DEF Active
  <2>2. c.created <= time + MaxSkew /\ d.created <= time + MaxSkew
    BY <2>1 DEF IInv, NotFromTheFuture
  <2>3. c.expires <= d.created \/ d.expires <= c.created
    BY <2>1 DEF IInv, LeasesDisjoint
  <2>4. /\ time + MaxSkew \in Int /\ c.created \in Int /\ d.created \in Int
        /\ c.expires \in Int /\ d.expires \in Int
    BY <2>1, LeaseAssumption DEF LeaseAssumption, IInv, TypeOK, Claim
  <2> QED
    BY <2>1, <2>2, <2>3, <2>4
<1> QED
  BY <1>1, Inductive, PTL

(* No create removes or replaces a stored claim. *)
THEOREM ClaimsAreKept == Spec => ClaimsKept
<1>1. IInv /\ [Next]_vars => [store \subseteq store']_vars
  BY LeaseAssumption, NextStep
<1> QED
  BY <1>1, Inductive, PTL DEF Spec, ClaimsKept

(* Write authority over a file moves from lease to later lease. *)
THEOREM AuthorityMovesForward == Spec => HandoffForward
<1>1. IInv /\ [Next]_vars => [\A f \in File : MovesForward(f)]_vars
  BY LeaseAssumption, NextStep
<1> QED
  BY <1>1, Inductive, PTL DEF Spec, HandoffForward

-----------------------------------------------------------------------------
(* The proxy                                                               *)

(* A process that decides a call runs no create; a process at rest has read *)
(* nothing.                                                                 *)
Phases ==
  /\ options \in Configurations
  /\ request \in [Process -> Request \cup {NoRequest}]
  /\ pc \in [Process -> {"idle", "ready", "write"}]
  /\ base = [p \in Process |-> base[p]]
  /\ prepared = [p \in Process |-> prepared[p]]
  /\ logging = [p \in Process |-> logging[p]]
  /\ \A p \in Process :
       /\ pc[p] = "idle" => base[p] = {} /\ prepared[p] = NoClaim
       /\ request[p] # NoRequest \/ logging[p] # NoWrite => pc[p] # "write"

(* Nothing is under way at the start.                                      *)
LEMMA PhasesInit == ProxyInit => Phases
BY DEF ProxyInit, Init, Phases

(* What Conclude leaves behind. *)
LEMMA ConcludeEffect ==
  ASSUME NEW p \in Process, NEW d, NEW lease, Conclude(p, d, lease), Phases
  PROVE  /\ options' = options
         /\ request' = [request EXCEPT ![p] = NoRequest]
         /\ logging' = [q \in Process |-> logging'[q]]
         /\ \A q \in Process \ {p} : logging'[q] = logging[q]
         /\ UNCHANGED <<landed, logLines>>
<1>1. /\ options' = options
      /\ request' = [request EXCEPT ![p] = NoRequest]
      /\ UNCHANGED <<landed, logLines>>
  BY DEF Conclude
<1>2. PICK due \in LineIsDue :
        LET call == [forward |-> d.forward, files |-> FilesOf(request[p]), lease |-> lease]
        IN IF due THEN logging' = [logging EXCEPT ![p] = call] /\ sent' = sent
                  ELSE Dispatch(p, call) /\ logging' = logging
  BY DEF Conclude
<1>3. logging = [q \in Process |-> logging[q]]
  BY DEF Phases
<1>4. CASE due
  BY <1>1, <1>2, <1>3, <1>4
<1>5. CASE ~due
  BY <1>1, <1>2, <1>3, <1>5
<1> QED
  BY <1>4, <1>5

(* What the end of a call leaves alone.                                    *)
LEMMA EndEffect ==
  ASSUME NEW p \in Process, End(p), Phases
  PROVE  /\ pc' \in [Process -> {"idle", "ready", "write"}]
         /\ base' = [q \in Process |-> base'[q]]
         /\ prepared' = [q \in Process |-> prepared'[q]]
         /\ pc'[p] = "idle" /\ base'[p] = {} /\ prepared'[p] = NoClaim
         /\ \A q \in Process \ {p} :
              pc'[q] = pc[q] /\ base'[q] = base[q] /\ prepared'[q] = prepared[q]
BY DEF End, Phases

(* A step goes from a phase of a call to the next.                         *)
LEMMA PhasesStep == ProxyAssumption /\ Phases /\ [ProxyNext]_allVars => Phases'
<1> SUFFICES ASSUME ProxyAssumption, Phases, [ProxyNext]_allVars PROVE Phases'
  OBVIOUS
<1>1. CASE Tick /\ UNCHANGED proxyVars
  BY <1>1 DEF Tick, proxyVars, Phases
<1>2. ASSUME NEW p \in Process, ReadStore(p), UNCHANGED proxyVars PROVE Phases'
  BY <1>2 DEF ReadStore, proxyVars, Phases
<1>3. ASSUME NEW p \in Process, Free(p), Refuse(p) \/ Commit(p), UNCHANGED proxyVars PROVE Phases'
  BY <1>3, EndEffect DEF Refuse, Commit, proxyVars, Phases
<1>4. ASSUME NEW p \in Process, Free(p), Prepare(p), UNCHANGED proxyVars PROVE Phases'
  BY <1>4 DEF Prepare, Free, proxyVars, Phases
<1>5. ASSUME NEW p \in Process, Receive(p) PROVE Phases'
  BY <1>5 DEF Receive, Free, vars, Phases
<1>6. ASSUME NEW p \in Process, DecideAtOnce(p) PROVE Phases'
  BY <1>6, ConcludeEffect DEF DecideAtOnce, vars, Phases
<1>7. ASSUME NEW p \in Process, Granted(p) PROVE Phases'
  BY <1>7, ConcludeEffect, EndEffect DEF Granted, Allow, Phases
<1>8. ASSUME NEW p \in Process, Refused(p) PROVE Phases'
  BY <1>8, ConcludeEffect, EndEffect DEF Refused, Refuse, Phases
<1>9. ASSUME NEW p \in Process, Land(p) \/ AppendLine(p) PROVE Phases'
  BY <1>9 DEF Land, AppendLine, vars, Phases
<1>10. ASSUME NEW p \in Process, Die(p) PROVE Phases'
  BY <1>10, EndEffect DEF Die, Phases
<1>11. CASE UNCHANGED allVars
  BY <1>11 DEF allVars, vars, Phases
<1> QED
  BY <1>1, <1>2, <1>3, <1>4, <1>5, <1>6, <1>7, <1>8, <1>9, <1>10, <1>11
     DEF ProxyNext, ClaimStep, Consult

(* Of some places in a list there is a last one.                            *)
LEMMA LastPlace ==
  ASSUME NEW n \in Nat, NEW I \in SUBSET (1..n), I # {}
  PROVE  Max(I) \in I
<1> DEFINE J == {k \in Nat : \E i \in I : k = n - i}
<1>1. PICK i0 \in I : TRUE
  OBVIOUS
<1>2. n - i0 \in J
  OBVIOUS
<1>3. PICK k \in J : \A j \in J : ~(<<j, k>> \in OpToRel(<, Nat))
  <2>1. J \subseteq Nat /\ J # {}
    BY <1>2
  <2> HIDE DEF J
  <2> QED
    BY <2>1, NatLessThanWellFounded, WFMin
<1>4. PICK m \in I : k = n - m
  OBVIOUS
<1>5. ASSUME NEW j \in I PROVE m >= j
  <2>1. n - j \in J /\ n - j \in Nat /\ k \in Nat
    OBVIOUS
  <2>2. ~(<<n - j, k>> \in OpToRel(<, Nat))
    BY <1>3, <2>1
  <2>3. ~(n - j < k)
    BY <2>1, <2>2 DEF OpToRel
  <2> QED
    BY <1>4, <2>1, <2>3
<1> QED
  BY <1>5 DEF Max

(* The declaration that a call is read by is one of the declared.           *)
LEMMA LastMatch ==
  ASSUME NEW o \in Options, NEW n, NEW args, IsWriteTool(o, n)
  PROVE  \E k \in DOMAIN o.writeTools : PathsFor(o, n, args) = Found(args, o.writeTools[k].keys)
<1> DEFINE w == o.writeTools
           I == {i \in 1..Len(w) : SameName(w[i].name, n)}
           last == SelectLastInSeq(w, LAMBDA e : SameName(e.name, n))
<1>1. Len(w) \in Nat /\ DOMAIN w = 1..Len(w)
  BY DEF Options
<1>2. I # {}
  BY <1>1 DEF IsWriteTool
<1>3. last = Max(I)
  BY <1>2 DEF SelectLastInSeq
<1>4. Max(I) \in I
  <2>1. I \subseteq 1..Len(w)
    OBVIOUS
  <2> HIDE DEF I, w
  <2> QED
    BY <1>1, <1>2, <2>1, LastPlace
<1>5. PathsFor(o, n, args) = Found(args, w[last].keys)
  BY DEF PathsFor
<1> QED
  <2>1. last \in DOMAIN w
    BY <1>1, <1>3, <1>4
  <2> HIDE DEF last
  <2> QED
    BY <1>5, <2>1

(* What a list holds is of its kind.                                        *)
LEMMA PlacesOfSeq ==
  ASSUME NEW S, NEW s \in Seq(S), NEW k \in DOMAIN s
  PROVE  s[k] \in S
OBVIOUS

(* A call that needs a decision names files, and only files.               *)
LEMMA AskedFiles ==
  ASSUME ProxyAssumption, Phases, NEW p \in Process, Asks(p)
  PROVE  /\ FilesOf(request[p]) \subseteq File /\ FilesOf(request[p]) # {}
         /\ options \in Configurations /\ request[p] \in Request
<1> DEFINE r == request[p]
           paths == PathsFor(options, r.tool, r.args)
<1>1. r \in Request /\ options \in Configurations
  BY DEF Asks, Phases
<1>2. r.args \in [Key -> SUBSET File] /\ options \in Options
  BY <1>1 DEF ProxyAssumption
<1>3. paths # Undefined /\ paths # {}
  BY DEF Asks, NeedsAccess
<1>4. IsWriteTool(options, r.tool)
  BY <1>3 DEF PathsFor
<1>5. PICK k \in DOMAIN options.writeTools : paths = Found(r.args, options.writeTools[k].keys)
  BY <1>2, <1>4, LastMatch
<1>6. options.writeTools[k].keys \subseteq Key
  <2>1. options.writeTools \in Seq([name : Name, keys : SUBSET Key])
    BY <1>2 DEF Options
  <2>2. options.writeTools[k] \in [name : Name, keys : SUBSET Key]
    BY <2>1, <1>5, PlacesOfSeq
  <2> QED
    BY <2>2
<1>7. paths \subseteq File
  BY <1>2, <1>5, <1>6 DEF Found
<1> QED
  BY <1>1, <1>3, <1>7 DEF FilesOf

(* Whatever a proxy does, to the claims it is a step of a claim command. *)
LEMMA StepIsLeaseStep == ProxyAssumption /\ Phases /\ [ProxyNext]_allVars => [Next]_vars
<1> SUFFICES ASSUME ProxyAssumption, Phases, [ProxyNext]_allVars PROVE [Next]_vars
  OBVIOUS
<1>1. CASE ClaimStep
  BY <1>1 DEF ClaimStep, Next
<1>2. ASSUME NEW p \in Process, Receive(p) \/ DecideAtOnce(p) \/ AppendLine(p) \/ Land(p)
      PROVE  UNCHANGED vars
  BY <1>2 DEF Receive, DecideAtOnce, AppendLine, Land
<1>3. ASSUME NEW p \in Process, Consult(p) PROVE Next
  BY <1>3 DEF Consult, Next
<1>4. ASSUME NEW p \in Process, Granted(p) PROVE Next
  <2>1. Allow(p, FilesOf(request[p]))
    BY <1>4 DEF Granted
  <2>2. FilesOf(request[p]) \subseteq File /\ FilesOf(request[p]) # {}
    BY <1>4, AskedFiles DEF Granted
  <2> QED
    BY <2>1, <2>2 DEF Next
<1>5. ASSUME NEW p \in Process, Refused(p) PROVE Next
  BY <1>5 DEF Refused, Next
<1>6. ASSUME NEW p \in Process, Die(p) PROVE Refuse(p) \/ UNCHANGED vars
  <2>1. pc[p] = "idle" \/ pc[p] = "ready"
    BY <1>6 DEF Die, Phases
  <2>2. CASE pc[p] = "ready"
    BY <1>6, <2>2 DEF Die, Refuse
  <2>3. CASE pc[p] = "idle"
    BY <1>6, <2>3 DEF Die, End, Phases, vars
  <2> QED
    BY <2>1, <2>2, <2>3
<1>7. CASE UNCHANGED allVars
  BY <1>7 DEF allVars
<1> QED
  BY <1>1, <1>2, <1>3, <1>4, <1>5, <1>6, <1>7 DEF ProxyNext, Next

(* A proxy is in a phase of a call or has none.                            *)
THEOREM PhasesHold == ProxySpec => []Phases
BY ProxyAssumption, PhasesInit, PhasesStep, PTL DEF ProxySpec

(* With proxies around, the claims are the leases of ClaimLeases: what is   *)
(* proved of those holds of these.                                          *)
THEOREM ProxyIsLeases == ProxySpec => Spec
<1>1. ProxyInit => Init
  BY DEF ProxyInit
<1>2. Phases /\ [ProxyNext]_allVars => [Next]_vars
  BY ProxyAssumption, StepIsLeaseStep
<1> QED
  BY <1>1, <1>2, PhasesHold, PTL DEF ProxySpec, Spec

-----------------------------------------------------------------------------
(* The parts of the state that only the proxies write. *)
Records ==
  /\ logging = [p \in Process |-> logging[p]]
  /\ sent = [p \in Process |-> sent[p]]
  /\ landed = [f \in File |-> landed[f]]

(* Every line still to be appended was found to fit: with those of all      *)
(* processes the log is a line per process over its bound, less the one that*)
(* fits.                                                                    *)
Appending == {p \in Process : logging[p] # NoWrite}
LogFits == logLines \in Nat /\ logLines + Cardinality(Appending) < MaxLog + Cardinality(Process)

(* Under enforcement every call that is to be forwarded names files that    *)
(* stored leases of its sender cover, each its own.                         *)
Backed(p, call) ==
  \A f \in call.files \cap File : UnderLease([agent |-> AgentOf[p], lease |-> call.lease[f]], f)
Leased(p, call, f) ==
  /\ call.lease[f] \in store /\ call.lease[f].agent = AgentOf[p]
  /\ f \in Covers[call.lease[f].surface] /\ call.lease[f].created <= time + MaxSkew
CallsBacked ==
  Enforced => \A p \in Process :
    /\ sent[p] # NoWrite => Backed(p, sent[p])
    /\ logging[p] # NoWrite /\ logging[p].forward => Backed(p, logging[p])

ProxyInv == Phases /\ IInv /\ Records /\ LogFits /\ CallsBacked /\ WritesUnderLease

(* What the decision comes to under enforcement: a call that goes out names *)
(* no file, or was allowed.                                                 *)
LEMMA EnforcedDecision ==
  ASSUME NEW o \in Configurations, o.mode = "enforce", o.failMode = "closed",
         NEW n, NEW args, NEW verdict, Decide(o, n, args, verdict).forward
  PROVE  PathsFor(o, n, args) = Undefined \/ (NeedsAccess(o, n, args) /\ verdict = "ok")
BY DEF Decide, RefusedWrite, RefusedUnknown, Outcome, NeedsAccess

(* A tool call of a hidden tool is refused: the list of tools and the       *)
(* decision agree.                                                          *)
LEMMA HiddenIsRefused ==
  ASSUME NEW o \in Options, NEW n, NEW args, NEW verdict, ~Exposed(o, n)
  PROVE  ~Decide(o, n, args, verdict).forward
BY DEF Exposed, Decide, PathsFor, RefusedUnknown, Outcome, Options

(* A stored lease stays stored.                                            *)
LEMMA LeasesRemain ==
  ASSUME LeaseAssumption, IInv, [Next]_vars
  PROVE  /\ store \subseteq store' /\ store' \subseteq Claim
         /\ time \in Int /\ time' \in Int /\ time <= time'
<1>1. store \subseteq store' /\ IInv'
  BY NextStep
<1>2. time' = time \/ time' = time + 1
  BY DEF Next, vars, Tick, ReadStore, Refuse, Prepare, Commit, Allow
<1>3. /\ store' \subseteq Claim
      /\ time \in Int /\ time' \in Int
  BY <1>1 DEF IInv, TypeOK, LeaseAssumption
<1> QED
  BY <1>1, <1>2, <1>3

(* The invariant of the proxy holds at the start.                          *)
LEMMA ProxyInit1 == ProxyInit /\ LeaseAssumption /\ ProxyAssumption => ProxyInv
<1> SUFFICES ASSUME ProxyInit, LeaseAssumption, ProxyAssumption PROVE ProxyInv
  OBVIOUS
<1>1. Phases /\ IInv
  BY PhasesInit, InitIInv DEF ProxyInit
<1>2. Records /\ CallsBacked /\ WritesUnderLease
  BY DEF ProxyInit, Records, CallsBacked, WritesUnderLease
<1>3. LogFits
  <2>1. Appending = {} /\ logLines = 0
    BY DEF ProxyInit, Appending
  <2>2. Cardinality(Process) \in Nat /\ Cardinality(Process) # 0
    BY FS_CardinalityType, FS_EmptySet DEF ProxyAssumption
  <2> QED
    BY <2>1, <2>2, FS_EmptySet DEF LogFits, ProxyAssumption
<1> QED
  BY <1>1, <1>2, <1>3 DEF ProxyInv

(* How the decision of a call ends: its line is to be appended, or it is    *)
(* sent if it is to be forwarded.                                           *)
LEMMA ConcludeKeeps ==
  ASSUME ProxyAssumption, Records, LogFits, NEW p \in Process, NEW d, NEW lease,
         Conclude(p, d, lease)
  PROVE  /\ Records' /\ LogFits'
         /\ UNCHANGED <<options, landed>>
         /\ \A q \in Process : sent'[q] # sent[q] =>
              q = p /\ d.forward /\ sent'[q].files = FilesOf(request[p]) /\ sent'[q].lease = lease
         /\ \A q \in Process : logging'[q] # logging[q] =>
              /\ q = p /\ logging'[q].forward = d.forward
              /\ logging'[q].files = FilesOf(request[p]) /\ logging'[q].lease = lease
<1> DEFINE call == [forward |-> d.forward, files |-> FilesOf(request[p]), lease |-> lease]
<1>1. PICK due \in LineIsDue :
        IF due THEN logging' = [logging EXCEPT ![p] = call] /\ sent' = sent
               ELSE Dispatch(p, call) /\ logging' = logging
  BY DEF Conclude
<1>2. UNCHANGED <<options, logLines, landed>>
  BY DEF Conclude
<1>3. call.forward = d.forward /\ call.files = FilesOf(request[p]) /\ call.lease = lease
  OBVIOUS
<1> HIDE DEF call
<1>4. CASE due
  <2>1. logLines < MaxLog
    BY <1>4 DEF LineIsDue
  <2>2. logging' = [logging EXCEPT ![p] = call] /\ sent' = sent
    BY <1>1, <1>4
  <2>3. Records'
    BY <1>2, <2>2 DEF Records
  <2>4. LogFits'
    <3>1. Appending' \subseteq Process
      BY DEF Appending
    <3>2. Cardinality(Appending') <= Cardinality(Process) /\ Cardinality(Appending') \in Nat
          /\ Cardinality(Process) \in Nat
      BY <3>1, FS_Subset, FS_CardinalityType DEF ProxyAssumption
    <3> QED
      BY <1>2, <2>1, <3>2 DEF LogFits, ProxyAssumption
  <2>5. \A q \in Process : logging'[q] # logging[q] => q = p /\ logging'[q] = call
    BY <2>2 DEF Records
  <2> QED
    BY <1>2, <1>3, <2>2, <2>3, <2>4, <2>5
<1>5. CASE ~due
  <2>1. Dispatch(p, call) /\ logging' = logging
    BY <1>1, <1>5
  <2>2. Records'
    BY <1>2, <2>1 DEF Records, Dispatch
  <2>3. LogFits'
    <3>1. Appending' = Appending
      BY <2>1 DEF Appending
    <3> QED
      BY <1>2, <3>1 DEF LogFits
  <2>4. \A q \in Process : sent'[q] # sent[q] => q = p /\ call.forward /\ sent'[q] = call
    BY <2>1 DEF Records, Dispatch
  <2> QED
    BY <1>2, <1>3, <2>1, <2>2, <2>3, <2>4
<1> QED
  BY <1>4, <1>5

(* A call whose lease is stored stays under it, whatever happens to the     *)
(* claims.                                                                  *)
LEMMA UnderLeaseStays ==
  ASSUME LeaseAssumption, IInv, [Next]_vars, NEW w, NEW f \in File, UnderLease(w, f)
  PROVE  /\ w.lease \in store'
         /\ w.lease.agent = w.agent
         /\ f \in Covers[w.lease.surface]
         /\ w.lease.created <= time' + MaxSkew
<1>1. w.lease \in store /\ w.lease.agent = w.agent /\ f \in Covers[w.lease.surface]
      /\ w.lease.created <= time + MaxSkew
  BY DEF UnderLease
<1>2. w.lease \in store' /\ w.lease.created \in Int
  BY <1>1, LeasesRemain DEF Claim
<1>3. time + MaxSkew <= time' + MaxSkew /\ time + MaxSkew \in Int /\ time' + MaxSkew \in Int
  BY LeasesRemain DEF LeaseAssumption
<1> QED
  BY <1>1, <1>2, <1>3

(* What is backed stays backed.                                             *)
LEMMA BackedStays ==
  ASSUME LeaseAssumption, IInv, [Next]_vars, NEW p \in Process, NEW call, Backed(p, call)
  PROVE  \A f \in call.files \cap File : Leased(p, call, f)'
<1> SUFFICES ASSUME NEW f \in call.files \cap File PROVE Leased(p, call, f)'
  OBVIOUS
<1> DEFINE w == [agent |-> AgentOf[p], lease |-> call.lease[f]]
<1>1. UnderLease(w, f) /\ w.lease = call.lease[f] /\ w.agent = AgentOf[p]
  BY DEF Backed
<1> HIDE DEF w
<1>2. /\ w.lease \in store' /\ w.lease.agent = w.agent /\ f \in Covers[w.lease.surface]
      /\ w.lease.created <= time' + MaxSkew
  BY <1>1, UnderLeaseStays
<1> QED
  BY <1>1, <1>2 DEF Leased

(* Calls are backed after a step that sends and logs what is leased, or what*)
(* was backed before.                                                       *)
LEMMA CallsStay ==
  ASSUME LeaseAssumption, ProxyInv, [Next]_vars, options' = options,
         \A q \in Process : sent'[q] # sent[q] /\ sent'[q] # NoWrite =>
           (Enforced => \A f \in sent'[q].files \cap File : (Leased(q, sent[q], f))'),
         \A q \in Process : logging'[q] # logging[q] /\ logging'[q] # NoWrite /\ logging'[q].forward =>
           (Enforced => \A f \in logging'[q].files \cap File : (Leased(q, logging[q], f))')
  PROVE  CallsBacked'
<1> SUFFICES ASSUME Enforced, NEW q \in Process
             PROVE  /\ sent'[q] # NoWrite => Backed(q, sent[q])'
                    /\ logging'[q] # NoWrite /\ logging'[q].forward => Backed(q, logging[q])'
  BY DEF CallsBacked, Enforced
<1>1. ASSUME sent'[q] # NoWrite PROVE Backed(q, sent[q])'
  <2>1. \A f \in sent'[q].files \cap File : Leased(q, sent[q], f)'
    <3>1. CASE sent'[q] # sent[q]
      BY <1>1, <3>1
    <3>2. CASE sent'[q] = sent[q]
      <4>1. Backed(q, sent[q])
        BY <1>1, <3>2 DEF ProxyInv, CallsBacked
      <4> QED
        BY <3>2, <4>1, BackedStays DEF ProxyInv, Leased
    <3> QED
      BY <3>1, <3>2
  <2> QED
    BY <2>1 DEF Backed, UnderLease, Leased
<1>2. ASSUME logging'[q] # NoWrite, logging'[q].forward PROVE Backed(q, logging[q])'
  <2>1. \A f \in logging'[q].files \cap File : Leased(q, logging[q], f)'
    <3>1. CASE logging'[q] # logging[q]
      BY <1>2, <3>1
    <3>2. CASE logging'[q] = logging[q]
      <4>1. Backed(q, logging[q])
        BY <1>2, <3>2 DEF ProxyInv, CallsBacked
      <4> QED
        BY <3>2, <4>1, BackedStays DEF ProxyInv, Leased
    <3> QED
      BY <3>1, <3>2
  <2> QED
    BY <2>1 DEF Backed, UnderLease, Leased
<1> QED
  BY <1>1, <1>2

(* A write that has landed under a lease is still under it after a step    *)
(* that lands nothing.                                                     *)
LEMMA LandedStays ==
  ASSUME LeaseAssumption, ProxyInv, [Next]_vars, UNCHANGED <<options, landed>>
  PROVE  WritesUnderLease'
<1> SUFFICES ASSUME Enforced, NEW f \in File, landed[f] # NoWrite
             PROVE  /\ landed[f].lease \in store'
                    /\ landed[f].lease.agent = landed[f].agent
                    /\ f \in Covers[landed[f].lease.surface]
                    /\ landed[f].lease.created <= time' + MaxSkew
  BY DEF WritesUnderLease, UnderLease, Enforced
<1>1. UnderLease(landed[f], f)
  BY DEF ProxyInv, WritesUnderLease
<1> QED
  BY <1>1, UnderLeaseStays DEF ProxyInv

-----------------------------------------------------------------------------
(* A decision that goes to the log or to the server with a lease for each   *)
(* of its files leaves everything backed.                                   *)
LEMMA ConcludeStep ==
  ASSUME LeaseAssumption, ProxyAssumption, ProxyInv, [Next]_vars,
         NEW p \in Process, NEW d, NEW lease, Conclude(p, d, lease),
         Enforced /\ d.forward => \A f \in FilesOf(request[p]) \cap File :
           /\ lease[f] \in store' /\ lease[f].agent = AgentOf[p]
           /\ f \in Covers[lease[f].surface] /\ lease[f].created <= time' + MaxSkew
  PROVE  Records' /\ LogFits' /\ CallsBacked' /\ WritesUnderLease'
<1>1. /\ Records' /\ LogFits'
      /\ UNCHANGED <<options, landed>>
      /\ \A q \in Process : sent'[q] # sent[q] =>
           q = p /\ d.forward /\ sent'[q].files = FilesOf(request[p]) /\ sent'[q].lease = lease
      /\ \A q \in Process : logging'[q] # logging[q] =>
           /\ q = p /\ logging'[q].forward = d.forward
           /\ logging'[q].files = FilesOf(request[p]) /\ logging'[q].lease = lease
  <2>1. Records /\ LogFits
    BY DEF ProxyInv
  <2> QED
    BY <2>1, ConcludeKeeps
<1>2. ASSUME NEW q \in Process, sent'[q] # sent[q], Enforced, NEW f \in sent'[q].files \cap File
      PROVE  Leased(q, sent[q], f)'
  BY <1>1, <1>2 DEF Leased
<1>3. ASSUME NEW q \in Process, logging'[q] # logging[q], logging'[q].forward, Enforced,
             NEW f \in logging'[q].files \cap File
      PROVE  Leased(q, logging[q], f)'
  BY <1>1, <1>3 DEF Leased
<1>4. CallsBacked'
  BY <1>1, <1>2, <1>3, CallsStay
<1>5. WritesUnderLease'
  BY <1>1, LandedStays
<1> QED
  BY <1>1, <1>4, <1>5

(* A handler that does not forward under enforcement, or forwards a call    *)
(* that names no file.                                                      *)
LEMMA DecideAtOnceStep ==
  ASSUME LeaseAssumption, ProxyAssumption, ProxyInv, NEW p \in Process, DecideAtOnce(p)
  PROVE  Records' /\ LogFits' /\ CallsBacked' /\ WritesUnderLease'
<1> DEFINE d == Decide(options, request[p].tool, request[p].args, "error")
<1>1. Conclude(p, d, Unleased(request[p])) /\ UNCHANGED vars
  BY DEF DecideAtOnce
<1>2. Enforced /\ d.forward => FilesOf(request[p]) = {}
  BY EnforcedDecision DEF Enforced, ProxyInv, Phases, FilesOf
<1> HIDE DEF d
<1> QED
  BY <1>1, <1>2, ConcludeStep

(* A refused call sends nothing.                                           *)
LEMMA RefusedStep ==
  ASSUME LeaseAssumption, ProxyAssumption, ProxyInv, NEW p \in Process, Refused(p)
  PROVE  Records' /\ LogFits' /\ CallsBacked' /\ WritesUnderLease'
<1>1. PICK verdict \in {"denied", "error"} :
        Conclude(p, Decide(options, request[p].tool, request[p].args, verdict), Unleased(request[p]))
  BY DEF Refused
<1> DEFINE d == Decide(options, request[p].tool, request[p].args, verdict)
<1>2. Next
  BY DEF Refused, Next
<1>3. Enforced /\ d.forward => FilesOf(request[p]) = {}
  BY EnforcedDecision DEF Enforced, ProxyInv, Phases, FilesOf
<1>4. Conclude(p, d, Unleased(request[p]))
  BY <1>1
<1> HIDE DEF d
<1> QED
  BY <1>2, <1>3, <1>4, ConcludeStep

(* An allowed call leaves with the claims that allowed it, one for each of  *)
(* its files.                                                               *)
LEMMA GrantedStep ==
  ASSUME LeaseAssumption, ProxyAssumption, ProxyInv, NEW p \in Process, Granted(p)
  PROVE  Records' /\ LogFits' /\ CallsBacked' /\ WritesUnderLease'
<1> DEFINE files == FilesOf(request[p])
           d == Decide(options, request[p].tool, request[p].args, "ok")
           leases == [f \in files |-> grant'[f]]
<1>1. Asks(p) /\ Allow(p, files) /\ Conclude(p, d, leases)
  BY DEF Granted
<1>2. files \subseteq File /\ files # {}
  BY <1>1, AskedFiles DEF ProxyInv
<1> HIDE DEF d
<1>3. PICK now \in Reading, lease \in [files -> base[p]] :
        /\ \A f \in files :
             /\ lease[f] \in Covering(Active(base[p], now), f)
             /\ \A e \in Covering(Active(base[p], now), f) : e.agent = AgentOf[p]
        /\ grant' = [f \in File |-> IF f \in files THEN lease[f] ELSE grant[f]]
        /\ UNCHANGED <<store, time>>
  BY <1>1 DEF Allow
<1>4. ASSUME NEW f \in files
      PROVE  /\ leases[f] \in store' /\ leases[f].agent = AgentOf[p]
             /\ f \in Covers[leases[f].surface] /\ leases[f].created <= time' + MaxSkew
  <2>1. leases[f] = lease[f]
    BY <1>2, <1>3
  <2>2. lease[f] \in store /\ lease[f].agent = AgentOf[p] /\ f \in Covers[lease[f].surface]
    BY <1>3 DEF ProxyInv, IInv, ReadsStay, Covering, Active
  <2>3. lease[f].created <= time + MaxSkew
    BY <2>2 DEF ProxyInv, IInv, NotFromTheFuture
  <2> QED
    BY <1>3, <2>1, <2>2, <2>3
<1>5. Next
  BY <1>1, <1>2 DEF Next
<1> HIDE DEF leases
<1>6. \A f \in FilesOf(request[p]) \cap File :
        /\ leases[f] \in store' /\ leases[f].agent = AgentOf[p]
        /\ f \in Covers[leases[f].surface] /\ leases[f].created <= time' + MaxSkew
  BY <1>4
<1> QED
  BY <1>1, <1>5, <1>6, ConcludeStep

(* A line that is appended, or not: the call goes on as it was decided.     *)
LEMMA AppendStep ==
  ASSUME LeaseAssumption, ProxyAssumption, ProxyInv, NEW p \in Process, AppendLine(p)
  PROVE  Records' /\ LogFits' /\ CallsBacked' /\ WritesUnderLease'
<1>1. /\ logging[p] # NoWrite /\ logging' = [logging EXCEPT ![p] = NoWrite]
      /\ UNCHANGED vars /\ UNCHANGED <<options, request, landed>>
  BY DEF AppendLine
<1>2. \A q \in Process : sent'[q] # sent[q] => q = p /\ logging[p].forward /\ sent'[q] = logging[p]
  BY DEF AppendLine, Dispatch, ProxyInv, Records
<1>3. \A q \in Process : logging'[q] = logging[q] \/ logging'[q] = NoWrite
  BY <1>1 DEF ProxyInv, Records
<1>4. Records'
  BY <1>1 DEF AppendLine, Dispatch, ProxyInv, Records
<1>5. LogFits'
  <2>1. logging'[p] = NoWrite /\ \A q \in Process \ {p} : logging'[q] = logging[q]
    BY <1>1 DEF ProxyInv, Records
  <2>2. Appending' = Appending \ {p} /\ p \in Appending
    BY <1>1, <2>1 DEF Appending
  <2>3. Cardinality(Appending') = Cardinality(Appending) - 1 /\ Cardinality(Appending) \in Nat
        /\ Cardinality(Appending') \in Nat
    <3>1. IsFiniteSet(Appending)
      BY FS_Subset DEF Appending, ProxyAssumption
    <3>2. IsFiniteSet(Appending')
      BY <2>2, <3>1, FS_Subset
    <3> QED
      BY <2>2, <3>1, <3>2, FS_RemoveElement, FS_CardinalityType
  <2>4. logLines' = logLines \/ logLines' = logLines + 1
    BY DEF AppendLine
  <2>5. Cardinality(Process) \in Nat
    BY FS_CardinalityType DEF ProxyAssumption
  <2> QED
    BY <2>3, <2>4, <2>5 DEF ProxyInv, LogFits, ProxyAssumption
<1>6. CallsBacked'
  <2>1. ASSUME NEW q \in Process, sent'[q] # sent[q], Enforced, NEW f \in sent'[q].files \cap File
        PROVE  Leased(q, sent[q], f)'
    <3>1. q = p /\ sent'[q] = logging[p] /\ Backed(p, logging[p])
      BY <1>1, <1>2, <2>1 DEF ProxyInv, CallsBacked
    <3> QED
      BY <1>1, <2>1, <3>1, BackedStays DEF ProxyInv, Leased
  <2> QED
    BY <1>1, <1>3, <2>1, CallsStay
<1>7. WritesUnderLease'
  BY <1>1, LandedStays
<1> QED
  BY <1>4, <1>5, <1>6, <1>7

(* What lands is what was sent; no write in time overtakes another agent.   *)
LEMMA LandStep ==
  ASSUME LeaseAssumption, ProxyAssumption, ProxyInv, NEW p \in Process, Land(p)
  PROVE  /\ Records' /\ LogFits' /\ CallsBacked' /\ WritesUnderLease'
         /\ Enforced => \A f \in File : TimelyWrite(f)
<1>1. /\ sent[p] # NoWrite /\ UNCHANGED vars /\ UNCHANGED <<options, request, logging, logLines>>
      /\ sent' = [sent EXCEPT ![p] = NoWrite]
  BY DEF Land
<1>2. \A q \in Process : sent'[q] = sent[q] \/ sent'[q] = NoWrite
  BY <1>1 DEF ProxyInv, Records
<1>3. Records' /\ LogFits'
  BY <1>1 DEF Land, ProxyInv, Records, LogFits, Appending
<1>4. CallsBacked'
  BY <1>1, <1>2, CallsStay
<1> DEFINE w(f) == [agent |-> AgentOf[p], lease |-> sent[p].lease[f]]
<1>5. \A f \in File : landed'[f] = IF f \in sent[p].files THEN w(f) ELSE landed[f]
  BY DEF Land
<1>6. Enforced => \A f \in File : landed'[f] = landed[f] \/
                    (landed'[f] = w(f) /\ UnderLease(w(f), f))
  BY <1>1, <1>5 DEF ProxyInv, CallsBacked, Backed
<1> HIDE DEF w
<1>7. store' = store /\ time' = time /\ (Enforced' <=> Enforced)
  BY <1>1 DEF vars, Enforced
<1>8. WritesUnderLease'
  BY <1>6, <1>7 DEF ProxyInv, WritesUnderLease, UnderLease
<1>9. ASSUME Enforced, NEW f \in File PROVE TimelyWrite(f)
  <2> DEFINE old == landed[f]
             new == landed'[f]
  <2> SUFFICES ASSUME new # old, old # NoWrite, old.agent # new.agent,
                      new.lease.expires > time + MaxSkew
               PROVE  old.lease.expires <= new.lease.created
    BY DEF TimelyWrite
  <2>1. UnderLease(new, f) /\ UnderLease(old, f)
    BY <1>6, <1>9 DEF ProxyInv, WritesUnderLease
  <2> HIDE DEF old, new
  <2>2. /\ old.lease \in store /\ new.lease \in store /\ old.lease # new.lease
        /\ f \in Covers[old.lease.surface] /\ f \in Covers[new.lease.surface]
        /\ old.lease.created <= time + MaxSkew
    BY <2>1 DEF UnderLease
  <2>3. /\ old.lease \in Claim /\ new.lease \in Claim /\ time + MaxSkew \in Int
    BY <2>2 DEF ProxyInv, IInv, TypeOK, LeaseAssumption
  <2>4. Conflict(old.lease, new.lease)
    BY <2>2, <2>3, CoverersConflict
  <2>5. old.lease.expires <= new.lease.created \/ new.lease.expires <= old.lease.created
    BY <2>2, <2>4 DEF ProxyInv, IInv, LeasesDisjoint
  <2> QED
    BY <2>2, <2>3, <2>5 DEF Claim
<1> QED
  BY <1>3, <1>4, <1>8, <1>9

(* A proxy that is killed takes at most its line with it.                   *)
LEMMA DieStep ==
  ASSUME LeaseAssumption, ProxyAssumption, ProxyInv, [Next]_vars, NEW p \in Process, Die(p)
  PROVE  Records' /\ LogFits' /\ CallsBacked' /\ WritesUnderLease'
<1>1. logging' = [logging EXCEPT ![p] = NoWrite] /\ UNCHANGED <<options, sent, logLines, landed>>
  BY DEF Die
<1>2. \A q \in Process : logging'[q] = logging[q] \/ logging'[q] = NoWrite
  BY <1>1 DEF ProxyInv, Records
<1>3. Records'
  BY <1>1 DEF ProxyInv, Records
<1>4. LogFits'
  <2>1. Appending' \subseteq Appending
    BY <1>2 DEF Appending
  <2>2. IsFiniteSet(Appending)
    BY FS_Subset DEF Appending, ProxyAssumption
  <2>3. Cardinality(Appending') <= Cardinality(Appending) /\ Cardinality(Appending') \in Nat
        /\ Cardinality(Appending) \in Nat /\ Cardinality(Process) \in Nat
    BY <2>1, <2>2, FS_Subset, FS_CardinalityType DEF ProxyAssumption
  <2> QED
    BY <1>1, <2>3 DEF ProxyInv, LogFits, ProxyAssumption
<1>5. CallsBacked' /\ WritesUnderLease'
  BY <1>1, <1>2, CallsStay, LandedStays
<1> QED
  BY <1>3, <1>4, <1>5

(* The steps that leave the calls under way, landed and the log alone.      *)
LEMMA QuietStep ==
  ASSUME LeaseAssumption, ProxyInv, [Next]_vars, UNCHANGED <<options, logging, sent, logLines, landed>>
  PROVE  Records' /\ LogFits' /\ CallsBacked' /\ WritesUnderLease'
<1>1. Records' /\ LogFits'
  BY DEF ProxyInv, Records, LogFits, Appending
<1>2. CallsBacked' /\ WritesUnderLease'
  BY CallsStay, LandedStays
<1> QED
  BY <1>1, <1>2

(* Every step keeps the invariant and lands its write in order: one case   *)
(* per action.                                                             *)
LEMMA ProxyStep ==
  ASSUME LeaseAssumption, ProxyAssumption, ProxyInv, [ProxyNext]_allVars
  PROVE  ProxyInv' /\ [Enforced => \A f \in File : TimelyWrite(f)]_allVars
<1>1. [Next]_vars
  BY StepIsLeaseStep DEF ProxyInv
<1>2. Phases' /\ IInv'
  BY <1>1, PhasesStep, NextStep DEF ProxyInv
<1> DEFINE Rest == Records' /\ LogFits' /\ CallsBacked' /\ WritesUnderLease'
           Order == Enforced => \A f \in File : TimelyWrite(f)
<1>3. landed' = landed => Order
  BY DEF TimelyWrite
<1>4. ASSUME ClaimStep \/ UNCHANGED allVars PROVE Rest /\ Order
  BY <1>1, <1>3, <1>4, QuietStep DEF ClaimStep, proxyVars, allVars
<1>5. ASSUME NEW p \in Process, Receive(p) \/ Consult(p) PROVE Rest /\ Order
  BY <1>1, <1>3, <1>5, QuietStep DEF Receive, Consult, proxyVars
<1>6. ASSUME NEW p \in Process, Die(p) PROVE Rest /\ Order
  BY <1>1, <1>3, <1>6, DieStep DEF Die
<1>7. ASSUME NEW p \in Process, DecideAtOnce(p) PROVE Rest /\ Order
  BY <1>3, <1>7, DecideAtOnceStep DEF DecideAtOnce, Conclude
<1>8. ASSUME NEW p \in Process, Granted(p) PROVE Rest /\ Order
  BY <1>3, <1>8, GrantedStep DEF Granted, Conclude
<1>9. ASSUME NEW p \in Process, Refused(p) PROVE Rest /\ Order
  BY <1>3, <1>9, RefusedStep DEF Refused, Conclude
<1>10. ASSUME NEW p \in Process, AppendLine(p) PROVE Rest /\ Order
  BY <1>3, <1>10, AppendStep DEF AppendLine
<1>11. ASSUME NEW p \in Process, Land(p) PROVE Rest /\ Order
  BY <1>11, LandStep
<1>12. Rest /\ Order
  BY <1>4, <1>5, <1>6, <1>7, <1>8, <1>9, <1>10, <1>11 DEF ProxyNext
<1> QED
  BY <1>2, <1>12 DEF ProxyInv

(* The invariant of the proxy holds in every reachable state.              *)
THEOREM ProxyInductive == ProxySpec => []ProxyInv
<1>1. ProxyInit => ProxyInv
  BY LeaseAssumption, ProxyAssumption, ProxyInit1
<1>2. ProxyInv /\ [ProxyNext]_allVars => ProxyInv'
  BY LeaseAssumption, ProxyAssumption, ProxyStep
<1> QED
  BY <1>1, <1>2, PTL DEF ProxySpec

(* Under enforcement the server writes only under a stored lease of the     *)
(* calling agent that covers the file.                                      *)
THEOREM WritesAreLeased == ProxySpec => []WritesUnderLease
<1>1. ProxyInv => WritesUnderLease
  BY DEF ProxyInv
<1> QED
  BY <1>1, ProxyInductive, PTL

(* A log outgrows its bound by less than a line per process.                *)
THEOREM LogStaysBounded == ProxySpec => []AuditLogBounded
<1>1. ProxyInv => AuditLogBounded
  <2> SUFFICES ASSUME ProxyInv PROVE AuditLogBounded
    OBVIOUS
  <2>1. IsFiniteSet(Appending) /\ IsFiniteSet(Process) /\ MaxLog \in Nat
    BY ProxyAssumption, FS_Subset DEF Appending, ProxyAssumption
  <2>2. Cardinality(Appending) \in Nat /\ Cardinality(Process) \in Nat
    BY <2>1, FS_CardinalityType
  <2> QED
    BY <2>1, <2>2 DEF ProxyInv, LogFits, AuditLogBounded
<1> QED
  BY <1>1, ProxyInductive, PTL

(* Writes that land in time land in the order of the leases. *)
THEOREM WritesInOrder == ProxySpec => TimelyWritesInOrder
<1>1. ProxyInv /\ [ProxyNext]_allVars => [Enforced => \A f \in File : TimelyWrite(f)]_allVars
  BY LeaseAssumption, ProxyAssumption, ProxyStep
<1> QED
  BY <1>1, ProxyInductive, PTL DEF ProxySpec, TimelyWritesInOrder
=============================================================================
