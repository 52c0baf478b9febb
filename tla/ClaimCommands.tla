------------------------------ MODULE ClaimCommands ------------------------------
(***************************************************************************)
(* Claims over a manifest (claims.ts, claims/selector.ts,                  *)
(* claims/backends/github-artifact.ts).  First the policy: which claims are*)
(* valid, which conflict, which files a claim covers, whether an agent may *)
(* write a file (checkWriteAccess, before the write) and whether it was    *)
(* right to change it (claim check --agent, afterwards).  Then the commands*)
(* around it: create, list, check and write access, each in a synchronous  *)
(* and an asynchronous form, over a backend that may be the local file,    *)
(* another synchronous one or one that answers with promises; which path a *)
(* write is judged by, how long a claim may last, and which files a claim  *)
(* check looks at.                                                         *)
(*                                                                         *)
(* A manifest is [owned |-> <the owned paths of each cell>, include |->    *)
(* <governance.include>].  "tokens" of a claim are its symbols, resources  *)
(* and artifact lanes, which are compared by name.                         *)
(***************************************************************************)
EXTENDS Cases, PathGlobs

CONSTANTS
  ClaimCases,         \* [manifest, claims, agent, file]
  ClaimCommandCases,  \* [cmd, manifest, layout, env, configured, given, backend, fileLock, entries, request]
  WritePathCases,     \* [tree, root, request]
  ExpiryCases,        \* [ttl, expires]
  SweepCases          \* [mode, base, head, index, tree]

-----------------------------------------------------------------------------
(* The claim policy. *)
ManifestCells(manifest) == DOMAIN manifest.owned

(* claimCoversFile *)
ClaimCovers(manifest, claim, file) ==
  \/ \E p \in claim.paths : Matches(file, p)
  \/ \E c \in claim.cells \cap ManifestCells(manifest) : OwnedBy(file, manifest.owned[c])

(* Mutant: claims by cell and claims by path are not compared. *)
SameShapeConflict(manifest, left, right) ==
  \/ left.cells \cap right.cells # {}
  \/ left.tokens \cap right.tokens # {}
  \/ \E p \in left.paths, q \in right.paths : Overlaps(p, q)

(* A claimed path meets the owned paths of a claimed cell. *)
PathMeetsCells(manifest, paths, cells) ==
  \E p \in paths, c \in cells \cap ManifestCells(manifest) :
    \E o \in manifest.owned[c] : OwnedOverlap(p, o)

(* claimConflictSurfaces is not empty. *)
ClaimsConflict(manifest, left, right) ==
  \/ left.cells \cap right.cells # {}
  \/ left.tokens \cap right.tokens # {}
  \/ \E p \in left.paths, q \in right.paths : Overlaps(p, q)
  \/ PathMeetsCells(manifest, left.paths, right.cells)
  \/ PathMeetsCells(manifest, right.paths, left.cells)

(* validateClaimCells: the cells exist, and each path lies in one of them,  *)
(* or in the governed tree if the claim names no cell.                      *)
ClaimCellsValid(manifest, claim) ==
  /\ claim.cells \subseteq ManifestCells(manifest)
  /\ \A p \in claim.paths :
       IF claim.cells # {}
         THEN \E c \in claim.cells \cap ManifestCells(manifest) : CoveredByOwned(p, manifest.owned[c])
         ELSE \E g \in manifest.include : CoveredByOwned(p, {g})

ActiveClaims(claims) == {c \in claims : c.active}

(* checkClaims without an agent: every stored claim is validated, the       *)
(* expired ones too, and active claims with different ids must not conflict.*)
ClaimsOk(manifest, claims) ==
  /\ \A c \in claims : ClaimCellsValid(manifest, c)
  /\ \A c, d \in ActiveClaims(claims) : c.id # d.id => ~ClaimsConflict(manifest, c, d)

(* evaluateWriteAccess, for one path inside the repository. *)
MayWrite(manifest, claims, agent, file) ==
  /\ ClaimsOk(manifest, claims)
  /\ \A c \in ActiveClaims(claims) : c.agent # agent => ~ClaimCovers(manifest, c, file)
  /\ \E c \in ActiveClaims(claims) : c.agent = agent /\ ClaimCovers(manifest, c, file)

(* validateAgentChangedFiles, for a changed file other than the claim store.*)
Sweep(manifest, claims, agent, file) ==
  IF \E c \in ActiveClaims(claims) : c.agent # agent /\ ClaimCovers(manifest, c, file)
    THEN "conflict"
  ELSE IF \E c \in ActiveClaims(claims) : c.agent = agent /\ ClaimCovers(manifest, c, file)
    THEN "accepted"
  ELSE "unclaimed"

(* checkClaims with an agent, the changed files and the path of the store.  *)
ClaimCheckOk(manifest, claims, agent, changed, claimsPath) ==
  /\ ClaimsOk(manifest, claims)
  /\ \A f \in changed \ {claimsPath} : Sweep(manifest, claims, agent, f) = "accepted"

ClaimsPath == <<<<"s">>>>  \* the claim store, a file of no case

(* Owned and claimed paths are texts, and what is to be written is a file   *)
(* other than the store.                                                    *)
ASSUME ClaimAssumption ==
  \A x \in ClaimCases :
    /\ \A c \in ManifestCells(x.manifest) : \A p \in x.manifest.owned[c] : IsPathText(p)
    /\ \A c \in x.claims : \A p \in c.paths : IsPathText(p)
    /\ NamesFile(x.file) /\ x.file # ClaimsPath

GuardWrite ==
  Asked("claim") /\ \E c \in ClaimCases :
    Take(c, [write |-> MayWrite(c.manifest, c.claims, c.agent, c.file),
             check |-> ClaimCheckOk(c.manifest, c.claims, c.agent, {c.file}, ClaimsPath)])

OwnershipDisjoint(manifest) ==
  \A c, d \in ManifestCells(manifest) : c # d =>
    \A p \in manifest.owned[c], q \in manifest.owned[d] : ~OwnedOverlap(p, q)

(* While no two cells own the same file, any two claims that cover one file *)
(* conflict, whichever of them names it by cell and whichever by path.      *)
SharedFileConflicts ==
  Is("claim") /\ OwnershipDisjoint(input.manifest) =>
    \A c, d \in input.claims :
      ClaimCovers(input.manifest, c, input.file) /\ ClaimCovers(input.manifest, d, input.file)
        => ClaimsConflict(input.manifest, c, d)

(* Whatever the manifest, cells that own the same file included, no file may*)
(* be written by two agents at once.                                        *)
OneWriterPerFile ==
  Is("claim") /\ answer.write =>
    \A other \in {c.agent : c \in input.claims} \ {input.agent} :
      ~MayWrite(input.manifest, input.claims, other, input.file)

(* The guard before the write and the check of the change afterwards agree: *)
(* an agent may write exactly the files whose change is accepted.           *)
SweepAgreesWithGuard == Is("claim") => (answer.write <=> answer.check)

-----------------------------------------------------------------------------
(* The backend.  A backend is [id, promise, lock, read, write, release]:   *)
(* its answers are promises or not; "lock" is absent, granted, refused as  *)
(* not provided, or fails; "read" and "write" succeed or not.              *)

(* The github-artifact backend refuses every operation; its message does    *)
(* not say that it has no lock.                                             *)
ArtifactBackend ==
  [id |-> "github-artifact", promise |-> TRUE, lock |-> "fails", read |-> "throws",
   write |-> "fails", release |-> "ok"]

(* resolveClaimBackend: the environment before the manifest, and only the   *)
(* local file is there.  A list reads the manifest as plain JSON and goes   *)
(* on without it.                                                           *)
BackendType(c) ==
  LET known == IF c.manifest = "unreadable" THEN "" ELSE c.configured
  IN IF c.env # "" THEN c.env ELSE IF known # "" THEN known ELSE "local-file"

BackendResolves(c) == c.given \/ BackendType(c) = "local-file"

(* validateClaimShape drops an entry and leaves a finding. *)
Whole(entries) == {e.claim : e \in {x \in entries : x.whole}}

NothingRead == [claims |-> {}, clean |-> FALSE]

(* readClaimStore, readClaimStoreAsync: a promise on the synchronous path,  *)
(* a read that throws and a state of another form give no claims and a      *)
(* finding.                                                                 *)
ReadStore(c, async) ==
  IF c.backend.read # "state" \/ (c.backend.promise /\ ~async) THEN NothingRead
  ELSE [claims |-> Whole(c.entries), clean |-> \A e \in c.entries : e.whole]

(* acquireClaimStoreLockAsync: the lock file for the local backend, the     *)
(* lock of any other; the synchronous command always takes the lock file.   *)
LockOutcome(c, async) ==
  IF ~async \/ c.backend.id = "local-file" THEN c.fileLock
  ELSE IF c.backend.lock \in {"absent", "not provided"} THEN "none"
  ELSE IF c.backend.lock = "fails" THEN "failed"
  ELSE "held"

(* A command is one of the four, a backend answers a write in one of three  *)
(* ways, and claimed paths are texts.                                       *)
ASSUME ClaimCommandAssumption ==
  \A x \in ClaimCommandCases :
    /\ x.cmd \in {"list", "check", "access", "create"}
    /\ x.backend.promise \in BOOLEAN /\ x.backend.write \in {"ok", "conflict", "fails"}
    /\ \A e \in x.entries : \A p \in e.claim.paths : IsPathText(p)
    /\ x.cmd = "create" => \A p \in x.request.paths : IsPathText(p)

-----------------------------------------------------------------------------
(* The commands.  An answer tells how the command ended, the claims it      *)
(* reports, the writes that took effect and whether it reports a new claim. *)

CommandEnds(outcome, claims) ==
  [outcome |-> outcome, claims |-> claims, effect |-> {}, created |-> FALSE]

Verdict(clean) == IF clean THEN "ok" ELSE "refused"

(* listClaims *)
ListStored(c, store) == CommandEnds(Verdict(store.clean), store.claims)

(* checkClaims, without an agent *)
CheckStored(c, store) ==
  CommandEnds(Verdict(store.clean /\ ClaimsOk(c.layout, store.claims)), store.claims)

(* checkWriteAccess: every path must be allowed, and there must be one.     *)
AccessStored(c, store) ==
  LET r == c.request
  IN CommandEnds(Verdict(/\ r.agent # "" /\ r.files # {} /\ store.clean
                  /\ \A f \in r.files : MayWrite(c.layout, store.claims, r.agent, f)),
          store.claims)

(* The id is the one asked for or a digest of the draft. *)
ClaimOfRequest(r) ==
  [id |-> r.id, agent |-> r.agent, cells |-> r.cells, paths |-> r.paths,
   tokens |-> r.tokens, active |-> r.active]

(* Mutant: the id of a stored claim may be used again. *)
CreateAllowedAgain(c, store) ==
  LET r == c.request
      claim == ClaimOfRequest(r)
  IN /\ store.clean
     /\ r.expiry /\ r.agent # ""
     /\ r.cells # {} \/ r.paths # {} \/ r.tokens # {}
     /\ ClaimCellsValid(c.layout, claim)
     /\ \A s \in ActiveClaims(store.claims) : ~ClaimsConflict(c.layout, s, claim)

(* prepareClaimCreate: the claim may be written. *)
CreateAllowed(c, store) ==
  LET r == c.request
      claim == ClaimOfRequest(r)
  IN /\ store.clean
     /\ r.expiry /\ r.agent # ""
     /\ r.cells # {} \/ r.paths # {} \/ r.tokens # {}
     /\ \A s \in store.claims : s.id # r.id
     /\ ClaimCellsValid(c.layout, claim)
     /\ \A s \in ActiveClaims(store.claims) : ~ClaimsConflict(c.layout, s, claim)

(* writeClaimStoreToBackend: the synchronous path calls the write before it *)
(* sees that the answer is a promise, and then reports a conflict.          *)
WriteStore(c, async, store) ==
  LET claim == ClaimOfRequest(c.request)
      next == {s \in store.claims : s.id # claim.id} \cup {claim}
      took == IF c.backend.write = "ok" THEN {[previous |-> store.claims, next |-> next]} ELSE {}
  IN IF c.backend.promise /\ ~async
       THEN [CommandEnds("refused", store.claims) EXCEPT !.effect = took]
     ELSE IF c.backend.write = "fails" THEN CommandEnds("thrown", {})
     ELSE IF c.backend.write = "conflict" THEN CommandEnds("refused", store.claims)
     ELSE [outcome |-> "ok", claims |-> next, effect |-> took, created |-> TRUE]

(* createClaim, createClaimAsync: a lock that cannot be given back makes    *)
(* the command throw, whatever it did.                                      *)
CreateStored(c, async, store) ==
  LET lock == LockOutcome(c, async)
      done == IF CreateAllowed(c, store) THEN WriteStore(c, async, store)
              ELSE CommandEnds("refused", store.claims)
  IN IF lock = "failed" THEN CommandEnds("refused", {})
     ELSE IF lock = "held" /\ async /\ c.backend.id # "local-file" /\ c.backend.release = "fails"
       THEN [done EXCEPT !.outcome = "thrown", !.created = FALSE]
     ELSE done

(* A manifest or a backend that cannot be had ends a command with exit code *)
(* 2, a write access check with a refusal.                                  *)
RunClaimCommand(c, async, store) ==
  IF ~BackendResolves(c) \/ (c.cmd # "list" /\ c.manifest # "valid")
    THEN CommandEnds(IF c.cmd = "access" THEN "refused" ELSE "configuration", {})
  ELSE CASE c.cmd = "list" -> ListStored(c, store)
         [] c.cmd = "check" -> CheckStored(c, store)
         [] c.cmd = "access" -> AccessStored(c, store)
         [] OTHER -> CreateStored(c, async, store)

(* The answers of the synchronous and of the asynchronous form. *)
ClaimCommandForms(c) ==
  [async \in BOOLEAN |-> RunClaimCommand(c, async, ReadStore(c, async))]

-----------------------------------------------------------------------------
(* The path of a write.  A tree gives each path that exists the path it is  *)
(* linked to, or itself; a link whose target does not exist is dangling.    *)

(* path.resolve: ".." is taken back before links are looked at. *)
ResolveStep(done, s) ==
  IF s = Dot THEN done
  ELSE IF s = DotDot THEN (IF done = <<>> THEN done ELSE Front(done))
  ELSE Append(done, s)

ResolvePath(segments) ==
  LET done[k \in 0..Len(segments)] == IF k = 0 THEN <<>> ELSE ResolveStep(done[k - 1], segments[k])
  IN done[Len(segments)]

PathExists(tree, path) == path \in DOMAIN tree /\ tree[path] \in DOMAIN tree

(* canonicalizePotentialPath: links are followed up to the first part that  *)
(* does not exist.                                                          *)
WalkStep(tree, walk, part) ==
  LET next == Append(walk.at, part)
  IN IF ~walk.missing /\ PathExists(tree, next) THEN [at |-> tree[next], missing |-> FALSE]
     ELSE [at |-> next, missing |-> TRUE]

CanonicalWalk(tree, path) ==
  LET walk[k \in 0..Len(path)] ==
        IF k = 0 THEN [at |-> <<>>, missing |-> FALSE] ELSE WalkStep(tree, walk[k - 1], path[k])
  IN walk[Len(path)]

CanonicalPath(tree, path) == CanonicalWalk(tree, path).at

TargetOf(c) ==
  ResolvePath(IF c.request.absolute THEN c.request.path ELSE c.root \o c.request.path)

BeginsWithDots(name) == Len(name) >= 2 /\ SubSeq(name, 1, 2) = DotDot

JudgePath(canonical, root) ==
  LET inside == Len(canonical) > Len(root) /\ SubSeq(canonical, 1, Len(root)) = root
      rest == IF inside THEN SubSeq(canonical, Len(root) + 1, Len(canonical)) ELSE <<>>
  IN IF inside /\ ~BeginsWithDots(rest[1]) THEN [allowed |-> TRUE, path |-> rest]
     ELSE [allowed |-> FALSE, path |-> <<>>]

(* normalizeWriteAccessPath *)
NormalizeWritePath(c) ==
  IF c.request.path = <<>> THEN [allowed |-> FALSE, path |-> <<>>]
  ELSE JudgePath(CanonicalPath(c.tree, TargetOf(c)), CanonicalPath(c.tree, c.root))

(* Where the operating system goes with the path as it is written. *)
ReachStep(tree, at, part) ==
  IF part = Dot THEN at
  ELSE IF part = DotDot THEN (IF at = <<>> THEN at ELSE Front(at))
  ELSE LET next == Append(at, part)
       IN IF next \in DOMAIN tree THEN tree[next] ELSE next

Reached(tree, path) ==
  LET at[k \in 0..Len(path)] == IF k = 0 THEN <<>> ELSE ReachStep(tree, at[k - 1], path[k])
  IN at[Len(path)]

(* Paths are texts, the root is absolute and plain, and what lies below a   *)
(* path is there only if the path is.                                       *)
ASSUME WritePathAssumption ==
  \A x \in WritePathCases :
    /\ IsPathText(x.root) /\ IsPathText(x.request.path)
    /\ ~Contains(x.root, Dot) /\ ~Contains(x.root, DotDot)
    /\ x.tree \in [DOMAIN x.tree -> Seq(Seq(Letter))]
    /\ \A p \in DOMAIN x.tree : Len(p) > 1 => Front(p) \in DOMAIN x.tree

-----------------------------------------------------------------------------
(* How long a claim lasts, in minutes.  The form of a duration is "plain",  *)
(* "none" (not given) or "other" (no number and unit, or a number that is   *)
(* no safe integer).                                                        *)

MinutesOf == [m |-> 1, h |-> 60, d |-> 1440]
MaxClaimMinutes == 90 * MinutesOf["d"]
DefaultTtl == [form |-> "plain", amount |-> 2, unit |-> "h"]

(* parseTtlMillis; 0 stands for undefined. *)
TtlMinutes(ttl) ==
  IF ttl.form # "plain" \/ ttl.amount * MinutesOf[ttl.unit] > MaxClaimMinutes THEN 0
  ELSE ttl.amount * MinutesOf[ttl.unit]

(* computeClaimExpiresAt: an explicit date has no limit. *)
ClaimExpiry(c) ==
  IF c.expires.given THEN [valid |-> c.expires.date, after |-> c.expires.minutes]
  ELSE LET minutes == TtlMinutes(IF c.ttl.form = "none" THEN DefaultTtl ELSE c.ttl)
       IN [valid |-> minutes > 0, after |-> minutes]

ASSUME ExpiryAssumption ==
  \A x \in ExpiryCases : x.ttl.form = "plain" => x.ttl.amount \in Nat /\ x.ttl.unit \in DOMAIN MinutesOf

-----------------------------------------------------------------------------
(* The files a claim check looks at.  base, head, index and tree give each  *)
(* file its content there: 0 where it is absent, Linked for a link.         *)

Linked == 3

Dropped(old, new) == {f \in DOMAIN old : old[f] # 0 /\ new[f] = 0}
Added(old, new) == {f \in DOMAIN old : old[f] = 0 /\ new[f] # 0}

(* git pairs a file that went with one of the same content that came, and  *)
(* names the new one only.                                                 *)
MovedAway(old, new) == {f \in Dropped(old, new) : \E g \in Added(old, new) : old[f] = new[g]}

Retyped(old, new) ==
  {f \in DOMAIN old : /\ old[f] # 0 /\ new[f] # 0 /\ old[f] # new[f]
                      /\ Linked \in {old[f], new[f]}}

(* git diff --name-only; the filter ACMRD leaves out what changed its type. *)
DiffedFiles(old, new, withTypes) ==
  ({f \in DOMAIN old : old[f] # new[f]} \ MovedAway(old, new))
    \ (IF withTypes THEN {} ELSE Retyped(old, new))

UntrackedFiles(c) == {f \in DOMAIN c.tree : c.index[f] = 0 /\ c.tree[f] # 0}
TrackedTree(c) == [f \in DOMAIN c.tree |-> IF c.index[f] = 0 THEN 0 ELSE c.tree[f]]

(* changedFilesForClaimCheck: the work tree against HEAD                    *)
(* (workingTreeChangedFiles), or a range of commits, up to the work tree if *)
(* it names no end (changedFilesForRefs).                                   *)
SweptFiles(c) ==
  IF c.mode = "work tree" THEN DiffedFiles(c.head, TrackedTree(c), TRUE) \cup UntrackedFiles(c)
  ELSE IF c.mode = "range" THEN DiffedFiles(c.base, c.head, FALSE)
  ELSE DiffedFiles(c.base, c.head, FALSE) \cup DiffedFiles(c.head, c.index, FALSE)
         \cup DiffedFiles(c.index, TrackedTree(c), FALSE) \cup UntrackedFiles(c)

(* The four speak of the same files.                                        *)
ASSUME SweepAssumption ==
  \A x \in SweepCases :
    x.mode \in {"work tree", "range", "open range"} /\ {DOMAIN x.base, DOMAIN x.head, DOMAIN x.index} = {DOMAIN x.tree}

-----------------------------------------------------------------------------
CommandClaims == Asked("claim command") /\ \E c \in ClaimCommandCases : Take(c, ClaimCommandForms(c))
JudgeWritePath == Asked("write path") /\ \E c \in WritePathCases : Take(c, NormalizeWritePath(c))
ComputeExpiry == Asked("claim expiry") /\ \E c \in ExpiryCases : Take(c, ClaimExpiry(c))
SweepChanges == Asked("claim sweep") /\ \E c \in SweepCases : Take(c, SweptFiles(c))

-----------------------------------------------------------------------------
(* What a create writes is the whole store as it was read, with one claim   *)
(* more: no stored claim is lost or written over, not even one the command  *)
(* could not read, and claims that were valid and free of conflicts stay so.*)
StaysClean(w, clean) == clean[w.previous] => clean[w.next]

ClaimsAreKept ==
  Is("claim command") =>
    \A async \in BOOLEAN : \A w \in answer[async].effect :
      /\ w.previous = {e.claim : e \in input.entries}
      /\ w.previous \subseteq w.next /\ Cardinality(w.next \ w.previous) = 1
      /\ StaysClean(w, [claims \in {w.previous, w.next} |-> ClaimsOk(input.layout, claims)])

(* A command that says ok has read every entry of the store, and a create   *)
(* that does has written it.  What was written is reported, except by the   *)
(* synchronous command over a backend that answers with promises and when   *)
(* the lock cannot be given back.                                           *)
ReportIsTrue(c, async, a) ==
  /\ a.outcome = "ok" =>
       /\ c.backend.read = "state" /\ \A e \in c.entries : e.whole
       /\ a.created = (c.cmd = "create") /\ (a.effect # {}) = a.created
  /\ a.effect # {} =>
       \/ a.created
       \/ c.backend.promise /\ ~async
       \/ c.backend.release = "fails" /\ async

ClaimReportsAreTrue ==
  Is("claim command") => \A async \in BOOLEAN : ReportIsTrue(input, async, answer[async])

(* Over a synchronous backend that relies on the lock file or on no lock    *)
(* the two forms of a command come to the same answer.                      *)
LockByFile(c) ==
  \/ c.backend.id = "local-file"
  \/ c.fileLock = "held" /\ c.backend.lock \in {"absent", "not provided"}

FormsAgree ==
  Is("claim command") /\ ~input.backend.promise /\ (input.cmd = "create" => LockByFile(input)) =>
    answer[FALSE] = answer[TRUE]

(* A write that is allowed goes to the file by whose repository path it was *)
(* judged, unless a link on the way is dangling or ".." follows a link.     *)
WritesLandWhereJudged ==
  Is("write path") /\ answer.allowed =>
    LET asked == IF input.request.absolute THEN input.request.path ELSE input.root \o input.request.path
    IN ~Contains(asked, DotDot) /\ (\A p \in DOMAIN input.tree : PathExists(input.tree, p))
         => Reached(input.tree, asked) = Reached(input.tree, input.root) \o answer.path

(* A claim by duration lasts, and no longer than 90 days. *)
ClaimsRunOut ==
  Is("claim expiry") /\ answer.valid /\ ~input.expires.given =>
    answer.after \in 1..MaxClaimMinutes

(* A file that the change leaves different is looked at, but for the old    *)
(* name of a file that moved and, in a range, a file that became a link or  *)
(* stopped being one on the way.                                            *)
ChangesAreSwept ==
  Is("claim sweep") =>
    LET start == IF input.mode = "work tree" THEN input.head ELSE input.base
        end == IF input.mode = "range" THEN input.head ELSE input.tree
        steps == IF input.mode = "work tree" THEN {<<input.head, TrackedTree(input)>>}
                 ELSE {<<input.base, input.head>>, <<input.head, input.index>>,
                       <<input.index, TrackedTree(input)>>}
    IN \A f \in DOMAIN input.tree :
         start[f] # end[f] =>
           \/ f \in answer
           \/ \E s \in steps : f \in MovedAway(s[1], s[2])
           \/ input.mode # "work tree" /\ \E s \in steps : f \in Retyped(s[1], s[2])
=============================================================================
