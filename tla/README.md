# CellFence in TLA+

CellFence divides a TypeScript/Python repository into *cells* (owned paths plus a public entry),
checks the code against what the cells declare, and lets several coding agents work on one
repository at once. It makes two kinds of promise. Some are about *order and concurrency*: two
agents do not hold conflicting claims, a claim that was confirmed is not lost, an accepted baseline
only shrinks unless it is reviewed, a pull request that changes the baseline does not pass without
an owner's approval. The others are about *decisions*: an import, an access, a waiver or a document
is judged once, from what was read of the tree, and nothing that matters may fall through. The
modules here model both and check both with TLC; TLAPS proves the first kind, and of the second much of
what the checks of a repository promise. Paths below are
relative to the repository; `engine/` abbreviates `packages/engine/src/`.

1. [Inventory](#1-inventory) · 2. [Modules and the code](#2-modules-and-the-code) ·
3. [Runs](#3-runs-bounds-and-what-they-show) · 4. [Fairness](#4-fairness) ·
5. [Proofs](#5-proofs) · 6. [Findings and observations](#6-findings-and-observations) ·
7. [What is not modelled](#7-what-is-not-modelled) · 8. [Plan](#8-plan)

To repeat a run: `tlc -config <run>.cfg <module>`; to repeat the proofs: `tlapm <X>Proofs.tla`.

## 1. Inventory

| Component | Code | State it keeps | What makes it correct |
|---|---|---|---|
| Claims | `engine/claims.ts` | the claim store (through a backend) | conflicting leases never overlap; a write is allowed only to the one agent that covers the file; claims are never replaced |
| Claim-store lock | `engine/claims.ts` 298-480 | a lock file, reclaim-token files | one holder; a live holder is never robbed; what a dead one left is recovered |
| Backends | `engine/claims/backends/`, `selector.ts` | a JSON file with a write lock; a Redis key with a leased lock key | no confirmed claim is lost; a loser hears of a conflict |
| MCP proxy | `packages/mcp-proxy` | audit log, calls under way | no call is forwarded that was refused; what reaches a file was allowed under a lease |
| Baseline commands | `packages/cli/src/index.ts`, `engine/baseline*.ts` | the baseline file with its seal | on a locked cell nothing grows without a review; a seal vouches for what was reviewed |
| Baseline gate | `packages/github-action-baseline-gate` | label, sticky comment, check of a pull request | a revision with a baseline change passes only on an owner's approval of *that* revision |
| Change detector, coverage, workflow controls, prune | `engine/baseline-change-detector.ts`, `workflow-controls.ts`, `packages/cli/src/` | none | every growth, every open finding, every control is reported |
| Repository check | `engine/index.ts`, `graph.ts`, `context.ts` | none | an import or access has one verdict however it is written; a finding goes only where it was waived |
| Waivers, evidence, records | `engine/waivers.ts`, `engine/governance` | signed JSON records | fail closed; what was cut or turned does not verify |
| Changed check | `engine/index.ts` 1990-2200, `changed-cache.ts` | a cache of base results | a cached result hides nothing; the snapshot decides |
| Path patterns, ownership | `engine/glob.ts`, `glob-overlap.ts`, `file-index.ts` | none | overlap and containment are what matching says |
| Source analysis | `engine/module-resolution.ts`, `resource-access.ts` | none | what a file requires, sends and opens is seen or said to be unknown |
| Python analysis | `engine/python-*.ts` | a batch, an attempt budget | every file gets its own answer; what Python does is what is seen |
| Evidence sources | `packages/trace`, `adapter-*` | evidence files | "active" means complete; what is written is accepted when read |
| Manifest inference, presets, service import | `engine/manifest-inference.ts`, `advanced-governance.ts` | none | what is written stands up to the checks |
| Documents | `packages/schema` | none | what is accepted has its declared type and its references resolve |
| Command line | `packages/cli/src/` | files of init and install | no file is written over; the exit code and every report agree |
| Plugins | `packages/plugin-*` | none | a failing plugin is seen; no change over budget, no reached cell is missed |
| Precision claims | `scripts/precision-*.mjs`, `corpus-precision-claim.mjs`, `corpus-evidence-bundle.mjs` | bundles, worklists, label files | a claim passes only over findings that two raters labelled blind from sealed worklists |
| Other scripts | `scripts/` | records of experiments | – |

**How they interact.** Every `claim` command is a process of its own. It takes the claim-store
lock (a file; or a Redis lease), reads the store, decides, writes *conditionally on what it read*,
and releases. Processes share nothing but the store and the lock; they may be killed at any system
call, and each reads its own clock. `checkWriteAccess`, which the MCP proxy calls before it
forwards a write, reads the same store without the lock. The baseline commands share the working
tree, the manifest and the baseline file with editors and with each other, and do not lock: what a
command has read may be gone when it writes. The
gate Action runs once per pull-request event on a fresh machine; runs share the pull request
(label, comments, reviews, file list, head) through the GitHub API with other runs, with authors
and with reviewers. A check, in contrast, is one pass: it reads the tree, the manifest, the
baseline and the attestations once, and everything after that is a function of what was read.

**What is hard here.** In the first group: interleavings (two creates; two recoverers of one stale
lock; two workflow runs), kills between any two file operations, leases that end while their holder
works, commands to a server that fail done or not, clocks that differ, a pull request that moves while it is looked at, legal
sequences of baseline commands and hand edits that add up to an unreviewed growth. In the second:
two parts of the program that read the same thing differently (matcher and automaton; guard and
sweep; writer and verifier; scanner and language), orders of statements or options nobody wrote a
test for, and paths on which a finding can get lost. `PROJECT.json` lists each such hazard with its
line and the property that would catch it going wrong.

## 2. Modules and the code

```
ClaimLedger  (abstract: append, acknowledge)      ClaimMutex (abstract: take, give up, take from a dead owner)
   ^  implemented by      ^                           ^ implemented by
LocalFileStore        RedisStore                   ClaimLock
   |   a process's write, in file or server steps      |  the lock around it, in file steps
   +---- ClaimLeases: what the claims mean; its Commit is one step of the ledger
            ^
         McpProxy = ClaimLeases + ToolPolicy: calls, audit lines and writes among the claim commands
BaselineRatchet (commands, edits, keys)           BaselineGate (runs, pushes, reviews)

Cases: one decision per behaviour
  ^                                             ^
Policies = ModuleResolution SourceScans       Checks = ImportBoundary ResourcePolicy Territory
  ResourceCalls PythonAnalysis                  ClaimCommands CheckVerdict EvidenceRecords
                                                ManifestSchema TraceEvidence AdvancedGovernance
                                                CommandLine GovernanceReports BundledPlugins
                                                PrecisionClaims ToolPolicy ProxyArgs
                                                (Territory and ClaimCommands use PathGlobs)
```

### Concurrent parts

**ClaimLedger, ClaimMutex** are the abstract specifications: a store that only ever grows by one
claim and acknowledges only stored claims; a lock that is free or owned, and is taken away only
from a process that has died.

**LocalFileStore** (local-file.ts with the part of `createClaim` around it). A process stands for
its claim, so the file is a set of processes and `base[p]` is what p read. Actions are the file
operations: open the direct write lock with `wx`, write the pid into it, read and compare, rename,
unlink, and `recoverStaleDirectWriteLock` with its look and its removal as two steps. `Serialized`
says whether the caller holds the claim-store lock (as `createClaim` does) or uses the exported
backend on its own. `Foreign` are processes that cannot be probed (of another user: `EPERM`), which
`processIsAlive` takes for dead. `MayDie` are the processes that may be killed at any step; `Prompt` says that
a live process never stays inside the write lock until it counts as stale.

**ClaimLock** (claims.ts). `files` maps a *path* to a file; a path is the sequence of contents in
its name, because a reclaim token is named by a digest of the stale content it is for, and tokens
have tokens up to `CLAIM_LOCK_RECLAIM_MAX_DEPTH`. `Create`, `WriteText`, `Stat`, `Read`, `Reread`,
`Unlink` are single system calls, so a kill or another process fits between any two. A file is
`old` once its mtime is thirty seconds back; `Prompt` says that one pass takes less. Processes in
`Elsewhere` run on another host, whose locks cannot be probed. The five-second deadline is in
`Leave`: the caller may come back.

**RedisStore** (redis.ts). Every command to the server is a step, and any of them may fail, before
or after the server has done it: `SET NX PX` with the second try of `redisSetNxPx` (if that fails
too, the lock is not to be had), `GET` of a read (reported as a store that cannot be read), `WATCH`,
`GET`, `EXEC` with `maxCasRetries` (an error is thrown: the outcome is "unknown"), and the Lua
release, which is tried twice and whose error replaces the result. `Expire` ends a lease at any
moment. `Retry`, a create that was refused and is run again, is the caller's and no part of the code.

**ClaimLeases** (claims.ts). A claim is an agent, a surface, two times and an id. `Prepare` is
`prepareClaimCreate`, `Commit` the compare-and-write with `nextClaims`, `Allow` is
`evaluateWriteAccess` when it allows. `Reading` is what a process may see on its clock now: the
true time give or take `MaxSkew`, chosen anew at every reading. A surface abstracts cells, paths,
symbols, resources and lanes of a claim; `Overlap` stands for `claimConflictSurfaces` and `Covers`
for `claimCoversFile`. What is assumed of them is `LeaseAssumption`: overlap is symmetric, and two
surfaces that cover a common file overlap; that this is so is what `SharedFileConflicts` of
ClaimCommands says, and `OverlapsAreMutual` and `ClaimsAlwaysGuardFiles` prove it of every pattern and
claim. The ids are modelled because `nextClaims` filters by id and the conflict test skips equal ids.

**McpProxy** puts tool calls beside the claim commands. A call is received; decided at once, or
after the claim store has been read, where a call may name several files and each needs a lease of
its own; its audit line is due or not by the size of the log (`LineIsDue`) and appended in a later
step (`AppendLine`), for proxies may share a log; it is refused or sent, and what was sent lands at
the server whenever the server gets to it. A proxy may be killed anywhere before that, and the log
may be full, out of reach or failing: the call then goes on without a line. The decision itself is
**ToolPolicy**.

**BaselineRatchet** (cli, baseline.ts, baseline-ratchet.ts, baseline-seal.ts,
external-dependencies.ts). One cell; `tree` is what the checker observes of it, `file` the baseline
with its seal, `run` the commands at work, each with what it has read or computed so far: create
finds no file and writes later, update computes, reads the locked flag and then the file for its guard,
and writes later, sign reads and writes later. Nothing locks, so every other step fits in between.
`kept` are files as they once were, in git or elsewhere; `PutBack` restores one, and since a seal
has no date it verifies as before. Items are compared by inclusion, ownership by coverage *and* by
number of patterns, the entry by equality, numbers by size. `Unrecorded` is what an older baseline,
which has the counts only, holds of a field; such a field is not compared. `SealWith` and `Verifier` are the
two (different) rules by which the signing and the verifying key are chosen. `reviewed` is a
history variable: the records that were created or signed, or accepted by an update of an unlocked cell. `green`
says a check has passed on the tree and the file as they are.

**BaselineGate** (gate index.ts). `pc[n]` walks through `runAction` call by call. A revision's
content (`governed`, `mixed`) is fixed when it is made; `head` moves under the runs. The file list
is of the *pull request*, not of a revision, which is why the code looks at the revision before
and after it, and so does the model.

### Decisions

A part that is a function of what it read has no interleavings to explore, and still has an input
space that no test exhausts. Its module states the function, case by case as the code has it, and
**Cases** turns it into a state machine of one step: `Take(c, decision(c))` fixes the case and the
answer. A property then relates the answer to something else: to another decision that must agree
(guard and sweep, writer and reader, engine and verifier), to the same decision on a changed case
(another spelling, one more finding, an adapter switched off), or to a reference definition of what
the part is for (the files a pattern matches, what Node or Python would do with the same text, what
a program requires when it is run). Topics that belong together share the run of **Policies** (what
the engine reads) or of **Checks** (what it makes of it), and the properties of related topics are
conjoined under one name there; the comment at each conjunct says what it is about.

| Module | Code | What is decided |
|---|---|---|
| ToolPolicy, ProxyArgs | `packages/mcp-proxy` | the options of a proxy from environment, files and command line; which call is forwarded, refused, or only noted |
| PathGlobs | `engine/glob.ts`, `glob-overlap.ts`, `file-index.ts` | the matcher character by character, the automata with their edges, the walk that lists files |
| ClaimCommands | `engine/claims.ts`, `selector.ts`, backends | which claims are valid, conflict, cover a file; write access and the sweep; the four commands, synchronous and not, over each kind of backend; the path a write is judged by; expiry; the files a sweep looks at |
| ModuleResolution | `engine/module-resolution.ts` | exports and imports maps, aliases, candidate files, public symbols, the signature of a surface |
| SourceScans | `engine/module-resolution.ts`, `resource-access.ts` | what a program requires, through scopes, aliases, createRequire; requires behind a guard of a constant set; the texts a name may stand for; the fs function a call reaches |
| ResourceCalls | `engine/resource-access.ts` | the tables of an SQL text; the accesses of one call by each adapter |
| PythonAnalysis | `engine/python-*.ts`, `module-resolution.ts` | batches with timeouts and halving; imports, surfaces, routes, models, SQL; resolution |
| ImportBoundary | `engine/index.ts`, `graph.ts`, `context.ts`, `import-policy.ts` | the verdict on an import by every way it can be written; graph, allocation and context |
| ResourcePolicy | `engine/index.ts`, `resource-evidence.ts`, `external-dependencies.ts` | accesses from source, adapters and evidence; plugins that fail; packages |
| Territory | `engine/index.ts`, `file-index.ts`, `manifest-inference.ts`, `init-presets.ts` | ownership, coverage, links, public files, dead patterns; the manifest of a tree that has none |
| CheckVerdict | `engine/index.ts`, `waivers.ts`, `governance/`, `changed-cache.ts` | severities, directives with their attestations, the evidence and its defects, the exit code; a changed check with its base, cache, new findings, moved files |
| EvidenceRecords | `governance/evidence-graph.ts`, `acceptance-record.ts`, two scripts | the graph and the record a check leaves, and the two verifiers |
| ManifestSchema | `packages/schema` | manifest, baseline and evidence as JSON values |
| TraceEvidence | `packages/trace`, `adapter-*` | what a traced process, spans and patterns become |
| AdvancedGovernance | `engine/advanced-governance.ts` | service import, commit evidence, path classes, tasks, document stamps, mutation reports |
| CommandLine | `packages/cli/src/index.ts`, `check-output.ts` | arguments, outputs, init, install, doctor, waiver requests, the MCP server |
| GovernanceReports | `baseline-change-detector.ts`, `baseline-gate-*.ts`, `coverage-*.ts`, `workflow-controls.ts`, the gate's CODEOWNERS | the gate's diff, coverage, workflow controls, prune, the owners of the baseline |
| BundledPlugins | `packages/plugin-*` | budget, reach, new dependencies, momentum, documented entries |
| PrecisionClaims | `scripts/precision-*.mjs`, `corpus-precision-claim.mjs`, `corpus-evidence-bundle.mjs` | the sample of a bundle, worklists and their verifier, the protocol with its digests, the claim, the readiness of labels, labels that move to another bundle |

**MC modules** hold the values a cfg cannot write: relations, functions and the sets of cases.

## 3. Runs, bounds and what they show

| Run | Instance | Distinct states | Shows |
|---|---|---|---|
| LocalFileStore_serialized | 3 writers, 2 may die anywhere, writes may be slow | 7 276 | `ImplementsLedger`, `NoLeakedWriteLock`, `EventuallyStored`, `TypeOK` |
| LocalFileStore_recovery | 3 writers without the outer lock, one may die | – | violation of `NoSilentLostUpdate` (finding 1) |
| ClaimLock_recovery | 3 processes, two of them on a second host, tokens of tokens, 2 may die | 28 448 | `ImplementsMutex`, `LiveLockStays`, `LeftLockRecovered` |
| ClaimLock_stalled | 2 processes, nobody dies, one may stall | – | violation of `OneHolder` (finding 2) |
| RedisStore_cas | 3 processes, 2 attempts, 2 failing commands, leases end any time | 193 613 | `LeaseExclusive`, `RefusedIsNotStored`, `ImplementsLedger`, `EventuallySettled` |
| ClaimLeases_leases | 2 agents, a cell and a path in it, skew 1, time to 2, 2 claims | 1.5 M | `LeasesDisjoint`, `NoLastingLockout`, `ClaimsKept`, `HandoffForward` |
| McpProxy_calls | 2 agents, 2 files, a write tool called with one or both, a read tool, an unknown tool, a shared log of one line | 483 k | `WritesUnderLease`, `AuditLogBounded`, `TimelyWritesInOrder` |
| BaselineGate_runs | 2 runs that overlap or follow each other, 2 owners, 2 revisions, failing calls | 770 k | `PassedMeansApproved`, `PassedMeansSeparate`, `SettlesInOrder`, `ApprovalUnblocks` |
| BaselineGate_stale | 2 overlapping runs, no failure | – | violation of `LabelSettles` (finding 3) |
| BaselineRatchet_review | a narrow and a wide tree, a baseline of an older version, 4 environments, 1 command at work, 1 file kept | 737 k | `SealedIsReviewed`, `GreenIsReviewed`, `UpdateSettles` |
| Policies_cases | all cases of 17 topics | 128 k | three groups of properties, below |
| Checks_cases | all cases of 52 topics | 150 k | twelve groups of properties, below |

**Why the bounds are enough to be interesting.** Three writers are one dead, one fast and one slow
recoverer, which is what a recovery race takes (the recovery violation needs exactly that). Depth 2
with two mortal processes reaches "the recoverer of the recoverer died". Two Redis attempts let a
transaction fail once and the retry be compared with what was first read; two failing commands are
a `SET` and its second try, or a release and its second try. Two claims, two agents
and times that straddle an expiry by the skew are the least in which a lease is handed over too
early; lifetimes `{-1, 1}` include a claim that is expired when it is made, and the id `i1` may be
asked for twice. In the proxy run the same leases end while a call is on its way to the server, and the second of two
files may be covered by another claim than the first, or by none. Two
revisions and two runs put a stale run beside a newer one. In the ratchet the
ownership sets `{all}` and `{part}` count the same and differ in coverage; one command at work at a
time still leaves every edit, put-back and check between its reads and its write. Two commands that
overlap are left to the proofs, which hold for any number of them and of kept files. Every bound is a
named constant: `MaxDepth` and `MaxCasRetries` are the code's own limits, `MaxTime`, `MaxClaims`,
`MaxLost`, `MaxLog`, `MaxKept`, `MaxRevision`, `MaxReviews` belong to the model. Where a theorem exists, the
bounds no longer matter for safety (section 5).

**The groups of Policies_cases.** `ResolutionIsFaithful`: what the tools
resolve is what Node's own algorithm, written down on its own (`NodeTarget`: the best pattern, its
target by conditions and lists, and nothing if there is none), resolves, of the maps that both are meant to
read alike (`ReadAlike`; the rest is in section 6), what Node refuses is private here, and every change of a surface shows in its signature, no private one does. `ScansMissNothing`: programs of a few statements are run, and what they require,
hold, send and open, SQL included, is compared with what the scan says. `PythonIsRead` does the same
for Python.

**The groups of Checks_cases.** `BoundariesHold`: the way an import is written does not matter,
silence means it was allowed, and what agents are told beforehand agrees with the check.
`ResourcesAreGoverned`: an access has one verdict whatever made it known, evidence counts for its
tree, failing plugins are seen, claimed packages stay put. `TerritoryIsSound`: the automata see every
file that patterns share, over paths of up to four segments, so that a file has one cell, links
included, and every owned file is listed. `PatternOverlapsAreReal`: an overlap is that of some file.
`ClaimsGuardFiles`: claims of one file conflict, two agents never have leave for one file, guard and
sweep agree. `ClaimCommandsAreTrue`: the commands keep the store and say truly what they did in both
forms, a write is judged by the file it reaches, claims run out, changed files are looked at.
`GreenIsEarned`: what a waiver suppresses was attested, an attested waiver settles
what it aims at and no more, green means everything was read, a cached base hides nothing and the
snapshot of a change decides. `RecordsStand`: the evidence of a check verifies, and what was cut
from it or turned does not; and a claim of precision is earned, from the balanced sample over worklists
that verify to labels that keep their verdicts when they move. `DocumentsAreTyped`: what a validator accepts has its type.
`DocumentsAreSound`: what one part writes another accepts, references lead somewhere, traces and spans
tell what happened or say that they do not. `ProxyDecides`: hidden tools are refused, a dry run foretells
enforcement, the last declaration of a tool counts, leniency must be named. `ToolsTellTheTruth`: 26 local decisions of the tools around the
check (each a conjunct with its own comment; the mutant is of one of them), from import and inference over install and the command line to the gate's diff, coverage,
workflow controls, dead declarations, code owners and the bundled plugins.

A set of cases is built from the distinctions the code makes: for each condition one case on either
side, in combination with those it is tested together with. Numbers are small and straddle the
limits they are compared with; names are two or three, so that "the same" and "another" both occur;
programs and texts have the least number of statements in which the hazard can happen, usually two
to four. The cases of a precision claim have at most twenty findings of ten repositories and small
fractions (one half, three quarters), since the binomial tail is compared exactly, in integers that have
to fit 32 bits.

`CHECK_DEADLOCK FALSE` is set where the system does stop: all creates are done, the clock bound is
reached, no revision is left to push, everybody is dead, or the one decision has been taken. No
symmetry is declared: some runs check liveness and the others are small enough without.

Each property of a passing run has a mutant in `PROJECT.json`, a plausible bug of the mapped code
(a lock opened with `w` for `wx`, a release without a look at its token, an approval that counts
for every revision, an update that skips the seal), under which TLC finds the property violated;
for a group it is one of one of its conjuncts. The mutant operators stand in the modules just before
what they would replace, marked "Mutant:"; no action uses them.

## 4. Fairness

Safety is checked and proved without any. For liveness:

- *A process that is neither dead nor finished goes on* (`WF_vars(Step(p))`): the operating system
  schedules it, and none of the modelled calls blocks. A killed process has no steps enabled.
- *Callers try again*, in the local-file runs and in that of Redis, whose backend says "conflict" and
  leaves it there. The refusals say so ("reread and retry"; a lock timeout is an error of the
  command, not of the store); the retry is no code of the repository. Without it, `LeftLockRecovered` and `EventuallyStored` would be
  false: five seconds of waiting are less than the thirty a lock takes to become stale.
- *Time passes* (`WF` on `Age` and `Expire`): files get older, Redis leases end.
- *GitHub starts a run per event and runs it; somebody re-runs the failed job*. The documented
  workflow listens to `pull_request` only, so an approval starts no run by itself; `ApprovalUnblocks`
  says that approval plus a re-run is enough, not that approval alone is.

No strong fairness is used anywhere. The proxy and the decisions have no liveness properties: when
the server gets to a call is not up to the code here, and a decision is one step.

## 5. Proofs

All proofs are checked by TLAPS to the last leaf, for every value of the constants that satisfies
the named assumptions of the module.

| Theorem | Module | States |
|---|---|---|
| `TypeCorrect`, `WriteLockNotLeaked` | LocalFileStoreProofs | the type invariant; no write lock without a living holder or a recoverer |
| `SerializedIsLedger` | LocalFileStoreProofs | under the claim-store lock, `Spec => ImplementsLedger`, whoever dies |
| `NothingIsLost` | LocalFileStoreProofs | under the claim-store lock no claim that was confirmed is ever missing from the file: `NoSilentLostUpdate`, which the backend on its own violates (finding 1) |
| `OneHolderAtMost`, `LiveLocksStay`, `LockIsMutex`, `TokensAreInUse` | ClaimLockProofs | under `Prompt`: one holder, no live holder is robbed, `ImplementsMutex`, every token belongs to a recovery under way or left behind |
| `LeaseIsExclusive`, `RefusalsAreHonest` | RedisStoreProofs | the two invariants of the Redis backend |
| `RedisIsLedger` | RedisStoreProofs | `Spec => ImplementsLedger`, whatever runs out or fails, done or not |
| `LeasesAreDisjoint`, `LockoutPasses` | McpProxyProofs | the two lease invariants |
| `ClaimsAreKept`, `AuthorityMovesForward` | McpProxyProofs | the two action properties |
| `ProxyIsLeases` | McpProxyProofs | the system with proxies implements the claim leases |
| `WritesAreLeased`, `LogStaysBounded`, `WritesInOrder` | McpProxyProofs | every file of a call that was sent is under a lease of its agent; a shared log outgrows its limit by less than a line per proxy; the action property |
| `SealsAreReviewed`, `GreenTreesAreReviewed`, `UpdatesSettle`, `RatchetTypes` | BaselineRatchetProofs | the ratchet's invariants and its action property, for any number of overlapping commands and any files put back |
| `PassesAreApproved`, `PassesAreSeparate`, `RunsInOrderSettle`, `GateTypes` | BaselineGateProofs | the gate's invariants, for any number of runs |
| `BoundariesAlwaysHold`, `ResourcesAlwaysGoverned` | ChecksProofs | the groups on imports and on resources, plugins and packages |
| `DocumentsAlwaysTyped` | ChecksProofs | every accepted document has its type at every depth |
| `GreenIsAlwaysEarned` | ChecksProofs | the group on waivers, green checks and changed checks |
| `SharesAreSeen`, `SharedOwnershipIsSeen` | ChecksLemmas | a file that two patterns match, or two owned paths own, makes them overlap |
| `OverlapsAreMutual` | ChecksLemmas | whether two patterns overlap does not depend on their order |
| `CoverageContains`, `CoveredFilesAreOwned` | ChecksLemmas | a pattern taken for covered matches no file outside its cover |
| `OwnedIsListed` | ChecksLemmas | the walk over the tree reaches every owned file outside the ignored directories |
| `TerritoryIsAlwaysSound`, `ClaimsAlwaysGuardFiles` | ChecksProofs | the groups on territory and on claims |
| `ClaimCommandsAreAlwaysTrue` | ChecksProofs | the group on the claim commands, write paths, durations and the claim check |
| `RecordsAlwaysVerify`, `CutsAreAlwaysSeen`, `RecordsAreNeverTurned` | ChecksProofs | three parts of `RecordsStand`: the graph of a check has no defect, what is cut out of it is missed, a blocked record cannot be made to allow |
| `SamplesAreAlwaysBalanced`, `WorklistsAlwaysVerify`, `LabelsAlwaysKeepVerdicts` | ChecksProofs | three more: the sample, the worklists made of it, and labels that move to another bundle |
| `PassingClaimsAreAlwaysEarned`, `ReadinessAlwaysAgrees`, `BindingAlwaysSettles` | ChecksProofs | the last three: what a passing claim of precision rests on, that preflight and claim agree, that binding changes nothing but the digests |
| `RecordsAlwaysStand` | ChecksProofs | `RecordsStand`, the whole group |
| `DocumentsAlwaysSound` | ChecksProofs | the group on accepted manifests, traces, spans and calls by pattern |
| `ProxyAlwaysDecides` | ChecksProofs | the group on the decisions and the options of the proxy |

**SerializedIsLedger.** The refinement maps the file to `stored` and the confirmed creates to
`acknowledged`. A rename writes `base[p] ∪ {p}`, which is an append only if `base[p]` is still what
the file holds. That is the inductive invariant: `Serial` (only the holder of the claim-store lock
is inside, and a dead holder stays holder until it is recovered), `BaseCurrent` (whoever is past
its comparison has the file's content as its base), `Stored` and `Confirmed` (a process past its
rename, or told ok, is in the file). Only the assumption `Serialized` is used: the direct write lock
is not needed for it, which is why the recovery race of finding 1 does no harm under `createClaim`.

**RedisIsLedger.** The same refinement, with another argument. `WatchHolds` (while a WATCH is whole,
the base of a process that compared equal is what is stored) makes a successful EXEC an append;
`Untold` (nothing is told before the reply to EXEC) keeps a stored claim from being refused or
stored twice. The lease does not occur in it: it saves retries, the WATCH keeps claims.

**The claim-store lock.** `OneHolder` is not inductive by far: a recoverer decides on a file it has
read and unlinks it later, and a token of a dead recoverer is recovered in the same way, at any
depth. Under `Prompt` a live process never sees a file of its own pass grow old, so an old file is a
dead process's unless it is a held lock, which bears its pid. `IInv` says of each place in a recovery
what the process knows: whose the file at its path is, that it was there before the pass began,
that the token for its content is the process's own and that nobody else can unlink the file until
it does, since a token is for one content of one path. The same invariant maps every step to one of
ClaimMutex. Without `Prompt` the theorem is false, and the run `ClaimLock_stalled` shows why.

**The proxy.** `StepIsLeaseStep` shows that each step of the composed system is a step of ClaimLeases
or leaves it alone, so `IInv` of the leases holds there too. `ProxyInv` adds that under enforcement
every call that waits for its audit line or is on its way to the server is `Backed`: *each* of the
files it names is covered by a lease of its sender that the store holds. That is established where
`checkWriteAccess` has answered for all of them, which may take several claims, and kept because claims are only
added. A write that lands was sent, hence leased; `WritesInOrder` then follows from
`AuthorityMovesForward`'s invariant. For the log the invariant counts ahead: the lines there are and
the appends under way together stay below the limit and one for each proxy (`LogFits`), since an
append is begun only where the log is below its limit.

**Gate.** `Safe` adds to the two properties what a run knows at each point: `ListedOwn` (once the
revision is found unchanged after the file list, the list was that revision's, because `head` only
grows), `SeparateBeyond` (past the report of a mixed pull request the revision is not mixed),
`SaysWhatIs` (a status "approved" or "resolved" is true of the run's revision, and stays so: what a
revision changes is fixed and reviews are only added) and `Pushed`. `ConcludeStep` is the one place
where a check can turn green. `RunsInOrderSettle` needs a second invariant, `Orderly`, of runs that do
not overlap and do not fail: what the only run has already seen to at each place (label, comments),
and that what is shown is about the current revision once its check is there.

**Leases.** `LeasesDisjoint` alone is not inductive. `ReadsStay` (what was read is still stored),
`PreparedFits` (a prepared claim is disjoint in time from everything its process read) and the
compare-and-write give it. `NotFromTheFuture` bounds creation times by the clock plus the skew,
and `GrantsBacked` says that a recorded grant is a stored claim that was active by a clock within
the skew; with disjointness they bound how far authority can step back.

**Ratchet.** `IInv` says of every place where a baseline may come from what may be trusted of it. A
file is `Trusted` if its seal is broken or missing or what it holds `StaysReviewed`: it was reviewed, or lies
within a record that was. `SealedIsReviewed` says so of the file, `KeptIsTrusted` of every file put
aside, `ReadIsTrusted` of what a command has read to sign or to guard by, and `GuardedIsReviewed` of what an update
that has passed its guard is about to write, with `LockedPresent` and `GreenIsReviewed` beside them. So the
time between a read and a write does no harm, and neither does an older file: it stands for an older review,
which is all that a seal without a date can say, and all that the theorem claims. The step that matters is the
guard of an update on a locked cell: it gives `Within(next, rec)` for the file it has read, the valid
seal gives that rec is within a reviewed record, and transitivity chains them, across fields that an older baseline
does not record. Its lemmas are proved from `RatchetAssumption`: coverage is reflexive and
transitive on the pattern sets in use; what that stands on is `CoverageContains` of ChecksLemmas.
`DistinctAssumption` says that the marks for "absent" and "no file" are no records.
`UpdatesSettle` is an action property of the same invariant: the record that an update writes is the
tree it was made from, coverage is reflexive, and the key that signs is the key that verifies.

**Patterns.** The matcher and the automata read a pattern in different ways: the one fills a table
over the segments of a path and, in a segment, over its characters; the other runs over the text of
the path with its slashes. Both are searches, and PathGlobs states them as one: `Reachable(moves,
seed)` is the least set that holds the seed and is closed under the moves (`ReachableFacts`; the
recursion ends because a set can only grow within the finite domain). What takes an induction over a
path or a pattern is then a statement about a set that is closed: a set that holds the positions up
to which two readings agree, and is closed under the next position, holds the last one. The facts on
normalization and collapsed "**" are taken from a least position where they fail, which `WFMin` of
the library provides. `MatchedIsAccepted` and `AcceptedIsMatched` say that what the matcher
matches the automaton of a pattern accepts and the reverse; two runs over one text, step by step, make a run
of the pair of automata (`SharesAreSeen`), and the states that a text leads to are those of the
subset construction (`WithinKeepsAccepted`), which is where `CoverageContains` comes from. That the
alphabet of two patterns with one letter for all others is enough is `ShownReads`. What is assumed
of the data is that paths and patterns are texts without "/" and without that letter (`IsPathText`),
and that a file is not the root (`NamesFile`).

**Territory and claims.** `OneOwner`: where the check reports no overlap, two cells that own a file
are one, since `SharedOwnershipIsSeen` would have made their patterns overlap; that a file has one
cell, that links stay in it and that public files are its own follow. `SharedConflicts` goes through
the four ways in which two claims, each by cell or by path, may cover one file. A create keeps the
store free of conflicts (`OneMoreClaim`) because conflict is mutual: the code compares each stored
claim with the new one, in that order only. `CanonicalIsReached` walks the path of a write twice, as
`canonicalizePotentialPath` does, `.` taken out first, and as the operating system does, and finds
both at one place after every part; what is missing stays missing below.

**Checks.** A decision is one step, so the inductive invariant is the same for all topics: `Decided`
says that an answer that was given is the answer of its operation on a case of its topic. What is
left is about the operations, for every case that the assumptions admit, and the lemmas say which
part of the code each property rests on. `TargetsAreFiles`: every way of resolving an import ends
with the same owner, lane and exclusion as the plain path. `PublicIsExported`: what a lookup calls
public the package exports. The lemmas `..IsTyped` go through the validators from the leaves to the
documents. `WaivedIsAttested` and `AttestationIsEntry`: a finding leaves the check only through an
entry that names its rule, file and line for this revision; `RequiredFails`: no severity and no waiver
takes a required rule away; `SourceObservations`: without defects every source file and family was
observed. `First` of a set of line numbers and the last override that applies are least and greatest
elements, whose existence is `WFMin` of the library on the naturals (`FirstIsFirst`, `LastExists`).

**Evidence and samples.** The verifier rebuilds from the ids of nodes and edges what the engine put
in, so the proof is about what those ids tell apart: `NodeById` (a node of a kind is one by its
subject) and `EdgeIsOne` (an edge is one by what it joins) make every reference of the graph lead
somewhere and every cut be missed. `FindingIsBacked` goes through the rules that the policy profiles look at and finds
for each the fact in the graph that it needs; `AllowIsContradicted` says that a record which is
turned to ALLOW has a count or a witness that contradicts it. The sample is drawn by a loop that takes away one
finding of the heaviest repository at a time: `RemovedIsHeaviest` and `RoundLeaves` are its invariant,
and it ends because the sample gets smaller (`BalancedIsEven`). A worklist is taken by its verifier
(`MadeIsTaken`) because its entries are told apart by their paths (`EntriesApart`) and each blank row
says what its template says. Labels that move are rebound to the finding with the same content
(`ReboundKeeps`) or written anew as blank rows (`WrittenAnew`).

**Claims of precision.** `FinalLabel` says what a final label stands for: two rows, one of each blind
round and each of another rater (`BlindPair`), and either one verdict or a row that settles it.
`EveryRowAssigned` follows each row through the verifier of its worklist to a seal that the protocol
names, so a row says what that worklist's template says. `PassCounts` compares two counts: the
claim counts rows, the property counts findings, and the pairs of a finding and its final label
are a bijection between them. The attempt to prove the property found its first form wrong: it also
counted blind verdicts that an adjudication had overruled, which the code rightly does not.
`BoundKeeps` and `ReadsAnew` show that the digests that binding writes are the only ones that the protocol
is read with, wherever it had others (in the claim, at the top or in the labeling plan, one or a list);
the proof needs that no digest given is empty, and a SHA-256 never is.

**The proxy's options.** The options are what a loop over the command line leaves, so the proof needs to
know what holds after every token: `ParserHolds`. The write tools at hand agree with all declarations so
far about the *last* one for every name (`AgreeOn`: either both have none or both have that one), although
the code drops an earlier entry when it appends one of the same name, once per token or file; and a guard that
is lenient has its lenient word from the environment or from an option of its own name. `ReadSteps` says
that the loop is what its recursion says at every token. One attempt failed on the model: after `--`
an empty argument still leaves a downstream command, as the code has it, and the model now does.

**Documents and traces.** `UniqueInPlace` turns "as many values as places", which is how the validator
looks for duplicates, into "every value in one place", by the pigeonhole theorem of the library; with
it every name leads to one cell, and the records of `BaselineOf` are those of the cells
(`RecordIsValid`, `SealsAreValid`). A trace is a recursion over the events of a process, `TraceHolds`
its invariant: no more accesses than the cap are kept, one per key; what was noted before the flush
is kept unless the trace says that it is full; and what was written was written at the first flush, of what was
noted before it, and is accepted when it is read (`WrittenIsValid`). `FirstOfFour` and `FirstOfFive`
say which attribute of a span counts when several name the same thing.

**What is assumed of the data.** The assumptions say what the data is, and TLC evaluates them on the runs: `WorldsAssumption` (owners
of files and of packages are cells of the manifest), `PolicyAssumption` (what a case of accesses or
packages is made of), `DocumentsAssumption` (a document is a manifest, a baseline or evidence, lists come in
order, no cell id is blank, a date that the program writes is a date),
`VerdictAssumption` (findings have one of three severities and a cell of the manifest or none, lists
are finite, WAIVER_INVALID is among the core rules), `ChangeAssumption` (base and head are commits
with a tree, the work tree is none), `TerritoryAssumption`, `PatternAssumption`, `TreeAssumption` and
`ClaimAssumption` (patterns are texts, files are named below the root, a link is no plain file, what
is written is not the claim store), `ClaimCommandAssumption` (the four commands, the three ends of a
write), `WritePathAssumption` (the root is written without `.` and `..`, a path exists only below one
that does), `ExpiryAssumption` and `SweepAssumption` (amounts are numbers, the trees speak of the same
files), `PrecisionAssumption` (findings are finitely many, rows, worklists and digests come in order,
limits are numbers), `BindAssumption` (a protocol has its parts, no digest is empty), `LineAssumption` (a command
line is a sequence of tokens, options have their types) `TraceAssumption` (events come in order, the cap is
a positive number, a cell has a name), `RecordsAssumption` (what is found is what some
rule reports, no required rule is weakened, no waiver is invalid, a path has one role),
`SampleAssumption` (findings come in order and are told apart, limits are numbers), `WorklistAssumption`
and `TransferAssumption` (a bundle has finitely many findings, rows and options have their fields). `ProxyAssumption`
asks for finitely many processes and for a log limit that is a number.

**Only model-checked.** All liveness properties (`EventuallyStored`, `LeftLockRecovered`,
`EventuallySettled`, `ApprovalUnblocks`): fairness gets its meaning from `ENABLED`, for which the
prover has no rule. All of Policies, and of Checks the groups `PatternOverlapsAreReal` and
`ToolsTellTheTruth`. Two modules of Policies (ModuleResolution, PythonAnalysis)
declare RECURSIVE operators, which the SMT backend does not survive, and the scans are folds over
programs with an induction for each; that overlaps are real needs a path built from a run of the pair
of automata; the others are many small decisions, of which TLC covers the cases.

## 6. Findings and observations

Three runs end in a violation, each of something the repository says of itself:

1. *A lost update in the exported local-file backend* (`LocalFileStore_recovery`, code bug).
   `recoverStaleDirectWriteLock` decides on one look and removes whatever is at the path later. Of
   two recoverers of one stale lock the second removes the lock the first has just taken; both are
   then inside compare-and-write, and a confirmed claim disappears, where the header promises "a
   `CellFenceClaimCasConflict` rather than a silent lost update". `createClaim` is not affected
   (theorem `SerializedIsLedger`).
2. *A suspended creator loses the claim-store lock* (`ClaimLock_stalled`, divergence from
   CHANGELOG). The lock file is blank between its creation and the write of its pid; a blank file
   thirty seconds old counts as stale, so a process suspended there loses the lock while it lives.
3. *A stale gate run labels a newer revision* (`BaselineGate_stale`, divergence from
   docs/baseline-gate.md). `runAction` looks at the revision only around the file list; labelling
   and commenting come later, and the documented workflow has no concurrency group.

Writing a property down usually means finding where it stops. The comment at each property names
the cases it leaves out; the more noteworthy ones, part by part:

- *Claims and proxy.* An expired claim that names a cell which no longer exists denies every write.
  `claimConflictSurfaces` does not compare cells with cells for shared files. The synchronous create
  over a backend that answers with promises has called write when it refuses; a release that throws
  turns a create that wrote into an exception. An explicit `expiresAt` has no limit of 90 days and
  may be past. A write path is cleaned of `..` before links are followed, so that the path judged
  may differ from the one opened. In a range of commits the sweep does not see changes of type, and
  of a rename only the new name. The proxy's README says that unconfigured tools "remain allowed by
  default", the default is deny; and that each decision appends an event, which a full log drops.
- *Baseline and gate.* `baseline create` asks nothing about locked cells (the model counts a create
  as a review). An environment with an Ed25519 private key and an HMAC secret but no public key
  writes a baseline it then refuses. Overlapping first runs of the gate post two comments. Dropping
  an empty list (`externalDependencySet: []`) from a baseline loosens the ratchet and is no change
  to the detector. In CODEOWNERS a directory without its trailing slash does not cover its files, a
  directory without a leading slash covers them at the root only, a word of a comment behind the
  owners counts as an owner, and after an error on `.github/CODEOWNERS` a file of lower rank decides.
- *Check.* `src/*` is not taken to lie in `src/**`. A link to the root directory of a cell that owns
  `web/**` counts as leaving it. Severity `off` or a waiver of UNRESOLVED_IMPORT does not unblock a
  check (docs/waivers.md:23 uses that rule as its example), while `check --changed` ends with 0. One
  directive takes away one of several findings on its line. An evidence path that is a source file
  loses its import requirement. With a head ref and an absolute manifest path the cache is not used
  and the base is judged by the head's policy. docs/implementation-status.md:56 limits waivers to 30
  days, code and docs/rules.md to 90.
- *Evidence records.* A graph with an open UNRESOLVED_IMPORT, or with a private import in a file left
  open, fails its own verifier's policy check; a finding with an empty detail makes an invalid graph;
  a record without its digest passes the record verifier, whose usage asks for one.
- *Source analysis.* A function declared before `const r = require` that calls r is missed, as are
  `const a = readFile; a(...)`, the second table of a comma list, `replace into` and bracketed
  identifiers; `for update of t` and `extract(year from c)` give accesses that are none. A local
  constant is resolved to the outer one when an inner parameter shadows it. `copyFile(x, "name")`
  reports only the read, `createReadStream` with flag `w` a read. Where no condition of the best exports
  pattern is active, or its list is empty, the code goes on to a shorter pattern and may call public
  what Node refuses; a wildcard may stand for nothing; of a list it takes a target that does not begin with `./`,
  which Node passes over; `types` comes first wherever it is written. Types imported without `type` and inferred types are not in the
  signature; a set exported as `new Set(["a"])` counts as fixed although others may add to it.
- *Python.* Imports inside functions, `try` and `if TYPE_CHECKING` are not seen; a router included
  twice compounds its prefixes; deletions through a session or query are missed or read as reads; an
  inspection that failed is kept until the file changes; attempts are counted per batch.
- *Documents and tools.* Enumerations are compared with `String(value)`, so `kind: ["file"]` is
  accepted (the typing theorem counts a list of one allowed text as that text). A trace misses what
  happens after node first ran out of work and still says active.
  OpenTelemetry's `db.system=postgresql` is no known kind. A "Known-Gaps" section swallows trailers
  after it; merges, and commits beyond the hundredth, are not looked at. A task with a base ignores
  uncommitted edits. `--fail-under 95%` is ignored as no number. A report-only profile turns exit 2
  into 0 too. An orphan start marker followed by user text costs that text at the second install.
  Coverage is rounded to four digits before it is compared. Workflow controls miss job-level
  permissions, `permissions: write-all` on one line and list-form triggers; prune calls a symbol
  unused that is used by `require` or `import()`.
- *Precision claims.* `precision-label-worklist.mjs` writes worklists that the verifier refuses: a blind
  one over a bundle that has labels (`--allow-existing-labels`; diagnostic, by its own word), one for a
  rater whose name suggests a label, one whose protocol has an exclusion without a reason (the generator
  makes it `reason: null`, which the verifier does not take), one that settles labels whose type is given
  as `raterClass`. `minimumIndependentRaters` of three or more can never be met, since a finding has one row
  in each of two blind rounds; `requireAdjudicationForDisagreements` is read and not used: it always is.
- *Plugins.* agent-budget reads a plain owned directory as a name only where blast-radius expands it;
  dependency-sovereignty sees no new edge when only the target file came or changed its owner.

## 7. What is not modelled

Within the modelled parts:

- *Lock*: pids in use again by other processes, a short write of the lock text, reboots as
  distinct from other hosts; in the local-file backend the look at a write lock (`stat` and read) is
  one step. *Redis*: unreadable values; the server losing its memory; a command that a client sends
  again by itself.
- *Ratchet*: key rotation within an algorithm, torn writes of the baseline file (`writeFileSync`;
  a torn file does not parse and fails closed), a tree or a baseline that is edited while one command looks at it
  (an update sees one state of the tree, a check one of tree, manifest and file). Nothing can tell an older sealed
  baseline from the last one, so the properties speak of some reviewed record, never of the latest.
- *Gate*: the inputs `base-ref` and `head-ref` (the comparison may then be of refs that move; the
  model compares the revisions of the event), `require-separate-pr: false`, the comment modes other
  than the default, a call for a label or comment that fails after it has had its effect, a force-push back to an earlier SHA, a base branch that moves without a revision, the
  path filter of the workflow; reviews withdrawn after a green check.
- *Proxy*: JSON-RPC framing, the environment and the working directory of the server.
- *Check*: the texts of findings, the temporary worktree of the base (a tree is a tree of its commit;
  what a kill leaves behind is never read), profiles of severities.
- *Source analysis*: the reading of syntax. A program is the sequence of the statements that matter
  to the scan in question, as the TypeScript and Python parsers deliver them; what the emitter of
  declarations writes is one text per declaration.
- *Precision claims*: how a bundle is collected and written, its own sums, logs and copies, and the
  reports; a digest is a value that is equal where what was digested is.
- *Command line*: help and wording, the context files for agents, the lab scenarios.
- Digests and signatures are the values they are made of, compared by equality; dates are numbers of
  days; a text is a member of a small set unless its characters are what matters.

Not modelled at all: `governance/control-state.ts`, which no command calls; the economy-matrix
reporter, a formatter; the other research, benchmark and release scripts, offline experiments with
recorded data (of the scripts, the two verifiers and those for precision claims are modelled).

## 8. Plan

Done: the store and its lock, Redis, leases, the proxy on top of them, the gate, the ratchet; the
decisions of Policies and Checks; the theorems of section 5, the soundness of the pattern automata
among them. What is left:

1. A proof that overlaps are real: a pair of states reached by one text gives a path that both patterns match.
2. Proofs for the parts of Policies that can do without RECURSIVE operators (SourceScans, ResourceCalls).
