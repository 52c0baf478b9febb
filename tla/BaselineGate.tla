------------------------------ MODULE BaselineGate ------------------------------
(***************************************************************************)
(* The baseline governance gate Action (github-action-baseline-gate) on    *)
(* one pull request.  Authors push revisions, reviewers review them, and   *)
(* each revision starts a workflow run that talks to GitHub call by call:  *)
(* other runs, pushes and reviews come between any two calls.              *)
(*                                                                         *)
(* A revision is a pair of base and head SHA.  What it changes is fixed    *)
(* when it is made: governed (the two baselines differ) and mixed (the     *)
(* pull request touches the baseline file and implementation files).       *)
(***************************************************************************)
EXTENDS Naturals, Sequences

CONSTANTS
  Run,           \* slots for workflow runs
  Reviewer, Owners,
  MaxRevision, MaxReviews,    \* bounds of the model
  Workflows      \* the settings it may run under, see below

ASSUME GateAssumption ==
  /\ Owners \subseteq Reviewer
  /\ MaxRevision \in Nat \ {0}
  /\ MaxReviews \in Nat
  /\ Workflows \subseteq [serial : BOOLEAN, failOnMixed : BOOLEAN, flaky : BOOLEAN]

Revision == 1..MaxRevision
ReviewState == {"APPROVED", "CHANGES_REQUESTED", "COMMENTED"}
Status == {"mixed", "resolved", "pending", "approved"}

VARIABLES
  workflow,          \* its setting, which stays
  governed, mixed,   \* what each revision changes
  head,              \* the current revision; those up to it have been pushed
  reviews,           \* in the order GitHub lists them
  label,             \* whether the governance-change label is on
  comments,          \* the bot's gate comments, oldest first
  check,             \* the check of each revision, which branch protection asks for
  pc, of,            \* per run: where it is, the revision of its event
  listedMixed,       \* per run: what the changed files showed
  status,            \* per run: what the comment it is about to write says
  previous           \* per run: the comment to update, or 0

pullRequest == <<workflow, governed, mixed, head, reviews>>
shown == <<label, comments>>
runs == <<pc, of, listedMixed, status, previous>>
vars == <<pullRequest, shown, check, runs>>

Serial == workflow.serial             \* a concurrency group: one run at a time
FailOnMixed == workflow.failOnMixed   \* the fail-on-mixed-pr input
Flaky == workflow.flaky               \* calls to GitHub may fail

Location == {"off", "assert", "list", "reassert", "mixed", "change", "unlabel",
             "label", "reviews", "find", "post", "end"}

TypeOK ==
  /\ workflow \in Workflows
  /\ governed \in [Revision -> BOOLEAN]
  /\ mixed \in [Revision -> BOOLEAN]
  /\ head \in Revision
  /\ reviews \in Seq([who : Reviewer, state : ReviewState, rev : Revision])
  /\ label \in BOOLEAN
  /\ comments \in Seq([status : Status, rev : Revision])
  /\ check \in [Revision -> {"none", "pending", "success", "failure", "error"}]
  /\ pc \in [Run -> Location]
  /\ of \in [Run -> Revision]
  /\ listedMixed \in [Run -> BOOLEAN]
  /\ status \in [Run -> Status]
  /\ previous \in [Run -> 0..Len(comments)]

Init ==
  /\ workflow \in Workflows
  /\ governed \in [Revision -> BOOLEAN]
  /\ mixed \in [Revision -> BOOLEAN]
  /\ head = 1
  /\ reviews = <<>>
  /\ label = FALSE
  /\ comments = <<>>
  /\ check = [r \in Revision |-> "none"]
  /\ pc = [n \in Run |-> "off"]
  /\ of = [n \in Run |-> 1]
  /\ listedMixed = [n \in Run |-> FALSE]
  /\ status = [n \in Run |-> "pending"]
  /\ previous = [n \in Run |-> 0]

Goto(n, there) == pc' = [pc EXCEPT ![n] = there]
Say(n, what) == status' = [status EXCEPT ![n] = what]

(* The job ends, and its slot is as new. *)
Conclude(n, result) ==
  /\ check' = [check EXCEPT ![of[n]] = result]
  /\ pc' = [pc EXCEPT ![n] = "off"]
  /\ of' = [of EXCEPT ![n] = 1]
  /\ listedMixed' = [listedMixed EXCEPT ![n] = FALSE]
  /\ status' = [status EXCEPT ![n] = "pending"]
  /\ previous' = [previous EXCEPT ![n] = 0]

-----------------------------------------------------------------------------
(* The outside: pushes, reviews, and GitHub starting the workflow. *)
Push(r) ==
  /\ r = head + 1
  /\ head' = r
  /\ UNCHANGED <<workflow, governed, mixed, reviews, shown, check, runs>>

Review(who, state) ==
  /\ Len(reviews) < MaxReviews
  /\ reviews' = Append(reviews, [who |-> who, state |-> state, rev |-> head])
  /\ UNCHANGED <<workflow, governed, mixed, head, shown, check, runs>>

Running == {n \in Run : pc[n] # "off"}

(* A run for the event of revision r, perhaps after later pushes, or the    *)
(* job of the current revision run again by hand after a failure.           *)
(* The comparison of the two baselines is local and on immutable SHAs: its  *)
(* result is governed[r], and no call is needed for it.                     *)
Start(n, r) ==
  /\ pc[n] = "off"
  /\ Serial => Running = {}
  /\ r <= head
  /\ \A m \in Running : of[m] # r
  /\ check[r] # "none" => r = head /\ check[r] # "success"
  /\ check' = [check EXCEPT ![r] = "pending"]
  /\ of' = [of EXCEPT ![n] = r]
  /\ Goto(n, "assert")
  /\ UNCHANGED <<pullRequest, shown, listedMixed, status, previous>>

-----------------------------------------------------------------------------
(* Mutant: the revision is not checked again after the files are listed. *)
AssertOnce(n, here, there) ==
  /\ pc[n] = here
  /\ IF here = "reassert" \/ head = of[n]
       THEN Goto(n, there) /\ UNCHANGED <<check, of, listedMixed, status, previous>>
       ELSE Conclude(n, "failure")
  /\ UNCHANGED <<pullRequest, shown>>

(* changedFilesTouchBaseline: the revision is checked, the files are listed *)
(* as they are now, and the revision is checked again.                      *)
AssertRevision(n, here, there) ==
  /\ pc[n] = here
  /\ IF head = of[n]
       THEN Goto(n, there) /\ UNCHANGED <<check, of, listedMixed, status, previous>>
       ELSE Conclude(n, "failure")
  /\ UNCHANGED <<pullRequest, shown>>

ListFiles(n) ==
  /\ pc[n] = "list"
  /\ listedMixed' = [listedMixed EXCEPT ![n] = mixed[head]]
  /\ Goto(n, "reassert")
  /\ UNCHANGED <<pullRequest, shown, check, of, status, previous>>

(* runAction: a mixed pull request is reported, and fails unless configured *)
(* otherwise.                                                               *)
ReportMixed(n) ==
  /\ pc[n] = "mixed"
  /\ IF listedMixed[n]
       THEN Say(n, "mixed") /\ Goto(n, "find")
       ELSE Goto(n, "change") /\ UNCHANGED status
  /\ UNCHANGED <<pullRequest, shown, check, of, listedMixed, previous>>

DecideChange(n) ==
  /\ pc[n] = "change"
  /\ IF governed[of[n]]
       THEN Goto(n, "label") /\ UNCHANGED status
       ELSE Say(n, "resolved") /\ Goto(n, "find")
  /\ UNCHANGED <<pullRequest, shown, check, of, listedMixed, previous>>

AddLabel(n) ==
  /\ pc[n] = "label"
  /\ label' = TRUE
  /\ Goto(n, "reviews")
  /\ UNCHANGED <<pullRequest, comments, check, of, listedMixed, status, previous>>

(* A failure to add the label is only a warning. *)
AddLabelFails(n) ==
  /\ Flaky
  /\ pc[n] = "label"
  /\ Goto(n, "reviews")
  /\ UNCHANGED <<pullRequest, shown, check, of, listedMixed, status, previous>>

(* Review i is the latest of its reviewer, comments included ... *)
Latest(i) == \A j \in (i + 1)..Len(reviews) : reviews[j].who # reviews[i].who

(* ... and approves revision r. *)
Approves(i, r) == Latest(i) /\ reviews[i].state = "APPROVED" /\ reviews[i].rev = r

(* Mutant: an approval counts for every later revision. *)
ApprovedAnyRevision(n) ==
  \E i \in 1..Len(reviews) :
    reviews[i].who \in Owners /\ Latest(i) /\ reviews[i].state = "APPROVED"

(* Mutant: every owner has to approve, not one of them. *)
ApprovedByAll(n) ==
  \A who \in Owners :
    \E i \in 1..Len(reviews) : reviews[i].who = who /\ Approves(i, of[n])

(* approveFromCodeowner *)
Approved(n) ==
  \E i \in 1..Len(reviews) : reviews[i].who \in Owners /\ Approves(i, of[n])

ReadReviews(n) ==
  /\ pc[n] = "reviews"
  /\ Say(n, IF Approved(n) THEN "approved" ELSE "pending")
  /\ Goto(n, "find")
  /\ UNCHANGED <<pullRequest, shown, check, of, listedMixed, previous>>

(* upsertStickyComment: look for the comment, then update or create one. *)
FindComment(n) ==
  /\ pc[n] = "find"
  /\ previous' = [previous EXCEPT ![n] = IF comments = <<>> THEN 0 ELSE 1]
  /\ Goto(n, "post")
  /\ UNCHANGED <<pullRequest, shown, check, of, listedMixed, status>>

(* Where runAction goes on after the comment. *)
AfterComment(n) ==
  CASE status[n] = "mixed" -> IF FailOnMixed THEN "end" ELSE "change"
    [] status[n] = "resolved" -> "unlabel"
    [] OTHER -> "end"

PostComment(n) ==
  LET comment == [status |-> status[n], rev |-> of[n]] IN
  /\ pc[n] = "post"
  /\ comments' = IF previous[n] = 0 THEN Append(comments, comment)
                 ELSE [comments EXCEPT ![previous[n]] = comment]
  /\ Goto(n, AfterComment(n))
  /\ UNCHANGED <<pullRequest, label, check, of, listedMixed, status, previous>>

(* Mutant: the label of a resolved change is left on. *)
KeepLabel(n) ==
  /\ pc[n] = "unlabel"
  /\ Goto(n, "end")
  /\ UNCHANGED <<pullRequest, shown, check, of, listedMixed, status, previous>>

RemoveLabel(n) ==
  /\ pc[n] = "unlabel"
  /\ label' = FALSE
  /\ Goto(n, "end")
  /\ UNCHANGED <<pullRequest, comments, check, of, listedMixed, status, previous>>

Finish(n) ==
  /\ pc[n] = "end"
  /\ Conclude(n, IF status[n] \in {"resolved", "approved"} THEN "success" ELSE "failure")
  /\ UNCHANGED <<pullRequest, shown>>

(* Any other call that fails ends the run through runAction().catch; so     *)
(* does creating the label's definition, before it is added.                *)
CallFails(n) ==
  /\ Flaky
  /\ pc[n] \notin {"off", "mixed", "change", "end"}
  /\ Conclude(n, "error")
  /\ UNCHANGED <<pullRequest, shown>>

Step(n) ==
  \/ AssertRevision(n, "assert", "list")
  \/ ListFiles(n)
  \/ AssertRevision(n, "reassert", "mixed")
  \/ ReportMixed(n) \/ DecideChange(n) \/ AddLabel(n) \/ AddLabelFails(n)
  \/ ReadReviews(n) \/ FindComment(n) \/ PostComment(n) \/ RemoveLabel(n)
  \/ Finish(n) \/ CallFails(n)

Next ==
  \/ \E r \in Revision : Push(r)
  \/ \E who \in Reviewer, state \in ReviewState : Review(who, state)
  \/ \E n \in Run, r \in Revision : Start(n, r)
  \/ \E n \in Run : Step(n)

Spec == Init /\ [][Next]_vars

(* GitHub starts the runs there are events for, and runs them; somebody runs *)
(* a failed job of the current revision again.                              *)
FairSpec ==
  /\ Spec
  /\ \A r \in Revision : WF_vars(\E n \in Run : Start(n, r))
  /\ \A n \in Run : WF_vars(Step(n))

-----------------------------------------------------------------------------
(* A revision with a governance change passes only when an owner has        *)
(* approved that very revision, whatever was pushed, reviewed or run in     *)
(* between.                                                                 *)
PassedMeansApproved ==
  \A r \in Revision : check[r] = "success" /\ governed[r] =>
    \E i \in 1..Len(reviews) :
      reviews[i].who \in Owners /\ reviews[i].state = "APPROVED" /\ reviews[i].rev = r

(* A revision that mixes baseline and implementation changes does not pass: *)
(* the files were listed between two looks at the revision.                 *)
PassedMeansSeparate ==
  FailOnMixed => \A r \in Revision : check[r] = "success" => ~mixed[r]

(* The current revision's run is over, it did not fail on the way, and no   *)
(* other run is still going.                                                *)
Settled == Running = {} /\ check[head] \in {"success", "failure"}

(* Then the label says what the current revision changes ... *)
LabelSettles == Settled /\ ~(FailOnMixed /\ mixed[head]) => label = governed[head]

(* ... at least where the runs come one at a time and none failed on the way;*)
(* there is then one gate comment, and it is about the current revision.    *)
SettlesInOrder ==
  Serial /\ ~Flaky =>
    /\ LabelSettles
    /\ Settled => Len(comments) = 1 /\ comments[1].rev = head

(* An approval unblocks: once an owner's latest review approves the current *)
(* revision, its check passes, unless that changes first.  Said of workflows*)
(* whose calls do not fail; runs may overlap.                               *)
Unblocked == check[head] = "success" \/ (FailOnMixed /\ mixed[head]) \/ ~governed[head]
ApprovedAt(r) ==
  head = r /\ \E i \in 1..Len(reviews) : reviews[i].who \in Owners /\ Approves(i, r)
ApprovalUnblocks ==
  \A r \in Revision : ApprovedAt(r) /\ ~Flaky ~> (Unblocked \/ ~ApprovedAt(r))
=============================================================================
