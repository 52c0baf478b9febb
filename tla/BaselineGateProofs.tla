-------------------------- MODULE BaselineGateProofs --------------------------
(* Proofs about the baseline gate, for any number of overlapping runs,       *)
(* revisions, reviews and reviewers, whatever calls fail: a check that has   *)
(* passed means what it says of the revision it stands on.                   *)
EXTENDS BaselineGate, SequenceTheorems, TLAPS

USE DEF Serial, FailOnMixed, Flaky

(* An owner's approval of revision r is among the reviews. *)
Reviewed(r) ==
  \E i \in 1..Len(reviews) :
    reviews[i].who \in Owners /\ reviews[i].state = "APPROVED" /\ reviews[i].rev = r

(* A run is for a revision that has been pushed. *)
Pushed == \A n \in Run : of[n] <= head

(* A run that says "approved" has seen such a review, one that says          *)
(* "resolved" is for a revision that changes nothing, and a free slot says   *)
(* neither.                                                                  *)
SaysTruth(n) ==
  /\ status[n] = "approved" => Reviewed(of[n])
  /\ status[n] = "resolved" => ~governed[of[n]]
  /\ pc[n] = "off" => status[n] = "pending"

SaysWhatIs == \A n \in Run : SaysTruth(n)

(* The list of files is that of the run's own revision once the revision has *)
(* been found unchanged after it.                                            *)
ListedOwn ==
  \A n \in Run :
    /\ pc[n] = "reassert" /\ head = of[n] => listedMixed[n] = mixed[of[n]]
    /\ pc[n] = "mixed" => listedMixed[n] = mixed[of[n]]

(* Where fail-on-mixed-pr is set, a run that goes on past the report of a    *)
(* mixed pull request is for a revision that is not mixed.                   *)
SeparateBeyond ==
  FailOnMixed => \A n \in Run :
    /\ pc[n] \in {"change", "label", "reviews", "unlabel"} => ~mixed[of[n]]
    /\ pc[n] \in {"find", "post", "end"} /\ status[n] # "mixed" => ~mixed[of[n]]

ReviewRecord == [who : Reviewer, state : ReviewState, rev : Revision]
CommentRecord == [status : Status, rev : Revision]

(* What a run says stays true while its revision and its status stay.        *)
LEMMA TruthStays ==
  ASSUME NEW n \in Run, SaysTruth(n), UNCHANGED <<workflow, governed, reviews>>,
         of'[n] = of[n], status'[n] = status[n], pc'[n] = "off" => pc[n] = "off"
  PROVE  SaysTruth(n)'
BY DEF SaysTruth, Reviewed

(* A step of run n leaves what the others say. *)
LEMMA OthersStay ==
  ASSUME SaysWhatIs, NEW n \in Run, UNCHANGED <<workflow, governed, reviews>>, SaysTruth(n)',
         \A m \in Run \ {n} : of'[m] = of[m] /\ status'[m] = status[m] /\ pc'[m] = pc[m]
  PROVE  SaysWhatIs'
<1> SUFFICES ASSUME NEW m \in Run, m # n PROVE SaysTruth(m)'
  BY DEF SaysWhatIs
<1>1. SaysTruth(m)
  BY DEF SaysWhatIs
<1> QED
  BY <1>1, TruthStays

(* Another review takes no approval away. *)
LEMMA ReviewsGrow ==
  ASSUME reviews \in Seq(ReviewRecord), NEW v \in ReviewRecord,
         reviews' = Append(reviews, v)
  PROVE  /\ reviews' \in Seq(ReviewRecord)
         /\ \A r \in Revision : Reviewed(r) => Reviewed(r)'
<1>1. /\ reviews' \in Seq(ReviewRecord)
      /\ Len(reviews') = Len(reviews) + 1
      /\ \A i \in 1..Len(reviews) : reviews'[i] = reviews[i]
  BY AppendProperties
<1>2. Len(reviews) \in Nat
  BY LenProperties
<1> QED
  BY <1>1, <1>2 DEF Reviewed

(* What upsertStickyComment leaves behind is a list of comments, no shorter. *)
LEMMA CommentsGrow ==
  ASSUME TypeOK, NEW n \in Run, PostComment(n)
  PROVE  comments' \in Seq(CommentRecord) /\ Len(comments') >= Len(comments)
<1> DEFINE c == [status |-> status[n], rev |-> of[n]]
<1>1. c \in CommentRecord /\ comments \in Seq(CommentRecord) /\ Len(comments) \in Nat
  BY LenProperties DEF TypeOK, CommentRecord
<1>2. CASE previous[n] = 0
  <2>1. comments' = Append(comments, c)
    BY <1>2 DEF PostComment
  <2> HIDE DEF c
  <2> QED
    BY <1>1, <2>1, AppendProperties
<1>3. CASE previous[n] # 0
  <2>1. comments' = [comments EXCEPT ![previous[n]] = c]
    BY <1>3 DEF PostComment
  <2> HIDE DEF c
  <2> QED
    BY <1>1, <2>1, ExceptSeq, <1>3 DEF TypeOK
<1> QED
  BY <1>2, <1>3

(* No step leaves the types.                                               *)
LEMMA TypeStep ==
  ASSUME GateAssumption, TypeOK, [Next]_vars
  PROVE  TypeOK'
<1> DEFINE Rest ==
      /\ check \in [Revision -> {"none", "pending", "success", "failure", "error"}]
      /\ pc \in [Run -> Location]
      /\ of \in [Run -> Revision]
      /\ listedMixed \in [Run -> BOOLEAN]
      /\ status \in [Run -> Status]
<1>a. 1 \in Revision /\ Len(comments) \in Nat
  BY LenProperties DEF TypeOK, Revision, GateAssumption
<1>b. ASSUME NEW n \in Run, NEW result \in {"success", "failure", "error"}, Conclude(n, result)
      PROVE  Rest' /\ previous' \in [Run -> 0..Len(comments)]
  BY <1>a, <1>b DEF TypeOK, Conclude, Status, Location
<1> SUFFICES ASSUME Next PROVE TypeOK'
  BY DEF TypeOK, vars, pullRequest, shown, runs
<1>1. ASSUME NEW r \in Revision, Push(r) PROVE TypeOK'
  BY <1>1 DEF TypeOK, Push, shown, runs
<1>2. ASSUME NEW who \in Reviewer, NEW state \in ReviewState, Review(who, state)
      PROVE  TypeOK'
  <2>1. reviews' \in Seq(ReviewRecord)
    BY <1>2, AppendProperties DEF TypeOK, Review, ReviewRecord
  <2> QED
    BY <1>2, <2>1 DEF TypeOK, Review, shown, runs, ReviewRecord
<1>3. ASSUME NEW n \in Run, NEW r \in Revision, Start(n, r) PROVE TypeOK'
  BY <1>3 DEF TypeOK, Start, Goto, Location, pullRequest, shown
<1>4. ASSUME NEW n \in Run,
             AssertRevision(n, "assert", "list") \/ AssertRevision(n, "reassert", "mixed")
      PROVE  TypeOK'
  BY <1>4, <1>b DEF TypeOK, AssertRevision, Goto, Location, pullRequest, shown
<1>5. ASSUME NEW n \in Run, ListFiles(n) PROVE TypeOK'
  BY <1>5 DEF TypeOK, ListFiles, Goto, Location, pullRequest, shown
<1>6. ASSUME NEW n \in Run, ReportMixed(n) PROVE TypeOK'
  BY <1>6 DEF TypeOK, ReportMixed, Say, Goto, Location, Status, pullRequest, shown
<1>7. ASSUME NEW n \in Run, DecideChange(n) PROVE TypeOK'
  BY <1>7 DEF TypeOK, DecideChange, Say, Goto, Location, Status, pullRequest, shown
<1>8. ASSUME NEW n \in Run, AddLabel(n) \/ AddLabelFails(n) PROVE TypeOK'
  BY <1>8 DEF TypeOK, AddLabel, AddLabelFails, Goto, Location, pullRequest, shown
<1>9. ASSUME NEW n \in Run, ReadReviews(n) PROVE TypeOK'
  BY <1>9 DEF TypeOK, ReadReviews, Say, Goto, Location, Status, pullRequest, shown
<1>10. ASSUME NEW n \in Run, FindComment(n) PROVE TypeOK'
  <2>1. comments # <<>> => 1 \in 0..Len(comments)
    BY <1>a, EmptySeq DEF TypeOK
  <2> QED
    BY <1>10, <1>a, <2>1 DEF TypeOK, FindComment, Goto, Location, pullRequest, shown
<1>11. ASSUME NEW n \in Run, PostComment(n) PROVE TypeOK'
  <2>1. comments' \in Seq(CommentRecord) /\ Len(comments') >= Len(comments)
    BY <1>11, CommentsGrow
  <2>2. Len(comments') \in Nat
    BY <2>1, LenProperties
  <2>3. previous' \in [Run -> 0..Len(comments')]
    BY <1>11, <1>a, <2>1, <2>2 DEF TypeOK, PostComment
  <2>4. AfterComment(n) \in Location
    BY DEF AfterComment, Location
  <2> QED
    BY <1>11, <2>1, <2>3, <2>4
    DEF TypeOK, PostComment, Goto, CommentRecord, pullRequest
<1>12. ASSUME NEW n \in Run, RemoveLabel(n) PROVE TypeOK'
  BY <1>12 DEF TypeOK, RemoveLabel, Goto, Location, pullRequest
<1>13. ASSUME NEW n \in Run, Finish(n) \/ CallFails(n) PROVE TypeOK'
  BY <1>13, <1>b DEF TypeOK, Finish, CallFails, pullRequest, shown
<1> QED
  BY <1>1, <1>2, <1>3, <1>4, <1>5, <1>6, <1>7, <1>8, <1>9, <1>10, <1>11,
     <1>12, <1>13 DEF Next, Step
-----------------------------------------------------------------------------
(* The parts of the invariant, unfolded together. *)
Safe ==
  Pushed /\ SaysWhatIs /\ ListedOwn /\ SeparateBeyond /\ PassedMeansApproved /\ PassedMeansSeparate

(* The end of a run is the only step that lets a check pass.  Its revision   *)
(* is then what the invariant says of the run's status.                      *)
LEMMA ConcludeStep ==
  ASSUME GateAssumption, TypeOK, Safe, NEW n \in Run,
         NEW result \in {"success", "failure", "error"}, Conclude(n, result),
         UNCHANGED <<pullRequest, shown>>,
         result = "success" => pc[n] = "end" /\ status[n] \in {"resolved", "approved"}
  PROVE  Safe'
<1> USE DEF Safe, TypeOK, Conclude, pullRequest, shown, GateAssumption
<1>1. 1 \in Revision /\ 1 <= head
  BY DEF Revision
<1>2. Pushed'
  BY <1>1 DEF Pushed
<1>3. SaysWhatIs'
  <2>1. SaysTruth(n)'
    BY DEF SaysTruth
  <2> QED
    BY <2>1, OthersStay
<1>4. ListedOwn'
  BY DEF ListedOwn
<1>5. SeparateBeyond'
  BY DEF SeparateBeyond
<1>6. PassedMeansApproved'
  <2> SUFFICES ASSUME NEW r \in Revision, check'[r] = "success", governed[r]
               PROVE  Reviewed(r)
    BY DEF PassedMeansApproved, Reviewed
  <2>1. CASE r = of[n]
    BY <2>1 DEF SaysWhatIs, SaysTruth
  <2>2. CASE r # of[n]
    BY <2>2 DEF PassedMeansApproved, Reviewed
  <2> QED
    BY <2>1, <2>2
<1>7. PassedMeansSeparate'
  <2> SUFFICES ASSUME FailOnMixed, NEW r \in Revision, check'[r] = "success"
               PROVE  ~mixed[r]
    BY DEF PassedMeansSeparate
  <2>1. CASE r = of[n]
    BY <2>1 DEF SeparateBeyond
  <2>2. CASE r # of[n]
    BY <2>2 DEF PassedMeansSeparate
  <2> QED
    BY <2>1, <2>2
<1> QED
  BY <1>2, <1>3, <1>4, <1>5, <1>6, <1>7

(* A step of a run that does not end it changes neither what was pushed and  *)
(* reviewed nor what has passed.                                             *)
LEMMA RunStep ==
  ASSUME GateAssumption, TypeOK, Safe, NEW n \in Run, Step(n)
  PROVE  Safe'
<1> DEFINE Still == UNCHANGED <<pullRequest, check, of>>
<1> USE DEF Safe, TypeOK, Goto, Say, pullRequest, shown
<1>1. ASSUME Still, SaysWhatIs', ListedOwn', SeparateBeyond' PROVE Safe'
  BY <1>1 DEF Pushed, PassedMeansApproved, PassedMeansSeparate
<1>a. ASSUME Still, NEW s, NEW there, SaysTruth(n)',
             status' = [status EXCEPT ![n] = s], pc' = [pc EXCEPT ![n] = there]
      PROVE  SaysWhatIs'
  BY <1>a, OthersStay
<1>b. ASSUME Still, status' = status, NEW there, there # "off", pc' = [pc EXCEPT ![n] = there]
      PROVE  SaysWhatIs'
  <2>1. SaysTruth(n)
    BY DEF SaysWhatIs
  <2>2. SaysTruth(n)'
    BY <1>b, <2>1, TruthStays
  <2> QED
    BY <1>b, <2>2, OthersStay
<1>2. ASSUME NEW here, NEW there,
             <<here, there>> \in {<<"assert", "list">>, <<"reassert", "mixed">>},
             AssertRevision(n, here, there)
      PROVE  Safe'
  <2>1. CASE head = of[n]
    <3>1. Still
      BY <1>2, <2>1 DEF AssertRevision
    <3>2. SaysWhatIs'
      <4>1. status' = status /\ pc' = [pc EXCEPT ![n] = there] /\ there # "off"
        BY <1>2, <2>1 DEF AssertRevision
      <4> QED
        BY <1>b, <3>1, <4>1
    <3>3. ListedOwn'
      BY <1>2, <2>1 DEF AssertRevision, ListedOwn
    <3>4. SeparateBeyond'
      BY <1>2, <2>1 DEF AssertRevision, SeparateBeyond
    <3> QED
      BY <1>1, <3>1, <3>2, <3>3, <3>4
  <2>2. CASE head # of[n]
    BY <1>2, <2>2, ConcludeStep DEF AssertRevision
  <2> QED
    BY <2>1, <2>2
<1>3. CASE ListFiles(n)
  <2>1. Still /\ status' = status /\ pc[n] = "list" /\ pc' = [pc EXCEPT ![n] = "reassert"]
    BY <1>3 DEF ListFiles
  <2>2. SaysWhatIs'
    BY <1>b, <2>1
  <2>4. SeparateBeyond'
    BY <2>1 DEF SeparateBeyond
  <2>3. ListedOwn'
    BY <1>3 DEF ListFiles, ListedOwn
  <2> QED
    BY <1>1, <2>1, <2>2, <2>3, <2>4
<1>4. CASE ReportMixed(n)
  <2>1. Still
    BY <1>4 DEF ReportMixed
  <2>2. SaysWhatIs'
    <3>1. CASE listedMixed[n]
      <4>1. /\ status' = [status EXCEPT ![n] = "mixed"]
            /\ pc' = [pc EXCEPT ![n] = "find"]
        BY <1>4, <3>1 DEF ReportMixed
      <4>2. SaysTruth(n)'
        BY <4>1 DEF SaysTruth
      <4> QED
        BY <1>a, <2>1, <4>1, <4>2
    <3>2. CASE ~listedMixed[n]
      <4>1. status' = status /\ pc' = [pc EXCEPT ![n] = "change"]
        BY <1>4, <3>2 DEF ReportMixed
      <4> QED
        BY <1>b, <2>1, <4>1
    <3> QED
      BY <3>1, <3>2
  <2>3. ListedOwn'
    BY <1>4 DEF ReportMixed, ListedOwn
  <2>4. SeparateBeyond'
    <3>1. CASE listedMixed[n]
      BY <1>4, <3>1 DEF ReportMixed, SeparateBeyond
    <3>2. CASE ~listedMixed[n]
      <4>1. ~mixed[of[n]]
        BY <1>4, <3>2 DEF ReportMixed, ListedOwn
      <4> QED
        BY <1>4, <3>2, <4>1 DEF ReportMixed, SeparateBeyond
    <3> QED
      BY <3>1, <3>2
  <2> QED
    BY <1>1, <2>1, <2>2, <2>3, <2>4
<1>5. CASE DecideChange(n)
  <2>1. Still
    BY <1>5 DEF DecideChange
  <2>2. SaysWhatIs'
    <3>1. CASE governed[of[n]]
      <4>1. status' = status /\ pc' = [pc EXCEPT ![n] = "label"]
        BY <1>5, <3>1 DEF DecideChange
      <4> QED
        BY <1>b, <2>1, <4>1
    <3>2. CASE ~governed[of[n]]
      <4>1. /\ status' = [status EXCEPT ![n] = "resolved"]
            /\ pc' = [pc EXCEPT ![n] = "find"]
        BY <1>5, <3>2 DEF DecideChange
      <4>2. SaysTruth(n)'
        BY <2>1, <3>2, <4>1 DEF SaysTruth
      <4> QED
        BY <1>a, <2>1, <4>1, <4>2
    <3> QED
      BY <3>1, <3>2
  <2>3. ListedOwn'
    BY <1>5 DEF DecideChange, ListedOwn
  <2>4. SeparateBeyond'
    BY <1>5 DEF DecideChange, SeparateBeyond
  <2> QED
    BY <1>1, <2>1, <2>2, <2>3, <2>4
<1>6. CASE AddLabel(n) \/ AddLabelFails(n)
  <2>1. Still /\ status' = status /\ listedMixed' = listedMixed
    BY <1>6 DEF AddLabel, AddLabelFails
  <2>2. pc[n] = "label" /\ pc' = [pc EXCEPT ![n] = "reviews"]
    BY <1>6 DEF AddLabel, AddLabelFails
  <2>3. SaysWhatIs'
    BY <1>b, <2>1, <2>2
  <2>4. ListedOwn' /\ SeparateBeyond'
    BY <2>1, <2>2 DEF ListedOwn, SeparateBeyond
  <2> QED
    BY <1>1, <2>1, <2>3, <2>4
<1>7. CASE ReadReviews(n)
  <2>1. Approved(n) => Reviewed(of[n])
    BY DEF Approved, Approves, Reviewed
  <2>2. /\ Still /\ listedMixed' = listedMixed
        /\ pc[n] = "reviews" /\ pc' = [pc EXCEPT ![n] = "find"]
    BY <1>7 DEF ReadReviews
  <2>3. /\ status' = [status EXCEPT ![n] = status'[n]]
        /\ status'[n] \in {"approved", "pending"}
        /\ status'[n] = "approved" => Reviewed(of[n])
    BY <1>7, <2>1 DEF ReadReviews
  <2>4. SaysWhatIs'
    <3>1. SaysTruth(n)'
      BY <2>2, <2>3 DEF SaysTruth, Reviewed
    <3> QED
      BY <1>a, <2>2, <2>3, <3>1
  <2>5. ListedOwn'
    BY <2>2 DEF ListedOwn
  <2>6. SeparateBeyond'
    BY <2>2, <2>3 DEF SeparateBeyond
  <2> QED
    BY <1>1, <2>2, <2>4, <2>5, <2>6
<1>8. CASE FindComment(n)
  <2>1. /\ Still /\ status' = status /\ listedMixed' = listedMixed
        /\ pc[n] = "find" /\ pc' = [pc EXCEPT ![n] = "post"]
    BY <1>8 DEF FindComment
  <2>2. SaysWhatIs'
    BY <1>b, <2>1
  <2>3. ListedOwn' /\ SeparateBeyond'
    BY <2>1 DEF ListedOwn, SeparateBeyond
  <2> QED
    BY <1>1, <2>1, <2>2, <2>3
<1>9. CASE PostComment(n)
  <2>1. /\ AfterComment(n) \in {"end", "change", "unlabel"}
        /\ AfterComment(n) = "change" => ~FailOnMixed
        /\ AfterComment(n) = "unlabel" => status[n] # "mixed"
    BY DEF AfterComment
  <2>2. /\ Still /\ status' = status /\ listedMixed' = listedMixed
        /\ pc[n] = "post" /\ pc' = [pc EXCEPT ![n] = AfterComment(n)]
    BY <1>9 DEF PostComment
  <2>3. SaysWhatIs'
    BY <1>b, <2>1, <2>2
  <2>4. ListedOwn' /\ SeparateBeyond'
    BY <2>1, <2>2 DEF ListedOwn, SeparateBeyond
  <2> QED
    BY <1>1, <2>2, <2>3, <2>4
<1>10. CASE RemoveLabel(n)
  <2>1. /\ Still /\ status' = status /\ listedMixed' = listedMixed
        /\ pc[n] = "unlabel" /\ pc' = [pc EXCEPT ![n] = "end"]
    BY <1>10 DEF RemoveLabel
  <2>2. SaysWhatIs'
    BY <1>b, <2>1
  <2>3. ListedOwn' /\ SeparateBeyond'
    BY <2>1 DEF ListedOwn, SeparateBeyond
  <2> QED
    BY <1>1, <2>1, <2>2, <2>3
<1>11. CASE Finish(n)
  BY <1>11, ConcludeStep DEF Finish
<1>12. CASE CallFails(n)
  BY <1>12, ConcludeStep DEF CallFails
<1> QED
  BY <1>2, <1>3, <1>4, <1>5, <1>6, <1>7, <1>8, <1>9, <1>10, <1>11, <1>12 DEF Step

(* No step breaks the safety invariant: one case per action of the gate.   *)
LEMMA SafeStep ==
  ASSUME GateAssumption, TypeOK, Safe, [Next]_vars
  PROVE  Safe'
<1> USE DEF TypeOK, Goto, pullRequest, shown, runs
<1>1. ASSUME NEW r \in Revision, Push(r) PROVE Safe'
  <2>1. \A n \in Run : of[n] \in Nat /\ head \in Nat /\ of[n] <= head /\ head' = head + 1
    BY <1>1 DEF Safe, Push, Pushed, Revision
  <2>2. Pushed' /\ ListedOwn'
    BY <1>1, <2>1 DEF Safe, Push, Pushed, ListedOwn
  <2>3. SaysWhatIs'
    BY <1>1, TruthStays DEF Safe, Push, SaysWhatIs
  <2> QED
    BY <1>1, <2>2, <2>3
    DEF Safe, Push, SeparateBeyond, PassedMeansApproved, PassedMeansSeparate
<1>2. ASSUME NEW who \in Reviewer, NEW state \in ReviewState, Review(who, state)
      PROVE  Safe'
  <2>1. \A r \in Revision : Reviewed(r) => Reviewed(r)'
    BY <1>2, ReviewsGrow DEF Review, ReviewRecord
  <2>2. SaysWhatIs' /\ PassedMeansApproved'
    <3> HIDE DEF TypeOK
    <3>1. of \in [Run -> Revision]
      BY DEF TypeOK
    <3> QED
      BY <1>2, <2>1, <3>1
      DEF Safe, Review, SaysWhatIs, SaysTruth, PassedMeansApproved, Reviewed
  <2> QED
    BY <1>2, <2>2 DEF Safe, Review, Pushed, ListedOwn, SeparateBeyond, PassedMeansSeparate
<1>3. ASSUME NEW n \in Run, NEW r \in Revision, Start(n, r) PROVE Safe'
  <2>1. Pushed'
    BY <1>3 DEF Safe, Start, Pushed
  <2>2. SaysWhatIs'
    <3>1. status[n] = "pending" /\ status' = status /\ pc'[n] = "assert"
      BY <1>3 DEF Safe, Start, SaysWhatIs, SaysTruth
    <3>2. SaysTruth(n)'
      BY <3>1 DEF SaysTruth
    <3> QED
      BY <1>3, <3>1, <3>2, OthersStay DEF Safe, Start
  <2>3. ListedOwn' /\ SeparateBeyond'
    BY <1>3 DEF Safe, Start, ListedOwn, SeparateBeyond
  <2>4. PassedMeansApproved' /\ PassedMeansSeparate'
    BY <1>3 DEF Safe, Start, PassedMeansApproved, PassedMeansSeparate
  <2> QED
    BY <2>1, <2>2, <2>3, <2>4 DEF Safe
<1>4. ASSUME NEW n \in Run, Step(n) PROVE Safe'
  BY <1>4, RunStep
<1>5. CASE UNCHANGED vars
  BY <1>5 DEF vars, Safe, Pushed, SaysWhatIs, SaysTruth, Reviewed, ListedOwn, SeparateBeyond,
              PassedMeansApproved, PassedMeansSeparate
<1> QED
  BY <1>1, <1>2, <1>3, <1>4, <1>5 DEF Next

(* Types and safety hold in every reachable state.                         *)
LEMMA Invariance == Spec => [](TypeOK /\ Safe)
<1>1. Init => TypeOK /\ Safe
  <2> SUFFICES ASSUME Init PROVE TypeOK /\ Safe
    OBVIOUS
  <2>1. 1 \in Revision
    BY GateAssumption DEF GateAssumption, Revision
  <2>2. /\ <<>> \in Seq([who : Reviewer, state : ReviewState, rev : Revision])
        /\ <<>> \in Seq([status : Status, rev : Revision])
        /\ Len(comments) = 0
    BY EmptySeq DEF Init
  <2>3. TypeOK
    <3>1. previous \in [Run -> 0..Len(comments)]
      BY <2>2 DEF Init
    <3>2. reviews \in Seq([who : Reviewer, state : ReviewState, rev : Revision])
      BY <2>2 DEF Init
    <3>3. comments \in Seq([status : Status, rev : Revision])
      BY <2>2 DEF Init
    <3> QED
      BY <2>1, <3>1, <3>2, <3>3 DEF Init, TypeOK, Location, Status
  <2>4. Safe
    BY <2>1 DEF Init, Safe, Pushed, SaysWhatIs, SaysTruth, ListedOwn, SeparateBeyond,
                PassedMeansApproved, PassedMeansSeparate, Revision
  <2> QED
    BY <2>3, <2>4
<1>2. TypeOK /\ Safe /\ [Next]_vars => TypeOK' /\ Safe'
  BY TypeStep, SafeStep, GateAssumption
<1> QED
  BY <1>1, <1>2, PTL DEF Spec

(* However runs, pushes and reviews interleave and whatever calls fail, a    *)
(* revision that changes the baseline passes only if an owner has approved   *)
(* that very revision.                                                       *)
THEOREM PassesAreApproved == Spec => []PassedMeansApproved
<1>1. Safe => PassedMeansApproved
  BY DEF Safe
<1> QED
  BY <1>1, Invariance, PTL

(* Where fail-on-mixed-pr is set, a revision that mixes baseline and         *)
(* implementation changes never passes, although the changed files are those *)
(* of the pull request and not of a revision.                                *)
THEOREM PassesAreSeparate == Spec => []PassedMeansSeparate
<1>1. Safe => PassedMeansSeparate
  BY DEF Safe
<1> QED
  BY <1>1, Invariance, PTL
-----------------------------------------------------------------------------
(* Runs one at a time, none of which fails on the way.                       *)
InTurn == Serial /\ ~Flaky

(* There is one gate comment, and it is about revision r. *)
About(r) == Len(comments) = 1 /\ comments[1].rev = r

(* The label says what revision r changes, unless r fails as mixed. *)
Labelled(r) == (FailOnMixed /\ mixed[r]) \/ label = governed[r]

Alone == \A n, m \in Running : n = m

(* The check of a revision is pending while a run for it goes on, and a      *)
(* revision that is not pushed has none.                                     *)
ChecksFollow ==
  /\ \A n \in Running : check[of[n]] = "pending"
  /\ \A r \in Revision : r > head => check[r] = "none"

(* What the only run has seen to at each place on its way. *)
Underway(n) ==
  /\ pc[n] \in {"label", "reviews"} => governed[of[n]]
  /\ pc[n] = "reviews" => label
  /\ pc[n] \in {"find", "post"} =>
       CASE status[n] = "mixed" -> mixed[of[n]]
         [] status[n] = "resolved" -> ~governed[of[n]]
         [] OTHER -> governed[of[n]] /\ label
  /\ pc[n] = "post" => previous[n] = Len(comments)
  /\ pc[n] = "unlabel" => status[n] = "resolved" /\ ~governed[of[n]] /\ About(of[n])
  /\ pc[n] = "end" => About(of[n]) /\ Labelled(of[n])

(* Once the check of the current revision is there, what is shown is about   *)
(* that revision, and a run that is still going has yet to find itself stale.*)
ShownIsCurrent ==
  check[head] \in {"success", "failure"} =>
    /\ About(head) /\ Labelled(head)
    /\ \A n \in Running : pc[n] = "assert" /\ of[n] # head

Orderly ==
  InTurn =>
    /\ Alone /\ ChecksFollow /\ ShownIsCurrent
    /\ Len(comments) <= 1
    /\ \A n \in Running : Underway(n)

(* The order of the runs holds at the start, where none has begun.         *)
LEMMA OrderlyInit == GateAssumption /\ Init => Orderly
<1> SUFFICES ASSUME GateAssumption, Init, InTurn PROVE Orderly
  BY DEF Orderly
<1>1. Running = {} /\ check[head] = "none" /\ \A r \in Revision : check[r] = "none"
  BY DEF Init, Running, Revision, GateAssumption
<1>2. Len(comments) = 0
  BY EmptySeq DEF Init
<1> QED
  BY <1>1, <1>2 DEF Orderly, Alone, ChecksFollow, ShownIsCurrent

(* A step of the only run that does not end it. *)
LEMMA MoveStep ==
  ASSUME TypeOK, Orderly, InTurn, NEW n \in Run, NEW there \in Location \ {"off"},
         pc[n] # "off", pc[n] = "assert" => of[n] = head,
         UNCHANGED <<pullRequest, check, of>>, pc' = [pc EXCEPT ![n] = there],
         Underway(n)', Len(comments') <= 1
  PROVE  Orderly'
<1> USE DEF TypeOK, pullRequest
<1>1. Running = {n} /\ Running' = {n}
  BY DEF Orderly, Alone, Running
<1>2. Alone' /\ ChecksFollow'
  BY <1>1 DEF Orderly, Alone, ChecksFollow
<1>3. check'[head'] \notin {"success", "failure"}
  BY <1>1 DEF Orderly, ShownIsCurrent, ChecksFollow
<1> QED
  BY <1>1, <1>2, <1>3 DEF Orderly, ShownIsCurrent

(* The end of the only run. *)
LEMMA EndStep ==
  ASSUME TypeOK, Orderly, InTurn, NEW n \in Run, NEW result \in {"success", "failure"},
         pc[n] # "off", of[n] = head => pc[n] = "end",
         Conclude(n, result), UNCHANGED <<pullRequest, shown>>
  PROVE  Orderly'
<1> USE DEF TypeOK, pullRequest, shown, Conclude
<1>1. Running = {n} /\ Running' = {}
  BY DEF Orderly, Alone, Running
<1>2. Alone' /\ Len(comments') <= 1
  BY <1>1 DEF Orderly, Alone
<1>3. ChecksFollow'
  <2>1. \A r \in Revision : r > head => r # of[n]
    BY <1>1 DEF Orderly, ChecksFollow
  <2> QED
    BY <1>1, <2>1 DEF Orderly, ChecksFollow
<1>4. ShownIsCurrent'
  <2>1. CASE of[n] = head
    <3>1. About(head) /\ Labelled(head)
      BY <1>1, <2>1 DEF Orderly, Underway
    <3>2. About(head)' /\ Labelled(head)'
      BY <3>1 DEF About, Labelled
    <3> QED
      BY <1>1, <3>2 DEF ShownIsCurrent
  <2>2. CASE of[n] # head
    <3>1. check'[head'] = check[head]
      BY <2>2
    <3>2. check[head] \in {"success", "failure"} => About(head)' /\ Labelled(head)'
      BY DEF Orderly, ShownIsCurrent, About, Labelled
    <3> QED
      BY <1>1, <3>1, <3>2 DEF ShownIsCurrent
  <2> QED
    BY <2>1, <2>2
<1> QED
  BY <1>1, <1>2, <1>3, <1>4 DEF Orderly

(* Arithmetic for a list of at most one element. *)
LEMMA NoneOrOne ==
  ASSUME NEW k \in Nat, k <= 1 PROVE k = 0 \/ k = 1
OBVIOUS

(* The comment is the first one or replaces it. *)
LEMMA OneComment ==
  ASSUME TypeOK, NEW n \in Run, PostComment(n), Len(comments) <= 1, previous[n] = Len(comments)
  PROVE  Len(comments') = 1 /\ comments'[1].rev = of[n]
<1> DEFINE c == [status |-> status[n], rev |-> of[n]]
<1>1. c \in CommentRecord /\ comments \in Seq(CommentRecord) /\ Len(comments) \in Nat
  BY LenProperties DEF TypeOK, CommentRecord
<1>2. c.rev = of[n]
  OBVIOUS
<1>3. CASE previous[n] = 0
  <2>1. comments' = Append(comments, c)
    BY <1>3 DEF PostComment
  <2> HIDE DEF c
  <2>2. Len(comments') = Len(comments) + 1 /\ comments'[Len(comments) + 1] = c
    BY <1>1, <2>1, AppendProperties
  <2>3. Len(comments) + 1 = 1
    BY <1>3
  <2> QED
    BY <1>2, <2>2, <2>3
<1>4. CASE previous[n] # 0
  <2>1. previous[n] = 1 /\ Len(comments) = 1
    BY <1>1, <1>4, NoneOrOne
  <2>2. comments' = [comments EXCEPT ![1] = c] /\ Len(comments) = 1
    BY <2>1 DEF PostComment
  <2> HIDE DEF c
  <2>3. Len(comments') = Len(comments) /\ comments'[1] = c
    BY <1>1, <2>2, ExceptSeq
  <2> QED
    BY <1>2, <2>2, <2>3
<1> QED
  BY <1>3, <1>4

(* A step of a run keeps the order: the run is the only one under way.     *)
LEMMA OrderlyRunStep ==
  ASSUME GateAssumption, TypeOK, Safe, Orderly, InTurn, NEW n \in Run, Step(n)
  PROVE  Orderly'
<1> USE DEF TypeOK, Goto, Say, Location
<1>a. /\ Len(comments) \in Nat /\ Len(comments) <= 1
      /\ pc[n] # "off" => Underway(n) /\ check[of[n]] = "pending"
  BY LenProperties DEF Orderly, Running, ChecksFollow
<1>1. ASSUME NEW here, NEW there,
             <<here, there>> \in {<<"assert", "list">>, <<"reassert", "mixed">>},
             AssertRevision(n, here, there)
      PROVE  Orderly'
  <2>1. CASE head = of[n]
    <3>1. /\ pc[n] = here /\ pc' = [pc EXCEPT ![n] = there]
          /\ UNCHANGED <<pullRequest, shown, check, of>>
      BY <1>1, <2>1 DEF AssertRevision
    <3>2. Underway(n)'
      BY <1>1, <3>1 DEF Underway
    <3> QED
      BY <1>1, <1>a, <2>1, <3>1, <3>2, MoveStep DEF shown
  <2>2. CASE head # of[n]
    BY <1>1, <2>2, EndStep DEF AssertRevision
  <2> QED
    BY <2>1, <2>2
<1>2. CASE ListFiles(n)
  <2>1. /\ pc[n] = "list" /\ pc' = [pc EXCEPT ![n] = "reassert"]
        /\ UNCHANGED <<pullRequest, shown, check, of>>
    BY <1>2 DEF ListFiles
  <2>2. Underway(n)'
    BY <2>1 DEF Underway
  <2> QED
    BY <1>a, <2>1, <2>2, MoveStep DEF shown
<1>3. CASE ReportMixed(n)
  <2>1. /\ pc[n] = "mixed" /\ UNCHANGED <<pullRequest, shown, check, of>>
    BY <1>3 DEF ReportMixed
  <2>2. CASE listedMixed[n]
    <3>1. pc' = [pc EXCEPT ![n] = "find"] /\ status'[n] = "mixed"
      BY <1>3, <2>2 DEF ReportMixed
    <3>2. mixed'[of'[n]]
      BY <2>1, <2>2 DEF Safe, ListedOwn, pullRequest
    <3>3. Underway(n)'
      BY <3>1, <3>2 DEF Underway
    <3> QED
      BY <1>a, <2>1, <3>1, <3>3, MoveStep DEF shown
  <2>3. CASE ~listedMixed[n]
    <3>1. pc' = [pc EXCEPT ![n] = "change"]
      BY <1>3, <2>3 DEF ReportMixed
    <3>2. Underway(n)'
      BY <3>1 DEF Underway
    <3> QED
      BY <1>a, <2>1, <3>1, <3>2, MoveStep DEF shown
  <2> QED
    BY <2>2, <2>3
<1>4. CASE DecideChange(n)
  <2>1. /\ pc[n] = "change" /\ UNCHANGED <<pullRequest, shown, check, of>>
        /\ governed'[of'[n]] = governed[of[n]]
    BY <1>4 DEF DecideChange, pullRequest
  <2>2. CASE governed[of[n]]
    <3>1. pc' = [pc EXCEPT ![n] = "label"]
      BY <1>4, <2>2 DEF DecideChange
    <3>2. Underway(n)'
      BY <2>1, <2>2, <3>1 DEF Underway
    <3> QED
      BY <1>a, <2>1, <3>1, <3>2, MoveStep DEF shown
  <2>3. CASE ~governed[of[n]]
    <3>1. pc' = [pc EXCEPT ![n] = "find"] /\ status'[n] = "resolved"
      BY <1>4, <2>3 DEF DecideChange
    <3>2. Underway(n)'
      BY <2>1, <2>3, <3>1 DEF Underway
    <3> QED
      BY <1>a, <2>1, <3>1, <3>2, MoveStep DEF shown
  <2> QED
    BY <2>2, <2>3
<1>5. CASE AddLabel(n)
  <2>1. /\ pc[n] = "label" /\ pc' = [pc EXCEPT ![n] = "reviews"] /\ label' = TRUE
        /\ UNCHANGED <<pullRequest, comments, check, of>>
    BY <1>5 DEF AddLabel
  <2>2. governed'[of'[n]]
    BY <1>a, <2>1 DEF Underway, pullRequest
  <2>3. Underway(n)'
    BY <2>1, <2>2 DEF Underway
  <2> QED
    BY <1>a, <2>1, <2>3, MoveStep
<1>6. CASE ReadReviews(n)
  <2>1. /\ pc[n] = "reviews" /\ pc' = [pc EXCEPT ![n] = "find"]
        /\ status'[n] \in {"approved", "pending"}
        /\ UNCHANGED <<pullRequest, shown, check, of>>
    BY <1>6 DEF ReadReviews
  <2>2. governed'[of'[n]] /\ label'
    BY <1>a, <2>1 DEF Underway, pullRequest, shown
  <2>3. Underway(n)'
    BY <2>1, <2>2 DEF Underway
  <2> QED
    BY <1>a, <2>1, <2>3, MoveStep DEF shown
<1>7. CASE FindComment(n)
  <2>1. /\ pc[n] = "find" /\ pc' = [pc EXCEPT ![n] = "post"] /\ status' = status
        /\ UNCHANGED <<pullRequest, shown, check, of>>
    BY <1>7 DEF FindComment
  <2>2. previous'[n] = Len(comments)
    <3>1. comments = <<>> <=> Len(comments) = 0
      BY EmptySeq
    <3>2. previous'[n] = IF comments = <<>> THEN 0 ELSE 1
      BY <1>7 DEF FindComment
    <3>3. Len(comments) # 0 => Len(comments) = 1
      BY <1>a, NoneOrOne
    <3> QED
      BY <3>1, <3>2, <3>3
  <2>3. Underway(n)'
    BY <1>a, <2>1, <2>2 DEF Underway, pullRequest, shown
  <2> QED
    BY <1>a, <2>1, <2>3, MoveStep DEF shown
<1>8. CASE PostComment(n)
  <2>1. /\ pc[n] = "post" /\ pc' = [pc EXCEPT ![n] = AfterComment(n)]
        /\ UNCHANGED <<pullRequest, label, check, of, status>>
    BY <1>8 DEF PostComment
  <2>2. Len(comments') = 1 /\ About(of[n])'
    BY <1>8, <1>a, <2>1, OneComment DEF Underway, About
  <2>3. /\ AfterComment(n) \in {"end", "change", "unlabel"}
        /\ AfterComment(n) = "unlabel" => status[n] = "resolved"
        /\ AfterComment(n) = "end" => IF status[n] = "mixed" THEN FailOnMixed
                                      ELSE status[n] # "resolved"
    BY DEF AfterComment
  <2>4. AfterComment(n) = "unlabel" => ~governed[of[n]]
    BY <1>a, <2>1, <2>3 DEF Underway
  <2>5. AfterComment(n) = "end" => Labelled(of[n])
    BY <1>a, <2>1, <2>3 DEF Underway, Labelled
  <2>6. Underway(n)'
    BY <2>1, <2>2, <2>3, <2>4, <2>5 DEF Underway, About, Labelled, pullRequest
  <2> QED
    <3>1. PICK there \in Location \ {"off"} : there = AfterComment(n)
      BY <2>3
    <3>2. Len(comments') <= 1
      BY <2>2
    <3> QED
      BY <1>a, <2>1, <2>6, <3>1, <3>2, MoveStep
<1>9. CASE RemoveLabel(n)
  <2>1. /\ pc[n] = "unlabel" /\ pc' = [pc EXCEPT ![n] = "end"] /\ label' = FALSE
        /\ UNCHANGED <<pullRequest, comments, check, of, status>>
    BY <1>9 DEF RemoveLabel
  <2>2. About(of[n]) /\ governed[of[n]] = FALSE
    BY <1>a, <2>1 DEF Underway
  <2>3. About(of[n])' /\ Labelled(of[n])'
    BY <2>1, <2>2 DEF About, Labelled, pullRequest
  <2>4. Underway(n)'
    BY <2>1, <2>3 DEF Underway, About, Labelled
  <2> QED
    BY <1>a, <2>1, <2>4, MoveStep
<1>10. CASE Finish(n)
  BY <1>10, EndStep DEF Finish
<1>11. ASSUME AddLabelFails(n) \/ CallFails(n) PROVE FALSE
  BY <1>11 DEF AddLabelFails, CallFails, InTurn
<1> QED
  BY <1>1, <1>2, <1>3, <1>4, <1>5, <1>6, <1>7, <1>8, <1>9, <1>10, <1>11 DEF Step

(* Every step keeps the order of the runs.                                 *)
LEMMA OrderlyStep ==
  ASSUME GateAssumption, TypeOK, Safe, Orderly, [Next]_vars
  PROVE  Orderly'
<1> USE DEF TypeOK, pullRequest, shown, runs
<1> SUFFICES ASSUME InTurn' PROVE Orderly'
  BY DEF Orderly
<1>a. InTurn
  <2>1. workflow' = workflow
    BY DEF Next, vars, Push, Review, Start, Step, AssertRevision, ListFiles, ReportMixed,
           DecideChange, AddLabel, AddLabelFails, ReadReviews, FindComment, PostComment,
           RemoveLabel, Finish, CallFails
  <2> QED
    BY <2>1 DEF InTurn
<1>1. ASSUME NEW r \in Revision, Push(r) PROVE Orderly'
  <2>1. /\ r = head + 1 /\ head' = r /\ UNCHANGED <<workflow, governed, mixed, shown, check, runs>>
    BY <1>1 DEF Push
  <2>2. check'[head'] = "none"
    BY <1>a, <2>1 DEF Orderly, ChecksFollow, Revision
  <2>3. ChecksFollow'
    BY <1>a, <2>1 DEF Orderly, ChecksFollow, Running, Revision
  <2>4. \A n \in Running' : n \in Running /\ (Underway(n) => Underway(n)')
    BY <2>1 DEF Running, Underway, About, Labelled
  <2> QED
    BY <1>a, <2>1, <2>2, <2>3, <2>4 DEF Orderly, Alone, ShownIsCurrent
<1>2. ASSUME NEW who \in Reviewer, NEW state \in ReviewState, Review(who, state)
      PROVE  Orderly'
  BY <1>2, <1>a DEF Review, Orderly, Alone, ChecksFollow, ShownIsCurrent, Underway, About,
                    Labelled, Running
<1>3. ASSUME NEW n \in Run, NEW r \in Revision, Start(n, r) PROVE Orderly'
  <2>1. /\ Running = {} /\ r <= head
        /\ check' = [check EXCEPT ![r] = "pending"]
        /\ of' = [of EXCEPT ![n] = r]
        /\ pc' = [pc EXCEPT ![n] = "assert"]
        /\ UNCHANGED <<pullRequest, shown>>
    BY <1>3, <1>a DEF Start, Goto, InTurn
  <2>2. Running' = {n}
    BY <2>1 DEF Running
  <2>3. Alone' /\ ChecksFollow'
    BY <1>a, <2>1, <2>2 DEF Orderly, Alone, ChecksFollow, Revision
  <2>4. Underway(n)'
    BY <2>1 DEF Underway
  <2>5. ShownIsCurrent'
    BY <1>a, <2>1, <2>2 DEF Orderly, ShownIsCurrent, About, Labelled
  <2> QED
    BY <1>a, <2>1, <2>2, <2>3, <2>4, <2>5 DEF Orderly
<1>4. ASSUME NEW n \in Run, Step(n) PROVE Orderly'
  BY <1>4, <1>a, OrderlyRunStep
<1>5. CASE UNCHANGED vars
  BY <1>5, <1>a DEF vars, Orderly, Alone, ChecksFollow, ShownIsCurrent, Underway, About,
                    Labelled, Running
<1> QED
  BY <1>1, <1>2, <1>3, <1>4, <1>5 DEF Next

(* Where runs come one at a time and none fails on the way, the label and    *)
(* the one gate comment are those of the current revision once its run is    *)
(* over.                                                                     *)
THEOREM RunsInOrderSettle == Spec => []SettlesInOrder
<1>1. Init => Orderly
  BY GateAssumption, OrderlyInit
<1>2. (TypeOK /\ Safe) /\ Orderly /\ [Next]_vars => Orderly'
  BY GateAssumption, OrderlyStep
<1>3. Orderly => SettlesInOrder
  BY DEF Orderly, InTurn, ShownIsCurrent, SettlesInOrder, LabelSettles, Settled, About, Labelled
<1> QED
  BY <1>1, <1>2, <1>3, Invariance, PTL DEF Spec

(* Every state of the gate is one of its types. *)
THEOREM GateTypes == Spec => []TypeOK
BY Invariance, PTL
=============================================================================
