SPECIFICATION FairSpec
CONSTANTS
  Run = {n1, n2}
  Reviewer = {owner, second, other}
  Owners = {owner, second}
  MaxRevision = 2
  MaxReviews = 1
  Workflows <- Both
INVARIANTS PassedMeansApproved PassedMeansSeparate SettlesInOrder
PROPERTY ApprovalUnblocks
CHECK_DEADLOCK FALSE
