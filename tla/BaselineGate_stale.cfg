SPECIFICATION Spec
CONSTANTS
  Run = {n1, n2}
  Reviewer = {owner, other}
  Owners = {owner}
  MaxRevision = 2
  MaxReviews = 0
  Workflows <- Documented
INVARIANT LabelSettles
CHECK_DEADLOCK FALSE
