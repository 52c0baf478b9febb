SPECIFICATION Spec
CONSTANTS
  Item = {"x"}
  Entry = {"entry"}
  Dependency = {"d"}
  Owned <- Patterns
  Subset <- Narrower
  Metric = {"lines", "symbols"}
  Lines = "lines"
  Observation <- Trees
  Draft <- Drafts
  Environment <- Environments
  Command = {c1}
  MaxKept = 1
  Absent = Absent
  Unrecorded = Unrecorded
  NoFile = NoFile
INVARIANTS SealedIsReviewed GreenIsReviewed
PROPERTY UpdateSettles
CHECK_DEADLOCK FALSE
