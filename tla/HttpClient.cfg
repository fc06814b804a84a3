CONSTANTS
  Client = {c1, c2}
  Simple = {c1}
  Kind = {"count", "other", "throws", "malformed"}
SPECIFICATION SimpleSpec
CHECK_DEADLOCK FALSE
INVARIANT TypeOK
INVARIANT CountsGrow
INVARIANT AnsweredUnlessLate
PROPERTY EveryConnectionEnds
PROPERTY ClientEnds
