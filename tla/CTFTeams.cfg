SPECIFICATION Spec
CONSTANTS
  Players = {1, 2}
  AutoTeam = TRUE
INVARIANTS
  ClassMenuTellsTruth
  NobodyIsMisled
