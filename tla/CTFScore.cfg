\* Safety of the score, two client slots, a capture worth one point.
SPECIFICATION ScoreSpec
CONSTANTS
  Players = {p1, p2}
  NoPlayer = NoPlayer
  CapturePoints = 1
  CtfCapture = 0
  MapScoreMax = 1
  MaxPoints = 3
  MaxEach = 2
  MaxCaptures = 1
SYMMETRY Slots
INVARIANTS
  ScoresAddUp
PROPERTY
  TeamScoresFollowFlags
