\* Two client slots: each may carry a flag while the other is at its base, on
\* the ground, or carried by the second player.  CTFFlag_proofs has the safety
\* properties for any number of slots.
SPECIFICATION Spec
CONSTANTS
  Players = {p1, p2}
  NoPlayer = NoPlayer
INVARIANTS
  TypeOK
  PossessionAgrees
  CarrierFights
  CallbacksFit
PROPERTIES
  CaptureIsEarned
  DroppedFlagMoves
  BaseReopens
  OrphanReturns
  ImplementsPossession
