\* Two clients: the death of the second one cuts off the sound of the first.
SPECIFICATION Spec
CONSTANTS
  MaxSounds = 3
  MaxPlayers = 2
  Monsters = {m1, m2}
  Nobody = Nobody
  Wary = FALSE
INVARIANT
  ClientsStayAudible
