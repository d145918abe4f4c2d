\* A pool of three entries, one or two of them taken by clients, two monsters.
SPECIFICATION Spec
CONSTANTS
  MaxSounds = 3
  MaxPlayers = 2
  Monsters = {m1, m2}
  Nobody = Nobody
  Wary = FALSE
INVARIANTS
  ListsAreApart
  NoListIsCircular
  OnlyClientsAreLost
PROPERTIES
  ImplementsPool
  HeardSoundIsFound
  WalksEnd
  OldSoundsGo
