SPECIFICATION Spec
CONSTANTS
  Monsters = {"talker", "guard"}
  Scripts = {"speak", "greet", "ambush"}
  None = None
  Name <- MCName
  Classic = {"speak", "greet"}
  Move <- MCMove
  Cast <- MCCast
  Idles = {"speak"}
  Repeatable = {"greet"}
  Override = {}
  Followers = {"talker"}
  Prey = {"talker"}
  Deadly = {"ambush"}
  Fighters = {"guard"}
  MaxDelay = 2
INVARIANTS TypeOK PossessionIsMutual ScriptTasksHaveScript
PROPERTIES StartTogether
CHECK_DEADLOCK FALSE
