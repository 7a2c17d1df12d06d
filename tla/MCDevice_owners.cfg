SPECIFICATION Spec
CONSTANTS
  Worlds <- MCWorlds
  Types <- MCTypes
  Objects = {x1, x2}
  MaxCreated = 3
  MaxBuilds = 2
INVARIANTS TypeOK HandlesLive NothingHeld FirstInstance
CHECK_DEADLOCK FALSE
