\* Two acquisitions, in each of the four settings.
CONSTANTS
  Tokens = {t1, t2}
  None = None
  Ttls = {2}
  FenceMult = 3
  RenewDiv = 3
  RespTimeout = 0
  Policy <- AllBalanced
  Prompt = FALSE
  Uses <- FencingUses
  DogTtls = {3}
  CowardlyTtls = {6}
  BalancedTtls = {3}
  OtherMult = 2
  SlowTimeout = 1
SPECIFICATION SettingSpec
SYMMETRY Symmetry
INVARIANTS
  TypeOK
  
  DropLeavesRelease
  AggressivePoison
  CounterFollowsOwner
  FencesFollowGrants
  StaleWindowBounded
PROPERTIES
  HoldEndsByOwner
  FencedWritesInOrder
  ImplementsLeaseLock
