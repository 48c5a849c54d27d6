\* The Redis primitives, one per behaviour.
CONSTANTS
  Tokens = {t1, t2, t3}
  Few = {t1, t2}
  None = None
  Ttls = {1, 2}
  Lengths = {2}
  Uses = {"release", "release all", "drop", "extend", "error", "timeout"}
  MaxPermits = 2
  Owners = {o1, o2}
  HbTtl = 2
  HandoffTtl = 2
  QueueMult = 2
  Procs = {p1, p2, p3}
  Pair = {p1, p2}
  Keys = {1, 2, 3}
  MultiUses = {"error", "timeout", "expiry"}
  Parties = {p1, p2, p3}
  Waiters = {w1, w2}
  Counts = {0, 1, 2, 3}
  WillTtls = {1, 3}
  Workers = {p1, p2}
  EventTtl = 2
  MaxFence = 2
  MaxGap = 2
  MaxEvents = 3
SPECIFICATION Spec
INVARIANTS
  TypeOK
  ReadersAndWriters
  PermitsRespected
  
  NothingLeftBehind
  PassAfterAll
  LeaseOwnsKey
  VerdictExact
PROPERTIES
  
  NoBarging
  WillsFollowGrants
  CallersGoOn
