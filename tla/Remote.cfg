\* The etcd backend, the watch hub, the gRPC client and the server's sweeper,
\* one per behaviour.
CONSTANTS
  Tokens = {t1, t2}
  None = None
  EtcdTtl = 2
  MaxSendErrors = 1
  EtcdUses = {"no watchdog", "extend", "error", "crash"}
  Subs = {c1, c2}
  Limits = {0, 1}
  MaxChanges = 2
  MaxProbeErrors = 1
  Sessions = {s1, s2}
  LeaseTtl = 3
  SessionTtl = 2
  Renew = 1
  Cadence = 1
  MaxFailures = 2
  MaxMisses = 2
  ClientUses = {"error", "crash", "extend", "attach again", "with token", "no watchdog"}
  ManyUses = {"attach again", "with token", "no watchdog"}
  First = {t1}
  Main = {s1}
  Keys = {k1, k2}
  Principals = {p1}
  MaxKeys = 1
  SweepTtl = 1
  Uses = {"error", "silence"}
SPECIFICATION Spec
INVARIANTS
  TypeOK
  HubConsistent
  
PROPERTIES
  ImplementsLeaseLock
  
  LastStateSeen
  
  ClientRecovers
  SilentSessionLosesLocks
