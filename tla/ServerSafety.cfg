\* Every operation and every fault: two calls, two keys, one session.
CONSTANTS
  Grants = {g1, g2}
  Keys = {k1, k2}
  Principals = {p1, p2}
  Sessions = {s1}
  None = None
  MaxKeys = 1
  SessionTtl = 1
  Uses = {"expiry", "error", "force", "close", "silence", "drain"}
SPECIFICATION Spec
SYMMETRY Symmetry
INVARIANTS
  CountsMatchHolders
  SessionEndReleasesLocks
  RejectedLeavesNothing
