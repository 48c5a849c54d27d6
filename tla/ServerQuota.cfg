\* Expired leases only: three calls by two principals.
CONSTANTS
  Grants = {g1, g2, g3}
  Keys = {k1, k2}
  Principals = {p1, p2}
  Sessions = {}
  None = None
  MaxKeys = 1
  SessionTtl = 1
  Uses = {"expiry"}
SPECIFICATION Spec
INVARIANT QuotaRespected
