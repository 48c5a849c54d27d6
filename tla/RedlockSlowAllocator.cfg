\* No master fails; the allocator may answer after the lease is over.
CONSTANTS
  Tokens = {t1, t2}
  None = None
  N = 3
  Ttl = 3
  RenewDiv = 3
  Faulty = {}
  Prompt = FALSE
  Uses = {}
SPECIFICATION Spec
SYMMETRY Symmetry
INVARIANTS
  FencesFollowQuorums
