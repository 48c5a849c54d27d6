\* Two rounds interleave master by master; one master may fail.
CONSTANTS
  Tokens = {t1, t2}
  None = None
  N = 3
  Ttl = 3
  RenewDiv = 3
  Faulty = {2}
  Prompt = TRUE
  Uses = {"timeout", "error", "extend"}
SPECIFICATION Spec
SYMMETRY Symmetry
INVARIANTS
  TypeOK
  FencesFollowQuorums
  RollbackReleasesAll
PROPERTIES
  GrantDecidedOnQuorum
