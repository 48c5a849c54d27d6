\* One round and its handle while the allocator and another master may fail.
CONSTANTS
  Tokens = {t1}
  None = None
  N = 3
  Ttl = 3
  RenewDiv = 3
  Faulty = {1, 2}
  Prompt = FALSE
  Uses = {"watchdog", "timeout", "error", "drop", "crash", "release"}
SPECIFICATION FairSpec
PROPERTIES
  RingRecovers
