\* A holder that outlives ten idle lease times of the counter.
CONSTANTS
  Tokens = {t1, t2, t3}
  None = None
  Ttls = {1}
  FenceMult = 10
  RenewDiv = 3
  RespTimeout = 0
  Policy <- AllBalanced
  Prompt = FALSE
  Uses <- WriterUses
SPECIFICATION Spec
PROPERTIES
  FencedWritesNeverRegress
