\* release() while the watchdog's renewal is under way.
CONSTANTS
  Tokens = {t1}
  None = None
  Ttls = {3}
  FenceMult = 10
  RenewDiv = 3
  RespTimeout = 0
  Policy <- AllBalanced
  Prompt = FALSE
  Uses <- ReleaserUses
SPECIFICATION Spec
PROPERTIES
  ReleaseIsNotLoss
