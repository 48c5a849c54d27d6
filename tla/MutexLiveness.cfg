\* Fairness for time, the watchdog tasks and the end of their requests; one
\* holder with a watchdog and one that does everything by hand.
CONSTANTS
  Tokens = {t1, t2}
  None = None
  Ttls = {2}
  FenceMult = 2
  RenewDiv = 3
  RespTimeout = 0
  Policy <- AllBalanced
  Prompt = FALSE
  Uses <- MixedUses
SPECIFICATION FairSpec
PROPERTIES
  HandlesRecover
