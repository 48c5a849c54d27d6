\* A holder whose lease runs out while another caller waits.
CONSTANTS
  Tokens = {t1, t2}
  None = None
  Ttls = {2}
  HbTtl = 2
  HandoffTtl = 2
  QueueMult = 10
  Uses = {}
SPECIFICATION Spec
PROPERTY HeadWaiterServed
