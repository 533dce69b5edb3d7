\* A critical or high event and a low one, flush_all twice at once, and one restart,
\* failing call of Redis or expired key.
SPECIFICATION FairSpec
CONSTANTS
  e1 = e1
  e2 = e2
  kc = kc
  kh = kh
  kl = kl
  Event = {e1, e2}
  Key = {kc, kh, kl}
  Keyings <- MCKeyings
  SeverityOf <- MCSeverityOf
  Flusher = {timer, monitor}
  Recovery = Recovery
  None = None
  MaxBuffer = 1
  Batch = 2
  Backpressure = 40
  LowDrop = 45
  InfoDrop = 60
  DropAt = 100
  Faults = {"exit", "redis", "expiry"}
  MaxFaults = 1
INVARIANTS
  TypeOK
  OnlyRecoveryForgets
  BackpressureBounds
PROPERTIES
  DeliverySpec
  SecuredIsHanded
\* All events may have been handed over: nothing is left to do.
CHECK_DEADLOCK FALSE
