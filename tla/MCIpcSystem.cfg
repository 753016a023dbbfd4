CONSTANTS
  Clients = {c1}
  Services <- MCServices
  MaxGateways = 2
  MaxSends = 1
  MaxSubscribes = 2
SPECIFICATION Spec
INVARIANT TypeOK
INVARIANT NoCrossTalk
INVARIANT ConnectedDelivered
INVARIANT TerminalCompleted
CHECK_DEADLOCK FALSE
