CONSTANTS
  Clients = {c1}
  Services <- MCServices
  PopService <- MCPopService
  MaxGateways = 2
  MaxSends = 1
  MaxSubscribes = 1
SPECIFICATION PopSpec
PROPERTY NoHandlerAfterRelease
CHECK_DEADLOCK FALSE
