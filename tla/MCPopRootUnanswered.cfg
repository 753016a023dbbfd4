CONSTANTS
  Clients = {c1}
  Services <- MCServices
  PopService <- MCPopService
  MaxGateways = 1
  MaxSends = 1
  MaxSubscribes = 1
SPECIFICATION PopSpec
PROPERTY AnsweredWhileUp
CHECK_DEADLOCK FALSE
