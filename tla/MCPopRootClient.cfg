CONSTANTS
  Clients = {c1}
  Services <- MCServices
  PopService <- MCPopService
  MaxGateways = 2
  MaxSends = 2
  MaxSubscribes = 1
SPECIFICATION PopSpec
INVARIANTS
  PopTypeOK
PROPERTY AnsweredOnLoss
PROPERTY GatewayEventsRefined
CHECK_DEADLOCK FALSE
