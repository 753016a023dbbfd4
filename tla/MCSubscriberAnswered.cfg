CONSTANTS
  Clients = {c1}
  Services <- MCServices
  MaxGateways = 1
  MaxSends = 0
  MaxSubscribes = 1
SPECIFICATION Spec
PROPERTY SubscriberAnswered
CHECK_DEADLOCK FALSE
