SPECIFICATION FairSpec
CONSTANTS
  Subs = {1, 2}
  PayloadSizes = {1, 3}
  QueueCapacity = 2
  MaxSubscribers = 2
  MaxPayloadBytes = 2
  MaxSequence = 4
  MaxClients = 1
  WireCapacity = 1
  MaxFaults = 1
  None = None
CHECK_DEADLOCK FALSE
INVARIANTS TypeOK PacketsAccounted DeliveryReportsGap HealthyMeansGapless ClientKnowsLoss
PROPERTIES FeedSpec ServiceStops
