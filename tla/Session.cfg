SPECIFICATION FairSpec
CONSTANTS
  MaxMsgs = 3
  MaxFaults = 2
  Policies <- PeersAndServers
INVARIANTS IInv InOrderArrival DeliveryInv
PROPERTY LosslessDelivery
CHECK_DEADLOCK FALSE
