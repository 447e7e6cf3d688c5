CONSTANTS
  W = 8
  CpuId = {0, 2, 6}
  MaxFaults = 2
  Ring = 3
  MaxSent = 7
  MaxCauses = 6
  Machines <- MCMachines
  DriverOrders <- MCOrders
SPECIFICATION FairSpec
INVARIANTS
  TopologyExact
  DecodeSound
  ResourcesExact
  MessagesExact
  ProbedOnce
  TransmitSound
  BootSound
PROPERTY CpusStart
CHECK_DEADLOCK FALSE
