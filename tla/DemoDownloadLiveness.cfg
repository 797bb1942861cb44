SPECIFICATION FairSpec
CONSTANTS
  q1 = q1  q2 = q2  h1 = h1
  Requests <- TwoRequests
  Hosts <- OneHost
  HostOf <- SameHost
  NoHost = NoHost
  Nobody = Nobody
  Size = 1
  Attempts = 2
PROPERTY EveryRequestEnds
CHECK_DEADLOCK FALSE
