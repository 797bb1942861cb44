SPECIFICATION Spec
CONSTANTS
  q1 = q1  q2 = q2  h1 = h1
  Requests <- TwoRequests
  Hosts <- OneHost
  HostOf <- SameHost
  NoHost = NoHost
  Nobody = Nobody
  Size = 2
  Attempts = 3
SYMMETRY Symmetry
INVARIANTS SpoolCoherent OnePerHost ResultIsWhole
PROPERTY RetriesOnlyBroken
CHECK_DEADLOCK FALSE
