SPECIFICATION FairSpec
CONSTANTS
  l1 = l1  l2 = l2
  u1 = u1  u2 = u2
  e1 = e1  e2 = e2  e3 = e3
  Loaders <- TwoLoaders
  Urls <- TwoUrls
  Entries <- ThreeEntries
  NoEntry = NoEntry
  MaxCached = 1
INVARIANTS CacheCoherent SingleFlight
PROPERTIES AbsenceStands RecoversFromFaults
