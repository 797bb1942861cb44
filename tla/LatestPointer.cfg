SPECIFICATION FairSpec
CONSTANTS
  c1 = c1  c2 = c2
  r1 = r1  r2 = r2  r3 = r3
  Callers <- TwoCallers
  Refreshers <- ThreeRefreshers
  NoRefresh = NoRefresh
  NoSource = NoSource
  Pinned = Pinned
  MaxBuild = 2
INVARIANT RefreshCoherent
PROPERTIES AnswersGoForward EveryWaitEnds CatchesUp
