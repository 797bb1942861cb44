SPECIFICATION MCSpec
CONSTANTS
  r1 = r1  r2 = r2
  Requests <- TwoRequests
  Slots <- OneSlotEach
  Paths = {1, 2, 3}
  Bases = {1, 2}
  Pinned = 1
  Revisions <- TwoRevisions
  MeshCdn = None
  Default = Default
  None = None
INVARIANTS SlotsCoherent
PROPERTIES ReportNamesItsWorlds EveryRequestEnds
CHECK_DEADLOCK FALSE
