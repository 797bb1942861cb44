SPECIFICATION Spec
CONSTANTS
  r1 = r1  r2 = r2
  Requests <- TwoRequests
  Slots <- OneSlotEach
  Paths = {1, 2, 3}
  Bases = {1, 2}
  Pinned = 1
  Revisions <- TwoRevisions
  MeshCdn = None
  Default = Default
  None = None
INVARIANT DriftHoldsUnderSlot
CHECK_DEADLOCK FALSE
