SPECIFICATION Spec
CONSTANTS
    ann = ann
    bob = bob
    cid = cid
    Pairs <- MCPairs
    Scenes <- MCScenes
    MaxTick = 7
    MaxGap = 2
    MaxRounds = 2
    SprayTicks = 3
    EngagementTicks = 1
    LookbackTicks = 1
    ProbeEvery = 2
    Cadence = 2
    Late = 1
    MaxShots = 2
    Burst = 2
    Ents = {1, 2}
    Lag = 1
    Reach = 1
    MaxGrenades = 3
    ReplaySlots = 1
    Sites = {1, 2}
    MaxBombs = 5
    Flames <- MCFlames
    InfernoEvery = 2
    SampleEvery = 2
INVARIANT FirstShotHitIsFirstShot
