SPECIFICATION Spec
CONSTANTS
    p1 = p1
    Players <- MCPlayers
    Buffer = 1
    MaxTick = 4
    MaxRounds = 3
    MaxRows = 1
INVARIANTS TableIsScoreboard RowsAreInTheirRound WindowsCoherent
PROPERTY RowsAreKept
