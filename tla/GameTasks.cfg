CONSTANTS
    WIDTH = 11
    HEIGHT = 6
    BottomRows = 1
    SpawnRows = {1}
    StartRow = 1
    PieceKinds <- MCPieceKinds
    StartLives = 1
    StartSpeed = 1
    MinSpeed = 2
    SpeedupEvery = 2
    Apps = {"game", "headless"}
    Buttons <- MCButtons
    Period <- MCPeriod
    StartDelay = 1
SPECIFICATION FairSpec
INVARIANTS
    GameSound
    FrameShown
PROPERTIES
    GameGoesOn
