SPECIFICATION FairSpec
CONSTANTS
    Texts <- MCTexts
    Settings <- MCSettings
INVARIANTS
    TypeOK
    ChunksFit
    NoBlankChunk
    UnitsKept
    UnitsMeetReference
PROPERTY ChunkingEnds
CHECK_DEADLOCK FALSE
