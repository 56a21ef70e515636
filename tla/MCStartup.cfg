CONSTANTS
    Address = {1, 2, 3, 4, 5, 6, 7, 8}
    Null = Null
    Files <- MCFiles
    Base = 256
    Word = 4096
    NCtx = 3
SPECIFICATION Spec
ACTION_CONSTRAINT LowestFree
INVARIANTS TypeOK NoBadFree NothingLeaked DecodeGraphAlive DataBehindHeader
           PassesReadTheMapping NothingOutlivesItsBase CleanExit BuffersSound
