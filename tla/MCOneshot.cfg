CONSTANTS
    bos = bos
    sys = sys
    word = word
    pad = pad
    eot = eot
    NoToken = NoToken
    Eos = {eot}
    Silent = {eot, pad, bos}
    Token <- MCToken
    Sampled <- MCSampled
    UserPrompts <- MCUserPrompts
    RegressionIds <- MCRegression
    SpeedIds <- MCSpeed
    Prompts <- MCPrompts
    NCtx = 6
    ContextLen = 8
    Window = 2
    MaxNew = 3
    RegressionNew = 2
    SpeedNew = 3
    SPEED_RUNS = 2
SPECIFICATION FairSpec
INVARIANTS TypeOK PositionsFollowRows AnswersItsPromptOnly
PROPERTIES UsesForwardPass Terminates
