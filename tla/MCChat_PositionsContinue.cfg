CONSTANTS
    BOS = BOS
    SYS = SYS
    USR = USR
    EOT = EOT
    AST = AST
    word = word
    pad = pad
    NoToken = NoToken
    Eos = {EOT}
    Silent = {EOT, pad, BOS}
    Token <- MCToken
    Sampled <- MCSampled
    Messages <- MCMessages
    Prompts <- MCPrompts
    NCtx = 12
    Window = 1
    MaxNew = 2
SPECIFICATION FairSpec
INVARIANTS PositionsContinue
