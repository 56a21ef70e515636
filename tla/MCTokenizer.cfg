CONSTANTS
    Tokenizers <- MCTokenizers
    InputTexts <- MCInputTexts
    MaxMatch = 3
    Table = 5
    BOS = 128000
    EOS = 128001
    EOT = 128009
    PAD = 128004
SPECIFICATION FairSpec
INVARIANTS TokensCoverText CompleteNeedsNoFallback MergesAddNothing PlainRoundTrip
PROPERTIES EncodeReturns
