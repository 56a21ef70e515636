CONSTANTS
    TotalSize = 7
    LAYER_SIZE_BYTES = 2
    PREFETCH_DEPTH = 2
    Word = 8
SPECIFICATION FairSpec
INVARIANTS NoAdviseAfterUnmap AdviceInsideMapping
PROPERTIES CloseCompletes NextWindowPrefetched
