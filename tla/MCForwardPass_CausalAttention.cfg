CONSTANTS
    Token = {a, b}
    NoToken = NoToken
    NCtx = 4
    Prompts <- MCPrompts
SPECIFICATION FPSpec
INVARIANTS CausalAttention
