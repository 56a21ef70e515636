CONSTANTS
    Logits <- MCLogits
    Temps = {0, 1, 2}
    TopPs = {0, 60, 100, 101}
    TopK = 2
    Penalty = 2
    Window = 2
    Underflow = 5
    Seeds <- MCSeeds
    Width = 64
    MaxCalls = 3
SPECIFICATION Spec
INVARIANTS TypeOK PenaltyNeverPromotes KeptAreLikeliest NucleusIsSmallest NeverDrawsZero RngNeverZero
