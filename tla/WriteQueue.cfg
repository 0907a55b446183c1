CONSTANTS
    MaxWrites = 5
    MaxCrashes = 3
SPECIFICATION FairSpec
INVARIANTS
    NeverMispaired
    CrashCostsOneWrite
PROPERTIES
    ImplementsLossyQueue
    PushedIsInspected
