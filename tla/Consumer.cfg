SPECIFICATION Spec
CONSTANTS
    i1 = i1
    i2 = i2
    Instances <- MCTwo
    NumEntries = 2
    Malformed <- MCMalformed
    MaxAttempts = 2
    ReadCount = 2
    ClaimCount = 1
    MaxLen = 1
    MaxTrouble = 1
INVARIANTS
    TypeOK
    AttemptsExact
    OneOutcome
PROPERTIES
    ImplementsAtLeastOnce
    EveryEntrySettles
