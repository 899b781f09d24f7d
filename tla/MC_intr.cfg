CONSTANTS
    MaxCmds = 3
    MaxCardEvents = 2
SPECIFICATION FairSpec
CHECK_DEADLOCK FALSE
INVARIANTS ExactUntilTimeout SuccessesBacked
PROPERTIES WaitReturns
