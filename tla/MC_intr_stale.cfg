CONSTANTS
    MaxCmds = 2
    MaxCardEvents = 0
SPECIFICATION Spec
CHECK_DEADLOCK FALSE
INVARIANTS SuccessMeansDone
