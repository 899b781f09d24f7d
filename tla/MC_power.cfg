CONSTANTS
    Freqs = {400, 50000}
    MaxOps = 2
    MaxMeets = 1
SPECIFICATION Spec
CHECK_DEADLOCK FALSE
INVARIANTS OutputNeedsPower NeverFaster OffIsOff LocksReturned
VIEW Seen
