CONSTANTS
    ArraySize = 3
    Addrs = {1, 2, 3, 4, 5}
    MaxPages = 3
    MaxCmds = 2
SPECIFICATION Spec
CHECK_DEADLOCK FALSE
INVARIANTS NothingLeaks ArraysSuffice ChipOnLiveBuffers AtRestAsLinux VerdictMatches TableCoversTransfer
