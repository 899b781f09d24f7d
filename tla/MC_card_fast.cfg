CONSTANTS
    Kinds = {"SDHC"}
    OpCondTries = 2
    MaxInserts = 1
    MaxFaults = 0
SPECIFICATION Spec
CHECK_DEADLOCK FALSE
INVARIANTS FastMeansHighSpeed
