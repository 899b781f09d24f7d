CONSTANTS
    Kinds = {"SDSC", "SDHC", "MMC3", "MMC4"}
    OpCondTries = 3
    MaxInserts = 2
    MaxFaults = 2
SPECIFICATION FairSpec
CHECK_DEADLOCK FALSE
INVARIANTS NoDanglingCard NeverOverclocked CardAndHostAgree OffWhenIdle
PROPERTIES AttachEnds
