CONSTANTS
    MaxEvents = 2
    MaxSleeps = 1
    MaxEjects = 1
SPECIFICATION Spec
CHECK_DEADLOCK FALSE
INVARIANTS TaskThreadSafe WindowsKnown NoDiskOfFreedBus AttachAllOrNothing ReleasedByStop
