SPECIFICATION Spec
CONSTANTS
    MaxCalls = 2
    MaxFaults = 1
    MaxMeddling = 1
INVARIANTS ChecksAreReal NoHarmDone
CHECK_DEADLOCK FALSE
