CONSTANTS
    MaxAttempts = 2
    Writes = {1}
    MaxFaults = 2
    Fallible <- Faults
    Setups <- MCSetups
    Misrecorded = {}
    None = None
SPECIFICATION Spec
CHECK_DEADLOCK FALSE
INVARIANTS  CutoverEvidenceIsFresh
   
