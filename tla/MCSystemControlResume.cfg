CONSTANTS
    Requests = {r1, r2}
    MaxClock = 4
SPECIFICATION Spec
PROPERTY ResumeNeverClearsEmergencyStop
CHECK_DEADLOCK FALSE
