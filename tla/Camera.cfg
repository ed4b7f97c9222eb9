SPECIFICATION Spec
CONSTANTS
    Zones = {"Motion"}
    MaxRecordings = 2
    MaxJobs = 2
    MaxEvents = 3
    MaxOutages = 1
    SnapHistory = 1
    MaxSnaps = 3
INVARIANTS LastSnapIsKept NoSilentMotion
PROPERTIES DetectedIsRecorded MotionEnds
CHECK_DEADLOCK FALSE
