SPECIFICATION DoormanSpec
CONSTANTS
    Lights = {hall}
    MaxTimers = 3
    MaxEvents = 4
INVARIANTS SceneHasTimer ManagedIsOurs CountsAreTodays
PROPERTIES LightsGoOff
CHECK_DEADLOCK FALSE
