SPECIFICATION Spec
CONSTANTS
    Retries = 2
    MaxIds = 6
    MaxIncidents = 2
CHECK_DEADLOCK FALSE
INVARIANTS
    NoneLeftBehind
PROPERTIES
    EventsComeBack
