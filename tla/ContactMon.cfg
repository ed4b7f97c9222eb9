SPECIFICATION Spec
CONSTANTS
    door = door
    window = window
    Sensors <- MCSensors
    Acts <- MCActs
    Announced <- MCAnnounced
    Loop = loop
    Callers = {loop, page}
    MaxChimes = 2
    Timed <- MCSensors
    MaxReports = 5
    MaxOutages = 1
    MaxRestarts = 1
    MaxEvents = 5
INVARIANTS EntryIffOpen OpenIsTimed
PROPERTIES LeftOpenIsReported ChimesComeBack
