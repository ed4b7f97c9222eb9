SPECIFICATION JournalSpec
CONSTANTS
    Units = {servicemon, telegram, heating}
    Self = servicemon
    None = None
    HistoryLen = 1
    MaxLogs = 1
    MaxClears = 1
PROPERTIES KnownIsWatched
CHECK_DEADLOCK FALSE
