SPECIFICATION RtspSpec
CONSTANTS
    Callers = {webhook, web, mqtt}
    MaxLaunches = 3
    MaxRequests = 6
INVARIANT FfmpegIsWatched
PROPERTIES KeepsPromise
CHECK_DEADLOCK FALSE
