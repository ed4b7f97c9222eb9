SPECIFICATION DashSpec
CONSTANTS
    Deps = {d1}
    Topics = {t}
    NoTopic = NoTopic
    Unknown = Unknown
    MaxEvents = 3
    MaxOutages = 1
    Others = {o1}
    MaxWire = 1
    Urls = {u1, u2}
    Nowhere = Nowhere
    MaxEdits = 1
    MaxTrouble = 3
INVARIANT AllKnownIsHealthy
PROPERTIES NoFalseStale DownDepForgotten NoStaleUrl ComesUp StopEnds
