SPECIFICATION NetSpec
CONSTANTS
    Services = {lights, cronenbergs}
    Users = {u, w}
    Values = {on, off}
    On = on
    Off = off
    Invalid = Invalid
    ByType = {lights}
    Cron = {cronenbergs}
    MaxSets = 2
    MaxPresses = 1
    MaxCrashes = 1
    MaxLists = 1
    MaxIncidents = 3
PROPERTIES NetSettles LightIsListed
CHECK_DEADLOCK FALSE
