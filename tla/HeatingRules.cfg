SPECIFICATION SpecRules
CONSTANTS
    NumSlots = 3
    BoostLengths = {2}
    OffNowMaxSlots = 2
    MaxLag = 2
    MaxRequests = 1
    MaxCrashes = 1
    Window = {1}
INVARIANTS
    BoilerFollowsSchedule
    NoExpiredOverride
    TemplateOnDisk
PROPERTIES
    ImplementsHeating
    HeatedForAReason
    EndsOff
