SPECIFICATION Spec
CONSTANTS
    Threads = {t, u}
    Speakers = {a, b}
    None = None
    MaxRequests = 3
    MaxChanges = 1
    MaxOutages = 1
INVARIANTS FreshContext AnswerIsComing StopAllSilences
SYMMETRY Symmetry
CHECK_DEADLOCK FALSE
