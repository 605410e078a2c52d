\* One dashboard at a time, two clicks, two batches, three requests.
SPECIFICATION SharingSpec
CONSTANTS
    e1 = e1
    e2 = e2
    e3 = e3
    b1 = b1
    b2 = b2
    b3 = b3
    Screens = {s1}
    Events = {e1, e2}
    ShortcutOf <- MCShortcutOf
    None = None
    MaxRequests = 3
    Batches = {b1, b2}
    Tokens = {t1}
    Shortcuts = {1, 2}
    Tags = {}
    Experiences = {}
    Null = Null
    Counts = {1, 2}
    MaxTotal = 2
    MaxDay = 0
    Threshold = 2
    Windows = {1}
CHECK_DEADLOCK FALSE
SYMMETRY BatchSymmetry
INVARIANTS EachClickSubmittedOnce TotalsNeverExceedClicks LiveBatchHasReceipt
PROPERTY SettledIsNotSent
