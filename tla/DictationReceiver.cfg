\* Repeated, conflicting and failing phrases; the memory holds fewer keys than there are.
SPECIFICATION FairSpec
CONSTANTS
    Requests = {1, 2, 3, 4, 5, 6}
    KeyOf <- MCKeyOf
    TextOf <- MCTextOf
    Malformed = {6}
    MaxPending = 3
    MaxRemembered = 2
CHECK_DEADLOCK FALSE
INVARIANTS AcknowledgedWasInserted ReplayNeedsFullWindow
PROPERTY AdmittedIsAnswered
