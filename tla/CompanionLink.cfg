\* Two Desktops and one without a manifest; two changes, two choices, the rest once.
SPECIFICATION FairSpec
CONSTANTS
    Desktops = {a, b, p}
    Plain = {p}
    None = None
    MaxRev = 2
    MaxFailures = 1
    MaxExpiries = 1
    MaxChoices = 2
    MaxDelays = 1
INVARIANT AtRestIsFresh
PROPERTIES ManifestOfSelected EventuallySynced
\* After a failed pairing nothing happens until the user chooses again.
CHECK_DEADLOCK FALSE
