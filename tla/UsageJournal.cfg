\* Crashes anywhere and any file operation failing; three clicks.
SPECIFICATION Spec
CONSTANTS
    Events = {e1, e2, e3}
    Torn = Torn
    None = None
INVARIANTS RecordedSurvives ClearedStaysCleared
