\* Two calls may overlap, two phrases may wait.
SPECIFICATION FairDictation
CONSTANTS
    Calls = {c1, c2}
    Models = {m1, m2}
    None = None
    MaxQueued = 2
INVARIANTS DroppedStaysDropped MicIsShown SessionHasModel EndIsFinal
PROPERTIES CallsEnd
