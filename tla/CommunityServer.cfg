\* Two batches, two tokens, two categories with counts up to 2, a tag, two days.
SPECIFICATION Spec
CONSTANTS
    b1 = b1
    b2 = b2
    Batches = {b1, b2}
    Tokens = {t1, t2}
    Shortcuts = {1, 2}
    Tags = {design}
    Experiences = {}
    Null = Null
    Counts = {1, 2}
    MaxTotal = 2
    MaxDay = 1
    Threshold = 2
    Windows = {1}
SYMMETRY BatchSymmetry
INVARIANTS TypeOK ContributionsMatchBatches CountsMatchBatches PublishedIsBacked
PROPERTIES OnlyOwnerRemoves
