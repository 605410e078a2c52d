\* Two connections, two batches of up to two categories: rows are locked in turn.
SPECIFICATION TxSpec
CONSTANTS
    c1 = c1
    c2 = c2
    b1 = b1
    b2 = b2
    Conns = {c1, c2}
    Batches = {b1, b2}
    Tokens = {t1}
    Shortcuts = {1, 2}
    Tags = {}
    Experiences = {}
    Null = Null
    Counts = {1}
    MaxTotal = 2
    MaxDay = 1
    Threshold = 2
    Windows = {1}
SYMMETRY TxSymmetry
INVARIANTS NoDeadlock RowsStayCovered
PROPERTY ImplementsCommunityServer
