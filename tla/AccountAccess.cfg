SPECIFICATION Spec
CONSTANTS
    Clients = {c1, c2}
    MaxClients = 1
    Window = 2
    Limit = 3
    Requests = {r1, r2}
    Tokens <- MCTokens
    ClientIds = {"web"}
    Published <- MCPublished
    Backoff = 1
    MinTTL = 2
    MaxTTL = 2
    MaxTime = 3
    None = None
INVARIANTS
    AdmissionsBounded
PROPERTIES
    FetchesAreSpaced
    KeysOnlyAdvance
    AcceptedIsCurrent
    RequestsEnd
