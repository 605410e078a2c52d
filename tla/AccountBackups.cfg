SPECIFICATION Spec
CONSTANTS
    None = None
    Accounts = {a1, a2}
    Requests = {r1, r2, r3}
    Slots = 2
    Bodies <- MCBodies
    Situations <- MCSituations
    MaxLate = 1
INVARIANTS
    PermitsMatch
    ReadsLatest
    PhoneBackupsComeBack
    StoredIsReadable
PROPERTIES
    PhoneBackupsAreTaken
SYMMETRY Symmetry
