SPECIFICATION Spec
CONSTANTS
    Number = {"1", "2"}
    Fixed <- MCFixed
    Coming <- MCComing
    Asked <- MCAsked
    NoFile = NoFile
    MaxChanges = 2
INVARIANTS
    TypeOK
    ListExact
    InstancesCovered
    GhostsAnnounced
PROPERTIES
    ImplementsMirror
