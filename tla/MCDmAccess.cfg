SPECIFICATION Spec
CONSTANTS
    Number = {"1", "2"}
    NoIndex = NoIndex
    Fixed <- MCFixed
    Coming <- MCComing
    Foreign <- MCForeign
INVARIANTS
    TypeOK
    RightObjectCalled
    RightObjectTold
    KeyOfInstance
    NothingReportedIsLost
    KnownObjectsServed
    ToldInBbfUnlessRemoved
