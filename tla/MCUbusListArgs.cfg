SPECIFICATION Spec
CONSTANTS
    Number = {"1", "2"}
    Fixed <- MCFixed
    Coming <- MCComing
    Asked <- MCAskedOne
    NoFile = NoFile
    MaxChanges = 0
INVARIANTS
    DocumentedArgsServed
