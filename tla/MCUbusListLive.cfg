SPECIFICATION FairSpec
CONSTANTS
    Number = {"1", "2"}
    Fixed <- MCFixed
    Coming <- MCComing
    Asked <- MCAskedOne
    NoFile = NoFile
    MaxChanges = 2
PROPERTIES
    InstancesSettle
