SPECIFICATION Spec
CONSTANTS
    xpon_onu = xpon_onu
    transceiver_1 = transceiver_1
    transceiver_2 = transceiver_2
    Onu = xpon_onu
    Static <- MCStatic
    Dynamic <- MCDynamic
    Changing <- MCChanging
    Enableable <- MCEnableable
    Absent = Absent
    MaxEdits = 3
    MaxRequests = 2
INVARIANTS
    TypeOK
    OutOfSyncExplained
    EnableAckedHolds
    LastEnableWins
    CallInv
PROPERTIES
    ReportsNeverGoBack
