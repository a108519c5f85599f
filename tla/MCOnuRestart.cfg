SPECIFICATION RestartSpec
CONSTANTS
    MAX_NR_OF_ONUS = 3
    ubus = ubus
    other = other
    Ctx <- MCCtx
    NULL = NULL
    MaxPending = 1
SYMMETRY Symmetry
INVARIANTS
    HeardUnlessDeaf
    ListedIsHeardUnlessDeaf
    ListSeen
    ContextsAgree
    NoCallbackLeft
