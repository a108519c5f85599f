SPECIFICATION Spec
CONSTANTS
    MAX_NR_OF_ONUS = 4
    ubus = ubus
    other = other
    Ctx <- MCCtx
    NULL = NULL
    MaxPending = 1
SYMMETRY Symmetry
INVARIANTS
    TypeOK
    ContextsAgree
    SubscribedOnce
    HeardOnKeptContext
    ListExact
    ListedIsHeard
    NoCallbackLeft
