CONSTANTS
    Threads = {t1, t2}
    NoThread = NoThread
    Comms = {c1}
    SELF = SELF
    WORLD = WORLD
    Wins = {w1}
    Sessions = {"s1"}
    Groups = {"g0", "g1"}
    GroupSession <- MCGroupSession
    NoObj = NoObj
    NULLH = NULLH
    FATAL = FATAL
    RETURN = RETURN
    THROW = THROW
    ABORT = ABORT
    UserHandlers = {h1}
    LastClass = 2
    ERR_UNKNOWN = 2
    UserVals = {v1}
    NoUser = NoUser
    Entries = {"comm", "win", "session", "group", "session_init", "create_from_group"}
    CodeInputs <- MCLiveCodeInputs
    SetHandlers = {FATAL, RETURN, h1}
    MaxCalls = 2
    MaxSets = 1
SPECIFICATION Spec
PROPERTY DispatchCompletes
CHECK_DEADLOCK FALSE
