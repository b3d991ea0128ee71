CONSTANTS
    Threads = {t1, t2}
    NoThread = NoThread
    NoUser = NoUser
    RingSize = 2
    SeqSize = 2
    LastClass = 3
    ERR_OTHER = 2
    ERR_IN_STATUS = 3
    NumGeneric = 2
    UserGeneric = 1
    UserCodes = {u1}
    ClassInputs = {1}
    GenericInputs = {0}
    SeqInputs = {0, 1}
    FatalInputs = {FALSE, TRUE}
    MaxCreates = 4
    MaxCombines = 0
    WithCombine = FALSE
SYMMETRY ThreadSymmetry
SPECIFICATION Spec
INVARIANT FatalPropagates
CHECK_DEADLOCK FALSE
