CONSTANTS
    Threads = {t1, t2}
    NoThread = NoThread
    NoUser = NoUser
    RingSize = 2
    SeqSize = 2
    LastClass = 3
    ERR_OTHER = 2
    ERR_IN_STATUS = 3
    NumGeneric = 2
    UserGeneric = 1
    UserCodes = {u1}
    ClassInputs = {1, 2, 3}
    GenericInputs = {0, 1}
    SeqInputs = {0, 1}
    FatalInputs = {FALSE}
    MaxCreates = 3
    MaxCombines = 0
    WithCombine = FALSE
SYMMETRY ThreadSymmetry
SPECIFICATION Spec
INVARIANT TypeOK
INVARIANT LiveChainFaithful
INVARIANT UserCodeFaithful
CHECK_DEADLOCK FALSE
