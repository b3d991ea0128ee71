CONSTANTS
    N = 31
    Stacks <- MCLongStacks
    Tails <- MCTails
    Chops = {0}
    Modes = {"full"}
    PrefixLen = 2
    Kinds = {"stack"}
    ClassLens = {2}
    HeaderLen = 15
SPECIFICATION Spec
INVARIANT MemorySafe
CHECK_DEADLOCK FALSE
