CONSTANTS
    N = 83
    Stacks <- MCStacks
    Tails <- MCTails
    Chops = {7}
    Modes = {"full"}
    PrefixLen = 2
    Kinds = {"class", "stack"}
    ClassLens = {2}
    HeaderLen = 15
SPECIFICATION Spec
INVARIANT ContentFaithful
CHECK_DEADLOCK FALSE
