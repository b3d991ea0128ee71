CONSTANTS
    N = 83
    Stacks <- MCStacks
    Tails <- MCTails
    Chops = {0, 7, 9}
    Modes = {"full", "compact"}
    PrefixLen = 2
    Kinds = {"class", "stack"}
    ClassLens = {2}
    HeaderLen = 15
SPECIFICATION Spec
INVARIANT TypeOK
INVARIANT Aligned
 
INVARIANT UnchoppedFaithful
INVARIANT HeadPreserved
CHECK_DEADLOCK FALSE
