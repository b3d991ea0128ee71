CONSTANTS
    MaxLine = 5
    Templates <- MCTemplates
    ArgLens = {0, 2, 3}
SPECIFICATION Spec
INVARIANT TypeOK
INVARIANT MemorySafe
INVARIANT RenderFaithful
INVARIANT RenderUsesRoom
CHECK_DEADLOCK FALSE
