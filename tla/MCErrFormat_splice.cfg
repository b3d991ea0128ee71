CONSTANTS
    MaxLine = 5
    Templates <- MCTemplates
    ArgLens = {0, 2, 3}
SPECIFICATION Spec
INVARIANT RenderPrefix
CHECK_DEADLOCK FALSE
