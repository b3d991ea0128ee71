CONSTANTS
    Alphabet <- MCAlphabet
    MaxName = 3
    MaxTable = 3
    Orders <- MCOrders
SPECIFICATION Spec
INVARIANTS TypeOK LookupCorrect
CHECK_DEADLOCK FALSE
