SPECIFICATION Spec
CONSTANTS
    n1 = n1
    n2 = n2
    n3 = n3
    n4 = n4
    Nodes = {n1, n2, n3, n4}
    NULL = NULL
    Key <- MCKey
    SIZE_WRAP = 9
INVARIANTS SameBothWays SizeExact
PROPERTY ImplementsSequence OperationsRight
SYMMETRY EqualKeys
CHECK_DEADLOCK FALSE
