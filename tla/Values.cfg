SPECIFICATION EveryString
CONSTANTS
    MaxLen = 5
    SSIZE_MAX = 2047
    INT_MAX = 127
    PORT_MAX = 41
    KILO = 4
INVARIANTS SizeExactOrRefused AddrPortExact
CHECK_DEADLOCK FALSE
