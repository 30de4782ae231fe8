SPECIFICATION PromiseSpec
CONSTANTS
    v = v
    w = w
    absent = absent
    noWalk = noWalk
    refused = refused
    Keys <- MCKeys
    Vals = {w}
    Literals <- MCLiterals
    Sources <- MCSources
    MAX_VERSION = 6
    Sizes <- MCSizes
    Absent = absent
    NoWalk = noWalk
    Refused = refused
INVARIANT OrderFits
PROPERTY IsPythonDict
