SPECIFICATION Spec
CONSTANTS
    Conns = {"a", "b"}
    Ports = {"4002"}
    Port <- MCPort
CHECK_DEADLOCK FALSE
INVARIANTS TypeOK OnlyRaceLosesOk
PROPERTIES ServedConnects ClientEndEnds
