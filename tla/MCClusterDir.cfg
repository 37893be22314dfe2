SPECIFICATION Spec
CONSTANTS
    c1 = c1
    c2 = c2
    d1 = d1
    d2 = d2
    Creators = {c1, c2}
    Deleters = {d1, d2}
    Getters = {"g1"}
    StartOrder <- MCStartOrder
    WalkOrder <- MCWalkOrder
SYMMETRY Interchangeable
CHECK_DEADLOCK FALSE
INVARIANTS TypeOK RemoverSawDeadOwner LiveClusterIntact
PROPERTIES DeleteRefusesRunning 
