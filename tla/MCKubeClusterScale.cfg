SPECIFICATION FairSpec
CONSTANTS
    Creators = {"c1"}
    Scalers = {"s1"}
    Deleters = {}
    Untimed = {}
    Timed = {"s1"}
    TearDown = {}
    Comps = {"frontend", "datanode"}
    ChartSpec <- MCChartSpec
    Wants <- MCWants
CHECK_DEADLOCK FALSE
PROPERTIES ScaleTimeoutEnds
