SPECIFICATION Spec
CONSTANTS
    Creators = {"c1", "c2"}
    Scalers = {"s1", "s2"}
    Deleters = {"d1"}
    Untimed = {"c2"}
    Timed = {"s1"}
    TearDown = {"d1"}
    Comps = {"frontend", "datanode"}
    ChartSpec <- MCChartSpec
    Wants <- MCWants
CHECK_DEADLOCK FALSE
INVARIANTS TypeOK ClusterHasOperator ScaleKept
PROPERTIES ImplementsReplicas
