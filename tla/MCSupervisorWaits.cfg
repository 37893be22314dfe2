SPECIFICATION Spec
CONSTANTS
    MetaSrvs = 1
    Datanodes = 1
    Frontends = 1
    EtcdRetries = 2
    EtcdctlOutputs <- MCEtcdctlOutputs
CHECK_DEADLOCK FALSE
INVARIANT WaitsForAll
