SPECIFICATION LiveSpec
CONSTANTS
    MetaSrvs = 2
    Datanodes = 1
    Frontends = 1
    EtcdRetries = 2
    EtcdctlOutputs <- MCOutputs
CHECK_DEADLOCK FALSE
PROPERTIES CancelEndsGtctl FailureEndsGtctl CancelStopsSupervised
