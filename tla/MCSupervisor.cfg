SPECIFICATION Spec
CONSTANTS
    MetaSrvs = 1
    Datanodes = 1
    Frontends = 1
    EtcdRetries = 2
    EtcdctlOutputs <- MCOutputs
CHECK_DEADLOCK FALSE
INVARIANTS TypeOK WgCount StartOrder FailureCancels StopHasCause
PROPERTIES WaitReturns ImplementsLifecycle
