SPECIFICATION Spec
CONSTANTS
    Clients = {c1, c2, c3}
    Exes = {"etcd", "etcdctl"}
    Chunks = 2
SYMMETRY ClientSymmetry
CHECK_DEADLOCK FALSE
INVARIANTS TypeOK PartialHasWriter BadPackageHasCause OkMeansInstalled
