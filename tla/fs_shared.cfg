CONSTANTS
    f1 = f1
    f2 = f2
    a = a
    b = b
    c = c
    na = na
    nb = nb
    nb2 = nb2
    nc = nc
    None = None
    Fetchers = {f1, f2}
    Digests = {a, b, c}
    Nodes = {na, nb, nc}
    DigestOf <- DigestOfNode
    Size <- Size1
    MaxSize = 2
    BatchSize = 1
    MessageLimit = 2
    Requests <- Requests1
    MaxBatches = 5
    MaxStamp = 4
    Faults = {"backend"}
SPECIFICATION Spec
SYMMETRY SharedSymmetry
VIEW LiveState
CHECK_DEADLOCK FALSE
INVARIANT SizeAccounted WithinBudget
PROPERTY NoClobber OkMeansLinked ImplementsStore
