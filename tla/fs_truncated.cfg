CONSTANTS
    f1 = f1
    f2 = f2
    a = a
    b = b
    c = c
    na = na
    nb = nb
    nb2 = nb2
    nc = nc
    None = None
    Fetchers = {f1}
    Digests = {a, b, c}
    Nodes = {na, nb, nc}
    DigestOf <- DigestOfNode
    Size <- SizeABC
    MaxSize = 2
    BatchSize = 2
    MessageLimit = 2
    Requests <- RequestsABC
    MaxBatches = 3
    MaxStamp = 3
    Faults = {"truncate"}
SPECIFICATION Spec
VIEW LiveState
CHECK_DEADLOCK FALSE
INVARIANT OnlyVerified
