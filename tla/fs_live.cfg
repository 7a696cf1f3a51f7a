CONSTANTS
    f1 = f1
    f2 = f2
    a = a
    b = b
    c = c
    na = na
    nb = nb
    nb2 = nb2
    nc = nc
    None = None
    Fetchers = {f1, f2}
    Digests = {a, b, c}
    Nodes = {na, nb, nb2, nc}
    DigestOf <- DigestOfNode
    Size <- SizeABC
    MaxSize = 0
    BatchSize = 2
    MessageLimit = 2
    Requests <- RequestsBC
    MaxBatches = 4
    MaxStamp = 4
    Faults = {}
SPECIFICATION FairSpec
INVARIANT SingleFlight PendingServed NeverRaises DiskMatchesLedger
PROPERTY FetchReturns
