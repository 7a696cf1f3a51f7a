CONSTANTS
    th1 = th1
    th2 = th2
    r1 = r1
    r2 = r2
    dirA = dirA
    dirB = dirB
    dirC = dirC
    dirD = dirD
    Threads = {th1, th2}
    Digests = {r1, r2, dirA, dirB, dirC, dirD}
    SubdirsOf <- SubdirsRoots
    Size <- SizeSmall
    MessageLimit = 4
    Roots = {r1, r2}
    MaxCached = 3
    Faults = {"refuse", "call"}
SPECIFICATION FairSpec
INVARIANT TypeOK EntriesComplete BuildsWholeTree BatchesFit NothingDropped
PROPERTY FetchEnds
