CONSTANTS
    t1 = t1
    t2 = t2
    t3 = t3
    x = x
    y = y
    l1 = l1
    l2 = l2
    l3 = l3
    l4 = l4
    None = None
    Threads = {t1, t2, t3}
    Vars = {x, y}
    Locks = {l1, l2, l3, l4}
    Removers = {t1, t2}
SPECIFICATION FairSpec
INVARIANT TypeOK InsideIsCurrent MutualExclusion
PROPERTY ImplementsMutex SomebodyEnters
