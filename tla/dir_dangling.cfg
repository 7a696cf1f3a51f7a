CONSTANTS
    b1 = b1
    b2 = b2
    t = t
    ta = ta
    tb = tb
    u = u
    f = f
    g = g
    h = h
    None = None
    Pool = Pool
    Builders = {b1, b2}
    Nodes = {t, ta, tb, u}
    Above <- AboveTU
    Files = {f, g, h}
    FilesOf <- FilesTU
    Size <- Size1
    Requests <- RequestsFlat
    Settings <- SettingsLimited
    LaterSettings <- SettingsLimited
    Faults = {}
SPECIFICATION FairSpec
PROPERTY LinkedExist
