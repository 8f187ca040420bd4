CONSTANTS
    d = d
    s = s
    m1 = m1
    m2 = m2
    u1 = u1
    u2 = u2
    Ids = {d, s}
    Documents = {d}
    Managers = {m1, m2}
    Main = m1
    Urls = {u1, u2}
    Reporting = {d}
    Rewritten <- MCRewritten
    UrlOf <- MCUrlOf
    OriginsOf <- MCOriginsOf
    MaxRemovals = 1
    MaxLogEvents = 1
SPECIFICATION Spec
CHECK_DEADLOCK FALSE
INVARIANTS Consistent LoadedMeansFinished InfosReachTheirHops LogShowsThePage
