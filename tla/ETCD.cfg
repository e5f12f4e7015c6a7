SPECIFICATION FairSpec
CONSTANTS
    a = a
    b = b
    c1 = c1
    c2 = c2
    x1 = x1
    x2 = x2
    g1 = g1
    g2 = g2
    g3 = g3
    NULL = NULL
    LB = {a, b}
    Check = {c1, c2}
    Address = {x1, x2}
    AddressOf <- MCAddressOf
    Wanted <- MCWanted
    Agent = {g1, g2, g3}
    Agents <- MCAgents
    OtherMonitors = {{}}
    InitReachable <- MCReachable
    MaxChanges = 1
    MaxCrashes = 1
    MaxReadErrors = 1
    MaxWriteErrors = 1
    MaxMeddling = 1
    MaxMishaps = 2
INVARIANTS TypeOK
PROPERTIES MajorityOfAgents MajorityListed MonitorsRestored ListConverges
