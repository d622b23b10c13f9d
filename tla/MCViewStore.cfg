SPECIFICATION FairSpec
CONSTANTS
    i1 = i1
    i2 = i2
    pprof = pprof
    httplog = httplog
    Ids <- MCIds
    Endpoints <- MCEndpoints
    EndpointOf <- MCEndpointOf
    MaxDrops = 1
    MaxRestarts = 1
INVARIANTS
    TypeOK
    AtRestIsCurrent
PROPERTIES
    ForwardBeforeLists
    SettledIsShown
