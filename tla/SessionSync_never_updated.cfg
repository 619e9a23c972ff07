SPECIFICATION FairSpec

CONSTANTS
    g1 = g1
    Gateways = {g1}
    NumKeys = 1
    MaxSaves = 2
    MaxFaults = 0
    MaxStops = 0

PROPERTIES
    MirrorCatchesUp
