SPECIFICATION FairSpec
CONSTANTS
    v = v
    Vhosts = {v}
    NIfs = 2
    Tables <- MCTables
    MaxConns = 2
    MaxFrames = 2
    NoHost = NoHost
INVARIANTS TypeOK SettledId AbortOnlyOvertaken StaticRoutesKnown
PROPERTIES GetsReady
CHECK_DEADLOCK FALSE
