SPECIFICATION FairSpec
CONSTANTS
    r1 = r1
    g1 = g1
    g2 = g2
    Rest <- Rests
    Grpc <- Grpcs
    BuildTime = 1
    Interval = 1
    CallTime = 1
    MaxMisses = 2
    TIMEOUT = 2
INVARIANTS HashRecent ReportTruthful
PROPERTIES RpcRecovers WorkerReleased
