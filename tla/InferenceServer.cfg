\* A session that runs, beside a page that prefetches another model; a cache of
\* one engine, two CPU threads, time.
SPECIFICATION ServerSpec
CONSTANTS
    ann = ann
    ben = ben
    act = act
    bct = bct
    None = None
    Reqs = {q1, q2}
    Connections = {ann, ben}
    Tokens = {ann, ben}
    TokenOf <- Own
    Models = {act, bct}
    ModelOf <- BenHasOther
    MaxModels = 1
    CpuThreads = 2
    MaxHellos <- AnnOnly
    Ttl = 1
    Retry = 1
    Rpc = 1
    FailClosed = 2
    Evict = 4
    MaxClock = 5
INVARIANTS EnginesCounted ThreadsGoOn OverEndsService
CHECK_DEADLOCK FALSE
