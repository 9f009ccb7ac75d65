SPECIFICATION FairSpec
CONSTANTS
    e1 = e1
    custom = custom
    admin = admin
    adminCustom = adminCustom
    Clients = {c1}
    Workers = {w1}
    Envs <- MCEnvs
    NoClient = NoClient
    NoEnv = NoEnv
    Timestamps <- MCTimestamps
    HighWaterMark = 9
    Session <- MCSession
    Official = admin
    Custom = custom
    PrivateEnv <- MCPrivateEnv
    WorkerEnvs <- MCWorkerEnvs
    Admitted = {c1}
    EnvOf <- MCEnvOf
    StepsPerEpisode = 2
    Episodes = 1
    TotalSteps = 2
    MaxRequests = 1
    MaxReports = 1
    MaxLaunches = 2
    Idle = Idle
    Absent = Absent
    Faults = {"quit", "kill", "crash", "silence", "slow", "crossing"}
PROPERTIES SessionEnds WorkerReturns ImplementsBroker
