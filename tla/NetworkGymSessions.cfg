SPECIFICATION FairSpec
CONSTANTS
    e1 = e1
    custom = custom
    admin = admin
    adminCustom = adminCustom
    Clients = {c1, c2}
    Workers = {w1, w2}
    Envs <- MCEnvs
    NoClient = NoClient
    NoEnv = NoEnv
    Timestamps <- MCTimestamps
    HighWaterMark = 9
    Session <- MCSession
    Official = admin
    Custom = custom
    PrivateEnv <- MCPrivateEnv
    WorkerEnvs <- MCWorkerEnvs
    Admitted = {c1, c2}
    EnvOf <- MCEnvOf
    StepsPerEpisode = 2
    Episodes = 2
    TotalSteps = 4
    MaxRequests = 1
    MaxReports = 1
    MaxLaunches = 1
    Idle = Idle
    Absent = Absent
    Faults = {}
INVARIANTS OneAnswerPerRequest LockStep NoSimulationFails
PROPERTIES SessionEnds WorkerHearsItsClient
