SPECIFICATION Spec
CONSTANTS
    c1 = c1
    c2 = c2
    w1 = w1
    w2 = w2
    w3 = w3
    e1 = e1
    custom = custom
    admin = admin
    test = test
    adminCustom = adminCustom
    testCustom = testCustom
    Clients = {c1, c2}
    Workers = {w1, w2, w3}
    Envs <- MCEnvs
    NoClient = NoClient
    NoEnv = NoEnv
    Timestamps = {0}
    HighWaterMark = 1
    Connecting = {c2, w2}
    Session <- MCSession
    Official = admin
    Custom = custom
    PrivateEnv <- MCPrivateEnv
    WorkerEnvs <- MCWorkerEnvs
    Admitted = {c1, c2}
    Idle = Idle
    Absent = Absent
INVARIANTS IInv ForeignOnlyByName
PROPERTIES SilentWorkerNeverAssigned ImplementsWorkerPool
