\* One request of the user at a time: two tasks share one place to run, a third asks for Spark.
CONSTANTS
    tb = tb
    tr = tr
    ts = ts
    r1 = r1
    r2 = r2
    h1 = h1
    h2 = h2
    NoRun = NoRun
    Task <- AllTasks
    Realtime <- RealtimeTask
    TTLEnabled <- BatchTask
    Spark <- SparkTask
    Run <- TwoRuns
    Req <- OneReq
    MaxRunningTaskNr = 1
    MaxRunQuota = 2
    Method = {"start", "stop", "match"}
    Fault = {"worker_crash"}
SPECIFICATION Spec
SYMMETRY RunSymmetry
INVARIANTS RunningLimit CompleteHasResult OneComputationPerTask
PROPERTY ImplementsLifecycle
