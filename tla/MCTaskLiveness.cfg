\* Fair processes, computations that may last for ever, every fault but a crash of
\* the housekeeper and a failing read of the pods.
CONSTANTS
    tb = tb
    tr = tr
    ts = ts
    r1 = r1
    r2 = r2
    h1 = h1
    h2 = h2
    NoRun = NoRun
    Task <- BothTasks
    Realtime <- RealtimeTask
    TTLEnabled <- BatchTask
    Spark = {}
    Run <- OneRun
    Req <- OneReq
    MaxRunningTaskNr = 1
    MaxRunQuota = 1
    Method = {"start", "stop", "match", "delete"}
    Fault = {"pod_oom", "k8s_error", "api_crash", "worker_crash", "pod_lost"}
SPECIFICATION FairSpec
PROPERTIES DeliveredStopEnds TTLBounds DeadRunsSettle PodMovesTaskOn
