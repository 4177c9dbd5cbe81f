\* One pod, two requests at a time, every fault but a failing read of the pods.
CONSTANTS
    tb = tb
    tr = tr
    ts = ts
    r1 = r1
    r2 = r2
    h1 = h1
    h2 = h2
    NoRun = NoRun
    Task <- RealtimeTask
    Realtime <- RealtimeTask
    TTLEnabled <- RealtimeTask
    Spark = {}
    Run <- OneRun
    Req <- TwoReqs
    MaxRunningTaskNr = 1
    MaxRunQuota = 1
    Method = {"start", "stop", "match", "rapid", "delete"}
    Fault = {"api_crash", "k8s_error", "worker_crash", "pod_lost", "pod_oom", "hk_crash"}
SPECIFICATION Spec
SYMMETRY ReqSymmetry
INVARIANTS TypeOK OutcomeIsFinal CompletedIsOver
