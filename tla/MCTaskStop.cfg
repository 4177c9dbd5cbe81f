\* A stop is answered before the worker has subscribed to its channel.
CONSTANTS
    tr = tr
    r1 = r1
    h1 = h1
    NoRun = NoRun
    Task <- RealtimeTask
    Realtime <- RealtimeTask
    TTLEnabled = {}
    Spark = {}
    Run <- OneRun
    Req <- OneReq
    MaxRunningTaskNr = 1
    MaxRunQuota = 1
    Method = {"start", "stop"}
    Fault = {}
SPECIFICATION StopSpec
PROPERTY AcknowledgedStopEnds
