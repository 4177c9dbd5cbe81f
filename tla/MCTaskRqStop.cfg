\* A stop of one task while another one runs.
CONSTANTS
    t1 = t1
    t2 = t2
    h1 = h1
    h2 = h2
    NoTask = NoTask
    Task = {t1, t2}
    TTLEnabled = {t1, t2}
    MaxStarts = 2
    Req = {h1}
SPECIFICATION Spec
PROPERTY StopEndsItsTask
CHECK_DEADLOCK FALSE
