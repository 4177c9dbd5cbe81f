\* Two tasks with a TTL, two requests at a time, every fault.
CONSTANTS
    t1 = t1
    t2 = t2
    h1 = h1
    h2 = h2
    NoTask = NoTask
    Task = {t1, t2}
    TTLEnabled = {t1, t2}
    MaxStarts = 2
    Req = {h1, h2}
SPECIFICATION Spec
INVARIANTS TypeOK AnsweredByOwnTask QueueHoldsTheJob
PROPERTIES FollowsLifecycle OneJobPerStop
SYMMETRY Alike
CHECK_DEADLOCK FALSE
