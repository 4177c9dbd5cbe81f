------------------------------ MODULE NmTaskRq ------------------------------
(***************************************************************************)
(* The name matching task executor without Kubernetes (ECS and             *)
(* docker-compose): the branches of the API handlers and of                *)
(* server/compute/rq_worker.py for a queue of RQ.  There is one worker for *)
(* each type of task, which runs one job at a time, and all jobs of a type *)
(* have the same id, nm_batch_task or nm_realtime_task: one record in      *)
(* Redis, one should_stop flag.  There are no pods, services, run records  *)
(* nor housekeeper.                                                        *)
(*                                                                         *)
(* The tasks here are of one type, as the two queues do not meet.  Each is *)
(* of a user of its own, so that max_running_task_nr says no more than     *)
(* that a task which runs is not started.                                  *)
(***************************************************************************)
EXTENDS FiniteSets, Naturals

CONSTANTS
    Task,         \* tasks of one type, which share a worker
    TTLEnabled,   \* those whose running_parameter has TTL_enable
    NoTask,       \* a value that is not a task
    Req,          \* request threads of the API server
    MaxStarts     \* bound: how many start requests come

ASSUME RqAssumption ==
    /\ Task # {} /\ IsFiniteSet(Task) /\ NoTask \notin Task
    /\ TTLEnabled \subseteq Task
    /\ MaxStarts \in Nat

VARIABLES
    realtime,   \* the type of the tasks, which never changes
    status,     \* [Task -> Status]: nm_status of the row, as committed
    active,     \* [Task -> BOOLEAN]: its is_active column
    job,        \* the record of the job id in Redis
    queued,     \* how often the job id stands in the queue
    flag,       \* the key <job>:should_stop is 1
    worker,     \* the RQ worker with its job
    child,      \* the computation subprocess of the job
    req,        \* [Req -> Request]: the API requests being served
    starts,     \* history: the number of start requests
    overlap,    \* history: two requests were served at the same time
    revived,    \* history: tasks that a late query has made READY again
    asked       \* history: the tasks whose stop the flag asks for, as long as
                \* the worker has not acted on it

shared  == <<status, active>>
redis   == <<job, queued, flag>>
history == <<starts, overlap, revived, asked>>
vars    == <<realtime, shared, redis, worker, child, req, history>>

RunningStatus == {"PREPARING", "LAUNCHING", "READY", "TERMINATING"}
EndStatus     == {"COMPLETE", "FAILED", "OOMKILLED", "STOPPED", "TERMINATED"}
Status        == {"INIT"} \cup RunningStatus \cup EndStatus

\* get_status of a job: without a record it is none.
Job == [status: {"none", "queued", "started", "finished", "failed"},
        task: Task \cup {NoTask}]

Loop     == {"check", "poll"}
WorkerPc == {"idle", "get_task", "launch_write", "popen",
             "stop_kill", "stop_write", "reset", "ttl_kill", "ttl_write",
             "end_read", "end_write", "return"} \cup Loop
Worker   == [pc: WorkerPc, task: Task \cup {NoTask}, expired: BOOLEAN]
AtRest   == [pc |-> "idle", task |-> NoTask, expired |-> FALSE]

ChildAlive == {"load", "save", "saved", "term", "ready", "serving"}
Child == [pc: {"none", "ok", "failed", "oom", "killed"} \cup ChildAlive, copy: Status]
NoChild == [pc |-> "none", copy |-> "INIT"]
Live == child.pc \in ChildAlive

Request == [pc: {"idle", "start_read", "start_write", "rq_check", "enqueue",
                 "match_write", "match_send", "answered"},
            task: Task \cup {NoTask},
            by: Task \cup {NoTask}]     \* the task whose process has answered
Idle == [pc |-> "idle", task |-> NoTask, by |-> NoTask]

TypeOK ==
    /\ realtime \in BOOLEAN
    /\ status \in [Task -> Status]
    /\ active \in [Task -> BOOLEAN]
    /\ job \in Job
    /\ queued \in 0 .. MaxStarts
    /\ flag \in BOOLEAN
    /\ worker \in Worker
    /\ child \in Child
    /\ req \in [Req -> Request]
    /\ starts \in 0 .. MaxStarts /\ overlap \in BOOLEAN
    /\ revived \subseteq Task /\ asked \subseteq Task

Init ==
    /\ realtime \in BOOLEAN
    /\ status = [t \in Task |-> "INIT"]
    /\ active = [t \in Task |-> TRUE]
    /\ job = [status |-> "none", task |-> NoTask]
    /\ queued = 0
    /\ flag = FALSE
    /\ worker = AtRest
    /\ child = NoChild
    /\ req = [h \in Req |-> Idle]
    /\ starts = 0 /\ overlap = FALSE
    /\ revived = {} /\ asked = {}

-----------------------------------------------------------------------------
(* The API requests.                                                       *)

Goto(h, pc) == req' = [req EXCEPT ![h].pc = pc]
Return(h)   == req' = [req EXCEPT ![h] = Idle]

Begin(h, t, pc) ==
    /\ req[h].pc = "idle"
    /\ active[t]
    /\ req' = [req EXCEPT ![h] = [Idle EXCEPT !.pc = pc, !.task = t]]
    /\ overlap' = (overlap \/ \E g \in Req : req[g].pc # "idle")
    /\ UNCHANGED <<realtime, shared, redis, worker, child, revived, asked>>

\* POST /tasks/nm/{id}/start
StartValidate(h, t) ==
    /\ starts < MaxStarts
    /\ status[t] \notin RunningStatus
    /\ Begin(h, t, "start_read")
    /\ starts' = starts + 1

\* change_task_status reads the row; it raises when the task was deleted.
StartRead(h) ==
    /\ req[h].pc = "start_read"
    /\ IF active[req[h].task] THEN Goto(h, "start_write") ELSE Return(h)
    /\ UNCHANGED <<realtime, shared, redis, worker, child, history>>

StartWrite(h) ==
    /\ req[h].pc = "start_write"
    /\ status' = [status EXCEPT ![req[h].task] = "PREPARING"]
    /\ revived' = revived \ {req[h].task}
    /\ Goto(h, "rq_check")
    /\ UNCHANGED <<realtime, active, redis, worker, child, starts, overlap, asked>>

\* Mutant: a job that waits in the queue leaves its worker available.
StartCheckStarted(h) ==
    /\ req[h].pc = "rq_check"
    /\ IF job.status # "started" THEN Goto(h, "enqueue") ELSE Return(h)
    /\ UNCHANGED <<realtime, shared, redis, worker, child, history>>

\* is_rq_worker_available; EXECUTOR__TASK_WORKER_NOT_AVAILABLE leaves the task
\* as it is by now.
StartCheck(h) ==
    /\ req[h].pc = "rq_check"
    /\ IF job.status \in {"none", "finished", "failed"} THEN Goto(h, "enqueue") ELSE Return(h)
    /\ UNCHANGED <<realtime, shared, redis, worker, child, history>>

\* Mutant: the enqueue is tried again although it has succeeded.
StartEnqueueTwice(h) ==
    /\ req[h].pc = "enqueue"
    /\ job' = [status |-> "queued", task |-> req[h].task]
    /\ queued' = queued + 2
    /\ Return(h)
    /\ UNCHANGED <<realtime, shared, flag, worker, child, history>>

\* The record of the job id is written anew, whatever it was.
StartEnqueue(h) ==
    /\ req[h].pc = "enqueue"
    /\ job' = [status |-> "queued", task |-> req[h].task]
    /\ queued' = queued + 1
    /\ Return(h)
    /\ UNCHANGED <<realtime, shared, flag, worker, child, history>>

\* POST /tasks/nm/{id}/stop: without a record there is no job to name, and the
\* request fails.  The flag lives for 30 seconds.
Stop(t) ==
    /\ active[t]
    /\ job.status # "none"
    /\ flag' = TRUE
    /\ asked' = asked \cup {t}
    /\ UNCHANGED <<realtime, shared, job, queued, worker, child, req, starts, overlap, revived>>

FlagExpires ==
    /\ flag
    /\ flag' = FALSE
    /\ asked' = {}
    /\ UNCHANGED <<realtime, shared, job, queued, worker, child, req, starts, overlap, revived>>

\* POST /tasks/nm/{id}/match: the row is read, written back with the option of
\* the query, and then the one realtime process there is gets the query.
MatchRead(h, t) ==
    /\ realtime
    /\ status[t] = "READY"
    /\ Begin(h, t, "match_write")
    /\ UNCHANGED starts

MatchWrite(h) ==
    /\ req[h].pc = "match_write"
    /\ LET t == req[h].task
       IN  /\ status' = [status EXCEPT ![t] = "READY"]
           /\ revived' = IF status[t] # "READY" THEN revived \cup {t} ELSE revived
    /\ Goto(h, "match_send")
    /\ UNCHANGED <<realtime, active, redis, worker, child, starts, overlap, asked>>

\* TASK__STATUS_DISORDER when nobody listens.
MatchSend(h) ==
    /\ req[h].pc = "match_send"
    /\ IF child.pc = "serving"
       THEN req' = [req EXCEPT ![h] = [@ EXCEPT !.pc = "answered", !.by = worker.task]]
       ELSE Return(h)
    /\ UNCHANGED <<realtime, shared, redis, worker, child, history>>

Answer(h) ==
    /\ req[h].pc = "answered"
    /\ Return(h)
    /\ UNCHANGED <<realtime, shared, redis, worker, child, history>>

\* DELETE /tasks/nm/{id}: there are no run records to go through.
Delete(t) ==
    /\ active[t]
    /\ active' = [active EXCEPT ![t] = FALSE]
    /\ UNCHANGED <<realtime, status, redis, worker, child, req, history>>

-----------------------------------------------------------------------------
(* The worker: RQ takes a job, run_task_in_subprocess runs it.             *)

GotoW(pc) == worker' = [worker EXCEPT !.pc = pc]

\* The job id leaves the queue, and what the record says by now is run.
TakeJob ==
    /\ worker.pc = "idle"
    /\ queued > 0
    /\ queued' = queued - 1
    /\ IF job.status = "none"
       THEN UNCHANGED <<job, worker>>
       ELSE /\ job' = [job EXCEPT !.status = "started"]
            /\ worker' = [AtRest EXCEPT !.pc = "get_task", !.task = job.task]
    /\ UNCHANGED <<realtime, shared, flag, child, req, history>>

\* The function returns or raises; RQ saves the job it has.
EndJob(result) ==
    /\ job' = [status |-> result, task |-> worker.task]
    /\ worker' = AtRest
    /\ child' = NoChild

\* A read of the row that raises when the task was deleted.
ReadTask(at, next) ==
    /\ worker.pc = at
    /\ IF active[worker.task] THEN GotoW(next) /\ UNCHANGED <<job, child>> ELSE EndJob("failed")
    /\ UNCHANGED <<realtime, shared, queued, flag, req, history>>

WriteStatus(at, s, next) ==
    /\ worker.pc = at
    /\ status' = [status EXCEPT ![worker.task] = s]
    /\ GotoW(next)
    /\ UNCHANGED <<realtime, active, redis, child, req, history>>

\* get_task and then change_task_status read the row, and either raises.
GetTask     == ReadTask("get_task", "launch_write")
LaunchWrite == WriteStatus("launch_write", "LAUNCHING", "popen")

Popen ==
    /\ worker.pc = "popen"
    /\ child' = [NoChild EXCEPT !.pc = "load"]
    /\ GotoW("check")
    /\ UNCHANGED <<realtime, shared, redis, req, history>>

CheckStop ==
    /\ worker.pc = "check"
    /\ IF flag THEN GotoW("stop_kill") /\ asked' = {}
               ELSE GotoW("poll") /\ UNCHANGED asked
    /\ UNCHANGED <<realtime, shared, redis, child, req, starts, overlap, revived>>

\* poll() of the subprocess, and the TTL while it runs.
Poll ==
    /\ worker.pc = "poll"
    /\ GotoW(IF ~Live THEN "end_read" ELSE IF worker.expired THEN "ttl_kill" ELSE "check")
    /\ UNCHANGED <<realtime, shared, redis, child, req, history>>

\* SIGTERM, and then change_task_status reads the row.
Kill(at, next) ==
    /\ worker.pc = at
    /\ IF active[worker.task]
       THEN /\ child' = IF Live THEN [NoChild EXCEPT !.pc = "killed"] ELSE child
            /\ GotoW(next)
            /\ UNCHANGED job
       ELSE EndJob("failed")
    /\ UNCHANGED <<realtime, shared, queued, flag, req, history>>

\* Mutant: the flag is left to its expiry.
NoReset ==
    /\ worker.pc = "reset"
    /\ GotoW("return")
    /\ UNCHANGED <<realtime, shared, redis, child, req, history>>

StopKill  == Kill("stop_kill", "stop_write")
StopWrite == WriteStatus("stop_write", "STOPPED", "reset")

\* The flag is set to 0, and not for 30 seconds only.
Reset ==
    /\ worker.pc = "reset"
    /\ flag' = FALSE
    /\ asked' = {}
    /\ GotoW("return")
    /\ UNCHANGED <<realtime, shared, job, queued, child, req, starts, overlap, revived>>

\* Mutant: the end by the TTL is not written to the task.
TTLKillOnly == Kill("ttl_kill", "return")

TTLKill  == Kill("ttl_kill", "ttl_write")
TTLWrite == WriteStatus("ttl_write", "TERMINATED", "return")

\* Mutant: only an exit for memory is told from success.
OutcomeOfAnyExit == IF child.pc = "oom" THEN "OOMKILLED" ELSE "COMPLETE"

\* The status for the exit code of the subprocess.
Outcome == CASE child.pc = "ok"  -> "COMPLETE"
             [] child.pc = "oom" -> "OOMKILLED"
             [] OTHER            -> "FAILED"

EndRead  == ReadTask("end_read", "end_write")
EndWrite == WriteStatus("end_write", Outcome, "return")

FinishJob ==
    /\ worker.pc = "return"
    /\ EndJob("finished")
    /\ UNCHANGED <<realtime, shared, queued, flag, req, history>>

TTLPasses ==
    /\ worker.pc \in Loop
    /\ worker.task \in TTLEnabled
    /\ worker' = [worker EXCEPT !.expired = TRUE]
    /\ UNCHANGED <<realtime, shared, redis, child, req, history>>

\* result_ttl: the record of a finished job is kept for 500 seconds.
JobExpires ==
    /\ job.status = "finished"
    /\ job' = [status |-> "none", task |-> NoTask]
    /\ UNCHANGED <<realtime, shared, queued, flag, worker, child, req, history>>

\* The container of the worker dies and comes back: the record goes on saying
\* started, for a job without a timeout.  A stop it had in hand is still asked
\* for.
WorkerDies ==
    /\ worker.pc # "idle"
    /\ worker' = AtRest
    /\ child' = NoChild
    /\ asked' = IF flag /\ asked = {} THEN {worker.task} ELSE asked
    /\ UNCHANGED <<realtime, shared, redis, req, starts, overlap, revived>>

-----------------------------------------------------------------------------
(* The subprocess: batch.py or realtime.py.                                *)

ChildRead(from, to) ==
    /\ child.pc = from
    /\ child' = IF active[worker.task] THEN [pc |-> to, copy |-> status[worker.task]]
                                       ELSE [NoChild EXCEPT !.pc = "failed"]
    /\ UNCHANGED <<realtime, shared, redis, worker, req, history>>

ChildWrite(from, s, to) ==
    /\ child.pc = from
    /\ status' = [status EXCEPT ![worker.task] = s]
    /\ child' = [NoChild EXCEPT !.pc = to]
    /\ UNCHANGED <<realtime, active, redis, worker, req, history>>

\* save_result writes the whole row, and the status with it.
BatchMatch     == ~realtime /\ ChildRead("load", "save")
BatchSave      == ChildWrite("save", child.copy, "saved")
BatchReadRow   == ChildRead("saved", "term")
BatchTerminate == ChildWrite("term", "TERMINATING", "ok")
RealtimeLoad   == realtime /\ ChildRead("load", "ready")
RealtimeReady  == ChildWrite("ready", "READY", "serving")

ChildFails ==
    /\ Live
    /\ \E c \in {"failed", "oom"} : child' = [NoChild EXCEPT !.pc = c]
    /\ UNCHANGED <<realtime, shared, redis, worker, req, history>>

-----------------------------------------------------------------------------
Serve(h) ==
    \/ StartRead(h) \/ StartWrite(h) \/ StartCheck(h) \/ StartEnqueue(h)
    \/ MatchWrite(h) \/ MatchSend(h) \/ Answer(h)

RunJob ==
    \/ TakeJob \/ GetTask \/ LaunchWrite \/ Popen
    \/ CheckStop \/ Poll \/ StopKill \/ StopWrite \/ Reset
    \/ TTLKill \/ TTLWrite \/ EndRead \/ EndWrite \/ FinishJob

Compute ==
    \/ BatchMatch \/ BatchSave \/ BatchReadRow \/ BatchTerminate
    \/ RealtimeLoad \/ RealtimeReady \/ ChildFails

Next ==
    \/ \E h \in Req : Serve(h) \/ \E t \in Task : StartValidate(h, t) \/ MatchRead(h, t)
    \/ \E t \in Task : Stop(t) \/ Delete(t)
    \/ RunJob \/ Compute
    \/ TTLPasses \/ FlagExpires \/ JobExpires \/ WorkerDies

Spec == Init /\ [][Next]_vars

-----------------------------------------------------------------------------
(* Properties.                                                             *)

\* As long as requests come one at a time the status of every task follows the
\* life cycle that TaskStatus has for all executors, although the flag, the
\* job record and the worker are those of all tasks together.
BatchLife    == INSTANCE TaskStatus WITH Realtime <- {}, MaxRunningTaskNr <- Cardinality(Task)
RealtimeLife == INSTANCE TaskStatus WITH Realtime <- Task, MaxRunningTaskNr <- Cardinality(Task)
FollowsLifecycle ==
    [][\/ overlap'
       \/ IF realtime THEN RealtimeLife!Next ELSE BatchLife!Next]_<<status, active>>

\* A stop request ends one job.  The worker acts on a flag again only if a
\* task was deleted: change_task_status of the stop branch raises then, and the
\* flag is not reset.
OneJobPerStop ==
    [][worker.pc = "check" /\ worker'.pc = "stop_kill"
          => asked # {} \/ \E t \in Task : ~active[t]]_vars

\* While requests come one at a time, a query is answered by the process of its
\* own task and not by that of the task which runs now, unless a late query
\* has made the task READY without a process.
AnsweredByOwnTask ==
    \A h \in Req : req[h].pc = "answered" /\ ~overlap =>
        req[h].by = req[h].task \/ req[h].task \in revived

\* Where no two start requests overlap, a task is taken by the worker once for
\* every start: what the queue holds is the job of the record.
QueueHoldsTheJob ==
    ~overlap => /\ queued <= 1
                /\ queued = 1 <=> job.status = "queued"
                /\ queued = 1 => status[job.task] = "PREPARING"

\* POST /tasks/nm/{id}/stop ("Stop task {task_id} successfully") stops the task
\* it names and no other.
StopEndsItsTask ==
    [][worker.pc = "check" /\ worker'.pc = "stop_kill" => worker.task \in asked]_vars
=============================================================================
