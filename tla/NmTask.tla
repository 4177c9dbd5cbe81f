------------------------------- MODULE NmTask -------------------------------
(***************************************************************************)
(* The name matching task executor on Kubernetes: the API handlers that    *)
(* start, stop, match and delete a task, the worker process of each pod    *)
(* (server/compute/rq_worker.py), the computation subprocess it supervises *)
(* (server/compute/batch.py, realtime.py) and the housekeeper.             *)
(*                                                                         *)
(* All of them change the same task row: each one reads the whole row,     *)
(* changes a field of the copy and writes the whole copy back.  A read and *)
(* the write that follows it are two steps here, as they are two database  *)
(* transactions there.  The tasks are those of one user.                   *)
(***************************************************************************)
EXTENDS FiniteSets, Naturals

CONSTANTS
    Task,              \* the tasks of the user
    Realtime,          \* those of type NAME_MATCHING_REALTIME; the rest is batch
    TTLEnabled,        \* those whose running_parameter has TTL_enable
    Spark,             \* those whose computation_type is SPARK, not MULTI_THREAD
    Run,               \* the pods that can ever be created (in TLC: a bound)
    NoRun,             \* a value that is not a pod
    Req,               \* request threads of the API server that serve this user
    MaxRunningTaskNr,  \* max_running_task_nr of the user's premium type
    MaxRunQuota,       \* max_running_api_call_per_month of that type
    Method,            \* the endpoints the user calls
    Fault              \* what may go wrong besides a failing computation

ASSUME ConstantAssumption ==
    /\ Task # {}
    /\ Realtime \subseteq Task
    /\ TTLEnabled \subseteq Task
    /\ Spark \subseteq Task
    /\ NoRun \notin Run
    /\ MaxRunningTaskNr \in Nat \ {0}
    /\ MaxRunQuota \in Nat
    /\ Method \subseteq {"start", "stop", "match", "rapid", "delete"}
    /\ Fault \subseteq {"api_crash", "k8s_error", "worker_crash", "pod_lost",
                        "pod_oom", "read_error", "hk_crash"}

VARIABLES
    row,       \* [Task -> Row]: ext_info of the task table, as committed
    active,    \* [Task -> BOOLEAN]: its is_active column
    rec,       \* [Run -> PodStatus]: pod_status in the run history table
    taskOf,    \* [Run -> Task]: the task a pod was created for
    pod,       \* [Run -> PodPhase]: the pod as the Kubernetes API shows it
    deleting,  \* the pods whose deletion was requested
    svc,       \* [Task -> BOOLEAN]: the service nm-<user>-<task> exists
    wpc,       \* [Run -> ..]: where the worker process of a pod is
    wrow,      \* [Run -> Row]: the copy change_task_status of the worker holds
    stop,      \* the runs whose worker has a stop message to read
    expired,   \* the runs that are older than their TTL
    child,     \* [Run -> ..]: where the computation subprocess is
    crow,      \* [Run -> Row]: the copy of the row the subprocess holds
    req,       \* [Req -> Request]: the API requests being served
    hk         \* the housekeeper process

db       == <<row, active, rec>>
cluster  == <<taskOf, pod, deleting, svc>>
workers  == <<wpc, wrow, stop, expired>>
children == <<child, crow>>
vars     == <<db, cluster, workers, children, req, hk>>

-----------------------------------------------------------------------------
(* The task status.                                                        *)

RunningStatus == {"PREPARING", "LAUNCHING", "READY", "TERMINATING"}
EndStatus     == {"COMPLETE", "FAILED", "OOMKILLED", "STOPPED", "TERMINATED"}
Status        == {"INIT"} \cup RunningStatus \cup EndStatus

\* What the executor changes of a task: its status and the run whose
\* matching result is stored.
Row     == [status: Status, result: Run \cup {NoRun}]
NewRow  == [status |-> "INIT", result |-> NoRun]
AnyTask == CHOOSE t \in Task : TRUE    \* the value of an unused field

PodStatus == {"None", "Running", "Completed", "OOMKilled", "Deleted"}
PodPhase  == {"none", "pending", "running", "ended", "oom", "gone"}

WithStatus(copy, s) == [copy EXCEPT !.status = s]

RunningTasks == {t \in Task : active[t] /\ row[t].status \in RunningStatus}
RunsOf(t)    == {r \in Run : pod[r] # "none" /\ taskOf[r] = t}

-----------------------------------------------------------------------------
(* The worker and its subprocess.                                          *)

\* The worker has subscribed and is in its loop.  Once it has left the loop it
\* reads no message any more.
Listening == {"check", "poll"}
WorkerPc  == {"none", "launch_read", "launch_write", "popen", "subscribe",
              "stop_svc", "stop_kill", "stop_write",
              "ttl_svc", "ttl_record", "ttl_kill", "ttl_write",
              "end_read", "end_write", "end_svc", "record", "done", "exit"}
             \cup Listening

ChildAlive == {"load", "save", "saved", "term", "ready", "serving"}
ChildPc    == {"none", "ok", "failed", "oom", "killed"} \cup ChildAlive

Live(r) == child[r] \in ChildAlive

\* Mutant: only an exit for memory is told from success.
OutcomeOfAnyExit(c) == IF c = "oom" THEN "OOMKILLED" ELSE "COMPLETE"

\* The status the worker writes for the exit code of the subprocess.
Outcome(c) == CASE c = "ok"  -> "COMPLETE"
                [] c = "oom" -> "OOMKILLED"
                [] OTHER     -> "FAILED"

\* The container of r ends: the worker and its subprocess are gone, with what
\* they hold and with the subscription of the worker.
EndContainer(r, phase) ==
    /\ pod' = [pod EXCEPT ![r] = phase]
    /\ wpc' = [wpc EXCEPT ![r] = "exit"]
    /\ wrow' = [wrow EXCEPT ![r] = NewRow]
    /\ stop' = stop \ {r}
    /\ expired' = expired \ {r}
    /\ child' = [child EXCEPT ![r] = "none"]
    /\ crow' = [crow EXCEPT ![r] = NewRow]

-----------------------------------------------------------------------------
(* The API requests.                                                       *)

ReqPc   == {"idle", "start_read", "start_write", "pod_check", "pod_create",
            "svc_create", "record", "match_write",
            "del_pod", "del_record"}
Request == [pc: ReqPc, task: Task, run: Run \cup {NoRun}, copy: Row,
            todo: SUBSET Run, seen: SUBSET Run]

Goto(h, pc) == req' = [req EXCEPT ![h].pc = pc]
Idle        == [pc |-> "idle", task |-> AnyTask, run |-> NoRun, copy |-> NewRow,
                todo |-> {}, seen |-> {}]
Return(h)   == req' = [req EXCEPT ![h] = Idle]

Housekeeper == [pc: {"sleep", "scan", "read", "write"}, run: Run \cup {NoRun},
                copy: Row, todo: SUBSET Run]
Asleep      == [pc |-> "sleep", run |-> NoRun, copy |-> NewRow, todo |-> {}]

TypeOK ==
    /\ row \in [Task -> Row]
    /\ active \in [Task -> BOOLEAN]
    /\ rec \in [Run -> PodStatus]
    /\ taskOf \in [Run -> Task]
    /\ pod \in [Run -> PodPhase]
    /\ deleting \in SUBSET Run
    /\ svc \in [Task -> BOOLEAN]
    /\ wpc \in [Run -> WorkerPc]
    /\ wrow \in [Run -> Row]
    /\ stop \in SUBSET Run
    /\ expired \in SUBSET Run
    /\ child \in [Run -> ChildPc]
    /\ crow \in [Run -> Row]
    /\ req \in [Req -> Request]
    /\ hk \in Housekeeper

Init ==
    /\ row = [t \in Task |-> NewRow]
    /\ active = [t \in Task |-> TRUE]
    /\ rec = [r \in Run |-> "None"]
    /\ taskOf = [r \in Run |-> AnyTask]
    /\ pod = [r \in Run |-> "none"]
    /\ deleting = {}
    /\ svc = [t \in Task |-> FALSE]
    /\ wpc = [r \in Run |-> "none"]
    /\ wrow = [r \in Run |-> NewRow]
    /\ stop = {}
    /\ expired = {}
    /\ child = [r \in Run |-> "none"]
    /\ crow = [r \in Run |-> NewRow]
    /\ req = [h \in Req |-> Idle]
    /\ hk = Asleep

-----------------------------------------------------------------------------
(* POST /tasks/nm/{id}/start.  The reads of the validation are one step:   *)
(* what another process may do between them it may as well do right after, *)
(* before the PREPARING of this request is written.                        *)

\* Mutant: off by one at the limit.
StartValidateOneMore(h, t) ==
    /\ req[h].pc = "idle"
    /\ active[t]
    /\ Cardinality({r \in Run : rec[r] # "None"}) < MaxRunQuota
    /\ row[t].status \notin RunningStatus
    /\ Cardinality(RunningTasks) <= MaxRunningTaskNr
    /\ \E r \in Run : pod[r] = "none"
    /\ req' = [req EXCEPT ![h] = [@ EXCEPT !.pc = "start_read", !.task = t]]
    /\ UNCHANGED <<db, cluster, workers, children, hk>>

StartValidate(h, t) ==
    /\ req[h].pc = "idle"
    /\ active[t]
    /\ Cardinality({r \in Run : rec[r] # "None"}) < MaxRunQuota
    /\ row[t].status \notin RunningStatus
    /\ Cardinality(RunningTasks) < MaxRunningTaskNr
    /\ \E r \in Run : pod[r] = "none"            \* bound: a pod is left to create
    /\ req' = [req EXCEPT ![h] = [@ EXCEPT !.pc = "start_read", !.task = t]]
    /\ UNCHANGED <<db, cluster, workers, children, hk>>

\* change_task_status reads the row; it raises when the task was deleted.
StartRead(h) ==
    /\ req[h].pc = "start_read"
    /\ IF active[req[h].task]
       THEN req' = [req EXCEPT ![h] = [@ EXCEPT !.pc = "start_write",
                                                !.copy = row[req[h].task]]]
       ELSE Return(h)
    /\ UNCHANGED <<db, cluster, workers, children, hk>>

StartWrite(h) ==
    /\ req[h].pc = "start_write"
    /\ row' = [row EXCEPT ![req[h].task] = WithStatus(req[h].copy, "PREPARING")]
    /\ Goto(h, "pod_check")
    /\ UNCHANGED <<active, rec, cluster, workers, children, hk>>

\* run_task_in_k8s reads the task again before it builds the pod.
StartCheckTask(h) ==
    /\ req[h].pc = "pod_check"
    /\ IF active[req[h].task] THEN Goto(h, "pod_create") ELSE Return(h)
    /\ UNCHANGED <<db, cluster, workers, children, hk>>

\* TASK__COMP_RESOURCE_NOT_SUPPORTED: the schema lets SPARK through, and only
\* the code that builds the pod refuses it.
StartUnsupported(h) ==
    /\ req[h].pc = "pod_create"
    /\ req[h].task \in Spark
    /\ Return(h)
    /\ UNCHANGED <<db, cluster, workers, children, hk>>

\* The pod name holds the time: no two pods have the same name.
StartCreatePod(h) ==
    /\ req[h].pc = "pod_create"
    /\ req[h].task \notin Spark
    /\ \E r \in Run :
         /\ pod[r] = "none"
         /\ pod' = [pod EXCEPT ![r] = "pending"]
         /\ taskOf' = [taskOf EXCEPT ![r] = req[h].task]
         /\ req' = [req EXCEPT ![h] = [@ EXCEPT !.pc = "svc_create", !.run = r]]
    /\ UNCHANGED <<db, deleting, svc, workers, children, hk>>

\* The service is named after the task: creating it fails while one is left.
StartCreateService(h) ==
    /\ req[h].pc = "svc_create"
    /\ IF svc[req[h].task]
       THEN /\ Return(h)
            /\ UNCHANGED svc
       ELSE /\ svc' = [svc EXCEPT ![req[h].task] = TRUE]
            /\ Goto(h, "record")
    /\ UNCHANGED <<db, taskOf, pod, deleting, workers, children, hk>>

\* Mutant: the status becomes PREPARING only once the pod was created.
StartAddRecordAndStatus(h) ==
    /\ req[h].pc = "record"
    /\ rec' = [rec EXCEPT ![req[h].run] = "Running"]
    /\ row' = [row EXCEPT ![req[h].task] = WithStatus(@, "PREPARING")]
    /\ Return(h)
    /\ UNCHANGED <<active, cluster, workers, children, hk>>

StartAddRecord(h) ==
    /\ req[h].pc = "record"
    /\ rec' = [rec EXCEPT ![req[h].run] = "Running"]
    /\ Return(h)
    /\ UNCHANGED <<row, active, cluster, workers, children, hk>>

\* The Kubernetes API refuses the pod or the service: the request ends with
\* EXECUTOR__K8S_STAR_ERR and leaves what it has done so far.
StartK8sError(h) ==
    /\ "k8s_error" \in Fault
    /\ \/ req[h].pc = "pod_create" /\ req[h].task \notin Spark
       \/ req[h].pc = "svc_create"
    /\ Return(h)
    /\ UNCHANGED <<db, cluster, workers, children, hk>>

\* POST /tasks/nm/{id}/stop: publish on the channel of the task.  Redis
\* drops the message for a pod that has not subscribed (yet).
Stop(t) ==
    /\ active[t]
    /\ stop' = stop \cup {r \in RunsOf(t) : wpc[r] \in Listening}
    /\ UNCHANGED <<db, cluster, wpc, wrow, expired, children, req, hk>>

\* POST /tasks/nm/{id}/match: the whole row is read, and written back with
\* the search option of the query.
MatchRead(h, t) ==
    /\ req[h].pc = "idle"
    /\ t \in Realtime
    /\ active[t]
    /\ row[t].status = "READY"
    /\ req' = [req EXCEPT ![h] = [@ EXCEPT !.pc = "match_write", !.task = t,
                                           !.copy = row[t]]]
    /\ UNCHANGED <<db, cluster, workers, children, hk>>

\* POST /tasks/rapid-api/sanction-list-fuzzy-search does the same to the task
\* it is configured for, whatever the status of that task is.
RapidRead(h, t) ==
    /\ req[h].pc = "idle"
    /\ t \in Realtime
    /\ active[t]
    /\ req' = [req EXCEPT ![h] = [@ EXCEPT !.pc = "match_write", !.task = t,
                                           !.copy = row[t]]]
    /\ UNCHANGED <<db, cluster, workers, children, hk>>

MatchWrite(h) ==
    /\ req[h].pc = "match_write"
    /\ row' = [row EXCEPT ![req[h].task] = req[h].copy]
    /\ Return(h)
    /\ UNCHANGED <<active, rec, cluster, workers, children, hk>>

\* DELETE /tasks/nm/{id}: list the records of the task, then for each one
\* delete its pod and mark it Deleted if the list shows it Running.
DeleteList(h, t) ==
    /\ req[h].pc = "idle"
    /\ active[t]
    /\ LET records == {r \in RunsOf(t) : rec[r] # "None"}
       IN  req' = [req EXCEPT ![h] = [@ EXCEPT !.pc = "del_pod", !.task = t, !.todo = records,
                                               !.seen = {r \in records : rec[r] = "Running"}]]
    /\ UNCHANGED <<db, cluster, workers, children, hk>>

\* The request goes on with the next pod, or first with the record of this one.
PodHandled(q, r) ==
    [q EXCEPT !.todo = @ \ {r}, !.run = r,
              !.pc = IF r \in q.seen THEN "del_record" ELSE "del_pod"]

\* An ApiException (404, or any other) is logged and the loop goes on.
DeletePod(h) ==
    /\ req[h].pc = "del_pod"
    /\ \E r \in req[h].todo :
         /\ \/ deleting' = IF pod[r] = "gone" THEN deleting ELSE deleting \cup {r}
            \/ "k8s_error" \in Fault /\ UNCHANGED deleting
         /\ req' = [req EXCEPT ![h] = PodHandled(@, r)]
    /\ UNCHANGED <<db, taskOf, pod, svc, workers, children, hk>>

DeleteRecord(h) ==
    /\ req[h].pc = "del_record"
    /\ rec' = [rec EXCEPT ![req[h].run] = "Deleted"]
    /\ Goto(h, "del_pod")
    /\ UNCHANGED <<row, active, cluster, workers, children, hk>>

DeleteDeactivate(h) ==
    /\ req[h].pc = "del_pod"
    /\ req[h].todo = {}
    /\ active' = [active EXCEPT ![req[h].task] = FALSE]
    /\ Return(h)
    /\ UNCHANGED <<row, rec, cluster, workers, children, hk>>

\* The API server dies or an exception ends the request half way.
RequestDies(h) ==
    /\ "api_crash" \in Fault
    /\ req[h].pc # "idle"
    /\ Return(h)
    /\ UNCHANGED <<db, cluster, workers, children, hk>>

-----------------------------------------------------------------------------
(* The worker of pod r: run_task_in_subprocess.                            *)

GotoW(r, pc) == wpc' = [wpc EXCEPT ![r] = pc]

\* change_task_status of the worker, first half: read the row.  When the
\* task was deleted it raises, which ends the process and the container.
WorkerRead(r, at, next) ==
    /\ wpc[r] = at
    /\ \/ /\ active[taskOf[r]]
          /\ wrow' = [wrow EXCEPT ![r] = row[taskOf[r]]]
          /\ GotoW(r, next)
          /\ UNCHANGED <<pod, stop, expired, children>>
       \/ /\ ~active[taskOf[r]]
          /\ EndContainer(r, "ended")
    /\ UNCHANGED <<db, taskOf, deleting, svc, req, hk>>

\* Second half: write the copy back with the new status.
WorkerWrite(r, at, s, next) ==
    /\ wpc[r] = at
    /\ row' = [row EXCEPT ![taskOf[r]] = WithStatus(wrow[r], s)]
    /\ wrow' = [wrow EXCEPT ![r] = NewRow]
    /\ GotoW(r, next)
    /\ UNCHANGED <<active, rec, cluster, stop, expired, children, req, hk>>

\* Kubernetes starts the container of a scheduled pod.
StartContainer(r) ==
    /\ pod[r] = "pending"
    /\ pod' = [pod EXCEPT ![r] = "running"]
    /\ GotoW(r, "launch_read")
    /\ UNCHANGED <<db, taskOf, deleting, svc, wrow, stop, expired, children, req, hk>>

LaunchRead(r)  == WorkerRead(r, "launch_read", "launch_write")
LaunchWrite(r) == WorkerWrite(r, "launch_write", "LAUNCHING", "popen")

Popen(r) ==
    /\ wpc[r] = "popen"
    /\ child' = [child EXCEPT ![r] = "load"]
    /\ GotoW(r, "subscribe")
    /\ UNCHANGED <<db, cluster, wrow, stop, expired, crow, req, hk>>

Subscribe(r) ==
    /\ wpc[r] = "subscribe"
    /\ GotoW(r, "check")
    /\ UNCHANGED <<db, cluster, wrow, stop, expired, children, req, hk>>

\* Leave the loop: what is still to be read or noticed never is.
LeaveLoop(r, pc) ==
    /\ GotoW(r, pc)
    /\ stop' = stop \ {r}
    /\ expired' = expired \ {r}

StayInLoop(r, pc) == GotoW(r, pc) /\ UNCHANGED <<stop, expired>>

\* Mutant: the message is read but not acted upon.
CheckStopIgnored(r) ==
    /\ wpc[r] = "check"
    /\ StayInLoop(r, "poll") \/ (GotoW(r, "poll") /\ stop' = stop \ {r} /\ UNCHANGED expired)
    /\ UNCHANGED <<db, cluster, wrow, children, req, hk>>

\* get_message of the loop.
CheckStop(r) ==
    /\ wpc[r] = "check"
    /\ IF r \in stop THEN LeaveLoop(r, "stop_svc") ELSE StayInLoop(r, "poll")
    /\ UNCHANGED <<db, cluster, wrow, children, req, hk>>

\* Mutant: the TTL is tested only after the subprocess has exited.
PollNoTTL(r) ==
    /\ wpc[r] = "poll"
    /\ \/ ~Live(r) /\ LeaveLoop(r, "end_read")
       \/ Live(r) /\ StayInLoop(r, "check")
    /\ UNCHANGED <<db, cluster, wrow, children, req, hk>>

\* task_proc.poll() of the loop, then the test of the TTL.
Poll(r) ==
    /\ wpc[r] = "poll"
    /\ \/ ~Live(r) /\ LeaveLoop(r, "end_read")
       \/ Live(r) /\ r \in expired /\ LeaveLoop(r, "ttl_svc")
       \/ Live(r) /\ r \notin expired /\ StayInLoop(r, "check")
    /\ UNCHANGED <<db, cluster, wrow, children, req, hk>>

\* Delete the service of the task; there may be none (404 is ignored).
DeleteService(r, at, next) ==
    /\ wpc[r] = at
    /\ svc' = [svc EXCEPT ![taskOf[r]] = FALSE]
    /\ GotoW(r, next)
    /\ UNCHANGED <<db, taskOf, pod, deleting, wrow, stop, expired, children, req, hk>>

\* SIGTERM to the subprocess, then change_task_status reads the row.  The
\* worker does not wait for the subprocess, but a killed process issues no
\* statement any more.
KillAndRead(r, at, next) ==
    /\ wpc[r] = at
    /\ \/ /\ active[taskOf[r]]
          /\ child' = [child EXCEPT ![r] = IF Live(r) THEN "killed" ELSE @]
          /\ crow' = [crow EXCEPT ![r] = NewRow]
          /\ wrow' = [wrow EXCEPT ![r] = row[taskOf[r]]]
          /\ GotoW(r, next)
          /\ UNCHANGED <<pod, stop, expired>>
       \/ /\ ~active[taskOf[r]]
          /\ EndContainer(r, "ended")
    /\ UNCHANGED <<db, taskOf, deleting, svc, req, hk>>

\* change_task_run_table_record: no row matches while the record of the run
\* has not been inserted yet.
CloseRecord(r, at, next) ==
    /\ wpc[r] = at
    /\ rec' = [rec EXCEPT ![r] = IF @ = "None" THEN @ ELSE "Completed"]
    /\ GotoW(r, next)
    /\ UNCHANGED <<row, active, cluster, wrow, stop, expired, children, req, hk>>

\* Mutants: a branch goes on to its status without killing the subprocess.
StopWithoutKill(r) == WorkerRead(r, "stop_kill", "stop_write")
TTLWithoutKill(r)  == WorkerRead(r, "ttl_kill", "ttl_write")
StopKillSkipped(r) == DeleteService(r, "stop_svc", "stop_write")

\* Stopped by the user.
StopService(r) == DeleteService(r, "stop_svc", "stop_kill")
StopKill(r)    == KillAndRead(r, "stop_kill", "stop_write")
StopWrite(r)   == WorkerWrite(r, "stop_write", "STOPPED", "record")

\* Terminated by its TTL: here the record is closed before the kill.
TTLService(r) == DeleteService(r, "ttl_svc", "ttl_record")
TTLRecord(r)  == CloseRecord(r, "ttl_record", "ttl_kill")
TTLKill(r)    == KillAndRead(r, "ttl_kill", "ttl_write")
TTLWrite(r)   == WorkerWrite(r, "ttl_write", "TERMINATED", "done")

\* The subprocess has exited.
EndRead(r)    == WorkerRead(r, "end_read", "end_write")
EndWrite(r)   == WorkerWrite(r, "end_write", Outcome(child[r]), "end_svc")
EndService(r) == DeleteService(r, "end_svc", "record")

WorkerRecord(r) == CloseRecord(r, "record", "done")

\* The worker returns and its container ends.  When the kernel has killed the
\* subprocess for memory, the container runtime may report the container so.
WorkerExit(r) ==
    /\ wpc[r] = "done"
    /\ \/ EndContainer(r, "ended")
       \/ "pod_oom" \in Fault /\ child[r] = "oom" /\ EndContainer(r, "oom")
    /\ UNCHANGED <<db, taskOf, deleting, svc, req, hk>>

\* An exception that nothing catches: database, Redis or Kubernetes API.
WorkerCrash(r) ==
    /\ "worker_crash" \in Fault
    /\ wpc[r] \notin {"none", "exit"}
    /\ EndContainer(r, "ended")
    /\ UNCHANGED <<db, taskOf, deleting, svc, req, hk>>

TTLPasses(r) ==
    /\ wpc[r] \in {"subscribe"} \cup Listening
    /\ taskOf[r] \in TTLEnabled
    /\ expired' = expired \cup {r}
    /\ UNCHANGED <<db, cluster, wpc, wrow, stop, children, req, hk>>

-----------------------------------------------------------------------------
(* The computation subprocess of pod r.                                    *)

\* Read the row for a read-modify-write; a deleted task raises (exit code 1).
ChildRead(r, next) ==
    /\ \/ /\ active[taskOf[r]]
          /\ child' = [child EXCEPT ![r] = next]
          /\ crow' = [crow EXCEPT ![r] = row[taskOf[r]]]
       \/ /\ ~active[taskOf[r]]
          /\ child' = [child EXCEPT ![r] = "failed"]
          /\ UNCHANGED crow
    /\ UNCHANGED <<db, cluster, workers, req, hk>>

ChildWrite(r, new, next) ==
    /\ row' = [row EXCEPT ![taskOf[r]] = new]
    /\ child' = [child EXCEPT ![r] = next]
    /\ crow' = [crow EXCEPT ![r] = NewRow]
    /\ UNCHANGED <<active, rec, cluster, workers, req, hk>>

\* Batch: match, then save_result reads the row, uploads the result file and
\* writes the row; then the status becomes TERMINATING and the process exits.
BatchMatch(r)     == child[r] = "load" /\ taskOf[r] \notin Realtime /\ ChildRead(r, "save")
BatchSave(r)      == child[r] = "save" /\ ChildWrite(r, [crow[r] EXCEPT !.result = r], "saved")
BatchReadRow(r)   == child[r] = "saved" /\ ChildRead(r, "term")
BatchTerminate(r) == child[r] = "term" /\ ChildWrite(r, WithStatus(crow[r], "TERMINATING"), "ok")

\* Realtime: load the ground truth, set READY, serve until killed.
RealtimeLoad(r)  == child[r] = "load" /\ taskOf[r] \in Realtime /\ ChildRead(r, "ready")
RealtimeReady(r) == child[r] = "ready" /\ ChildWrite(r, WithStatus(crow[r], "READY"), "serving")

\* The computation fails, or the kernel kills it when memory is short.
ChildFails(r) ==
    /\ Live(r)
    /\ \E c \in {"failed", "oom"} : child' = [child EXCEPT ![r] = c]
    /\ crow' = [crow EXCEPT ![r] = NewRow]
    /\ UNCHANGED <<db, cluster, workers, req, hk>>

-----------------------------------------------------------------------------
(* Kubernetes.                                                             *)

RemovePod(r) ==
    /\ EndContainer(r, "gone")
    /\ deleting' = deleting \ {r}
    /\ UNCHANGED <<db, taskOf, svc, req, hk>>

\* The grace period of a deleted pod ends.
PodDeleted(r) == r \in deleting /\ RemovePod(r)

\* A node is lost, a pod is evicted or the object of a dead one collected.
PodLost(r) == "pod_lost" \in Fault /\ pod[r] \notin {"none", "gone"} /\ RemovePod(r)

\* The memory limit of the pod hits the worker itself.
PodOOM(r) ==
    /\ "pod_oom" \in Fault
    /\ pod[r] = "running"
    /\ EndContainer(r, "oom")
    /\ UNCHANGED <<db, taskOf, deleting, svc, req, hk>>

-----------------------------------------------------------------------------
(* The housekeeper: every 10 seconds list the Running records, then look   *)
(* at the pod of each.                                                     *)

HkList ==
    /\ hk.pc = "sleep"
    /\ hk' = [hk EXCEPT !.pc = "scan", !.todo = {r \in Run : rec[r] = "Running"}]
    /\ UNCHANGED <<db, cluster, workers, children, req>>

\* Mutant: a pod that is being deleted counts as missing.
HkMissingTooEarly(r) ==
    /\ hk.pc = "scan" /\ r \in hk.todo
    /\ pod[r] = "gone" \/ r \in deleting
    /\ rec' = [rec EXCEPT ![r] = "Completed"]
    /\ hk' = [hk EXCEPT !.todo = @ \ {r}]
    /\ UNCHANGED <<row, active, cluster, workers, children, req>>

\* Any exception of read_namespaced_pod is taken for a missing pod.
HkMissing(r) ==
    /\ hk.pc = "scan" /\ r \in hk.todo
    /\ pod[r] = "gone" \/ "read_error" \in Fault
    /\ rec' = [rec EXCEPT ![r] = "Completed"]
    /\ hk' = [hk EXCEPT !.todo = @ \ {r}]
    /\ UNCHANGED <<row, active, cluster, workers, children, req>>

\* Mutant: the task learns of the kill, the record does not.
HkOOMTaskOnly(r) ==
    /\ hk.pc = "scan" /\ r \in hk.todo
    /\ pod[r] = "oom"
    /\ hk' = [hk EXCEPT !.pc = "read", !.run = r, !.todo = @ \ {r}]
    /\ UNCHANGED <<db, cluster, workers, children, req>>

\* OOMKilled: the record first, the task row after it.
HkOOM(r) ==
    /\ hk.pc = "scan" /\ r \in hk.todo
    /\ pod[r] = "oom"
    /\ rec' = [rec EXCEPT ![r] = "OOMKilled"]
    /\ hk' = [hk EXCEPT !.pc = "read", !.run = r, !.todo = @ \ {r}]
    /\ UNCHANGED <<row, active, cluster, workers, children, req>>

\* Pending, running, or ended in another way: nothing is done.
HkSkip(r) ==
    /\ hk.pc = "scan" /\ r \in hk.todo
    /\ pod[r] \notin {"oom", "gone"}
    /\ hk' = [hk EXCEPT !.todo = @ \ {r}]
    /\ UNCHANGED <<db, cluster, workers, children, req>>

\* change_task_status raises when the task was deleted: the housekeeper dies
\* and Kubernetes starts it again.
HkRead ==
    /\ hk.pc = "read"
    /\ hk' = IF active[taskOf[hk.run]]
             THEN [hk EXCEPT !.pc = "write", !.copy = row[taskOf[hk.run]]]
             ELSE Asleep
    /\ UNCHANGED <<db, cluster, workers, children, req>>

\* Mutant: the status of a pod is written to the task.
HkWritePodStatus ==
    /\ hk.pc = "write"
    /\ row' = [row EXCEPT ![taskOf[hk.run]] = WithStatus(hk.copy, "OOMKilled")]
    /\ hk' = [hk EXCEPT !.pc = "scan", !.run = NoRun, !.copy = NewRow]
    /\ UNCHANGED <<active, rec, cluster, workers, children, req>>

HkWrite ==
    /\ hk.pc = "write"
    /\ row' = [row EXCEPT ![taskOf[hk.run]] = WithStatus(hk.copy, "OOMKILLED")]
    /\ hk' = [hk EXCEPT !.pc = "scan", !.run = NoRun, !.copy = NewRow]
    /\ UNCHANGED <<active, rec, cluster, workers, children, req>>

HkDone ==
    /\ hk.pc = "scan" /\ hk.todo = {}
    /\ hk' = Asleep
    /\ UNCHANGED <<db, cluster, workers, children, req>>

\* The process is restarted at any point: no pass is finished later.
HkCrash ==
    /\ "hk_crash" \in Fault
    /\ hk.pc # "sleep"
    /\ hk' = Asleep
    /\ UNCHANGED <<db, cluster, workers, children, req>>

-----------------------------------------------------------------------------

\* The steps a request takes once it is accepted.
Serve(h) ==
    \/ StartRead(h) \/ StartWrite(h) \/ StartCheckTask(h)
    \/ StartUnsupported(h) \/ StartCreatePod(h)
    \/ StartCreateService(h) \/ StartAddRecord(h)
    \/ MatchWrite(h)
    \/ DeletePod(h) \/ DeleteRecord(h) \/ DeleteDeactivate(h)

Accept(h, t) ==
    \/ "start" \in Method /\ StartValidate(h, t)
    \/ "match" \in Method /\ MatchRead(h, t)
    \/ "rapid" \in Method /\ RapidRead(h, t)
    \/ "delete" \in Method /\ DeleteList(h, t)

Worker(r) ==
    \/ LaunchRead(r) \/ LaunchWrite(r) \/ Popen(r) \/ Subscribe(r)
    \/ CheckStop(r) \/ Poll(r)
    \/ StopService(r) \/ StopKill(r) \/ StopWrite(r)
    \/ TTLService(r) \/ TTLRecord(r) \/ TTLKill(r) \/ TTLWrite(r)
    \/ EndRead(r) \/ EndWrite(r) \/ EndService(r)
    \/ WorkerRecord(r) \/ WorkerExit(r)

Child(r) ==
    \/ BatchMatch(r) \/ BatchSave(r) \/ BatchReadRow(r) \/ BatchTerminate(r)
    \/ RealtimeLoad(r) \/ RealtimeReady(r)

HkVisit == \E r \in Run : HkMissing(r) \/ HkOOM(r) \/ HkSkip(r)
HkStep  == HkList \/ HkVisit \/ HkRead \/ HkWrite \/ HkDone

Next ==
    \/ \E h \in Req : Serve(h) \/ StartK8sError(h) \/ RequestDies(h)
    \/ \E h \in Req, t \in Task : Accept(h, t)
    \/ \E t \in Task : "stop" \in Method /\ Stop(t)
    \/ \E r \in Run : \/ StartContainer(r) \/ Worker(r) \/ WorkerCrash(r) \/ TTLPasses(r)
                      \/ Child(r) \/ ChildFails(r)
                      \/ PodDeleted(r) \/ PodLost(r) \/ PodOOM(r)
    \/ HkStep \/ HkCrash

Spec == Init /\ [][Next]_vars

\* The processes run: a request is served to its end, Kubernetes starts and
\* removes pods, the worker loops every 50 ms, time passes and the housekeeper
\* makes its rounds.  Users may stay away, a computation may take for ever and
\* nothing need fail.
Fairness ==
    /\ \A h \in Req : WF_vars(Serve(h))
    /\ \A r \in Run : /\ WF_vars(StartContainer(r))
                      /\ WF_vars(Worker(r))
                      /\ WF_vars(TTLPasses(r))
                      /\ WF_vars(PodDeleted(r))
    /\ WF_vars(HkStep)

FairSpec == Spec /\ Fairness

-----------------------------------------------------------------------------
(* Properties.                                                             *)

\* conf/limitation-free-user.yaml: at most max_running_task_nr tasks of the
\* user run at the same time.  The check of the start endpoint and the writes
\* of five kinds of processes must keep it together.
RunningLimit == Cardinality(RunningTasks) <= MaxRunningTaskNr

\* A worker that reports how its run ended has no computation left running,
\* and reports COMPLETE only of one that has exited by itself.  A subprocess
\* still alive would write READY or TERMINATING over the outcome.
OutcomeIsFinal ==
    \A r \in Run :
       /\ wpc[r] \in {"stop_write", "ttl_write", "end_read", "end_write", "end_svc",
                      "record", "done", "exit"} => ~Live(r)
       /\ wpc[r] = "end_write" => child[r] # "killed"

\* The result endpoint dereferences matching_result of a COMPLETE batch task:
\* it is there, although every other process writes the whole row back.
CompleteHasResult ==
    \A t \in Task \ Realtime : row[t].status = "COMPLETE" => row[t].result # NoRun

\* While requests come one at a time the status of every task follows the
\* life cycle of TaskStatus: launched after it was prepared, READY or
\* TERMINATING only while its run lasts, ended once, never above the limit.
Lifecycle == INSTANCE TaskStatus WITH status <- [t \in Task |-> row[t].status]
ImplementsLifecycle == Lifecycle!Spec

\* One task has at most one computation at work: a second one would race for
\* its row, its service and its result.
OneComputationPerTask ==
    \A t \in Task : \A r, s \in RunsOf(t) : Live(r) /\ Live(s) => r = s

\* A run whose record says Completed computes no more, but for the moment
\* between the record and the kill when its TTL is over.
CompletedIsOver ==
    \A r \in Run : rec[r] = "Completed" /\ Live(r) => wpc[r] = "ttl_kill"

\* A stop that reached the channel of a subscribed worker ends its pod.
DeliveredStopEnds ==
    \A r \in Run : r \in stop ~> wpc[r] = "exit"

\* With TTL_enable a computation does not run for ever, whatever happens to
\* its task meanwhile.
TTLBounds ==
    \A r \in Run : (Live(r) /\ taskOf[r] \in TTLEnabled) ~> ~Live(r)

\* A Running record of a pod that is gone or was killed for memory is closed
\* in the end, by the housekeeper or by the deletion of the task, although the
\* two work from lists they have read earlier and the first may die over the
\* row of a deleted task.
DeadRunsSettle ==
    \A r \in Run : (rec[r] = "Running" /\ pod[r] \in {"gone", "oom"}) ~> rec[r] # "Running"

\* A worker that has a pod, whether or not its start request has got its
\* service and its record in, does not leave its task PREPARING: the task moves
\* on, is deleted, or every pod of it comes to its end.  A RapidAPI query that
\* writes back a PREPARING it has read is left out (Method).
PodMovesTaskOn ==
    \A t \in Task :
       LET stays == /\ active[t] /\ row[t].status = "PREPARING"
                    /\ \E r \in RunsOf(t) : wpc[r] # "exit"
       IN  stays ~> ~stays
=============================================================================
