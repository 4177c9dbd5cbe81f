--------------------------- MODULE NmTaskRq_proofs ---------------------------
(* Proofs about NmTaskRq, for any tasks, requests and number of starts. *)
EXTENDS NmTaskRq, FiniteSetTheorems, TLAPS

-----------------------------------------------------------------------------
(* Types.  TypeOK bounds the queue by the start requests of the instance;  *)
(* here it is any number, and a busy thread, a busy worker and a job record *)
(* have a task.                                                            *)

ReqPc   == {"idle", "start_read", "start_write", "rq_check", "enqueue",
            "match_write", "match_send", "answered"}
ChildPc == {"none", "ok", "failed", "oom", "killed"} \cup ChildAlive

Shape ==
    /\ realtime \in BOOLEAN
    /\ status \in [Task -> Status]
    /\ active \in [Task -> BOOLEAN]
    /\ job \in Job /\ (job.status # "none" => job.task \in Task)
    /\ queued \in Nat
    /\ flag \in BOOLEAN
    /\ worker \in Worker /\ (worker.pc # "idle" => worker.task \in Task)
    /\ child \in Child
    /\ req \in [Req -> Request]
    /\ \A h \in Req : req[h].pc # "idle" => req[h].task \in Task
    /\ asked \subseteq Task

\* One request is replaced.
LEMMA ReqReplaced ==
    ASSUME Shape, NEW h \in Req, NEW q \in Request, req' = [req EXCEPT ![h] = q]
    PROVE  /\ req' \in [Req -> Request] /\ req'[h] = q
           /\ \A g \in Req \ {h} : req'[g] = req[g]
           /\ (q.pc # "idle" => q.task \in Task)
                => \A g \in Req : req'[g].pc # "idle" => req'[g].task \in Task
BY DEF Shape

LEMMA GotoStep ==
    ASSUME Shape, NEW h \in Req, NEW pc \in ReqPc, Goto(h, pc), req[h].pc # "idle"
    PROVE  /\ req' \in [Req -> Request]
           /\ req'[h].pc = pc /\ req'[h].task = req[h].task
           /\ \A g \in Req \ {h} : req'[g] = req[g]
           /\ \A g \in Req : req'[g].pc # "idle" => req'[g].task \in Task
<1>1. /\ [req[h] EXCEPT !.pc = pc] \in Request
      /\ [req[h] EXCEPT !.pc = pc].pc = pc
      /\ [req[h] EXCEPT !.pc = pc].task = req[h].task
  BY DEF Shape, Request, ReqPc
<1>2. req' = [req EXCEPT ![h] = [req[h] EXCEPT !.pc = pc]]
  BY DEF Goto, Shape
<1>3. req[h].task \in Task
  BY DEF Shape
<1> QED
  BY <1>1, <1>2, <1>3, ReqReplaced

LEMMA IdleIsRequest == Idle \in Request /\ Idle.pc = "idle"
BY DEF Idle, Request

LEMMA ReturnStep ==
    ASSUME Shape, NEW h \in Req, Return(h)
    PROVE  /\ req' \in [Req -> Request] /\ req'[h].pc = "idle"
           /\ \A g \in Req \ {h} : req'[g] = req[g]
           /\ \A g \in Req : req'[g].pc # "idle" => req'[g].task \in Task
BY IdleIsRequest, ReqReplaced DEF Return

LEMMA BeginStep ==
    ASSUME Shape, NEW h \in Req, NEW t \in Task, NEW pc \in ReqPc, Begin(h, t, pc)
    PROVE  /\ req' \in [Req -> Request]
           /\ req'[h].pc = pc /\ req'[h].task = t
           /\ \A g \in Req \ {h} : req'[g] = req[g]
           /\ \A g \in Req : req'[g].pc # "idle" => req'[g].task \in Task
<1>1. /\ [Idle EXCEPT !.pc = pc, !.task = t] \in Request
      /\ [Idle EXCEPT !.pc = pc, !.task = t].pc = pc
      /\ [Idle EXCEPT !.pc = pc, !.task = t].task = t
  BY IdleIsRequest DEF Request, ReqPc, Idle
<1>2. req' = [req EXCEPT ![h] = [Idle EXCEPT !.pc = pc, !.task = t]]
  BY DEF Begin
<1> QED
  BY <1>1, <1>2, ReqReplaced

LEMMA AnsweredStep ==
    ASSUME Shape, NEW h \in Req, req[h].pc = "match_send",
           req' = [req EXCEPT ![h] = [@ EXCEPT !.pc = "answered", !.by = worker.task]]
    PROVE  /\ req' \in [Req -> Request]
           /\ req'[h].pc = "answered" /\ req'[h].task = req[h].task
           /\ \A g \in Req \ {h} : req'[g] = req[g]
           /\ \A g \in Req : req'[g].pc # "idle" => req'[g].task \in Task
<1> DEFINE q == [req[h] EXCEPT !.pc = "answered", !.by = worker.task]
<1>1. req[h] \in Request /\ req[h].task \in Task /\ worker.task \in Task \cup {NoTask}
  BY DEF Shape, Worker
<1>2. q \in Request /\ q.pc = "answered" /\ q.task = req[h].task
  BY <1>1 DEF Request
<1>3. req' = [req EXCEPT ![h] = q]
  BY DEF Shape
<1> QED
  BY <1>1, <1>2, <1>3, ReqReplaced

LEMMA GotoWStep ==
    ASSUME Shape, NEW pc \in WorkerPc, GotoW(pc)
    PROVE  worker' \in Worker /\ worker'.pc = pc /\ worker'.task = worker.task
BY DEF Shape, GotoW, Worker

LEMMA AtRestIsWorker == /\ AtRest \in Worker /\ AtRest.pc = "idle"
                        /\ NoChild \in Child /\ NoChild.pc = "none"
BY DEF AtRest, Worker, WorkerPc, NoChild, Child, Status

LEMMA EndJobStep ==
    ASSUME Shape, NEW result \in {"finished", "failed"}, EndJob(result), worker.pc # "idle"
    PROVE  /\ job' \in Job /\ job'.status = result /\ job'.task \in Task
           /\ worker' \in Worker /\ worker'.pc = "idle"
           /\ child' \in Child /\ child'.pc = "none"
BY AtRestIsWorker DEF Shape, EndJob, Job, Worker

LEMMA ChildStep ==
    ASSUME Shape, NEW c \in ChildPc, NEW s \in Status
    PROVE  [NoChild EXCEPT !.pc = c] \in Child /\ [pc |-> c, copy |-> s] \in Child
           /\ [NoChild EXCEPT !.pc = c].pc = c
BY AtRestIsWorker DEF Child, ChildPc, NoChild, Status

LEMMA StatusStep ==
    ASSUME Shape, NEW t \in Task, NEW s \in Status, status' = [status EXCEPT ![t] = s]
    PROVE  /\ status' \in [Task -> Status] /\ status'[t] = s
           /\ \A u \in Task \ {t} : status'[u] = status[u]
BY DEF Shape
-----------------------------------------------------------------------------
(* The subprocess: it exists from Popen on, lives in the loop only and is  *)
(* of the type of the tasks.                                               *)

ChildWhere ==
    /\ worker.pc \in {"idle", "get_task", "launch_write", "popen"} <=> child.pc = "none"
    /\ Live => worker.pc \in Loop \cup {"stop_kill", "ttl_kill"}
    /\ realtime => child.pc \notin {"save", "saved", "term", "ok"}
    /\ ~realtime => child.pc \notin {"ready", "serving"}

Base == Shape /\ ChildWhere

LEMMA ServeBase ==
    ASSUME Base, NEW h \in Req,
           Serve(h) \/ \E t \in Task : StartValidate(h, t) \/ MatchRead(h, t)
    PROVE  Base'
<1> USE DEF Base
<1>0. {"start_read", "start_write", "rq_check", "enqueue", "match_write", "match_send"}
        \subseteq ReqPc
  BY DEF ReqPc
<1>1. ASSUME UNCHANGED <<realtime, active, flag, worker, child>>,
             status' \in [Task -> Status], asked' \subseteq Task, queued' \in Nat,
             job' \in Job, job'.status # "none" => job'.task \in Task,
             req' \in [Req -> Request],
             \A g \in Req : req'[g].pc # "idle" => req'[g].task \in Task
      PROVE  Base'
  BY <1>1 DEF Shape, ChildWhere, Live
<1>2. ASSUME NEW t \in Task, StartValidate(h, t) PROVE Base'
  BY <1>0, <1>1, <1>2, BeginStep DEF StartValidate, Begin, shared, redis, Shape
<1>3. ASSUME NEW t \in Task, MatchRead(h, t) PROVE Base'
  BY <1>0, <1>1, <1>3, BeginStep DEF MatchRead, Begin, shared, redis, Shape
<1>4. CASE StartRead(h)
  BY <1>0, <1>1, <1>4, GotoStep, ReturnStep DEF StartRead, shared, redis, history, Shape
<1>5. CASE StartWrite(h)
  <2>1. req[h].task \in Task /\ "PREPARING" \in Status
    BY <1>5 DEF StartWrite, Shape, Status, RunningStatus
  <2> QED
    BY <1>0, <1>1, <1>5, <2>1, GotoStep, StatusStep DEF StartWrite, redis, Shape
<1>6. CASE StartCheck(h)
  BY <1>0, <1>1, <1>6, GotoStep, ReturnStep DEF StartCheck, shared, redis, history, Shape
<1>7. CASE StartEnqueue(h)
  <2>1. /\ [status |-> "queued", task |-> req[h].task] \in Job
        /\ req[h].task \in Task /\ queued + 1 \in Nat
    BY <1>7 DEF StartEnqueue, Shape, Job
  <2> QED
    BY <1>1, <1>7, <2>1, ReturnStep DEF StartEnqueue, shared, history, Shape
<1>8. CASE MatchWrite(h)
  <2>1. req[h].task \in Task /\ "READY" \in Status
    BY <1>8 DEF MatchWrite, Shape, Status, RunningStatus
  <2>2. status' \in [Task -> Status]
    BY <1>8, <2>1, StatusStep DEF MatchWrite
  <2> QED
    BY <1>0, <1>1, <1>8, <2>2, GotoStep DEF MatchWrite, redis, Shape
<1>9. CASE MatchSend(h)
  BY <1>1, <1>9, ReturnStep, AnsweredStep DEF MatchSend, shared, redis, history, Shape
<1>10. CASE Answer(h)
  BY <1>1, <1>10, ReturnStep DEF Answer, shared, redis, history, Shape
<1> QED
  BY <1>2, <1>3, <1>4, <1>5, <1>6, <1>7, <1>8, <1>9, <1>10 DEF Serve

LEMMA RunJobBase == ASSUME Base, RunJob PROVE Base'
<1> USE DEF Base
<1>1. ASSUME UNCHANGED <<realtime, active, req>>, flag' \in BOOLEAN, asked' \subseteq Task,
             status' \in [Task -> Status], queued' \in Nat,
             job' \in Job, job'.status # "none" => job'.task \in Task,
             worker' \in Worker, worker'.pc # "idle" => worker'.task \in Task,
             child' \in Child, ChildWhere'
      PROVE  Base'
  BY <1>1 DEF Shape
<1>2. ASSUME UNCHANGED <<realtime, child>>, NEW pc \in WorkerPc, worker'.pc = pc,
             pc \in {"idle", "get_task", "launch_write", "popen"} <=> child.pc = "none",
             Live => pc \in Loop \cup {"stop_kill", "ttl_kill"}
      PROVE  ChildWhere'
  BY <1>2 DEF ChildWhere, Live
<1>3. WorkerPc = {"idle", "get_task", "launch_write", "popen", "stop_kill", "stop_write",
                  "reset", "ttl_kill", "ttl_write", "end_read", "end_write", "return",
                  "check", "poll"}
  BY DEF WorkerPc, Loop
<1>4. ASSUME NEW result \in {"finished", "failed"}, EndJob(result), worker.pc # "idle",
             UNCHANGED <<realtime, shared, queued, flag, req, history>>
      PROVE  Base'
  <2>1. ChildWhere'
    BY <1>4, EndJobStep DEF ChildWhere, Live, ChildAlive
  <2> QED
    BY <1>1, <1>4, <2>1, EndJobStep DEF shared, history, Shape
<1>5. ASSUME NEW at, NEW next \in WorkerPc, at # "idle", ReadTask(at, next),
             next \in {"idle", "get_task", "launch_write", "popen"} <=> child.pc = "none",
             Live => next \in Loop \cup {"stop_kill", "ttl_kill"}
      PROVE  Base'
  <2>1. CASE active[worker.task]
    <3>1. worker' \in Worker /\ worker'.pc = next /\ worker'.task = worker.task
      BY <1>5, <2>1, GotoWStep DEF ReadTask
    <3>2. ChildWhere'
      BY <1>2, <1>5, <2>1, <3>1 DEF ReadTask
    <3>3. UNCHANGED <<realtime, shared, queued, flag, req, history, job, child>>
      BY <1>5, <2>1 DEF ReadTask
    <3>4. worker.task \in Task
      BY <1>5 DEF ReadTask, Shape
    <3> QED
      BY <1>1, <3>1, <3>2, <3>3, <3>4 DEF shared, history, Shape
  <2>2. CASE ~active[worker.task]
    BY <1>4, <1>5, <2>2 DEF ReadTask
  <2> QED
    BY <2>1, <2>2
<1>6. ASSUME NEW at, NEW s \in Status, NEW next \in WorkerPc, at # "idle",
             WriteStatus(at, s, next),
             next \in {"idle", "get_task", "launch_write", "popen"} <=> child.pc = "none",
             Live => next \in Loop \cup {"stop_kill", "ttl_kill"}
      PROVE  Base'
  <2>1. worker' \in Worker /\ worker'.pc = next /\ worker'.task = worker.task
    BY <1>6, GotoWStep DEF WriteStatus
  <2>2. status' \in [Task -> Status]
    BY <1>6, StatusStep DEF WriteStatus, Shape
  <2> QED
    BY <1>1, <1>2, <1>6, <2>1, <2>2 DEF WriteStatus, redis, history, Shape
<1>7. ASSUME NEW at \in Loop \cup {"stop_kill", "ttl_kill"},
             NEW next \in WorkerPc \ {"idle", "get_task", "launch_write", "popen"}, Kill(at, next)
      PROVE  Base'
  <2>1. CASE active[worker.task]
    <3>1. worker' \in Worker /\ worker'.pc = next /\ worker'.task = worker.task
      BY <1>7, <2>1, GotoWStep DEF Kill
    <3>2. [NoChild EXCEPT !.pc = "killed"] \in Child /\ [NoChild EXCEPT !.pc = "killed"].pc = "killed"
      BY ChildStep DEF ChildPc, Status
    <3>3. child' \in Child
      BY <1>7, <2>1, <3>2 DEF Kill, Shape
    <3>4. ChildWhere'
      BY <1>7, <2>1, <3>1, <3>2 DEF Kill, ChildWhere, Live, ChildAlive, Loop
    <3>5. UNCHANGED <<realtime, shared, queued, flag, req, history, job>>
      BY <1>7, <2>1 DEF Kill
    <3>6. worker.task \in Task
      BY <1>7 DEF Kill, Loop, Shape
    <3> QED
      BY <1>1, <3>1, <3>3, <3>4, <3>5, <3>6 DEF shared, history, Shape
  <2>2. CASE ~active[worker.task]
    BY <1>4, <1>7, <2>2 DEF Kill, Loop
  <2> QED
    BY <2>1, <2>2
<1>8. {"LAUNCHING", "STOPPED", "TERMINATED", "COMPLETE", "OOMKILLED", "FAILED"} \subseteq Status
  BY DEF Status, RunningStatus, EndStatus
<1>9. CASE TakeJob
  <2>1. CASE job.status = "none"
    BY <1>1, <1>9, <2>1 DEF TakeJob, shared, history, Shape, ChildWhere, Live
  <2>2. CASE job.status # "none"
    <3>1. /\ job' = [job EXCEPT !.status = "started"]
          /\ worker' = [AtRest EXCEPT !.pc = "get_task", !.task = job.task]
          /\ worker.pc = "idle" /\ queued' = queued - 1 /\ queued > 0
          /\ UNCHANGED <<realtime, shared, flag, child, req, history>>
      BY <1>9, <2>2 DEF TakeJob
    <3>2. job' \in Job /\ job'.task \in Task
      BY <2>2, <3>1 DEF Shape, Job
    <3>3. worker' \in Worker /\ worker'.pc = "get_task" /\ worker'.task \in Task
      BY <1>3, <2>2, <3>1 DEF Shape, Worker, AtRest
    <3>4. ChildWhere'
      BY <1>3, <3>1, <3>3 DEF ChildWhere, Live, Loop
    <3> QED
      BY <1>1, <3>1, <3>2, <3>3, <3>4 DEF shared, history, Shape
  <2> QED
    BY <2>1, <2>2
<1>10. CASE GetTask
  <2>1. worker.pc = "get_task"
    BY <1>10 DEF GetTask, ReadTask
  <2> QED
    BY <1>3, <1>5, <1>10, <2>1 DEF GetTask, ChildWhere, Live, Loop
<1>11. CASE LaunchWrite
  <2>1. worker.pc = "launch_write"
    BY <1>11 DEF LaunchWrite, WriteStatus
  <2> QED
    BY <1>3, <1>6, <1>8, <1>11, <2>1 DEF LaunchWrite, ChildWhere, Live, Loop
<1>12. CASE Popen
  <2>1. worker' \in Worker /\ worker'.pc = "check" /\ worker'.task = worker.task
    BY <1>3, <1>12, GotoWStep DEF Popen
  <2>2. child' \in Child /\ child'.pc = "load"
    BY <1>12, ChildStep DEF Popen, ChildPc, ChildAlive, Status
  <2>3. ChildWhere'
    BY <2>1, <2>2 DEF ChildWhere, Loop
  <2> QED
    BY <1>1, <1>12, <2>1, <2>2, <2>3 DEF Popen, shared, redis, history, Shape
<1>13. CASE CheckStop
  <2>1. PICK pc \in {"stop_kill", "poll"} : GotoW(pc)
    BY <1>13 DEF CheckStop
  <2>2. worker' \in Worker /\ worker'.pc = pc /\ worker'.task = worker.task
    BY <1>3, <2>1, GotoWStep
  <2>3. ChildWhere'
    BY <1>2, <1>3, <1>13, <2>2 DEF CheckStop, ChildWhere, Loop
  <2> QED
    BY <1>1, <1>13, <2>2, <2>3 DEF CheckStop, shared, redis, Shape
<1>14. CASE Poll
  <2>1. PICK pc \in {"end_read", "ttl_kill", "check"} : GotoW(pc) /\ (Live => pc # "end_read")
    BY <1>14 DEF Poll
  <2>2. worker' \in Worker /\ worker'.pc = pc /\ worker'.task = worker.task
    BY <1>3, <2>1, GotoWStep
  <2>3. ChildWhere'
    BY <1>2, <1>3, <1>14, <2>1, <2>2 DEF Poll, ChildWhere, Loop
  <2> QED
    BY <1>1, <1>14, <2>2, <2>3 DEF Poll, shared, redis, history, Shape
<1>15. CASE StopKill
  BY <1>3, <1>7, <1>15 DEF StopKill
<1>16. CASE StopWrite
  <2>1. worker.pc = "stop_write"
    BY <1>16 DEF StopWrite, WriteStatus
  <2> QED
    BY <1>3, <1>6, <1>8, <1>16, <2>1 DEF StopWrite, ChildWhere, Live, Loop
<1>17. CASE Reset
  <2>1. worker' \in Worker /\ worker'.pc = "return" /\ worker'.task = worker.task
    BY <1>3, <1>17, GotoWStep DEF Reset
  <2>2. ChildWhere'
    BY <1>2, <1>3, <1>17, <2>1 DEF Reset, ChildWhere, Loop
  <2> QED
    BY <1>1, <1>17, <2>1, <2>2 DEF Reset, shared, Shape
<1>18. CASE TTLKill
  BY <1>3, <1>7, <1>18 DEF TTLKill
<1>19. CASE TTLWrite
  <2>1. worker.pc = "ttl_write"
    BY <1>19 DEF TTLWrite, WriteStatus
  <2> QED
    BY <1>3, <1>6, <1>8, <1>19, <2>1 DEF TTLWrite, ChildWhere, Live, Loop
<1>20. CASE EndRead
  <2>1. worker.pc = "end_read"
    BY <1>20 DEF EndRead, ReadTask
  <2> QED
    BY <1>3, <1>5, <1>20, <2>1 DEF EndRead, ChildWhere, Live, Loop
<1>21. CASE EndWrite
  <2>1. worker.pc = "end_write"
    BY <1>21 DEF EndWrite, WriteStatus
  <2>2. Outcome \in Status
    BY <1>8 DEF Outcome
  <2> QED
    BY <1>3, <1>6, <1>21, <2>1, <2>2 DEF EndWrite, ChildWhere, Live, Loop
<1>22. CASE FinishJob
  BY <1>4, <1>22 DEF FinishJob
<1> QED
  BY <1>9, <1>10, <1>11, <1>12, <1>13, <1>14, <1>15, <1>16, <1>17, <1>18, <1>19, <1>20,
     <1>21, <1>22 DEF RunJob

LEMMA ComputeBase == ASSUME Base, Compute PROVE Base'
<1> USE DEF Base
<1>1. ASSUME UNCHANGED <<realtime, active, flag, queued, job, worker, req, asked>>,
             status' \in [Task -> Status], child' \in Child, ChildWhere'
      PROVE  Base'
  BY <1>1 DEF Shape
<1>2. ASSUME UNCHANGED <<realtime, worker>>, Live, child'.pc # "none",
             realtime => child'.pc \notin {"save", "saved", "term", "ok"},
             ~realtime => child'.pc \notin {"ready", "serving"}
      PROVE  ChildWhere'
  BY <1>2 DEF ChildWhere, Loop, Live, ChildAlive
<1>3. ASSUME NEW from \in ChildAlive, NEW to \in ChildAlive, ChildRead(from, to),
             realtime => to \notin {"save", "term"}, ~realtime => to # "ready",
             to \in {"save", "term", "ready"}
      PROVE  Base'
  <2>1. worker.task \in Task
    BY <1>3 DEF ChildRead, Shape, ChildWhere, Live, Loop
  <2>2. child' \in Child /\ child'.pc \in {to, "failed"}
    BY <1>3, <2>1, ChildStep DEF ChildRead, ChildPc, Shape
  <2>3. ChildWhere'
    BY <1>2, <1>3, <2>2 DEF ChildRead, Live
  <2> QED
    BY <1>1, <1>3, <2>2, <2>3 DEF ChildRead, shared, redis, history, Shape
<1>4. ASSUME NEW from \in ChildAlive, NEW s \in Status, NEW to \in {"saved", "ok", "serving"},
             ChildWrite(from, s, to),
             realtime => to \notin {"saved", "ok"}, ~realtime => to # "serving"
      PROVE  Base'
  <2>1. worker.task \in Task
    BY <1>4 DEF ChildWrite, Shape, ChildWhere, Live, Loop
  <2>2. child' \in Child /\ child'.pc = to
    BY <1>4, ChildStep DEF ChildWrite, ChildPc, ChildAlive
  <2>3. status' \in [Task -> Status]
    BY <1>4, <2>1, StatusStep DEF ChildWrite
  <2>4. ChildWhere'
    BY <1>2, <1>4, <2>2 DEF ChildWrite, Live
  <2> QED
    BY <1>1, <1>4, <2>2, <2>3, <2>4 DEF ChildWrite, redis, history, Shape
<1>5. {"READY", "TERMINATING"} \subseteq Status /\ child.copy \in Status
  BY DEF Status, RunningStatus, Shape, Child
<1>6. CASE BatchMatch
  BY <1>3, <1>6 DEF BatchMatch, ChildAlive
<1>7. CASE BatchReadRow
  BY <1>3, <1>7 DEF BatchReadRow, ChildRead, ChildAlive, ChildWhere
<1>8. CASE RealtimeLoad
  BY <1>3, <1>8 DEF RealtimeLoad, ChildAlive
<1>9. CASE BatchSave
  BY <1>4, <1>5, <1>9 DEF BatchSave, ChildWrite, ChildAlive, ChildWhere
<1>10. CASE BatchTerminate
  BY <1>4, <1>5, <1>10 DEF BatchTerminate, ChildWrite, ChildAlive, ChildWhere
<1>11. CASE RealtimeReady
  BY <1>4, <1>5, <1>11 DEF RealtimeReady, ChildWrite, ChildAlive, ChildWhere
<1>12. CASE ChildFails
  <2>1. child' \in Child /\ child'.pc \in {"failed", "oom"}
    BY <1>12, ChildStep DEF ChildFails, ChildPc, Status
  <2>2. ChildWhere'
    BY <1>2, <1>12, <2>1 DEF ChildFails
  <2> QED
    BY <1>1, <1>12, <2>1, <2>2 DEF ChildFails, shared, redis, history, Shape
<1> QED
  BY <1>6, <1>7, <1>8, <1>9, <1>10, <1>11, <1>12 DEF Compute

LEMMA OtherBase ==
    ASSUME Base,
           \/ \E t \in Task : Stop(t) \/ Delete(t)
           \/ TTLPasses \/ FlagExpires \/ JobExpires \/ WorkerDies
           \/ UNCHANGED vars
    PROVE  Base'
<1> USE DEF Base
<1>1. ASSUME UNCHANGED <<realtime, status, queued, child, req, worker>>,
             active' \in [Task -> BOOLEAN], flag' \in BOOLEAN, asked' \subseteq Task,
             job' \in Job, job'.status # "none" => job'.task \in Task
      PROVE  Base'
  BY <1>1 DEF Shape, ChildWhere, Live
<1>2. ASSUME NEW t \in Task, Stop(t) PROVE Base'
  BY <1>1, <1>2 DEF Stop, shared, Shape
<1>3. ASSUME NEW t \in Task, Delete(t) PROVE Base'
  BY <1>1, <1>3 DEF Delete, redis, history, Shape
<1>4. CASE TTLPasses
  <2>1. worker' \in Worker /\ worker'.pc = worker.pc /\ worker'.task = worker.task
    BY <1>4 DEF TTLPasses, Shape, Worker
  <2>2. ChildWhere'
    BY <1>4, <2>1 DEF TTLPasses, ChildWhere, Live
  <2> QED
    BY <1>4, <2>1, <2>2 DEF TTLPasses, shared, redis, history, Shape
<1>5. CASE FlagExpires
  BY <1>1, <1>5 DEF FlagExpires, shared, Shape
<1>6. CASE JobExpires
  <2>1. job' \in Job /\ job'.status = "none"
    BY <1>6 DEF JobExpires, Job
  <2> QED
    BY <1>1, <1>6, <2>1 DEF JobExpires, shared, history, Shape
<1>7. CASE WorkerDies
  <2>1. /\ worker' \in Worker /\ worker'.pc = "idle"
        /\ child' \in Child /\ child'.pc = "none"
    BY <1>7, AtRestIsWorker DEF WorkerDies
  <2>2. ChildWhere'
    BY <2>1 DEF ChildWhere, Live, ChildAlive
  <2>3. asked' \subseteq Task
    BY <1>7 DEF WorkerDies, Shape
  <2> QED
    BY <1>7, <2>1, <2>2, <2>3 DEF WorkerDies, shared, redis, Shape
<1>8. CASE UNCHANGED vars
  BY <1>1, <1>8 DEF vars, shared, redis, history, Shape
<1> QED
  BY <1>2, <1>3, <1>4, <1>5, <1>6, <1>7, <1>8

LEMMA BaseAlways == Spec => []Base
<1>1. Init => Base
  <2> SUFFICES ASSUME Init PROVE Base
    OBVIOUS
  <2>1. "INIT" \in Status /\ [status |-> "none", task |-> NoTask] \in Job
    BY DEF Status, Job
  <2> QED
    BY <2>1, AtRestIsWorker, IdleIsRequest DEF Init, Base, Shape, ChildWhere, Live, ChildAlive
<1>2. Base /\ [Next]_vars => Base'
  BY ServeBase, RunJobBase, ComputeBase, OtherBase DEF Next
<1> QED
  BY <1>1, <1>2, PTL DEF Spec

-----------------------------------------------------------------------------
(* One job for a stop.                                                     *)

\* Where the flag has been seen and is not reset yet.
Stopping == {"stop_kill", "stop_write", "reset"}

\* A flag that no stop request accounts for is one the worker is acting on, or
\* one it could not reset since a task was deleted.
FlagAsked == flag /\ asked = {} =>
                worker.pc \in Stopping \/ \E t \in Task : ~active[t]

\* A read of the row of the worker that raises.
LEMMA RaisesDeleted ==
    ASSUME Base, worker.pc # "idle", ~active[worker.task]
    PROVE  \E t \in Task : ~active[t]
BY DEF Base, Shape

LEMMA FlagAskedNext == Base /\ FlagAsked /\ [Next]_vars => FlagAsked'
<1> SUFFICES ASSUME Base, FlagAsked, [Next]_vars PROVE FlagAsked'
  OBVIOUS
<1>1. ASSUME UNCHANGED <<flag, asked, active>>, worker.pc \in Stopping => worker'.pc \in Stopping
      PROVE  FlagAsked'
  BY <1>1 DEF FlagAsked
<1>2. ASSUME NEW pc \in WorkerPc, GotoW(pc) PROVE worker'.pc = pc
  BY <1>2, GotoWStep DEF Base
<1>3. {"launch_write", "popen", "check", "poll", "stop_kill", "stop_write", "reset", "return",
       "ttl_kill", "ttl_write", "end_read", "end_write"} \subseteq WorkerPc
  BY DEF WorkerPc, Loop
<1>4. ASSUME NEW h \in Req, Serve(h) PROVE FlagAsked'
  BY <1>1, <1>4 DEF Serve, StartRead, StartWrite, StartCheck, StartEnqueue, MatchWrite,
     MatchSend, Answer, shared, redis, history
<1>5. ASSUME NEW h \in Req, NEW t \in Task, StartValidate(h, t) \/ MatchRead(h, t)
      PROVE  FlagAsked'
  BY <1>1, <1>5 DEF StartValidate, MatchRead, Begin, shared, redis
<1>6. ASSUME NEW t \in Task, Stop(t) PROVE FlagAsked'
  BY <1>6 DEF Stop, FlagAsked
<1>7. ASSUME NEW t \in Task, Delete(t) PROVE FlagAsked'
  BY <1>7 DEF Delete, FlagAsked, Base, Shape
<1>8. CASE FlagExpires \/ Reset
  BY <1>8 DEF FlagExpires, Reset, FlagAsked
<1>9. CASE WorkerDies
  <2>1. worker.task \in Task
    BY <1>9 DEF WorkerDies, Base, Shape
  <2> QED
    BY <1>9, <2>1 DEF WorkerDies, FlagAsked, shared, redis
<1>10. CASE TakeJob \/ Popen
  BY <1>1, <1>10 DEF TakeJob, Popen, shared, redis, history, Stopping
<1>11. CASE CheckStop
  <2>1. CASE flag
    <3>1. worker'.pc = "stop_kill"
      BY <1>2, <1>3, <1>11, <2>1 DEF CheckStop
    <3> QED
      BY <3>1 DEF FlagAsked, Stopping
  <2>2. CASE ~flag
    BY <1>11, <2>2 DEF CheckStop, FlagAsked, redis
  <2> QED
    BY <2>1, <2>2
<1>12. CASE Poll
  BY <1>1, <1>12 DEF Poll, shared, redis, history, Stopping
<1>13. ASSUME NEW at, NEW next \in WorkerPc, at # "idle", ReadTask(at, next),
              at \notin Stopping
       PROVE  FlagAsked'
  BY <1>1, <1>13 DEF ReadTask, shared, history
<1>14. ASSUME NEW at, NEW s, NEW next \in WorkerPc, WriteStatus(at, s, next),
              at \in Stopping => next \in Stopping
       PROVE  FlagAsked'
  <2>1. worker'.pc = next
    BY <1>2, <1>14 DEF WriteStatus
  <2> QED
    BY <1>1, <1>14, <2>1 DEF WriteStatus, redis, history
<1>15. ASSUME NEW at, NEW next \in WorkerPc, at # "idle", Kill(at, next),
              at \in Stopping => next \in Stopping
       PROVE  FlagAsked'
  <2>1. CASE active[worker.task]
    <3>1. worker'.pc = next
      BY <1>2, <1>15, <2>1 DEF Kill
    <3> QED
      BY <1>1, <1>15, <2>1, <3>1 DEF Kill, shared, history
  <2>2. CASE ~active[worker.task]
    BY <1>15, <2>2, RaisesDeleted DEF Kill, FlagAsked, shared, history
  <2> QED
    BY <2>1, <2>2
<1>16. CASE GetTask \/ EndRead
  BY <1>3, <1>13, <1>16 DEF GetTask, EndRead, Stopping
<1>17. CASE LaunchWrite \/ StopWrite \/ TTLWrite \/ EndWrite
  BY <1>3, <1>14, <1>17 DEF LaunchWrite, StopWrite, TTLWrite, EndWrite, Stopping
<1>18. CASE StopKill \/ TTLKill
  BY <1>3, <1>15, <1>18 DEF StopKill, TTLKill, Stopping
<1>19. CASE FinishJob
  BY <1>1, <1>19 DEF FinishJob, shared, history, Stopping
<1>20. CASE Compute
  BY <1>1, <1>20 DEF Compute, BatchMatch, BatchSave, BatchReadRow, BatchTerminate, RealtimeLoad,
     RealtimeReady, ChildFails, ChildRead, ChildWrite, shared, redis, history
<1>21. CASE TTLPasses \/ JobExpires
  BY <1>1, <1>21 DEF TTLPasses, JobExpires, shared, redis, history, Stopping, Loop,
     Base, Shape, Worker
<1>22. CASE UNCHANGED vars
  BY <1>1, <1>22 DEF vars, shared, redis, history
<1> QED
  BY <1>4, <1>5, <1>6, <1>7, <1>8, <1>9, <1>10, <1>11, <1>12, <1>16, <1>17, <1>18, <1>19,
     <1>20, <1>21, <1>22 DEF Next, RunJob

\* The worker acts on a stop request once, whichever task it has then, for any
\* number of jobs, deaths of the worker and expiries of the flag; only a stop of
\* a deleted task leaves the flag for the next job.
THEOREM OneJobPerStopAlways == Spec => OneJobPerStop
<1>1. Init => FlagAsked
  BY DEF Init, FlagAsked
<1>2. Base /\ FlagAsked /\ [Next]_vars =>
        [worker.pc = "check" /\ worker'.pc = "stop_kill"
            => asked # {} \/ \E t \in Task : ~active[t]]_vars
  <2> SUFFICES ASSUME Base, FlagAsked, [Next]_vars,
                      worker.pc = "check", worker'.pc = "stop_kill"
               PROVE  flag
    BY DEF FlagAsked, Stopping
  <2>1. ASSUME worker' = worker PROVE FALSE
    BY <2>1
  <2>2. CASE CheckStop
    <3>1. ASSUME ~flag PROVE FALSE
      <4>1. GotoW("poll") /\ "poll" \in WorkerPc
        BY <2>2, <3>1 DEF CheckStop, WorkerPc, Loop
      <4> QED
        BY <4>1, GotoWStep DEF Base
    <3> QED
      BY <3>1
  <2>3. CASE RunJob /\ ~CheckStop
    BY <2>3 DEF RunJob, TakeJob, GetTask, LaunchWrite, Popen, Poll, StopKill, StopWrite, Reset,
       TTLKill, TTLWrite, EndRead, EndWrite, FinishJob, ReadTask, WriteStatus, Kill
  <2>4. CASE TTLPasses
    BY <2>4 DEF TTLPasses, Base, Shape, Worker
  <2>5. CASE WorkerDies
    BY <2>5, AtRestIsWorker DEF WorkerDies
  <2> QED
    BY <2>1, <2>2, <2>3, <2>4, <2>5 DEF Next, Serve, StartRead, StartWrite, StartCheck,
       StartEnqueue, MatchWrite, MatchSend, Answer, StartValidate, MatchRead, Begin, Stop,
       Delete, FlagExpires, JobExpires, Compute, BatchMatch, BatchSave, BatchReadRow,
       BatchTerminate, RealtimeLoad, RealtimeReady, ChildFails, ChildRead, ChildWrite, vars
<1> QED
  BY <1>1, <1>2, FlagAskedNext, BaseAlways, PTL DEF Spec, OneJobPerStop

-----------------------------------------------------------------------------
(* One request at a time.  The strengthening says for every position of    *)
(* worker, subprocess and request which status its task has, and that the  *)
(* queue, the job record and the worker are about one start.               *)

InProgress == worker.pc \notin {"idle", "reset", "return"}
Starting   == {"start_read", "start_write", "rq_check", "enqueue"}

OneAtATime == \A g, h \in Req : req[g].pc # "idle" /\ req[h].pc # "idle" => g = h

JobOfWorker == worker.pc # "idle" => job.status = "started" /\ job.task = worker.task

QueueOfJob == /\ queued \in {0, 1}
              /\ queued = 1 <=> job.status = "queued"
              /\ queued = 1 => status[job.task] = "PREPARING"

StatusAt ==
    InProgress =>
      LET s == status[worker.task] IN
      /\ worker.pc \in {"get_task", "launch_write"} => s = "PREPARING"
      /\ worker.pc = "popen" => s = "LAUNCHING"
      /\ child.pc \in {"load", "save", "saved", "term", "ready"} => s = "LAUNCHING"
      /\ child.pc = "save" => child.copy = "LAUNCHING"
      /\ child.pc = "ok" => s = "TERMINATING"
      /\ child.pc = "serving" => s = "READY"
      /\ child.pc \in {"failed", "oom", "killed"} => s \in {"LAUNCHING", "READY", "TERMINATING"}

Stage(h) ==
    LET q == req[h] IN
    /\ q.pc \in Starting => /\ InProgress => worker.task # q.task
                            /\ queued = 1 => job.task # q.task
    /\ q.pc \in {"start_read", "start_write"} => status[q.task] \notin RunningStatus
    /\ q.pc \in {"rq_check", "enqueue"} => status[q.task] = "PREPARING"
    /\ q.pc = "enqueue" => job.status \in {"none", "finished", "failed"}
    /\ q.pc = "match_write" => realtime /\ status[q.task] \in EndStatus \cup {"READY"}

Lone == OneAtATime /\ JobOfWorker /\ QueueOfJob /\ StatusAt /\ \A h \in Req : Stage(h)

\* A change of the status of t that TaskStatus allows.
Legit(t, s) ==
    \/ s = status[t]
    \/ status[t] \notin RunningStatus /\ s = "PREPARING"
    \/ status[t] = "PREPARING" /\ s = "LAUNCHING"
    \/ status[t] = "LAUNCHING" /\ s = IF realtime THEN "READY" ELSE "TERMINATING"
    \/ status[t] = "TERMINATING" /\ s = "COMPLETE"
    \/ status[t] \in {"LAUNCHING", "READY", "TERMINATING"} /\ s \in EndStatus \ {"COMPLETE"}
    \/ realtime /\ status[t] \in EndStatus /\ s = "READY"

Life == \/ UNCHANGED <<status, active>>
        \/ IF realtime THEN RealtimeLife!Next ELSE BatchLife!Next

\* A task that does not run leaves room for one more.
LEMMA Room ==
    ASSUME NEW t \in Task, status[t] \notin RunningStatus
    PROVE  Cardinality({u \in Task : active[u] /\ status[u] \in RunningStatus}) < Cardinality(Task)
<1> DEFINE running == {u \in Task : active[u] /\ status[u] \in RunningStatus}
<1>1. running \in SUBSET Task /\ running # Task /\ IsFiniteSet(Task)
  BY RqAssumption
<1> HIDE DEF running
<1>2. /\ Cardinality(running) <= Cardinality(Task)
      /\ Cardinality(running) # Cardinality(Task)
      /\ Cardinality(running) \in Nat /\ Cardinality(Task) \in Nat
  BY <1>1, FS_Subset, FS_CardinalityType
<1>3. Cardinality(running) < Cardinality(Task)
  BY <1>2
<1> QED
  BY <1>3 DEF running

\* Both instances of TaskStatus count as this module does.
LEMMA SameCount ==
    ASSUME NEW S
    PROVE  BatchLife!Cardinality(S) = Cardinality(S) /\ RealtimeLife!Cardinality(S) = Cardinality(S)
BY Zenon DEF BatchLife!Cardinality, RealtimeLife!Cardinality, Cardinality

LEMMA LegitIsLife ==
    ASSUME Base, NEW t \in Task, NEW s, Legit(t, s),
           status' = [status EXCEPT ![t] = s], active' = active
    PROVE  Life
<1> USE DEF Base
<1>1. CASE s = status[t]
  BY <1>1 DEF Life, Shape
<1>2. CASE status[t] \notin RunningStatus /\ s = "PREPARING"
  <2>1. status[t] \in EndStatus \cup {"INIT"}
    BY <1>2 DEF Shape, Status
  <2>2. /\ BatchLife!Running = {u \in Task : active[u] /\ status[u] \in RunningStatus}
        /\ RealtimeLife!Running = {u \in Task : active[u] /\ status[u] \in RunningStatus}
    BY DEF BatchLife!Running, BatchLife!RunningStatus, RealtimeLife!Running,
       RealtimeLife!RunningStatus, RunningStatus
  <2>3. /\ Cardinality(BatchLife!Running) < Cardinality(Task)
        /\ Cardinality(RealtimeLife!Running) < Cardinality(Task)
    BY <1>2, <2>2, Room
  <2>4. /\ BatchLife!Become(t, BatchLife!EndStatus \cup {"INIT"}, "PREPARING")
        /\ RealtimeLife!Become(t, RealtimeLife!EndStatus \cup {"INIT"}, "PREPARING")
    BY <1>2, <2>1 DEF BatchLife!Become, BatchLife!EndStatus, RealtimeLife!Become,
       RealtimeLife!EndStatus, EndStatus
  <2>5. BatchLife!Prepare(t) /\ RealtimeLife!Prepare(t)
    BY <2>3, <2>4, SameCount DEF BatchLife!Prepare, RealtimeLife!Prepare
  <2> QED
    BY <2>5 DEF Life, BatchLife!Next, RealtimeLife!Next
<1>3. CASE status[t] = "PREPARING" /\ s = "LAUNCHING"
  <2>1. BatchLife!Launch(t) /\ RealtimeLife!Launch(t)
    BY <1>3 DEF BatchLife!Launch, BatchLife!Become, RealtimeLife!Launch, RealtimeLife!Become
  <2> QED
    BY <2>1 DEF Life, BatchLife!Next, RealtimeLife!Next
<1>4. CASE status[t] = "LAUNCHING" /\ s = IF realtime THEN "READY" ELSE "TERMINATING"
  <2>1. IF realtime THEN RealtimeLife!Work(t) ELSE BatchLife!Work(t)
    BY <1>4 DEF BatchLife!Work, BatchLife!Become, RealtimeLife!Work, RealtimeLife!Become
  <2> QED
    BY <2>1 DEF Life, BatchLife!Next, RealtimeLife!Next
<1>5. CASE \/ status[t] = "TERMINATING" /\ s = "COMPLETE"
           \/ status[t] \in {"LAUNCHING", "READY", "TERMINATING"} /\ s \in EndStatus \ {"COMPLETE"}
  <2>1. BatchLife!End(t) /\ RealtimeLife!End(t)
    BY <1>5 DEF BatchLife!End, BatchLife!Become, BatchLife!EndStatus,
       RealtimeLife!End, RealtimeLife!Become, RealtimeLife!EndStatus, EndStatus
  <2> QED
    BY <2>1 DEF Life, BatchLife!Next, RealtimeLife!Next
<1>6. CASE realtime /\ status[t] \in EndStatus /\ s = "READY"
  <2>1. RealtimeLife!LateQuery(t)
    BY <1>6 DEF RealtimeLife!LateQuery, RealtimeLife!Become, RealtimeLife!EndStatus, EndStatus
  <2> QED
    BY <1>6, <2>1 DEF Life, RealtimeLife!Next
<1> QED
  BY <1>1, <1>2, <1>3, <1>4, <1>5, <1>6 DEF Legit

\* A busy worker has a task that runs, and nothing waits in the queue.
LEMMA Busy ==
    ASSUME Base, Lone
    PROVE  /\ InProgress => status[worker.task] \in RunningStatus
           /\ worker.pc # "idle" => /\ queued = 0
                                    /\ \A h \in Req : req[h].pc # "enqueue"
<1>1. ASSUME InProgress PROVE status[worker.task] \in RunningStatus
  <2>1. CASE worker.pc \in {"get_task", "launch_write", "popen"}
    BY <1>1, <2>1 DEF Lone, StatusAt, RunningStatus
  <2>2. CASE child.pc # "none"
    BY <1>1, <2>2 DEF Lone, StatusAt, RunningStatus, Base, Shape, Child, ChildAlive
  <2> QED
    BY <1>1, <2>1, <2>2 DEF InProgress, Base, ChildWhere
<1>2. ASSUME worker.pc # "idle" PROVE queued = 0 /\ \A h \in Req : req[h].pc # "enqueue"
  BY <1>2 DEF Lone, JobOfWorker, QueueOfJob, Stage
<1> QED
  BY <1>1, <1>2

\* The worker goes on, or its subprocess does, and writes nothing.
LEMMA Moves ==
    ASSUME Base, Lone, UNCHANGED <<realtime, status, active, job, queued, req>>,
           worker.pc # "idle", worker'.task = worker.task, InProgress' => InProgress, StatusAt'
    PROVE  Lone' /\ Life
<1>1. OneAtATime' /\ JobOfWorker' /\ QueueOfJob'
  BY DEF Lone, OneAtATime, JobOfWorker, QueueOfJob
<1>2. \A h \in Req : Stage(h)'
  BY DEF Lone, Stage
<1> QED
  BY <1>1, <1>2 DEF Lone, Life

\* The worker or its subprocess writes the status of the task of the job.
LEMMA Writes ==
    ASSUME Base, Lone, InProgress, NEW s \in Status, Legit(worker.task, s),
           status' = [status EXCEPT ![worker.task] = s],
           UNCHANGED <<realtime, active, job, queued, req>>,
           worker'.task = worker.task, StatusAt'
    PROVE  Lone' /\ Life
<1>0. worker.task \in Task /\ worker.pc # "idle"
  BY DEF Base, Shape, InProgress
<1>1. /\ status'[worker.task] = s
      /\ \A u \in Task \ {worker.task} : status'[u] = status[u]
  BY <1>0, StatusStep DEF Base
<1>2. OneAtATime' /\ JobOfWorker' /\ QueueOfJob'
  BY <1>0, Busy DEF Lone, OneAtATime, JobOfWorker, QueueOfJob
<1>3. ASSUME NEW h \in Req PROVE Stage(h)'
  <2>1. req'[h] = req[h] /\ (req[h].pc # "idle" => req[h].task \in Task)
    BY DEF Base, Shape
  <2>2. CASE req[h].pc \in Starting
    <3>1. req[h].task \in Task \ {worker.task} /\ req[h].pc \notin {"enqueue", "match_write"}
      BY <1>0, <2>1, <2>2, Busy DEF Lone, Stage, Starting
    <3>2. status'[req[h].task] = status[req[h].task]
      BY <1>1, <3>1
    <3> QED
      BY <2>1, <2>2, <3>1, <3>2 DEF Lone, Stage, Starting, InProgress
  <2>3. CASE req[h].pc = "match_write"
    <3>1. realtime /\ status[req[h].task] \in EndStatus \cup {"READY"} /\ req[h].task \in Task
      BY <2>1, <2>3 DEF Lone, Stage
    <3>2. CASE req[h].task = worker.task
      <4>1. status[worker.task] = "READY"
        BY <3>1, <3>2, Busy DEF EndStatus, RunningStatus
      <4>2. s \in EndStatus \cup {"READY"}
        BY <4>1 DEF Legit, RunningStatus, EndStatus
      <4> QED
        BY <1>1, <2>1, <2>3, <3>1, <3>2, <4>2 DEF Stage, Starting
    <3>3. CASE req[h].task # worker.task
      BY <1>1, <2>1, <2>3, <3>1, <3>3 DEF Stage, Starting
    <3> QED
      BY <3>2, <3>3
  <2>4. CASE req[h].pc \notin Starting \cup {"match_write"}
    BY <2>1, <2>4 DEF Stage, Starting
  <2> QED
    BY <2>2, <2>3, <2>4
<1> QED
  BY <1>0, <1>2, <1>3, LegitIsLife DEF Lone

\* The job ends: the worker is free, and its record says so.
LEMMA Ends ==
    ASSUME Base, Lone, NEW result \in {"finished", "failed"}, EndJob(result), worker.pc # "idle",
           UNCHANGED <<realtime, shared, queued, req>>
    PROVE  Lone' /\ Life
<1>1. worker'.pc = "idle" /\ job'.status = result
  BY EndJobStep DEF Base
<1>2. queued = 0 /\ \A h \in Req : req[h].pc # "enqueue"
  BY Busy
<1>3. OneAtATime' /\ JobOfWorker' /\ QueueOfJob' /\ StatusAt'
  BY <1>1, <1>2 DEF Lone, OneAtATime, JobOfWorker, QueueOfJob, StatusAt, InProgress
<1>4. \A h \in Req : Stage(h)'
  BY <1>1, <1>2 DEF Lone, Stage, InProgress, shared
<1> QED
  BY <1>3, <1>4 DEF Lone, Life, shared

LEMMA RunJobLone == ASSUME Base, Lone, RunJob PROVE Lone' /\ Life
<1>1. ASSUME NEW pc \in WorkerPc, GotoW(pc) PROVE worker'.pc = pc /\ worker'.task = worker.task
  BY <1>1, GotoWStep DEF Base
<1>2. {"launch_write", "popen", "check", "poll", "stop_kill", "stop_write", "reset", "return",
       "ttl_kill", "ttl_write", "end_read", "end_write"} \subseteq WorkerPc
  BY DEF WorkerPc, Loop
<1>3. Status = {"INIT", "PREPARING", "LAUNCHING", "READY", "TERMINATING",
                "COMPLETE", "FAILED", "OOMKILLED", "STOPPED", "TERMINATED"}
  BY DEF Status, RunningStatus, EndStatus
<1>4. CASE TakeJob
  <2>1. worker.pc = "idle" /\ queued = 1 /\ job.status = "queued"
    BY <1>4 DEF TakeJob, Lone, QueueOfJob
  <2>2. /\ job' = [job EXCEPT !.status = "started"]
        /\ worker' = [AtRest EXCEPT !.pc = "get_task", !.task = job.task]
        /\ queued' = queued - 1
        /\ UNCHANGED <<realtime, shared, flag, child, req, history>>
    BY <1>4, <2>1 DEF TakeJob
  <2>3. /\ job'.status = "started" /\ job'.task = job.task
        /\ worker'.pc = "get_task" /\ worker'.task = job.task /\ queued' = 0
    BY <2>1, <2>2 DEF Base, Shape, Job, AtRest
  <2>4. child.pc = "none"
    BY <2>1 DEF Base, ChildWhere
  <2>5. OneAtATime' /\ JobOfWorker' /\ QueueOfJob' /\ StatusAt'
    BY <2>1, <2>2, <2>3, <2>4 DEF Lone, OneAtATime, JobOfWorker, QueueOfJob, StatusAt, shared
  <2>6. \A h \in Req : Stage(h)'
    BY <2>1, <2>2, <2>3 DEF Lone, Stage, Starting, shared
  <2> QED
    BY <2>2, <2>5, <2>6 DEF Lone, Life, shared
<1>5. ASSUME NEW at, NEW next \in WorkerPc, ReadTask(at, next), at # "idle",
             at \in {"get_task", "end_read"}, next = IF at = "get_task" THEN "launch_write" ELSE "end_write"
      PROVE  Lone' /\ Life
  <2>1. CASE active[worker.task]
    <3>1. worker'.pc = next /\ worker'.task = worker.task
      BY <1>1, <1>5, <2>1 DEF ReadTask
    <3>2. /\ worker.pc = at /\ UNCHANGED <<realtime, status, active, job, queued, req, child>>
      BY <1>5, <2>1 DEF ReadTask, shared
    <3>3. InProgress /\ StatusAt'
      BY <1>5, <3>1, <3>2 DEF Lone, StatusAt, InProgress
    <3> QED
      BY <1>5, <3>1, <3>2, <3>3, Moves
  <2>2. CASE ~active[worker.task]
    <3>1. EndJob("failed") /\ worker.pc # "idle" /\ UNCHANGED <<realtime, shared, queued, req>>
      BY <1>5, <2>2 DEF ReadTask
    <3> QED
      BY <3>1, Ends
  <2> QED
    BY <2>1, <2>2
<1>6. ASSUME NEW at, NEW s \in Status, NEW next \in WorkerPc, WriteStatus(at, s, next),
             at \notin {"idle", "reset", "return"}, Legit(worker.task, s),
             next = "popen" => s = "LAUNCHING" /\ child.pc = "none",
             next \in {"popen", "reset", "return"}
      PROVE  Lone' /\ Life
  <2>1. worker'.pc = next /\ worker'.task = worker.task
    BY <1>1, <1>6 DEF WriteStatus
  <2>2. /\ worker.pc = at /\ status' = [status EXCEPT ![worker.task] = s]
        /\ UNCHANGED <<realtime, active, job, queued, req, child>>
    BY <1>6 DEF WriteStatus, redis
  <2>3. worker.task \in Task /\ InProgress
    BY <1>6, <2>2 DEF Base, Shape, InProgress
  <2>4. status'[worker.task] = s
    BY <2>2, <2>3, StatusStep DEF Base
  <2>5. StatusAt'
    BY <1>6, <2>1, <2>2, <2>4 DEF StatusAt, InProgress
  <2> QED
    BY <1>6, <2>1, <2>2, <2>3, <2>5, Writes
<1>7. ASSUME NEW at \in {"stop_kill", "ttl_kill"}, NEW next \in {"stop_write", "ttl_write"},
             Kill(at, next)
      PROVE  Lone' /\ Life
  <2>1. CASE active[worker.task]
    <3>1. worker'.pc = next /\ worker'.task = worker.task
      BY <1>1, <1>2, <1>7, <2>1 DEF Kill
    <3>2. /\ worker.pc = at /\ child' = IF Live THEN [NoChild EXCEPT !.pc = "killed"] ELSE child
          /\ UNCHANGED <<realtime, status, active, job, queued, req>>
      BY <1>7, <2>1 DEF Kill, shared
    <3>3. InProgress /\ worker.pc # "idle"
      BY <1>7, <3>2 DEF InProgress
    <3>4. CASE Live
      <4>1. child'.pc = "killed" /\ status[worker.task] \in {"LAUNCHING", "READY", "TERMINATING"}
        BY <3>2, <3>3, <3>4, ChildStep DEF Live, ChildAlive, ChildPc, Lone, StatusAt, Base, Status
      <4>2. StatusAt'
        BY <1>7, <3>1, <3>2, <4>1 DEF StatusAt
      <4> QED
        BY <3>1, <3>2, <3>3, <4>2, Moves
    <3>5. CASE ~Live
      <4>1. StatusAt'
        BY <1>7, <3>1, <3>2, <3>3, <3>5 DEF Lone, StatusAt
      <4> QED
        BY <3>1, <3>2, <3>3, <4>1, Moves
    <3> QED
      BY <3>4, <3>5
  <2>2. CASE ~active[worker.task]
    <3>1. EndJob("failed") /\ worker.pc # "idle" /\ UNCHANGED <<realtime, shared, queued, req>>
      BY <1>7, <2>2 DEF Kill
    <3> QED
      BY <3>1, Ends
  <2> QED
    BY <2>1, <2>2
<1>8. CASE GetTask
  BY <1>2, <1>5, <1>8 DEF GetTask
<1>9. CASE EndRead
  BY <1>2, <1>5, <1>9 DEF EndRead
<1>10. CASE LaunchWrite
  <2>1. worker.pc = "launch_write"
    BY <1>10 DEF LaunchWrite, WriteStatus
  <2>2. Legit(worker.task, "LAUNCHING") /\ child.pc = "none"
    BY <2>1 DEF Legit, Lone, StatusAt, InProgress, Base, ChildWhere
  <2> QED
    BY <1>2, <1>3, <1>6, <1>10, <2>2 DEF LaunchWrite
<1>11. CASE Popen
  <2>1. worker'.pc = "check" /\ worker'.task = worker.task
    BY <1>1, <1>2, <1>11 DEF Popen
  <2>2. child'.pc = "load"
    BY <1>3, <1>11, ChildStep DEF Popen, ChildPc, ChildAlive, Base
  <2>3. worker.pc = "popen" /\ UNCHANGED <<realtime, status, active, job, queued, req>>
    BY <1>11 DEF Popen, shared, redis
  <2>4. InProgress /\ StatusAt'
    BY <2>1, <2>2, <2>3 DEF Lone, StatusAt, InProgress
  <2> QED
    BY <2>1, <2>3, <2>4, Moves
<1>12. CASE CheckStop \/ Poll
  <2>1. PICK pc \in {"stop_kill", "poll", "end_read", "ttl_kill", "check"} : GotoW(pc)
    BY <1>12 DEF CheckStop, Poll
  <2>2. worker'.pc = pc /\ worker'.task = worker.task
    BY <1>1, <1>2, <2>1
  <2>3. /\ worker.pc \in {"check", "poll"}
        /\ UNCHANGED <<realtime, status, active, job, queued, req, child>>
    BY <1>12 DEF CheckStop, Poll, shared, redis
  <2>4. InProgress /\ StatusAt'
    BY <2>1, <2>2, <2>3 DEF Lone, StatusAt, InProgress
  <2> QED
    BY <2>2, <2>3, <2>4, Moves
<1>13. CASE StopKill \/ TTLKill
  BY <1>7, <1>13 DEF StopKill, TTLKill
<1>14. ASSUME worker.pc \in {"stop_write", "ttl_write", "end_write"}
       PROVE  /\ status[worker.task] \in {"LAUNCHING", "READY", "TERMINATING"}
              /\ child.pc = "ok" => status[worker.task] = "TERMINATING"
  <2>1. child.pc \in {"ok", "failed", "oom", "killed"}
    BY <1>14 DEF Base, ChildWhere, Live, Shape, Child, Loop
  <2> QED
    BY <1>14, <2>1 DEF Lone, StatusAt, InProgress
<1>15. CASE StopWrite
  <2>1. worker.pc = "stop_write"
    BY <1>15 DEF StopWrite, WriteStatus
  <2>2. Legit(worker.task, "STOPPED")
    BY <1>14, <2>1 DEF Legit, EndStatus
  <2> QED
    <3>1. WriteStatus("stop_write", "STOPPED", "reset")
      BY <1>15 DEF StopWrite
    <3>2. "STOPPED" \in Status /\ "reset" \in WorkerPc
      BY <1>2, <1>3
    <3> QED
      BY <1>6, <2>2, <3>1, <3>2
<1>16. CASE TTLWrite
  <2>1. worker.pc = "ttl_write"
    BY <1>16 DEF TTLWrite, WriteStatus
  <2>2. Legit(worker.task, "TERMINATED")
    BY <1>14, <2>1 DEF Legit, EndStatus
  <2> QED
    <3>1. WriteStatus("ttl_write", "TERMINATED", "return")
      BY <1>16 DEF TTLWrite
    <3>2. "TERMINATED" \in Status /\ "return" \in WorkerPc
      BY <1>2, <1>3
    <3> QED
      BY <1>6, <2>2, <3>1, <3>2
<1>17. CASE EndWrite
  <2>1. worker.pc = "end_write"
    BY <1>17 DEF EndWrite, WriteStatus
  <2>2. Legit(worker.task, Outcome) /\ Outcome \in Status
    BY <1>3, <1>14, <2>1 DEF Legit, EndStatus, Outcome
  <2> QED
    <3>1. WriteStatus("end_write", Outcome, "return")
      BY <1>17 DEF EndWrite
    <3>2. "return" \in WorkerPc
      BY <1>2
    <3> QED
      BY <1>6, <2>2, <3>1, <3>2
<1>18. CASE Reset
  <2>1. worker'.pc = "return" /\ worker'.task = worker.task
    BY <1>1, <1>2, <1>18 DEF Reset
  <2>2. worker.pc = "reset" /\ UNCHANGED <<realtime, status, active, job, queued, req>>
    BY <1>18 DEF Reset, shared
  <2> QED
    BY <2>1, <2>2, Moves DEF StatusAt, InProgress
<1>19. CASE FinishJob
  <2>1. EndJob("finished") /\ worker.pc # "idle" /\ UNCHANGED <<realtime, shared, queued, req>>
    BY <1>19 DEF FinishJob
  <2> QED
    BY <2>1, Ends
<1> QED
  BY <1>4, <1>8, <1>9, <1>10, <1>11, <1>12, <1>13, <1>15, <1>16, <1>17, <1>18, <1>19 DEF RunJob

LEMMA ComputeLone == ASSUME Base, Lone, Compute PROVE Lone' /\ Life
<1>1. ASSUME Live
      PROVE  worker.pc \in {"check", "poll", "stop_kill", "ttl_kill"} /\ InProgress
  BY <1>1 DEF Base, ChildWhere, Loop, InProgress
<1>2. {"LAUNCHING", "READY", "TERMINATING"} \subseteq Status
  BY DEF Status, RunningStatus
<1>3. ASSUME NEW from \in {"load", "saved"}, NEW to \in {"save", "term", "ready"},
             ChildRead(from, to)
      PROVE  Lone' /\ Life
  <2>1. Live /\ UNCHANGED <<realtime, status, active, job, queued, req, worker>>
    BY <1>3 DEF ChildRead, shared, redis, Live, ChildAlive
  <2>2. status[worker.task] = "LAUNCHING" /\ InProgress
    BY <1>1, <1>3, <2>1 DEF ChildRead, Lone, StatusAt
  <2>3. \/ child'.pc = to /\ child'.copy = "LAUNCHING"
        \/ child'.pc = "failed"
    BY <1>2, <1>3, <2>2, ChildStep DEF ChildRead, ChildPc, ChildAlive, Base
  <2>4. StatusAt'
    BY <1>1, <1>3, <2>1, <2>2, <2>3 DEF StatusAt
  <2> QED
    BY <2>1, <2>2, <2>4, Moves DEF InProgress
<1>4. ASSUME NEW from \in ChildAlive, NEW s \in Status, NEW to \in {"saved", "ok", "serving"},
             ChildWrite(from, s, to), Legit(worker.task, s),
             to = "saved" => s = "LAUNCHING", to = "ok" => s = "TERMINATING",
             to = "serving" => s = "READY"
      PROVE  Lone' /\ Life
  <2>1. Live /\ UNCHANGED <<realtime, active, job, queued, req, worker>>
    BY <1>4 DEF ChildWrite, redis, Live
  <2>2. worker.task \in Task /\ InProgress
    BY <1>1, <2>1 DEF Base, Shape
  <2>3. status' = [status EXCEPT ![worker.task] = s] /\ status'[worker.task] = s
    BY <1>4, <2>2, StatusStep DEF ChildWrite, Base
  <2>4. child'.pc = to
    BY <1>2, <1>4, ChildStep DEF ChildWrite, ChildPc, ChildAlive, Base
  <2>5. StatusAt'
    BY <1>1, <1>4, <2>1, <2>3, <2>4 DEF StatusAt
  <2> QED
    BY <1>4, <2>1, <2>2, <2>3, <2>5, Writes
<1>5. CASE BatchMatch \/ BatchReadRow \/ RealtimeLoad
  BY <1>3, <1>5 DEF BatchMatch, BatchReadRow, RealtimeLoad
<1>6. ASSUME child.pc \in {"save", "term", "ready"}
      PROVE  status[worker.task] = "LAUNCHING" /\ (child.pc = "save" => child.copy = "LAUNCHING")
  BY <1>1, <1>6 DEF Live, ChildAlive, Lone, StatusAt
<1>7. CASE BatchSave
  <2>1. child.pc = "save"
    BY <1>7 DEF BatchSave, ChildWrite
  <2>2. child.copy = "LAUNCHING" /\ Legit(worker.task, child.copy)
    BY <1>6, <2>1 DEF Legit
  <2> QED
    BY <1>2, <1>4, <1>7, <2>2 DEF BatchSave, ChildAlive
<1>8. CASE BatchTerminate
  <2>1. child.pc = "term"
    BY <1>8 DEF BatchTerminate, ChildWrite
  <2>2. Legit(worker.task, "TERMINATING")
    BY <1>6, <2>1 DEF Legit, Base, ChildWhere, Live, Shape, Child
  <2> QED
    BY <1>2, <1>4, <1>8, <2>2 DEF BatchTerminate, ChildAlive
<1>9. CASE RealtimeReady
  <2>1. child.pc = "ready"
    BY <1>9 DEF RealtimeReady, ChildWrite
  <2>2. realtime /\ Legit(worker.task, "READY")
    BY <1>6, <2>1 DEF Legit, Base, ChildWhere
  <2> QED
    BY <1>2, <1>4, <1>9, <2>2 DEF RealtimeReady, ChildAlive
<1>10. CASE ChildFails
  <2>1. Live /\ UNCHANGED <<realtime, status, active, job, queued, req, worker>>
    BY <1>10 DEF ChildFails, shared, redis
  <2>2. child'.pc \in {"failed", "oom"}
    BY <1>2, <1>10, ChildStep DEF ChildFails, ChildPc, Base
  <2>3. status[worker.task] \in {"LAUNCHING", "READY", "TERMINATING"}
    BY <1>1, <2>1 DEF Lone, StatusAt, Live, ChildAlive
  <2>4. StatusAt'
    BY <1>1, <2>1, <2>2, <2>3 DEF StatusAt
  <2> QED
    BY <1>1, <2>1, <2>4, Moves DEF InProgress
<1> QED
  BY <1>5, <1>7, <1>8, <1>9, <1>10 DEF Compute

\* The one busy request goes on; the worker and its subprocess stay.
LEMMA Alone ==
    ASSUME Base, Lone, NEW h \in Req, req[h].pc # "idle",
           \A g \in Req \ {h} : req'[g] = req[g],
           UNCHANGED <<realtime, active, worker, child>>
    PROVE  /\ OneAtATime'
           /\ \A g \in Req \ {h} : Stage(g)'
<1>1. \A g \in Req \ {h} : req'[g].pc = "idle"
  BY DEF Lone, OneAtATime
<1> QED
  BY <1>1 DEF OneAtATime, Stage, Starting

LEMMA ServeLone == ASSUME Base, Lone, NEW h \in Req, Serve(h) PROVE Lone' /\ Life
<1> DEFINE t == req[h].task
<1>0. {"start_read", "start_write", "rq_check", "enqueue", "match_write", "match_send"}
        \subseteq ReqPc
  BY DEF ReqPc
<1>1. ASSUME req[h].pc # "idle" PROVE t \in Task
  BY <1>1 DEF Base, Shape
<1>2. ASSUME UNCHANGED <<realtime, status, active, job, queued, worker, child>>,
             req[h].pc # "idle", \A g \in Req \ {h} : req'[g] = req[g], Stage(h)'
      PROVE  Lone' /\ Life
  BY <1>2, Alone DEF Lone, JobOfWorker, QueueOfJob, StatusAt, InProgress, Life
<1>3. ASSUME Return(h), UNCHANGED <<realtime, status, active, job, queued, worker, child>>,
             req[h].pc # "idle"
      PROVE  Lone' /\ Life
  <2>1. Stage(h)'
    BY <1>3, ReturnStep DEF Stage, Starting, Base
  <2> QED
    BY <1>2, <1>3, <2>1, ReturnStep DEF Base
<1>4. CASE StartRead(h)
  <2>1. CASE active[t]
    <3>1. Goto(h, "start_write") /\ req[h].pc = "start_read"
          /\ UNCHANGED <<realtime, status, active, job, queued, worker, child>>
      BY <1>4, <2>1 DEF StartRead, shared, redis
    <3>2. Stage(h)'
      BY <1>0, <3>1, GotoStep DEF Lone, Stage, Starting, InProgress, Base
    <3> QED
      BY <1>0, <1>2, <3>1, <3>2, GotoStep DEF Base
  <2>2. CASE ~active[t]
    BY <1>3, <1>4, <2>2 DEF StartRead, shared, redis
  <2> QED
    BY <2>1, <2>2
<1>5. CASE StartWrite(h)
  <2>1. /\ req[h].pc = "start_write" /\ status' = [status EXCEPT ![t] = "PREPARING"]
        /\ Goto(h, "rq_check") /\ UNCHANGED <<realtime, active, job, queued, worker, child>>
    BY <1>5 DEF StartWrite, redis
  <2>2. t \in Task /\ "PREPARING" \in Status
    BY <1>1, <2>1 DEF Status, RunningStatus
  <2>3. /\ status'[t] = "PREPARING" /\ \A u \in Task \ {t} : status'[u] = status[u]
    BY <2>1, <2>2, StatusStep DEF Base
  <2>4. /\ req'[h].pc = "rq_check" /\ req'[h].task = t
        /\ \A g \in Req \ {h} : req'[g] = req[g]
    BY <1>0, <2>1, GotoStep DEF Base
  <2>5. /\ InProgress => worker.task \in Task \ {t}
        /\ queued = 1 => job.task \in Task \ {t}
        /\ status[t] \notin RunningStatus
    BY <2>1 DEF Lone, Stage, Starting, QueueOfJob, Base, Shape, InProgress
  <2>6. Stage(h)'
    BY <2>1, <2>3, <2>4, <2>5 DEF Stage, Starting, InProgress
  <2>7. JobOfWorker' /\ QueueOfJob' /\ StatusAt'
    BY <2>1, <2>3, <2>5 DEF Lone, JobOfWorker, QueueOfJob, StatusAt, InProgress
  <2>8. Legit(t, "PREPARING")
    BY <2>5 DEF Legit
  <2>9. Life
    BY <2>1, <2>2, <2>8, LegitIsLife
  <2> QED
    BY <2>1, <2>4, <2>6, <2>7, <2>9, Alone DEF Lone
<1>6. CASE StartCheck(h)
  <2>1. CASE job.status \in {"none", "finished", "failed"}
    <3>1. Goto(h, "enqueue") /\ req[h].pc = "rq_check"
          /\ UNCHANGED <<realtime, status, active, job, queued, worker, child>>
      BY <1>6, <2>1 DEF StartCheck, shared, redis
    <3>2. Stage(h)'
      BY <1>0, <2>1, <3>1, GotoStep DEF Lone, Stage, Starting, InProgress, Base
    <3> QED
      BY <1>0, <1>2, <3>1, <3>2, GotoStep DEF Base
  <2>2. CASE job.status \notin {"none", "finished", "failed"}
    BY <1>3, <1>6, <2>2 DEF StartCheck, shared, redis
  <2> QED
    BY <2>1, <2>2
<1>7. CASE StartEnqueue(h)
  <2>1. /\ req[h].pc = "enqueue" /\ job' = [status |-> "queued", task |-> t]
        /\ queued' = queued + 1 /\ Return(h)
        /\ UNCHANGED <<realtime, status, active, worker, child>>
    BY <1>7 DEF StartEnqueue, shared
  <2>2. queued = 0 /\ status[t] = "PREPARING" /\ worker.pc = "idle"
    BY <2>1 DEF Lone, Stage, QueueOfJob, JobOfWorker
  <2>3. JobOfWorker' /\ QueueOfJob' /\ StatusAt'
    BY <2>1, <2>2 DEF JobOfWorker, QueueOfJob, StatusAt, InProgress
  <2>4. Stage(h)'
    BY <2>1, ReturnStep DEF Stage, Starting, Base
  <2> QED
    BY <2>1, <2>3, <2>4, Alone, ReturnStep DEF Lone, Life, Base
<1>8. CASE MatchWrite(h)
  <2>1. /\ req[h].pc = "match_write" /\ status' = [status EXCEPT ![t] = "READY"]
        /\ Goto(h, "match_send") /\ UNCHANGED <<realtime, active, job, queued, worker, child>>
    BY <1>8 DEF MatchWrite, redis
  <2>2. t \in Task /\ "READY" \in Status
    BY <1>1, <2>1 DEF Status, RunningStatus
  <2>3. /\ status'[t] = "READY" /\ \A u \in Task \ {t} : status'[u] = status[u]
    BY <2>1, <2>2, StatusStep DEF Base
  <2>4. realtime /\ status[t] \in EndStatus \cup {"READY"}
    BY <2>1 DEF Lone, Stage
  <2>5. Stage(h)'
    BY <1>0, <2>1, GotoStep DEF Stage, Starting, Base
  <2>6. JobOfWorker' /\ QueueOfJob'
    <3>1. queued = 1 => job.task \in Task \ {t}
      BY <2>4 DEF Lone, QueueOfJob, Base, Shape, EndStatus
    <3> QED
      BY <2>1, <2>3, <3>1 DEF Lone, JobOfWorker, QueueOfJob
  <2>7. StatusAt'
    <3>1. InProgress => worker.task \in Task
      BY DEF Base, Shape, InProgress
    <3>2. InProgress /\ worker.task = t => status[t] = "READY"
      BY <2>4, Busy DEF EndStatus, RunningStatus
    <3>3. InProgress => status'[worker.task] = status[worker.task]
      BY <2>3, <3>1, <3>2
    <3> QED
      BY <2>1, <3>3 DEF Lone, StatusAt, InProgress
  <2>8. Legit(t, "READY")
    BY <2>4 DEF Legit
  <2>9. Life
    BY <2>1, <2>2, <2>8, LegitIsLife
  <2> QED
    BY <1>0, <2>1, <2>5, <2>6, <2>7, <2>9, Alone, GotoStep DEF Lone, Base
<1>9. CASE MatchSend(h)
  <2>1. CASE child.pc = "serving"
    <3>1. /\ req[h].pc = "match_send"
          /\ req' = [req EXCEPT ![h] = [@ EXCEPT !.pc = "answered", !.by = worker.task]]
          /\ UNCHANGED <<realtime, status, active, job, queued, worker, child>>
      BY <1>9, <2>1 DEF MatchSend, shared, redis
    <3>2. Stage(h)'
      BY <3>1, AnsweredStep DEF Stage, Starting, Base
    <3> QED
      BY <1>2, <3>1, <3>2, AnsweredStep DEF Base
  <2>2. CASE child.pc # "serving"
    BY <1>3, <1>9, <2>2 DEF MatchSend, shared, redis
  <2> QED
    BY <2>1, <2>2
<1>10. CASE Answer(h)
  BY <1>3, <1>10 DEF Answer, shared, redis
<1> QED
  BY <1>4, <1>5, <1>6, <1>7, <1>8, <1>9, <1>10 DEF Serve

\* A request that no other one meets.
LEMMA BeginLone ==
    ASSUME Base, Lone, NEW h \in Req, NEW t \in Task, ~overlap',
           StartValidate(h, t) \/ MatchRead(h, t)
    PROVE  Lone' /\ Life
<1>0. PICK pc \in ReqPc : Begin(h, t, pc)
  BY DEF StartValidate, MatchRead, ReqPc
<1>1. /\ req'[h].pc = pc /\ req'[h].task = t
      /\ \A g \in Req \ {h} : req'[g].pc = "idle"
      /\ UNCHANGED <<realtime, status, active, job, queued, worker, child>>
  BY <1>0, BeginStep DEF Begin, shared, redis, Base
<1>2. \/ pc = "start_read" /\ status[t] \notin RunningStatus
      \/ pc = "match_write" /\ realtime /\ status[t] = "READY"
  <2>1. CASE StartValidate(h, t)
    BY <1>1, <2>1, BeginStep DEF StartValidate, ReqPc, Base
  <2>2. CASE MatchRead(h, t)
    BY <1>1, <2>2, BeginStep DEF MatchRead, ReqPc, Base
  <2> QED
    BY <2>1, <2>2
<1>3. Stage(h)'
  <2>1. status[t] \notin RunningStatus =>
           (InProgress => worker.task # t) /\ (queued = 1 => job.task # t)
    BY Busy DEF Lone, QueueOfJob, RunningStatus
  <2> QED
    BY <1>1, <1>2, <2>1 DEF Stage, Starting, InProgress
<1>4. \A g \in Req \ {h} : Stage(g)'
  BY <1>1 DEF Stage, Starting
<1>5. OneAtATime'
  BY <1>1 DEF OneAtATime
<1> QED
  BY <1>1, <1>3, <1>4, <1>5 DEF Lone, JobOfWorker, QueueOfJob, StatusAt, InProgress, Life

LEMMA OtherLone ==
    ASSUME Base, Lone,
           \/ TTLPasses \/ FlagExpires \/ JobExpires \/ WorkerDies
           \/ \E t \in Task : Stop(t) \/ Delete(t)
           \/ UNCHANGED vars
    PROVE  Lone' /\ Life
<1> USE DEF Lone
<1>1. ASSUME UNCHANGED <<realtime, status, job, queued, worker, child, req>> PROVE Lone'
  BY <1>1 DEF OneAtATime, JobOfWorker, QueueOfJob, StatusAt, InProgress, Stage, Starting
<1>2. CASE FlagExpires
  BY <1>1, <1>2 DEF FlagExpires, shared, Life
<1>3. ASSUME NEW t \in Task, Stop(t) PROVE Lone' /\ Life
  BY <1>1, <1>3 DEF Stop, shared, Life
<1>4. ASSUME NEW t \in Task, Delete(t) PROVE Lone' /\ Life
  <2>1. Lone'
    BY <1>1, <1>4 DEF Delete, redis, history
  <2>2. BatchLife!Delete(t) /\ RealtimeLife!Delete(t)
    BY <1>4 DEF Delete, BatchLife!Delete, RealtimeLife!Delete
  <2> QED
    BY <2>1, <2>2 DEF BatchLife!Next, RealtimeLife!Next, Life
<1>5. CASE UNCHANGED vars
  BY <1>1, <1>5 DEF vars, shared, redis, Life
<1>6. CASE TTLPasses
  <2>1. /\ worker'.pc = worker.pc /\ worker'.task = worker.task
        /\ UNCHANGED <<realtime, status, active, job, queued, child, req>>
    BY <1>6 DEF TTLPasses, Base, Shape, Worker, shared, redis
  <2> QED
    BY <2>1 DEF OneAtATime, JobOfWorker, QueueOfJob, StatusAt, InProgress, Stage, Starting, Life
<1>7. CASE JobExpires
  <2>1. /\ job.status = "finished" /\ job'.status = "none"
        /\ UNCHANGED <<realtime, status, active, queued, worker, child, req>>
    BY <1>7 DEF JobExpires, shared
  <2>2. worker.pc = "idle" /\ queued = 0
    BY <2>1 DEF JobOfWorker, QueueOfJob
  <2> QED
    BY <2>1, <2>2 DEF OneAtATime, JobOfWorker, QueueOfJob, StatusAt, InProgress, Stage, Starting, Life
<1>8. CASE WorkerDies
  <2>1. /\ worker.pc # "idle" /\ worker'.pc = "idle"
        /\ UNCHANGED <<realtime, status, active, job, queued, req>>
    BY <1>8, AtRestIsWorker DEF WorkerDies, shared, redis
  <2> QED
    BY <2>1 DEF OneAtATime, JobOfWorker, QueueOfJob, StatusAt, InProgress, Stage, Starting, Life
<1> QED
  BY <1>2, <1>3, <1>4, <1>5, <1>6, <1>7, <1>8

LoneInv == ~overlap => Lone

\* Two requests at a time are remembered.
LEMMA OverlapStays == [Next]_vars => (overlap => overlap')
BY DEF Next, Serve, StartRead, StartWrite, StartCheck, StartEnqueue, MatchWrite, MatchSend, Answer,
   StartValidate, MatchRead, Begin, Stop, Delete, RunJob, TakeJob, GetTask, LaunchWrite, Popen,
   CheckStop, Poll, StopKill, StopWrite, Reset, TTLKill, TTLWrite, EndRead, EndWrite, FinishJob,
   ReadTask, WriteStatus, Kill, Compute, BatchMatch, BatchSave, BatchReadRow, BatchTerminate,
   RealtimeLoad, RealtimeReady, ChildFails, ChildRead, ChildWrite, TTLPasses, FlagExpires,
   JobExpires, WorkerDies, vars, history

LEMMA LoneNext ==
    ASSUME Base, LoneInv, [Next]_vars
    PROVE  LoneInv' /\ (overlap' \/ Life)
<1> SUFFICES ASSUME ~overlap' PROVE Lone' /\ Life
  BY DEF LoneInv
<1>1. Lone
  BY OverlapStays DEF LoneInv
<1> QED
  BY <1>1, ServeLone, BeginLone, RunJobLone, ComputeLone, OtherLone DEF Next

LEMMA LoneAlways == Spec => []LoneInv
<1>1. Init => LoneInv
  <2> SUFFICES ASSUME Init PROVE Lone
    BY DEF LoneInv
  <2>1. worker.pc = "idle" /\ \A h \in Req : req[h].pc = "idle"
    BY AtRestIsWorker, IdleIsRequest DEF Init
  <2> QED
    BY <2>1 DEF Init, Lone, OneAtATime, JobOfWorker, QueueOfJob, StatusAt, InProgress, Stage, Starting
<1> QED
  BY <1>1, LoneNext, BaseAlways, PTL DEF Spec

\* While requests come one at a time the queue, the record of the job id and the
\* worker are about one start, for any number of tasks, starts, expired records
\* and deaths of the worker.
THEOREM QueueHoldsTheJobAlways == Spec => []QueueHoldsTheJob
<1>1. LoneInv => QueueHoldsTheJob
  BY DEF LoneInv, Lone, QueueOfJob, QueueHoldsTheJob
<1> QED
  BY <1>1, LoneAlways, PTL

\* The executor on RQ implements the life cycle of TaskStatus while requests
\* come one at a time: every step is one of the life cycle or leaves the
\* statuses alone.
THEOREM FollowsLifecycleAlways == Spec => FollowsLifecycle
<1>1. Base /\ LoneInv /\ [Next]_vars =>
        [\/ overlap'
         \/ IF realtime THEN RealtimeLife!Next ELSE BatchLife!Next]_<<status, active>>
  BY LoneNext DEF Life
<1> QED
  BY <1>1, BaseAlways, LoneAlways, PTL DEF Spec, FollowsLifecycle

-----------------------------------------------------------------------------
(* Who answers a query.                                                    *)

\* A task that is READY, and was not made so by a late query, is the one of the
\* record, and its job has not come to the steps after its last status.
ReadyOwner ==
    \A t \in Task : status[t] = "READY" /\ active[t] /\ t \notin revived =>
        job.status = "started" /\ job.task = t /\ worker.pc \notin {"reset", "return"}

\* A query of a task that was READY meets the worker with that task, or idle.
OwnStage(h) ==
    LET q == req[h] IN
    /\ q.pc \in {"match_write", "match_send"} =>
         \/ q.task \in revived
         \/ queued = 0 /\ (worker.pc # "idle" => worker.task = q.task)
    /\ q.pc = "answered" => q.by = q.task \/ q.task \in revived

Own    == ReadyOwner /\ \A h \in Req : OwnStage(h)
OwnInv == ~overlap => Own

LEMMA OwnKeeps ==
    ASSUME Own, UNCHANGED <<status, job, queued, req, revived>>,
           \A t \in Task : active'[t] => active[t],
           worker'.pc # "idle" => worker'.task = worker.task /\ worker.pc # "idle",
           worker'.pc \in {"reset", "return"} => worker.pc \in {"reset", "return"}
    PROVE  Own'
<1>1. ReadyOwner'
  BY DEF Own, ReadyOwner
<1>2. \A h \in Req : OwnStage(h)'
  BY DEF Own, OwnStage
<1> QED
  BY <1>1, <1>2 DEF Own

LEMMA OwnWrites ==
    ASSUME Base, Lone, Own, worker.pc # "idle", NEW s,
           status' = [status EXCEPT ![worker.task] = s],
           UNCHANGED <<active, job, queued, req, revived>>,
           worker'.task = worker.task,
           s # "READY" \/ worker'.pc \notin {"reset", "return"}
    PROVE  Own'
<1>1. job.status = "started" /\ job.task = worker.task /\ worker.task \in Task
  BY DEF Lone, JobOfWorker, Base, Shape
<1>2. status'[worker.task] = s /\ \A t \in Task \ {worker.task} : status'[t] = status[t]
  BY <1>1 DEF Base, Shape
<1>3. ReadyOwner'
  BY <1>1, <1>2 DEF Own, ReadyOwner
<1>4. \A h \in Req : OwnStage(h)'
  BY DEF Own, OwnStage
<1> QED
  BY <1>3, <1>4 DEF Own

\* A job ends: its task is not READY, was revived or was deleted.
LEMMA OwnEnds ==
    ASSUME Base, Lone, Own, NEW result \in {"finished", "failed"}, EndJob(result),
           UNCHANGED <<shared, queued, req, revived>>, worker.pc # "idle",
           worker.pc \in {"reset", "return"} \/ ~active[worker.task]
    PROVE  Own'
<1>1. worker'.pc = "idle" /\ job.status = "started" /\ job.task = worker.task
  BY EndJobStep DEF Lone, JobOfWorker, Base
<1>2. \A t \in Task : ~(status[t] = "READY" /\ active[t] /\ t \notin revived)
  BY <1>1 DEF Own, ReadyOwner
<1>3. ReadyOwner'
  BY <1>2 DEF ReadyOwner, shared
<1>4. \A h \in Req : OwnStage(h)'
  BY <1>1 DEF Own, OwnStage
<1> QED
  BY <1>3, <1>4 DEF Own

LEMMA RunJobOwn == ASSUME Base, Lone, Own, RunJob PROVE Own'
<1>1. ASSUME NEW pc \in WorkerPc, GotoW(pc) PROVE worker'.pc = pc /\ worker'.task = worker.task
  BY <1>1, GotoWStep DEF Base
<1>2. {"launch_write", "popen", "check", "poll", "stop_kill", "stop_write", "reset", "return",
       "ttl_kill", "ttl_write", "end_read", "end_write"} \subseteq WorkerPc
  BY DEF WorkerPc, Loop
<1>3. CASE TakeJob
  <2>1. worker.pc = "idle" /\ queued = 1 /\ job.status = "queued"
    BY <1>3 DEF TakeJob, Lone, QueueOfJob
  <2>2. UNCHANGED <<status, active, req, revived>>
    BY <1>3 DEF TakeJob, shared, history
  <2>3. ReadyOwner'
    BY <2>1, <2>2 DEF Own, ReadyOwner
  <2>4. \A h \in Req : OwnStage(h)'
    BY <2>1, <2>2 DEF Own, OwnStage
  <2> QED
    BY <2>3, <2>4 DEF Own
<1>4. ASSUME NEW at, NEW next \in {"launch_write", "end_write"}, ReadTask(at, next), at # "idle"
      PROVE  Own'
  <2>1. CASE active[worker.task]
    BY <1>1, <1>2, <1>4, <2>1, OwnKeeps DEF ReadTask, shared, history
  <2>2. CASE ~active[worker.task]
    BY <1>4, <2>2, OwnEnds DEF ReadTask, history
  <2> QED
    BY <2>1, <2>2
<1>5. ASSUME NEW at, NEW s, NEW next \in WorkerPc, WriteStatus(at, s, next), at # "idle",
             s # "READY"
      PROVE  Own'
  <2>1. worker'.task = worker.task
    BY <1>1, <1>5 DEF WriteStatus
  <2> QED
    BY <1>5, <2>1, OwnWrites DEF WriteStatus, redis, history
<1>6. ASSUME NEW at \in {"stop_kill", "ttl_kill"}, NEW next \in {"stop_write", "ttl_write"},
             Kill(at, next)
      PROVE  Own'
  <2>1. CASE active[worker.task]
    BY <1>1, <1>2, <1>6, <2>1, OwnKeeps DEF Kill, shared, history
  <2>2. CASE ~active[worker.task]
    BY <1>6, <2>2, OwnEnds DEF Kill, history
  <2> QED
    BY <2>1, <2>2
<1>7. CASE GetTask \/ EndRead
  BY <1>4, <1>7 DEF GetTask, EndRead
<1>8. CASE LaunchWrite
  BY <1>2, <1>5, <1>8 DEF LaunchWrite
<1>9. CASE StopWrite
  BY <1>2, <1>5, <1>9 DEF StopWrite
<1>10. CASE TTLWrite
  BY <1>2, <1>5, <1>10 DEF TTLWrite
<1>11. CASE EndWrite
  <2>1. Outcome # "READY"
    BY DEF Outcome
  <2> QED
    BY <1>2, <1>5, <1>11, <2>1 DEF EndWrite
<1>12. CASE Popen
  BY <1>1, <1>2, <1>12, OwnKeeps DEF Popen, shared, redis, history
<1>13. CASE CheckStop \/ Poll
  <2>1. PICK pc \in {"stop_kill", "poll", "end_read", "ttl_kill", "check"} : GotoW(pc)
    BY <1>13 DEF CheckStop, Poll
  <2>2. worker'.pc = pc /\ worker'.task = worker.task
    BY <1>1, <1>2, <2>1
  <2> QED
    BY <1>13, <2>2, OwnKeeps DEF CheckStop, Poll, shared, redis, history
<1>14. CASE StopKill \/ TTLKill
  BY <1>6, <1>14 DEF StopKill, TTLKill
<1>15. CASE Reset
  BY <1>1, <1>2, <1>15, OwnKeeps DEF Reset, shared
<1>16. CASE FinishJob
  BY <1>16, OwnEnds DEF FinishJob, history
<1> QED
  BY <1>3, <1>7, <1>8, <1>9, <1>10, <1>11, <1>12, <1>13, <1>14, <1>15, <1>16 DEF RunJob

LEMMA ComputeOwn == ASSUME Base, Lone, Own, Compute PROVE Own'
<1>1. ASSUME Live PROVE worker.pc \in {"check", "poll", "stop_kill", "ttl_kill"}
  BY <1>1 DEF Base, ChildWhere, Loop
<1>2. ASSUME NEW from \in ChildAlive, NEW s, NEW to, ChildWrite(from, s, to) PROVE Own'
  <2>1. worker.pc \in {"check", "poll", "stop_kill", "ttl_kill"} /\ worker' = worker
    BY <1>1, <1>2 DEF ChildWrite, Live
  <2> QED
    BY <1>2, <2>1, OwnWrites DEF ChildWrite, redis, history
<1>3. CASE BatchSave \/ BatchTerminate \/ RealtimeReady
  BY <1>2, <1>3 DEF BatchSave, BatchTerminate, RealtimeReady, ChildAlive
<1>4. CASE BatchMatch \/ BatchReadRow \/ RealtimeLoad \/ ChildFails
  BY <1>4, OwnKeeps DEF BatchMatch, BatchReadRow, RealtimeLoad, ChildRead, ChildFails,
     shared, redis, history
<1> QED
  BY <1>3, <1>4 DEF Compute

LEMMA OtherOwn ==
    ASSUME Base, Lone, Own,
           \/ TTLPasses \/ FlagExpires \/ JobExpires \/ WorkerDies
           \/ \E t \in Task : Stop(t) \/ Delete(t)
           \/ UNCHANGED vars
    PROVE  Own'
<1>1. CASE TTLPasses
  <2>1. worker'.pc = worker.pc /\ worker'.task = worker.task
    BY <1>1 DEF TTLPasses, Base, Shape, Worker
  <2> QED
    BY <1>1, <2>1, OwnKeeps DEF TTLPasses, shared, redis, history
<1>2. CASE FlagExpires \/ \E t \in Task : Stop(t)
  BY <1>2, OwnKeeps DEF FlagExpires, Stop, shared
<1>3. ASSUME NEW t \in Task, Delete(t) PROVE Own'
  <2>1. \A u \in Task : active'[u] => active[u]
    BY <1>3 DEF Delete, Base, Shape
  <2> QED
    BY <1>3, <2>1, OwnKeeps DEF Delete, redis, history
<1>4. CASE JobExpires
  <2>1. ReadyOwner'
    BY <1>4 DEF JobExpires, Own, ReadyOwner, shared, history
  <2>2. \A h \in Req : OwnStage(h)'
    BY <1>4 DEF JobExpires, Own, OwnStage, shared, history
  <2> QED
    BY <2>1, <2>2 DEF Own
<1>5. CASE WorkerDies
  BY <1>5, AtRestIsWorker, OwnKeeps DEF WorkerDies, shared, redis
<1>6. CASE UNCHANGED vars
  BY <1>6, OwnKeeps DEF vars, shared, redis, history
<1> QED
  BY <1>1, <1>2, <1>3, <1>4, <1>5, <1>6

\* The one busy request goes on.
LEMMA OwnAlone ==
    ASSUME Base, Lone, Own, NEW h \in Req, req[h].pc # "idle", OwnStage(h)', ReadyOwner',
           \A g \in Req \ {h} : req'[g] = req[g]
    PROVE  Own'
<1>1. \A g \in Req \ {h} : req'[g].pc = "idle"
  BY DEF Lone, OneAtATime
<1> QED
  BY <1>1 DEF Own, OwnStage

LEMMA ServeOwn == ASSUME Base, Lone, Own, NEW h \in Req, Serve(h) PROVE Own'
<1> DEFINE t == req[h].task
<1>0. {"start_read", "start_write", "rq_check", "enqueue", "match_write", "match_send"}
        \subseteq ReqPc
  BY DEF ReqPc
<1>1. ASSUME UNCHANGED <<status, active, job, worker, revived>> PROVE ReadyOwner'
  BY <1>1 DEF Own, ReadyOwner
<1>2. ASSUME Return(h), ReadyOwner', req[h].pc # "idle" PROVE Own'
  <2>1. OwnStage(h)'
    BY <1>2, ReturnStep DEF OwnStage, Base
  <2> QED
    BY <1>2, <2>1, OwnAlone, ReturnStep DEF Base
<1>3. ASSUME NEW pc \in {"start_write", "rq_check", "enqueue"}, Goto(h, pc), ReadyOwner',
             req[h].pc # "idle"
      PROVE  Own'
  <2>1. OwnStage(h)'
    BY <1>0, <1>3, GotoStep DEF OwnStage, Base
  <2> QED
    BY <1>0, <1>3, <2>1, OwnAlone, GotoStep DEF Base
<1>4. CASE StartRead(h) \/ StartCheck(h)
  BY <1>1, <1>2, <1>3, <1>4 DEF StartRead, StartCheck, shared, redis, history
<1>5. CASE StartWrite(h)
  <2>1. t \in Task
    BY <1>5 DEF StartWrite, Base, Shape
  <2>2. status'[t] = "PREPARING" /\ \A u \in Task \ {t} : status'[u] = status[u]
    BY <1>5, <2>1 DEF StartWrite, Base, Shape
  <2>3. ReadyOwner'
    BY <1>5, <2>1, <2>2 DEF StartWrite, Own, ReadyOwner, redis
  <2> QED
    BY <1>3, <1>5, <2>3 DEF StartWrite
<1>6. CASE StartEnqueue(h)
  <2>1. job.status \in {"none", "finished", "failed"}
    BY <1>6 DEF StartEnqueue, Lone, Stage
  <2>2. ReadyOwner'
    BY <1>6, <2>1 DEF StartEnqueue, Own, ReadyOwner, shared, history
  <2> QED
    BY <1>2, <1>6, <2>2 DEF StartEnqueue
<1>7. CASE MatchWrite(h)
  <2>1. t \in Task /\ Goto(h, "match_send") /\ UNCHANGED <<active, job, queued, worker>>
    BY <1>7 DEF MatchWrite, Base, Shape, redis
  <2>2. \A u \in Task \ {t} : status'[u] = status[u]
    BY <1>7, <2>1 DEF MatchWrite, Base, Shape
  <2>3. revived \subseteq revived' /\ (status[t] # "READY" => t \in revived')
    BY <1>7 DEF MatchWrite
  <2>4. ReadyOwner'
    BY <2>1, <2>2, <2>3 DEF Own, ReadyOwner
  <2>5. OwnStage(h)'
    BY <1>0, <1>7, <2>1, <2>3, GotoStep DEF MatchWrite, Own, OwnStage, Base
  <2> QED
    BY <1>0, <1>7, <2>1, <2>4, <2>5, OwnAlone, GotoStep DEF MatchWrite, Base
<1>8. CASE MatchSend(h)
  <2>1. ReadyOwner' /\ revived' = revived /\ req[h].pc = "match_send"
    BY <1>1, <1>8 DEF MatchSend, shared, redis, history
  <2>2. CASE child.pc = "serving"
    <3>1. /\ req' = [req EXCEPT ![h] = [@ EXCEPT !.pc = "answered", !.by = worker.task]]
          /\ worker.pc # "idle"
      BY <1>8, <2>2 DEF MatchSend, Base, ChildWhere
    <3>2. req'[h].pc = "answered" /\ req'[h].task = t /\ req'[h].by = worker.task
      BY <3>1 DEF Base, Shape, Request
    <3>3. OwnStage(h)'
      BY <2>1, <3>1, <3>2 DEF Own, OwnStage
    <3> QED
      BY <2>1, <3>1, <3>3, OwnAlone, AnsweredStep DEF Base
  <2>3. CASE child.pc # "serving"
    BY <1>2, <1>8, <2>1, <2>3 DEF MatchSend
  <2> QED
    BY <2>2, <2>3
<1>9. CASE Answer(h)
  BY <1>1, <1>2, <1>9 DEF Answer, shared, redis, history
<1> QED
  BY <1>4, <1>5, <1>6, <1>7, <1>8, <1>9 DEF Serve

LEMMA BeginOwn ==
    ASSUME Base, Lone, Own, NEW h \in Req, NEW t \in Task, ~overlap',
           StartValidate(h, t) \/ MatchRead(h, t)
    PROVE  Own'
<1>0. PICK pc \in {"start_read", "match_write"} :
         /\ Begin(h, t, pc)
         /\ pc = "match_write" => status[t] = "READY"
  BY DEF StartValidate, MatchRead
<1>1. /\ req'[h].pc = pc /\ req'[h].task = t /\ active[t]
      /\ \A g \in Req \ {h} : req'[g].pc = "idle"
      /\ UNCHANGED <<status, active, job, queued, worker, revived>>
  BY <1>0, BeginStep DEF Begin, shared, redis, Base, ReqPc
<1>2. ReadyOwner'
  BY <1>1 DEF Own, ReadyOwner
<1>3. OwnStage(h)'
  <2>1. CASE pc = "match_write" /\ t \notin revived
    <3>1. job.status = "started" /\ job.task = t
      BY <1>0, <1>1, <2>1 DEF Own, ReadyOwner
    <3>2. queued = 0 /\ (worker.pc # "idle" => worker.task = t)
      BY <3>1 DEF Lone, QueueOfJob, JobOfWorker
    <3> QED
      BY <1>1, <2>1, <3>2 DEF OwnStage
  <2>2. CASE pc = "start_read" \/ t \in revived
    BY <1>0, <1>1, <2>2 DEF OwnStage
  <2> QED
    BY <1>0, <2>1, <2>2
<1>4. \A g \in Req \ {h} : OwnStage(g)'
  BY <1>1 DEF OwnStage
<1> QED
  BY <1>2, <1>3, <1>4 DEF Own

LEMMA OwnNext ==
    ASSUME Base, LoneInv, OwnInv, [Next]_vars
    PROVE  OwnInv'
<1> SUFFICES ASSUME ~overlap' PROVE Own'
  BY DEF OwnInv
<1>1. Lone /\ Own
  BY OverlapStays DEF LoneInv, OwnInv
<1> QED
  BY <1>1, ServeOwn, BeginOwn, RunJobOwn, ComputeOwn, OtherOwn DEF Next

\* While requests come one at a time a query is answered by the process of its
\* own task, although all tasks share one name of the service; but for a task
\* that a late query has made READY without a process of its own.
THEOREM AnsweredByOwnTaskAlways == Spec => []AnsweredByOwnTask
<1>1. Init => OwnInv
  <2> SUFFICES ASSUME Init PROVE Own
    BY DEF OwnInv
  <2>1. \A h \in Req : req[h].pc = "idle"
    BY IdleIsRequest DEF Init
  <2> QED
    BY <2>1 DEF Init, Own, ReadyOwner, OwnStage
<1>2. OwnInv => AnsweredByOwnTask
  BY DEF OwnInv, Own, OwnStage, AnsweredByOwnTask
<1> QED
  BY <1>1, <1>2, OwnNext, LoneAlways, BaseAlways, PTL DEF Spec

-----------------------------------------------------------------------------
(* The whole of TypeOK: the queue holds no more than the start requests     *)
(* have put there, so that each start request in progress and each job in  *)
(* the queue is one of starts.                                             *)

Starters == {h \in Req : req[h].pc \in Starting}

Counted ==
    /\ IsFiniteSet(Starters)
    /\ starts \in Nat /\ starts <= MaxStarts
    /\ queued + Cardinality(Starters) <= starts
    /\ overlap \in BOOLEAN
    /\ revived \subseteq Task

\* What the steps of one thread make of Starters.
LEMMA StartingSame ==
    ASSUME NEW h \in Req, \A g \in Req \ {h} : req'[g] = req[g],
           req[h].pc \in Starting <=> req'[h].pc \in Starting
    PROVE  Starters' = Starters
<1>1. \A g \in Req : req'[g].pc \in Starting <=> req[g].pc \in Starting
  OBVIOUS
<1> QED
  BY <1>1 DEF Starters

LEMMA StartingMore ==
    ASSUME Counted, NEW h \in Req, \A g \in Req \ {h} : req'[g] = req[g],
           req[h].pc \notin Starting, req'[h].pc \in Starting
    PROVE  IsFiniteSet(Starters') /\ Cardinality(Starters') = Cardinality(Starters) + 1
<1>1. Starters' = Starters \cup {h} /\ h \notin Starters
  BY DEF Starters
<1> QED
  BY <1>1, FS_AddElement DEF Counted

LEMMA StartingLess ==
    ASSUME Counted, NEW h \in Req, \A g \in Req \ {h} : req'[g] = req[g],
           req[h].pc \in Starting, req'[h].pc \notin Starting
    PROVE  /\ IsFiniteSet(Starters')
           /\ Cardinality(Starters') \in Nat
           /\ Cardinality(Starters) = Cardinality(Starters') + 1
<1>1. Starters' = Starters \ {h} /\ h \in Starters
  BY DEF Starters
<1>2. IsFiniteSet(Starters') /\ Cardinality(Starters') = Cardinality(Starters) - 1
  BY <1>1, FS_RemoveElement DEF Counted
<1>3. Cardinality(Starters) \in Nat /\ Cardinality(Starters') \in Nat
  BY <1>2, FS_CardinalityType DEF Counted
<1> QED
  BY <1>2, <1>3

LEMMA ServeCounted ==
    ASSUME Base, Counted, NEW h \in Req, Serve(h)
    PROVE  Counted'
<1> USE DEF Base
<1>0. /\ {"start_read", "start_write", "rq_check", "enqueue", "match_write", "match_send"}
            \subseteq ReqPc
      /\ Cardinality(Starters) \in Nat /\ queued \in Nat
  BY FS_CardinalityType DEF ReqPc, Counted, Shape
<1>1. ASSUME \A g \in Req \ {h} : req'[g] = req[g], UNCHANGED <<queued, starts, overlap>>,
             req'[h].pc \in Starting => req[h].pc \in Starting, revived' \subseteq Task
      PROVE  Counted'
  <2>1. CASE req[h].pc \in Starting <=> req'[h].pc \in Starting
    BY <1>1, <2>1, StartingSame DEF Counted
  <2>2. CASE req[h].pc \in Starting /\ req'[h].pc \notin Starting
    BY <1>0, <1>1, <2>2, StartingLess DEF Counted
  <2> QED
    BY <1>1, <2>1, <2>2
<1>2. CASE StartRead(h)
  BY <1>0, <1>1, <1>2, GotoStep, ReturnStep DEF StartRead, redis, history, Counted, Starting
<1>3. CASE StartWrite(h)
  BY <1>0, <1>1, <1>3, GotoStep DEF StartWrite, redis, Counted, Starting
<1>4. CASE StartCheck(h)
  BY <1>0, <1>1, <1>4, GotoStep, ReturnStep DEF StartCheck, redis, history, Counted, Starting
<1>5. CASE StartEnqueue(h)
  <2>1. /\ \A g \in Req \ {h} : req'[g] = req[g]
        /\ req[h].pc \in Starting /\ req'[h].pc \notin Starting
        /\ queued' = queued + 1 /\ UNCHANGED history
    BY <1>5, ReturnStep DEF StartEnqueue, Starting
  <2> QED
    BY <1>0, <2>1, StartingLess DEF Counted, history
<1>6. CASE MatchWrite(h)
  <2>1. req[h].pc = "match_write" /\ req[h].task \in Task
    BY <1>6 DEF MatchWrite, Shape
  <2>2. revived' \subseteq Task
    BY <1>6, <2>1 DEF MatchWrite, Counted
  <2> QED
    BY <1>0, <1>1, <1>6, <2>1, <2>2, GotoStep DEF MatchWrite, redis, Starting
<1>7. CASE MatchSend(h)
  BY <1>1, <1>7, ReturnStep, AnsweredStep DEF MatchSend, redis, history, Counted, Starting
<1>8. CASE Answer(h)
  BY <1>1, <1>8, ReturnStep DEF Answer, redis, history, Counted, Starting
<1> QED
  BY <1>2, <1>3, <1>4, <1>5, <1>6, <1>7, <1>8 DEF Serve

LEMMA BeginCounted ==
    ASSUME Base, Counted, NEW h \in Req, NEW t \in Task,
           StartValidate(h, t) \/ MatchRead(h, t)
    PROVE  Counted'
<1>0. Cardinality(Starters) \in Nat /\ queued \in Nat /\ MaxStarts \in Nat
  BY FS_CardinalityType, RqAssumption DEF Counted, Base, Shape
<1>1. ASSUME NEW pc \in ReqPc, Begin(h, t, pc)
      PROVE  /\ \A g \in Req \ {h} : req'[g] = req[g]
             /\ req[h].pc \notin Starting /\ req'[h].pc = pc
             /\ overlap' \in BOOLEAN /\ revived' = revived /\ queued' = queued
  BY <1>1, BeginStep DEF Base, Begin, redis, Starting, Counted
<1>2. CASE StartValidate(h, t)
  <2>1. "start_read" \in ReqPc /\ Begin(h, t, "start_read") /\ starts < MaxStarts /\ starts' = starts + 1
    BY <1>2 DEF StartValidate, ReqPc
  <2>2. IsFiniteSet(Starters') /\ Cardinality(Starters') = Cardinality(Starters) + 1
    BY <1>1, <2>1, StartingMore DEF Starting
  <2> QED
    BY <1>0, <1>1, <2>1, <2>2 DEF Counted
<1>3. CASE MatchRead(h, t)
  <2>1. "match_write" \in ReqPc /\ Begin(h, t, "match_write") /\ UNCHANGED starts
    BY <1>3 DEF MatchRead, ReqPc
  <2>2. Starters' = Starters
    BY <1>1, <2>1, StartingSame DEF Starting
  <2> QED
    BY <1>1, <2>1, <2>2 DEF Counted
<1> QED
  BY <1>2, <1>3

LEMMA CountedNext == Base /\ Counted /\ [Next]_vars => Counted'
<1> SUFFICES ASSUME Base, Counted, [Next]_vars PROVE Counted'
  OBVIOUS
<1>0. Cardinality(Starters) \in Nat /\ queued \in Nat
  BY FS_CardinalityType DEF Counted, Base, Shape
<1>1. ASSUME UNCHANGED <<req, starts, overlap, revived>>, queued' \in Nat, queued' <= queued
      PROVE  Counted'
  <2>1. Starters' = Starters
    BY <1>1 DEF Starters
  <2> QED
    BY <1>0, <1>1, <2>1 DEF Counted
<1>2. ASSUME NEW h \in Req, Serve(h) \/ \E t \in Task : StartValidate(h, t) \/ MatchRead(h, t)
      PROVE  Counted'
  BY <1>2, ServeCounted, BeginCounted
<1>3. ASSUME NEW t \in Task, Stop(t) \/ Delete(t) PROVE Counted'
  BY <1>0, <1>1, <1>3 DEF Stop, Delete, redis, history
<1>4. CASE RunJob
  <2>1. CASE TakeJob
    BY <1>0, <1>1, <2>1 DEF TakeJob, history
  <2>2. CASE GetTask \/ EndRead
    BY <1>0, <1>1, <2>2 DEF GetTask, EndRead, ReadTask, history
  <2>3. CASE LaunchWrite \/ StopWrite \/ TTLWrite \/ EndWrite
    BY <1>0, <1>1, <2>3 DEF LaunchWrite, StopWrite, TTLWrite, EndWrite, WriteStatus, redis, history
  <2>4. CASE StopKill \/ TTLKill
    BY <1>0, <1>1, <2>4 DEF StopKill, TTLKill, Kill, history
  <2>5. CASE Popen \/ CheckStop \/ Poll \/ Reset \/ FinishJob
    BY <1>0, <1>1, <2>5 DEF Popen, CheckStop, Poll, Reset, FinishJob, redis, history
  <2> QED
    BY <1>4, <2>1, <2>2, <2>3, <2>4, <2>5 DEF RunJob
<1>5. CASE Compute
  BY <1>0, <1>1, <1>5
     DEF Compute, BatchMatch, BatchSave, BatchReadRow, BatchTerminate, RealtimeLoad,
         RealtimeReady, ChildFails, ChildRead, ChildWrite, redis, history
<1>6. CASE TTLPasses \/ FlagExpires \/ JobExpires \/ WorkerDies \/ UNCHANGED vars
  BY <1>0, <1>1, <1>6
     DEF TTLPasses, FlagExpires, JobExpires, WorkerDies, vars, redis, history
<1> QED
  BY <1>2, <1>3, <1>4, <1>5, <1>6 DEF Next

\* Every state of NmTaskRq is well formed; in particular the queue never
\* holds more jobs than start requests came: no job is enqueued twice for one
\* request, and a request that is refused enqueues none.
THEOREM TypeCorrect == Spec => []TypeOK
<1>1. Init => Counted
  <2> SUFFICES ASSUME Init PROVE Counted
    OBVIOUS
  <2>1. Starters = {}
    BY IdleIsRequest DEF Init, Starters, Starting, Idle
  <2>2. IsFiniteSet(Starters) /\ Cardinality(Starters) = 0
    BY <2>1, FS_EmptySet
  <2>3. queued = 0 /\ starts = 0 /\ overlap = FALSE /\ revived = {}
    BY DEF Init
  <2>4. 0 + 0 <= 0 /\ 0 <= MaxStarts /\ 0 \in Nat
    BY RqAssumption
  <2> QED
    BY <2>2, <2>3, <2>4 DEF Counted
<1>2. Base /\ Counted => TypeOK
  <2> SUFFICES ASSUME Base, Counted PROVE TypeOK
    OBVIOUS
  <2>1. Cardinality(Starters) \in Nat /\ queued \in Nat /\ MaxStarts \in Nat
    BY FS_CardinalityType, RqAssumption DEF Counted, Base, Shape
  <2>2. queued \in 0 .. MaxStarts /\ starts \in 0 .. MaxStarts
    BY <2>1 DEF Counted
  <2> QED
    BY <2>2 DEF TypeOK, Base, Shape, Counted
<1> QED
  BY <1>1, <1>2, CountedNext, BaseAlways, PTL DEF Spec

=============================================================================
