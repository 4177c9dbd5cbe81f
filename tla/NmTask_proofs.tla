---------------------------- MODULE NmTask_proofs ----------------------------
(* Proofs about NmTask, for any tasks, pods, requests, endpoints and faults. *)
EXTENDS NmTask, TLAPS

\* The value of an unused task field is a task.
LEMMA AnyTaskIsTask == AnyTask \in Task
BY ConstantAssumption DEF AnyTask

\* A task that was never started has a row.
LEMMA NewRowIsRow == NewRow \in Row
BY DEF NewRow, Row, Status

\* A copy of a row with another status is a row.
LEMMA WithStatusIsRow ==
    ASSUME NEW copy \in Row, NEW s \in Status
    PROVE  WithStatus(copy, s) \in Row
BY DEF WithStatus, Row

\* A request thread that serves nothing is a request record.
LEMMA IdleIsRequest == Idle \in Request
BY AnyTaskIsTask, NewRowIsRow DEF Idle, Request, ReqPc

\* Before anything was started, everything has its type.
LEMMA TypeInit == Init => TypeOK
<1> SUFFICES ASSUME Init PROVE TypeOK
  OBVIOUS
<1> USE AnyTaskIsTask, NewRowIsRow, IdleIsRequest
<1>1. Asleep \in Housekeeper
  BY DEF Asleep, Housekeeper
<1> QED
  BY <1>1 DEF Init, TypeOK, PodStatus, PodPhase, WorkerPc, ChildPc, ChildAlive

-----------------------------------------------------------------------------
(* The steps of the API requests keep the types.                           *)

\* What a request holds: its task, its copy of the row, its pods to delete.
LEMMA RequestFields ==
    ASSUME TypeOK, NEW h \in Req
    PROVE  /\ req[h] \in Request
           /\ req[h].task \in Task
           /\ req[h].copy \in Row
           /\ req[h].todo \in SUBSET Run
           /\ req[h].seen \in SUBSET Run
BY DEF TypeOK, Request

\* One request is replaced.
LEMMA RequestReplaced ==
    ASSUME TypeOK, NEW h \in Req, NEW q \in Request, req' = [req EXCEPT ![h] = q]
    PROVE  req' \in [Req -> Request]
BY DEF TypeOK

\* A request that moves on within its handler stays a request.
LEMMA TypeGoto ==
    ASSUME TypeOK, NEW h \in Req, NEW pc \in ReqPc, Goto(h, pc)
    PROVE  req' \in [Req -> Request]
<1>1. [req[h] EXCEPT !.pc = pc] \in Request
  BY RequestFields DEF Request
<1>2. req' = [req EXCEPT ![h] = [req[h] EXCEPT !.pc = pc]]
  BY DEF Goto
<1> QED
  BY <1>1, <1>2, RequestReplaced

\* A request that is answered leaves an idle thread.
LEMMA TypeReturn ==
    ASSUME TypeOK, NEW h \in Req, Return(h)
    PROVE  req' \in [Req -> Request]
BY IdleIsRequest DEF Return, TypeOK

\* The loop of delete_task over the pods goes on with a request.
LEMMA PodHandledIsRequest ==
    ASSUME NEW q \in Request, NEW r \in Run
    PROVE  PodHandled(q, r) \in Request
<1>1. q.todo \ {r} \in SUBSET Run
  BY DEF Request
<1>2. CASE r \in q.seen
  <2>1. PodHandled(q, r) = [q EXCEPT !.todo = q.todo \ {r}, !.run = r, !.pc = "del_record"]
    BY <1>2 DEF PodHandled
  <2> QED
    BY <1>1, <2>1 DEF Request, ReqPc
<1>3. CASE r \notin q.seen
  <2>1. PodHandled(q, r) = [q EXCEPT !.todo = q.todo \ {r}, !.run = r, !.pc = "del_pod"]
    BY <1>3 DEF PodHandled
  <2> QED
    BY <1>1, <2>1 DEF Request, ReqPc
<1> QED
  BY <1>2, <1>3

\* Every step of the start, match and delete handlers keeps the types.
LEMMA TypeServe ==
    ASSUME TypeOK, NEW h \in Req, Serve(h)
    PROVE  TypeOK'
<1>1. {"start_write", "pod_check", "pod_create", "svc_create", "record", "del_pod",
       "del_record"} \subseteq ReqPc
  BY DEF ReqPc
<1>2. CASE StartRead(h)
  <2>1. CASE active[req[h].task]
    <3> DEFINE q == [req[h] EXCEPT !.pc = "start_write", !.copy = row[req[h].task]]
    <3>1. q \in Request
      BY <1>1, RequestFields DEF TypeOK, Request
    <3>2. req' = [req EXCEPT ![h] = q]
      BY <1>2, <2>1 DEF StartRead
    <3>3. req' \in [Req -> Request]
      BY <3>1, <3>2, RequestReplaced
    <3> QED
      BY <1>2, <3>3 DEF StartRead, TypeOK, db, cluster, workers, children
  <2>2. CASE ~active[req[h].task]
    BY <1>2, <2>2, TypeReturn DEF StartRead, TypeOK, db, cluster, workers, children
  <2> QED
    BY <2>1, <2>2
<1>3. CASE StartWrite(h)
  <2>1. WithStatus(req[h].copy, "PREPARING") \in Row
    BY RequestFields, WithStatusIsRow DEF Status, RunningStatus
  <2>2. req' \in [Req -> Request]
    BY <1>1, <1>3, TypeGoto DEF StartWrite
  <2> QED
    BY <1>3, <2>1, <2>2 DEF StartWrite, TypeOK, cluster, workers, children
<1>4. CASE StartCheckTask(h)
  <2>1. req' \in [Req -> Request]
    BY <1>1, <1>4, TypeGoto, TypeReturn DEF StartCheckTask
  <2> QED
    BY <1>4, <2>1 DEF StartCheckTask, TypeOK, db, cluster, workers, children
<1>5. CASE StartCreatePod(h)
  <2>1. PICK r \in Run :
           /\ pod' = [pod EXCEPT ![r] = "pending"]
           /\ taskOf' = [taskOf EXCEPT ![r] = req[h].task]
           /\ req' = [req EXCEPT ![h] = [req[h] EXCEPT !.pc = "svc_create", !.run = r]]
    BY <1>5 DEF StartCreatePod
  <2>2. [req[h] EXCEPT !.pc = "svc_create", !.run = r] \in Request
    BY <1>1, RequestFields DEF Request
  <2>3. req' \in [Req -> Request]
    BY <2>1, <2>2, RequestReplaced
  <2>4. taskOf' \in [Run -> Task] /\ pod' \in [Run -> PodPhase]
    BY <2>1, RequestFields DEF TypeOK, PodPhase
  <2> QED
    BY <1>5, <2>3, <2>4 DEF StartCreatePod, TypeOK, db, workers, children
<1>6. CASE StartCreateService(h)
  <2>1. req' \in [Req -> Request]
    BY <1>1, <1>6, TypeGoto, TypeReturn DEF StartCreateService
  <2> QED
    BY <1>6, <2>1 DEF StartCreateService, TypeOK, db, workers, children
<1>7. CASE StartAddRecord(h)
  BY <1>7, TypeReturn DEF StartAddRecord, TypeOK, cluster, workers, children, PodStatus
<1>8. CASE MatchWrite(h)
  BY <1>8, TypeReturn, RequestFields DEF MatchWrite, TypeOK, cluster, workers, children
<1>9. CASE DeletePod(h)
  <2>1. PICK r \in req[h].todo :
           /\ \/ deleting' = IF pod[r] = "gone" THEN deleting ELSE deleting \cup {r}
              \/ "k8s_error" \in Fault /\ UNCHANGED deleting
           /\ req' = [req EXCEPT ![h] = PodHandled(req[h], r)]
    BY <1>9 DEF DeletePod
  <2>2. r \in Run
    BY RequestFields
  <2>3. PodHandled(req[h], r) \in Request
    BY <2>2, RequestFields, PodHandledIsRequest
  <2>4. req' \in [Req -> Request]
    BY <2>1, <2>3, RequestReplaced
  <2>5. deleting' \in SUBSET Run
    BY <2>1, <2>2 DEF TypeOK
  <2>6. UNCHANGED <<db, taskOf, pod, svc, workers, children, hk>>
    BY <1>9 DEF DeletePod
  <2> QED
    BY <2>4, <2>5, <2>6 DEF TypeOK, db, workers, children
<1>10. CASE DeleteRecord(h)
  BY <1>1, <1>10, TypeGoto DEF DeleteRecord, TypeOK, PodStatus, cluster, workers, children
<1>11. CASE DeleteDeactivate(h)
  BY <1>11, TypeReturn DEF DeleteDeactivate, TypeOK, cluster, workers, children
<1>12. CASE StartUnsupported(h)
  BY <1>12, TypeReturn DEF StartUnsupported, TypeOK, db, cluster, workers, children
<1> QED
  BY <1>2, <1>3, <1>4, <1>5, <1>6, <1>7, <1>8, <1>9, <1>10, <1>11, <1>12 DEF Serve

\* So does the acceptance of a request, with what it reads.
LEMMA TypeAccept ==
    ASSUME TypeOK, NEW h \in Req, NEW t \in Task, Accept(h, t)
    PROVE  TypeOK'
<1>1. {"start_read", "match_write", "del_pod"} \subseteq ReqPc
  BY DEF ReqPc
<1>2. PICK q \in Request : req' = [req EXCEPT ![h] = q]
  <2>1. CASE StartValidate(h, t)
    <3>1. [req[h] EXCEPT !.pc = "start_read", !.task = t] \in Request
      BY <1>1, RequestFields DEF Request
    <3> QED
      BY <2>1, <3>1 DEF StartValidate
  <2>2. CASE MatchRead(h, t)
    <3>1. [req[h] EXCEPT !.pc = "match_write", !.task = t, !.copy = row[t]] \in Request
      BY <1>1, RequestFields DEF Request, TypeOK
    <3> QED
      BY <2>2, <3>1 DEF MatchRead
  <2>3. CASE RapidRead(h, t)
    <3>1. [req[h] EXCEPT !.pc = "match_write", !.task = t, !.copy = row[t]] \in Request
      BY <1>1, RequestFields DEF Request, TypeOK
    <3> QED
      BY <2>3, <3>1 DEF RapidRead
  <2>4. CASE DeleteList(h, t)
    <3> DEFINE records == {r \in RunsOf(t) : rec[r] # "None"}
               seen    == {r \in records : rec[r] = "Running"}
    <3>1. records \in SUBSET Run /\ seen \in SUBSET Run
      BY DEF RunsOf
    <3>2. [req[h] EXCEPT !.pc = "del_pod", !.task = t, !.todo = records, !.seen = seen]
             \in Request
      <4> HIDE DEF records, seen
      <4> QED
        BY <1>1, <3>1, RequestFields DEF Request
    <3> QED
      BY <2>4, <3>2 DEF DeleteList
  <2> QED
    BY <2>1, <2>2, <2>3, <2>4 DEF Accept
<1>3. req' \in [Req -> Request]
  BY <1>2, RequestReplaced
<1>4. UNCHANGED <<db, cluster, workers, children, hk>>
  BY DEF Accept, StartValidate, MatchRead, RapidRead, DeleteList
<1> QED
  BY <1>3, <1>4 DEF TypeOK, db, cluster, workers, children

-----------------------------------------------------------------------------
(* So do those of a container.                                             *)

\* The end of a container, however it comes, keeps the types.
LEMMA TypeEndContainer ==
    ASSUME TypeOK, NEW r \in Run, NEW phase \in PodPhase, EndContainer(r, phase)
    PROVE  /\ pod' \in [Run -> PodPhase]
           /\ wpc' \in [Run -> WorkerPc]
           /\ wrow' \in [Run -> Row]
           /\ stop' \in SUBSET Run
           /\ expired' \in SUBSET Run
           /\ child' \in [Run -> ChildPc]
           /\ crow' \in [Run -> Row]
BY NewRowIsRow DEF TypeOK, EndContainer, WorkerPc, ChildPc

\* change_task_status of the worker, first half: the row is read.
LEMMA TypeWorkerRead ==
    ASSUME TypeOK, NEW r \in Run, NEW at, NEW next \in WorkerPc, WorkerRead(r, at, next)
    PROVE  TypeOK'
<1>1. CASE EndContainer(r, "ended") /\ UNCHANGED <<db, taskOf, deleting, svc, req, hk>>
  BY <1>1, TypeEndContainer DEF TypeOK, db, PodPhase
<1>2. CASE wrow' = [wrow EXCEPT ![r] = row[taskOf[r]]] /\ GotoW(r, next)
           /\ UNCHANGED <<pod, stop, expired, children>>
           /\ UNCHANGED <<db, taskOf, deleting, svc, req, hk>>
  BY <1>2 DEF TypeOK, GotoW, db, children
<1> QED
  BY <1>1, <1>2 DEF WorkerRead

\* The kill of the subprocess and the read that follows it.
LEMMA TypeKillAndRead ==
    ASSUME TypeOK, NEW r \in Run, NEW at, NEW next \in WorkerPc, KillAndRead(r, at, next)
    PROVE  TypeOK'
<1>1. CASE EndContainer(r, "ended") /\ UNCHANGED <<db, taskOf, deleting, svc, req, hk>>
  BY <1>1, TypeEndContainer DEF TypeOK, db, PodPhase
<1>2. CASE /\ child' = [child EXCEPT ![r] = IF Live(r) THEN "killed" ELSE @]
           /\ crow' = [crow EXCEPT ![r] = NewRow]
           /\ wrow' = [wrow EXCEPT ![r] = row[taskOf[r]]]
           /\ GotoW(r, next)
           /\ UNCHANGED <<pod, stop, expired>>
           /\ UNCHANGED <<db, taskOf, deleting, svc, req, hk>>
  BY <1>2, NewRowIsRow DEF TypeOK, GotoW, db, ChildPc
<1> QED
  BY <1>1, <1>2 DEF KillAndRead

\* change_task_status of the worker, second half: the copy is written.
LEMMA TypeWorkerWrite ==
    ASSUME TypeOK, NEW r \in Run, NEW at, NEW s \in Status, NEW next \in WorkerPc,
           WorkerWrite(r, at, s, next)
    PROVE  TypeOK'
<1>1. WithStatus(wrow[r], s) \in Row
  BY WithStatusIsRow DEF TypeOK
<1> QED
  BY <1>1, NewRowIsRow DEF WorkerWrite, TypeOK, GotoW, cluster, children

\* Closing the record of a run keeps the types.
LEMMA TypeCloseRecord ==
    ASSUME TypeOK, NEW r \in Run, NEW at, NEW next \in WorkerPc, CloseRecord(r, at, next)
    PROVE  TypeOK'
BY DEF CloseRecord, TypeOK, GotoW, cluster, children, PodStatus

\* Deleting the service of a task keeps the types.
LEMMA TypeDeleteService ==
    ASSUME TypeOK, NEW r \in Run, NEW at, NEW next \in WorkerPc, DeleteService(r, at, next)
    PROVE  TypeOK'
BY DEF DeleteService, TypeOK, GotoW, db, children

\* Every step of run_task_in_subprocess keeps the types.
LEMMA TypeWorker ==
    ASSUME TypeOK, NEW r \in Run, Worker(r)
    PROVE  TypeOK'
<1> DEFINE Pcs == {"launch_write", "popen", "stop_kill", "stop_write", "ttl_record",
                   "ttl_kill", "ttl_write", "end_write", "end_svc", "record", "done"}
<1>1. /\ Pcs \subseteq WorkerPc
      /\ {"LAUNCHING", "STOPPED", "TERMINATED"} \subseteq Status
      /\ \A c : Outcome(c) \in Status
  BY DEF WorkerPc, Status, RunningStatus, EndStatus, Outcome
<1>2. CASE LaunchRead(r) \/ EndRead(r)
  BY <1>1, <1>2, TypeWorkerRead DEF LaunchRead, EndRead
<1>3. CASE LaunchWrite(r) \/ StopWrite(r) \/ TTLWrite(r) \/ EndWrite(r)
  BY <1>1, <1>3, TypeWorkerWrite DEF LaunchWrite, StopWrite, TTLWrite, EndWrite
<1>4. CASE StopKill(r) \/ TTLKill(r)
  BY <1>1, <1>4, TypeKillAndRead DEF StopKill, TTLKill
<1>5. CASE TTLRecord(r) \/ WorkerRecord(r)
  BY <1>1, <1>5, TypeCloseRecord DEF TTLRecord, WorkerRecord
<1>6. CASE StopService(r) \/ TTLService(r) \/ EndService(r)
  BY <1>1, <1>6, TypeDeleteService DEF StopService, TTLService, EndService
<1>7. CASE Popen(r)
  BY <1>7 DEF Popen, GotoW, TypeOK, db, cluster, WorkerPc, ChildPc, ChildAlive
<1>8. CASE Subscribe(r)
  BY <1>8 DEF Subscribe, GotoW, TypeOK, db, cluster, children, WorkerPc, Listening
<1>9. CASE CheckStop(r) \/ Poll(r)
  BY <1>9 DEF CheckStop, Poll, LeaveLoop, StayInLoop, GotoW, TypeOK, db, cluster, children,
              WorkerPc, Listening
<1>10. CASE WorkerExit(r)
  BY <1>10, TypeEndContainer DEF WorkerExit, TypeOK, db, PodPhase
<1> QED
  BY <1>2, <1>3, <1>4, <1>5, <1>6, <1>7, <1>8, <1>9, <1>10 DEF Worker

\* The subprocess reads the row, or fails for a deleted task.
LEMMA TypeChildRead ==
    ASSUME TypeOK, NEW r \in Run, NEW next \in ChildPc, ChildRead(r, next)
    PROVE  TypeOK'
BY DEF ChildRead, TypeOK, db, cluster, workers, ChildPc

\* The subprocess writes its copy of the row back.
LEMMA TypeChildWrite ==
    ASSUME TypeOK, NEW r \in Run, NEW new \in Row, NEW next \in ChildPc, ChildWrite(r, new, next)
    PROVE  TypeOK'
BY NewRowIsRow DEF ChildWrite, TypeOK, cluster, workers

\* Every step of the batch and realtime computations keeps the types.
LEMMA TypeChild ==
    ASSUME TypeOK, NEW r \in Run, Child(r)
    PROVE  TypeOK'
<1>1. {"save", "saved", "term", "ok", "ready", "serving"} \subseteq ChildPc
  BY DEF ChildPc, ChildAlive
<1>2. {"TERMINATING", "READY"} \subseteq Status
  BY DEF Status, RunningStatus
<1>3. crow[r] \in Row
  BY DEF TypeOK
<1>4. CASE BatchMatch(r) \/ BatchReadRow(r) \/ RealtimeLoad(r)
  BY <1>1, <1>4, TypeChildRead DEF BatchMatch, BatchReadRow, RealtimeLoad
<1>5. CASE BatchSave(r)
  <2>1. [crow[r] EXCEPT !.result = r] \in Row
    BY <1>3 DEF Row
  <2> QED
    BY <1>1, <1>5, <2>1, TypeChildWrite DEF BatchSave
<1>6. CASE BatchTerminate(r) \/ RealtimeReady(r)
  BY <1>1, <1>2, <1>3, <1>6, TypeChildWrite, WithStatusIsRow DEF BatchTerminate, RealtimeReady
<1> QED
  BY <1>4, <1>5, <1>6 DEF Child

\* A pod that leaves the cluster keeps the types.
LEMMA TypeRemovePod ==
    ASSUME TypeOK, NEW r \in Run, RemovePod(r)
    PROVE  TypeOK'
BY TypeEndContainer DEF RemovePod, TypeOK, db, PodPhase

-----------------------------------------------------------------------------
(* And those of the housekeeper, which knows the run it reports.           *)

\* Between its write of the record and its write of the task the housekeeper
\* holds the run it is about.
HkRunKnown == hk.pc \in {"read", "write"} => hk.run \in Run

\* Every step of the housekeeper, or its crash, keeps the types and the run.
LEMMA TypeHousekeeper ==
    ASSUME TypeOK, HkRunKnown, HkStep \/ HkCrash
    PROVE  TypeOK' /\ HkRunKnown'
<1> USE DEF TypeOK, HkRunKnown
<1>1. Asleep \in Housekeeper /\ Asleep.pc = "sleep"
  BY NewRowIsRow DEF Asleep, Housekeeper
<1>2. CASE HkList
  BY <1>2 DEF HkList, Housekeeper, db, cluster, workers, children
<1>3. CASE HkVisit
  <2>1. PICK r \in Run : HkMissing(r) \/ HkOOM(r) \/ HkSkip(r)
    BY <1>3 DEF HkVisit
  <2>2. CASE HkMissing(r)
    BY <2>2 DEF HkMissing, PodStatus, Housekeeper, cluster, workers, children
  <2>3. CASE HkOOM(r)
    <3>1. hk' \in Housekeeper /\ hk'.run = r
      BY <2>3 DEF HkOOM, Housekeeper
    <3> QED
      BY <2>3, <3>1 DEF HkOOM, PodStatus, cluster, workers, children
  <2>4. CASE HkSkip(r)
    BY <2>4 DEF HkSkip, Housekeeper, db, cluster, workers, children
  <2> QED
    BY <2>1, <2>2, <2>3, <2>4
<1>4. CASE HkRead
  <2>1. row[taskOf[hk.run]] \in Row
    BY <1>4 DEF HkRead
  <2>2. hk' \in Housekeeper /\ HkRunKnown'
    BY <1>1, <1>4, <2>1 DEF HkRead, Housekeeper
  <2> QED
    BY <1>4, <2>2 DEF HkRead, db, cluster, workers, children
<1>5. CASE HkWrite
  <2>1. WithStatus(hk.copy, "OOMKILLED") \in Row
    BY WithStatusIsRow DEF Housekeeper, Status, EndStatus
  <2>2. hk' \in Housekeeper /\ hk'.pc = "scan"
    BY <1>5, NewRowIsRow DEF HkWrite, Housekeeper
  <2> QED
    BY <1>5, <2>1, <2>2 DEF HkWrite, cluster, workers, children
<1>6. CASE HkDone \/ HkCrash
  BY <1>1, <1>6 DEF HkDone, HkCrash, db, cluster, workers, children
<1> QED
  BY <1>2, <1>3, <1>4, <1>5, <1>6 DEF HkStep

\* Every step of the system keeps the types.
LEMMA TypeNext == TypeOK /\ HkRunKnown /\ [Next]_vars => TypeOK' /\ HkRunKnown'
<1> SUFFICES ASSUME TypeOK, HkRunKnown, [Next]_vars PROVE TypeOK' /\ HkRunKnown'
  OBVIOUS
<1>1. CASE UNCHANGED vars
  BY <1>1 DEF TypeOK, HkRunKnown, vars, db, cluster, workers, children
<1>2. ASSUME NEW h \in Req, Serve(h) \/ StartK8sError(h) \/ RequestDies(h)
      PROVE  TypeOK' /\ HkRunKnown'
  <2>1. hk' = hk
    BY <1>2 DEF Serve, StartRead, StartWrite, StartCheckTask, StartCreatePod, StartCreateService,
                StartAddRecord, MatchWrite, DeletePod, DeleteRecord, DeleteDeactivate,
                StartUnsupported, StartK8sError, RequestDies
  <2>2. CASE Serve(h)
    BY <2>1, <2>2, TypeServe DEF HkRunKnown
  <2>3. CASE StartK8sError(h) \/ RequestDies(h)
    BY <2>1, <2>3, TypeReturn DEF StartK8sError, RequestDies, TypeOK, HkRunKnown, db,
                                  cluster, workers, children
  <2> QED
    BY <1>2, <2>2, <2>3
<1>3. ASSUME NEW h \in Req, NEW t \in Task, Accept(h, t)
      PROVE  TypeOK' /\ HkRunKnown'
  <2>1. hk' = hk
    BY <1>3 DEF Accept, StartValidate, MatchRead, RapidRead, DeleteList
  <2> QED
    BY <1>3, <2>1, TypeAccept DEF HkRunKnown
<1>4. ASSUME NEW t \in Task, Stop(t)
      PROVE  TypeOK' /\ HkRunKnown'
  BY <1>4 DEF Stop, TypeOK, HkRunKnown, db, cluster, children, RunsOf
<1>5. ASSUME NEW r \in Run, Worker(r)
      PROVE  TypeOK' /\ HkRunKnown'
  <2>1. hk' = hk
    BY <1>5 DEF Worker, LaunchRead, LaunchWrite, Popen, Subscribe, CheckStop, Poll, StopService,
                StopKill, StopWrite, TTLService, TTLRecord, TTLKill, TTLWrite, EndRead, EndWrite,
                EndService, WorkerRecord, WorkerExit, WorkerRead, WorkerWrite, DeleteService,
                KillAndRead, CloseRecord
  <2> QED
    BY <1>5, <2>1, TypeWorker DEF HkRunKnown
<1>6. ASSUME NEW r \in Run, Child(r)
      PROVE  TypeOK' /\ HkRunKnown'
  <2>1. hk' = hk
    BY <1>6 DEF Child, BatchMatch, BatchSave, BatchReadRow, BatchTerminate, RealtimeLoad,
                RealtimeReady, ChildRead, ChildWrite
  <2> QED
    BY <1>6, <2>1, TypeChild DEF HkRunKnown
<1>7. ASSUME NEW r \in Run, ChildFails(r) \/ TTLPasses(r) \/ StartContainer(r)
      PROVE  TypeOK' /\ HkRunKnown'
  BY <1>7, NewRowIsRow DEF ChildFails, TTLPasses, StartContainer, GotoW, TypeOK, HkRunKnown, db,
                           cluster, workers, children, ChildPc, PodPhase, WorkerPc
<1>8. ASSUME NEW r \in Run, WorkerCrash(r) \/ PodOOM(r) \/ PodDeleted(r) \/ PodLost(r)
      PROVE  TypeOK' /\ HkRunKnown'
  <2>1. CASE RemovePod(r)
    BY <2>1, TypeRemovePod DEF RemovePod, HkRunKnown
  <2>2. CASE WorkerCrash(r) \/ PodOOM(r)
    BY <2>2, TypeEndContainer DEF WorkerCrash, PodOOM, TypeOK, HkRunKnown, db, PodPhase
  <2> QED
    BY <1>8, <2>1, <2>2 DEF PodDeleted, PodLost
<1>9. CASE HkStep \/ HkCrash
  BY <1>9, TypeHousekeeper
<1> QED
  BY <1>1, <1>2, <1>3, <1>4, <1>5, <1>6, <1>7, <1>8, <1>9 DEF Next

\* Every variable keeps its type; a housekeeper that reports a pod killed for
\* memory knows which one (needed because it reads the task of that pod).
THEOREM TypeCorrect == Spec => [](TypeOK /\ HkRunKnown)
<1>1. Init => TypeOK /\ HkRunKnown
  BY TypeInit DEF Init, HkRunKnown, Asleep
<1> QED
  BY <1>1, TypeNext, PTL DEF Spec

-----------------------------------------------------------------------------
(* The pod, the worker and the subprocess of a run go together.             *)

Reporting == {"stop_write", "ttl_write", "end_read", "end_write", "end_svc",
              "record", "done", "exit"}

\* Of a pod in phase p whose worker is at w and whose subprocess is at c.
Coupled(p, w, c) ==
    /\ p \in {"none", "pending"} => w = "none" /\ c = "none"
    /\ p \in {"ended", "oom", "gone"} => w = "exit"
    /\ w = "exit" => c = "none"
    /\ c = "killed" => w \in {"stop_write", "ttl_write", "record", "done"}
    /\ w \in Reporting => c \notin ChildAlive

RunsCoupled == \A r \in Run : Coupled(pod[r], wpc[r], child[r])

\* A step disturbs the coupling of one run at most.
LEMMA OneRunSuffices ==
    ASSUME RunsCoupled, NEW r \in Run, Coupled(pod'[r], wpc'[r], child'[r]),
           \A s \in Run \ {r} : pod'[s] = pod[s] /\ wpc'[s] = wpc[s] /\ child'[s] = child[s]
    PROVE  RunsCoupled'
BY DEF RunsCoupled

\* The end of a container leaves nothing of its run.
LEMMA CoupledEnd ==
    ASSUME TypeOK, RunsCoupled, NEW r \in Run, NEW phase \in {"ended", "oom", "gone"},
           EndContainer(r, phase)
    PROVE  RunsCoupled'
<1>1. /\ pod'[r] = phase /\ wpc'[r] = "exit" /\ child'[r] = "none"
      /\ \A s \in Run \ {r} : pod'[s] = pod[s] /\ wpc'[s] = wpc[s] /\ child'[s] = child[s]
  BY DEF EndContainer, TypeOK
<1>2. Coupled(pod'[r], wpc'[r], child'[r])
  BY <1>1 DEF Coupled, ChildAlive
<1> QED
  BY <1>1, <1>2, OneRunSuffices

\* The worker moves on, and the subprocess may change with it.
LEMMA CoupledMove ==
    ASSUME TypeOK, RunsCoupled, NEW r \in Run, NEW w, NEW c, pod' = pod,
           wpc' = [wpc EXCEPT ![r] = w], child' = [child EXCEPT ![r] = c],
           Coupled(pod[r], w, c)
    PROVE  RunsCoupled'
<1>1. /\ pod'[r] = pod[r] /\ wpc'[r] = w /\ child'[r] = c
      /\ \A s \in Run \ {r} : pod'[s] = pod[s] /\ wpc'[s] = wpc[s] /\ child'[s] = child[s]
  BY DEF TypeOK
<1> QED
  BY <1>1, OneRunSuffices

\* The worker moves on alone.
LEMMA CoupledGoto ==
    ASSUME TypeOK, RunsCoupled, NEW r \in Run, NEW w, pod' = pod, child' = child, GotoW(r, w),
           Coupled(pod[r], w, child[r])
    PROVE  RunsCoupled'
<1>1. child' = [child EXCEPT ![r] = child[r]]
  BY DEF TypeOK
<1> QED
  BY <1>1, CoupledMove DEF GotoW

\* Every step of the worker keeps pod, worker and subprocess coupled.
LEMMA CoupledWorker ==
    ASSUME TypeOK, RunsCoupled, NEW r \in Run, Worker(r)
    PROVE  RunsCoupled'
<1>1. Coupled(pod[r], wpc[r], child[r]) /\ pod[r] \in PodPhase
  BY DEF RunsCoupled, TypeOK
<1>2. CASE LaunchRead(r) \/ EndRead(r)
  <2>1. CASE EndContainer(r, "ended")
    BY <2>1, CoupledEnd
  <2>2. CASE LaunchRead(r) /\ ~EndContainer(r, "ended")
    <3>1. Coupled(pod[r], "launch_write", child[r])
      BY <1>1, <2>2 DEF LaunchRead, WorkerRead, Coupled, Reporting, ChildAlive
    <3> QED
      BY <2>2, <3>1, CoupledGoto DEF LaunchRead, WorkerRead, children
  <2>3. CASE EndRead(r) /\ ~EndContainer(r, "ended")
    <3>1. Coupled(pod[r], "end_write", child[r])
      BY <1>1, <2>3 DEF EndRead, WorkerRead, Coupled, Reporting
    <3> QED
      BY <2>3, <3>1, CoupledGoto DEF EndRead, WorkerRead, children
  <2> QED
    BY <1>2, <2>1, <2>2, <2>3
<1>3. CASE StopKill(r) \/ TTLKill(r)
  <2>1. CASE EndContainer(r, "ended")
    BY <2>1, CoupledEnd
  <2>2. CASE ~EndContainer(r, "ended")
    <3> DEFINE c == IF Live(r) THEN "killed" ELSE child[r]
    <3>1. PICK w \in {"stop_write", "ttl_write"} :
             /\ wpc' = [wpc EXCEPT ![r] = w]
             /\ child' = [child EXCEPT ![r] = c]
             /\ pod' = pod
             /\ wpc[r] \in {"stop_kill", "ttl_kill"}
      BY <1>3, <2>2 DEF StopKill, TTLKill, KillAndRead, GotoW
    <3>2. Coupled(pod[r], w, c)
      BY <1>1, <3>1 DEF Coupled, Reporting, ChildAlive, Live
    <3> QED
      BY <3>1, <3>2, CoupledMove
  <2> QED
    BY <2>1, <2>2
<1>4. CASE LaunchWrite(r) \/ StopWrite(r) \/ TTLWrite(r) \/ EndWrite(r)
  <2>1. PICK w \in WorkerPc : GotoW(r, w) /\ pod' = pod /\ child' = child
                             /\ Coupled(pod[r], w, child[r])
    BY <1>1, <1>4 DEF LaunchWrite, StopWrite, TTLWrite, EndWrite, WorkerWrite, Coupled, Reporting,
                      ChildAlive, WorkerPc, cluster, children
  <2> QED
    BY <2>1, CoupledGoto
<1>5. CASE TTLRecord(r) \/ WorkerRecord(r)
  <2>1. PICK w \in WorkerPc : GotoW(r, w) /\ pod' = pod /\ child' = child
                             /\ Coupled(pod[r], w, child[r])
    BY <1>1, <1>5 DEF TTLRecord, WorkerRecord, CloseRecord, Coupled, Reporting, ChildAlive,
                      WorkerPc, cluster, children
  <2> QED
    BY <2>1, CoupledGoto
<1>6. CASE StopService(r) \/ TTLService(r) \/ EndService(r)
  <2>1. PICK w \in WorkerPc : GotoW(r, w) /\ pod' = pod /\ child' = child
                             /\ Coupled(pod[r], w, child[r])
    BY <1>1, <1>6 DEF StopService, TTLService, EndService, DeleteService, Coupled, Reporting,
                      ChildAlive, WorkerPc, children
  <2> QED
    BY <2>1, CoupledGoto
<1>7. CASE Popen(r)
  <2>1. Coupled(pod[r], "subscribe", "load")
    BY <1>1, <1>7 DEF Popen, Coupled, Reporting
  <2> QED
    BY <1>7, <2>1, CoupledMove DEF Popen, GotoW, cluster
<1>8. CASE Subscribe(r) \/ CheckStop(r) \/ Poll(r)
  <2>1. PICK w \in WorkerPc : GotoW(r, w) /\ pod' = pod /\ child' = child
                             /\ Coupled(pod[r], w, child[r])
    BY <1>1, <1>8 DEF Subscribe, CheckStop, Poll, LeaveLoop, StayInLoop, Coupled, Reporting,
                      ChildAlive, Live, WorkerPc, Listening, cluster, children
  <2> QED
    BY <2>1, CoupledGoto
<1>9. CASE WorkerExit(r)
  BY <1>9, CoupledEnd DEF WorkerExit
<1> QED
  BY <1>2, <1>3, <1>4, <1>5, <1>6, <1>7, <1>8, <1>9 DEF Worker

\* The subprocess of a run changes by itself only while it lives.
LEMMA CoupledChild ==
    ASSUME TypeOK, RunsCoupled, NEW r \in Run, Live(r), NEW c \in ChildPc \ {"none", "killed"},
           child' = [child EXCEPT ![r] = c], pod' = pod, wpc' = wpc
    PROVE  RunsCoupled'
<1>1. Coupled(pod[r], wpc[r], child[r]) /\ pod[r] \in PodPhase
  BY DEF RunsCoupled, TypeOK
<1>2. Coupled(pod[r], wpc[r], c)
  BY <1>1 DEF Coupled, Reporting, Live, ChildAlive
<1>3. wpc' = [wpc EXCEPT ![r] = wpc[r]]
  BY DEF TypeOK
<1> QED
  BY <1>2, <1>3, CoupledMove

\* So does every step of the system.
LEMMA CoupledNext == TypeOK /\ RunsCoupled /\ [Next]_vars => RunsCoupled'
<1> SUFFICES ASSUME TypeOK, RunsCoupled, [Next]_vars PROVE RunsCoupled'
  OBVIOUS
<1>1. CASE UNCHANGED <<pod, wpc, child>>
  BY <1>1 DEF RunsCoupled
<1>2. ASSUME NEW h \in Req, StartCreatePod(h)
      PROVE  RunsCoupled'
  <2>1. PICK r \in Run : pod[r] = "none" /\ pod' = [pod EXCEPT ![r] = "pending"]
    BY <1>2 DEF StartCreatePod
  <2>2. /\ pod'[r] = "pending" /\ wpc' = wpc /\ child' = child
        /\ \A s \in Run \ {r} : pod'[s] = pod[s]
    BY <1>2, <2>1 DEF StartCreatePod, workers, children, TypeOK
  <2>3. Coupled(pod'[r], wpc'[r], child'[r])
    BY <2>1, <2>2 DEF RunsCoupled, Coupled
  <2> QED
    BY <2>2, <2>3, OneRunSuffices
<1>3. ASSUME NEW r \in Run, Worker(r)
      PROVE  RunsCoupled'
  BY <1>3, CoupledWorker
<1>4. ASSUME NEW r \in Run, Child(r) \/ ChildFails(r)
      PROVE  RunsCoupled'
  <2>1. PICK c \in ChildPc \ {"none", "killed"} :
           Live(r) /\ child' = [child EXCEPT ![r] = c] /\ pod' = pod /\ wpc' = wpc
    BY <1>4 DEF Child, BatchMatch, BatchSave, BatchReadRow, BatchTerminate, RealtimeLoad,
                RealtimeReady, ChildRead, ChildWrite, ChildFails, Live, ChildAlive, ChildPc,
                cluster, workers
  <2> QED
    BY <2>1, CoupledChild
<1>5. ASSUME NEW r \in Run, StartContainer(r)
      PROVE  RunsCoupled'
  <2>1. /\ pod'[r] = "running" /\ wpc'[r] = "launch_read" /\ child'[r] = child[r]
        /\ child[r] = "none"
        /\ \A s \in Run \ {r} : pod'[s] = pod[s] /\ wpc'[s] = wpc[s] /\ child'[s] = child[s]
    BY <1>5 DEF StartContainer, GotoW, TypeOK, children, RunsCoupled, Coupled
  <2>2. Coupled(pod'[r], wpc'[r], child'[r])
    BY <2>1 DEF Coupled, Reporting
  <2> QED
    BY <2>1, <2>2, OneRunSuffices
<1>6. ASSUME NEW r \in Run, WorkerCrash(r) \/ PodOOM(r) \/ PodDeleted(r) \/ PodLost(r)
      PROVE  RunsCoupled'
  BY <1>6, CoupledEnd DEF WorkerCrash, PodOOM, PodDeleted, PodLost, RemovePod
<1>7. ASSUME NEW h \in Req, ~StartCreatePod(h), Serve(h) \/ StartK8sError(h) \/ RequestDies(h)
      PROVE  UNCHANGED <<pod, wpc, child>>
  BY <1>7 DEF Serve, StartRead, StartWrite, StartCheckTask, StartCreateService, StartAddRecord,
              MatchWrite, DeletePod, DeleteRecord, DeleteDeactivate, StartUnsupported,
              StartK8sError, RequestDies, cluster, workers, children
<1>8. ASSUME NEW h \in Req, NEW t \in Task, Accept(h, t) \/ Stop(t)
      PROVE  UNCHANGED <<pod, wpc, child>>
  BY <1>8 DEF Accept, StartValidate, MatchRead, RapidRead, DeleteList, Stop, cluster, workers, children
<1>9. ASSUME NEW t \in Task, Stop(t)
      PROVE  UNCHANGED <<pod, wpc, child>>
  BY <1>9 DEF Stop, cluster, workers, children
<1>10. ASSUME NEW r \in Run, TTLPasses(r)
       PROVE  UNCHANGED <<pod, wpc, child>>
  BY <1>10 DEF TTLPasses, cluster, children
<1>11. ASSUME HkStep \/ HkCrash \/ UNCHANGED vars
       PROVE  UNCHANGED <<pod, wpc, child>>
  BY <1>11 DEF HkStep, HkList, HkVisit, HkMissing, HkOOM, HkSkip, HkRead, HkWrite, HkDone, HkCrash,
               vars, cluster, workers, children
<1> QED
  BY <1>1, <1>2, <1>3, <1>4, <1>5, <1>6, <1>7, <1>8, <1>9, <1>10, <1>11 DEF Next

\* Pod, worker and subprocess of every run stay coupled, whatever fails: the
\* inductive invariant of the two theorems below.
THEOREM CouplingHolds == Spec => []RunsCoupled
<1>1. Init => RunsCoupled
  BY DEF Init, RunsCoupled, Coupled, Reporting
<1> QED
  BY <1>1, CoupledNext, TypeCorrect, PTL DEF Spec

\* A worker that reports the end of its run has no computation left running,
\* whatever crashes, is stopped, deleted, lost or killed meanwhile, and
\* reports COMPLETE only of a computation nobody has killed.
THEOREM OutcomeIsFinalAlways == Spec => []OutcomeIsFinal
<1>1. RunsCoupled => OutcomeIsFinal
  BY DEF RunsCoupled, OutcomeIsFinal, Coupled, Reporting, Live
<1> QED
  BY <1>1, CouplingHolds, PTL

-----------------------------------------------------------------------------
(* What the record of a run says of its computation.                        *)

\* A record is closed by the worker at the end of its run or, when the
\* housekeeper reads the pods without error, after the pod has gone.
CompletedLate ==
    \A r \in Run : rec[r] = "Completed" => wpc[r] \in {"ttl_kill", "ttl_write", "done", "exit"}

\* No record becomes Completed but of a run that is over.
LEMMA CompletedKept ==
    ASSUME CompletedLate, wpc' = wpc,
           \A r \in Run : rec'[r] = "Completed" => rec[r] = "Completed" \/ wpc[r] = "exit"
    PROVE  CompletedLate'
BY DEF CompletedLate

\* The worker of one run moves on, and only its record may change.
LEMMA CompletedMove ==
    ASSUME TypeOK, CompletedLate, NEW r \in Run, NEW w, wpc' = [wpc EXCEPT ![r] = w],
           \A s \in Run \ {r} : rec'[s] = rec[s],
           rec'[r] = "Completed" => w \in {"ttl_kill", "ttl_write", "done", "exit"}
    PROVE  CompletedLate'
BY DEF CompletedLate, TypeOK

\* A container that ends changes no record.
LEMMA CompletedEnd ==
    ASSUME TypeOK, CompletedLate, NEW r \in Run, NEW phase, EndContainer(r, phase), rec' = rec
    PROVE  CompletedLate'
BY CompletedMove DEF EndContainer

\* The worker closes its record only at the end, or just before the TTL kill.
LEMMA CompletedWorker ==
    ASSUME TypeOK, CompletedLate, NEW r \in Run, Worker(r)
    PROVE  CompletedLate'
<1>1. rec[r] = "Completed" => wpc[r] \in {"ttl_kill", "ttl_write", "done", "exit"}
  BY DEF CompletedLate
<1>2. CASE \E phase : EndContainer(r, phase) /\ rec' = rec
  BY <1>2, CompletedEnd
<1>3. CASE LaunchRead(r) \/ EndRead(r)
  BY <1>1, <1>2, <1>3, CompletedMove DEF LaunchRead, EndRead, WorkerRead, GotoW, db
<1>4. CASE StopKill(r) \/ TTLKill(r)
  BY <1>1, <1>2, <1>4, CompletedMove DEF StopKill, TTLKill, KillAndRead, GotoW, db
<1>5. CASE LaunchWrite(r) \/ StopWrite(r) \/ TTLWrite(r) \/ EndWrite(r)
  BY <1>1, <1>5, CompletedMove DEF LaunchWrite, StopWrite, TTLWrite, EndWrite, WorkerWrite, GotoW
<1>6. CASE TTLRecord(r) \/ WorkerRecord(r)
  <2>1. \A s \in Run \ {r} : rec'[s] = rec[s]
    BY <1>6 DEF TTLRecord, WorkerRecord, CloseRecord, TypeOK
  <2>2. PICK w \in {"ttl_kill", "done"} : wpc' = [wpc EXCEPT ![r] = w]
    BY <1>6 DEF TTLRecord, WorkerRecord, CloseRecord, GotoW
  <2> QED
    BY <2>1, <2>2, CompletedMove
<1>7. CASE StopService(r) \/ TTLService(r) \/ EndService(r)
  BY <1>1, <1>7, CompletedMove DEF StopService, TTLService, EndService, DeleteService, GotoW, db
<1>8. CASE Popen(r) \/ Subscribe(r)
  BY <1>1, <1>8, CompletedMove DEF Popen, Subscribe, GotoW, db
<1>9. CASE CheckStop(r) \/ Poll(r)
  BY <1>1, <1>9, CompletedMove DEF CheckStop, Poll, LeaveLoop, StayInLoop, GotoW, db
<1>10. CASE WorkerExit(r)
  BY <1>2, <1>10 DEF WorkerExit, db
<1> QED
  BY <1>3, <1>4, <1>5, <1>6, <1>7, <1>8, <1>9, <1>10 DEF Worker

\* With reads of the pods that do not fail, no other step closes a record early.
LEMMA CompletedNext ==
    ASSUME "read_error" \notin Fault
    PROVE  TypeOK /\ RunsCoupled /\ CompletedLate /\ [Next]_vars => CompletedLate'
<1> SUFFICES ASSUME TypeOK, RunsCoupled, CompletedLate, [Next]_vars PROVE CompletedLate'
  OBVIOUS
<1>1. CASE UNCHANGED <<rec, wpc>>
  BY <1>1, CompletedKept
<1>2. ASSUME NEW h \in Req, StartAddRecord(h) \/ DeleteRecord(h)
      PROVE  CompletedLate'
  <2>1. PICK s \in {"Running", "Deleted"} : rec' = [rec EXCEPT ![req[h].run] = s]
    BY <1>2 DEF StartAddRecord, DeleteRecord
  <2>2. \A r \in Run : rec'[r] = "Completed" => rec[r] = "Completed"
    BY <2>1 DEF TypeOK
  <2>3. wpc' = wpc
    BY <1>2 DEF StartAddRecord, DeleteRecord, workers
  <2> QED
    BY <2>2, <2>3, CompletedKept
<1>3. ASSUME NEW r \in Run, Worker(r)
      PROVE  CompletedLate'
  BY <1>3, CompletedWorker
<1>4. ASSUME NEW r \in Run, StartContainer(r)
      PROVE  CompletedLate'
  <2>1. wpc[r] = "none"
    BY <1>4 DEF StartContainer, RunsCoupled, Coupled
  <2>2. rec[r] # "Completed"
    BY <2>1 DEF CompletedLate
  <2> QED
    BY <1>4, <2>2, CompletedMove DEF StartContainer, GotoW, db
<1>5. ASSUME NEW r \in Run, WorkerCrash(r) \/ PodOOM(r) \/ PodDeleted(r) \/ PodLost(r)
      PROVE  CompletedLate'
  BY <1>5, CompletedEnd DEF WorkerCrash, PodOOM, PodDeleted, PodLost, RemovePod, db
<1>6. ASSUME NEW r \in Run, HkMissing(r)
      PROVE  CompletedLate'
  <2>1. pod[r] = "gone"
    BY <1>6 DEF HkMissing
  <2>2. wpc[r] = "exit"
    BY <2>1 DEF RunsCoupled, Coupled
  <2>3. wpc' = wpc
    BY <1>6 DEF HkMissing, workers
  <2>4. \A s \in Run \ {r} : rec'[s] = rec[s]
    BY <1>6 DEF HkMissing, TypeOK
  <2> QED
    BY <2>2, <2>3, <2>4, CompletedKept
<1>7. ASSUME NEW r \in Run, HkOOM(r)
      PROVE  CompletedLate'
  <2>1. \A s \in Run : rec'[s] = "Completed" => rec[s] = "Completed"
    BY <1>7 DEF HkOOM, TypeOK
  <2>2. wpc' = wpc
    BY <1>7 DEF HkOOM, workers
  <2> QED
    BY <2>1, <2>2, CompletedKept
<1>8. ASSUME NEW h \in Req, Serve(h) \/ StartK8sError(h) \/ RequestDies(h),
             ~(StartAddRecord(h) \/ DeleteRecord(h))
      PROVE  UNCHANGED <<rec, wpc>>
  BY <1>8 DEF Serve, StartRead, StartWrite, StartCheckTask, StartCreatePod, StartCreateService,
              MatchWrite, DeletePod, DeleteDeactivate, StartUnsupported, StartK8sError,
              RequestDies, db, workers
<1>9. ASSUME NEW h \in Req, NEW t \in Task, Accept(h, t)
      PROVE  UNCHANGED <<rec, wpc>>
  BY <1>9 DEF Accept, StartValidate, MatchRead, RapidRead, DeleteList, db, workers
<1>10. ASSUME NEW t \in Task, Stop(t)
       PROVE  UNCHANGED <<rec, wpc>>
  BY <1>10 DEF Stop, db
<1>11. ASSUME NEW r \in Run, Child(r) \/ ChildFails(r) \/ TTLPasses(r) \/ HkSkip(r)
       PROVE  UNCHANGED <<rec, wpc>>
  BY <1>11 DEF Child, BatchMatch, BatchSave, BatchReadRow, BatchTerminate, RealtimeLoad,
               RealtimeReady, ChildRead, ChildWrite, ChildFails, TTLPasses, HkSkip, db, workers
<1>12. ASSUME HkList \/ HkRead \/ HkWrite \/ HkDone \/ HkCrash \/ UNCHANGED vars
       PROVE  UNCHANGED <<rec, wpc>>
  BY <1>12 DEF HkList, HkRead, HkWrite, HkDone, HkCrash, vars, db, workers
<1> QED
  BY <1>1, <1>2, <1>3, <1>4, <1>5, <1>6, <1>7, <1>8, <1>9, <1>10, <1>11, <1>12
     DEF Next, HkStep, HkVisit

\* When every read of a pod that exists succeeds, a run whose record says
\* Completed computes no more, but for the moment before the kill of a TTL.
THEOREM CompletedIsOverAlways ==
    ASSUME "read_error" \notin Fault
    PROVE  Spec => []CompletedIsOver
<1>1. Init => CompletedLate
  BY DEF Init, CompletedLate
<1>2. TypeOK /\ RunsCoupled /\ CompletedLate /\ [Next]_vars => CompletedLate'
  BY CompletedNext
<1>3. TypeOK /\ RunsCoupled /\ CompletedLate => CompletedIsOver
  BY DEF RunsCoupled, Coupled, Reporting, CompletedLate, CompletedIsOver, Live
<1> QED
  BY <1>1, <1>2, <1>3, TypeCorrect, CouplingHolds, PTL DEF Spec
=============================================================================
