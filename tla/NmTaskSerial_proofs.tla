------------------------- MODULE NmTaskSerial_proofs -------------------------
(***************************************************************************)
(* Proofs about NmTask when the requests of the user come one at a time    *)
(* and no pod is killed for memory: the limit of running tasks, one        *)
(* computation per task, the result of a COMPLETE task and the life cycle  *)
(* of the status.  The two hypotheses are needed: two start requests at a  *)
(* time both pass the check of the limit, and the housekeeper's late write *)
(* of OOMKILLED may hit the next run of the task.                          *)
(*                                                                         *)
(* The proofs are layered: who may write a row (SerialInv), what the       *)
(* writers have read (ResultInv), which status they find (StageInv).       *)
(***************************************************************************)
EXTENDS NmTask_proofs, FiniteSetTheorems

OneAtATime == \A g, h \in Req : g = h

-----------------------------------------------------------------------------
(* The steps of a run.                                                     *)

\* The worker past its last write of the task row.
Past == {"end_svc", "record", "done", "exit"}

\* The pod of r exists, and its processes may still write the row of its task.
AtWork(r) == pod[r] \in {"pending", "running"} /\ wpc[r] \notin Past

\* The copy with which the subprocess saves its result was read while it ran.
SavesRunning(r) == child[r] = "save" => crow[r].status \in RunningStatus

\* What a step of run r may do: it moves that run only, and writes the row of
\* its task only while it is at work, with a running status or as its last write.
OnlyMoves(r) ==
    /\ \A s \in Run \ {r} : /\ pod'[s] = pod[s]
                            /\ wpc'[s] = wpc[s]
                            /\ wrow'[s] = wrow[s]
                            /\ child'[s] = child[s]
                            /\ crow'[s] = crow[s]
    /\ UNCHANGED <<active, taskOf, req>>
    /\ AtWork(r)' => AtWork(r)
    /\ SavesRunning(r)'
    /\ \A t \in Task \ {taskOf[r]} : row'[t] = row[t]
    /\ \/ row'[taskOf[r]] = row[taskOf[r]]
       \/ AtWork(r) /\ row'[taskOf[r]].status \in RunningStatus
       \/ AtWork(r) /\ ~AtWork(r)'

\* Every run at work shows in the status of its task.
BusyIsRunning == \A r \in Run : AtWork(r) => row[taskOf[r]].status \in RunningStatus

CopyRuns == \A r \in Run : SavesRunning(r)

\* A pod whose worker is in its program runs.
LEMMA WorkerRuns ==
    ASSUME TypeOK, RunsCoupled, NEW r \in Run, wpc[r] \notin {"none", "exit"}
    PROVE  pod[r] = "running"
BY DEF TypeOK, RunsCoupled, Coupled, PodPhase

\* A run whose subprocess lives is at work.
LEMMA LiveIsAtWork ==
    ASSUME TypeOK, RunsCoupled, NEW r \in Run, Live(r)
    PROVE  pod[r] = "running" /\ AtWork(r)
<1>1. child[r] # "none" /\ Coupled(pod[r], wpc[r], child[r]) /\ pod[r] \in PodPhase
  BY DEF Live, ChildAlive, RunsCoupled, TypeOK
<1> QED
  BY <1>1 DEF Coupled, Reporting, Past, AtWork, Live, PodPhase

\* The end of a container is a step of its run.
LEMMA EndMoves ==
    ASSUME TypeOK, NEW r \in Run, NEW phase \in {"ended", "oom", "gone"},
           EndContainer(r, phase), UNCHANGED <<row, active, taskOf, req>>
    PROVE  OnlyMoves(r)
BY DEF TypeOK, EndContainer, OnlyMoves, AtWork, Past, SavesRunning

\* So is a step of the worker that writes no row and leaves the subprocess.
LEMMA GotoMoves ==
    ASSUME TypeOK, CopyRuns, NEW r \in Run, NEW w \in WorkerPc, GotoW(r, w),
           \A s \in Run \ {r} : wrow'[s] = wrow[s],
           UNCHANGED <<row, active, taskOf, pod, child, crow, req>>,
           wpc[r] \in Past => w \in Past
    PROVE  OnlyMoves(r)
BY DEF TypeOK, GotoW, OnlyMoves, AtWork, CopyRuns, SavesRunning

\* Every step of the worker is a step of its run.
LEMMA WorkerMoves ==
    ASSUME TypeOK, RunsCoupled, CopyRuns, NEW r \in Run, Worker(r)
    PROVE  OnlyMoves(r)
<1>1. CASE EndContainer(r, "ended") /\ UNCHANGED <<row, active, taskOf, req>>
  BY <1>1, EndMoves
<1>2. CASE LaunchRead(r) \/ EndRead(r)
  <2>1. CASE GotoW(r, "launch_write") \/ GotoW(r, "end_write")
    BY <1>1, <1>2, <2>1, GotoMoves DEF LaunchRead, EndRead, WorkerRead, db, children, TypeOK,
                                      WorkerPc, Past
  <2> QED
    BY <1>1, <1>2, <2>1 DEF LaunchRead, EndRead, WorkerRead, db
<1>3. CASE LaunchWrite(r) \/ StopWrite(r) \/ TTLWrite(r) \/ EndWrite(r)
  <2>1. PICK s \in Status, w \in WorkerPc :
           /\ row' = [row EXCEPT ![taskOf[r]] = WithStatus(wrow[r], s)]
           /\ wrow' = [wrow EXCEPT ![r] = NewRow]
           /\ wpc' = [wpc EXCEPT ![r] = w]
           /\ s = "LAUNCHING" \/ w \in Past
           /\ wpc[r] \notin Past \cup {"none", "exit"}
           /\ UNCHANGED <<active, pod, taskOf, child, crow, req>>
    BY <1>3 DEF LaunchWrite, StopWrite, TTLWrite, EndWrite, WorkerWrite, Outcome, Status,
                RunningStatus, EndStatus, WorkerPc, Past, cluster, children, GotoW
  <2>2. AtWork(r)
    BY <2>1, WorkerRuns DEF AtWork
  <2>3. s = "LAUNCHING" => s \in RunningStatus
    BY DEF RunningStatus
  <2>4. \A t \in Task \ {taskOf[r]} : row'[t] = row[t]
    BY <2>1 DEF TypeOK
  <2>5. row'[taskOf[r]].status = s
    BY <2>1 DEF TypeOK, WithStatus, Row
  <2>6. w \in Past => ~AtWork(r)'
    BY <2>1 DEF AtWork, TypeOK
  <2>7. SavesRunning(r)'
    BY <2>1 DEF SavesRunning, CopyRuns
  <2>8. \A t \in Run \ {r} : /\ pod'[t] = pod[t]
                             /\ wpc'[t] = wpc[t]
                             /\ wrow'[t] = wrow[t]
                             /\ child'[t] = child[t]
                             /\ crow'[t] = crow[t]
    BY <2>1 DEF TypeOK
  <2> QED
    BY <2>1, <2>2, <2>3, <2>4, <2>5, <2>6, <2>7, <2>8 DEF OnlyMoves
<1>4. CASE StopKill(r) \/ TTLKill(r)
  <2>1. CASE ~EndContainer(r, "ended")
    BY <1>4, <2>1 DEF StopKill, TTLKill, KillAndRead, GotoW, TypeOK, OnlyMoves, AtWork, Past,
                      CopyRuns, SavesRunning, db, Live, ChildAlive
  <2> QED
    BY <1>1, <1>4, <2>1 DEF StopKill, TTLKill, KillAndRead, db
<1>5. CASE TTLRecord(r) \/ WorkerRecord(r)
  BY <1>5, GotoMoves DEF TTLRecord, WorkerRecord, CloseRecord, cluster, children, WorkerPc, Past
<1>6. CASE StopService(r) \/ TTLService(r) \/ EndService(r)
  BY <1>6, GotoMoves DEF StopService, TTLService, EndService, DeleteService, db, children,
                         WorkerPc, Past
<1>7. CASE Popen(r)
  BY <1>7 DEF Popen, GotoW, TypeOK, OnlyMoves, AtWork, Past, CopyRuns, SavesRunning, db, cluster
<1>8. CASE Subscribe(r) \/ CheckStop(r) \/ Poll(r)
  BY <1>8, GotoMoves DEF Subscribe, CheckStop, Poll, LeaveLoop, StayInLoop, GotoW, db, cluster,
                         children, WorkerPc, Listening, Past
<1>9. CASE WorkerExit(r)
  BY <1>9, EndMoves DEF WorkerExit, db
<1> QED
  BY <1>2, <1>3, <1>4, <1>5, <1>6, <1>7, <1>8, <1>9 DEF Worker

\* Every step of the subprocess is a step of its run, which is at work.
LEMMA ChildMoves ==
    ASSUME TypeOK, RunsCoupled, BusyIsRunning, CopyRuns, NEW r \in Run, Child(r) \/ ChildFails(r)
    PROVE  OnlyMoves(r)
<1>1. Live(r)
  BY DEF Child, BatchMatch, BatchSave, BatchReadRow, BatchTerminate, RealtimeLoad, RealtimeReady,
         ChildFails, Live, ChildAlive
<1>2. AtWork(r) /\ row[taskOf[r]].status \in RunningStatus
  BY <1>1, LiveIsAtWork DEF BusyIsRunning
<1>3. UNCHANGED <<active, taskOf, pod, wpc, wrow, req>>
  BY DEF Child, BatchMatch, BatchSave, BatchReadRow, BatchTerminate, RealtimeLoad, RealtimeReady,
         ChildFails, ChildRead, ChildWrite, db, cluster, workers
<1>4. CASE row' = row
  <2>1. /\ SavesRunning(r)'
        /\ \A s \in Run \ {r} : child'[s] = child[s] /\ crow'[s] = crow[s]
    <3>1. CASE BatchMatch(r) \/ BatchReadRow(r) \/ RealtimeLoad(r)
      BY <1>2, <3>1 DEF BatchMatch, BatchReadRow, RealtimeLoad, ChildRead, SavesRunning, TypeOK
    <3>2. CASE BatchSave(r) \/ BatchTerminate(r) \/ RealtimeReady(r)
      BY <3>2 DEF BatchSave, BatchTerminate, RealtimeReady, ChildWrite, SavesRunning, TypeOK
    <3>3. CASE ChildFails(r)
      BY <3>3 DEF ChildFails, SavesRunning, TypeOK
    <3> QED
      BY <3>1, <3>2, <3>3 DEF Child
  <2> QED
    BY <1>2, <1>3, <1>4, <2>1 DEF OnlyMoves
<1>5. CASE row' # row
  <2>1. PICK new \in Row, next \in {"saved", "ok", "serving"} :
           ChildWrite(r, new, next) /\ new.status \in RunningStatus
    <3>1. CASE BatchSave(r)
      BY <3>1 DEF BatchSave, CopyRuns, SavesRunning, TypeOK, Row
    <3>2. CASE BatchTerminate(r) \/ RealtimeReady(r)
      <4>1. PICK s \in {"TERMINATING", "READY"}, next \in {"ok", "serving"} :
               ChildWrite(r, WithStatus(crow[r], s), next)
        BY <3>2 DEF BatchTerminate, RealtimeReady
      <4>2. s \in RunningStatus /\ s \in Status /\ crow[r] \in Row
        BY DEF RunningStatus, Status, TypeOK
      <4>3. WithStatus(crow[r], s) \in Row /\ WithStatus(crow[r], s).status = s
        BY <4>2, WithStatusIsRow DEF WithStatus, Row
      <4> QED
        BY <4>1, <4>2, <4>3
    <3> QED
      BY <1>5, <3>1, <3>2 DEF Child, BatchMatch, BatchReadRow, RealtimeLoad, ChildRead, ChildFails, db
  <2>2. row'[taskOf[r]] = new /\ \A t \in Task \ {taskOf[r]} : row'[t] = row[t]
    BY <2>1 DEF ChildWrite, TypeOK
  <2>3. SavesRunning(r)'
    BY <2>1 DEF ChildWrite, SavesRunning, TypeOK
  <2> QED
    BY <1>2, <1>3, <2>1, <2>2, <2>3 DEF OnlyMoves, ChildWrite, TypeOK
<1> QED
  BY <1>4, <1>5

\* All that a pod, its worker and its subprocess do, or that happens to them.
RunStep(r) ==
    \/ StartContainer(r) \/ Worker(r) \/ WorkerCrash(r) \/ TTLPasses(r)
    \/ Child(r) \/ ChildFails(r)
    \/ PodDeleted(r) \/ PodLost(r) \/ PodOOM(r)

\* Each of these steps is a step of its run.
LEMMA RunMoves ==
    ASSUME TypeOK, RunsCoupled, BusyIsRunning, CopyRuns, NEW r \in Run, RunStep(r)
    PROVE  OnlyMoves(r)
<1>1. CASE StartContainer(r)
  <2>1. wpc[r] = "none"
    BY <1>1 DEF StartContainer, RunsCoupled, Coupled
  <2> QED
    BY <1>1, <2>1 DEF StartContainer, GotoW, TypeOK, OnlyMoves, AtWork, Past, CopyRuns,
                      SavesRunning, db, children
<1>2. CASE TTLPasses(r)
  BY <1>2 DEF TTLPasses, OnlyMoves, AtWork, CopyRuns, SavesRunning, db, cluster, children
<1>3. CASE WorkerCrash(r) \/ PodOOM(r) \/ PodDeleted(r) \/ PodLost(r)
  BY <1>3, EndMoves DEF WorkerCrash, PodOOM, PodDeleted, PodLost, RemovePod, db
<1> QED
  BY <1>1, <1>2, <1>3, WorkerMoves, ChildMoves DEF RunStep

-----------------------------------------------------------------------------
(* The housekeeper reports no killed pod.                                  *)

NoKill == hk.pc \notin {"read", "write"} /\ \A r \in Run : pod[r] # "oom"

\* Without the kills no pod is found OOMKilled, so the housekeeper writes no task.
LEMMA NoKillNext ==
    ASSUME "pod_oom" \notin Fault
    PROVE  TypeOK /\ NoKill /\ [Next]_vars => NoKill'
<1> SUFFICES ASSUME TypeOK, NoKill, [Next]_vars PROVE NoKill'
  OBVIOUS
<1>1. CASE UNCHANGED <<pod, hk>>
  BY <1>1 DEF NoKill
<1>2. ASSUME NEW r \in Run, NEW phase \in {"running", "ended", "gone", "pending"}, hk' = hk,
             pod' = [pod EXCEPT ![r] = phase]
      PROVE  NoKill'
  BY <1>2 DEF NoKill, TypeOK
<1>3. ASSUME NEW h \in Req, Serve(h) \/ StartK8sError(h) \/ RequestDies(h)
      PROVE  NoKill'
  <2>1. CASE StartCreatePod(h)
    BY <1>2, <2>1 DEF StartCreatePod
  <2> QED
    BY <1>1, <1>3, <2>1 DEF Serve, StartRead, StartWrite, StartCheckTask, StartCreateService,
              StartAddRecord, MatchWrite, DeletePod, DeleteRecord, DeleteDeactivate,
              StartUnsupported, StartK8sError, RequestDies, cluster
<1>4. ASSUME NEW h \in Req, NEW t \in Task, Accept(h, t)
      PROVE  NoKill'
  BY <1>1, <1>4 DEF Accept, StartValidate, MatchRead, RapidRead, DeleteList, cluster
<1>5. ASSUME NEW t \in Task, Stop(t)
      PROVE  NoKill'
  BY <1>1, <1>5 DEF Stop, cluster
<1>6. ASSUME NEW r \in Run, RunStep(r)
      PROVE  NoKill'
  <2>1. CASE StartContainer(r)
    BY <1>2, <2>1 DEF StartContainer
  <2>2. CASE WorkerCrash(r) \/ PodDeleted(r) \/ PodLost(r)
    BY <1>2, <2>2 DEF WorkerCrash, PodDeleted, PodLost, RemovePod, EndContainer
  <2>3. CASE TTLPasses(r) \/ Child(r) \/ ChildFails(r)
    BY <1>1, <2>3 DEF TTLPasses, Child, BatchMatch, BatchSave, BatchReadRow, BatchTerminate,
                      RealtimeLoad, RealtimeReady, ChildRead, ChildWrite, ChildFails, cluster
  <2>4. CASE Worker(r)
    <3>1. CASE EndContainer(r, "ended") /\ hk' = hk
      BY <1>2, <3>1 DEF EndContainer
    <3>2. CASE pod' = pod /\ hk' = hk
      BY <1>1, <3>2
    <3> QED
      BY <2>4, <3>1, <3>2 DEF Worker, LaunchRead, LaunchWrite, Popen, Subscribe, CheckStop, Poll,
           StopService, StopKill, StopWrite, TTLService, TTLRecord, TTLKill, TTLWrite, EndRead,
           EndWrite, EndService, WorkerRecord, WorkerExit, WorkerRead, WorkerWrite, DeleteService,
           KillAndRead, CloseRecord, cluster
  <2> QED
    BY <1>6, <2>1, <2>2, <2>3, <2>4 DEF RunStep, PodOOM
<1>7. CASE HkStep \/ HkCrash
  <2>1. pod' = pod
    BY <1>7 DEF HkStep, HkList, HkVisit, HkMissing, HkOOM, HkSkip, HkRead, HkWrite, HkDone, HkCrash,
                cluster
  <2>2. hk'.pc \in {"scan", "sleep"}
    <3>1. CASE HkList
      <4> DEFINE running == {r \in Run : rec[r] = "Running"}
      <4>1. hk' = [hk EXCEPT !.pc = "scan", !.todo = running]
        BY <3>1 DEF HkList
      <4> HIDE DEF running
      <4> QED
        BY <4>1 DEF TypeOK, Housekeeper
    <3>2. CASE HkVisit
      BY <3>2 DEF HkVisit, HkMissing, HkOOM, HkSkip, NoKill, TypeOK, Housekeeper
    <3>3. CASE HkDone \/ HkCrash
      BY <3>3 DEF HkDone, HkCrash, Asleep
    <3> QED
      BY <1>7, <3>1, <3>2, <3>3 DEF HkStep, HkRead, HkWrite, NoKill
  <2> QED
    BY <2>1, <2>2 DEF NoKill
<1> QED
  BY <1>1, <1>3, <1>4, <1>5, <1>6, <1>7 DEF Next, RunStep, vars, cluster

-----------------------------------------------------------------------------
(* Who may write the row of a task.                                        *)

\* No pod of the task is at work.
Quiet(t) == \A r \in Run : AtWork(r) => taskOf[r] # t

\* A task has one run at work: no other process of the cluster writes its row.
LoneRuns == \A r, s \in Run : AtWork(r) /\ AtWork(s) /\ taskOf[r] = taskOf[s] => r = s

Fits(S) == IsFiniteSet(S) /\ Cardinality(S) <= MaxRunningTaskNr

\* The task may run: it does already, or one more running task is allowed.
Room(t) == Fits(RunningTasks \cup {t})

\* What a request has found out and relies on when it goes on.
Knows(q) ==
    /\ q.pc \in {"start_read", "start_write"} =>
          active[q.task] /\ row[q.task].status \notin RunningStatus /\ Room(q.task)
    /\ q.pc = "start_write" => q.copy = row[q.task]
    /\ q.pc \in {"pod_check", "pod_create"} =>
          row[q.task].status = "PREPARING" /\ Quiet(q.task)
    /\ q.pc = "match_write" =>
          /\ q.task \in Realtime
          /\ IF q.copy.status \in RunningStatus THEN Room(q.task)
             ELSE row[q.task].status \notin RunningStatus

SerialInv ==
    /\ LoneRuns
    /\ BusyIsRunning
    /\ CopyRuns
    /\ Fits(RunningTasks)
    /\ \A h \in Req : Knows(req[h])

\* The system before anything was started has no running task and no run.
LEMMA SerialInit == Init => SerialInv
<1> SUFFICES ASSUME Init PROVE SerialInv
  OBVIOUS
<1>1. RunningTasks = {}
  BY DEF Init, RunningTasks, RunningStatus, NewRow
<1>2. Fits(RunningTasks)
  BY <1>1, FS_EmptySet, ConstantAssumption DEF Fits
<1>3. \A r \in Run : ~AtWork(r) /\ SavesRunning(r)
  BY DEF Init, AtWork, SavesRunning
<1>4. \A h \in Req : Knows(req[h])
  BY DEF Init, Idle, Knows
<1> QED
  BY <1>2, <1>3, <1>4 DEF SerialInv, LoneRuns, BusyIsRunning, CopyRuns

\* A part of what fits, fits.
LEMMA FitsSubset ==
    ASSUME NEW S, NEW T, S \subseteq T, Fits(T)
    PROVE  Fits(S)
<1>1. IsFiniteSet(S) /\ Cardinality(S) <= Cardinality(T)
  BY FS_Subset DEF Fits
<1>2. Cardinality(S) \in Nat /\ Cardinality(T) \in Nat
  BY <1>1, FS_CardinalityType DEF Fits
<1> QED
  BY <1>1, <1>2, ConstantAssumption DEF Fits

\* A task fits where there is room for it.
LEMMA RoomForOneMore ==
    ASSUME NEW t, Fits(RunningTasks), Cardinality(RunningTasks) < MaxRunningTaskNr
    PROVE  Room(t)
<1>1. /\ IsFiniteSet(RunningTasks \cup {t})
      /\ Cardinality(RunningTasks \cup {t})
            = IF t \in RunningTasks THEN Cardinality(RunningTasks) ELSE Cardinality(RunningTasks) + 1
  BY FS_AddElement DEF Fits
<1>2. Cardinality(RunningTasks) \in Nat
  BY FS_CardinalityType DEF Fits
<1> QED
  BY <1>1, <1>2, ConstantAssumption DEF Room, Fits

\* Room is kept while no task starts to run.
LEMMA RoomKept ==
    ASSUME RunningTasks' \subseteq RunningTasks
    PROVE  /\ Fits(RunningTasks) => Fits(RunningTasks)'
           /\ \A t : Room(t) => Room(t)'
<1>1. Fits(RunningTasks) => Fits(RunningTasks')
  BY FitsSubset
<1>2. ASSUME NEW t, Fits(RunningTasks \cup {t})
      PROVE  Fits(RunningTasks' \cup {t})
  <2>1. RunningTasks' \cup {t} \subseteq RunningTasks \cup {t}
    OBVIOUS
  <2> QED
    BY <1>2, <2>1, FitsSubset
<1>3. \A S : Fits(S)' <=> Fits(S')
  BY DEF Fits
<1> QED
  BY <1>1, <1>2, <1>3 DEF Room

\* A step of a run changes the row of a running task only, of which it is the
\* only run at work, so it starts no task and takes no room.
LEMMA RunTakesNoRoom ==
    ASSUME TypeOK, SerialInv, NEW r \in Run, OnlyMoves(r)
    PROVE  /\ \A t \in Task : row[t].status \notin RunningStatus \/ Quiet(t) => row'[t] = row[t]
           /\ \A s \in Run : AtWork(s)' => AtWork(s)
           /\ \A s \in Run \ {r} : AtWork(s) => row'[taskOf[s]] = row[taskOf[s]]
           /\ RunningTasks' \subseteq RunningTasks
<1>1. \A s \in Run : AtWork(s)' => AtWork(s)
  BY DEF OnlyMoves, AtWork
<1>2. \A t \in Task : row[t].status \notin RunningStatus \/ Quiet(t) => row'[t] = row[t]
  BY DEF OnlyMoves, SerialInv, BusyIsRunning, Quiet
<1>3. \A s \in Run \ {r} : AtWork(s) => row'[taskOf[s]] = row[taskOf[s]]
  BY DEF OnlyMoves, SerialInv, LoneRuns, TypeOK
<1>4. RunningTasks' \subseteq RunningTasks
  BY <1>2 DEF RunningTasks, OnlyMoves
<1> QED
  BY <1>1, <1>2, <1>3, <1>4

\* A request that waits still knows what it knew when a run has made a step.
LEMMA RunKeepsKnowledge ==
    ASSUME TypeOK, SerialInv, NEW r \in Run, OnlyMoves(r), NEW h \in Req
    PROVE  Knows(req[h])'
<1>1. Knows(req[h]) /\ req[h].task \in Task
  BY RequestFields DEF SerialInv
<1>2. req' = req /\ active' = active /\ taskOf' = taskOf
  BY DEF OnlyMoves
<1>3. \A t : /\ Room(t) => Room(t)'
             /\ Quiet(t) => Quiet(t)'
  BY RunTakesNoRoom, RoomKept, <1>2 DEF Quiet
<1>4. \A t \in Task : row[t].status \notin RunningStatus \/ Quiet(t) => row'[t] = row[t]
  BY RunTakesNoRoom
<1> DEFINE q == req[h]
<1>5. \/ row[q.task].status \notin RunningStatus
      \/ Quiet(q.task)
      \/ q.pc \notin {"start_read", "start_write", "pod_check", "pod_create"}
  BY <1>1 DEF Knows
<1>6. q.pc = "match_write" /\ q.copy.status \notin RunningStatus => row[q.task].status \notin RunningStatus
  BY <1>1 DEF Knows
<1> QED
  BY <1>1, <1>2, <1>3, <1>4, <1>5, <1>6 DEF Knows

\* So a step of a run keeps the invariant.
LEMMA SerialRun ==
    ASSUME TypeOK, SerialInv, NEW r \in Run, OnlyMoves(r)
    PROVE  SerialInv'
<1>1. \A s \in Run : AtWork(s)' => AtWork(s)
  BY RunTakesNoRoom
<1>2. LoneRuns'
  BY <1>1 DEF SerialInv, LoneRuns, OnlyMoves
<1>3. BusyIsRunning'
  BY <1>1, RunTakesNoRoom DEF SerialInv, BusyIsRunning, OnlyMoves
<1>4. CopyRuns'
  BY DEF SerialInv, CopyRuns, SavesRunning, OnlyMoves
<1>5. Fits(RunningTasks)'
  BY RunTakesNoRoom, RoomKept DEF SerialInv
<1> QED
  BY <1>2, <1>3, <1>4, <1>5, RunKeepsKnowledge DEF SerialInv

-----------------------------------------------------------------------------
(* The requests.                                                           *)

\* A step of the only request that changes no row and no pod keeps the
\* invariant when the request knows what it goes on with.
LEMMA SerialStay ==
    ASSUME TypeOK, SerialInv, OneAtATime, NEW h \in Req, Knows(req[h])',
           UNCHANGED <<row, active, taskOf, pod, wpc, child, crow>>
    PROVE  SerialInv'
<1>1. \A r \in Run : (AtWork(r)' <=> AtWork(r)) /\ (SavesRunning(r)' <=> SavesRunning(r))
  BY DEF AtWork, SavesRunning
<1>2. RunningTasks' = RunningTasks
  BY DEF RunningTasks
<1>3. Fits(RunningTasks)'
  BY <1>2, RoomKept DEF SerialInv
<1>4. \A g \in Req : Knows(req[g])'
  BY DEF OneAtATime
<1>5. LoneRuns' /\ BusyIsRunning' /\ CopyRuns'
  BY <1>1 DEF SerialInv, LoneRuns, BusyIsRunning, CopyRuns
<1> QED
  BY <1>3, <1>4, <1>5 DEF SerialInv

\* A request that is answered relies on nothing any more.
LEMMA ReturnKnows ==
    ASSUME TypeOK, NEW h \in Req, Return(h)
    PROVE  Knows(req[h])'
BY DEF TypeOK, Return, Idle, Knows

\* StartRead finds the row as the validation has found it.
LEMMA SerialStartRead ==
    ASSUME TypeOK, SerialInv, OneAtATime, NEW h \in Req, StartRead(h)
    PROVE  SerialInv'
<1>1. UNCHANGED <<row, active, taskOf, pod, wpc, child, crow>>
  BY DEF StartRead, db, cluster, workers, children
<1>2. CASE active[req[h].task]
  <2>1. req'[h] = [req[h] EXCEPT !.pc = "start_write", !.copy = row[req[h].task]]
    BY <1>2 DEF StartRead, TypeOK
  <2>2. /\ req'[h].pc = "start_write" /\ req'[h].task = req[h].task
        /\ req'[h].copy = row[req[h].task]
    BY <2>1, RequestFields DEF Request
  <2>3. Knows(req[h]) /\ req[h].pc = "start_read"
    BY DEF SerialInv, StartRead
  <2>4. Room(req[h].task)'
    BY <1>1, <2>2, <2>3 DEF Knows, Room, RunningTasks, Fits
  <2>5. Knows(req[h])'
    BY <1>1, <2>2, <2>3, <2>4 DEF Knows
  <2> QED
    BY <1>1, <2>5, SerialStay
<1>3. CASE ~active[req[h].task]
  BY <1>1, <1>3, ReturnKnows, SerialStay DEF StartRead
<1> QED
  BY <1>2, <1>3

\* StartWrite prepares a task of which no run is at work, and for which there is room.
LEMMA SerialStartWrite ==
    ASSUME TypeOK, SerialInv, OneAtATime, NEW h \in Req, StartWrite(h)
    PROVE  SerialInv'
<1> DEFINE t == req[h].task
<1>1. /\ t \in Task
      /\ Knows(req[h])
      /\ req[h].pc = "start_write"
  BY RequestFields DEF SerialInv, StartWrite
<1>2. /\ active[t]
      /\ row[t].status \notin RunningStatus
      /\ Room(t)
      /\ Quiet(t)
  BY <1>1 DEF Knows, SerialInv, BusyIsRunning, Quiet
<1>3. /\ row'[t].status = "PREPARING"
      /\ \A u \in Task \ {t} : row'[u] = row[u]
  BY <1>1, RequestFields DEF StartWrite, TypeOK, WithStatus, Row
<1>4. UNCHANGED <<active, taskOf, pod, wpc, child, crow>>
  BY DEF StartWrite, cluster, workers, children
<1>5. \A r \in Run : (AtWork(r)' <=> AtWork(r)) /\ (SavesRunning(r)' <=> SavesRunning(r))
  BY <1>4 DEF AtWork, SavesRunning
<1>6. \A r \in Run : AtWork(r) => row'[taskOf[r]] = row[taskOf[r]]
  BY <1>2, <1>3 DEF Quiet, TypeOK
<1>7. LoneRuns' /\ BusyIsRunning' /\ CopyRuns'
  BY <1>4, <1>5, <1>6 DEF SerialInv, LoneRuns, BusyIsRunning, CopyRuns
<1>8. Fits(RunningTasks)'
  <2>1. RunningTasks' \subseteq RunningTasks \cup {t}
    BY <1>3, <1>4 DEF RunningTasks
  <2>2. Fits(RunningTasks')
    BY <1>2, <2>1, FitsSubset DEF Room
  <2> QED
    BY <2>2 DEF Fits
<1>9. Knows(req[h])'
  <2>1. req'[h].pc = "pod_check" /\ req'[h].task = t
    BY RequestFields DEF StartWrite, Goto, TypeOK, Request
  <2>2. row'[req'[h].task].status = "PREPARING" /\ Quiet(req[h].task)'
    BY <1>2, <1>3, <1>4, <1>5, <2>1 DEF Quiet
  <2> QED
    BY <2>1, <2>2 DEF Knows
<1> QED
  BY <1>7, <1>8, <1>9 DEF SerialInv, OneAtATime

\* StartCheckTask changes nothing but the request.
LEMMA SerialStartCheckTask ==
    ASSUME TypeOK, SerialInv, OneAtATime, NEW h \in Req, StartCheckTask(h)
    PROVE  SerialInv'
<1>1. UNCHANGED <<row, active, taskOf, pod, wpc, child, crow>>
  BY DEF StartCheckTask, db, cluster, workers, children
<1>2. CASE Goto(h, "pod_create")
  <2>1. req'[h].pc = "pod_create" /\ req'[h].task = req[h].task
    BY <1>2, RequestFields DEF Goto, TypeOK, Request
  <2>2. row[req[h].task].status = "PREPARING" /\ Quiet(req[h].task)
    BY DEF SerialInv, Knows, StartCheckTask
  <2>3. Knows(req[h])'
    BY <1>1, <2>1, <2>2 DEF Knows, Quiet, AtWork
  <2> QED
    BY <1>1, <2>3, SerialStay
<1>3. CASE Return(h)
  BY <1>1, <1>3, ReturnKnows, SerialStay
<1> QED
  BY <1>2, <1>3 DEF StartCheckTask

\* StartCreatePod makes a run of a task that has none at work.
LEMMA SerialStartCreatePod ==
    ASSUME TypeOK, RunsCoupled, SerialInv, OneAtATime, NEW h \in Req, StartCreatePod(h)
    PROVE  SerialInv'
<1> DEFINE t == req[h].task
<1>1. t \in Task /\ row[t].status = "PREPARING" /\ Quiet(t)
  BY RequestFields DEF SerialInv, Knows, StartCreatePod
<1>2. PICK r \in Run :
         /\ pod[r] = "none"
         /\ pod' = [pod EXCEPT ![r] = "pending"]
         /\ taskOf' = [taskOf EXCEPT ![r] = t]
         /\ req' = [req EXCEPT ![h] = [req[h] EXCEPT !.pc = "svc_create", !.run = r]]
  BY DEF StartCreatePod
<1>3. UNCHANGED <<row, active, wpc, child, crow>>
  BY DEF StartCreatePod, db, workers, children
<1>4. \A s \in Run : AtWork(s)' => \/ AtWork(s) /\ taskOf[s] # t /\ taskOf'[s] = taskOf[s]
                                   \/ s = r /\ taskOf'[s] = t
  <2>1. taskOf'[r] = t
    BY <1>2 DEF TypeOK
  <2>2. \A s \in Run \ {r} : taskOf'[s] = taskOf[s] /\ (AtWork(s)' => AtWork(s))
    BY <1>2, <1>3 DEF AtWork, TypeOK
  <2> QED
    BY <1>1, <2>1, <2>2 DEF Quiet
<1>5. LoneRuns'
  BY <1>4 DEF SerialInv, LoneRuns
<1>6. BusyIsRunning'
  BY <1>1, <1>3, <1>4 DEF SerialInv, BusyIsRunning, RunningStatus
<1>7. CopyRuns'
  BY <1>3 DEF SerialInv, CopyRuns, SavesRunning
<1>8. Fits(RunningTasks)'
  BY <1>3, RoomKept DEF SerialInv, RunningTasks
<1>9. Knows(req[h])'
  <2>1. req'[h].pc = "svc_create"
    BY <1>2, RequestFields DEF TypeOK, Request
  <2> QED
    BY <2>1 DEF Knows
<1> QED
  BY <1>5, <1>6, <1>7, <1>8, <1>9 DEF SerialInv, OneAtATime

\* MatchWrite puts a status back: a running one only where there is room, and
\* another one only to a task of which no run is at work.
LEMMA SerialMatchWrite ==
    ASSUME TypeOK, SerialInv, OneAtATime, NEW h \in Req, MatchWrite(h)
    PROVE  SerialInv'
<1> DEFINE t == req[h].task
<1>1. t \in Task /\ Knows(req[h]) /\ req[h].pc = "match_write"
  BY RequestFields DEF SerialInv, MatchWrite
<1>2. row'[t] = req[h].copy /\ \A u \in Task \ {t} : row'[u] = row[u]
  BY <1>1 DEF MatchWrite, TypeOK
<1>3. UNCHANGED <<active, taskOf, pod, wpc, child, crow>>
  BY DEF MatchWrite, cluster, workers, children
<1>4. \A r \in Run : (AtWork(r)' <=> AtWork(r)) /\ (SavesRunning(r)' <=> SavesRunning(r))
  BY <1>3 DEF AtWork, SavesRunning
<1>5. LoneRuns' /\ CopyRuns'
  BY <1>3, <1>4 DEF SerialInv, LoneRuns, CopyRuns
<1>6. BusyIsRunning'
  <2>1. req[h].copy.status \notin RunningStatus => Quiet(t)
    BY <1>1 DEF Knows, SerialInv, BusyIsRunning, Quiet
  <2> QED
    BY <1>2, <1>3, <1>4, <2>1 DEF SerialInv, BusyIsRunning, TypeOK, Quiet
<1>7. Fits(RunningTasks)'
  <2>1. CASE req[h].copy.status \in RunningStatus
    <3>1. RunningTasks' \subseteq RunningTasks \cup {t}
      BY <1>2, <1>3 DEF RunningTasks
    <3>2. Fits(RunningTasks')
      BY <1>1, <2>1, <3>1, FitsSubset DEF Knows, Room
    <3> QED
      BY <3>2 DEF Fits
  <2>2. CASE req[h].copy.status \notin RunningStatus
    <3>1. RunningTasks' \subseteq RunningTasks
      BY <1>2, <1>3, <2>2 DEF RunningTasks
    <3> QED
      BY <3>1, RoomKept DEF SerialInv
  <2> QED
    BY <2>1, <2>2
<1>8. Knows(req[h])'
  BY ReturnKnows DEF MatchWrite
<1> QED
  BY <1>5, <1>6, <1>7, <1>8 DEF SerialInv, OneAtATime

\* A task that is deleted leaves its room to another one.
LEMMA SerialDeactivate ==
    ASSUME TypeOK, SerialInv, OneAtATime, NEW h \in Req, DeleteDeactivate(h)
    PROVE  SerialInv'
<1>1. UNCHANGED <<row, taskOf, pod, wpc, child, crow>>
  BY DEF DeleteDeactivate, cluster, workers, children
<1>2. \A t \in Task : active'[t] => active[t]
  BY DEF DeleteDeactivate, TypeOK
<1>3. RunningTasks' \subseteq RunningTasks
  BY <1>1, <1>2 DEF RunningTasks
<1>4. Fits(RunningTasks)'
  BY <1>3, RoomKept DEF SerialInv
<1>5. LoneRuns' /\ BusyIsRunning' /\ CopyRuns'
  BY <1>1 DEF SerialInv, LoneRuns, BusyIsRunning, CopyRuns, AtWork, SavesRunning
<1>6. Knows(req[h])'
  BY ReturnKnows DEF DeleteDeactivate
<1> QED
  BY <1>4, <1>5, <1>6 DEF SerialInv, OneAtATime

\* The other steps of the start and delete handlers change no row and no pod,
\* and leave the request with nothing it relies on.
LEMMA SerialOther ==
    ASSUME TypeOK, SerialInv, OneAtATime, NEW h \in Req,
           \/ StartCreateService(h) \/ StartAddRecord(h) \/ DeletePod(h) \/ DeleteRecord(h)
           \/ StartUnsupported(h) \/ StartK8sError(h) \/ RequestDies(h)
    PROVE  SerialInv'
<1>1. UNCHANGED <<row, active, taskOf, pod, wpc, child, crow>>
  BY DEF StartCreateService, StartAddRecord, DeletePod, DeleteRecord, StartUnsupported,
         StartK8sError, RequestDies, db, cluster, workers, children
<1>2. CASE Return(h)
  BY <1>1, <1>2, ReturnKnows, SerialStay
<1>3. CASE req'[h].pc \in {"record", "del_pod", "del_record"}
  <2>1. Knows(req[h])'
    BY <1>3 DEF Knows
  <2> QED
    BY <1>1, <2>1, SerialStay
<1>4. ASSUME NEW pc \in {"record", "del_pod"}, Goto(h, pc)
      PROVE  req'[h].pc = pc
  BY <1>4, RequestFields DEF Goto, TypeOK, Request
<1>5. CASE DeletePod(h)
  <2>1. PICK r \in req[h].todo : req' = [req EXCEPT ![h] = PodHandled(req[h], r)]
    BY <1>5 DEF DeletePod
  <2>2. req'[h] = PodHandled(req[h], r)
    BY <2>1 DEF TypeOK
  <2>3. req'[h].pc = IF r \in req[h].seen THEN "del_record" ELSE "del_pod"
    BY <2>2, RequestFields DEF PodHandled, Request
  <2> QED
    BY <1>3, <2>3
<1> QED
  BY <1>2, <1>3, <1>4, <1>5 DEF StartCreateService, StartAddRecord, DeleteRecord,
                                StartUnsupported, StartK8sError, RequestDies

\* A request is accepted with what it has found out.
LEMMA SerialAccept ==
    ASSUME TypeOK, SerialInv, OneAtATime, NEW h \in Req, NEW t \in Task, Accept(h, t)
    PROVE  SerialInv'
<1>1. UNCHANGED <<row, active, taskOf, pod, wpc, child, crow>>
  BY DEF Accept, StartValidate, MatchRead, RapidRead, DeleteList, db, cluster, workers, children
<1>2. RunningTasks' = RunningTasks
  BY <1>1 DEF RunningTasks
<1>3. CASE StartValidate(h, t)
  <2>1. req'[h].pc = "start_read" /\ req'[h].task = t
    BY <1>3, RequestFields DEF StartValidate, TypeOK, Request
  <2>2. active[t] /\ row[t].status \notin RunningStatus /\ Room(t)
    BY <1>3, RoomForOneMore DEF StartValidate, SerialInv
  <2>3. Knows(req[h])'
    BY <1>1, <1>2, <2>1, <2>2 DEF Knows, Room, Fits
  <2> QED
    BY <1>1, <2>3, SerialStay
<1>4. CASE MatchRead(h, t) \/ RapidRead(h, t)
  <2>1. req'[h].pc = "match_write" /\ req'[h].task = t /\ req'[h].copy = row[t]
    <3>1. req' = [req EXCEPT ![h] = [req[h] EXCEPT !.pc = "match_write", !.task = t,
                                                   !.copy = row[t]]]
      BY <1>4 DEF MatchRead, RapidRead
    <3>2. req'[h] = [req[h] EXCEPT !.pc = "match_write", !.task = t, !.copy = row[t]]
      BY <3>1 DEF TypeOK
    <3> QED
      BY <3>2, RequestFields DEF Request
  <2>2. t \in Realtime /\ active[t]
    BY <1>4 DEF MatchRead, RapidRead
  <2>3. row[t].status \in RunningStatus => RunningTasks \cup {t} = RunningTasks
    BY <2>2 DEF RunningTasks
  <2>4. row[t].status \in RunningStatus => Room(t)
    BY <2>3 DEF Room, SerialInv
  <2>5. Knows(req[h])'
    BY <1>1, <1>2, <2>1, <2>2, <2>4 DEF Knows, Room, Fits
  <2> QED
    BY <1>1, <2>5, SerialStay
<1>5. CASE DeleteList(h, t)
  <2> DEFINE records == {r \in RunsOf(t) : rec[r] # "None"}
             seen    == {r \in records : rec[r] = "Running"}
  <2>1. req' = [req EXCEPT ![h] = [req[h] EXCEPT !.pc = "del_pod", !.task = t,
                                                 !.todo = records, !.seen = seen]]
    BY <1>5 DEF DeleteList
  <2>2. req'[h].pc = "del_pod"
    <3> HIDE DEF records, seen
    <3> QED
      BY <2>1, RequestFields DEF TypeOK, Request
  <2>3. Knows(req[h])'
    BY <2>2 DEF Knows
  <2> QED
    BY <1>1, <2>3, SerialStay
<1> QED
  BY <1>3, <1>4, <1>5 DEF Accept

\* Every step keeps the invariant while requests come one at a time and the
\* housekeeper reports no killed pod.
LEMMA SerialNext ==
    ASSUME OneAtATime
    PROVE  TypeOK /\ RunsCoupled /\ NoKill /\ SerialInv /\ [Next]_vars => SerialInv'
<1> SUFFICES ASSUME TypeOK, RunsCoupled, NoKill, SerialInv, [Next]_vars PROVE SerialInv'
  OBVIOUS
<1>1. CASE UNCHANGED <<row, active, taskOf, pod, wpc, child, crow, req>>
  <2>1. \A h \in Req : Knows(req[h])'
    BY <1>1 DEF SerialInv, Knows, Room, Fits, RunningTasks, Quiet, AtWork
  <2>2. CASE Req = {}
    BY <1>1, <2>2 DEF SerialInv, LoneRuns, BusyIsRunning, CopyRuns, AtWork, SavesRunning, Fits,
                      RunningTasks
  <2> QED
    BY <1>1, <2>1, <2>2, SerialStay
<1>2. ASSUME NEW h \in Req, Serve(h) \/ StartK8sError(h) \/ RequestDies(h)
      PROVE  SerialInv'
  BY <1>2, SerialStartRead, SerialStartWrite, SerialStartCheckTask, SerialStartCreatePod,
     SerialMatchWrite, SerialDeactivate, SerialOther DEF Serve
<1>3. ASSUME NEW h \in Req, NEW t \in Task, Accept(h, t)
      PROVE  SerialInv'
  BY <1>3, SerialAccept
<1>4. ASSUME NEW t \in Task, Stop(t)
      PROVE  SerialInv'
  BY <1>1, <1>4 DEF Stop, db, cluster, children
<1>5. ASSUME NEW r \in Run, RunStep(r)
      PROVE  SerialInv'
  BY <1>5, RunMoves, SerialRun DEF SerialInv
<1>6. CASE HkStep \/ HkCrash
  BY <1>1, <1>6 DEF HkStep, HkList, HkVisit, HkMissing, HkOOM, HkSkip, HkRead, HkWrite, HkDone,
                    HkCrash, NoKill, db, cluster, workers, children
<1>7. CASE UNCHANGED vars
  BY <1>1, <1>7 DEF vars, db, cluster, workers, children
<1> QED
  BY <1>2, <1>3, <1>4, <1>5, <1>6, <1>7 DEF Next, RunStep

\* The inductive invariant of the theorems of this module.
THEOREM SerialHolds ==
    ASSUME OneAtATime, "pod_oom" \notin Fault
    PROVE  Spec => [](NoKill /\ SerialInv)
<1>1. Init => NoKill
  BY DEF Init, NoKill, Asleep
<1>2. TypeOK /\ NoKill /\ [Next]_vars => NoKill'
  BY NoKillNext
<1>3. TypeOK /\ RunsCoupled /\ NoKill /\ SerialInv /\ [Next]_vars => SerialInv'
  BY SerialNext
<1> QED
  BY <1>1, <1>2, <1>3, SerialInit, TypeCorrect, CouplingHolds, PTL DEF Spec

\* The limit of conf/limitation-free-user.yaml: at most max_running_task_nr
\* tasks run, although it is tested long before the status is written, and
\* although queries and the rapid API write running statuses back late.
THEOREM RunningLimitAlways ==
    ASSUME OneAtATime, "pod_oom" \notin Fault
    PROVE  Spec => []RunningLimit
<1>1. SerialInv => RunningLimit
  BY DEF SerialInv, Fits, RunningLimit
<1> QED
  BY <1>1, SerialHolds, PTL

\* A task never has two computations at work, whatever was stopped, crashed,
\* lost or deleted before it was started again.
THEOREM OneComputationPerTaskAlways ==
    ASSUME OneAtATime, "pod_oom" \notin Fault
    PROVE  Spec => []OneComputationPerTask
<1>1. TypeOK /\ RunsCoupled /\ SerialInv => OneComputationPerTask
  BY LiveIsAtWork DEF SerialInv, LoneRuns, OneComputationPerTask, RunsOf
<1> QED
  BY <1>1, SerialHolds, TypeCorrect, CouplingHolds, PTL

-----------------------------------------------------------------------------
(* What the writers of a batch task have read.                             *)

\* The copies of run r are the row as it is, and hold a result once it was saved.
Fresh(r) ==
    /\ wpc[r] \in {"launch_write", "stop_write", "ttl_write", "end_write"}
          => wrow[r] = row[taskOf[r]]
    /\ child[r] \in {"save", "term"} => crow[r] = row[taskOf[r]]
    /\ child[r] \in {"saved", "term", "ok"} => row[taskOf[r]].result # NoRun

FreshBatch(r) == AtWork(r) /\ taskOf[r] \notin Realtime => Fresh(r)

\* There is no subprocess before Popen.
BeforePopen(r) == wpc[r] \in {"launch_read", "launch_write", "popen"} => child[r] = "none"

HasResult(t) == t \notin Realtime /\ row[t].status = "COMPLETE" => row[t].result # NoRun

ResultInv ==
    /\ \A t \in Task : HasResult(t)
    /\ \A r \in Run : BeforePopen(r) /\ FreshBatch(r)

\* The invariant is about one run and its task at a time.
LEMMA ResultMoves ==
    ASSUME TypeOK, SerialInv, ResultInv, NEW r \in Run, OnlyMoves(r),
           BeforePopen(r)', FreshBatch(r)', HasResult(taskOf[r])'
    PROVE  ResultInv'
<1>1. taskOf' = taskOf
  BY DEF OnlyMoves
<1>2. \A t \in Task : HasResult(t)'
  BY <1>1 DEF ResultInv, HasResult, OnlyMoves
<1>3. ASSUME NEW s \in Run \ {r}
      PROVE  BeforePopen(s)' /\ FreshBatch(s)'
  <2>1. /\ pod'[s] = pod[s] /\ wpc'[s] = wpc[s] /\ wrow'[s] = wrow[s]
        /\ child'[s] = child[s] /\ crow'[s] = crow[s]
    BY DEF OnlyMoves
  <2>2. AtWork(s) => row'[taskOf[s]] = row[taskOf[s]]
    BY RunTakesNoRoom
  <2>3. BeforePopen(s) /\ FreshBatch(s)
    BY DEF ResultInv
  <2> QED
    BY <1>1, <2>1, <2>2, <2>3 DEF BeforePopen, FreshBatch, Fresh, AtWork
<1> QED
  BY <1>2, <1>3 DEF ResultInv

\* So a step that writes no row and leaves the copies alone keeps it, unless it
\* takes the worker to a write or starts a subprocess.
LEMMA ResultGoto ==
    ASSUME TypeOK, SerialInv, ResultInv, NEW r \in Run, OnlyMoves(r), NEW w, GotoW(r, w),
           UNCHANGED <<row, wrow, crow>>, child'[r] \in {child[r], "load"},
           wpc[r] \in Past => w \in Past,
           w \notin {"launch_read", "launch_write", "popen", "stop_write", "ttl_write", "end_write"}
    PROVE  ResultInv'
<1>1. wpc'[r] = w /\ taskOf' = taskOf
  BY DEF GotoW, TypeOK, OnlyMoves
<1>2. BeforePopen(r)'
  BY <1>1 DEF BeforePopen
<1>3. FreshBatch(r)'
  BY <1>1 DEF FreshBatch, Fresh, ResultInv, OnlyMoves
<1>4. HasResult(taskOf[r])'
  BY <1>1 DEF ResultInv, HasResult, TypeOK
<1> QED
  BY <1>2, <1>3, <1>4, ResultMoves

\* The end of a container keeps it.
LEMMA ResultEnd ==
    ASSUME TypeOK, SerialInv, ResultInv, NEW r \in Run, OnlyMoves(r),
           NEW phase, EndContainer(r, phase), row' = row
    PROVE  ResultInv'
<1>1. wpc'[r] = "exit" /\ taskOf' = taskOf
  BY DEF EndContainer, TypeOK, OnlyMoves
<1>2. BeforePopen(r)' /\ FreshBatch(r)'
  BY <1>1 DEF BeforePopen, FreshBatch, AtWork, Past
<1>3. HasResult(taskOf[r])'
  BY <1>1 DEF ResultInv, HasResult, TypeOK
<1> QED
  BY <1>2, <1>3, ResultMoves

\* The worker writes the row as it is with another status, and COMPLETE only
\* when the subprocess has saved a result.
LEMMA ResultWorkerWrite ==
    ASSUME TypeOK, RunsCoupled, SerialInv, ResultInv, NEW r \in Run, OnlyMoves(r),
           LaunchWrite(r) \/ StopWrite(r) \/ TTLWrite(r) \/ EndWrite(r)
    PROVE  ResultInv'
<1> DEFINE t == taskOf[r]
<1>1. PICK s \in Status :
         /\ row' = [row EXCEPT ![t] = WithStatus(wrow[r], s)]
         /\ s = "COMPLETE" => child[r] = "ok"
  <2>1. CASE EndWrite(r)
    <3>1. Outcome(child[r]) \in Status /\ (Outcome(child[r]) = "COMPLETE" => child[r] = "ok")
      BY DEF Outcome, Status, EndStatus
    <3> QED
      BY <2>1, <3>1 DEF EndWrite, WorkerWrite
  <2> QED
    BY <2>1 DEF LaunchWrite, StopWrite, TTLWrite, WorkerWrite, Status, RunningStatus, EndStatus
<1>2. AtWork(r) /\ wpc[r] \in {"launch_write", "stop_write", "ttl_write", "end_write"}
  BY WorkerRuns DEF LaunchWrite, StopWrite, TTLWrite, EndWrite, WorkerWrite, AtWork, Past
<1>3. t \notin Realtime => Fresh(r)
  BY <1>2 DEF ResultInv, FreshBatch
<1>4. t \in Task /\ taskOf' = taskOf /\ child' = child
  BY DEF OnlyMoves, TypeOK, LaunchWrite, StopWrite, TTLWrite, EndWrite, WorkerWrite, children
<1>5. t \notin Realtime => row'[t] = WithStatus(row[t], s)
  BY <1>1, <1>2, <1>3, <1>4 DEF TypeOK, Fresh
<1>6. HasResult(t)'
  <2>1. t \notin Realtime => row'[t].result = row[t].result /\ row'[t].status = s
    BY <1>4, <1>5 DEF TypeOK, WithStatus, Row
  <2> QED
    BY <1>1, <1>3, <1>4, <2>1 DEF HasResult, Fresh
<1>7. CASE LaunchWrite(r)
  <2>1. wpc'[r] = "popen" /\ child[r] = "none"
    BY <1>7 DEF LaunchWrite, WorkerWrite, GotoW, TypeOK, ResultInv, BeforePopen
  <2>2. BeforePopen(r)' /\ FreshBatch(r)'
    BY <1>4, <2>1 DEF BeforePopen, FreshBatch, Fresh
  <2> QED
    BY <1>6, <2>2, ResultMoves
<1>8. CASE StopWrite(r) \/ TTLWrite(r) \/ EndWrite(r)
  <2>1. wpc'[r] \in Past /\ wpc'[r] \notin {"launch_read", "launch_write", "popen"}
    BY <1>8 DEF StopWrite, TTLWrite, EndWrite, WorkerWrite, GotoW, TypeOK, Past
  <2>2. BeforePopen(r)' /\ FreshBatch(r)'
    BY <2>1 DEF BeforePopen, FreshBatch, AtWork
  <2> QED
    BY <1>6, <2>2, ResultMoves
<1> QED
  BY <1>7, <1>8

\* The worker reads the row right before it writes it, and kills first.
LEMMA ResultWorkerRead ==
    ASSUME TypeOK, RunsCoupled, SerialInv, ResultInv, NEW r \in Run, OnlyMoves(r),
           LaunchRead(r) \/ EndRead(r) \/ StopKill(r) \/ TTLKill(r)
    PROVE  ResultInv'
<1>1. row' = row /\ taskOf' = taskOf
  BY DEF LaunchRead, EndRead, StopKill, TTLKill, WorkerRead, KillAndRead, db
<1>2. CASE EndContainer(r, "ended")
  BY <1>1, <1>2, ResultEnd
<1>3. CASE ~EndContainer(r, "ended")
  <2>1. /\ wpc'[r] \in {"launch_write", "end_write", "stop_write", "ttl_write"}
        /\ wrow'[r] = row[taskOf[r]]
        /\ pod' = pod
    BY <1>3 DEF LaunchRead, EndRead, StopKill, TTLKill, WorkerRead, KillAndRead, GotoW, TypeOK
  <2>2. \/ child'[r] = child[r] /\ crow'[r] = crow[r]
        \/ child'[r] = "killed"
        \/ child'[r] = child[r] /\ child[r] \notin ChildAlive
    BY <1>3 DEF LaunchRead, EndRead, StopKill, TTLKill, WorkerRead, KillAndRead, children, Live, TypeOK
  <2>3. BeforePopen(r)'
    BY <1>3 DEF LaunchRead, EndRead, StopKill, TTLKill, WorkerRead, KillAndRead, GotoW, children,
                TypeOK, BeforePopen, ResultInv
  <2>4. AtWork(r)
    BY WorkerRuns DEF LaunchRead, EndRead, StopKill, TTLKill, WorkerRead, KillAndRead, AtWork, Past
  <2>5. FreshBatch(r)'
    BY <1>1, <2>1, <2>2, <2>4 DEF FreshBatch, Fresh, ResultInv, ChildAlive
  <2>6. HasResult(taskOf[r])'
    BY <1>1 DEF ResultInv, HasResult, TypeOK
  <2> QED
    BY <2>3, <2>5, <2>6, ResultMoves
<1> QED
  BY <1>2, <1>3

\* Every step of the worker keeps it.
LEMMA ResultWorker ==
    ASSUME TypeOK, RunsCoupled, SerialInv, ResultInv, NEW r \in Run, OnlyMoves(r), Worker(r)
    PROVE  ResultInv'
<1>1. CASE LaunchRead(r) \/ EndRead(r) \/ StopKill(r) \/ TTLKill(r)
  BY <1>1, ResultWorkerRead
<1>2. CASE LaunchWrite(r) \/ StopWrite(r) \/ TTLWrite(r) \/ EndWrite(r)
  BY <1>2, ResultWorkerWrite
<1>3. CASE WorkerExit(r)
  BY <1>3, ResultEnd DEF WorkerExit, db
<1>4. CASE Popen(r)
  <2>1. child'[r] = "load"
    BY <1>4 DEF Popen, TypeOK
  <2> QED
    BY <1>4, <2>1, ResultGoto DEF Popen, db, Past
<1>5. CASE Subscribe(r) \/ CheckStop(r) \/ Poll(r)
  BY <1>5, ResultGoto DEF Subscribe, CheckStop, Poll, LeaveLoop, StayInLoop, db, children, Past
<1>6. CASE TTLRecord(r) \/ WorkerRecord(r)
  BY <1>6, ResultGoto DEF TTLRecord, WorkerRecord, CloseRecord, children, Past
<1>7. CASE StopService(r) \/ TTLService(r) \/ EndService(r)
  BY <1>7, ResultGoto DEF StopService, TTLService, EndService, DeleteService, db, children, Past
<1> QED
  BY <1>1, <1>2, <1>3, <1>4, <1>5, <1>6, <1>7 DEF Worker

\* While the subprocess lives the worker holds no copy, so what the subprocess
\* writes makes none stale.
LEMMA LiveWorkerHoldsNothing ==
    ASSUME TypeOK, RunsCoupled, ResultInv, NEW r \in Run, Live(r)
    PROVE  wpc[r] \notin {"launch_read", "launch_write", "popen", "stop_write", "ttl_write",
                          "end_write"}
BY DEF RunsCoupled, Coupled, Reporting, ResultInv, BeforePopen, Live, ChildAlive

\* Every step of the subprocess keeps it.
LEMMA ResultChild ==
    ASSUME TypeOK, RunsCoupled, SerialInv, ResultInv, NEW r \in Run, OnlyMoves(r),
           Child(r) \/ ChildFails(r)
    PROVE  ResultInv'
<1>1. Live(r)
  BY DEF Child, BatchMatch, BatchSave, BatchReadRow, BatchTerminate, RealtimeLoad, RealtimeReady,
         ChildFails, Live, ChildAlive
<1>2. wpc' = wpc /\ wrow' = wrow /\ taskOf' = taskOf /\ taskOf[r] \in Task
  BY DEF Child, BatchMatch, BatchSave, BatchReadRow, BatchTerminate, RealtimeLoad, RealtimeReady,
         ChildFails, ChildRead, ChildWrite, workers, cluster, TypeOK
<1>3. BeforePopen(r)'
  BY <1>1, <1>2, LiveWorkerHoldsNothing DEF BeforePopen
<1>4. AtWork(r) /\ (taskOf[r] \notin Realtime => Fresh(r))
  BY <1>1, LiveIsAtWork DEF ResultInv, FreshBatch
<1>5. wpc'[r] \notin {"launch_write", "stop_write", "ttl_write", "end_write"}
  BY <1>1, <1>2, LiveWorkerHoldsNothing
<1>6. HasResult(taskOf[r])
  BY <1>2 DEF ResultInv
<1>7. FreshBatch(r)' /\ HasResult(taskOf[r])'
  <2>1. CASE BatchMatch(r) \/ BatchReadRow(r)
    BY <1>2, <1>4, <1>5, <1>6, <2>1 DEF BatchMatch, BatchReadRow, ChildRead, TypeOK, FreshBatch,
                                       Fresh, HasResult, db
  <2>2. CASE RealtimeLoad(r)
    <3>1. taskOf'[r] \in Realtime
      BY <1>2, <2>2 DEF RealtimeLoad
    <3> QED
      BY <3>1 DEF FreshBatch, HasResult
  <2>3. CASE RealtimeReady(r)
    <3>1. row'[taskOf[r]] = WithStatus(crow[r], "READY") /\ child'[r] = "serving"
      BY <1>2, <2>3 DEF RealtimeReady, ChildWrite, TypeOK
    <3>2. row'[taskOf[r]].status = "READY"
      BY <3>1 DEF WithStatus, TypeOK, Row
    <3> QED
      BY <1>2, <1>5, <3>1, <3>2 DEF FreshBatch, Fresh, HasResult
  <2>4. CASE BatchSave(r)
    <3>1. row'[taskOf[r]] = [crow[r] EXCEPT !.result = r] /\ child'[r] = "saved"
      BY <1>2, <2>4 DEF BatchSave, ChildWrite, TypeOK
    <3>2. row'[taskOf[r]].result = r /\ r # NoRun
      BY <3>1, ConstantAssumption DEF TypeOK, Row
    <3> QED
      BY <1>2, <1>5, <3>1, <3>2 DEF FreshBatch, Fresh, HasResult
  <2>5. CASE BatchTerminate(r)
    <3>1. row'[taskOf[r]] = WithStatus(crow[r], "TERMINATING") /\ child'[r] = "ok"
      BY <1>2, <2>5 DEF BatchTerminate, ChildWrite, TypeOK
    <3>2. CASE taskOf[r] \in Realtime
      BY <1>2, <3>2 DEF FreshBatch, HasResult
    <3>3. CASE taskOf[r] \notin Realtime
      <4>1. crow[r] = row[taskOf[r]] /\ row[taskOf[r]].result # NoRun
        BY <1>4, <2>5, <3>3 DEF Fresh, BatchTerminate
      <4>2. row'[taskOf[r]].result # NoRun
        BY <1>2, <3>1, <4>1 DEF WithStatus, TypeOK, Row
      <4> QED
        BY <1>2, <1>5, <3>1, <4>2 DEF FreshBatch, Fresh, HasResult
    <3> QED
      BY <3>2, <3>3
  <2>6. CASE ChildFails(r)
    BY <1>2, <1>5, <1>6, <2>6 DEF ChildFails, FreshBatch, Fresh, HasResult, TypeOK, db
  <2> QED
    BY <2>1, <2>2, <2>3, <2>4, <2>5, <2>6 DEF Child
<1> QED
  BY <1>3, <1>7, ResultMoves

\* So does every step of a run.
LEMMA ResultRun ==
    ASSUME TypeOK, RunsCoupled, SerialInv, ResultInv, NEW r \in Run, RunStep(r)
    PROVE  ResultInv'
<1>1. OnlyMoves(r)
  BY RunMoves DEF SerialInv
<1>2. CASE StartContainer(r)
  <2>1. child'[r] = "none" /\ wpc'[r] = "launch_read" /\ taskOf' = taskOf /\ row' = row
    BY <1>2 DEF StartContainer, RunsCoupled, Coupled, children, db, GotoW, TypeOK
  <2>2. BeforePopen(r)' /\ FreshBatch(r)' /\ HasResult(taskOf[r])'
    BY <2>1 DEF BeforePopen, FreshBatch, Fresh, HasResult, ResultInv, TypeOK
  <2> QED
    BY <1>1, <2>2, ResultMoves
<1>3. CASE TTLPasses(r)
  <2>1. UNCHANGED <<row, taskOf, pod, wpc, wrow, child, crow>>
    BY <1>3 DEF TTLPasses, db, cluster, children
  <2>2. BeforePopen(r)' /\ FreshBatch(r)' /\ HasResult(taskOf[r])'
    BY <2>1 DEF BeforePopen, FreshBatch, Fresh, AtWork, HasResult, ResultInv, TypeOK
  <2> QED
    BY <1>1, <2>2, ResultMoves
<1>4. CASE WorkerCrash(r) \/ PodOOM(r) \/ PodDeleted(r) \/ PodLost(r)
  BY <1>1, <1>4, ResultEnd DEF WorkerCrash, PodOOM, PodDeleted, PodLost, RemovePod, db
<1> QED
  BY <1>1, <1>2, <1>3, <1>4, ResultWorker, ResultChild DEF RunStep

\* StartWrite keeps the result of the run before, and finds no run at work.
LEMMA ResultStartWrite ==
    ASSUME TypeOK, SerialInv, ResultInv, NEW h \in Req, StartWrite(h)
    PROVE  ResultInv'
<1> DEFINE t == req[h].task
<1>1. t \in Task /\ Knows(req[h]) /\ req[h].pc = "start_write"
  BY RequestFields DEF SerialInv, StartWrite
<1>2. row[t].status \notin RunningStatus
  BY <1>1 DEF Knows
<1>3. row'[t].status = "PREPARING" /\ \A u \in Task \ {t} : row'[u] = row[u]
  BY <1>1, RequestFields DEF StartWrite, TypeOK, WithStatus, Row
<1>4. UNCHANGED <<taskOf, pod, wpc, wrow, child, crow>>
  BY DEF StartWrite, cluster, workers, children
<1>5. \A r \in Run : AtWork(r) => row'[taskOf[r]] = row[taskOf[r]]
  BY <1>2, <1>3 DEF SerialInv, BusyIsRunning, TypeOK
<1>6. \A r \in Run : BeforePopen(r)' /\ FreshBatch(r)'
  BY <1>4, <1>5 DEF ResultInv, BeforePopen, FreshBatch, Fresh, AtWork
<1>7. \A u \in Task : HasResult(u)'
  BY <1>3 DEF ResultInv, HasResult
<1> QED
  BY <1>6, <1>7 DEF ResultInv

\* A query writes the row of a realtime task only.
LEMMA ResultMatchWrite ==
    ASSUME TypeOK, SerialInv, ResultInv, NEW h \in Req, MatchWrite(h)
    PROVE  ResultInv'
<1>1. req[h].task \in Realtime
  BY DEF SerialInv, Knows, MatchWrite
<1>2. \A u \in Task \ Realtime : row'[u] = row[u]
  BY <1>1 DEF MatchWrite, TypeOK
<1>3. UNCHANGED <<taskOf, pod, wpc, wrow, child, crow>>
  BY DEF MatchWrite, cluster, workers, children
<1>4. \A r \in Run : BeforePopen(r)' /\ FreshBatch(r)'
  BY <1>2, <1>3 DEF ResultInv, BeforePopen, FreshBatch, Fresh, AtWork, TypeOK
<1>5. \A u \in Task : HasResult(u)'
  BY <1>2 DEF ResultInv, HasResult
<1> QED
  BY <1>4, <1>5 DEF ResultInv

\* A new pod holds no copy.
LEMMA ResultStartCreatePod ==
    ASSUME TypeOK, RunsCoupled, ResultInv, NEW h \in Req, StartCreatePod(h)
    PROVE  ResultInv'
<1>1. PICK r \in Run :
         /\ pod[r] = "none"
         /\ pod' = [pod EXCEPT ![r] = "pending"]
         /\ taskOf' = [taskOf EXCEPT ![r] = req[h].task]
  BY DEF StartCreatePod
<1>2. UNCHANGED <<row, wpc, wrow, child, crow>>
  BY DEF StartCreatePod, db, workers, children
<1>3. wpc[r] = "none" /\ child[r] = "none"
  BY <1>1 DEF RunsCoupled, Coupled
<1>4. \A s \in Run \ {r} : pod'[s] = pod[s] /\ taskOf'[s] = taskOf[s]
  BY <1>1 DEF TypeOK
<1>5. \A s \in Run : BeforePopen(s)' /\ FreshBatch(s)'
  BY <1>2, <1>3, <1>4 DEF ResultInv, BeforePopen, FreshBatch, Fresh, AtWork
<1>6. \A u \in Task : HasResult(u)'
  BY <1>2 DEF ResultInv, HasResult
<1> QED
  BY <1>5, <1>6 DEF ResultInv

\* What every other step leaves alone.
LEMMA ResultSame ==
    ASSUME ResultInv, UNCHANGED <<row, taskOf, pod, wpc, wrow, child, crow>>
    PROVE  ResultInv'
BY DEF ResultInv, HasResult, BeforePopen, FreshBatch, Fresh, AtWork

\* Every step keeps the invariant.
LEMMA ResultNext == TypeOK /\ RunsCoupled /\ NoKill /\ SerialInv /\ ResultInv /\ [Next]_vars => ResultInv'
<1> SUFFICES ASSUME TypeOK, RunsCoupled, NoKill, SerialInv, ResultInv, [Next]_vars PROVE ResultInv'
  OBVIOUS
<1>1. ASSUME NEW h \in Req, Serve(h) \/ StartK8sError(h) \/ RequestDies(h)
      PROVE  ResultInv'
  <2>1. CASE StartWrite(h) \/ StartCreatePod(h) \/ MatchWrite(h)
    BY <2>1, ResultStartWrite, ResultStartCreatePod, ResultMatchWrite
  <2>2. CASE ~(StartWrite(h) \/ StartCreatePod(h) \/ MatchWrite(h))
    BY <1>1, <2>2, ResultSame DEF Serve, StartRead, StartCheckTask, StartCreateService,
              StartAddRecord, DeletePod, DeleteRecord, DeleteDeactivate, StartUnsupported, StartK8sError,
              RequestDies, db, cluster, workers, children
  <2> QED
    BY <2>1, <2>2
<1>2. ASSUME NEW h \in Req, NEW t \in Task, Accept(h, t)
      PROVE  ResultInv'
  BY <1>2, ResultSame DEF Accept, StartValidate, MatchRead, RapidRead, DeleteList, db, cluster,
                          workers, children
<1>3. ASSUME NEW t \in Task, Stop(t)
      PROVE  ResultInv'
  BY <1>3, ResultSame DEF Stop, db, cluster, children
<1>4. ASSUME NEW r \in Run, RunStep(r)
      PROVE  ResultInv'
  BY <1>4, ResultRun
<1>5. CASE HkStep \/ HkCrash
  BY <1>5, ResultSame DEF HkStep, HkList, HkVisit, HkMissing, HkOOM, HkSkip, HkRead, HkWrite, HkDone,
                          HkCrash, NoKill, db, cluster, workers, children
<1>6. CASE UNCHANGED vars
  BY <1>6, ResultSame DEF vars, db, cluster, workers, children
<1> QED
  BY <1>1, <1>2, <1>3, <1>4, <1>5, <1>6 DEF Next, RunStep

\* What the writers of a batch task hold is the row as it is.
THEOREM ResultHolds ==
    ASSUME OneAtATime, "pod_oom" \notin Fault
    PROVE  Spec => []ResultInv
<1>1. Init => ResultInv
  BY DEF Init, ResultInv, HasResult, BeforePopen, FreshBatch, Fresh, AtWork, NewRow
<1> QED
  BY <1>1, ResultNext, TypeCorrect, CouplingHolds, SerialHolds, PTL DEF Spec

\* The result of a COMPLETE batch task is there, although worker, subprocess
\* and requests all write the whole row back.
THEOREM CompleteHasResultAlways ==
    ASSUME OneAtATime, "pod_oom" \notin Fault
    PROVE  Spec => []CompleteHasResult
<1>1. ResultInv => CompleteHasResult
  BY DEF ResultInv, HasResult, CompleteHasResult
<1> QED
  BY <1>1, ResultHolds, PTL

-----------------------------------------------------------------------------
(* The status follows the run: NmTask implements TaskStatus.  The rapid API *)
(* is left out: it accepts a query in any status, so its late write may put *)
(* back PREPARING or LAUNCHING, which TaskStatus does not allow.            *)

\* How far worker and subprocess of r are shows in the status of its task, and
\* only a realtime task serves.
Stage(r) ==
    LET status == row[taskOf[r]].status
    IN  /\ wpc[r] \in {"none", "launch_read", "launch_write"} => status = "PREPARING"
        /\ wpc[r] = "popen" => status = "LAUNCHING"
        /\ child[r] \in {"load", "save", "saved", "term", "ready"} => status = "LAUNCHING"
        /\ child[r] = "serving" => status = "READY"
        /\ child[r] = "ok" => status = "TERMINATING"
        /\ child[r] \in {"failed", "oom", "killed"} => status \in {"LAUNCHING", "READY", "TERMINATING"}
        /\ child[r] \in {"save", "saved", "term", "ok"} => taskOf[r] \notin Realtime
        /\ child[r] \in {"ready", "serving"} => taskOf[r] \in Realtime
        /\ child[r] = "none" => wpc[r] \in {"none", "launch_read", "launch_write", "popen"}

StageAtWork(r) == AtWork(r) => Stage(r)

\* A query was accepted in READY, and its task has at most ended since.
Answers(q) == q.pc = "match_write" => /\ q.copy.status = "READY"
                                      /\ row[q.task].status \in EndStatus \cup {"READY"}

StageInv == (\A r \in Run : StageAtWork(r)) /\ (\A h \in Req : Answers(req[h]))

\* A run takes the status of its task from one stage to the next, or ends it.
Advance(t, from, to) ==
    \/ to = from
    \/ from = "PREPARING" /\ to = "LAUNCHING"
    \/ from = "LAUNCHING" /\ to = IF t \in Realtime THEN "READY" ELSE "TERMINATING"
    \/ from = "TERMINATING" /\ to = "COMPLETE"
    \/ from \in {"LAUNCHING", "READY", "TERMINATING"} /\ to \in EndStatus \ {"COMPLETE"}

Advances(r) == Advance(taskOf[r], row[taskOf[r]].status, row'[taskOf[r]].status)

\* The stage of the other runs is not disturbed, and a query that waits finds
\* its task served or ended.
LEMMA StageMoves ==
    ASSUME TypeOK, SerialInv, StageInv, NEW r \in Run, OnlyMoves(r),
           StageAtWork(r)', Advances(r)
    PROVE  StageInv'
<1>1. taskOf' = taskOf /\ req' = req
  BY DEF OnlyMoves
<1>2. ASSUME NEW s \in Run \ {r}
      PROVE  StageAtWork(s)'
  <2>1. pod'[s] = pod[s] /\ wpc'[s] = wpc[s] /\ child'[s] = child[s]
    BY DEF OnlyMoves
  <2>2. AtWork(s) => row'[taskOf[s]] = row[taskOf[s]]
    BY RunTakesNoRoom
  <2>3. StageAtWork(s)
    BY DEF StageInv
  <2> QED
    BY <1>1, <2>1, <2>2, <2>3 DEF StageAtWork, Stage, AtWork
<1>3. ASSUME NEW h \in Req
      PROVE  Answers(req[h])'
  <2>1. req[h].task \in Task /\ Answers(req[h])
    BY RequestFields DEF StageInv
  <2>2. \/ row'[req[h].task] = row[req[h].task]
        \/ req[h].task = taskOf[r]
    BY <2>1 DEF OnlyMoves
  <2>3. row[req[h].task].status \in EndStatus => row'[req[h].task] = row[req[h].task]
    BY <2>1, RunTakesNoRoom DEF EndStatus, RunningStatus
  <2>4. req[h].task = taskOf[r] /\ row[taskOf[r]].status = "READY"
           => row'[taskOf[r]].status \in EndStatus \cup {"READY"}
    BY DEF Advances, Advance
  <2> QED
    BY <1>1, <2>1, <2>2, <2>3, <2>4 DEF Answers
<1> QED
  BY <1>2, <1>3 DEF StageInv

\* A row that is not written does not move its status.
LEMMA NoAdvance ==
    ASSUME NEW r \in Run, row' = row
    PROVE  Advances(r)
BY DEF Advances, Advance

\* A worker that has started a subprocess and moves on alone stays in its stage.
LEMMA StageGoto ==
    ASSUME TypeOK, RunsCoupled, SerialInv, StageInv, NEW r \in Run, OnlyMoves(r),
           NEW w, GotoW(r, w), UNCHANGED <<row, child, pod>>,
           wpc[r] \notin {"none", "launch_read", "launch_write", "popen", "exit"},
           w \notin {"none", "launch_read", "launch_write", "popen"},
           wpc[r] \in Past => w \in Past
    PROVE  StageInv' /\ Advances(r)
<1>1. wpc'[r] = w /\ taskOf' = taskOf
  BY DEF GotoW, TypeOK, OnlyMoves
<1>2. StageAtWork(r)'
  BY <1>1 DEF StageAtWork, Stage, StageInv, AtWork
<1> QED
  BY <1>2, StageMoves, NoAdvance

\* The end of a container ends its stage.
LEMMA StageEnd ==
    ASSUME TypeOK, SerialInv, StageInv, NEW r \in Run, OnlyMoves(r), NEW phase,
           EndContainer(r, phase), row' = row
    PROVE  StageInv' /\ Advances(r)
<1>1. wpc'[r] = "exit"
  BY DEF EndContainer, TypeOK
<1>2. StageAtWork(r)'
  BY <1>1 DEF StageAtWork, AtWork, Past
<1> QED
  BY <1>2, StageMoves, NoAdvance

\* The worker writes LAUNCHING to a prepared task, and reports an end only of
\* one that was launched: COMPLETE when its subprocess has set TERMINATING.
LEMMA StageWorkerWrite ==
    ASSUME TypeOK, RunsCoupled, SerialInv, ResultInv, StageInv, NEW r \in Run, OnlyMoves(r),
           LaunchWrite(r) \/ StopWrite(r) \/ TTLWrite(r) \/ EndWrite(r)
    PROVE  StageInv' /\ Advances(r)
<1> DEFINE t == taskOf[r]
<1>1. t \in Task /\ taskOf' = taskOf /\ child' = child /\ child[r] \in ChildPc
  BY DEF OnlyMoves, TypeOK, LaunchWrite, StopWrite, TTLWrite, EndWrite, WorkerWrite, children
<1>2. AtWork(r)
  BY WorkerRuns DEF LaunchWrite, StopWrite, TTLWrite, EndWrite, WorkerWrite, AtWork, Past
<1>3. Stage(r)
  BY <1>2 DEF StageInv, StageAtWork
<1>4. ASSUME NEW s \in Status, row' = [row EXCEPT ![t] = WithStatus(wrow[r], s)]
      PROVE  row'[t].status = s
  BY <1>1, <1>4 DEF TypeOK, WithStatus, Row
<1>5. CASE LaunchWrite(r)
  <2>1. row'[t].status = "LAUNCHING"
    BY <1>4, <1>5 DEF LaunchWrite, WorkerWrite, Status, RunningStatus
  <2>2. row[t].status = "PREPARING" /\ child[r] = "none"
    BY <1>3, <1>5 DEF Stage, LaunchWrite, WorkerWrite, ResultInv, BeforePopen
  <2>3. wpc'[r] = "popen"
    BY <1>5 DEF LaunchWrite, WorkerWrite, GotoW, TypeOK
  <2>4. StageAtWork(r)' /\ Advances(r)
    BY <1>1, <2>1, <2>2, <2>3 DEF StageAtWork, Stage, Advances, Advance
  <2> QED
    BY <2>4, StageMoves
<1>6. CASE StopWrite(r) \/ TTLWrite(r) \/ EndWrite(r)
  <2>1. wpc[r] \in {"stop_write", "ttl_write", "end_write"} /\ wpc'[r] \in Past
    BY <1>6 DEF StopWrite, TTLWrite, EndWrite, WorkerWrite, GotoW, TypeOK, Past
  <2>2. child[r] \notin ChildAlive /\ child[r] # "none"
    BY <1>3, <2>1 DEF RunsCoupled, Coupled, Reporting, Stage
  <2>3. child[r] \in {"ok", "failed", "oom", "killed"}
    BY <1>1, <2>2 DEF ChildPc
  <2>4. /\ row[t].status \in {"LAUNCHING", "READY", "TERMINATING"}
        /\ child[r] = "ok" => row[t].status = "TERMINATING"
    BY <1>3, <2>3 DEF Stage
  <2>5. \/ row'[t].status \in EndStatus \ {"COMPLETE"}
        \/ row'[t].status = "COMPLETE" /\ child[r] = "ok"
    <3>1. CASE StopWrite(r)
      BY <1>4, <3>1 DEF StopWrite, WorkerWrite, Status, EndStatus
    <3>2. CASE TTLWrite(r)
      BY <1>4, <3>2 DEF TTLWrite, WorkerWrite, Status, EndStatus
    <3>3. CASE EndWrite(r)
      <4>1. /\ Outcome(child[r]) \in EndStatus
            /\ Outcome(child[r]) = "COMPLETE" => child[r] = "ok"
        BY DEF Outcome, EndStatus
      <4>2. row'[t].status = Outcome(child[r])
        BY <1>4, <3>3, <4>1 DEF EndWrite, WorkerWrite, Status
      <4> QED
        BY <4>1, <4>2
    <3> QED
      BY <1>6, <3>1, <3>2, <3>3
  <2>6. StageAtWork(r)' /\ Advances(r)
    BY <2>1, <2>4, <2>5 DEF StageAtWork, AtWork, Advances, Advance
  <2> QED
    BY <2>6, StageMoves
<1> QED
  BY <1>5, <1>6

\* Every step of the worker keeps the stages and advances the status.
LEMMA StageWorker ==
    ASSUME TypeOK, RunsCoupled, SerialInv, ResultInv, StageInv, NEW r \in Run, OnlyMoves(r), Worker(r)
    PROVE  StageInv' /\ Advances(r)
<1>1. CASE LaunchWrite(r) \/ StopWrite(r) \/ TTLWrite(r) \/ EndWrite(r)
  BY <1>1, StageWorkerWrite
<1>2. CASE LaunchRead(r) \/ EndRead(r)
  <2>1. row' = row /\ taskOf' = taskOf
    BY <1>2 DEF LaunchRead, EndRead, WorkerRead, db
  <2>2. CASE EndContainer(r, "ended")
    BY <2>1, <2>2, StageEnd
  <2>3. CASE LaunchRead(r) /\ ~EndContainer(r, "ended")
    <3>1. wpc[r] = "launch_read" /\ wpc'[r] = "launch_write" /\ child' = child
      BY <2>3 DEF LaunchRead, WorkerRead, GotoW, TypeOK, children
    <3>2. AtWork(r)
      BY <3>1, WorkerRuns DEF AtWork, Past
    <3>3. StageAtWork(r)'
      BY <2>1, <3>1, <3>2 DEF StageAtWork, Stage, StageInv
    <3> QED
      BY <2>1, <3>3, StageMoves, NoAdvance
  <2>4. CASE EndRead(r) /\ ~EndContainer(r, "ended")
    BY <2>1, <2>4, StageGoto DEF EndRead, WorkerRead, children, Past
  <2> QED
    BY <1>2, <2>2, <2>3, <2>4
<1>3. CASE StopKill(r) \/ TTLKill(r)
  <2>1. row' = row /\ taskOf' = taskOf
    BY <1>3 DEF StopKill, TTLKill, KillAndRead, db
  <2>2. CASE EndContainer(r, "ended")
    BY <2>1, <2>2, StageEnd
  <2>3. CASE ~EndContainer(r, "ended")
    <3>1. /\ wpc[r] \in {"stop_kill", "ttl_kill"}
          /\ wpc'[r] \in {"stop_write", "ttl_write"}
          /\ child'[r] = IF Live(r) THEN "killed" ELSE child[r]
      BY <1>3, <2>3 DEF StopKill, TTLKill, KillAndRead, GotoW, TypeOK
    <3>2. AtWork(r)
      BY <3>1, WorkerRuns DEF AtWork, Past
    <3>3. Stage(r)
      BY <3>2 DEF StageInv, StageAtWork
    <3>4. StageAtWork(r)'
      BY <2>1, <3>1, <3>3 DEF StageAtWork, Stage, Live, ChildAlive
    <3> QED
      BY <2>1, <3>4, StageMoves, NoAdvance
  <2> QED
    BY <2>2, <2>3
<1>4. CASE Popen(r)
  <2>1. /\ wpc[r] = "popen" /\ wpc'[r] = "subscribe" /\ child'[r] = "load"
        /\ row' = row /\ taskOf' = taskOf
    BY <1>4 DEF Popen, GotoW, TypeOK, db, cluster
  <2>2. AtWork(r)
    BY <2>1, WorkerRuns DEF AtWork, Past
  <2>3. StageAtWork(r)'
    BY <2>1, <2>2 DEF StageAtWork, Stage, StageInv
  <2> QED
    BY <2>1, <2>3, StageMoves, NoAdvance
<1>5. CASE Subscribe(r) \/ CheckStop(r) \/ Poll(r)
  BY <1>5, StageGoto DEF Subscribe, CheckStop, Poll, LeaveLoop, StayInLoop, db, cluster, children, Past
<1>6. CASE TTLRecord(r) \/ WorkerRecord(r)
  BY <1>6, StageGoto DEF TTLRecord, WorkerRecord, CloseRecord, cluster, children, Past
<1>7. CASE StopService(r) \/ TTLService(r) \/ EndService(r)
  BY <1>7, StageGoto DEF StopService, TTLService, EndService, DeleteService, db, children, Past
<1>8. CASE WorkerExit(r)
  BY <1>8, StageEnd DEF WorkerExit, db
<1> QED
  BY <1>1, <1>2, <1>3, <1>4, <1>5, <1>6, <1>7, <1>8 DEF Worker

\* Every step of the subprocess keeps the stages and advances the status: what
\* it saves with the result is the status its task has.
LEMMA StageChild ==
    ASSUME TypeOK, RunsCoupled, SerialInv, ResultInv, StageInv, NEW r \in Run, OnlyMoves(r),
           Child(r) \/ ChildFails(r)
    PROVE  StageInv' /\ Advances(r)
<1>1. Live(r)
  BY DEF Child, BatchMatch, BatchSave, BatchReadRow, BatchTerminate, RealtimeLoad, RealtimeReady,
         ChildFails, Live, ChildAlive
<1>2. /\ wpc' = wpc /\ taskOf' = taskOf
      /\ wpc[r] \notin {"launch_read", "launch_write", "popen"}
  BY <1>1, LiveWorkerHoldsNothing
     DEF Child, BatchMatch, BatchSave, BatchReadRow, BatchTerminate, RealtimeLoad, RealtimeReady,
         ChildFails, ChildRead, ChildWrite, workers, cluster
<1>3. AtWork(r) /\ Stage(r)
  BY <1>1, LiveIsAtWork DEF StageInv, StageAtWork
<1>4. wpc[r] # "none"
  BY <1>1, <1>3 DEF Stage, Live, ChildAlive
<1>5. CASE BatchMatch(r) \/ BatchReadRow(r) \/ RealtimeLoad(r) \/ ChildFails(r)
  <2>1. row' = row
    BY <1>5 DEF BatchMatch, BatchReadRow, RealtimeLoad, ChildFails, ChildRead, db
  <2>2. StageAtWork(r)'
    <3>1. CASE BatchMatch(r) \/ BatchReadRow(r) \/ RealtimeLoad(r)
      BY <1>2, <1>3, <1>4, <2>1, <3>1 DEF BatchMatch, BatchReadRow, RealtimeLoad, ChildRead, TypeOK,
                                         StageAtWork, Stage
    <3>2. CASE ChildFails(r)
      BY <1>2, <1>3, <1>4, <2>1, <3>2 DEF ChildFails, TypeOK, StageAtWork, Stage, Live, ChildAlive
    <3> QED
      BY <1>5, <3>1, <3>2
  <2> QED
    BY <2>1, <2>2, StageMoves, NoAdvance
<1>6. CASE BatchSave(r)
  <2>1. crow[r] = row[taskOf[r]] /\ taskOf[r] \notin Realtime /\ row[taskOf[r]].status = "LAUNCHING"
    BY <1>3, <1>6 DEF BatchSave, Stage, ResultInv, FreshBatch, Fresh
  <2>2. row'[taskOf[r]] = [crow[r] EXCEPT !.result = r] /\ child'[r] = "saved"
    BY <1>6 DEF BatchSave, ChildWrite, TypeOK
  <2>3. row'[taskOf[r]].status = row[taskOf[r]].status
    BY <2>1, <2>2 DEF TypeOK, Row
  <2>4. StageAtWork(r)' /\ Advances(r)
    BY <1>2, <1>3, <1>4, <2>1, <2>2, <2>3 DEF StageAtWork, Stage, Advances, Advance
  <2> QED
    BY <2>4, StageMoves
<1>7. CASE BatchTerminate(r) \/ RealtimeReady(r)
  <2>1. row[taskOf[r]].status = "LAUNCHING"
    BY <1>3, <1>7 DEF BatchTerminate, RealtimeReady, Stage
  <2>2. \/ /\ row'[taskOf[r]].status = "TERMINATING" /\ child'[r] = "ok"
           /\ taskOf[r] \notin Realtime
        \/ /\ row'[taskOf[r]].status = "READY" /\ child'[r] = "serving"
           /\ taskOf[r] \in Realtime
    <3>1. CASE BatchTerminate(r)
      BY <1>3, <3>1 DEF BatchTerminate, ChildWrite, TypeOK, WithStatus, Row, Stage
    <3>2. CASE RealtimeReady(r)
      BY <1>3, <3>2 DEF RealtimeReady, ChildWrite, TypeOK, WithStatus, Row, Stage
    <3> QED
      BY <1>7, <3>1, <3>2
  <2>3. StageAtWork(r)' /\ Advances(r)
    BY <1>2, <1>4, <2>1, <2>2 DEF StageAtWork, Stage, Advances, Advance
  <2> QED
    BY <2>3, StageMoves
<1> QED
  BY <1>5, <1>6, <1>7 DEF Child

\* So does every step of a run.
LEMMA StageRun ==
    ASSUME TypeOK, RunsCoupled, SerialInv, ResultInv, StageInv, NEW r \in Run, RunStep(r)
    PROVE  StageInv' /\ Advances(r)
<1>1. OnlyMoves(r)
  BY RunMoves DEF SerialInv
<1>2. CASE StartContainer(r)
  <2>1. /\ pod[r] = "pending" /\ wpc[r] = "none" /\ wpc'[r] = "launch_read"
        /\ child'[r] = "none" /\ taskOf' = taskOf /\ row' = row
    BY <1>2 DEF StartContainer, RunsCoupled, Coupled, children, db, GotoW, TypeOK
  <2>2. row[taskOf[r]].status = "PREPARING"
    BY <2>1 DEF StageInv, StageAtWork, Stage, AtWork, Past
  <2>3. StageAtWork(r)'
    BY <2>1, <2>2 DEF StageAtWork, Stage
  <2> QED
    BY <1>1, <2>1, <2>3, StageMoves, NoAdvance
<1>3. CASE TTLPasses(r)
  <2>1. UNCHANGED <<row, taskOf, pod, wpc, child>>
    BY <1>3 DEF TTLPasses, db, cluster, children
  <2>2. StageAtWork(r)'
    BY <2>1 DEF StageAtWork, Stage, AtWork, StageInv
  <2> QED
    BY <1>1, <2>1, <2>2, StageMoves, NoAdvance
<1>4. CASE WorkerCrash(r) \/ PodOOM(r) \/ PodDeleted(r) \/ PodLost(r)
  BY <1>1, <1>4, StageEnd DEF WorkerCrash, PodOOM, PodDeleted, PodLost, RemovePod, db
<1> QED
  BY <1>1, <1>2, <1>3, <1>4, StageWorker, StageChild DEF RunStep

-----------------------------------------------------------------------------
(* Every step of NmTask is a step of TaskStatus, or changes no status.      *)

Life == [Lifecycle!Next]_(Lifecycle!vars)

\* The counts of the two specifications are the same operator.
LEMMA SameCount ==
    ASSUME NEW S
    PROVE  Lifecycle!Cardinality(S) = Cardinality(S)
BY Zenon DEF Lifecycle!Cardinality, Cardinality

\* A step that leaves rows and tasks alone changes no status.
LEMMA LifeSame ==
    ASSUME UNCHANGED <<row, active>>
    PROVE  Life
BY DEF Life, Lifecycle!vars

\* One status changes.
LEMMA LifeBecomes ==
    ASSUME NEW t \in Task, NEW from, NEW to, row[t].status \in from, row'[t].status = to,
           \A u \in Task \ {t} : row'[u] = row[u], active' = active
    PROVE  Lifecycle!Become(t, from, to)
<1>1. [u \in Task |-> row'[u].status] = [[u \in Task |-> row[u].status] EXCEPT ![t] = to]
  OBVIOUS
<1> QED
  BY <1>1 DEF Lifecycle!Become

\* The advance of one task is a step of the life cycle.
LEMMA AdvanceIsLife ==
    ASSUME NEW t \in Task, NEW from, NEW to, from = row[t].status, to = row'[t].status,
           Advance(t, from, to), \A u \in Task \ {t} : row'[u] = row[u], active' = active
    PROVE  Life
<1>1. ASSUME NEW S, from \in S
      PROVE  Lifecycle!Become(t, S, to)
  BY <1>1, LifeBecomes
<1>2. Lifecycle!EndStatus = EndStatus
  BY DEF Lifecycle!EndStatus, EndStatus
<1>3. CASE to = from
  <2>1. [u \in Task |-> row'[u].status] = [u \in Task |-> row[u].status]
    BY <1>3
  <2> QED
    BY <2>1 DEF Life, Lifecycle!vars
<1>4. CASE from = "PREPARING" /\ to = "LAUNCHING"
  <2>1. Lifecycle!Launch(t)
    BY <1>1, <1>4 DEF Lifecycle!Launch
  <2> QED
    BY <2>1 DEF Life, Lifecycle!Next
<1>5. CASE from = "LAUNCHING" /\ to = IF t \in Realtime THEN "READY" ELSE "TERMINATING"
  <2>1. Lifecycle!Work(t)
    BY <1>1, <1>5 DEF Lifecycle!Work
  <2> QED
    BY <2>1 DEF Life, Lifecycle!Next
<1>6. CASE from = "TERMINATING" /\ to = "COMPLETE"
  <2>1. Lifecycle!End(t)
    BY <1>1, <1>6 DEF Lifecycle!End
  <2> QED
    BY <2>1 DEF Life, Lifecycle!Next
<1>7. CASE from \in {"LAUNCHING", "READY", "TERMINATING"} /\ to \in EndStatus \ {"COMPLETE"}
  <2>1. Lifecycle!End(t)
    BY <1>1, <1>2, <1>7 DEF Lifecycle!End
  <2> QED
    BY <2>1 DEF Life, Lifecycle!Next
<1> QED
  BY <1>3, <1>4, <1>5, <1>6, <1>7 DEF Advance

\* Preparing a task that does not run is a step of the life cycle when the user
\* has room for it.
LEMMA PrepareIsLife ==
    ASSUME TypeOK, NEW t \in Task, active[t], row[t].status \notin RunningStatus, Room(t),
           Fits(RunningTasks), row'[t].status = "PREPARING",
           \A u \in Task \ {t} : row'[u] = row[u], active' = active
    PROVE  Life
<1>1. Lifecycle!Running = RunningTasks
  BY DEF Lifecycle!Running, Lifecycle!RunningStatus, RunningTasks, RunningStatus
<1>2. Cardinality(RunningTasks) < MaxRunningTaskNr
  <2>1. IsFiniteSet(RunningTasks) /\ t \notin RunningTasks
    BY DEF Fits, RunningTasks
  <2>2. Cardinality(RunningTasks \cup {t}) = Cardinality(RunningTasks) + 1
    BY <2>1, FS_AddElement
  <2>3. Cardinality(RunningTasks) \in Nat
    BY <2>1, FS_CardinalityType
  <2> QED
    BY <2>2, <2>3, ConstantAssumption DEF Room, Fits
<1>3. Lifecycle!Cardinality(Lifecycle!Running) < MaxRunningTaskNr
  BY <1>1, <1>2, SameCount
<1>4. row[t].status \in Lifecycle!EndStatus \cup {"INIT"}
  BY DEF TypeOK, Row, Status, Lifecycle!EndStatus, EndStatus
<1>5. Lifecycle!Become(t, Lifecycle!EndStatus \cup {"INIT"}, "PREPARING")
  BY <1>4, LifeBecomes
<1>6. Lifecycle!Prepare(t)
  BY <1>3, <1>5 DEF Lifecycle!Prepare
<1> QED
  BY <1>6 DEF Life, Lifecycle!Next

\* Putting READY back after the end of a realtime task is one, too.
LEMMA LateQueryIsLife ==
    ASSUME NEW t \in Task, t \in Realtime, row[t].status \in EndStatus \cup {"READY"},
           row'[t].status = "READY", \A u \in Task \ {t} : row'[u] = row[u], active' = active
    PROVE  Life
<1>1. CASE row[t].status \in EndStatus
  <2>1. Lifecycle!EndStatus = EndStatus
    BY DEF Lifecycle!EndStatus, EndStatus
  <2>2. Lifecycle!LateQuery(t)
    BY <1>1, <2>1, LifeBecomes DEF Lifecycle!LateQuery
  <2> QED
    BY <2>2 DEF Life, Lifecycle!Next
<1>2. CASE row[t].status = "READY"
  BY <1>2, AdvanceIsLife DEF Advance
<1> QED
  BY <1>1, <1>2

\* StartWrite prepares a task that does not run, when the user has room for it.
LEMMA StageStartWrite ==
    ASSUME TypeOK, OneAtATime, SerialInv, StageInv, NEW h \in Req, StartWrite(h)
    PROVE  StageInv' /\ Life
<1> DEFINE t == req[h].task
<1>1. t \in Task /\ Knows(req[h]) /\ req[h].pc = "start_write"
  BY RequestFields DEF SerialInv, StartWrite
<1>2. active[t] /\ row[t].status \notin RunningStatus /\ Room(t)
  BY <1>1 DEF Knows
<1>3. row'[t].status = "PREPARING" /\ \A u \in Task \ {t} : row'[u] = row[u]
  BY <1>1, RequestFields DEF StartWrite, TypeOK, WithStatus, Row
<1>4. UNCHANGED <<active, taskOf, pod, wpc, child>>
  BY DEF StartWrite, cluster, workers, children
<1>5. StageInv'
  <2>1. \A r \in Run : AtWork(r) => row'[taskOf[r]] = row[taskOf[r]]
    BY <1>2, <1>3 DEF SerialInv, BusyIsRunning, TypeOK
  <2>2. \A r \in Run : StageAtWork(r)'
    BY <1>4, <2>1 DEF StageInv, StageAtWork, Stage, AtWork
  <2>3. req'[h].pc = "pod_check"
    BY RequestFields DEF StartWrite, Goto, TypeOK, Request
  <2>4. \A g \in Req : Answers(req[g])'
    BY <2>3 DEF OneAtATime, Answers
  <2> QED
    BY <2>2, <2>4 DEF StageInv
<1>6. Life
  BY <1>1, <1>2, <1>3, <1>4, PrepareIsLife DEF SerialInv
<1> QED
  BY <1>5, <1>6

\* A late query puts READY back after the end, or changes no status.
LEMMA StageMatchWrite ==
    ASSUME TypeOK, OneAtATime, SerialInv, StageInv, NEW h \in Req, MatchWrite(h)
    PROVE  StageInv' /\ Life
<1> DEFINE t == req[h].task
<1>1. /\ t \in Task /\ t \in Realtime
      /\ req[h].copy.status = "READY"
      /\ row[t].status \in EndStatus \cup {"READY"}
  BY RequestFields DEF SerialInv, Knows, StageInv, Answers, MatchWrite
<1>2. row'[t].status = "READY" /\ \A u \in Task \ {t} : row'[u] = row[u]
  BY <1>1 DEF MatchWrite, TypeOK
<1>3. UNCHANGED <<active, taskOf, pod, wpc, child>>
  BY DEF MatchWrite, cluster, workers, children
<1>4. StageInv'
  <2>1. \A r \in Run : AtWork(r) => row'[taskOf[r]].status = row[taskOf[r]].status
    BY <1>1, <1>2 DEF SerialInv, BusyIsRunning, RunningStatus, EndStatus, TypeOK
  <2>2. \A r \in Run : StageAtWork(r)'
    BY <1>3, <2>1 DEF StageInv, StageAtWork, Stage, AtWork
  <2>3. req'[h].pc = "idle"
    BY DEF MatchWrite, Return, Idle, TypeOK
  <2>4. \A g \in Req : Answers(req[g])'
    BY <2>3 DEF OneAtATime, Answers
  <2> QED
    BY <2>2, <2>4 DEF StageInv
<1>5. Life
  BY <1>1, <1>2, <1>3, LateQueryIsLife
<1> QED
  BY <1>4, <1>5

\* A new pod is in the first stage of the task it was created for.
LEMMA StageStartCreatePod ==
    ASSUME TypeOK, RunsCoupled, OneAtATime, SerialInv, StageInv, NEW h \in Req, StartCreatePod(h)
    PROVE  StageInv' /\ Life
<1>1. row[req[h].task].status = "PREPARING"
  BY DEF SerialInv, Knows, StartCreatePod
<1>2. PICK r \in Run :
         /\ pod[r] = "none"
         /\ pod' = [pod EXCEPT ![r] = "pending"]
         /\ taskOf' = [taskOf EXCEPT ![r] = req[h].task]
         /\ req' = [req EXCEPT ![h] = [req[h] EXCEPT !.pc = "svc_create", !.run = r]]
  BY DEF StartCreatePod
<1>3. UNCHANGED <<row, active, wpc, child>>
  BY DEF StartCreatePod, db, workers, children
<1>4. wpc[r] = "none" /\ child[r] = "none"
  BY <1>2 DEF RunsCoupled, Coupled
<1>5. taskOf'[r] = req[h].task
  BY <1>2 DEF TypeOK
<1>6. StageAtWork(r)'
  BY <1>1, <1>3, <1>4, <1>5 DEF StageAtWork, Stage
<1>7. ASSUME NEW s \in Run \ {r}
      PROVE  StageAtWork(s)'
  <2>1. pod'[s] = pod[s] /\ taskOf'[s] = taskOf[s]
    BY <1>2 DEF TypeOK
  <2> QED
    BY <1>3, <2>1 DEF StageInv, StageAtWork, Stage, AtWork
<1>8. req'[h].pc = "svc_create"
  BY <1>2, RequestFields DEF TypeOK, Request
<1>9. \A g \in Req : Answers(req[g])'
  BY <1>8 DEF OneAtATime, Answers
<1> QED
  BY <1>3, <1>6, <1>7, <1>9, LifeSame DEF StageInv

\* A task that is deleted keeps its status.
LEMMA StageDeactivate ==
    ASSUME TypeOK, OneAtATime, StageInv, NEW h \in Req, DeleteDeactivate(h)
    PROVE  StageInv' /\ Life
<1>1. UNCHANGED <<row, taskOf, pod, wpc, child>>
  BY DEF DeleteDeactivate, cluster, workers, children
<1>2. PICK t \in Task : active' = [active EXCEPT ![t] = FALSE]
  BY RequestFields DEF DeleteDeactivate
<1>3. Lifecycle!Delete(t)
  BY <1>1, <1>2 DEF Lifecycle!Delete
<1>4. req'[h].pc = "idle"
  BY DEF DeleteDeactivate, Return, Idle, TypeOK
<1>5. \A g \in Req : Answers(req[g])'
  BY <1>4 DEF OneAtATime, Answers
<1>6. \A r \in Run : StageAtWork(r)'
  BY <1>1 DEF StageInv, StageAtWork, Stage, AtWork
<1> QED
  BY <1>3, <1>5, <1>6 DEF StageInv, Life, Lifecycle!Next

\* The other steps of a request change no row and no pod.
LEMMA StageStay ==
    ASSUME OneAtATime, StageInv, NEW h \in Req, Answers(req[h])',
           UNCHANGED <<row, active, taskOf, pod, wpc, child>>
    PROVE  StageInv' /\ Life
<1>1. \A g \in Req : Answers(req[g])'
  BY DEF OneAtATime
<1>2. \A r \in Run : StageAtWork(r)'
  BY DEF StageInv, StageAtWork, Stage, AtWork
<1> QED
  BY <1>1, <1>2, LifeSame DEF StageInv

\* They leave no query that waits.
LEMMA StageOther ==
    ASSUME TypeOK, OneAtATime, StageInv, NEW h \in Req,
           \/ StartRead(h) \/ StartCheckTask(h) \/ StartCreateService(h) \/ StartAddRecord(h)
           \/ DeletePod(h) \/ DeleteRecord(h) \/ StartUnsupported(h) \/ StartK8sError(h)
           \/ RequestDies(h)
    PROVE  StageInv' /\ Life
<1>1. UNCHANGED <<row, active, taskOf, pod, wpc, child>>
  BY DEF StartRead, StartCheckTask, StartCreateService, StartAddRecord, DeletePod, DeleteRecord,
         StartUnsupported, StartK8sError, RequestDies, db, cluster, workers, children
<1>2. req'[h].pc # "match_write"
  <2>1. CASE Return(h)
    BY <2>1 DEF Return, Idle, TypeOK
  <2>2. ASSUME NEW pc \in {"pod_create", "record", "del_pod"}, Goto(h, pc)
        PROVE  req'[h].pc = pc
    BY <2>2, RequestFields DEF Goto, TypeOK, Request
  <2>3. CASE req' = [req EXCEPT ![h] = [req[h] EXCEPT !.pc = "start_write",
                                                     !.copy = row[req[h].task]]]
    <3>1. req'[h] = [req[h] EXCEPT !.pc = "start_write", !.copy = row[req[h].task]]
      BY <2>3 DEF TypeOK
    <3> QED
      BY <3>1, RequestFields DEF Request
  <2>4. CASE DeletePod(h)
    <3>1. PICK r \in req[h].todo : req' = [req EXCEPT ![h] = PodHandled(req[h], r)]
      BY <2>4 DEF DeletePod
    <3>2. req'[h] = PodHandled(req[h], r)
      BY <3>1 DEF TypeOK
    <3>3. req'[h].pc = IF r \in req[h].seen THEN "del_record" ELSE "del_pod"
      BY <3>2, RequestFields DEF PodHandled, Request
    <3> QED
      BY <3>3
  <2> QED
    BY <2>1, <2>2, <2>3, <2>4 DEF StartRead, StartCheckTask, StartCreateService, StartAddRecord,
                                  DeleteRecord, StartUnsupported, StartK8sError, RequestDies
<1>3. Answers(req[h])'
  BY <1>2 DEF Answers
<1> QED
  BY <1>1, <1>3, StageStay

\* A query is accepted for a task in READY.
LEMMA StageAccept ==
    ASSUME "rapid" \notin Method, TypeOK, OneAtATime, StageInv, NEW h \in Req, NEW t \in Task,
           Accept(h, t)
    PROVE  StageInv' /\ Life
<1>1. UNCHANGED <<row, active, taskOf, pod, wpc, child>>
  BY DEF Accept, StartValidate, MatchRead, RapidRead, DeleteList, db, cluster, workers, children
<1>2. CASE MatchRead(h, t)
  <2>1. req' = [req EXCEPT ![h] = [req[h] EXCEPT !.pc = "match_write", !.task = t,
                                                 !.copy = row[t]]]
    BY <1>2 DEF MatchRead
  <2>2. req'[h] = [req[h] EXCEPT !.pc = "match_write", !.task = t, !.copy = row[t]]
    BY <2>1 DEF TypeOK
  <2>3. req'[h].task = t /\ req'[h].copy = row[t]
    BY <2>2, RequestFields DEF Request
  <2>4. row[t].status = "READY"
    BY <1>2 DEF MatchRead
  <2>5. Answers(req[h])'
    BY <1>1, <2>3, <2>4 DEF Answers
  <2> QED
    BY <1>1, <2>5, StageStay
<1>3. CASE StartValidate(h, t)
  <2>1. req'[h].pc = "start_read"
    BY <1>3, RequestFields DEF StartValidate, TypeOK, Request
  <2>2. Answers(req[h])'
    BY <2>1 DEF Answers
  <2> QED
    BY <1>1, <2>2, StageStay
<1>4. CASE DeleteList(h, t)
  <2> DEFINE records == {r \in RunsOf(t) : rec[r] # "None"}
             seen    == {r \in records : rec[r] = "Running"}
  <2>1. req' = [req EXCEPT ![h] = [req[h] EXCEPT !.pc = "del_pod", !.task = t,
                                                 !.todo = records, !.seen = seen]]
    BY <1>4 DEF DeleteList
  <2>2. req'[h].pc = "del_pod"
    <3> HIDE DEF records, seen
    <3> QED
      BY <2>1, RequestFields DEF TypeOK, Request
  <2>3. Answers(req[h])'
    BY <2>2 DEF Answers
  <2> QED
    BY <1>1, <2>3, StageStay
<1> QED
  BY <1>2, <1>3, <1>4 DEF Accept

\* Every step keeps the stages, and is a step of the life cycle or changes no
\* status and no task.
LEMMA StageNext ==
    ASSUME OneAtATime, "rapid" \notin Method
    PROVE  TypeOK /\ RunsCoupled /\ NoKill /\ SerialInv /\ ResultInv /\ StageInv /\ [Next]_vars
               => StageInv' /\ Life
<1> SUFFICES ASSUME TypeOK, RunsCoupled, NoKill, SerialInv, ResultInv, StageInv, [Next]_vars
             PROVE  StageInv' /\ Life
  OBVIOUS
<1>1. CASE UNCHANGED <<row, active, taskOf, pod, wpc, child, req>>
  <2>1. StageInv'
    BY <1>1 DEF StageInv, StageAtWork, Stage, AtWork, Answers
  <2> QED
    BY <1>1, <2>1, LifeSame
<1>2. ASSUME NEW h \in Req, Serve(h) \/ StartK8sError(h) \/ RequestDies(h)
      PROVE  StageInv' /\ Life
  BY <1>2, StageStartWrite, StageStartCreatePod, StageMatchWrite, StageDeactivate, StageOther
     DEF Serve
<1>3. ASSUME NEW h \in Req, NEW t \in Task, Accept(h, t)
      PROVE  StageInv' /\ Life
  BY <1>3, StageAccept
<1>4. ASSUME NEW t \in Task, Stop(t)
      PROVE  StageInv' /\ Life
  BY <1>1, <1>4 DEF Stop, db, cluster, children
<1>5. ASSUME NEW r \in Run, RunStep(r)
      PROVE  StageInv' /\ Life
  <2>1. OnlyMoves(r) /\ StageInv' /\ Advances(r)
    BY <1>5, RunMoves, StageRun DEF SerialInv
  <2>2. PICK t \in Task : t = taskOf[r]
    BY DEF TypeOK
  <2>3. Life
    BY <2>1, <2>2, AdvanceIsLife DEF Advances, OnlyMoves
  <2> QED
    BY <2>1, <2>3
<1>6. CASE HkStep \/ HkCrash
  BY <1>1, <1>6 DEF HkStep, HkList, HkVisit, HkMissing, HkOOM, HkSkip, HkRead, HkWrite, HkDone,
                    HkCrash, NoKill, db, cluster, workers, children
<1>7. CASE UNCHANGED vars
  BY <1>1, <1>7 DEF vars, db, cluster, workers, children
<1> QED
  BY <1>2, <1>3, <1>4, <1>5, <1>6, <1>7 DEF Next, RunStep

\* The executor on Kubernetes implements the life cycle a user is promised
\* (NM_STATUS of server/apps/nm_task/schemas.py), whatever crashes or is lost.
THEOREM ImplementsLifecycleAlways ==
    ASSUME OneAtATime, "pod_oom" \notin Fault, "rapid" \notin Method
    PROVE  Spec => ImplementsLifecycle
<1>1. Init => StageInv
  BY DEF Init, StageInv, StageAtWork, AtWork, Answers, Idle
<1>2. Init => Lifecycle!Init
  BY DEF Init, Lifecycle!Init, NewRow
<1>3. TypeOK /\ RunsCoupled /\ NoKill /\ SerialInv /\ ResultInv /\ StageInv /\ [Next]_vars
          => StageInv' /\ [Lifecycle!Next]_(Lifecycle!vars)
  BY StageNext DEF Life
<1> QED
  BY <1>1, <1>2, <1>3, TypeCorrect, CouplingHolds, SerialHolds, ResultHolds, PTL
     DEF Spec, ImplementsLifecycle, Lifecycle!Spec
=============================================================================
