# A verification of the UniFrame backend

The backend (`src/server`) runs name matching tasks: a user uploads datasets,
creates a task over them and starts it; a worker process matches the names in a
pod of its own, as a batch or as a service that answers queries. Around this
there are accounts, groups, sharing of datasets, media and premium types.

This directory holds TLA+ modules of the parts of the backend where processes
meet in shared state, the TLC runs that check them on small instances, and
proofs, checked by TLAPS, that hold for every instance.

Contents: [inventory](#inventory) · [modules](#modules) · [runs](#runs) ·
[fairness](#fairness) · [proofs](#proofs) · [disagreements](#disagreements) ·
[not modelled](#not-modelled) · [plan](#plan)

## Inventory

| Part | State it keeps | Operations | Meets | Hard behaviour |
|---|---|---|---|---|
| Task executor on Kubernetes: `apps/nm_task`, `compute`, `kubernetes` | task row (status, result, search option), run history, pods, services, a Redis channel per task | start, stop, match, delete; worker; computation | all of them write the same row; the cluster is changed by Kubernetes too | lost updates, races of start requests, kills, TTL, crashes, pods lost or killed for memory |
| Housekeeper: `compute/housekeeper.py` | none (a snapshot per pass) | every 10 s: look at the pod of each Running record | run history, task row, cluster | stale snapshot, errors taken for a missing pod, crash between two writes |
| Task executor on RQ: `compute/rq_worker.py`, the branches without Kubernetes | job queue, two fixed job ids with a record each, a `should_stop` flag per id, one process per type | start, stop, match, delete; worker; computation | the same handlers and the same row, tasks of all users | one job id and one address for all tasks, a flag that expires or outlives its job, a worker that dies |
| Queries of a realtime task: `compute/realtime.py`, `nm_algo/pipeline.py` | one matcher object, its configuration | query of the owner, query of RapidAPI | match endpoint, task row, executor | several queries share one object and one row, the executor writes the whole row, the process is killed under a query |
| Limits and configuration: `apps/nm_task/utils.py` | none | validation of a start | tasks of the user, datasets | a check that is stale when it is used |
| Datasets and sharing: `apps/dataset` | dataset rows, shares, public datasets | create, destroy, share, retrieve, list | groups | changes that are not committed, concurrent changes of groups |
| Groups: `apps/group` | groups and members | create, delete, set members | shares | read, compute a difference, write |
| Accounts and codes: `apps/oauth`, `apps/user` | users, verification codes | send a code, sign up, create by a superuser, recover, reset, deactivate | tasks, datasets, media of the user | requests that die between commits, requests that outlive their permission |
| Media: `apps/media` | rows and files | upload, read | accounts | row and file are two stores |
| Login, tokens, sign-in with GitHub: `core`, `api/application.py`, `apps/oauth` | cookie of a browser, secret of the server, rows of `oauth2_users` | login, logout, sign-in, deactivate; two middlewares around every request | users | a secret that changes, a sign-in that dies between two commits, a second account after a deactivation |
| Permission of a local deployment: `apps/permission` | rows of `local_deploy_users` | ask, approve, renew, token of the registry, expiry | users, superusers | look and insert by two requests, an update that hits all rows of a user |
| Premium types: `apps/user/utils.py` | – | – | limits of tasks and queries | – |
| Algorithms: `nm_algo` | matrices | preprocess, match, post-process | queries, task row (the result) | boundaries of the top-n selection, unknown tokens, what divides by zero |
| API server (routes), logging, configuration, file store, email, registry | – | – | – | – |

What makes each part correct:

* *Executor.* A user never runs more tasks than allowed; a task has one
  computation at most; the status follows the life cycle; an outcome is
  reported once and of a computation that is over; a completed batch has its
  result; a stopped, expired or dead run ends and is settled; nothing of a
  deleted task stays in the cluster.
* *Housekeeper.* It closes the records of dead runs, of all of them, and of no
  other.
* *Sharing.* Nothing refers to a group that is gone; after a share request
  exactly those asked for have a share; what may be read is listed.
* *Accounts.* One user per email; a password changes by a code of the right
  purpose and email only; no active user loses a file; after a deactivation
  nothing of the user is active.
* *RQ.* The tasks follow the same life cycle although they share queue, record,
  flag and process; the queue holds what the record says; one stop ends one job,
  and that of its task; a query is answered by its own task.
* *Queries.* An answer is right for its names and for one search option as a
  whole; that option is not older than the query; the answer names it.
* *Access.* A GitHub account is one user for ever; what a superuser approved
  holds; a registry token goes to nobody else; a user can sign in again after the
  secret of the server has changed (this the code does not do).

## Modules

`NmTask` is the core: the executor on Kubernetes and the housekeeper.
`TaskStatus` is what an executor promises of the statuses, the abstract
specification that `NmTask` and `NmTaskRq`, the executor on RQ, are shown to
implement. `NmTaskStop` adds to `NmTask` the history of answered stop requests.
`Matching` holds the operators of the matching algorithm, and `Query`, which
extends it, the queries of one realtime task. `Sharing`, `Account` and `Access`
stand beside these. `MC*` modules give the constants of the TLC instances,
`*_proofs` modules hold the proofs; those of `NmTask` are in two, `NmTask_proofs` for
any number of requests at a time and `NmTaskSerial_proofs` for one. `Query` and `NmTask` meet in the task row: each
has the other's writes of it as far as they touch its own columns. The other
modules share no state.

### NmTask

| Variable | In the code |
|---|---|
| `row[t]` | the JSON column `ext_info` of the task table: `status` is `nm_status`, `result` the run whose `matching_result` is stored |
| `active[t]` | the column `is_active` |
| `rec[r]` | the row of the run history table of pod `r`, by `pod_name` (`None`: not inserted) |
| `pod[r]`, `deleting`, `taskOf[r]` | the pod in the cluster, its deletion timestamp, the task in its environment |
| `svc[t]` | the service `nm-<user>-<task>` |
| `wpc[r]`, `wrow[r]` | where `run_task_in_subprocess` is, and the copy of the row that `change_task_status` holds |
| `stop` | runs whose worker's subscription holds an unread stop message |
| `expired` | runs older than their TTL |
| `child[r]`, `crow[r]` | the computation subprocess and its copy of the row |
| `req[h]` | a thread of the API server, the local variables of its handler |
| `hk` | the housekeeper and its snapshot of the Running records |

The actions follow the code statement by statement where a statement touches
shared state: a read of the row and the write that follows it are two actions,
for the endpoint (`StartRead`, `StartWrite`; `MatchRead`, `RapidRead`,
`MatchWrite`), the worker (`LaunchRead` … `EndWrite`), the subprocess
(`BatchMatch`, `BatchSave`; `BatchReadRow`, `BatchTerminate`; `RealtimeLoad`,
`RealtimeReady`) and the housekeeper (`HkRead`, `HkWrite`). A write puts the
whole copy back. This is what `get_task` and `update_task` of the CRUD class
do: the first reads a fresh row into an object of its own, the second assigns
the whole `ext_info`. Other facts of the code the module rests on:

* *Start.* PREPARING is committed before the pod is created, the record is
  inserted last. A refusal of Kubernetes ends the request where it is
  (`StartK8sError`), and so does a crash (`RequestDies`). A task whose computation type
  is Spark (`Spark`) passes the validation and is refused after PREPARING and before
  any pod, whatever Kubernetes does (`StartUnsupported`).
* *Stop* publishes on a Redis channel: only subscribed workers receive it.
* *Delete* works through a list of records it has read once, then deactivates.
* *Worker.* It launches the subprocess, subscribes, and loops every 50 ms over
  three tests: stop message, exit of the subprocess, TTL. Each has a branch of
  its own whose order of service, record, kill and status differs, and the
  module keeps each order. The worker is PID 1 of its container and ignores
  SIGTERM, so that a pod that is being deleted goes on until the grace period
  ends (`PodDeleted`). A killed subprocess issues no further statement.
* `change_task_status` raises for a deleted task: in the worker this ends the
  container, in the subprocess the computation, in the housekeeper the process.
* *Housekeeper.* Any exception of a read of a pod counts as "not found"
  (`HkMissing`). The docstring speaks of 5 seconds and the code sleeps 10: time
  is not in the module and nothing depends on it.

The constant `Fault` lists what may go wrong in an instance: a dying request, a
refusing Kubernetes API, a crashing worker or housekeeper, a lost pod, a pod
killed for memory, a failing read of a pod. A computation may always fail.

The validation of a start request reads several tables; here it is one step.
Nothing is lost: what another process may do between these reads it may as well
do right after the last of them. `\E r \in Run : pod[r] = "none"` in
`StartValidate` is a bound of the instance and no guard of the code.

### TaskStatus

The statuses alone. It says which changes a user may see: `Prepare` from a
status that does not run and below the limit, `Launch`, `Work`, `End`, and
`LateQuery`, the one oddity the code has even when requests come one at a time:
a match request that has read READY puts READY back after the run has ended.
`NmTask` implements it (`ImplementsLifecycle`) under the substitution
`status <- [t \in Task |-> row[t].status]`, as long as requests come one at a time,
no pod is killed for memory and the endpoint of RapidAPI is not used. `NmTaskRq`
implements its steps as long as requests do not overlap (`FollowsLifecycle`).

### NmTaskRq

| Variable | In the code |
|---|---|
| `realtime` | the type of the tasks: the two types have a queue, a worker and a job id each, which never meet, so that one is modelled |
| `status[t]`, `active[t]` | `nm_status` and `is_active` of the task row |
| `job` | the hash `rq:job:<id>` in Redis: its status, and the task in its arguments |
| `queued` | how often the job id stands in the list of the queue |
| `flag` | the key `<job id>:should_stop` |
| `worker` | the RQ worker with `run_task_in_subprocess` |
| `child` | the subprocess and the status in the copy of the row it holds |
| `req[h]` | a thread of the API server; `by` is the task whose process has answered |

`starts`, `overlap`, `revived` and `asked` are histories. `overlap` says that two
requests were in service at the same time, `revived` names tasks that a late query
has made READY after their end, `asked` those whose stop is in the flag and has not
been acted upon.

A start looks for a worker after it has set PREPARING (`StartCheck`), and
enqueues in another call (`StartEnqueue`), which rewrites the record of the id
whatever it said. A stop needs only a record. The stop branch resets the flag
after it has written STOPPED, and not at all when it raises because the task was
deleted. `FlagExpires` and `JobExpires` are the 30 seconds of the flag and the 500
of a finished record. `WorkerDies` is the end of the container of the worker: the
record goes on saying `started`. Each task here belongs to a user of its own,
so that the running limit of a user says no more than that a running task is not
started.

### Matching and Query

`Matching` is what an answer says, as operators: the vocabulary of the ground
truth, the similarity, what is above the threshold, the best `top_n`, the rows of
the answer (`Answers`) and what raises (`Fails`). A name is the set of its
tokens, which all weigh the same. A score is kept squared, in units of `1 / Full`:
it stays an integer and keeps its order. What an answer reports is the root of that,
rounded to the nearest `1 / Unit` (`Rounded`, the `round(score, 4)` of
`post_matching.py`; `Unit` is 10^4 in the code). Rows are selected and ordered before the
rounding, so that a reported score may be equal to the threshold or below it, and 1 for
names that are not equal. Equal scores come in any order, so that
`TopN` is a set of sequences. `RightAnswer` says what an answer should be
without the steps that compute it: it falls into one part for each name asked, in
their order, and each part has the right rows for its name (`RightRows`): those above
the threshold by their scores, which they report rounded, so that no reported score is
below the rounded threshold. The parts
matter when a name is asked twice and its best rows score the same.

| Variable | In the code |
|---|---|
| `algorithm` | `algorithm_option` of the task, which no endpoint changes |
| `row` | status and `search_option` of the task row |
| `life`, `copy` | where the executor is with the run, and the row it is about to write back |
| `cfg` | `nm_rt_task.nm_cfg` in the realtime process |
| `query[h]` | a query from its endpoint through a thread of the process and back |

The endpoint writes the search option to the row (`Write`), then asks the process
(`Accept`, `Refuse`), whose thread reads the row again (`ReadCfg`), matches and sets
`cfg` (`Execute`), and names in its response the option that `cfg` holds by then
(`Respond`). A query keeps the columns that were joined to its rows (`columns`) beside the
rows: `AnswerIsRight` is about both. The queries of RapidAPI do not look at the status nor at the number of
names. The executor appears as the reads and writes of `change_task_status`:
each write puts back a search option as well. `held` (what the row held since a
query wrote it) and `alone` are histories.

`update_matcher` and `run_gt_pipeline` compare the configuration a query has read
with that of the process; as no endpoint changes the options they look at, they
find nothing to do, and the ground truth is prepared once, in `Load`.

### Access

| Variable | In the code |
|---|---|
| `secret` | `SECRET_KEY` of the API server; another one with each `NewSecret` |
| `limited` | `DEMO_ACCOUNT_LIMITATION` |
| `enabled`, `gone` | users with an active row, users that were deactivated |
| `links[g]` | the owners in the rows of `oauth2_users` with the GitHub id `g` |
| `perm[p]` | a row of `local_deploy_users`: user, and `is_active` with `expire_at` as one `life` |
| `jar[b]` | the cookie of a browser |
| `req[b]` | the request the browser waits for |

Each request passes the middleware of the demo account (`DemoMayPass`) when it
comes in and the one that logs (`Log`) when it goes out; both decode the token, and
both raise for a token of another secret. `Log` then loses the response and with it
the cookie it sets. The sign-in with GitHub looks the account up, creates a user,
and links it in a second transaction. Permissions are looked up and written by
separate statements, and `update_local_deploy_user` writes to all rows of a
user, which violates the primary key when there are two (`GrantWrite`).
`signedAs`, `granted` and `overlap` are histories: the users a GitHub account gave,
the users of whom a request was approved, and who was served twice at the same
time. There are several rows for a user and several tokens for a browser in the
reachable states, as nothing in the code forbids them.

### Sharing

Datasets, groups, members, shares and public datasets. One step per statement
that commits. A request may hold deletions it has not committed (`dropping`):
other sessions do not see them, but the rows are locked (`Locked`). The foreign
keys of `init_table.sql` decide which inserts and deletes are refused. `HasAccess`
is `check_access`, `Listed` is `list_dataset`; they ask different questions of
the tables. `UserOf`, `OwnerOf` and `FounderOf` fix who sends a request and
creates a dataset or group.

### Account

Codes, users, the password of a user as the code it was last set by, what a
user owns (one bit for each of task, dataset, media) and the files. Each CRUD
function commits by itself, so that each is a step and a request may die after
any of them (`Crash`). `GrowOld` takes a code out of the window of its validity.
A recovery or a reset that was under way writes `is_active` again, since
`UserUpdateDO` has `is_active = True` by default and every field that is not None
is written: `RecoverUpdate` and `ResetUpdate` set `enabled`.
A superuser creates users without a code (`AdminCheck`, `AdminCreate`), so that codes
sent to the email before are still good when it has a user.
Codes are distinct here; the random digits of `utils/vcode.py` may, rarely, collide.

## Runs

Passing runs:

| Run | Instance | Shows |
|---|---|---|
| `task_serial` | batch task with TTL, realtime task and a task that asks for Spark, two pods, one request at a time, limit 1, crashing workers | `RunningLimit`, `CompleteHasResult`, `OneComputationPerTask`, and that NmTask implements TaskStatus |
| `task_faults` | one realtime task with TTL, one pod, two requests at a time, every endpoint and every fault but a failing read of the pods | `TypeOK`, `OutcomeIsFinal`, `CompletedIsOver` |
| `task_liveness` | batch task with TTL and realtime task, one pod, one request, fair processes, every fault but a crash of the housekeeper and a failing read of the pods | `DeliveredStopEnds`, `TTLBounds`, `DeadRunsSettle`, `PodMovesTaskOn` |
| `sharing` | one dataset, two users with a group each, two requests at a time that may die | `SharesExist`, `SharedAsAsked`, `AccessibleIsListed` |
| `account` | one email, two user rows, two codes, two requests at a time that may die | `OneUserPerEmail`, `PasswordFromCode`, `FilesOutliveUser` |
| `query` | a realtime task, three ground truth rows, two queries at a time of two options, kills and restarts | `AnswerIsRight`, `UsedWasHeld`, `AloneReportsUsed`, `UnknownIsNotFull` and types |
| `access` | two browsers, a superuser, the demo account, two users to come, a GitHub account, two secrets | `SameUserEachTime`, `GrantHolds`, `PullsGranted` and types |
| `rq` | two tasks with TTL on one worker, of either type, two requests at a time, two starts, deaths of the worker | `FollowsLifecycle`, `QueueHoldsTheJob`, `AnsweredByOwnTask`, `OneJobPerStop` and types |

The bounds, and why they are enough for the questions asked:

* Two tasks and a limit of one are the least where the limit can be broken; one
  of them is batch, the other realtime, since the two have different computations.
  Two pods give a task a second run, or each task one. With one request at a
  time and no deletion the runs a task has are in sequence, and a third adds no
  new pair of neighbours.
* The faults act on one run at a time: one pod and two concurrent requests
  reach every order of a worker, its subprocess, the cluster, the housekeeper
  and two handlers. The properties of that run are about one run, and the
  theorems below remove the bound.
* `task_liveness` has one pod, as its properties are about one run each. A refused service
  stands there also for the one that a run killed for memory has left behind: the request
  ends without a record, and the pod runs unknown to everyone. `PodMovesTaskOn` says that
  it moves its task on all the same. That every PREPARING ends is false: a pod that
  Kubernetes refuses, a request that dies before it, or Spark leaves it for ever. A
  housekeeper that may crash at every visit would settle nothing, so that it does not crash
  there.
* One dataset suffices for shares, which are kept per dataset; two groups of
  two owners let a deletion of a group meet a share.
* `account` keeps sign-ups and superusers one at a time (`SignUpReq`): two at a time
  create two users for an email, as no index forbids it. `MaxCodes = 2` gives a code
  for each purpose or a fresh one beside an old one; three codes pass too.
* `query` asks for two lists of names at two options. One list has a name that is
  in the ground truth and one with an unknown token, the other has a name without
  a token and raises. Two of the three ground truth rows score the same, one `top_n`
  cuts between them and one threshold falls on a score. With `Unit = 10` a row whose score
  is above the other threshold (12 of 100 over 10) is reported below it (3 steps, where
  the root of the threshold is 3.16). Two queries at a time are
  the least that can disturb each other.
* `access` needs two browsers for two requests of one user, two rows of
  permissions for the primary key to be violated, two users to come for a second
  sign-in that creates one, and two secrets for a token to be stale.
* `rq` has two starts (`MaxStarts`): one job to end and one to inherit what it
  left, be it a flag, a record or a place in the queue. The theorems about this module
  hold for every number of starts and tasks.
* Where a property excepts what overlaps (`overlap` in `rq` and `access`, `alone` in
  `query`), the code does go wrong for two requests at the same time: both find no row
  and insert two, both find a free worker, or one answers with the configuration
  of the other. The exception names exactly those users, identities or queries, and
  the run reaches such states as well; only in `rq` it is the whole instance from the
  first overlap on, as there everything is shared.

`CHECK_DEADLOCK FALSE` is set where a bound (codes and users in `account`, rows and
users in `access`, starts in `rq`) lets the instance run out
of things to do. The requests and pods of the other instances
always leave a step, so that their deadlock check means something.

Each property of a passing run has been seen to fail for a plausible bug: the
definitions marked *Mutant* in the modules are those bugs, next to the definition
they stand for.

## Fairness

`FairSpec` of `NmTask` has weak fairness of a request once it is accepted, of the start of
a scheduled container, of the worker, of time (`TTLPasses`), of the end of a
grace period and of the housekeeper. They are threads and processes that run as
long as their machine does, or waits that end by the clock. No strong fairness is
needed. Not fair are: the users (nobody need call anything), the computation
(`Child`: it may last for ever, which is what a stop and a TTL are for) and all
faults. Weak fairness of the worker as a whole is enough, since exactly one of its
steps is enabled at a time but for the choice the cluster makes for it.

`DeliveredStopEnds` speaks of messages that reached a subscription; what becomes
of the others is the finding of `task_stop`. `DeadRunsSettle` covers deleted
tasks, for which the housekeeper's write of the row raises and kills it: their
records are closed by the deletion, or by the housekeeper before that write.

The other modules are checked for safety only. In RQ mode nothing that must happen
does whatever fails: a worker that died leaves a record that says `started`, after
which no task of its type is started again.

## Proofs

Every invariant and every action property of a passing run has a theorem here, and
so do both refinements; what stays with TLC is in a list at the end.

`NmTask_proofs` proves for all tasks, pods, requests, endpoints and faults, from
`ConstantAssumption` alone:

| Theorem | Statement |
|---|---|
| `TypeCorrect` | `Spec => [](TypeOK /\ HkRunKnown)` |
| `CouplingHolds` | `Spec => []RunsCoupled` |
| `OutcomeIsFinalAlways` | `Spec => []OutcomeIsFinal` |
| `CompletedIsOverAlways` | if reads of pods do not fail, `Spec => []CompletedIsOver` |

*Types.* `TypeOK` is not inductive: the housekeeper writes the row of the task
of `hk.run`, which must be a pod then. `HkRunKnown` adds that.

*Outcome.* `OutcomeIsFinal` is not inductive either: it says what holds once a
worker reports, and must be carried through the launch, the loop and the
branches. `RunsCoupled` says of every run which positions of the subprocess go
with which position of the worker and phase of the pod: no subprocess before
`Popen`, none alive from the kill on, only a dead one on the way through
`end_read`, nothing at all outside a running container. It is preserved by every
step because a run is touched by its own worker, subprocess and cluster steps
only (`OneRunSuffices`), and because both leave together (`EndContainer`).

*Records.* `CompletedLate` adds that a record says Completed only when its worker
is past the point where it closes it or has exited. The one step that could
break it is `HkMissing`, for which `RunsCoupled` gives that a pod that is gone has
no worker. This is where the assumption that reads do not fail enters; without
it the housekeeper closes the record of a run that goes on.

`NmTaskSerial_proofs` proves, from `ConstantAssumption`, if there is one request at a
time (`OneAtATime`) and no pod is killed for memory (`"pod_oom" \notin Fault`):

| Theorem | Statement |
|---|---|
| `SerialHolds` | `Spec => [](NoKill /\ SerialInv)` |
| `RunningLimitAlways` | `Spec => []RunningLimit` |
| `OneComputationPerTaskAlways` | `Spec => []OneComputationPerTask` |
| `ResultHolds` | `Spec => []ResultInv` |
| `CompleteHasResultAlways` | `Spec => []CompleteHasResult` |
| `ImplementsLifecycleAlways` | without the endpoint of RapidAPI, `Spec => ImplementsLifecycle` |

All other endpoints and faults are allowed, more of them than in `task_serial`:
deletions, dying requests, refusals of Kubernetes, crashes, lost pods, failing reads,
a crashing housekeeper. Each hypothesis is there for a reason. Two start requests at a
time both pass the check of the limit. The housekeeper writes OOMKILLED from a
snapshot, and by then the task may have a new run, whose status and result that write
puts back. A query of RapidAPI is accepted in any status, so that its late write may
put PREPARING or LAUNCHING back, which no step of `TaskStatus` does; the limit, the
computations and the results bear that.

The proofs are in layers. *Who writes* (`SerialInv`): a run is `AtWork` while its pod is
there and its worker is before its last write of the row. A task has one such run at
most and a running status with it, and the tasks that run, with the one a request is
about, fit into the limit (`Room`): what `StartValidate` has found is still true at
`StartWrite` although they are several steps apart. Hence `Quiet`: the pod that is about to
be created will be the only one. `OnlyMoves` states what a step of a run may change, so
that one lemma for each layer (`SerialRun`, `ResultMoves`, `StageMoves`) serves all. *What they have read*
(`ResultInv`): with one writer, the copies that worker and subprocess of a batch task hold
are the row as it is, so that nobody writes back a row without the result. *Which
status they find* (`StageInv`): position of worker and subprocess determine the status,
from which each action is a step of `TaskStatus` or a stutter.

`Sharing_proofs` proves, from `SharingAssumption`:

| Theorem | Statement |
|---|---|
| `TypeCorrect` | `Spec => []TypeOK` |
| `SharesExistAlways` | `Spec => []SharesExist` |
| `SharedAsAskedAlways` | if each user has one request at a time (`OneRequestPerUser`), `Spec => []SharedAsAsked` |
| `AccessibleIsListedAlways` | `Spec => []AccessibleIsListed` |

*Shares exist.* Inductive with the types: the foreign keys refuse what would
break it. *Shared as asked.* The strengthening `ShareInv` says what a request
knows at each point (`Knows`): the shares it has read are still there, those it
has added too, and what it is about to drop is disjoint from what it was asked
for. Another request could only spoil this by dropping shares of the same
dataset, and for that it would be a request of the same owner: this is where
the assumption enters. Two share requests of one owner at a time do spoil it.
`StepOfRequest` and `OthersKeep` carry the argument that a step of one thread
touches nothing else.

*Accessible is listed.* `check_access` asks for the row of the member alone and
`list_dataset` for that of the group as well: they agree because of the first theorem.

`Account_proofs` proves, from `AccountAssumption`:

| Theorem | Statement |
|---|---|
| `AccountInvariant` | `Spec => []AccountInv` |
| `TypeCorrect` | `Spec => []TypeOK` |
| `PasswordFromCodeAlways` | `Spec => []PasswordFromCode` |
| `FilesOutliveUserAlways` | `Spec => []FilesOutliveUser` |
| `OneUserPerEmailAlways` | if sign-ups and superusers come one at a time (`OneSignUp`), `Spec => []OneUserPerEmail` |

A request remembers a user, an email and a code from an earlier statement and writes
by that memory. `Knows` says what of it is still true at each place: the user has a
row, its email is the one remembered or that of a deactivated user, the code was
found for it, the file is stored. `Later` says what no step takes back: an email
changes to `GoneEmail` only, a code keeps its email and purpose, a file goes only
from a deactivated user. `KnowsKept` concludes that one step per action has to be
looked at, for the request that takes it. Types are part of the same induction: a
code is sent to an email only because `SendCheck` has seen one. For one user per
email, `SoleInv` adds that between `SignupCheck` and `SignupCreate`, and between
`AdminCheck` and `AdminCreate`, there is no user of the email; the assumption keeps
other creations out of that gap.

`Access_proofs` proves, from `AccessAssumption`:

| Theorem | Statement |
|---|---|
| `TypeCorrect` | `Spec => []TypeOK` |
| `PullsGrantedAlways` | `Spec => []PullsGranted` |
| `GrantHoldsAlways` | `Spec => []GrantHolds` |
| `SameUserEachTimeAlways` | `Spec => []SameUserEachTime` |

*Types* need to know whom a request is about at each stage (`AllAbout`): a user, or an
identity of GitHub. *Grants.* `GrantedRows` carries that a row that runs or has expired
belongs to a user of whom a request was approved. `AskInv` adds why none is asked for
after it: a request that is about to insert has found no row of its user, unless two
were under way, and that is in `overlap`; an approval has found a row. *Sign-in.*
`LinkInv` is the same argument for GitHub: who goes on to create a user has found no
link, so that there is one at most, and it stays when the user is deactivated.

`Matching_proofs` and `Query_proofs` prove, from `MatchingAssumption` and
`QueryAssumption`:

| Theorem | Statement |
|---|---|
| `FullIsSameTokens` | a full score, before rounding, of a name with a row means the same tokens |
| `AnswersAreRight` | all `Answers(keys, option)` are right for `keys` and `option` |
| `UsedWasHeldAlways` | `Spec => []UsedWasHeld` |
| `AloneReportsUsedAlways` | `Spec => []AloneReportsUsed` |
| `AnswerIsRightAlways` | `Spec => []AnswerIsRight` |
| `UnknownIsNotFullAlways` | `Spec => []UnknownIsNotFull` |
| `TypeCorrect` | `Spec => []TypeOK` |

*Full score.* With `c` common, `k` known and `n` tokens of the name and `m` of
the row, the score is full only if `c * c * k = m * n * n`; as `c` is at most `m` and
`k`, and both at most what they should equal, all four are the same. This is about the score
before it is rounded. Of the reported one `UnknownIsNotFull` says less: it is 1 for a name
with an unknown token only if the name has `2 * Unit` tokens or more. `UnknownCosts` bounds
the root of the score of such a name by `(n - 1) / n`, which is more than half a step away
from 1 for fewer tokens (`FullIsKnown`).

*Rounding.* `Rounded` counts the steps that the root has come past the middle of, which
needs no root. `RoundedKeepsOrder` says that it is monotonic, so that the order of the rows and
the comparison with the threshold survive it, and `RoundedToOne` what it takes to be
reported as 1.

*Answers.* `TopNIsBest` and `JoinIsRight` are about one name. The answer joins the parts of
all names with `FlattenSeq`, a fold over a list of any length. The induction it takes is
first-order here: `Induction` is about a set of numbers, from the well-foundedness of
`<`, and `FlattenIsChain` makes the partial results of the fold a function, about whose
values `ChainGrows` is proved with it. Whatever stands in the answer then has its place
in one part (`FlattenHasParts`), and so a right row (`RowIsRight`).

*Queries.* `Held` says that the row's option is among those a query has seen from the time
it wrote its own, and then that the option it read is; every writer of the row goes
through `Commit`. `Alone` says that the configuration of the process is the one
read by a query that has the process to itself and has been answered. `Matched` says
that what a query has been answered is one of `Answers` for its names and the option it
used. All three rest on the shape of the state (`Shape`), which has "one of the answers"
for the rows; the types follow from it by `AnswersAreRight`.

`NmTaskRq_proofs` proves, from `RqAssumption`, for all tasks and starts:

| Theorem | Statement |
|---|---|
| `OneJobPerStopAlways` | `Spec => OneJobPerStop` |
| `QueueHoldsTheJobAlways` | `Spec => []QueueHoldsTheJob` |
| `FollowsLifecycleAlways` | `Spec => FollowsLifecycle` |
| `AnsweredByOwnTaskAlways` | `Spec => []AnsweredByOwnTask` |
| `TypeCorrect` | `Spec => []TypeOK` |

`Base` is the shape of the state, with the subprocess where the worker is
(`ChildWhere`). *Stops.* `FlagAsked`: a flag that no stop accounts for is one the worker
is acting on, or one it could not reset as a task was deleted. *Life cycle.* As long as
nothing overlaps (`Lone`), queue, record and worker are about one start, the status of
the task in the hands of the worker is the one of the stage it is at, and the request,
if there is one, knows the status of its own task. Nobody else writes a status. From
this follows what the queue holds and, action by action, that each step is one of
`TaskStatus`. *Answers.* `Own` adds that the record is that of a task that is READY,
unless it was revived or deleted, so that a query that found it READY meets its
process or none. *Types.* `Base` lacks only the bound of the queue, for which `Counted` says that
the jobs in it and the requests that may still enqueue one are no more than the
starts that came.

Only model-checked: `DeliveredStopEnds`, `TTLBounds`, `DeadRunsSettle` and
`PodMovesTaskOn`. They say that something happens at last under the fairness of
`FairSpec`, which needs `ENABLED` and is out of the prover's reach. The properties of the
runs that end in a violation are false, and have no theorem.

## Disagreements

Runs that end in a violation, each of what the code's own text says:

| Run | The text | The code |
|---|---|---|
| `task_stop` | "Stop task … successfully" | the message is lost when the worker has not subscribed yet |
| `rq_stop` | the same as `task_stop`, in RQ mode | the flag belongs to all tasks of a type: the stop of a task that does not run ends the one that does |
| `sharing_unshare` | "get users that should be removed" | the removal is rolled back |
| `account_deactivate` | "In user table, set is_active as False" | a change of password that was under way sets it again |

Others, which the models contain and the properties step around:

* two start requests at a time both pass the check of `max_running_task_nr`, the "maximal
  running task in parallel" (`task_serial` has one at a time);
* any error of a read of a pod closes the record of a live run ("not found! It is
  in db but not in EKS"; `task_faults` has no such error);
* a task that asks for Spark, a type that `NM_COMP_TYPE` has as supported, is refused after
  PREPARING was committed and stays PREPARING (`StartUnsupported`);
* after a change of the secret, login and logout answer with a cookie that the middleware
  loses (`Log`), although "Logout will clear cookie" and the error says "Please logout and
  login again";
* the service of a task that is deleted while it runs stays, though it "should be
  deleted by backend";
* the count of codes is asked with its arguments swapped: "exceed the daily limit" is
  never answered;
* a task, dataset or media whose request began before a deactivation is created
  after it and stays active;
* in RQ mode a start that finds no worker leaves its task PREPARING, for ever.

## Not modelled

* `validate_task_cfg` and the tables of premium types: checks of one input against
  constants. The profile and the lists of users: single statements no other part
  waits for.
* Creating, listing and downloading of tasks; a task exists from the start.
* In RQ mode: the query of RapidAPI, and the death of the process that RQ forks for a
  job apart from that of its container.
* Weights of tokens, phonetics, n-grams, sparse matrices and their memory: scores are
  over tokens that weigh the same, and what the executor sees of a computation is
  that it ends well, fails or exhausts memory (`ChildFails`).
* Routing, CORS, the translation of exceptions, logging, read-only endpoints, wrappers
  of AWS, email and the registry: no state that the properties speak of.
* The log of statuses, `updated_at`, names and statistics: written, never read
  by a decision.
* In `NmTask` a kill of the subprocess takes effect between two of its statements: one that
  the database has already received when the signal comes is not modelled.
* The 30 days of the run quota: the count is of all records of the instance.
* `destroy_dataset` looks at the running tasks of its owner; in `Sharing` that check
  may always pass. A task whose dataset is destroyed while it starts finds its medium
  and file all the same, as only a deactivation deletes those.

## Plan

In this order:

1. Theorems with weaker hypotheses than now: `SharedAsAsked` when only the share requests
   of one dataset come one at a time, and the life cycle with the late queries of RapidAPI
   as steps of their own. Action properties that the liveness of `NmTask` rests on, such as
   that a stop message stays unread until the worker looks at it.
2. A composition of `Account` with the media that `Query` loads, to say what a
   deactivation does to a task that runs.
3. Operators for `validate_task_cfg`, checked against a reference over all
   configurations.
4. A clock for the run quota and the window of codes.
