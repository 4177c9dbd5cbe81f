-------------------------------- MODULE Query --------------------------------
(***************************************************************************)
(* Queries of one realtime task: the match endpoint and the RapidAPI       *)
(* endpoint write the search option of a query to the task row, then ask   *)
(* the realtime process of the task (server/compute/realtime.py), whose    *)
(* threads read the row again, match and answer.  Meanwhile the executor   *)
(* starts and ends that process and writes the same row, the whole of it,  *)
(* to change its status: those steps are here as far as they touch the     *)
(* search option or the process; NmTask has all of them.                   *)
(***************************************************************************)
EXTENDS Matching

CONSTANTS
    Req,             \* request threads, each with its thread in the process
    Keys,            \* the lists of names that may be asked
    OwnerOption,     \* search options of the owner's queries
    RapidOption,     \* the search option of every RapidAPI query
    MaxRtNrQueries   \* max_rt_nr_queries of the owner's premium type

ASSUME QueryAssumption ==
    /\ Keys \subseteq Seq(Name) /\ Keys # {}
    /\ MaxRtNrQueries \in Nat
    /\ \A o \in OwnerOption \cup {RapidOption} : o.topN \in Nat \ {0} /\ o.threshold \in Nat
    /\ OwnerOption # {}

VARIABLES
    algorithm,   \* algorithm_option of the task; no endpoint changes it
    row,         \* status and search option of the task, as committed
    life,        \* where the executor is with the current run of the task
    copy,        \* the row that change_task_status of the executor will write
    cfg,         \* nm_rt_task.nm_cfg of the realtime process
    query        \* [Req -> Query]: the queries being served

vars == <<algorithm, row, life, copy, cfg, query>>

Option        == OwnerOption \cup {RapidOption}
RunningStatus == {"PREPARING", "LAUNCHING", "READY"}
Status        == {"INIT", "STOPPED", "FAILED"} \cup RunningStatus
Row           == [status: Status, option: Option]
Life          == {"none", "prep_write", "prepared", "launch_write", "loading",
                  "loaded", "ready_write", "serving", "killed", "failed", "end_write"}

\* The queries that have a thread in the realtime process.
InProcess == {"read", "match", "respond"}

Query == [pc: {"idle", "write", "send", "done", "error"} \cup InProcess,
          keys: Keys, want: Option, status: Status,   \* the copy of the row it writes
          used: Option, reported: Option,
          rows: Seq(AnswerRow), columns: SUBSET GtColumn,
          held: SUBSET Option,   \* what the row held since this query wrote it
          alone: BOOLEAN]        \* no other query was in the process with it

NoQuery == LET o == CHOOSE o \in Option : TRUE
           IN  [pc |-> "idle", keys |-> CHOOSE k \in Keys : TRUE, want |-> o,
                status |-> "INIT", used |-> o, reported |-> o, rows |-> <<>>,
                columns |-> {}, held |-> {}, alone |-> FALSE]

\* The request ends with an exception.
Failed == [NoQuery EXCEPT !.pc = "error"]

TypeOK ==
    /\ algorithm \in Algorithm
    /\ row \in Row
    /\ life \in Life
    /\ copy \in Row
    /\ cfg \in Option
    /\ query \in [Req -> Query]

Init ==
    /\ algorithm \in Algorithm
    /\ \E o \in OwnerOption :
         /\ row = [status |-> "INIT", option |-> o]
         /\ copy = row
         /\ cfg = o
    /\ life = "none"
    /\ query = [h \in Req |-> NoQuery]

-----------------------------------------------------------------------------
(* The row.                                                                *)

\* The row becomes r; a query that has written its option and has not been
\* read yet sees one more option go by.
Commit(q, r) ==
    /\ row' = r
    /\ query' = [h \in Req |->
                   IF q[h].pc \in {"send", "read"}
                   THEN [q[h] EXCEPT !.held = @ \cup {r.option}]
                   ELSE q[h]]

-----------------------------------------------------------------------------
(* The executor: change_task_status reads the row, and later writes it.    *)

StatusRead(from, to, status) ==
    /\ life = from
    /\ copy' = [row EXCEPT !.status = status]
    /\ life' = to
    /\ UNCHANGED <<algorithm, row, cfg, query>>

StatusWrite(from, to) ==
    /\ life = from
    /\ Commit(query, copy)
    /\ life' = to
    /\ UNCHANGED <<algorithm, copy, cfg>>

StartRead   == row.status \notin RunningStatus /\ StatusRead("none", "prep_write", "PREPARING")
StartWrite  == StatusWrite("prep_write", "prepared")
LaunchRead  == StatusRead("prepared", "launch_write", "LAUNCHING")
LaunchWrite == StatusWrite("launch_write", "loading")

\* NameMatchingRealtime.__init__: the process keeps the configuration it has
\* read, loads the ground truth and prepares it for its matcher.
Load ==
    /\ life = "loading"
    /\ cfg' = row.option
    /\ life' = "loaded"
    /\ UNCHANGED <<algorithm, row, copy, query>>

\* The dataset, its medium or its file is not there any more.
LoadFails ==
    /\ life = "loading"
    /\ life' = "failed"
    /\ UNCHANGED <<algorithm, row, copy, cfg, query>>

ReadyRead  == StatusRead("loaded", "ready_write", "READY")
ReadyWrite == StatusWrite("ready_write", "serving")

\* SIGTERM for a stop or the TTL: the server goes on with what it has begun,
\* and accepts for a moment still.
Kill ==
    /\ life \in {"loading", "loaded", "ready_write", "serving"}
    /\ life' = "killed"
    /\ UNCHANGED <<algorithm, row, copy, cfg, query>>

EndRead == \/ StatusRead("killed", "end_write", "STOPPED")
           \/ StatusRead("failed", "end_write", "FAILED")

\* The worker leaves after this write, and the container with it.
EndWrite ==
    /\ life = "end_write"
    /\ Commit([h \in Req |-> IF query[h].pc \in InProcess THEN Failed ELSE query[h]],
              copy)
    /\ life' = "none"
    /\ UNCHANGED <<algorithm, copy, cfg>>

Executor ==
    \/ StartRead \/ StartWrite \/ LaunchRead \/ LaunchWrite \/ Load \/ LoadFails
    \/ ReadyRead \/ ReadyWrite \/ Kill \/ EndRead \/ EndWrite

-----------------------------------------------------------------------------
(* The endpoints.                                                          *)

Ask(h, k, o) ==
    /\ query[h].pc = "idle"
    /\ query' = [query EXCEPT ![h] = [NoQuery EXCEPT !.pc = "write", !.keys = k, !.want = o,
                                        !.status = row.status]]
    /\ UNCHANGED <<algorithm, row, life, copy, cfg>>

\* rt_nm_match_validate
MatchValid(k) == row.status = "READY" /\ Len(k) <= MaxRtNrQueries

\* POST /tasks/nm/{id}/match, by the owner of the task.
Match(h, k, o) == MatchValid(k) /\ Ask(h, k, o)

\* POST /tasks/rapid-api/sanction-list-fuzzy-search: neither the status nor the
\* number of names is looked at.
Rapid(h, k) == Ask(h, k, RapidOption)

Write(h) ==
    /\ query[h].pc = "write"
    /\ Commit([query EXCEPT ![h].pc = "send", ![h].status = "INIT"],
              [status |-> query[h].status, option |-> query[h].want])
    /\ UNCHANGED <<algorithm, life, copy, cfg>>

\* The process accepts the request and a thread of it takes it up.
Accept(h) ==
    /\ query[h].pc = "send"
    /\ life \in {"serving", "killed"}
    /\ LET others == {g \in Req \ {h} : query[g].pc \in InProcess}
       IN  query' = [g \in Req |->
                       IF g = h THEN [query[h] EXCEPT !.pc = "read", !.alone = others = {}]
                       ELSE IF g \in others THEN [query[g] EXCEPT !.alone = FALSE]
                       ELSE query[g]]
    /\ UNCHANGED <<algorithm, row, life, copy, cfg>>

\* TASK__STATUS_DISORDER: nobody answers at the name of the service.
Refuse(h) ==
    /\ query[h].pc = "send"
    /\ life # "serving"
    /\ query' = [query EXCEPT ![h] = Failed]
    /\ UNCHANGED <<algorithm, row, life, copy, cfg>>

-----------------------------------------------------------------------------
(* A thread of the realtime process: NameMatchingRealtime.execute.         *)

\* Mutant: the configuration the process already has is used.
ReadOwnCfg(h) ==
    /\ query[h].pc = "read"
    /\ query' = [query EXCEPT ![h] =
                    IF Fails(algorithm, query[h].keys, cfg) THEN Failed
                    ELSE [@ EXCEPT !.used = cfg, !.pc = "match"]]
    /\ UNCHANGED <<algorithm, row, life, copy, cfg>>

\* The latest task configuration is read; an exception ends the request.
ReadCfg(h) ==
    /\ query[h].pc = "read"
    /\ query' = [query EXCEPT ![h] =
                    IF Fails(algorithm, query[h].keys, row.option) THEN Failed
                    ELSE [@ EXCEPT !.used = row.option, !.pc = "match"]]
    /\ UNCHANGED <<algorithm, row, life, copy, cfg>>

\* Mutant: the configuration the process keeps is not brought up to date.
ExecuteOnly(h) ==
    /\ query[h].pc = "match"
    /\ \E rows \in Answers(query[h].keys, query[h].used) :
         query' = [query EXCEPT ![h] = [@ EXCEPT !.rows = rows, !.columns = query[h].used.cols,
                                          !.pc = "respond"]]
    /\ UNCHANGED <<algorithm, row, life, copy, cfg>>

\* Mutant: the columns are those of the configuration the process keeps.
ExecuteOldColumns(h) ==
    /\ query[h].pc = "match"
    /\ \E rows \in Answers(query[h].keys, query[h].used) :
         query' = [query EXCEPT ![h] = [@ EXCEPT !.rows = rows, !.columns = cfg.cols,
                                          !.pc = "respond"]]
    /\ cfg' = query[h].used
    /\ UNCHANGED <<algorithm, row, life, copy>>

\* transform with the configuration this thread has read, whose columns are
\* joined to the rows and which then becomes that of the process.  No endpoint
\* changes what the ground truth was prepared with, so update_matcher and
\* run_gt_pipeline find nothing to do again.
Execute(h) ==
    /\ query[h].pc = "match"
    /\ \E rows \in Answers(query[h].keys, query[h].used) :
         query' = [query EXCEPT ![h] = [@ EXCEPT !.rows = rows, !.columns = query[h].used.cols,
                                          !.pc = "respond"]]
    /\ cfg' = query[h].used
    /\ UNCHANGED <<algorithm, row, life, copy>>

\* nm_rt: the response names the option that the process has by now.
Respond(h) ==
    /\ query[h].pc = "respond"
    /\ query' = [query EXCEPT ![h] = [@ EXCEPT !.reported = cfg, !.pc = "done"]]
    /\ UNCHANGED <<algorithm, row, life, copy, cfg>>

\* The client has its answer, or its error.
Receive(h) ==
    /\ query[h].pc \in {"done", "error"}
    /\ query' = [query EXCEPT ![h] = NoQuery]
    /\ UNCHANGED <<algorithm, row, life, copy, cfg>>

Next ==
    \/ Executor
    \/ \E h \in Req :
         \/ \E k \in Keys : Rapid(h, k) \/ \E o \in OwnerOption : Match(h, k, o)
         \/ Write(h) \/ Accept(h) \/ Refuse(h)
         \/ ReadCfg(h) \/ Execute(h) \/ Respond(h) \/ Receive(h)

Spec == Init /\ [][Next]_vars

-----------------------------------------------------------------------------
(* Properties.                                                             *)

Answered == {h \in Req : query[h].pc = "done"}

\* The rows of an answer are right for each of its keys, one after the other,
\* and for one search option as a whole, whatever other queries do to the row
\* and to the process meanwhile: what top_n, the threshold and the selected
\* columns ask for comes from the same option, never from those of two queries.
AnswerIsRight ==
    \A h \in Answered :
       /\ RightAnswer(query[h].rows, query[h].keys, query[h].used)
       /\ query[h].columns = query[h].used.cols

\* The option an answer was computed with is one the row held after the query
\* had written its own: no query is answered with an option of before.
UsedWasHeld ==
    \A h \in Answered : query[h].used \in query[h].held

\* The answer names the option it was computed with, unless another query was
\* in the process at the same time.
AloneReportsUsed ==
    \A h \in Answered : query[h].alone => query[h].reported = query[h].used

\* A name with a token that the ground truth does not know is never reported
\* with a score of 1, rounded as it is, unless it has so many tokens that one
\* of them is less than half a step of the scores reported.
UnknownIsNotFull ==
    \A h \in Answered : \A i \in DOMAIN query[h].rows :
       LET r == query[h].rows[i] IN
       r.score = Unit /\ Cardinality(Tokens[r.name]) < 2 * Unit
          => Tokens[r.name] \subseteq Vocabulary
=============================================================================
