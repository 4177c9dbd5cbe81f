---------------------------- MODULE Query_proofs ----------------------------
(* Proofs about Query, for any requests, names, ground truth and options. *)
EXTENDS Query, Matching_proofs, TLAPS

-----------------------------------------------------------------------------
(* Shapes.  Here the rows of an answer are one of the answers transform may *)
(* give, which is all a step needs to know of them; Matching_proofs says    *)
(* what such an answer is, and TypeCorrect at the end uses it.             *)

AnyRows == {<<>>} \cup UNION {Answers(k, o) : k \in Keys, o \in Option}

AnyColumns == {{}} \cup {o.cols : o \in Option}

AnyQuery == [pc: {"idle", "write", "send", "done", "error"} \cup InProcess,
             keys: Keys, want: Option, status: Status,
             used: Option, reported: Option, rows: AnyRows, columns: AnyColumns,
             held: SUBSET Option, alone: BOOLEAN]

Shape == /\ row \in Row /\ copy \in Row /\ cfg \in Option /\ life \in Life
         /\ query \in [Req -> AnyQuery]

LEMMA OptionOfOwner == OwnerOption \subseteq Option /\ RapidOption \in Option /\ Option # {}
BY QueryAssumption DEF Option

LEMMA NoQueryShape == NoQuery \in AnyQuery /\ NoQuery.pc = "idle" /\ NoQuery.columns = {}
<1>1. (CHOOSE k \in Keys : TRUE) \in Keys
  BY QueryAssumption
<1>2. (CHOOSE o \in Option : TRUE) \in Option
  BY OptionOfOwner
<1>3. <<>> \in AnyRows /\ {} \in AnyColumns
  BY DEF AnyRows, AnyColumns
<1>4. "INIT" \in Status
  BY DEF Status
<1> QED
  BY <1>1, <1>2, <1>3, <1>4 DEF NoQuery, AnyQuery

LEMMA FailedShape == Failed \in AnyQuery /\ Failed.pc = "error" /\ Failed.columns = {}
BY NoQueryShape DEF Failed, AnyQuery

\* What a commit leaves of the row and of the queries.
LEMMA CommitShape ==
    ASSUME NEW q \in [Req -> AnyQuery], NEW r \in Row, Commit(q, r)
    PROVE  /\ row' = r
           /\ query' \in [Req -> AnyQuery]
           /\ \A h \in Req :
                /\ query'[h].pc = q[h].pc /\ query'[h].alone = q[h].alone
                /\ query'[h].used = q[h].used /\ query'[h].reported = q[h].reported
                /\ query'[h].keys = q[h].keys /\ query'[h].rows = q[h].rows
                /\ query'[h].columns = q[h].columns
                /\ query'[h].held = IF q[h].pc \in {"send", "read"}
                                    THEN q[h].held \cup {r.option} ELSE q[h].held
<1>1. r.option \in Option
  BY DEF Row
<1>2. \A h \in Req : [q[h] EXCEPT !.held = @ \cup {r.option}] \in AnyQuery
  BY <1>1 DEF AnyQuery
<1> QED
  BY <1>1, <1>2 DEF Commit, AnyQuery

\* The query of one request is replaced.
LEMMA QueryReplaced ==
    ASSUME query \in [Req -> AnyQuery], NEW h \in Req, NEW q \in AnyQuery,
           query' = [query EXCEPT ![h] = q]
    PROVE  /\ query' \in [Req -> AnyQuery]
           /\ query'[h] = q
           /\ \A g \in Req \ {h} : query'[g] = query[g]
OBVIOUS

\* The queries after the last write of a run: those in the process have failed.
LEMMA EndShape ==
    ASSUME query \in [Req -> AnyQuery]
    PROVE  [h \in Req |-> IF query[h].pc \in InProcess THEN Failed ELSE query[h]]
              \in [Req -> AnyQuery]
BY FailedShape

-----------------------------------------------------------------------------
(* What each step of a query makes of it.                                  *)

LEMMA AskStep ==
    ASSUME Shape, NEW h \in Req, NEW k \in Keys, NEW o \in Option, Ask(h, k, o)
    PROVE  \E q \in AnyQuery : /\ q.pc = "write" /\ query' = [query EXCEPT ![h] = q]
                               /\ q.columns = {}
                               /\ UNCHANGED <<row, life, copy, cfg>>
<1> DEFINE q == [NoQuery EXCEPT !.pc = "write", !.keys = k, !.want = o, !.status = row.status]
<1>1. q \in AnyQuery /\ q.pc = "write" /\ q.columns = {}
  BY NoQueryShape DEF AnyQuery, Shape, Row
<1> QED
  BY <1>1 DEF Ask

LEMMA WriteStep ==
    ASSUME Shape, NEW h \in Req, Write(h)
    PROVE  LET q == [query EXCEPT ![h].pc = "send", ![h].status = "INIT"]
               r == [status |-> query[h].status, option |-> query[h].want]
           IN  /\ q \in [Req -> AnyQuery] /\ r \in Row /\ Commit(q, r)
               /\ q[h].pc = "send" /\ \A g \in Req \ {h} : q[g] = query[g]
               /\ q[h].columns = query[h].columns
               /\ UNCHANGED <<life, copy, cfg>>
<1> DEFINE q == [query EXCEPT ![h].pc = "send", ![h].status = "INIT"]
           r == [status |-> query[h].status, option |-> query[h].want]
<1>1. r \in Row
  BY DEF Shape, AnyQuery, Row
<1>2. /\ q \in [Req -> AnyQuery] /\ q[h].pc = "send" /\ \A g \in Req \ {h} : q[g] = query[g]
      /\ q[h].columns = query[h].columns
  BY DEF Shape, AnyQuery, Status
<1> QED
  BY <1>1, <1>2 DEF Write

LEMMA AcceptStep ==
    ASSUME Shape, NEW h \in Req, Accept(h)
    PROVE  /\ query' \in [Req -> AnyQuery]
           /\ query[h].pc = "send" /\ query'[h].pc = "read"
           /\ query'[h].held = query[h].held /\ query'[h].columns = query[h].columns
           /\ query'[h].alone => \A g \in Req \ {h} : query[g].pc \notin InProcess
           /\ \A g \in Req \ {h} :
                \/ query[g].pc \notin InProcess /\ query'[g] = query[g]
                \/ /\ ~query'[g].alone /\ query'[g].pc = query[g].pc
                   /\ query'[g].used = query[g].used /\ query'[g].held = query[g].held
                   /\ query'[g].keys = query[g].keys /\ query'[g].rows = query[g].rows
                   /\ query'[g].columns = query[g].columns
           /\ life \in {"serving", "killed"}
           /\ UNCHANGED <<row, life, copy, cfg>>
<1> DEFINE others == {g \in Req \ {h} : query[g].pc \in InProcess}
<1>1. /\ [query[h] EXCEPT !.pc = "read", !.alone = others = {}] \in AnyQuery
      /\ [query[h] EXCEPT !.pc = "read", !.alone = others = {}].pc = "read"
      /\ [query[h] EXCEPT !.pc = "read", !.alone = others = {}].held = query[h].held
      /\ [query[h] EXCEPT !.pc = "read", !.alone = others = {}].columns = query[h].columns
      /\ [query[h] EXCEPT !.pc = "read", !.alone = others = {}].alone = (others = {})
  <2>1. query[h] \in AnyQuery /\ (others = {}) \in BOOLEAN
    BY DEF Shape
  <2> HIDE DEF others
  <2> QED
    BY <2>1 DEF AnyQuery, InProcess
<1>2. \A g \in Req : /\ [query[g] EXCEPT !.alone = FALSE] \in AnyQuery
                     /\ ~[query[g] EXCEPT !.alone = FALSE].alone
                     /\ [query[g] EXCEPT !.alone = FALSE].pc = query[g].pc
                     /\ [query[g] EXCEPT !.alone = FALSE].used = query[g].used
                     /\ [query[g] EXCEPT !.alone = FALSE].held = query[g].held
                     /\ [query[g] EXCEPT !.alone = FALSE].keys = query[g].keys
                     /\ [query[g] EXCEPT !.alone = FALSE].rows = query[g].rows
                     /\ [query[g] EXCEPT !.alone = FALSE].columns = query[g].columns
  BY DEF Shape, AnyQuery
<1>3. query' = [g \in Req |->
                  IF g = h THEN [query[h] EXCEPT !.pc = "read", !.alone = others = {}]
                  ELSE IF g \in others THEN [query[g] EXCEPT !.alone = FALSE]
                  ELSE query[g]]
  BY DEF Accept
<1>4. query' \in [Req -> AnyQuery]
  BY <1>1, <1>2, <1>3 DEF Shape
<1>5. query'[h] = [query[h] EXCEPT !.pc = "read", !.alone = others = {}]
  BY <1>3
<1>6. \A g \in Req \ {h} :
         \/ query[g].pc \notin InProcess /\ query'[g] = query[g]
         \/ /\ ~query'[g].alone /\ query'[g].pc = query[g].pc
            /\ query'[g].used = query[g].used /\ query'[g].held = query[g].held
            /\ query'[g].keys = query[g].keys /\ query'[g].rows = query[g].rows
            /\ query'[g].columns = query[g].columns
  BY <1>2, <1>3
<1> QED
  BY <1>1, <1>4, <1>5, <1>6 DEF Accept

LEMMA ReadCfgStep ==
    ASSUME Shape, NEW h \in Req, ReadCfg(h)
    PROVE  \E q \in AnyQuery :
             /\ query[h].pc = "read" /\ query' = [query EXCEPT ![h] = q]
             /\ \/ q.pc = "error" /\ q.columns = {}
                \/ /\ q.pc = "match" /\ q.used = row.option
                   /\ q.used.cols \subseteq GtColumn /\ q.columns = query[h].columns
                   /\ q.held = query[h].held /\ q.alone = query[h].alone
             /\ UNCHANGED <<row, life, copy, cfg>>
<1> DEFINE q == [query[h] EXCEPT !.used = row.option, !.pc = "match"]
<1>1. /\ q \in AnyQuery /\ q.pc = "match" /\ q.used = row.option
      /\ q.held = query[h].held /\ q.alone = query[h].alone /\ q.columns = query[h].columns
  BY DEF Shape, Row, AnyQuery, InProcess
<1>2. /\ query[h].pc = "read" /\ UNCHANGED <<row, life, copy, cfg>>
      /\ query' = [query EXCEPT ![h] =
                     IF Fails(algorithm, query[h].keys, row.option) THEN Failed ELSE q]
  BY DEF ReadCfg, Shape
<1>3. ~Fails(algorithm, query[h].keys, row.option) => q.used.cols \subseteq GtColumn
  BY <1>1 DEF Fails
<1> HIDE DEF q
<1>4. CASE Fails(algorithm, query[h].keys, row.option)
  BY <1>2, <1>4, FailedShape
<1>5. CASE ~Fails(algorithm, query[h].keys, row.option)
  BY <1>1, <1>2, <1>3, <1>5
<1> QED
  BY <1>4, <1>5

LEMMA ExecuteStep ==
    ASSUME Shape, NEW h \in Req, Execute(h)
    PROVE  \E q \in AnyQuery :
             /\ query[h].pc = "match" /\ query' = [query EXCEPT ![h] = q]
             /\ q.pc = "respond" /\ q.used = query[h].used
             /\ q.rows \in Answers(q.keys, q.used) /\ q.columns = q.used.cols
             /\ q.held = query[h].held /\ q.alone = query[h].alone
             /\ cfg' = query[h].used
             /\ UNCHANGED <<row, life, copy>>
<1>1. PICK rows \in Answers(query[h].keys, query[h].used) :
         query' = [query EXCEPT ![h] = [@ EXCEPT !.rows = rows, !.columns = query[h].used.cols,
                                          !.pc = "respond"]]
  BY DEF Execute
<1>2. query[h] \in AnyQuery /\ query[h].keys \in Keys /\ query[h].used \in Option
  BY DEF Shape, AnyQuery
<1>3. rows \in AnyRows /\ query[h].used.cols \in AnyColumns
  BY <1>2 DEF AnyRows, AnyColumns
<1> DEFINE q == [query[h] EXCEPT !.rows = rows, !.columns = query[h].used.cols, !.pc = "respond"]
<1>4. /\ q \in AnyQuery /\ q.pc = "respond" /\ q.used = query[h].used
      /\ q.held = query[h].held /\ q.alone = query[h].alone
      /\ q.keys = query[h].keys /\ q.rows = rows /\ q.columns = query[h].used.cols
  BY <1>2, <1>3 DEF AnyQuery, InProcess
<1>5. query' = [query EXCEPT ![h] = q]
  BY <1>1 DEF Shape
<1> QED
  BY <1>4, <1>5 DEF Execute

LEMMA RespondStep ==
    ASSUME Shape, NEW h \in Req, Respond(h)
    PROVE  \E q \in AnyQuery :
             /\ query[h].pc = "respond" /\ query' = [query EXCEPT ![h] = q]
             /\ q.pc = "done" /\ q.used = query[h].used /\ q.reported = cfg
             /\ q.keys = query[h].keys /\ q.rows = query[h].rows
             /\ q.columns = query[h].columns
             /\ q.held = query[h].held /\ q.alone = query[h].alone
             /\ UNCHANGED <<row, life, copy, cfg>>
<1> DEFINE q == [query[h] EXCEPT !.reported = cfg, !.pc = "done"]
<1>1. /\ q \in AnyQuery /\ q.pc = "done" /\ q.used = query[h].used /\ q.reported = cfg
      /\ q.keys = query[h].keys /\ q.rows = query[h].rows
      /\ q.columns = query[h].columns
      /\ q.held = query[h].held /\ q.alone = query[h].alone
  BY DEF Shape, AnyQuery
<1>2. query' = [query EXCEPT ![h] = q]
  BY DEF Respond, Shape
<1> QED
  BY <1>1, <1>2 DEF Respond

\* The steps after which a query is out of the process and of the property.
LEMMA LeaveStep ==
    ASSUME Shape, NEW h \in Req, Refuse(h) \/ Receive(h)
    PROVE  \E q \in AnyQuery : /\ q.pc \in {"idle", "error"} /\ q.columns = {}
                               /\ query' = [query EXCEPT ![h] = q]
                               /\ UNCHANGED <<row, life, copy, cfg>>
BY NoQueryShape, FailedShape DEF Refuse, Receive

\* The steps of the executor, by what they do to the row and the process.
LEMMA ExecutorStep ==
    ASSUME Shape, Executor
    PROVE  /\ copy' \in Row /\ life' \in Life /\ cfg' \in Option
           /\ \/ /\ UNCHANGED <<row, query, cfg>>
                 /\ life' \in {"serving", "killed", "end_write"}
                    \/ life \notin {"serving", "killed", "end_write"}
              \/ UNCHANGED <<row, query>> /\ life = "loading"
              \/ /\ Commit(query, copy) /\ UNCHANGED <<copy, cfg>>
                 /\ life \notin {"serving", "killed", "end_write"}
              \/ /\ EndWrite
<1> USE DEF Shape
<1>1. \A s \in Status : [row EXCEPT !.status = s] \in Row
  BY DEF Row
<1>2. {"PREPARING", "LAUNCHING", "READY", "STOPPED", "FAILED"} \subseteq Status
  BY DEF Status, RunningStatus
<1>3. CASE StartRead \/ LaunchRead \/ ReadyRead \/ EndRead
  BY <1>1, <1>2, <1>3 DEF StartRead, LaunchRead, ReadyRead, EndRead, StatusRead, Life
<1>4. CASE StartWrite \/ LaunchWrite \/ ReadyWrite
  BY <1>4 DEF StartWrite, LaunchWrite, ReadyWrite, StatusWrite, Life
<1>5. CASE Load
  BY <1>5 DEF Load, Life, Row
<1>6. CASE LoadFails \/ Kill
  BY <1>6 DEF LoadFails, Kill, Life
<1>7. CASE EndWrite
  BY <1>7 DEF EndWrite, Life
<1> QED
  BY <1>3, <1>4, <1>5, <1>6, <1>7 DEF Executor

LEMMA Steps ==
    ASSUME [Next]_vars
    PROVE  \/ Executor
           \/ \E h \in Req :
                \/ \E k \in Keys, o \in Option : Ask(h, k, o)
                \/ Write(h) \/ Accept(h) \/ Refuse(h)
                \/ ReadCfg(h) \/ Execute(h) \/ Respond(h) \/ Receive(h)
           \/ UNCHANGED vars
BY OptionOfOwner DEF Next, Rapid, Match

LEMMA EndWriteShape ==
    ASSUME Shape, EndWrite
    PROVE  /\ row' = copy /\ row' \in Row /\ query' \in [Req -> AnyQuery]
           /\ UNCHANGED <<copy, cfg>>
           /\ \A h \in Req :
                \/ query'[h].pc = "error" /\ query'[h].columns = {}
                \/ /\ query'[h].pc = query[h].pc /\ query[h].pc \notin InProcess
                   /\ query'[h].used = query[h].used /\ query'[h].reported = query[h].reported
                   /\ query'[h].keys = query[h].keys /\ query'[h].rows = query[h].rows
                   /\ query'[h].alone = query[h].alone
                   /\ query'[h].columns = query[h].columns
                   /\ query'[h].held = IF query[h].pc = "send"
                                       THEN query[h].held \cup {copy.option} ELSE query[h].held
<1> DEFINE q == [h \in Req |-> IF query[h].pc \in InProcess THEN Failed ELSE query[h]]
<1>1. q \in [Req -> AnyQuery] /\ copy \in Row
  BY EndShape DEF Shape
<1>2. Commit(q, copy) /\ UNCHANGED <<copy, cfg>>
  BY DEF EndWrite
<1>3. \A h \in Req : \/ q[h].pc = "error" /\ q[h].columns = {}
                     \/ query[h].pc \notin InProcess /\ q[h] = query[h]
  BY FailedShape
<1> HIDE DEF q
<1>4. /\ row' = copy /\ query' \in [Req -> AnyQuery]
      /\ \A h \in Req :
           /\ query'[h].pc = q[h].pc /\ query'[h].alone = q[h].alone
           /\ query'[h].used = q[h].used /\ query'[h].reported = q[h].reported
           /\ query'[h].keys = q[h].keys /\ query'[h].rows = q[h].rows
           /\ query'[h].columns = q[h].columns
           /\ query'[h].held = IF q[h].pc \in {"send", "read"}
                               THEN q[h].held \cup {copy.option} ELSE q[h].held
  BY <1>1, <1>2, CommitShape
<1>5. ASSUME NEW h \in Req, q[h] = query[h], query[h].pc \notin InProcess
      PROVE  query'[h].held = IF query[h].pc = "send"
                              THEN query[h].held \cup {copy.option} ELSE query[h].held
  BY <1>4, <1>5 DEF InProcess
<1>6. ASSUME NEW h \in Req
      PROVE  \/ query'[h].pc = "error" /\ query'[h].columns = {}
             \/ /\ query'[h].pc = query[h].pc /\ query[h].pc \notin InProcess
                /\ query'[h].used = query[h].used /\ query'[h].reported = query[h].reported
                /\ query'[h].keys = query[h].keys /\ query'[h].rows = query[h].rows
                /\ query'[h].alone = query[h].alone
                /\ query'[h].columns = query[h].columns
                /\ query'[h].held = IF query[h].pc = "send"
                                    THEN query[h].held \cup {copy.option} ELSE query[h].held
  <2>1. CASE q[h].pc = "error" /\ q[h].columns = {}
    BY <1>4, <2>1
  <2>2. CASE query[h].pc \notin InProcess /\ q[h] = query[h]
    BY <1>4, <1>5, <2>2
  <2> QED
    BY <1>3, <2>1, <2>2
<1> QED
  BY <1>1, <1>2, <1>4, <1>6

LEMMA ShapeNext == Shape /\ [Next]_vars => Shape'
<1> SUFFICES ASSUME Shape, [Next]_vars PROVE Shape'
  OBVIOUS
<1>1. CASE Executor
  <2>1. CASE EndWrite
    BY <1>1, <2>1, ExecutorStep, EndWriteShape DEF Shape
  <2>2. CASE Commit(query, copy)
    <3>1. query \in [Req -> AnyQuery] /\ copy \in Row
      BY DEF Shape
    <3>2. row' \in Row /\ query' \in [Req -> AnyQuery]
      BY <2>2, <3>1, CommitShape
    <3> QED
      BY <1>1, <3>2, ExecutorStep DEF Shape
  <2>3. CASE UNCHANGED <<row, query>>
    BY <1>1, <2>3, ExecutorStep DEF Shape
  <2> QED
    BY <1>1, <2>1, <2>2, <2>3, ExecutorStep
<1>2. ASSUME NEW h \in Req, NEW q \in AnyQuery, query' = [query EXCEPT ![h] = q],
             row' = row, life' = life, copy' = copy, cfg' \in Option
      PROVE  Shape'
  BY <1>2, QueryReplaced DEF Shape
<1>3. ASSUME NEW h \in Req, NEW k \in Keys, NEW o \in Option, Ask(h, k, o) PROVE Shape'
  BY <1>2, <1>3, AskStep DEF Shape
<1>4. ASSUME NEW h \in Req, Write(h) PROVE Shape'
  <2> DEFINE q == [query EXCEPT ![h].pc = "send", ![h].status = "INIT"]
             r == [status |-> query[h].status, option |-> query[h].want]
  <2>1. /\ q \in [Req -> AnyQuery] /\ r \in Row /\ Commit(q, r)
        /\ UNCHANGED <<life, copy, cfg>>
    BY <1>4, WriteStep
  <2> HIDE DEF q, r
  <2>2. row' \in Row /\ query' \in [Req -> AnyQuery]
    BY <2>1, CommitShape
  <2> QED
    BY <2>1, <2>2 DEF Shape
<1>5. ASSUME NEW h \in Req, Accept(h) PROVE Shape'
  BY <1>5, AcceptStep DEF Shape
<1>6. ASSUME NEW h \in Req, Refuse(h) \/ Receive(h) PROVE Shape'
  BY <1>2, <1>6, LeaveStep DEF Shape
<1>7. ASSUME NEW h \in Req, ReadCfg(h) PROVE Shape'
  BY <1>2, <1>7, ReadCfgStep DEF Shape
<1>8. ASSUME NEW h \in Req, Execute(h) PROVE Shape'
  <2>1. query[h].used \in Option
    BY DEF Shape, AnyQuery
  <2> QED
    BY <1>2, <1>8, <2>1, ExecuteStep
<1>9. ASSUME NEW h \in Req, Respond(h) PROVE Shape'
  BY <1>2, <1>9, RespondStep DEF Shape
<1>10. CASE UNCHANGED vars
  BY <1>10 DEF Shape, vars
<1> QED
  BY <1>1, <1>3, <1>4, <1>5, <1>6, <1>7, <1>8, <1>9, <1>10, Steps

LEMMA ShapeInit == Init => Shape
<1> SUFFICES ASSUME Init PROVE Shape
  OBVIOUS
<1>1. PICK o \in OwnerOption : row = [status |-> "INIT", option |-> o] /\ copy = row /\ cfg = o
  BY DEF Init
<1>2. o \in Option /\ row \in Row
  BY <1>1, OptionOfOwner DEF Row, Status
<1> QED
  BY <1>1, <1>2, NoQueryShape DEF Init, Shape, Life

LEMMA ShapeAlways == Spec => []Shape
BY ShapeInit, ShapeNext, PTL DEF Spec

-----------------------------------------------------------------------------
(* No query is answered with an option of before.                          *)

\* Until the process reads the row, what the row has is among what it held;
\* after that, what was read is.
HeldOf(q) == /\ q.pc \in {"send", "read"} => row.option \in q.held
             /\ q.pc \in {"match", "respond", "done"} => q.used \in q.held

Held == \A h \in Req : HeldOf(query[h])

\* The row stays and one query is replaced.
LEMMA HeldByOne ==
    ASSUME Shape, Held, NEW h \in Req, NEW q \in AnyQuery, HeldOf(q), row' = row,
           query' = [query EXCEPT ![h] = q]
    PROVE  Held'
BY QueryReplaced DEF Shape, Held, HeldOf

LEMMA HeldNext == Shape /\ Held /\ [Next]_vars => Held'
<1> SUFFICES ASSUME Shape, Held, [Next]_vars PROVE Held'
  OBVIOUS
<1>1. ASSUME NEW q \in [Req -> AnyQuery], NEW r \in Row, Commit(q, r),
             \A h \in Req : q[h].pc \in {"match", "respond", "done"} => q[h].used \in q[h].held
      PROVE  Held'
  <2>1. row' = r /\ \A h \in Req : /\ query'[h].pc = q[h].pc /\ query'[h].used = q[h].used
                                   /\ query'[h].held = IF q[h].pc \in {"send", "read"}
                                                       THEN q[h].held \cup {r.option}
                                                       ELSE q[h].held
    BY <1>1, CommitShape
  <2> QED
    BY <1>1, <2>1 DEF Held, HeldOf
<1>2. CASE Executor
  <2>1. CASE EndWrite
    <3>1. ASSUME NEW h \in Req PROVE HeldOf(query[h])'
      BY <2>1, EndWriteShape DEF Held, HeldOf, InProcess
    <3> QED
      BY <3>1 DEF Held
  <2>2. CASE Commit(query, copy)
    BY <1>1, <2>2 DEF Shape, Held, HeldOf
  <2>3. CASE UNCHANGED <<row, query>>
    BY <2>3 DEF Held, HeldOf
  <2> QED
    BY <1>2, <2>1, <2>2, <2>3, ExecutorStep
<1>3. ASSUME NEW h \in Req, NEW k \in Keys, NEW o \in Option, Ask(h, k, o) PROVE Held'
  BY <1>3, AskStep, HeldByOne DEF HeldOf
<1>4. ASSUME NEW h \in Req, Write(h) PROVE Held'
  <2> DEFINE q == [query EXCEPT ![h].pc = "send", ![h].status = "INIT"]
             r == [status |-> query[h].status, option |-> query[h].want]
  <2>1. /\ q \in [Req -> AnyQuery] /\ r \in Row /\ Commit(q, r)
        /\ q[h].pc = "send" /\ \A g \in Req \ {h} : q[g] = query[g]
    BY <1>4, WriteStep
  <2> HIDE DEF q, r
  <2>2. \A g \in Req : q[g].pc \in {"match", "respond", "done"} => q[g].used \in q[g].held
    BY <2>1 DEF Held, HeldOf
  <2> QED
    BY <1>1, <2>1, <2>2
<1>5. ASSUME NEW h \in Req, Accept(h) PROVE Held'
  <2>1. HeldOf(query[h])'
    BY <1>5, AcceptStep DEF Held, HeldOf
  <2>2. ASSUME NEW g \in Req \ {h} PROVE HeldOf(query[g])'
    <3>1. query'[g].pc = query[g].pc /\ query'[g].used = query[g].used
          /\ query'[g].held = query[g].held
      BY <1>5, AcceptStep
    <3> QED
      BY <1>5, <3>1, AcceptStep DEF Held, HeldOf
  <2> QED
    BY <2>1, <2>2 DEF Held
<1>6. ASSUME NEW h \in Req, Refuse(h) \/ Receive(h) PROVE Held'
  BY <1>6, LeaveStep, HeldByOne DEF HeldOf
<1>7. ASSUME NEW h \in Req, ReadCfg(h) PROVE Held'
  BY <1>7, ReadCfgStep, HeldByOne DEF Held, HeldOf
<1>8. ASSUME NEW h \in Req, Execute(h) PROVE Held'
  BY <1>8, ExecuteStep, HeldByOne DEF Held, HeldOf
<1>9. ASSUME NEW h \in Req, Respond(h) PROVE Held'
  BY <1>9, RespondStep, HeldByOne DEF Held, HeldOf
<1>10. CASE UNCHANGED vars
  BY <1>10 DEF Held, HeldOf, vars
<1> QED
  BY <1>2, <1>3, <1>4, <1>5, <1>6, <1>7, <1>8, <1>9, <1>10, Steps

\* No query is answered with a search option of before: not the one another
\* query left in the row, not the one the process had.
THEOREM UsedWasHeldAlways == Spec => []UsedWasHeld
<1>1. Init => Held
  BY NoQueryShape DEF Init, Held, HeldOf
<1>2. Held => UsedWasHeld
  BY DEF Held, HeldOf, UsedWasHeld, Answered
<1> QED
  BY <1>1, <1>2, HeldNext, ShapeAlways, PTL DEF Spec

-----------------------------------------------------------------------------
(* A query that is alone in the process names the option it was matched    *)
(* with: from its match to its response nobody else changes the            *)
(* configuration of the process, neither a query nor a process that loads. *)

Serving == life \in {"serving", "killed", "end_write"}

AloneOf(h) ==
    /\ query[h].pc \in InProcess =>
         /\ Serving
         /\ query[h].alone => \A g \in Req \ {h} : query[g].pc \notin InProcess
    /\ query[h].alone /\ query[h].pc = "respond" => query[h].used = cfg
    /\ query[h].alone /\ query[h].pc = "done" => query[h].reported = query[h].used

Alone == \A h \in Req : AloneOf(h)

\* One query is replaced, and is not in the process but where it was before.
LEMMA AloneByOne ==
    ASSUME Shape, Alone, NEW h \in Req, NEW q \in AnyQuery,
           query' = [query EXCEPT ![h] = q], life' = life,
           q.pc \in InProcess => query[h].pc \in InProcess /\ (q.alone => query[h].alone),
           q.alone /\ q.pc = "respond" => q.used = cfg',
           q.alone /\ q.pc = "done" => q.reported = q.used,
           cfg' = cfg \/ query[h].pc \in InProcess
    PROVE  Alone'
<1>1. /\ query'[h] = q /\ \A g \in Req \ {h} : query'[g] = query[g]
  BY QueryReplaced DEF Shape
<1>2. AloneOf(h)'
  BY <1>1 DEF Alone, AloneOf, Serving
<1>3. ASSUME NEW g \in Req \ {h} PROVE AloneOf(g)'
  BY <1>1 DEF Alone, AloneOf, Serving, InProcess
<1> QED
  BY <1>2, <1>3 DEF Alone

LEMMA AloneNext == Shape /\ Alone /\ [Next]_vars => Alone'
<1> SUFFICES ASSUME Shape, Alone, [Next]_vars PROVE Alone'
  OBVIOUS
<1>1. ASSUME NEW q \in [Req -> AnyQuery], NEW r \in Row, Commit(q, r), cfg' = cfg,
             \A h \in Req : \/ q[h] = query[h]
                            \/ q[h].pc = "send" /\ query[h].pc = "write",
             Serving' \/ \A h \in Req : query[h].pc \notin InProcess
      PROVE  Alone'
  <2>1. \A h \in Req : /\ query'[h].pc = q[h].pc /\ query'[h].alone = q[h].alone
                        /\ query'[h].used = q[h].used /\ query'[h].reported = q[h].reported
    BY <1>1, CommitShape
  <2>2. ASSUME NEW h \in Req
        PROVE  \/ query'[h].pc = "send" /\ query[h].pc = "write"
               \/ /\ query'[h].pc = query[h].pc /\ query'[h].alone = query[h].alone
                  /\ query'[h].used = query[h].used /\ query'[h].reported = query[h].reported
    BY <1>1, <2>1
  <2>3. ASSUME NEW h \in Req PROVE AloneOf(h)'
    BY <1>1, <2>2 DEF Alone, AloneOf, InProcess
  <2> QED
    BY <2>3 DEF Alone
<1>2. CASE Executor
  <2>1. CASE EndWrite
    <3>1. ASSUME NEW h \in Req PROVE query'[h].pc \notin InProcess /\ AloneOf(h)'
      BY <2>1, EndWriteShape DEF Alone, AloneOf, InProcess
    <3> QED
      BY <3>1 DEF Alone
  <2>2. CASE Commit(query, copy) /\ UNCHANGED cfg /\ ~Serving
    BY <1>1, <2>2 DEF Shape, Alone, AloneOf
  <2>3. CASE UNCHANGED <<query, cfg>> /\ (Serving' \/ ~Serving)
    BY <2>3 DEF Alone, AloneOf
  <2>4. CASE UNCHANGED query /\ ~Serving
    BY <2>4 DEF Alone, AloneOf, InProcess
  <2> QED
    BY <1>2, <2>1, <2>2, <2>3, <2>4, ExecutorStep DEF Serving
<1>3. ASSUME NEW h \in Req, NEW k \in Keys, NEW o \in Option, Ask(h, k, o) PROVE Alone'
  BY <1>3, AskStep, AloneByOne DEF InProcess
<1>4. ASSUME NEW h \in Req, Write(h) PROVE Alone'
  <2> DEFINE q == [query EXCEPT ![h].pc = "send", ![h].status = "INIT"]
             r == [status |-> query[h].status, option |-> query[h].want]
  <2>1. /\ q \in [Req -> AnyQuery] /\ r \in Row /\ Commit(q, r)
        /\ q[h].pc = "send" /\ \A g \in Req \ {h} : q[g] = query[g]
        /\ cfg' = cfg /\ life' = life
    BY <1>4, WriteStep
  <2> HIDE DEF q, r
  <2>2. query[h].pc = "write"
    BY <1>4 DEF Write
  <2>3. Serving' \/ \A g \in Req : query[g].pc \notin InProcess
    BY <2>1 DEF Alone, AloneOf, Serving
  <2> QED
    BY <1>1, <2>1, <2>2, <2>3
<1>5. ASSUME NEW h \in Req, Accept(h) PROVE Alone'
  <2>1. Serving' /\ query'[h].pc = "read"
    BY <1>5, AcceptStep DEF Serving
  <2>2. ASSUME NEW g \in Req \ {h}
        PROVE  \/ query[g].pc \notin InProcess /\ query'[g] = query[g]
               \/ ~query'[g].alone /\ query'[g].pc = query[g].pc
    BY <1>5, AcceptStep
  <2>3. query'[h].alone => \A g \in Req \ {h} : query'[g].pc \notin InProcess
    BY <1>5, <2>2, AcceptStep
  <2>4. AloneOf(h)'
    BY <2>1, <2>3 DEF AloneOf
  <2>5. ASSUME NEW g \in Req \ {h} PROVE AloneOf(g)'
    BY <1>5, <2>1, <2>2, AcceptStep DEF Alone, AloneOf, InProcess
  <2> QED
    BY <2>4, <2>5 DEF Alone
<1>6. ASSUME NEW h \in Req, Refuse(h) \/ Receive(h) PROVE Alone'
  BY <1>6, LeaveStep, AloneByOne DEF InProcess
<1>7. ASSUME NEW h \in Req, ReadCfg(h) PROVE Alone'
  BY <1>7, ReadCfgStep, AloneByOne DEF InProcess
<1>8. ASSUME NEW h \in Req, Execute(h) PROVE Alone'
  BY <1>8, ExecuteStep, AloneByOne DEF InProcess
<1>9. ASSUME NEW h \in Req, Respond(h) PROVE Alone'
  <2>1. query[h].alone => query[h].used = cfg
    BY <1>9, RespondStep DEF Alone, AloneOf
  <2> QED
    BY <1>9, <2>1, RespondStep, AloneByOne DEF InProcess
<1>10. CASE UNCHANGED vars
  BY <1>10 DEF Alone, AloneOf, Serving, vars
<1> QED
  BY <1>2, <1>3, <1>4, <1>5, <1>6, <1>7, <1>8, <1>9, <1>10, Steps

\* The answer to a query that had the process to itself names the option it
\* was computed with, for any number of queries before and after it.
THEOREM AloneReportsUsedAlways == Spec => []AloneReportsUsed
<1>1. Init => Alone
  BY NoQueryShape DEF Init, Alone, AloneOf, InProcess
<1>2. Alone => AloneReportsUsed
  BY DEF Alone, AloneOf, AloneReportsUsed, Answered
<1> QED
  BY <1>1, <1>2, AloneNext, ShapeAlways, PTL DEF Spec

-----------------------------------------------------------------------------
(* The answers.  The rows of a query that has been matched are an answer   *)
(* for its own keys and the one option its thread has read, whatever the   *)
(* row and the process have by now.                                        *)

MatchedOf(q) ==
    /\ q.pc \in {"match", "respond", "done"} => q.used.cols \subseteq GtColumn
    /\ q.pc \in {"respond", "done"} => /\ q.rows \in Answers(q.keys, q.used)
                                      /\ q.columns = q.used.cols
    /\ q.columns \subseteq GtColumn

Matched == \A h \in Req : MatchedOf(query[h])

LEMMA MatchedByOne ==
    ASSUME Shape, Matched, NEW h \in Req, NEW q \in AnyQuery, MatchedOf(q),
           query' = [query EXCEPT ![h] = q]
    PROVE  Matched'
BY QueryReplaced DEF Shape, Matched, MatchedOf

LEMMA MatchedNext == Shape /\ Matched /\ [Next]_vars => Matched'
<1> SUFFICES ASSUME Shape, Matched, [Next]_vars PROVE Matched'
  OBVIOUS
<1>1. ASSUME NEW q \in [Req -> AnyQuery], NEW r \in Row, Commit(q, r), \A h \in Req : MatchedOf(q[h])
      PROVE  Matched'
  <2>1. ASSUME NEW h \in Req PROVE MatchedOf(query'[h])
    <3>1. /\ query'[h].pc = q[h].pc /\ query'[h].used = q[h].used
          /\ query'[h].keys = q[h].keys /\ query'[h].rows = q[h].rows
          /\ query'[h].columns = q[h].columns
      BY <1>1, CommitShape
    <3>2. MatchedOf(q[h])
      BY <1>1
    <3> QED
      BY <3>1, <3>2 DEF MatchedOf
  <2> QED
    BY <2>1 DEF Matched, MatchedOf
<1>2. CASE Executor
  <2>1. CASE EndWrite
    BY <2>1, EndWriteShape DEF Matched, MatchedOf
  <2>2. CASE Commit(query, copy)
    BY <1>1, <2>2 DEF Shape, Matched
  <2>3. CASE UNCHANGED <<row, query>>
    BY <2>3 DEF Matched
  <2> QED
    BY <1>2, <2>1, <2>2, <2>3, ExecutorStep
<1>3. ASSUME NEW h \in Req, NEW k \in Keys, NEW o \in Option, Ask(h, k, o) PROVE Matched'
  BY <1>3, AskStep, MatchedByOne DEF MatchedOf
<1>4. ASSUME NEW h \in Req, Write(h) PROVE Matched'
  <2> DEFINE q == [query EXCEPT ![h].pc = "send", ![h].status = "INIT"]
             r == [status |-> query[h].status, option |-> query[h].want]
  <2>1. /\ q \in [Req -> AnyQuery] /\ r \in Row /\ Commit(q, r)
        /\ q[h].pc = "send" /\ \A g \in Req \ {h} : q[g] = query[g]
        /\ q[h].columns = query[h].columns
    BY <1>4, WriteStep
  <2> HIDE DEF q, r
  <2>2. \A g \in Req : MatchedOf(q[g])
    BY <2>1 DEF Matched, MatchedOf
  <2> QED
    BY <1>1, <2>1, <2>2
<1>5. ASSUME NEW h \in Req, Accept(h) PROVE Matched'
  <2>1. MatchedOf(query[h])'
    BY <1>5, AcceptStep DEF Matched, MatchedOf
  <2>2. ASSUME NEW g \in Req \ {h} PROVE MatchedOf(query[g])'
    <3>1. /\ query'[g].pc = query[g].pc /\ query'[g].used = query[g].used
          /\ query'[g].keys = query[g].keys /\ query'[g].rows = query[g].rows
          /\ query'[g].columns = query[g].columns
      BY <1>5, AcceptStep
    <3> QED
      BY <3>1 DEF Matched, MatchedOf
  <2> QED
    BY <2>1, <2>2 DEF Matched
<1>6. ASSUME NEW h \in Req, Refuse(h) \/ Receive(h) PROVE Matched'
  BY <1>6, LeaveStep, MatchedByOne DEF MatchedOf
<1>7. ASSUME NEW h \in Req, ReadCfg(h) PROVE Matched'
  BY <1>7, ReadCfgStep, MatchedByOne DEF Matched, MatchedOf
<1>8. ASSUME NEW h \in Req, Execute(h) PROVE Matched'
  BY <1>8, ExecuteStep, MatchedByOne DEF Matched, MatchedOf
<1>9. ASSUME NEW h \in Req, Respond(h) PROVE Matched'
  BY <1>9, RespondStep, MatchedByOne DEF Matched, MatchedOf
<1>10. CASE UNCHANGED vars
  BY <1>10 DEF Matched, vars
<1> QED
  BY <1>2, <1>3, <1>4, <1>5, <1>6, <1>7, <1>8, <1>9, <1>10, Steps

LEMMA MatchedAlways == Spec => []Matched
<1>1. Init => Matched
  BY NoQueryShape DEF Init, Matched, MatchedOf
<1> QED
  BY <1>1, MatchedNext, ShapeAlways, PTL DEF Spec

LEMMA OptionOf ==
    ASSUME NEW o \in Option
    PROVE  o.topN \in Nat \ {0} /\ o.threshold \in Nat
BY QueryAssumption DEF Option

LEMMA DoneIsRight ==
    ASSUME Shape, Matched, NEW h \in Answered
    PROVE  /\ query[h].keys \in Seq(Name)
           /\ query[h].rows \in Seq(AnswerRow)
           /\ RightAnswer(query[h].rows, query[h].keys, query[h].used)
           /\ query[h].columns = query[h].used.cols
<1>1. /\ query[h] \in AnyQuery /\ query[h].columns = query[h].used.cols
      /\ query[h].rows \in Answers(query[h].keys, query[h].used)
  BY DEF Shape, Matched, MatchedOf, Answered
<1>2. query[h].keys \in Keys /\ query[h].used \in Option
  BY <1>1 DEF AnyQuery
<1>3. query[h].keys \in Seq(Name)
  BY <1>2, QueryAssumption
<1> QED
  BY <1>1, <1>2, <1>3, OptionOf, AnswersAreRight

\* The answer of every query is right for its names and for one search option
\* as a whole, for any number of queries at a time, any names, ground truth
\* and options, whatever the executor does meanwhile.
THEOREM AnswerIsRightAlways == Spec => []AnswerIsRight
<1>1. Shape /\ Matched => AnswerIsRight
  BY DoneIsRight DEF AnswerIsRight
<1> QED
  BY <1>1, MatchedAlways, ShapeAlways, PTL

\* No answer reports a score of 1, rounded as it is, for a name with a token
\* that the ground truth does not know, for any ground truth and any unit of the
\* scores reported, as long as the name has fewer tokens than two units.
THEOREM UnknownIsNotFullAlways == Spec => []UnknownIsNotFull
<1>1. ASSUME Shape, Matched PROVE UnknownIsNotFull
  <2> SUFFICES ASSUME NEW h \in Answered, NEW i \in DOMAIN query[h].rows,
                      query[h].rows[i].score = Unit,
                      Cardinality(Tokens[query[h].rows[i].name]) < 2 * Unit
               PROVE  Tokens[query[h].rows[i].name] \subseteq Vocabulary
    BY DEF UnknownIsNotFull
  <2> DEFINE rows == query[h].rows
  <2>1. /\ rows \in Rows /\ query[h].keys \in Seq(Name)
        /\ RightAnswer(rows, query[h].keys, query[h].used)
    BY <1>1, DoneIsRight DEF Rows
  <2>2. i \in 1 .. Len(rows) /\ rows[i] \in AnswerRow
    BY <2>1 DEF Rows
  <2> HIDE DEF rows
  <2>3. \/ rows[i].row = NoRow /\ rows[i].score = 0
        \/ /\ rows[i].row \in GtRow
           /\ rows[i].score = Rounded(Score(rows[i].name, rows[i].row))
    BY <2>1, <2>2, RowIsRight
  <2>4. /\ rows[i].name \in Name /\ rows[i].score = Unit /\ Unit # 0
        /\ Cardinality(Tokens[rows[i].name]) < 2 * Unit
    BY <2>2, MatchingAssumption DEF AnswerRow, rows
  <2>5. rows[i].row \in GtRow /\ Rounded(Score(rows[i].name, rows[i].row)) = Unit
    BY <2>3, <2>4
  <2>6. Tokens[rows[i].name] \subseteq Vocabulary
    BY <2>4, <2>5, FullIsKnown
  <2> QED
    BY <2>6 DEF rows
<1> QED
  BY <1>1, MatchedAlways, ShapeAlways, PTL

-----------------------------------------------------------------------------
(* The whole of TypeOK.                                                    *)

LEMMA RowsOfAnswers == AnyRows \subseteq Seq(AnswerRow)
<1> SUFFICES ASSUME NEW rows \in AnyRows PROVE rows \in Seq(AnswerRow)
  OBVIOUS
<1>1. CASE rows = <<>>
  BY <1>1
<1>2. CASE \E k \in Keys, o \in Option : rows \in Answers(k, o)
  <2>1. PICK k \in Keys, o \in Option : rows \in Answers(k, o)
    BY <1>2
  <2>2. k \in Seq(Name)
    BY QueryAssumption
  <2> QED
    BY <2>1, <2>2, OptionOf, AnswersAreRight
<1>3. rows = <<>> \/ \E k \in Keys, o \in Option : rows \in Answers(k, o)
  <2> DEFINE given == {Answers(k, o) : k \in Keys, o \in Option}
  <2>1. rows = <<>> \/ rows \in UNION given
    BY DEF AnyRows
  <2>2. CASE rows \in UNION given
    <3>1. PICK answer \in given : rows \in answer
      BY <2>2
    <3>2. \E k \in Keys, o \in Option : answer = Answers(k, o)
      BY <3>1
    <3> QED
      BY <3>1, <3>2
  <2> QED
    BY <2>1, <2>2
<1> QED
  BY <1>1, <1>2, <1>3

LEMMA AlgorithmStays == [Next]_vars => algorithm' = algorithm
BY DEF Next, vars, Executor, StartRead, StartWrite, LaunchRead, LaunchWrite, Load, LoadFails,
       ReadyRead, ReadyWrite, Kill, EndRead, EndWrite, StatusRead, StatusWrite, Rapid, Match,
       Ask, Write, Accept, Refuse, ReadCfg, Execute, Respond, Receive

\* Every state of Query is well formed: the rows of an answer have scores of
\* at most 1, and rows and columns of the ground truth.
THEOREM TypeCorrect == Spec => []TypeOK
<1>1. Init => algorithm \in Algorithm
  BY DEF Init
<1>2. algorithm \in Algorithm /\ [Next]_vars => (algorithm \in Algorithm)'
  BY AlgorithmStays
<1>3. Shape /\ Matched /\ algorithm \in Algorithm => TypeOK
  <2>1. ASSUME NEW q \in AnyQuery, MatchedOf(q) PROVE q \in Query
    BY <2>1, RowsOfAnswers DEF AnyQuery, Query, MatchedOf
  <2> QED
    BY <2>1 DEF Shape, Matched, TypeOK
<1> QED
  BY <1>1, <1>2, <1>3, ShapeAlways, MatchedAlways, PTL DEF Spec

=============================================================================
