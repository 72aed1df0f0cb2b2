----------------------- MODULE AgentTaskQueue_proofs ------------------------
(***************************************************************************)
(* Theorems about AgentTaskQueue, for any sets of tasks and handlers and   *)
(* any number of crashes, stops and store faults, in three parts:          *)
(*                                                                         *)
(* the types, what is known of a cancel in flight, and two properties that *)
(* rest on them, SingleFlight and AtMostOnce;                              *)
(*                                                                         *)
(* what the rows say while a task is in flight, ProcessHasRunningRow,      *)
(* KillSeenAsCancel and the refinement of TaskLifecycle;                   *)
(*                                                                         *)
(* what a task leaves behind: LogsNeverCollide, no appendLog meets the     *)
(* sequence number it inserts, and CleanShutdown, a stop that no fault     *)
(* disturbs leaves no running row and no child, which rests on it: a log   *)
(* line that collided would reject the worker and leave its row running.   *)
(***************************************************************************)
EXTENDS AgentTaskQueue, SequenceTheorems, TLAPS

-----------------------------------------------------------------------------
(* Type correctness.                                                        *)

(* Points at which the actor needs the task that its local `arg' names. *)
TaskPoints == (StorePoints \ {"hasRunning", "claim", "bootList", "dbClose"})
              \cup {"resolve", "spawn", "wait", "waitKilled", "close", "term"}

(* TypeOK is not inductive alone: reading the row of arg[a] needs a task.   *)
LocalsDefined ==
  /\ \A a \in Actors : pc[a] \in TaskPoints => arg[a] \in Tasks
  /\ \A h \in Handlers : pc[h] = "keyFind" /\ at[h] = "lane" => KeyOf[arg[h]] # None
  /\ \A h \in Handlers : pc[h] = "retryGet" => fresh[h] \in Tasks
  /\ pc[Worker] \in {"outSel", "outIns"} => outs # 0

TypeInv == TypeOK /\ LocalsDefined

LEMMA ActorsDistinct == /\ Worker \in Actors /\ Main \in Actors /\ Worker # Main
                        /\ Handlers \subseteq Actors
                        /\ Worker \notin Handlers /\ Main \notin Handlers
BY ConstantsOK DEF Actors, Worker, Main

(* The program points, sorted by whether they have a task at hand.          *)
LEMMA PointSets ==
  /\ {"hasRunning", "claim", "bootList", "dbClose", "idle", "done", "off", "waiting", "exited",
      "failed", "failClose", "down", "up", "closing", "join"} \subseteq Points \ TaskPoints
  /\ {"keyGet", "insertGet", "before", "reqGet", "updGet", "after", "retryGet", "retryRead",
      "selfGet", "errGet", "doneGet", "execSel", "outSel", "errSel", "agentSel", "retrySel",
      "bootSel", "execIns", "outIns", "errIns", "agentIns", "retryIns", "bootIns", "isCancel1",
      "isCancel2", "isCancel3", "keyFind", "insert", "retryInsert", "reqFlag", "selfFlag",
      "updPut", "bootMark", "resolve", "spawn", "wait", "waitKilled", "close", "term"}
     \subseteq TaskPoints
  /\ TaskPoints \subseteq Points
BY DEF TaskPoints, Points, StorePoints, JsPoints, ReadPoints, SelPoints, InsPoints, FlagReads

(* Removing the continuation that runs from the turn leaves a turn. *)
LEMMA LeaveType ==
  ASSUME turn \in Seq(Actors), NEW i \in DOMAIN turn, NEW jobs \in Seq(Actors)
  PROVE  Leave(i) \o jobs \in Seq(Actors) /\ Leave(i) \in Seq(Actors)
BY DEF Leave

LEMMA EmptyJobs == <<>> \in Seq(Actors)
OBVIOUS

(* A continuation of a runs (possibly waking the worker) and a goes to p.    *)
Runs(a) == \E jobs \in {<<>>, <<Worker>>} :
             \/ \E points : Resume(a, points, jobs)
             \/ \E q : Complete(a, q, jobs)
Goes(a, p) == \/ IssueFrom(at, a, p) \/ AwaitFrom(at, a, p)
              \/ IssueFrom(AtWoken, a, p) \/ AwaitFrom(AtWoken, a, p)

LEMMA RunsType ==
  ASSUME TypeInv, NEW a, Runs(a)
  PROVE  /\ turn' \in Seq(Actors) /\ settled' \in Seq(Actors) /\ DbTypeOK'
         /\ UNCHANGED <<dbVars, crashes, stops, faults>>
<1>1. PICK jobs \in {<<>>, <<Worker>>} : (\E points : Resume(a, points, jobs))
                                       \/ (\E q : Complete(a, q, jobs))
  BY DEF Runs
<1>2. jobs \in Seq(Actors)
  <2>1. <<>> \in Seq(Actors)
    OBVIOUS
  <2>2. <<Worker>> \in Seq(Actors)
    BY ActorsDistinct
  <2> QED BY <2>1, <2>2
<1>3. UNCHANGED <<settled, dbVars, crashes, stops, faults>>
  BY <1>1 DEF Resume, Complete
<1>4. turn' \in Seq(Actors)
  <2>1. CASE \E points : Resume(a, points, jobs)
    <3>1. PICK i \in DOMAIN turn : turn' = Leave(i) \o jobs
      BY <2>1 DEF Resume
    <3> QED BY <3>1, <1>2, LeaveType DEF TypeInv, TypeOK, RtTypeOK
  <2>2. CASE \E q : Complete(a, q, jobs)
    BY <2>2, <1>2 DEF Complete, TypeInv, TypeOK, RtTypeOK
  <2> QED BY <1>1, <2>1, <2>2
<1> QED BY <1>3, <1>4 DEF TypeInv, TypeOK, RtTypeOK, DbTypeOK, dbVars

LEMMA GoesType ==
  ASSUME TypeInv, NEW a \in Actors, NEW p \in Points, Goes(a, p)
  PROVE  /\ lane' \in Seq(Actors) /\ at' \in [Actors -> Outcomes]
         /\ pc' \in [Actors -> Points] /\ pc' = [pc EXCEPT ![a] = p]
         /\ at'[a] \in {"lane", "js"}
         /\ \A b \in Actors : b # a => at'[b] = at[b] \/ at'[b] = "settled"
<1>1. AtWoken \in [Actors -> Outcomes]
  BY DEF AtWoken, Outcomes, TypeInv, TypeOK, RtTypeOK
<1>2. \A b \in Actors : AtWoken[b] = at[b] \/ AtWoken[b] = "settled"
  BY DEF AtWoken, TypeInv, TypeOK, RtTypeOK
<1>3. at \in [Actors -> Outcomes] /\ pc \in [Actors -> Points] /\ lane \in Seq(Actors)
  BY DEF TypeInv, TypeOK, RtTypeOK
<1>4. CASE IssueFrom(at, a, p)
  BY <1>3, <1>4 DEF IssueFrom, Outcomes
<1>5. CASE AwaitFrom(at, a, p)
  BY <1>3, <1>5 DEF AwaitFrom, Outcomes
<1>6. CASE IssueFrom(AtWoken, a, p)
  BY <1>1, <1>2, <1>3, <1>6 DEF IssueFrom, Outcomes
<1>7. CASE AwaitFrom(AtWoken, a, p)
  BY <1>1, <1>2, <1>3, <1>7 DEF AwaitFrom, Outcomes
<1> QED BY <1>4, <1>5, <1>6, <1>7 DEF Goes

(* One script step of a: what is left to show about its locals. *)
LEMMA ScriptStep ==
  ASSUME TypeInv, NEW a \in Actors, NEW p \in Points, p \notin {"keyFind", "retryGet"},
         Runs(a), Goes(a, p),
         LocalTypeOK', starts' \in [Tasks -> Nat], reply' \in [Handlers -> Replies],
         fresh' = fresh, \A b \in Actors : b # a => arg'[b] = arg[b],
         p \in TaskPoints => arg'[a] \in Tasks,
         IF a = Worker THEN p \in {"outSel", "outIns"} => outs' # 0 ELSE outs' = outs
  PROVE  TypeInv'
<1>1. RtTypeOK'
  BY RunsType, GoesType DEF RtTypeOK
<1>2. HistoryTypeOK'
  BY RunsType DEF TypeInv, TypeOK, HistoryTypeOK
<1>3. LocalsDefined'
  <2>1. pc' = [pc EXCEPT ![a] = p] /\ pc \in [Actors -> Points]
    BY GoesType DEF TypeInv, TypeOK, RtTypeOK
  <2>2. \A b \in Actors : b # a /\ at'[b] = "lane" => at[b] = "lane"
    BY GoesType
  <2> QED BY <2>1, <2>2, ActorsDistinct DEF LocalsDefined, TypeInv
<1> QED BY <1>1, <1>2, <1>3, RunsType DEF TypeInv, TypeOK

(* What every Store operation has in common. *)
LEMMA ServeType ==
  ASSUME TypeInv, NEW a \in Actors, NEW points, NEW o \in {"settled", "rejected"},
         Serve(a, points, o)
  PROVE  /\ RtTypeOK'
         /\ at[a] = "lane" /\ pc[a] \in points
         /\ at' = [at EXCEPT ![a] = o]
         /\ \A b \in Actors : at'[b] = "lane" => at[b] = "lane" /\ b # a
         /\ UNCHANGED <<pc, child, wakePending, starts, reply, crashes, stops>>
BY DEF Serve, TypeInv, TypeOK, RtTypeOK, Outcomes

LEMMA ExecuteType ==
  ASSUME TypeInv, NEW a \in Actors, NEW points, Execute(a, points)
  PROVE  /\ RtTypeOK' /\ HistoryTypeOK'
         /\ at[a] = "lane" /\ pc[a] \in points
         /\ \A b \in Actors : at'[b] = "lane" => at[b] = "lane" /\ b # a
         /\ UNCHANGED <<pc, child, wakePending>>
<1>1. Serve(a, points, "settled") /\ faults' = faults
  BY DEF Execute
<1> QED BY <1>1, ServeType DEF TypeInv, TypeOK, HistoryTypeOK

(* Every Store operation keeps the types. *)
LEMMA StoreTypes == ASSUME TypeInv, StoreStep PROVE TypeInv'
<1> USE DEF TypeInv, TypeOK
<1>1. ASSUME NEW a \in Actors, GetTask(a) PROVE TypeInv'
  <2>1. Execute(a, ReadPoints)
    BY <1>1 DEF GetTask
  <2>2. arg[a] \in Tasks
    BY <2>1, ExecuteType DEF ReadPoints, TaskPoints, StorePoints, LocalsDefined
  <2>3. LocalTypeOK' /\ DbTypeOK'
    BY <1>1, <2>1, <2>2, ExecuteType DEF GetTask, LocalTypeOK, DbTypeOK, dbVars
  <2>4. LocalsDefined'
    BY <1>1, <2>1, ExecuteType, ActorsDistinct DEF GetTask, LocalsDefined
  <2> QED BY <2>1, <2>3, <2>4, ExecuteType
<1>2. ASSUME NEW a \in Actors, SetCancelFlag(a) PROVE TypeInv'
  <2>1. Execute(a, {"reqFlag", "selfFlag"})
    BY <1>2 DEF SetCancelFlag
  <2>2. LocalTypeOK' /\ DbTypeOK'
    BY <1>2, <2>1, ExecuteType DEF SetCancelFlag, LocalTypeOK, DbTypeOK, locals
  <2>3. LocalsDefined'
    BY <1>2, <2>1, ExecuteType, ActorsDistinct DEF SetCancelFlag, LocalsDefined, locals
  <2> QED BY <2>1, <2>2, <2>3, ExecuteType
<1>3. ASSUME NEW a \in Actors, WriteStatus(a) PROVE TypeInv'
  <2>1. Execute(a, {"updPut"})
    BY <1>3 DEF WriteStatus
  <2>2. LocalTypeOK' /\ DbTypeOK'
    BY <1>3, <2>1, ExecuteType DEF WriteStatus, LocalTypeOK, DbTypeOK, locals, Status
  <2>3. LocalsDefined'
    BY <1>3, <2>1, ExecuteType, ActorsDistinct DEF WriteStatus, LocalsDefined, locals
  <2> QED BY <2>1, <2>2, <2>3, ExecuteType
<1>4. ASSUME NEW a \in Actors, LogSequence(a) PROVE TypeInv'
  <2>1. Execute(a, SelPoints)
    BY <1>4 DEF LogSequence
  <2>2. arg[a] \in Tasks
    BY <2>1, ExecuteType DEF SelPoints, TaskPoints, StorePoints, LocalsDefined
  <2>3. LocalTypeOK' /\ DbTypeOK'
    BY <1>4, <2>1, <2>2, ExecuteType DEF LogSequence, LocalTypeOK, DbTypeOK, dbVars
  <2>4. LocalsDefined'
    BY <1>4, <2>1, ExecuteType, ActorsDistinct DEF LogSequence, LocalsDefined
  <2> QED BY <2>1, <2>3, <2>4, ExecuteType
<1>5. ASSUME NEW a \in Actors, LogInsert(a) PROVE TypeInv'
  <2>1. PICK o \in {"settled", "rejected"} :
          /\ Serve(a, InsPoints, o)
          /\ logs' = [logs EXCEPT ![arg[a]] = IF seq[a] <= logs[arg[a]] THEN @ ELSE seq[a]]
          /\ UNCHANGED <<status, cancelFlag, created, keyed, locals, faults>>
    BY <1>5 DEF LogInsert
  <2>2. logs' \in [Tasks -> Nat]
    BY <2>1 DEF LocalTypeOK, DbTypeOK
  <2>3. DbTypeOK'
    BY <2>1, <2>2 DEF DbTypeOK
  <2>5. LocalTypeOK'
    <3>1. UNCHANGED locals
      BY <2>1
    <3> QED BY <2>1, <3>1, ServeType DEF LocalTypeOK, locals
  <2>6. HistoryTypeOK'
    BY <2>1, ServeType DEF HistoryTypeOK
  <2>4. LocalsDefined'
    BY <2>1, ServeType, ActorsDistinct DEF LocalsDefined, locals
  <2> QED BY <2>1, <2>3, <2>4, <2>5, <2>6, ServeType
<1>6. ASSUME NEW h \in Handlers, FindByIdempotencyKey(h) PROVE TypeInv'
  <2>1. Execute(h, {"keyFind"}) /\ h \in Actors
    BY <1>6, ActorsDistinct DEF FindByIdempotencyKey
  <2>2. keyed[KeyOf[arg[h]]] \in Tasks \cup {None}
    <3>1. arg[h] \in Tasks /\ KeyOf[arg[h]] # None
      BY <2>1, ExecuteType DEF TaskPoints, StorePoints, LocalsDefined
    <3> QED BY <3>1 DEF Keys, DbTypeOK
  <2>3. LocalTypeOK' /\ DbTypeOK'
    BY <1>6, <2>1, <2>2, ExecuteType DEF FindByIdempotencyKey, LocalTypeOK, DbTypeOK, dbVars
  <2>4. arg[h] \in Tasks
    BY <2>1, ExecuteType DEF TaskPoints, StorePoints, LocalsDefined
  <2>5. arg'[h] \in Tasks /\ \A b \in Actors : b # h => arg'[b] = arg[b]
    BY <1>6, <2>1, <2>2, <2>4 DEF FindByIdempotencyKey, LocalTypeOK
  <2>6. LocalsDefined'
    BY <1>6, <2>1, <2>5, ExecuteType, ActorsDistinct DEF FindByIdempotencyKey, LocalsDefined
  <2> QED BY <2>1, <2>3, <2>6, ExecuteType
<1>7. ASSUME NEW h \in Handlers, CreateTask(h) PROVE TypeInv'
  <2>1. Execute(h, {"insert", "retryInsert"}) /\ h \in Actors
    BY <1>7, ActorsDistinct DEF CreateTask
  <2>2. arg[h] \in Tasks
    BY <2>1, ExecuteType DEF TaskPoints, StorePoints, LocalsDefined
  <2>3. LocalTypeOK'
    BY <1>7, <2>1, ExecuteType DEF CreateTask, LocalTypeOK
  <2>4. DbTypeOK'
    <3> DEFINE key == IF pc[h] = "insert" THEN KeyOf[arg[h]] ELSE None
    <3>1. UNCHANGED <<cancelFlag, logs>>
      BY <1>7 DEF CreateTask
    <3>2. CASE UNCHANGED <<status, created, keyed>>
      BY <3>1, <3>2 DEF DbTypeOK
    <3>3. CASE /\ status' = [status EXCEPT ![arg[h]] = "queued"]
               /\ created' = Append(created, arg[h])
               /\ keyed' = [k \in Keys |-> IF k = key THEN arg[h] ELSE keyed[k]]
      BY <2>2, <3>1, <3>3 DEF DbTypeOK, Status
    <3> QED BY <1>7, <3>2, <3>3, Zenon DEF CreateTask
  <2>5. LocalsDefined'
    BY <1>7, <2>1, ExecuteType, ActorsDistinct DEF CreateTask, LocalsDefined
  <2> QED BY <2>1, <2>3, <2>4, <2>5, ExecuteType
<1>8. CASE IsCancelRequested
  <2>1. Execute(Worker, FlagReads) /\ Worker \in Actors
    BY <1>8, ActorsDistinct DEF IsCancelRequested
  <2>2. arg[Worker] \in Tasks
    BY <2>1, ExecuteType DEF FlagReads, TaskPoints, StorePoints, LocalsDefined
  <2>3. LocalTypeOK' /\ DbTypeOK'
    BY <1>8, <2>1, <2>2, ExecuteType DEF IsCancelRequested, LocalTypeOK, DbTypeOK, dbVars
  <2>4. LocalsDefined'
    BY <1>8, <2>1, ExecuteType, ActorsDistinct DEF IsCancelRequested, LocalsDefined
  <2> QED BY <2>1, <2>3, <2>4, ExecuteType
<1>9. CASE HasRunning
  <2>1. Execute(Worker, {"hasRunning"}) /\ Worker \in Actors
    BY <1>9, ActorsDistinct DEF HasRunning
  <2>2. LocalTypeOK' /\ DbTypeOK'
    BY <1>9, <2>1, ExecuteType DEF HasRunning, LocalTypeOK, DbTypeOK, dbVars
  <2>3. LocalsDefined'
    BY <1>9, <2>1, ExecuteType, ActorsDistinct DEF HasRunning, LocalsDefined
  <2> QED BY <2>1, <2>2, <2>3, ExecuteType
<1>10. CASE ClaimNextQueued
  <2>1. Execute(Worker, {"claim"}) /\ Worker \in Actors
    BY <1>10, ActorsDistinct DEF ClaimNextQueued
  <2>2. claimed' \in Tasks \cup {None} /\ status' \in [Tasks -> Status]
    <3>1. status \in [Tasks -> Status] /\ created \in Seq(Tasks)
      BY DEF DbTypeOK
    <3>2. CASE claimed' = None /\ UNCHANGED status
      BY <3>1, <3>2
    <3>3. ASSUME NEW i \in DOMAIN created,
                 claimed' = created[i] /\ status' = [status EXCEPT ![created[i]] = "running"]
          PROVE  claimed' \in Tasks \cup {None} /\ status' \in [Tasks -> Status]
      <4>1. created[i] \in Tasks
        BY <3>1
      <4> QED BY <3>1, <3>3, <4>1 DEF Status
    <3> QED BY <1>10, <3>2, <3>3, Zenon DEF ClaimNextQueued
  <2>3. LocalTypeOK' /\ DbTypeOK'
    BY <1>10, <2>1, <2>2, ExecuteType DEF ClaimNextQueued, LocalTypeOK, DbTypeOK
  <2>4. LocalsDefined'
    BY <1>10, <2>1, ExecuteType, ActorsDistinct DEF ClaimNextQueued, LocalsDefined
  <2> QED BY <2>1, <2>3, <2>4, ExecuteType
<1>11. CASE ListInterrupted
  <2>1. Execute(Main, {"bootList"}) /\ Main \in Actors
    BY <1>11, ActorsDistinct DEF ListInterrupted
  <2>2. LocalTypeOK' /\ DbTypeOK'
    BY <1>11, <2>1, ExecuteType DEF ListInterrupted, LocalTypeOK, DbTypeOK, dbVars
  <2>3. LocalsDefined'
    BY <1>11, <2>1, ExecuteType, ActorsDistinct DEF ListInterrupted, LocalsDefined
  <2> QED BY <2>1, <2>2, <2>3, ExecuteType
<1>12. CASE MarkInterrupted
  <2>1. Execute(Main, {"bootMark"}) /\ Main \in Actors
    BY <1>12, ActorsDistinct DEF MarkInterrupted, MarkAs
  <2>2. LocalTypeOK'
    BY <1>12, <2>1, ExecuteType DEF MarkInterrupted, MarkAs, LocalTypeOK, locals
  <2>3. DbTypeOK'
    BY <1>12 DEF MarkInterrupted, MarkAs, DbTypeOK, Status, Terminal
  <2>4. LocalsDefined'
    BY <1>12, <2>1, ExecuteType, ActorsDistinct
    DEF MarkInterrupted, MarkAs, LocalsDefined, locals
  <2> QED BY <2>1, <2>2, <2>3, <2>4, ExecuteType
<1> QED BY <1>1, <1>2, <1>3, <1>4, <1>5, <1>6, <1>7, <1>8, <1>9, <1>10, <1>11, <1>12
        DEF StoreStep

(* A failing operation writes nothing. *)
LEMMA StoreFaultType == ASSUME TypeInv, NEW a \in Actors, StoreFault(a) PROVE TypeInv'
<1>1. Serve(a, StorePoints \ {"dbClose"}, "rejected")
  BY DEF StoreFault
<1>2. LocalTypeOK' /\ DbTypeOK' /\ HistoryTypeOK'
  <2>1. UNCHANGED <<status, cancelFlag, created, keyed, logs>>
    BY DEF StoreFault, dbVars
  <2>2. UNCHANGED <<arg, seen, flag, goal, seq, fresh, claimed, outs, todo>>
    BY DEF StoreFault, locals
  <2>3. UNCHANGED <<child, wakePending, starts, reply, crashes, stops>> /\ faults' = faults + 1
    BY <1>1 DEF StoreFault, Serve
  <2>4. LocalTypeOK'
    BY <2>2, <2>3 DEF TypeInv, TypeOK, LocalTypeOK
  <2>5. DbTypeOK'
    BY <2>1 DEF TypeInv, TypeOK, DbTypeOK
  <2>6. HistoryTypeOK'
    BY <2>3 DEF TypeInv, TypeOK, HistoryTypeOK
  <2> QED BY <2>4, <2>5, <2>6
<1>3. LocalsDefined'
  BY <1>1, ServeType, ActorsDistinct DEF StoreFault, TypeInv, LocalsDefined, locals
<1> QED BY <1>1, <1>2, <1>3, ServeType DEF TypeInv, TypeOK

(* Every step of the worker keeps the types. *)
LEMMA WorkerTypes ==
  ASSUME TypeInv, WorkerStep \/ WorkerAwait \/ FailureClosed PROVE TypeInv'
<1>a. Worker \in Actors
  BY ActorsDistinct
<1>b. LocalTypeOK /\ starts \in [Tasks -> Nat] /\ reply \in [Handlers -> Replies]
  BY DEF TypeInv, TypeOK, HistoryTypeOK
<1>c. pc[Worker] \in TaskPoints => arg[Worker] \in Tasks
  BY <1>a DEF TypeInv, LocalsDefined
<1>1. CASE WakeUp
  <2>1. PICK p \in {"exited", "hasRunning"} : Goes(Worker, p)
    BY <1>1 DEF WakeUp, Pump, Goes, Issue, Await
  <2>2. Runs(Worker)
    BY <1>1 DEF WakeUp, WorkerResumes, Runs
  <2>3. LocalTypeOK' /\ UNCHANGED <<locals, starts, reply>>
    BY <1>1, <1>b DEF WakeUp, NoWake, NoProcess, KeepLocals, LocalTypeOK, locals
  <2> QED BY <1>a, <1>b, <2>1, <2>2, <2>3, PointSets, ScriptStep DEF locals
<1>2. CASE CheckedRunning
  <2>1. PICK p \in {"exited", "hasRunning", "waiting", "claim"} : Goes(Worker, p)
    BY <1>2 DEF CheckedRunning, PumpIdle, Goes, Issue, Await
  <2>2. Runs(Worker)
    BY <1>2 DEF CheckedRunning, WorkerResumes, Runs
  <2>3. LocalTypeOK' /\ UNCHANGED <<locals, starts, reply>>
    BY <1>2, <1>b DEF CheckedRunning, PumpIdle, NoWake, NoProcess, KeepLocals, LocalTypeOK, locals
  <2> QED BY <1>a, <1>b, <2>1, <2>2, <2>3, PointSets, ScriptStep DEF locals
<1>3. CASE Claimed
  <2>1. PICK p \in {"exited", "hasRunning", "waiting", "selfGet", "isCancel1"} :
          Goes(Worker, p) /\ (p \in TaskPoints => arg'[Worker] \in Tasks)
    BY <1>3, <1>a, <1>b, PointSets
    DEF Claimed, PumpIdle, Goes, Issue, Await, LocalTypeOK
  <2>2. Runs(Worker)
    BY <1>3 DEF Claimed, WorkerResumes, Runs
  <2>3. LocalTypeOK' /\ UNCHANGED <<fresh, starts, reply>>
        /\ \A b \in Actors : b # Worker => arg'[b] = arg[b]
    BY <1>3, <1>b DEF Claimed, PumpIdle, NoWake, NoProcess, LocalTypeOK
  <2> QED BY <1>a, <1>b, <2>1, <2>2, <2>3, PointSets, ScriptStep
<1>4. CASE CancelOwnClaim
  <2>1. PICK p \in {"selfFlag", "isCancel1"} : Goes(Worker, p)
    BY <1>4 DEF CancelOwnClaim, Goes, Issue, Await
  <2>2. Runs(Worker) /\ arg[Worker] \in Tasks
    BY <1>4, <1>a, <1>c, PointSets
    DEF CancelOwnClaim, WorkerResumes, WorkerAwaited, Resume, Complete, Runs
  <2>3. LocalTypeOK' /\ UNCHANGED <<locals, reply>> /\ starts' \in [Tasks -> Nat]
    BY <1>4, <1>b DEF CancelOwnClaim, NoWake, NoProcess, KeepLocals, LocalTypeOK, locals
  <2> QED BY <1>a, <1>b, <2>1, <2>2, <2>3, PointSets, ScriptStep DEF locals
<1>5. CASE CheckedBeforeStart
  <2>1. PICK p \in {"updGet", "resolve"} : Goes(Worker, p)
    BY <1>5 DEF CheckedBeforeStart, Verdict, Goes, Issue, Await
  <2>2. Runs(Worker) /\ arg[Worker] \in Tasks
    BY <1>5, <1>a, <1>c, PointSets
    DEF CheckedBeforeStart, WorkerResumes, WorkerAwaited, Resume, Complete, Runs
  <2>3. LocalTypeOK' /\ UNCHANGED <<arg, fresh, outs, reply>> /\ starts' \in [Tasks -> Nat]
    BY <1>5, <1>b DEF CheckedBeforeStart, Verdict, Terminal, NoWake, NoProcess, LocalTypeOK, locals
  <2> QED BY <1>a, <1>b, <2>1, <2>2, <2>3, PointSets, ScriptStep
<1>6. CASE Resolved
  <2>1. PICK p \in {"execSel", "errSel"} : Goes(Worker, p)
    BY <1>6 DEF Resolved, Goes, Issue, Await
  <2>2. Runs(Worker) /\ arg[Worker] \in Tasks
    BY <1>6, <1>a, <1>c, PointSets
    DEF Resolved, WorkerResumes, WorkerAwaited, Resume, Complete, Runs
  <2>3. LocalTypeOK' /\ UNCHANGED <<locals, reply>> /\ starts' \in [Tasks -> Nat]
    BY <1>6, <1>b DEF Resolved, NoWake, NoProcess, KeepLocals, LocalTypeOK, locals
  <2> QED BY <1>a, <1>b, <2>1, <2>2, <2>3, PointSets, ScriptStep DEF locals
<1>7. CASE ExecLogged
  <2>1. PICK p \in {"spawn"} : Goes(Worker, p)
    BY <1>7 DEF ExecLogged, Goes, Issue, Await
  <2>2. Runs(Worker) /\ arg[Worker] \in Tasks
    BY <1>7, <1>a, <1>c, PointSets
    DEF ExecLogged, WorkerResumes, WorkerAwaited, Resume, Complete, Runs
  <2>3. LocalTypeOK' /\ UNCHANGED <<locals, reply>> /\ starts' \in [Tasks -> Nat]
    BY <1>7, <1>b DEF ExecLogged, NoWake, NoProcess, KeepLocals, LocalTypeOK, locals
  <2> QED BY <1>a, <1>b, <2>1, <2>2, <2>3, PointSets, ScriptStep DEF locals
<1>8. CASE Spawned
  <2>1. PICK p \in {"isCancel2", "errSel"} : Goes(Worker, p)
    BY <1>8 DEF Spawned, Goes, Issue, Await
  <2>2. Runs(Worker) /\ arg[Worker] \in Tasks
    BY <1>8, <1>a, <1>c, PointSets
    DEF Spawned, WorkerResumes, WorkerAwaited, Resume, Complete, Runs
  <2>3. LocalTypeOK' /\ UNCHANGED <<locals, reply>> /\ starts' \in [Tasks -> Nat]
    BY <1>8, <1>b, <2>2 DEF Spawned, NoWake, NoProcess, KeepLocals, LocalTypeOK, locals
  <2> QED BY <1>a, <1>b, <2>1, <2>2, <2>3, PointSets, ScriptStep DEF locals
<1>9. CASE CheckedAfterStart
  <2>1. PICK p \in {"waitKilled", "wait"} : Goes(Worker, p)
    BY <1>9 DEF CheckedAfterStart, Goes, Issue, Await
  <2>2. Runs(Worker) /\ arg[Worker] \in Tasks
    BY <1>9, <1>a, <1>c, PointSets
    DEF CheckedAfterStart, WorkerResumes, WorkerAwaited, Resume, Complete, Runs
  <2>3. LocalTypeOK' /\ UNCHANGED <<locals, reply>> /\ starts' \in [Tasks -> Nat]
    BY <1>9, <1>b DEF CheckedAfterStart, Killed, NoWake, NoProcess, KeepLocals, LocalTypeOK, locals
  <2> QED BY <1>a, <1>b, <2>1, <2>2, <2>3, PointSets, ScriptStep DEF locals
<1>10. CASE Waited
  <2>1. PICK p \in {"isCancel3", "errSel", "updGet", "outSel"} :
          Goes(Worker, p) /\ (p = "outSel" => outs' # 0)
    BY <1>10 DEF Waited, LogThenVerdict, Goes, Issue, Await
  <2>2. Runs(Worker) /\ arg[Worker] \in Tasks
    BY <1>10, <1>a, <1>c, PointSets DEF Waited, WorkerAwaited, Complete, Runs
  <2>3. LocalTypeOK' /\ UNCHANGED <<arg, fresh, starts, reply>>
    BY <1>10, <1>b DEF Waited, LogThenVerdict, Terminal, NoWake, NoProcess, LocalTypeOK
  <2> QED BY <1>a, <1>b, <2>1, <2>2, <2>3, PointSets, ScriptStep
<1>11. CASE CheckedAfterExit
  <2>1. PICK p \in {"updGet", "outSel"} : Goes(Worker, p) /\ (p = "outSel" => outs' # 0)
    BY <1>11 DEF CheckedAfterExit, LogThenVerdict, Goes, Issue, Await
  <2>2. Runs(Worker) /\ arg[Worker] \in Tasks
    BY <1>11, <1>a, <1>c, PointSets DEF CheckedAfterExit, WorkerResumes, Resume, Runs
  <2>3. LocalTypeOK' /\ UNCHANGED <<arg, fresh, starts, reply>>
    BY <1>11, <1>b DEF CheckedAfterExit, LogThenVerdict, Terminal, NoWake, NoProcess, LocalTypeOK
  <2> QED BY <1>a, <1>b, <2>1, <2>2, <2>3, PointSets, ScriptStep
<1>12. CASE OutLogged
  <2>1. Runs(Worker) /\ arg[Worker] \in Tasks /\ outs # 0
    BY <1>12, <1>a, <1>c, PointSets
    DEF OutLogged, WorkerResumes, Resume, Runs, TypeInv, LocalsDefined
  <2>2. PICK p \in {"updGet", "outSel"} : Goes(Worker, p) /\ (p = "outSel" => outs' # 0)
    BY <1>12, <1>b DEF OutLogged, Goes, Issue, LocalTypeOK
  <2>3. LocalTypeOK' /\ UNCHANGED <<arg, fresh, starts, reply>>
    BY <1>12, <1>b, <2>1 DEF OutLogged, NoWake, NoProcess, LocalTypeOK
  <2> QED BY <1>a, <1>b, <2>1, <2>2, <2>3, PointSets, ScriptStep
<1>13. CASE ErrorLogged
  <2>1. PICK p \in {"errGet"} : Goes(Worker, p)
    BY <1>13 DEF ErrorLogged, Goes, Issue, Await
  <2>2. Runs(Worker) /\ arg[Worker] \in Tasks
    BY <1>13, <1>a, <1>c, PointSets
    DEF ErrorLogged, WorkerResumes, WorkerAwaited, Resume, Complete, Runs
  <2>3. LocalTypeOK' /\ UNCHANGED <<locals, starts, reply>>
    BY <1>13, <1>b DEF ErrorLogged, NoWake, NoProcess, KeepLocals, LocalTypeOK, locals
  <2> QED BY <1>a, <1>b, <2>1, <2>2, <2>3, PointSets, ScriptStep DEF locals
<1>14. CASE ErrorRead
  <2>1. PICK p \in {"doneGet", "close", "updGet"} : Goes(Worker, p)
    BY <1>14 DEF ErrorRead, Finish, Verdict, Goes, Issue, Await
  <2>2. Runs(Worker) /\ arg[Worker] \in Tasks
    BY <1>14, <1>a, <1>c, PointSets
    DEF ErrorRead, WorkerResumes, WorkerAwaited, Resume, Complete, Runs
  <2>3. LocalTypeOK' /\ UNCHANGED <<arg, fresh, outs, starts, reply>>
    BY <1>14, <1>b DEF ErrorRead, Finish, Verdict, Terminal, NoWake, LocalTypeOK, locals
  <2> QED BY <1>a, <1>b, <2>1, <2>2, <2>3, PointSets, ScriptStep
<1>15. CASE WorkerUpdated
  <2>1. PICK p \in {"agentSel", "doneGet", "close"} : Goes(Worker, p)
    BY <1>15 DEF WorkerUpdated, Finish, Goes, Issue, Await
  <2>2. Runs(Worker) /\ arg[Worker] \in Tasks
    BY <1>15, <1>a, <1>c, PointSets
    DEF WorkerUpdated, WorkerResumes, WorkerAwaited, Resume, Complete, Runs
  <2>3. LocalTypeOK' /\ UNCHANGED <<locals, starts, reply>>
    BY <1>15, <1>b DEF WorkerUpdated, Finish, NoWake, KeepLocals, LocalTypeOK, locals
  <2> QED BY <1>a, <1>b, <2>1, <2>2, <2>3, PointSets, ScriptStep DEF locals
<1>16. CASE AgentLogged
  <2>1. PICK p \in {"doneGet", "close"} : Goes(Worker, p)
    BY <1>16 DEF AgentLogged, Finish, Goes, Issue, Await
  <2>2. Runs(Worker) /\ arg[Worker] \in Tasks
    BY <1>16, <1>a, <1>c, PointSets
    DEF AgentLogged, WorkerResumes, WorkerAwaited, Resume, Complete, Runs
  <2>3. LocalTypeOK' /\ UNCHANGED <<locals, starts, reply>>
    BY <1>16, <1>b DEF AgentLogged, Finish, NoWake, KeepLocals, LocalTypeOK, locals
  <2> QED BY <1>a, <1>b, <2>1, <2>2, <2>3, PointSets, ScriptStep DEF locals
<1>17. CASE ProcessClosed
  <2>1. PICK p \in {"doneGet"} : Goes(Worker, p)
    BY <1>17 DEF ProcessClosed, Goes, Issue, Await
  <2>2. Runs(Worker) /\ arg[Worker] \in Tasks
    BY <1>17, <1>a, <1>c, PointSets
    DEF ProcessClosed, WorkerResumes, WorkerAwaited, Resume, Complete, Runs
  <2>3. LocalTypeOK' /\ UNCHANGED <<locals, starts, reply>>
    BY <1>17, <1>b DEF ProcessClosed, NoWake, NoProcess, KeepLocals, LocalTypeOK, locals
  <2> QED BY <1>a, <1>b, <2>1, <2>2, <2>3, PointSets, ScriptStep DEF locals
<1>18. CASE PumpDone
  <2>1. PICK p \in {"exited", "hasRunning"} : Goes(Worker, p)
    BY <1>18 DEF PumpDone, Pump, Goes, Issue, Await
  <2>2. Runs(Worker)
    BY <1>18 DEF PumpDone, WorkerResumes, Runs
  <2>3. LocalTypeOK' /\ UNCHANGED <<fresh, starts, reply>>
        /\ \A b \in Actors : b # Worker => arg'[b] = arg[b]
    BY <1>18, <1>b DEF PumpDone, NoWake, NoProcess, LocalTypeOK
  <2> QED BY <1>a, <1>b, <2>1, <2>2, <2>3, PointSets, ScriptStep
<1>19. CASE WorkerFails \/ FailureClosed
  <2>1. DbTypeOK' /\ LocalTypeOK' /\ HistoryTypeOK'
    BY <1>19, <1>b
    DEF WorkerFails, FailureClosed, LoopRejects, Complete, NoWake, NoProcess, TypeInv, TypeOK,
        DbTypeOK, LocalTypeOK, HistoryTypeOK, dbVars, history
  <2>2. turn' \in Seq(Actors)
    <3>1. CASE WorkerFails
      <4>1. PICK i \in DOMAIN turn : turn' = Leave(i)
        BY <3>1 DEF WorkerFails
      <4> QED BY <4>1, LeaveType, EmptyJobs DEF TypeInv, TypeOK, RtTypeOK
    <3>2. CASE FailureClosed
      BY <3>2 DEF FailureClosed, Complete, TypeInv, TypeOK, RtTypeOK
    <3> QED BY <1>19, <3>1, <3>2
  <2>3. /\ \/ pc' = [pc EXCEPT ![Worker] = "failed",
                             ![Main] = IF @ = "up" THEN "closing" ELSE @]
           \/ pc' = [pc EXCEPT ![Worker] = "failClose"]
        /\ at' = [at EXCEPT ![Worker] = "js"] \/ at' = at
        /\ arg' = [arg EXCEPT ![Worker] = None] \/ arg' = arg
        /\ UNCHANGED <<lane, settled, fresh, outs>>
    BY <1>19 DEF WorkerFails, FailureClosed, LoopRejects, Complete
  <2>4. RtTypeOK'
    BY <2>2, <2>3, PointSets DEF RtTypeOK, TypeInv, TypeOK, Outcomes
  <2>5. LocalsDefined'
    <3>1. /\ pc'[Worker] \notin TaskPoints \cup {"outSel", "outIns"}
          /\ pc'[Main] = pc[Main] \/ pc'[Main] \notin TaskPoints
      BY <2>3, PointSets, ActorsDistinct DEF TypeInv, TypeOK, RtTypeOK
    <3>2. /\ \A a \in Actors \ {Worker} : arg'[a] = arg[a] /\ at'[a] = at[a]
          /\ \A h \in Handlers : pc'[h] = pc[h]
      BY <2>3, <1>a, <1>b, ActorsDistinct DEF TypeInv, TypeOK, RtTypeOK, LocalTypeOK
    <3> QED BY <2>3, <3>1, <3>2, ActorsDistinct DEF TypeInv, LocalsDefined, Actors
  <2> QED BY <2>1, <2>4, <2>5 DEF TypeInv, TypeOK
<1> QED BY <1>1, <1>2, <1>3, <1>4, <1>5, <1>6, <1>7, <1>8, <1>9, <1>10, <1>11, <1>12, <1>13,
           <1>14, <1>15, <1>16, <1>17, <1>18, <1>19
        DEF WorkerStep, WorkerAwait

(* Steps shared by the worker, the handlers and the main flow. *)
LEMMA SharedTypes ==
  ASSUME TypeInv, NEW a \in Actors,
         NextStatement(a) \/ (a # Worker /\ (CancelStep(a) \/ Terminated(a)))
  PROVE  TypeInv'
<1>b. LocalTypeOK /\ starts \in [Tasks -> Nat] /\ reply \in [Handlers -> Replies]
  BY DEF TypeInv, TypeOK, HistoryTypeOK
<1>c. pc[a] \in TaskPoints => arg[a] \in Tasks
  BY DEF TypeInv, LocalsDefined
<1>1. CASE NextStatement(a)
  <2>1. Runs(a) /\ arg[a] \in Tasks
    BY <1>1, <1>c, PointSets DEF NextStatement, Resume, Runs, SelPoints
  <2>2. PICK p \in {"updPut"} \cup InsPoints : Goes(a, p) /\ (p = "outIns" => pc[a] = "outSel")
    BY <1>1 DEF NextStatement, Resume, Goes, Issue, InsOf, SelPoints, InsPoints
  <2>3. LocalTypeOK' /\ UNCHANGED <<locals, starts, reply>>
    BY <1>1, <1>b DEF NextStatement, NoWake, NoProcess, KeepLocals, LocalTypeOK, locals
  <2>4. a = Worker => (p \in {"outSel", "outIns"} => outs' # 0)
    BY <2>2, <2>3 DEF locals, InsPoints, TypeInv, LocalsDefined
  <2> QED BY <1>b, <2>1, <2>2, <2>3, <2>4, PointSets, ScriptStep DEF locals, InsPoints
<1>2. CASE a # Worker /\ CancelRead(a)
  <2>1. Runs(a) /\ arg[a] \in Tasks
    BY <1>2, <1>c, PointSets DEF CancelRead, Resume, Runs
  <2>2. PICK p \in {"reqFlag", "term", "join", "after", "done"} : Goes(a, p)
    BY <1>2 DEF CancelRead, CancelRunning, AfterCancel, Answer, Goes, Issue, Await
  <2>3. LocalTypeOK' /\ UNCHANGED <<locals, starts>> /\ reply' \in [Handlers -> Replies]
    BY <1>2, <1>b DEF CancelRead, CancelRunning, Killed, Answer, NoWake, KeepLocals, LocalTypeOK,
                     locals, Replies
  <2> QED BY <1>2, <1>b, <2>1, <2>2, <2>3, PointSets, ScriptStep DEF locals
<1>3. CASE a # Worker /\ CancelFlagged(a)
  <2>1. Runs(a) /\ arg[a] \in Tasks
    BY <1>3, <1>c, PointSets DEF CancelFlagged, Resume, Runs
  <2>2. PICK p \in {"updGet", "term", "join", "after"} : Goes(a, p)
    BY <1>3 DEF CancelFlagged, CancelRunning, AfterCancel, Goes, Issue, Await
  <2>3. LocalTypeOK' /\ UNCHANGED <<arg, fresh, outs, starts, reply>>
    BY <1>3, <1>b DEF CancelFlagged, CancelRunning, Killed, Terminal, NoWake, LocalTypeOK
  <2> QED BY <1>3, <1>b, <2>1, <2>2, <2>3, PointSets, ScriptStep
<1>4. CASE a # Worker /\ CancelUpdated(a)
  <2>1. Runs(a) /\ arg[a] \in Tasks
    BY <1>4, <1>c, PointSets DEF CancelUpdated, Resume, Runs
  <2>2. PICK p \in {"term", "join", "after"} : Goes(a, p)
    BY <1>4 DEF CancelUpdated, CancelRunning, AfterCancel, Goes, Issue, Await
  <2>3. LocalTypeOK' /\ UNCHANGED <<locals, starts, reply>>
    BY <1>4, <1>b DEF CancelUpdated, CancelRunning, Killed, NoWake, KeepLocals, LocalTypeOK, locals
  <2> QED BY <1>4, <1>b, <2>1, <2>2, <2>3, PointSets, ScriptStep DEF locals
<1>5. CASE a # Worker /\ Terminated(a)
  <2>1. Runs(a) /\ arg[a] \in Tasks
    BY <1>5, <1>c, PointSets DEF Terminated, Complete, Runs
  <2>2. PICK p \in {"join", "after"} : Goes(a, p)
    BY <1>5 DEF Terminated, AfterCancel, Goes, Issue, Await
  <2>3. LocalTypeOK' /\ UNCHANGED <<locals, starts, reply>>
    BY <1>5, <1>b DEF Terminated, NoWake, NoProcess, KeepLocals, LocalTypeOK, locals
  <2> QED BY <1>5, <1>b, <2>1, <2>2, <2>3, PointSets, ScriptStep DEF locals
<1> QED BY <1>1, <1>2, <1>3, <1>4, <1>5 DEF CancelStep

(* Every step of a handler keeps the types. *)
LEMMA HandlerTypes == ASSUME TypeInv, NEW h \in Handlers, HandlerStep(h) PROVE TypeInv'
<1>a. h \in Actors /\ h # Worker /\ h # Main
  BY ActorsDistinct
<1>b. LocalTypeOK /\ starts \in [Tasks -> Nat] /\ reply \in [Handlers -> Replies]
  BY DEF TypeInv, TypeOK, HistoryTypeOK
<1>c. pc[h] \in TaskPoints => arg[h] \in Tasks
  BY <1>a DEF TypeInv, LocalsDefined
<1>w. WakeJobs \in {<<>>, <<Worker>>}
  BY DEF WakeJobs
<1>1. CASE FoundKey(h)
  <2>1. Runs(h) /\ arg[h] \in Tasks
    BY <1>1, <1>c, PointSets DEF FoundKey, Resume, Runs
  <2>2. PICK p \in {"keyGet", "insert"} : Goes(h, p)
    BY <1>1 DEF FoundKey, Goes, Issue, Await
  <2>3. LocalTypeOK' /\ UNCHANGED <<locals, starts, reply>>
    BY <1>1, <1>b DEF FoundKey, NoWake, NoProcess, KeepLocals, LocalTypeOK, locals
  <2> QED BY <1>a, <1>b, <2>1, <2>2, <2>3, PointSets, ScriptStep DEF locals
<1>2. CASE Enqueued(h)
  <2>1. Runs(h) /\ arg[h] \in Tasks
    BY <1>2, <1>c, <1>w, PointSets DEF Enqueued, Resume, Runs
  <2>2. PICK p \in {"insertGet"} : Goes(h, p)
    BY <1>2 DEF Enqueued, Goes, Issue, Await
  <2>3. LocalTypeOK' /\ UNCHANGED <<locals, starts, reply>>
    BY <1>2, <1>b DEF Enqueued, Pulse, NoWake, NoProcess, KeepLocals, LocalTypeOK, locals
  <2> QED BY <1>a, <1>b, <2>1, <2>2, <2>3, PointSets, ScriptStep DEF locals
<1>3. CASE TaskAnswered(h)
  <2>1. Runs(h) /\ arg[h] \in Tasks
    BY <1>3, <1>c, PointSets DEF TaskAnswered, Resume, Runs
  <2>2. PICK p \in {"done"} : Goes(h, p)
    BY <1>3 DEF TaskAnswered, Answer, Goes, Issue, Await
  <2>3. LocalTypeOK' /\ UNCHANGED <<locals, starts>> /\ reply' \in [Handlers -> Replies]
    BY <1>3, <1>b DEF TaskAnswered, Answer, NoWake, NoProcess, KeepLocals, LocalTypeOK, locals, Replies
  <2> QED BY <1>a, <1>b, <2>1, <2>2, <2>3, PointSets, ScriptStep DEF locals
<1>4. CASE CancelBefore(h)
  <2>1. Runs(h) /\ arg[h] \in Tasks
    BY <1>4, <1>c, PointSets DEF CancelBefore, Resume, Runs
  <2>2. PICK p \in {"done", "reqGet"} : Goes(h, p)
    BY <1>4 DEF CancelBefore, Answer, Goes, Issue, Await
  <2>3. LocalTypeOK' /\ UNCHANGED <<locals, starts>> /\ reply' \in [Handlers -> Replies]
    BY <1>4, <1>b DEF CancelBefore, Answer, NoWake, NoProcess, KeepLocals, LocalTypeOK, locals, Replies
  <2> QED BY <1>a, <1>b, <2>1, <2>2, <2>3, PointSets, ScriptStep DEF locals
<1>5. CASE CancelAnswered(h)
  <2>1. Runs(h) /\ arg[h] \in Tasks
    BY <1>5, <1>c, PointSets DEF CancelAnswered, Resume, Runs
  <2>2. PICK p \in {"done"} : Goes(h, p)
    BY <1>5 DEF CancelAnswered, Answer, Goes, Issue, Await
  <2>3. LocalTypeOK' /\ UNCHANGED <<locals, starts>> /\ reply' \in [Handlers -> Replies]
    BY <1>5, <1>b DEF CancelAnswered, Answer, NoWake, NoProcess, KeepLocals, LocalTypeOK, locals, Replies
  <2> QED BY <1>a, <1>b, <2>1, <2>2, <2>3, PointSets, ScriptStep DEF locals
<1>6. CASE RetryRead(h)
  <2>1. Runs(h) /\ fresh[h] \in Tasks
    BY <1>6 DEF RetryRead, Resume, Runs, TypeInv, LocalsDefined
  <2>2. PICK p \in {"done", "retryInsert"} : Goes(h, p) /\ (p = "retryInsert" => arg'[h] = fresh[h])
    BY <1>6, <1>a, <1>b DEF RetryRead, Answer, Goes, Issue, Await, LocalTypeOK
  <2>3. LocalTypeOK' /\ UNCHANGED <<fresh, outs, starts>> /\ reply' \in [Handlers -> Replies]
        /\ \A b \in Actors : b # h => arg'[b] = arg[b]
    BY <1>6, <1>a, <1>b, <2>1 DEF RetryRead, Answer, NoWake, NoProcess, LocalTypeOK, Replies
  <2> QED BY <1>a, <1>b, <2>1, <2>2, <2>3, PointSets, ScriptStep
<1>7. CASE RetryInserted(h)
  <2>1. Runs(h) /\ arg[h] \in Tasks
    BY <1>7, <1>c, PointSets DEF RetryInserted, Resume, Runs
  <2>2. PICK p \in {"retrySel", "retryRead"} : Goes(h, p)
    BY <1>7 DEF RetryInserted, Goes, Issue, Await
  <2>3. LocalTypeOK' /\ UNCHANGED <<locals, starts, reply>>
    BY <1>7, <1>b DEF RetryInserted, NoWake, NoProcess, KeepLocals, LocalTypeOK, locals
  <2> QED BY <1>a, <1>b, <2>1, <2>2, <2>3, PointSets, ScriptStep DEF locals
<1>8. CASE RetryAnswered(h)
  <2>1. Runs(h) /\ arg[h] \in Tasks
    BY <1>8, <1>c, <1>w, PointSets DEF RetryAnswered, Resume, Runs
  <2>2. PICK p \in {"done"} : Goes(h, p)
    BY <1>8 DEF RetryAnswered, Goes, Issue, Await
  <2>3. LocalTypeOK' /\ UNCHANGED <<locals, starts>> /\ reply' \in [Handlers -> Replies]
    BY <1>8, <1>b DEF RetryAnswered, Pulse, NoWake, NoProcess, KeepLocals, LocalTypeOK, locals, Replies
  <2> QED BY <1>a, <1>b, <2>1, <2>2, <2>3, PointSets, ScriptStep DEF locals
<1>9. CASE HandlerFails(h)
  <2>1. DbTypeOK' /\ LocalTypeOK' /\ HistoryTypeOK'
    BY <1>9, <1>b
    DEF HandlerFails, Answer, TypeInv, TypeOK, DbTypeOK, LocalTypeOK, HistoryTypeOK, dbVars, locals,
        Replies
  <2>2. PICK i \in DOMAIN turn : turn' = Leave(i)
    BY <1>9 DEF HandlerFails
  <2>3. turn' \in Seq(Actors)
    BY <2>2, LeaveType, EmptyJobs DEF TypeInv, TypeOK, RtTypeOK
  <2>4. /\ pc' = [pc EXCEPT ![h] = "done"] /\ at' = [at EXCEPT ![h] = "js"]
        /\ UNCHANGED <<lane, settled, arg, fresh, outs>>
    BY <1>9 DEF HandlerFails, Answer, Await, AwaitFrom, locals
  <2>5. RtTypeOK'
    BY <2>3, <2>4, PointSets DEF RtTypeOK, TypeInv, TypeOK, Outcomes
  <2>6. LocalsDefined'
    BY <2>4, <1>a, <1>b, PointSets, ActorsDistinct
    DEF TypeInv, TypeOK, RtTypeOK, LocalTypeOK, LocalsDefined
  <2> QED BY <2>1, <2>5, <2>6 DEF TypeInv, TypeOK
<1> QED BY <1>1, <1>2, <1>3, <1>4, <1>5, <1>6, <1>7, <1>8, <1>9 DEF HandlerStep

(* A request for a stored or a new task arrives. *)
LEMMA ArriveTypes == ASSUME TypeInv, Arrive PROVE TypeInv'
<1>1. PICK h \in Handlers, t \in Tasks : PostTask(h, t) \/ PostCancel(h, t) \/ PostRetry(h, t)
  BY DEF Arrive
<1>2. PICK p \in {"insert", "keyFind", "before", "retryGet"} :
        /\ Receive(h, t, p)
        /\ p = "keyFind" => KeyOf[t] # None
        /\ \/ fresh' = fresh
           \/ \E n \in Tasks : fresh' = [fresh EXCEPT ![h] = n]
        /\ p = "retryGet" => \E n \in Tasks : fresh' = [fresh EXCEPT ![h] = n]
  BY <1>1, ConstantsOK DEF PostTask, PostCancel, PostRetry, Request
<1>3. Runs(h) /\ Goes(h, p) /\ h \in Actors /\ h # Worker /\ p \in Points
  BY <1>2, ActorsDistinct, PointSets DEF Receive, Runs, Goes, Issue
<1>4. LocalTypeOK' /\ UNCHANGED <<outs, starts, reply>>
  BY <1>2, <1>3 DEF Receive, NoWake, NoProcess, LocalTypeOK, TypeInv, TypeOK
<1>5. RtTypeOK' /\ DbTypeOK'
  BY <1>3, RunsType, GoesType DEF RtTypeOK
<1>6. HistoryTypeOK'
  BY <1>3, <1>4, RunsType DEF TypeInv, TypeOK, HistoryTypeOK
<1>7. LocalsDefined'
  <2>1. pc' = [pc EXCEPT ![h] = p] /\ pc \in [Actors -> Points]
    BY <1>3, GoesType DEF TypeInv, TypeOK, RtTypeOK
  <2>2. \A b \in Actors : b # h /\ at'[b] = "lane" => at[b] = "lane"
    BY <1>3, GoesType
  <2>3. arg' = [arg EXCEPT ![h] = t] /\ arg \in [Actors -> Tasks \cup {None}]
        /\ fresh \in [Handlers -> Tasks \cup {None}]
    BY <1>2 DEF Receive, TypeInv, TypeOK, LocalTypeOK
  <2>4. \A a \in Actors : pc'[a] \in TaskPoints => arg'[a] \in Tasks
    BY <1>3, <2>1, <2>3 DEF TypeInv, LocalsDefined
  <2>5. \A g \in Handlers : pc'[g] = "keyFind" /\ at'[g] = "lane" => KeyOf[arg'[g]] # None
    BY <1>2, <1>3, <2>1, <2>2, <2>3, ActorsDistinct DEF TypeInv, LocalsDefined
  <2>6. \A g \in Handlers : pc'[g] = "retryGet" => fresh'[g] \in Tasks
    BY <1>2, <1>3, <2>1, <2>3, ActorsDistinct DEF TypeInv, LocalsDefined
  <2>7. pc'[Worker] \in {"outSel", "outIns"} => outs' # 0
    BY <1>3, <1>4, <2>1, ActorsDistinct DEF TypeInv, LocalsDefined
  <2> QED BY <2>4, <2>5, <2>6, <2>7 DEF LocalsDefined
<1> QED BY <1>4, <1>5, <1>6, <1>7 DEF TypeInv, TypeOK

(* The process is gone: every local is reset. *)
LEMMA HaltType ==
  ASSUME TypeInv, Halt, crashes' \in Nat, stops' \in Nat, faults' \in Nat PROVE TypeInv'
<1>1. DbTypeOK' /\ HistoryTypeOK'
  BY DEF Halt, TypeInv, TypeOK, DbTypeOK, HistoryTypeOK, dbVars, Replies
<1>2. \A a \in Actors : pc'[a] \in {"down", "off", "idle", "done"}
  BY DEF Halt
<1>3. RtTypeOK'
  <2>1. pc' \in [Actors -> Points]
    BY <1>2, PointSets DEF Halt
  <2> QED BY <2>1, EmptyJobs DEF Halt, RtTypeOK, Outcomes
<1>4. LocalTypeOK'
  <2>1. arg' \in [Actors -> Tasks \cup {None}] /\ fresh' \in [Handlers -> Tasks \cup {None}]
    BY DEF Halt, TypeInv, TypeOK, LocalTypeOK
  <2>2. seen' \in [Actors -> Status] /\ goal' \in [Actors -> Terminal]
    BY DEF Halt, Status, Terminal
  <2>3. flag' \in [Actors -> BOOLEAN] /\ seq' \in [Actors -> Nat]
    BY DEF Halt
  <2>4. claimed' = None /\ outs' = 0 /\ todo' = {} /\ child' = "none" /\ wakePending' = FALSE
    BY DEF Halt
  <2>5. outs' \in 0..2 /\ todo' \in SUBSET Tasks
    BY <2>4
  <2>6. wakePending' \in BOOLEAN
    BY <2>4
  <2> QED BY <2>1, <2>2, <2>3, <2>4, <2>5, <2>6 DEF LocalTypeOK
<1>5. LocalsDefined'
  BY <1>2, PointSets, ActorsDistinct DEF LocalsDefined
<1> QED BY <1>1, <1>3, <1>4, <1>5 DEF TypeInv, TypeOK

(* Every step of the main flow keeps the types. *)
LEMMA MainTypes ==
  ASSUME TypeInv, MainStep \/ MainAwait \/ Restart \/ StopRequested \/ Crash \/ CloseStore
  PROVE  TypeInv'
<1>a. Main \in Actors /\ Main # Worker
  BY ActorsDistinct
<1>b. LocalTypeOK /\ starts \in [Tasks -> Nat] /\ reply \in [Handlers -> Replies]
  BY DEF TypeInv, TypeOK, HistoryTypeOK
<1>1. CASE Restart
  <2>1. Runs(Main) /\ Goes(Main, "bootList")
    BY <1>1 DEF Restart, Runs, Goes, Issue
  <2>2. LocalTypeOK' /\ UNCHANGED <<locals, starts, reply>>
    BY <1>1, <1>b DEF Restart, NoWake, NoProcess, KeepLocals, LocalTypeOK, locals
  <2> QED BY <1>a, <1>b, <2>1, <2>2, PointSets, ScriptStep DEF locals
<1>2. CASE Recover
  <2>1. Runs(Main) /\ UNCHANGED <<fresh, outs, starts, reply>>
    BY <1>2 DEF Recover, Runs, NoProcess
  <2>2. CASE pc[Main] = "bootMark"
    <3>1. Goes(Main, "bootSel") /\ arg' = arg /\ LocalTypeOK'
      BY <1>2, <1>b, <2>2 DEF Recover, Goes, Issue, NoWake, NoProcess, LocalTypeOK
    <3>2. arg[Main] \in Tasks
      BY <1>a, <2>2, PointSets DEF TypeInv, LocalsDefined
    <3> QED BY <1>a, <1>b, <2>1, <3>1, <3>2, PointSets, ScriptStep
  <2>3. CASE pc[Main] # "bootMark"
    <3>1. PICK rest \in SUBSET Tasks : RecoverNext(rest)
      BY <1>2, <1>b, <2>3, Zenon DEF Recover, LocalTypeOK
    <3>2. UNCHANGED <<seen, flag, goal, seq, fresh, claimed, outs, wakePending, child>>
      BY <1>2 DEF Recover, NoWake, NoProcess
    <3>3. CASE rest = {}
      <4>1. /\ pc' = [pc EXCEPT ![Main] = "up", ![Worker] = "hasRunning"]
            /\ at' = [at EXCEPT ![Main] = "js", ![Worker] = "lane"]
            /\ lane' = Append(lane, Worker) /\ arg' = [arg EXCEPT ![Main] = None]
            /\ todo' = {}
        BY <3>1, <3>3 DEF RecoverNext
      <4>2. RtTypeOK'
        <5>1. lane' \in Seq(Actors)
          BY <4>1, ActorsDistinct DEF TypeInv, TypeOK, RtTypeOK
        <5>2. pc' \in [Actors -> Points]
          BY <4>1, PointSets DEF TypeInv, TypeOK, RtTypeOK
        <5>3. at' \in [Actors -> Outcomes]
          BY <4>1 DEF TypeInv, TypeOK, RtTypeOK, Outcomes
        <5>4. turn' \in Seq(Actors) /\ settled' \in Seq(Actors)
          BY <1>a, <2>1, RunsType
        <5> QED BY <5>1, <5>2, <5>3, <5>4 DEF RtTypeOK
      <4>3. LocalTypeOK' /\ HistoryTypeOK'
        BY <1>b, <2>1, <3>2, <4>1, RunsType DEF LocalTypeOK, HistoryTypeOK, TypeInv, TypeOK
      <4>4. LocalsDefined'
        BY <1>a, <1>b, <2>1, <4>1, PointSets, ActorsDistinct
        DEF TypeInv, TypeOK, RtTypeOK, LocalTypeOK, LocalsDefined
      <4> QED BY <2>1, <4>2, <4>3, <4>4, RunsType DEF TypeInv, TypeOK
    <3>4. CASE rest # {}
      <4>1. PICK t \in rest : Issue(Main, "bootMark") /\ arg' = [arg EXCEPT ![Main] = t]
        BY <3>1, <3>4 DEF RecoverNext
      <4>2. Goes(Main, "bootMark") /\ arg'[Main] \in Tasks /\ todo' = rest
            /\ \A b \in Actors : b # Main => arg'[b] = arg[b]
        BY <1>a, <1>b, <3>1, <4>1 DEF Goes, Issue, RecoverNext, LocalTypeOK
      <4>3. LocalTypeOK'
        BY <1>b, <3>2, <4>1, <4>2 DEF LocalTypeOK
      <4> QED BY <1>a, <1>b, <2>1, <4>2, <4>3, PointSets, ScriptStep
    <3> QED BY <3>3, <3>4
  <2> QED BY <2>2, <2>3
<1>3. CASE StopRequested
  <2>1. /\ pc' = [pc EXCEPT ![Main] = "closing"] /\ at' = [at EXCEPT ![Main] = "js"]
        /\ UNCHANGED <<lane, settled, turn, locals>>
    BY <1>3 DEF StopRequested, Await, AwaitFrom
  <2>2. DbTypeOK' /\ LocalTypeOK' /\ HistoryTypeOK'
    BY <1>3 DEF StopRequested, TypeInv, TypeOK, DbTypeOK, LocalTypeOK, HistoryTypeOK, dbVars, locals
  <2>3. RtTypeOK'
    BY <2>1, PointSets DEF TypeInv, TypeOK, RtTypeOK, Outcomes
  <2>4. LocalsDefined'
    BY <1>a, <2>1, PointSets, ActorsDistinct DEF TypeInv, TypeOK, RtTypeOK, LocalsDefined, locals
  <2> QED BY <2>2, <2>3, <2>4 DEF TypeInv, TypeOK
<1>4. CASE StopQueue
  <2>1. Runs(Main)
    BY <1>4 DEF StopQueue, Runs, WakeJobs
  <2>2. /\ arg \in [Actors -> Tasks \cup {None}] /\ Worker \in Actors
        /\ UNCHANGED <<seen, flag, goal, seq, fresh, claimed, outs, todo, starts, child, reply>>
        /\ wakePending' \in BOOLEAN
    BY <1>4, <1>b, ActorsDistinct DEF StopQueue, Pulse, NoProcess, LocalTypeOK
  <2>3. CASE arg[Worker] = None
    <3>1. Goes(Main, "join") /\ arg' = arg
      BY <1>4, <2>3 DEF StopQueue, Goes
    <3>2. LocalTypeOK'
      BY <1>b, <2>2, <3>1 DEF LocalTypeOK
    <3> QED BY <1>a, <1>b, <2>1, <2>2, <3>1, <3>2, PointSets, ScriptStep
  <2>4. CASE arg[Worker] # None
    <3>1. Goes(Main, "reqGet") /\ arg' = [arg EXCEPT ![Main] = arg[Worker]]
      BY <1>4, <2>4 DEF StopQueue, Goes
    <3>2. arg'[Main] \in Tasks /\ \A b \in Actors : b # Main => arg'[b] = arg[b]
      BY <1>a, <2>2, <2>4, <3>1
    <3>3. LocalTypeOK'
      BY <1>b, <2>2, <3>1 DEF LocalTypeOK
    <3> QED BY <1>a, <1>b, <2>1, <2>2, <3>1, <3>2, <3>3, PointSets, ScriptStep
  <2> QED BY <2>3, <2>4
<1>5. CASE JoinWorker
  <2>1. Runs(Main) /\ Goes(Main, "dbClose")
    BY <1>5 DEF JoinWorker, Runs, Goes, Issue
  <2>2. LocalTypeOK' /\ UNCHANGED <<locals, starts, reply>>
    BY <1>5, <1>b DEF JoinWorker, NoWake, NoProcess, KeepLocals, LocalTypeOK, locals
  <2> QED BY <1>a, <1>b, <2>1, <2>2, PointSets, ScriptStep DEF locals
<1>6. CASE MainFails
  <2>1. DbTypeOK' /\ LocalTypeOK' /\ HistoryTypeOK'
    BY <1>6, <1>b
    DEF MainFails, TypeInv, TypeOK, DbTypeOK, LocalTypeOK, HistoryTypeOK, dbVars, history
  <2>2. PICK i \in DOMAIN turn : turn' = Leave(i)
    BY <1>6 DEF MainFails
  <2>3. turn' \in Seq(Actors)
    BY <2>2, LeaveType, EmptyJobs DEF TypeInv, TypeOK, RtTypeOK
  <2>4. PICK p \in {"down", "join"} :
          /\ pc' = [pc EXCEPT ![Main] = p] /\ at' = [at EXCEPT ![Main] = "js"]
          /\ UNCHANGED <<lane, settled, arg, fresh, outs>>
    BY <1>6 DEF MainFails, Await, AwaitFrom
  <2>5. RtTypeOK'
    BY <2>3, <2>4, PointSets DEF RtTypeOK, TypeInv, TypeOK, Outcomes
  <2>6. LocalsDefined'
    BY <2>4, <1>a, <1>b, PointSets, ActorsDistinct
    DEF TypeInv, TypeOK, RtTypeOK, LocalTypeOK, LocalsDefined
  <2> QED BY <2>1, <2>5, <2>6 DEF TypeInv, TypeOK
<1>7. CASE Crash
  BY <1>7, HaltType DEF Crash, TypeInv, TypeOK, HistoryTypeOK
<1>8. CASE CloseStore
  BY <1>8, HaltType DEF CloseStore, TypeInv, TypeOK, HistoryTypeOK
<1> QED BY <1>1, <1>2, <1>3, <1>4, <1>5, <1>6, <1>7, <1>8 DEF MainStep, MainAwait

(* The job pump, the clock and the child process. *)
LEMMA RuntimeTypes ==
  ASSUME TypeInv, StartTurn \/ Tick \/ ChildExits \/ DescendantEnds PROVE TypeInv'
<1>1. CASE StartTurn
  <2>1. DbTypeOK' /\ LocalTypeOK' /\ HistoryTypeOK' /\ RtTypeOK'
    BY <1>1, EmptyJobs DEF StartTurn, TypeInv, TypeOK, DbTypeOK, LocalTypeOK, HistoryTypeOK,
       RtTypeOK, dbVars, locals, history
  <2>2. LocalsDefined'
    BY <1>1 DEF StartTurn, TypeInv, LocalsDefined, locals
  <2> QED BY <2>1, <2>2 DEF TypeInv, TypeOK
<1>2. CASE Tick
  <2>1. turn' \in Seq(Actors)
    BY <1>2, ActorsDistinct DEF Tick, WakeJobs, TypeInv, TypeOK, RtTypeOK
  <2>2. DbTypeOK' /\ LocalTypeOK' /\ HistoryTypeOK' /\ RtTypeOK'
    BY <1>2, <2>1 DEF Tick, Pulse, AtWoken, Outcomes, TypeInv, TypeOK, DbTypeOK, LocalTypeOK,
       HistoryTypeOK, RtTypeOK, dbVars, locals, history
  <2>3. LocalsDefined'
    BY <1>2, ActorsDistinct DEF Tick, AtWoken, TypeInv, TypeOK, RtTypeOK, LocalsDefined, locals
  <2> QED BY <2>2, <2>3 DEF TypeInv, TypeOK
<1>3. CASE ChildExits \/ DescendantEnds
  <2>1. DbTypeOK' /\ LocalTypeOK' /\ HistoryTypeOK' /\ RtTypeOK'
    BY <1>3 DEF ChildExits, DescendantEnds, Held, TypeInv, TypeOK, DbTypeOK, LocalTypeOK, HistoryTypeOK, RtTypeOK,
       dbVars, rtVars, locals, history
  <2>2. LocalsDefined'
    BY <1>3 DEF ChildExits, DescendantEnds, TypeInv, LocalsDefined, locals, rtVars
  <2> QED BY <2>1, <2>2 DEF TypeInv, TypeOK
<1> QED BY <1>1, <1>2, <1>3

LEMMA InitTypes == Init => TypeInv
<1> SUFFICES ASSUME Init PROVE TypeInv
  OBVIOUS
<1>1. \A a \in Actors : pc[a] \in {"down", "off", "idle"}
  BY DEF Init
<1>2. RtTypeOK
  BY <1>1, PointSets, EmptyJobs DEF Init, RtTypeOK, Outcomes
<1>3. DbTypeOK
  BY DEF Init, DbTypeOK, Status
<1>5. HistoryTypeOK
  BY DEF Init, HistoryTypeOK, Replies
<1>6. LocalTypeOK
  <2>1. seen \in [Actors -> Status] /\ goal \in [Actors -> Terminal]
    BY DEF Init, Status, Terminal
  <2>2. /\ arg \in [Actors -> Tasks \cup {None}] /\ flag \in [Actors -> BOOLEAN]
        /\ seq \in [Actors -> Nat] /\ fresh \in [Handlers -> Tasks \cup {None}]
    BY DEF Init
  <2>3. claimed = None /\ outs = 0 /\ todo = {} /\ child = "none" /\ wakePending = FALSE
    BY DEF Init
  <2>4. outs \in 0..2 /\ todo \in SUBSET Tasks
    BY <2>3
  <2>5. wakePending \in BOOLEAN
    BY <2>3
  <2> QED BY <2>1, <2>2, <2>3, <2>4, <2>5 DEF LocalTypeOK
<1>4. LocalsDefined
  BY <1>1, PointSets, ActorsDistinct DEF LocalsDefined
<1> QED BY <1>2, <1>3, <1>4, <1>5, <1>6 DEF TypeInv, TypeOK

LEMMA NextTypes == TypeInv /\ [Next]_vars => TypeInv'
<1> SUFFICES ASSUME TypeInv, [Next]_vars PROVE TypeInv'
  OBVIOUS
<1>1. CASE UNCHANGED vars
  BY <1>1 DEF vars, dbVars, rtVars, locals, history, TypeInv, TypeOK, DbTypeOK, RtTypeOK,
     LocalTypeOK, HistoryTypeOK, LocalsDefined
<1>2. CASE Next
  BY <1>2, StoreTypes, StoreFaultType, WorkerTypes, SharedTypes, HandlerTypes, ArriveTypes,
     MainTypes, RuntimeTypes, ActorsDistinct
  DEF Next, Progress
<1> QED BY <1>1, <1>2

(* Every variable of the task queue keeps its type. *)
THEOREM TypeCorrect == Spec => []TypeOK
<1>1. TypeInv => TypeOK
  BY DEF TypeInv
<1> QED BY <1>1, InitTypes, NextTypes, PTL DEF Spec

-----------------------------------------------------------------------------
(***************************************************************************)
(* SingleFlight and AtMostOnce.                                            *)
(*                                                                         *)
(* Neither is inductive.  `running' is written by the claim only, and the  *)
(* claim is submitted after a hasRunning that answered "no"; what must be  *)
(* carried along is that no row has become `running' in between, and that  *)
(* the claimed task has not been started yet.                              *)
(***************************************************************************)

NoneRunning   == \A t \in Tasks : status[t] # "running"
NotStarted(t) == starts[t] = 0 /\ status[t] \notin {"none", "queued"}

(* From the claim to the start of the child. *)
BeforeStart == {"selfGet", "selfFlag", "isCancel1", "resolve", "execSel", "execIns", "spawn"}

(* What the worker has asked and claimed is still true of the rows. *)
ClaimIsFresh ==
  /\ pc[Worker] = "hasRunning" /\ at[Worker] = "settled" /\ ~flag[Worker] => NoneRunning
  /\ pc[Worker] = "claim" /\ at[Worker] = "lane" => NoneRunning
  /\ pc[Worker] = "claim" /\ at[Worker] = "settled" /\ claimed # None => NotStarted(claimed)
  /\ pc[Worker] \in BeforeStart => NotStarted(arg[Worker])

WaitingNotStarted == \A t \in Tasks : status[t] \in {"none", "queued"} => starts[t] = 0

SafeInv == SingleFlight /\ AtMostOnce /\ WaitingNotStarted /\ ClaimIsFresh

-----------------------------------------------------------------------------
(* Four ways in which a step keeps SafeInv.                                 *)

(* The worker stays where it is, or its operation fails. *)
WorkerStays ==
  /\ UNCHANGED <<starts, claimed>>
  /\ pc'[Worker] = pc[Worker] /\ arg'[Worker] = arg[Worker]
  /\ \/ at'[Worker] = at[Worker] /\ flag'[Worker] = flag[Worker]
     \/ at'[Worker] = "rejected"
     \/ pc[Worker] \notin {"hasRunning", "claim"}

LEMMA Undisturbed == ASSUME SafeInv, WorkerStays, status' = status PROVE SafeInv'
BY DEF SafeInv, WorkerStays, SingleFlight, AtMostOnce, WaitingNotStarted, ClaimIsFresh, NoneRunning,
       NotStarted

(* A row is written, to a status that is not `running'. *)
LEMMA RowWritten ==
  ASSUME TypeInv, SafeInv, WorkerStays, NEW t \in Tasks, NEW s \in Status \ {"running"},
         status' = [status EXCEPT ![t] = s],
         s \in {"none", "queued"} => status[t] = "none"
  PROVE  SafeInv'
<1>1. status \in [Tasks -> Status] /\ claimed \in Tasks \cup {None}
  BY DEF TypeInv, TypeOK, DbTypeOK, LocalTypeOK
<1>2. starts' = starts /\ claimed' = claimed
  BY DEF WorkerStays
<1>3. SingleFlight' /\ AtMostOnce' /\ WaitingNotStarted'
  BY <1>1, <1>2 DEF SafeInv, SingleFlight, AtMostOnce, WaitingNotStarted
<1>4. NoneRunning => NoneRunning'
  BY <1>1 DEF NoneRunning
<1>5. \A u \in Tasks : NotStarted(u) => NotStarted(u)'
  BY <1>1, <1>2 DEF NotStarted
<1>6. pc[Worker] \in BeforeStart => arg[Worker] \in Tasks
  BY ActorsDistinct, PointSets DEF BeforeStart, TypeInv, LocalsDefined
<1>7. ClaimIsFresh'
  BY <1>1, <1>4, <1>5, <1>6 DEF WorkerStays, SafeInv, ClaimIsFresh, NotStarted
<1> QED BY <1>3, <1>7 DEF SafeInv

(* The worker goes on with the task it claimed, short of starting it. *)
LEMMA Onward ==
  ASSUME SafeInv, UNCHANGED <<status, starts>>,
         pc[Worker] \in BeforeStart, pc'[Worker] \notin {"hasRunning", "claim"},
         arg'[Worker] = arg[Worker]
  PROVE  SafeInv'
BY DEF SafeInv, SingleFlight, AtMostOnce, WaitingNotStarted, ClaimIsFresh, NotStarted

(* The worker goes to a point where nothing is remembered. *)
LEMMA Elsewhere ==
  ASSUME SafeInv, UNCHANGED <<status, starts>>,
         pc'[Worker] \notin BeforeStart \cup {"claim"},
         pc'[Worker] = "hasRunning" => at'[Worker] # "settled"
  PROVE  SafeInv'
BY DEF SafeInv, SingleFlight, AtMostOnce, WaitingNotStarted, ClaimIsFresh, BeforeStart

(* A script step of the worker: where it goes, and that no row changes.     *)
LEMMA WorkerGoes ==
  ASSUME TypeInv, NEW points, WorkerResumes(points)
  PROVE  /\ status' = status /\ pc[Worker] \in points /\ at[Worker] = "settled"
         /\ \A p : Issue(Worker, p) => pc'[Worker] = p /\ at'[Worker] = "lane"
         /\ \A p : Await(Worker, p) => pc'[Worker] = p /\ at'[Worker] = "js"
BY ActorsDistinct
DEF WorkerResumes, Resume, dbVars, Issue, IssueFrom, Await, AwaitFrom, TypeInv, TypeOK, RtTypeOK

LEMMA WorkerGoesAwaited ==
  ASSUME TypeInv, NEW q, WorkerAwaited(q)
  PROVE  /\ status' = status /\ pc[Worker] = q
         /\ \A p : Issue(Worker, p) => pc'[Worker] = p /\ at'[Worker] = "lane"
         /\ \A p : Await(Worker, p) => pc'[Worker] = p /\ at'[Worker] = "js"
BY ActorsDistinct
DEF WorkerAwaited, Complete, dbVars, Issue, IssueFrom, Await, AwaitFrom, TypeInv, TypeOK, RtTypeOK

(* A script step of another actor leaves the worker alone, or wakes it up.  *)
LEMMA OtherGoes ==
  ASSUME TypeInv, NEW a \in Actors, a # Worker, NEW p, Goes(a, p),
         UNCHANGED <<starts, claimed, flag>>, arg'[Worker] = arg[Worker]
  PROVE  WorkerStays
<1>1. pc'[Worker] = pc[Worker]
  BY ActorsDistinct DEF Goes, IssueFrom, AwaitFrom, TypeInv, TypeOK, RtTypeOK
<1>2. at'[Worker] = at[Worker] \/ at'[Worker] = AtWoken[Worker]
  BY ActorsDistinct DEF Goes, IssueFrom, AwaitFrom, AtWoken, TypeInv, TypeOK, RtTypeOK
<1>3. AtWoken[Worker] = at[Worker] \/ pc[Worker] = "waiting"
  BY DEF AtWoken, Waiting
<1> QED BY <1>1, <1>2, <1>3 DEF WorkerStays

-----------------------------------------------------------------------------
(* The Store's operations.                                                  *)

(* An operation of the lane moves nobody. *)
LEMMA ServedStays ==
  ASSUME TypeInv, NEW a \in Actors, NEW points, NEW o \in {"settled", "rejected"},
         Serve(a, points, o), arg'[Worker] = arg[Worker], claimed' = claimed,
         flag'[Worker] = flag[Worker] \/ a = Worker,
         o = "settled" => a # Worker \/ points \cap {"hasRunning", "claim"} = {}
  PROVE  WorkerStays
<1>1. /\ pc' = pc /\ at' = [at EXCEPT ![a] = o] /\ starts' = starts /\ pc[a] \in points
  BY ServeType
<1>2. at \in [Actors -> Outcomes] /\ Worker \in Actors
  BY ActorsDistinct DEF TypeInv, TypeOK, RtTypeOK
<1>3. CASE a # Worker
  BY <1>1, <1>2, <1>3 DEF WorkerStays
<1>4. CASE a = Worker
  BY <1>1, <1>2, <1>4 DEF WorkerStays
<1> QED BY <1>3, <1>4

LEMMA StoreSafe == ASSUME TypeInv, SafeInv, StoreStep PROVE SafeInv'
<1>a. Worker \in Actors /\ Main \in Actors /\ Main # Worker
      /\ \A h \in Handlers : h \in Actors /\ h # Worker
  BY ActorsDistinct
<1>b. /\ status \in [Tasks -> Status] /\ flag \in [Actors -> BOOLEAN]
      /\ arg \in [Actors -> Tasks \cup {None}] /\ goal \in [Actors -> Terminal]
  BY DEF TypeInv, TypeOK, DbTypeOK, LocalTypeOK
<1>c. Terminal \subseteq Status \ {"running", "none", "queued"}
      /\ "queued" \in Status \ {"running"} /\ "failed" \in Terminal
  BY DEF Terminal, Status
<1>1. ASSUME NEW a \in Actors, GetTask(a) PROVE SafeInv'
  <2>1. Serve(a, ReadPoints, "settled") /\ UNCHANGED <<status, arg, flag, claimed>>
    BY <1>1 DEF GetTask, Execute, dbVars
  <2>2. WorkerStays
    BY <2>1, ServedStays DEF ReadPoints
  <2> QED BY <2>1, <2>2, Undisturbed
<1>2. ASSUME NEW a \in Actors, SetCancelFlag(a) PROVE SafeInv'
  <2>1. Serve(a, {"reqFlag", "selfFlag"}, "settled") /\ UNCHANGED <<status, arg, flag, claimed>>
    BY <1>2 DEF SetCancelFlag, Execute, locals
  <2>2. WorkerStays
    BY <2>1, ServedStays
  <2> QED BY <2>1, <2>2, Undisturbed
<1>3. ASSUME NEW a \in Actors, WriteStatus(a) PROVE SafeInv'
  <2>1. Serve(a, {"updPut"}, "settled") /\ UNCHANGED <<arg, flag, claimed>>
        /\ status' = [status EXCEPT ![arg[a]] = goal[a]]
    BY <1>3 DEF WriteStatus, Execute, locals
  <2>2. WorkerStays
    BY <2>1, ServedStays
  <2>3. arg[a] \in Tasks /\ goal[a] \in Terminal
    BY <1>b, <2>1, ServeType, PointSets DEF TypeInv, LocalsDefined
  <2> QED BY <1>c, <2>1, <2>2, <2>3, RowWritten
<1>4. ASSUME NEW a \in Actors, LogSequence(a) PROVE SafeInv'
  <2>1. Serve(a, SelPoints, "settled") /\ UNCHANGED <<status, arg, flag, claimed>>
    BY <1>4 DEF LogSequence, Execute, dbVars
  <2>2. WorkerStays
    BY <2>1, ServedStays DEF SelPoints
  <2> QED BY <2>1, <2>2, Undisturbed
<1>5. ASSUME NEW a \in Actors, LogInsert(a) PROVE SafeInv'
  <2>1. PICK o \in {"settled", "rejected"} :
          Serve(a, InsPoints, o) /\ UNCHANGED <<status, arg, flag, claimed>>
    BY <1>5 DEF LogInsert, Execute, locals, dbVars
  <2>2. WorkerStays
    BY <2>1, ServedStays DEF InsPoints
  <2> QED BY <2>1, <2>2, Undisturbed
<1>6. ASSUME NEW h \in Handlers, FindByIdempotencyKey(h) PROVE SafeInv'
  <2>1. Serve(h, {"keyFind"}, "settled") /\ UNCHANGED <<status, claimed>>
        /\ arg'[Worker] = arg[Worker] /\ flag'[Worker] = flag[Worker]
    BY <1>6, <1>a, <1>b DEF FindByIdempotencyKey, Execute, dbVars
  <2>2. WorkerStays
    BY <1>a, <2>1, ServedStays
  <2> QED BY <2>1, <2>2, Undisturbed
<1>7. ASSUME NEW h \in Handlers, CreateTask(h) PROVE SafeInv'
  <2>1. Serve(h, {"insert", "retryInsert"}, "settled") /\ UNCHANGED <<arg, claimed>>
        /\ flag'[Worker] = flag[Worker]
    BY <1>7, <1>a, <1>b DEF CreateTask, Execute
  <2>2. WorkerStays
    BY <1>a, <2>1, ServedStays
  <2>3. arg[h] \in Tasks
    BY <1>a, <2>1, ServeType, PointSets DEF TypeInv, LocalsDefined
  <2>4. \/ status' = status
        \/ status[arg[h]] = "none" /\ status' = [status EXCEPT ![arg[h]] = "queued"]
    BY <1>7, Zenon DEF CreateTask
  <2> QED BY <1>c, <2>2, <2>3, <2>4, Undisturbed, RowWritten
<1>8. CASE IsCancelRequested
  <2>1. Serve(Worker, FlagReads, "settled") /\ UNCHANGED <<status, arg, claimed>>
    BY <1>8 DEF IsCancelRequested, Execute, dbVars
  <2>2. WorkerStays
    BY <1>a, <2>1, ServedStays DEF FlagReads
  <2> QED BY <2>1, <2>2, Undisturbed
<1>9. CASE HasRunning
  <2>1. Serve(Worker, {"hasRunning"}, "settled") /\ UNCHANGED <<status, arg, claimed>>
        /\ flag' = [flag EXCEPT ![Worker] = \E t \in Tasks : status[t] = "running"]
    BY <1>9 DEF HasRunning, Execute, dbVars
  <2>2. pc' = pc /\ pc[Worker] = "hasRunning" /\ starts' = starts
    BY <1>a, <2>1, ServeType
  <2>3. flag'[Worker] <=> \E t \in Tasks : status[t] = "running"
    BY <1>a, <1>b, <2>1
  <2>4. ~flag'[Worker] => NoneRunning'
    BY <2>1, <2>3 DEF NoneRunning
  <2>5. SingleFlight' /\ AtMostOnce' /\ WaitingNotStarted'
    BY <2>1, <2>2 DEF SafeInv, SingleFlight, AtMostOnce, WaitingNotStarted
  <2>6. ClaimIsFresh'
    BY <2>2, <2>4 DEF ClaimIsFresh, BeforeStart
  <2> QED BY <2>5, <2>6 DEF SafeInv
<1>10. CASE ClaimNextQueued
  <2>1. Serve(Worker, {"claim"}, "settled")
    BY <1>10 DEF ClaimNextQueued, Execute
  <2>2. /\ pc' = pc /\ pc[Worker] = "claim" /\ starts' = starts
        /\ at[Worker] = "lane" /\ at'[Worker] = "settled"
    BY <1>a, <2>1, ServeType DEF TypeInv, TypeOK, RtTypeOK
  <2>3. NoneRunning
    BY <2>2 DEF SafeInv, ClaimIsFresh
  <2>4. CASE claimed' = None /\ status' = status
    BY <2>2, <2>4
    DEF SafeInv, SingleFlight, AtMostOnce, WaitingNotStarted, ClaimIsFresh, BeforeStart
  <2>5. ASSUME NEW i \in DOMAIN created, Claimable(i), claimed' = created[i],
               status' = [status EXCEPT ![created[i]] = "running"]
        PROVE  SafeInv'
    <3>1. created[i] \in Tasks /\ status[created[i]] = "queued"
      BY <2>5 DEF Claimable, TypeInv, TypeOK, DbTypeOK
    <3>2. starts[created[i]] = 0
      BY <3>1 DEF SafeInv, WaitingNotStarted
    <3>3. SingleFlight'
      BY <1>b, <2>3, <2>5, <3>1 DEF SingleFlight, NoneRunning
    <3>4. AtMostOnce' /\ WaitingNotStarted'
      BY <1>b, <2>2, <2>5, <3>1 DEF SafeInv, AtMostOnce, WaitingNotStarted
    <3>5. NotStarted(claimed)'
      BY <1>b, <2>2, <2>5, <3>1, <3>2 DEF NotStarted
    <3>6. ClaimIsFresh'
      BY <2>2, <3>5 DEF ClaimIsFresh, BeforeStart
    <3> QED BY <3>3, <3>4, <3>6 DEF SafeInv
  <2> QED BY <1>10, <2>4, <2>5 DEF ClaimNextQueued
<1>11. CASE ListInterrupted
  <2>1. Serve(Main, {"bootList"}, "settled") /\ UNCHANGED <<status, arg, flag, claimed>>
    BY <1>11 DEF ListInterrupted, Execute, dbVars
  <2>2. WorkerStays
    BY <1>a, <2>1, ServedStays
  <2> QED BY <2>1, <2>2, Undisturbed
<1>12. CASE MarkInterrupted
  <2>1. Serve(Main, {"bootMark"}, "settled") /\ UNCHANGED <<arg, flag, claimed>>
        /\ \/ status' = status
           \/ status' = [status EXCEPT ![arg[Main]] = "failed"]
    BY <1>12 DEF MarkInterrupted, MarkAs, Execute, locals
  <2>2. WorkerStays
    BY <1>a, <2>1, ServedStays
  <2>3. arg[Main] \in Tasks
    BY <1>a, <2>1, ServeType, PointSets DEF TypeInv, LocalsDefined
  <2> QED BY <1>c, <2>1, <2>2, <2>3, Undisturbed, RowWritten
<1> QED BY <1>1, <1>2, <1>3, <1>4, <1>5, <1>6, <1>7, <1>8, <1>9, <1>10, <1>11, <1>12
        DEF StoreStep

LEMMA StoreFaultSafe == ASSUME TypeInv, SafeInv, NEW a \in Actors, StoreFault(a) PROVE SafeInv'
<1>1. Serve(a, StorePoints \ {"dbClose"}, "rejected") /\ UNCHANGED <<status, arg, flag, claimed>>
  BY DEF StoreFault, dbVars, locals
<1>2. WorkerStays
  BY <1>1, ServedStays
<1> QED BY <1>1, <1>2, Undisturbed

-----------------------------------------------------------------------------
(* The worker.                                                              *)

LEMMA WorkerSafe ==
  ASSUME TypeInv, SafeInv, WorkerStep \/ WorkerAwait \/ FailureClosed PROVE SafeInv'
<1> USE DEF NoProcess, KeepLocals, locals
<1>a. Worker \in Actors /\ Main # Worker /\ arg \in [Actors -> Tasks \cup {None}]
  BY ActorsDistinct DEF TypeInv, TypeOK, LocalTypeOK
<1>1. CASE WakeUp
  BY <1>1, WorkerGoes, Elsewhere DEF WakeUp, Pump, BeforeStart
<1>2. CASE CheckedRunning
  <2>1. status' = status /\ starts' = starts /\ pc[Worker] = "hasRunning" /\ at[Worker] = "settled"
    BY <1>2, WorkerGoes DEF CheckedRunning
  <2>2. CASE PumpIdle
    BY <1>2, <2>1, <2>2, WorkerGoes, Elsewhere DEF CheckedRunning, PumpIdle, BeforeStart
  <2>3. CASE ~flag[Worker] /\ Issue(Worker, "claim")
    <3>1. NoneRunning /\ pc'[Worker] = "claim" /\ at'[Worker] = "lane"
      BY <1>2, <2>1, <2>3, WorkerGoes DEF CheckedRunning, SafeInv, ClaimIsFresh
    <3> QED BY <2>1, <3>1 DEF SafeInv, SingleFlight, AtMostOnce, WaitingNotStarted, ClaimIsFresh,
                              NoneRunning, BeforeStart
  <2> QED BY <1>2, <2>2, <2>3 DEF CheckedRunning
<1>3. CASE Claimed
  <2>1. status' = status /\ starts' = starts /\ pc[Worker] = "claim" /\ at[Worker] = "settled"
    BY <1>3, WorkerGoes DEF Claimed
  <2>2. CASE PumpIdle
    BY <1>3, <2>1, <2>2, WorkerGoes, Elsewhere DEF Claimed, PumpIdle, BeforeStart
  <2>3. CASE /\ claimed # None /\ arg' = [arg EXCEPT ![Worker] = claimed]
             /\ \E p \in {"selfGet", "isCancel1"} : Issue(Worker, p)
    <3>1. arg'[Worker] = claimed /\ pc'[Worker] \in {"selfGet", "isCancel1"}
      BY <1>3, <1>a, <2>3, WorkerGoes DEF Claimed
    <3>2. NotStarted(claimed)
      BY <2>1, <2>3 DEF SafeInv, ClaimIsFresh
    <3> QED BY <2>1, <3>1, <3>2 DEF SafeInv, SingleFlight, AtMostOnce, WaitingNotStarted,
                                    ClaimIsFresh, NotStarted
  <2> QED BY <1>3, <2>2, <2>3 DEF Claimed
<1>4. CASE CancelOwnClaim
  BY <1>4, WorkerGoes, Onward DEF CancelOwnClaim, BeforeStart
<1>5. CASE CheckedBeforeStart
  BY <1>5, WorkerGoes, Onward DEF CheckedBeforeStart, Verdict, BeforeStart
<1>6. CASE Resolved
  BY <1>6, WorkerGoesAwaited, Onward DEF Resolved, BeforeStart
<1>7. CASE ExecLogged
  BY <1>7, WorkerGoes, Onward DEF ExecLogged, BeforeStart
<1>8. CASE Spawned
  <2>1. status' = status /\ pc[Worker] = "spawn" /\ pc'[Worker] \in {"isCancel2", "errSel"}
    BY <1>8, WorkerGoesAwaited DEF Spawned
  <2>2. CASE starts' = starts
    BY <2>1, <2>2, Elsewhere DEF BeforeStart
  <2>3. CASE starts' = [starts EXCEPT ![arg[Worker]] = @ + 1]
    <3>1. NotStarted(arg[Worker]) /\ arg[Worker] \in Tasks
      BY <1>a, <2>1, PointSets DEF SafeInv, ClaimIsFresh, BeforeStart, TypeInv, LocalsDefined
    <3>2. starts \in [Tasks -> Nat]
      BY DEF TypeInv, TypeOK, HistoryTypeOK
    <3>3. AtMostOnce' /\ WaitingNotStarted' /\ SingleFlight'
      BY <2>1, <2>3, <3>1, <3>2
      DEF SafeInv, AtMostOnce, WaitingNotStarted, SingleFlight, NotStarted
    <3>4. ClaimIsFresh'
      BY <2>1 DEF ClaimIsFresh, BeforeStart
    <3> QED BY <3>3, <3>4 DEF SafeInv
  <2> QED BY <1>8, <2>2, <2>3 DEF Spawned
<1>9. CASE CheckedAfterStart
  BY <1>9, WorkerGoes, Elsewhere DEF CheckedAfterStart, BeforeStart
<1>10. CASE Waited
  <2>1. status' = status /\ starts' = starts
    BY <1>10, WorkerGoesAwaited DEF Waited
  <2>2. pc'[Worker] \in {"isCancel3", "errSel", "updGet", "outSel"}
    BY <1>10, WorkerGoesAwaited DEF Waited, LogThenVerdict
  <2> QED BY <2>1, <2>2, Elsewhere DEF BeforeStart
<1>11. CASE CheckedAfterExit
  BY <1>11, WorkerGoes, Elsewhere DEF CheckedAfterExit, LogThenVerdict, BeforeStart
<1>12. CASE OutLogged
  BY <1>12, WorkerGoes, Elsewhere DEF OutLogged, BeforeStart
<1>13. CASE ErrorLogged
  BY <1>13, WorkerGoes, Elsewhere DEF ErrorLogged, BeforeStart
<1>14. CASE ErrorRead
  BY <1>14, WorkerGoes, Elsewhere DEF ErrorRead, Finish, Verdict, BeforeStart
<1>15. CASE WorkerUpdated
  BY <1>15, WorkerGoes, Elsewhere DEF WorkerUpdated, Finish, BeforeStart
<1>16. CASE AgentLogged
  BY <1>16, WorkerGoes, Elsewhere DEF AgentLogged, Finish, BeforeStart
<1>17. CASE ProcessClosed
  BY <1>17, WorkerGoesAwaited, Elsewhere DEF ProcessClosed, BeforeStart
<1>18. CASE PumpDone
  BY <1>18, WorkerGoes, Elsewhere DEF PumpDone, Pump, BeforeStart
<1>19. CASE WorkerFails \/ FailureClosed
  <2>1. pc'[Worker] \in {"failed", "failClose"}
    BY <1>19, <1>a DEF WorkerFails, FailureClosed, LoopRejects, TypeInv, TypeOK, RtTypeOK
  <2>2. status' = status /\ starts' = starts
    BY <1>19 DEF WorkerFails, FailureClosed, Complete, dbVars, history
  <2> QED BY <2>1, <2>2, Elsewhere DEF BeforeStart
<1> QED BY <1>1, <1>2, <1>3, <1>4, <1>5, <1>6, <1>7, <1>8, <1>9, <1>10, <1>11, <1>12, <1>13,
           <1>14, <1>15, <1>16, <1>17, <1>18, <1>19
        DEF WorkerStep, WorkerAwait

(* Between two statements of an actor, the worker included. *)
LEMMA NextStatementSafe ==
  ASSUME TypeInv, SafeInv, NEW a \in Actors, NextStatement(a) PROVE SafeInv'
<1>1. UNCHANGED <<status, starts, arg, flag, claimed>>
  BY DEF NextStatement, Resume, KeepLocals, NoProcess, locals, dbVars
<1>2. CASE a = Worker
  <2>1. PICK p \in {"updPut"} \cup InsPoints :
          Issue(a, p) /\ (p = "execIns" => pc[a] = "execSel")
    BY DEF NextStatement, Resume, InsOf, SelPoints, InsPoints
  <2>2. pc'[Worker] = p
    BY <1>2, <2>1 DEF Issue, IssueFrom, TypeInv, TypeOK, RtTypeOK
  <2>3. CASE p = "execIns"
    BY <1>1, <1>2, <2>1, <2>2, <2>3, Onward DEF BeforeStart
  <2>4. CASE p # "execIns"
    BY <1>1, <2>2, <2>4, Elsewhere DEF BeforeStart, InsPoints
  <2> QED BY <2>3, <2>4
<1>3. CASE a # Worker
  <2>1. PICK p : Goes(a, p)
    BY DEF NextStatement, Goes, Issue
  <2> QED BY <1>1, <1>3, <2>1, OtherGoes, Undisturbed
<1> QED BY <1>2, <1>3

-----------------------------------------------------------------------------
(* Everybody else.                                                          *)

LEMMA CancelSafe ==
  ASSUME TypeInv, SafeInv, NEW a \in Actors, a # Worker, CancelStep(a) \/ Terminated(a)
  PROVE  SafeInv'
<1>1. UNCHANGED <<status, starts, arg, flag, claimed>>
  BY DEF CancelStep, CancelRead, CancelFlagged, CancelUpdated, Terminated, Resume, Complete,
         KeepLocals, NoProcess, locals, dbVars
<1>2. PICK p : Goes(a, p)
  <2>1. CASE CancelRead(a)
    BY <2>1 DEF CancelRead, CancelRunning, AfterCancel, Answer, Goes, Issue, Await
  <2>2. CASE CancelFlagged(a)
    BY <2>2 DEF CancelFlagged, CancelRunning, AfterCancel, Goes, Issue, Await
  <2>3. CASE CancelUpdated(a)
    BY <2>3 DEF CancelUpdated, CancelRunning, AfterCancel, Goes, Issue, Await
  <2>4. CASE Terminated(a)
    BY <2>4 DEF Terminated, AfterCancel, Goes, Issue, Await
  <2> QED BY <2>1, <2>2, <2>3, <2>4 DEF CancelStep
<1> QED BY <1>1, <1>2, OtherGoes, Undisturbed

LEMMA HandlerSafe == ASSUME TypeInv, SafeInv, NEW h \in Handlers, HandlerStep(h) PROVE SafeInv'
<1>a. h \in Actors /\ h # Worker
  BY ActorsDistinct
<1>1. UNCHANGED <<status, starts, flag, claimed>>
  BY DEF HandlerStep, FoundKey, Enqueued, TaskAnswered, CancelBefore, CancelAnswered, RetryRead,
         RetryInserted, RetryAnswered, HandlerFails, Resume, KeepLocals, NoProcess, locals, dbVars
<1>2. arg'[Worker] = arg[Worker]
  <2>1. arg' = arg \/ arg' = [arg EXCEPT ![h] = fresh[h]]
    BY DEF HandlerStep, FoundKey, Enqueued, TaskAnswered, CancelBefore, CancelAnswered, RetryRead,
           RetryInserted, RetryAnswered, HandlerFails, KeepLocals, locals
  <2> QED BY <1>a, <2>1, ActorsDistinct DEF TypeInv, TypeOK, LocalTypeOK
<1>3. PICK p : Goes(h, p)
  <2>1. CASE FoundKey(h)
    BY <2>1 DEF FoundKey, Goes, Issue
  <2>2. CASE Enqueued(h)
    BY <2>2 DEF Enqueued, Goes, Issue
  <2>3. CASE TaskAnswered(h) \/ CancelAnswered(h) \/ HandlerFails(h)
    BY <2>3 DEF TaskAnswered, CancelAnswered, HandlerFails, Answer, Goes, Await
  <2>4. CASE CancelBefore(h)
    BY <2>4 DEF CancelBefore, Answer, Goes, Await, Issue
  <2>5. CASE RetryRead(h)
    BY <2>5 DEF RetryRead, Answer, Goes, Await, Issue
  <2>6. CASE RetryInserted(h)
    BY <2>6 DEF RetryInserted, Goes, Issue
  <2>7. CASE RetryAnswered(h)
    BY <2>7 DEF RetryAnswered, Goes
  <2> QED BY <2>1, <2>2, <2>3, <2>4, <2>5, <2>6, <2>7 DEF HandlerStep
<1> QED BY <1>a, <1>1, <1>2, <1>3, OtherGoes, Undisturbed

LEMMA ArriveSafe == ASSUME TypeInv, SafeInv, Arrive PROVE SafeInv'
<1>1. PICK h \in Handlers, t \in Tasks : \E p : Receive(h, t, p)
  BY DEF Arrive, PostTask, PostCancel, PostRetry, Request
<1>2. PICK p : Receive(h, t, p)
  BY <1>1
<1>3. /\ UNCHANGED <<status, starts, flag, claimed>> /\ Goes(h, p)
      /\ arg' = [arg EXCEPT ![h] = t]
  BY <1>2 DEF Receive, Complete, NoProcess, dbVars, Goes, Issue
<1>4. arg'[Worker] = arg[Worker] /\ h \in Actors /\ h # Worker
  BY <1>3, ActorsDistinct DEF TypeInv, TypeOK, LocalTypeOK
<1> QED BY <1>3, <1>4, OtherGoes, Undisturbed

LEMMA HaltSafe == ASSUME TypeInv, SafeInv, Halt PROVE SafeInv'
<1>1. pc'[Worker] = "off" /\ UNCHANGED <<status, starts>>
  BY ActorsDistinct DEF Halt, dbVars
<1> QED BY <1>1, Elsewhere DEF BeforeStart

LEMMA MainSafe ==
  ASSUME TypeInv, SafeInv,
         MainStep \/ MainAwait \/ Restart \/ StopRequested \/ Crash \/ CloseStore
  PROVE  SafeInv'
<1>a. Main \in Actors /\ Worker \in Actors /\ Main # Worker /\ arg \in [Actors -> Tasks \cup {None}]
      /\ pc \in [Actors -> Points] /\ at \in [Actors -> Outcomes]
  BY ActorsDistinct DEF TypeInv, TypeOK, LocalTypeOK, RtTypeOK
<1>1. CASE Restart \/ JoinWorker \/ StopRequested \/ MainFails
  <2>1. UNCHANGED <<status, starts, arg, flag, claimed>>
    BY <1>1 DEF Restart, JoinWorker, StopRequested, MainFails, Complete, KeepLocals, NoProcess,
       locals, dbVars, history
  <2>2. PICK p : Goes(Main, p)
    BY <1>1 DEF Restart, JoinWorker, StopRequested, MainFails, Goes, Issue, Await
  <2> QED BY <1>a, <2>1, <2>2, OtherGoes, Undisturbed
<1>2. CASE Recover
  <2>1. UNCHANGED <<status, starts, flag, claimed>>
    BY <1>2 DEF Recover, Resume, NoProcess, dbVars
  <2>2. CASE \E p : Issue(Main, p) /\ (arg' = arg \/ \E t : arg' = [arg EXCEPT ![Main] = t])
    <3>1. PICK p : Issue(Main, p) /\ arg'[Worker] = arg[Worker]
      BY <1>a, <2>2
    <3> QED BY <1>a, <2>1, <3>1, OtherGoes, Undisturbed DEF Goes, Issue
  <2>3. CASE /\ pc' = [pc EXCEPT ![Main] = "up", ![Worker] = "hasRunning"]
             /\ at' = [at EXCEPT ![Main] = "js", ![Worker] = "lane"]
    BY <1>a, <2>1, <2>3, Elsewhere DEF BeforeStart
  <2> QED BY <1>2, <2>2, <2>3 DEF Recover, RecoverNext
<1>3. CASE StopQueue
  <2>1. UNCHANGED <<status, starts, flag, claimed>>
    BY <1>3 DEF StopQueue, Complete, NoProcess, dbVars
  <2>2. PICK p : Goes(Main, p)
    BY <1>3 DEF StopQueue, Goes
  <2>3. arg'[Worker] = arg[Worker]
    BY <1>3, <1>a DEF StopQueue
  <2> QED BY <1>a, <2>1, <2>2, <2>3, OtherGoes, Undisturbed
<1>4. CASE Crash \/ CloseStore
  BY <1>4, HaltSafe DEF Crash, CloseStore
<1> QED BY <1>1, <1>2, <1>3, <1>4 DEF MainStep, MainAwait

LEMMA RuntimeSafe ==
  ASSUME TypeInv, SafeInv, StartTurn \/ Tick \/ ChildExits \/ DescendantEnds PROVE SafeInv'
<1>1. UNCHANGED <<status, starts, pc, arg, flag, claimed>>
  BY DEF StartTurn, Tick, ChildExits, DescendantEnds, dbVars, rtVars, locals, history
<1>2. at' = at \/ at' = AtWoken
  BY DEF StartTurn, Tick, ChildExits, DescendantEnds, rtVars
<1>3. AtWoken[Worker] = at[Worker] \/ pc[Worker] = "waiting"
  BY DEF AtWoken, Waiting
<1> QED BY <1>1, <1>2, <1>3, Undisturbed DEF WorkerStays

LEMMA InitSafe == Init => SafeInv
<1> SUFFICES ASSUME Init PROVE SafeInv
  OBVIOUS
<1>1. /\ \A t \in Tasks : status[t] = "none" /\ starts[t] = 0
      /\ pc[Worker] = "off"
  BY ActorsDistinct DEF Init
<1> QED BY <1>1 DEF SafeInv, SingleFlight, AtMostOnce, WaitingNotStarted, ClaimIsFresh, BeforeStart

LEMMA NextSafe == TypeInv /\ SafeInv /\ [Next]_vars => SafeInv'
<1> SUFFICES ASSUME TypeInv, SafeInv, [Next]_vars PROVE SafeInv'
  OBVIOUS
<1>1. CASE UNCHANGED vars
  BY <1>1, Undisturbed DEF vars, dbVars, rtVars, locals, history, WorkerStays
<1>2. CASE Next
  BY <1>2, StoreSafe, StoreFaultSafe, WorkerSafe, NextStatementSafe, CancelSafe, HandlerSafe,
     ArriveSafe, MainSafe, RuntimeSafe, ActorsDistinct
  DEF Next, Progress
<1> QED BY <1>1, <1>2

LEMMA AlwaysSafe == Spec => []SafeInv
BY InitTypes, NextTypes, InitSafe, NextSafe, PTL DEF Spec

(* pumpOnce is single flight: hasRunning and claimNextQueued are two        *)
(* operations of the Store, and no crash, restart, cancel, retry or failing *)
(* statement between them lets two rows be `running' together.              *)
THEOREM OneRunningRow == Spec => []SingleFlight
<1>1. SafeInv => SingleFlight
  BY DEF SafeInv
<1> QED BY <1>1, AlwaysSafe, PTL

(* recoverInterruptedOnBoot fails an interrupted task instead of queueing   *)
(* it, and a retry gets a new id: no task is ever given a second process.   *)
THEOREM StartedAtMostOnce == Spec => []AtMostOnce
<1>1. SafeInv => AtMostOnce
  BY DEF SafeInv
<1> QED BY <1>1, AlwaysSafe, PTL

-----------------------------------------------------------------------------
(* What the rows say while a task is in flight.  The properties hang on an *)
(* order that no lock and no flag guards, that in                          *)
(* which the runtime resumes the actors.  The store answers operations in  *)
(* the order of their submission, the actors of a batch of answers resume  *)
(* in that order, and what an actor submits next goes to the end of the    *)
(* lane.  So what a handler read of a row before the worker claimed it is  *)
(* still acted on before the worker gets past its own next operations.     *)
(* PipeInv is that order, RowInv what is true of the row at each point     *)
(* because of it.                                                          *)

-----------------------------------------------------------------------------
(* The pipeline of the runtime, and the order in which it resumes actors.   *)

In(q, a) == \E i \in DOMAIN q : q[i] = a
Once(q) == \A i, j \in DOMAIN q : q[i] = q[j] => i = j
Before(q, a, b) == \E i, j \in DOMAIN q : i < j /\ q[i] = a /\ q[j] = b

(* a and b were settled in that order, and neither has resumed. *)
Ahead(a, b)    == Before(turn, a, b) \/ Before(settled, a, b)
Together(a, b) == (In(turn, a) /\ In(turn, b)) \/ (In(settled, a) /\ In(settled, b))

(* Every actor is where `at' says, once.                                    *)
PipeInv ==
  /\ Once(lane) /\ Once(settled) /\ Once(turn)
  /\ \A a \in Actors : /\ In(lane, a) <=> at[a] = "lane"
                       /\ In(turn, a) \/ In(settled, a) <=> at[a] \in {"settled", "rejected"}
                       /\ ~(In(turn, a) /\ In(settled, a))

LEMMA OrderAppend ==
  ASSUME NEW q \in Seq(Actors), NEW a \in Actors, NEW r, r = Append(q, a)
  PROVE  /\ \A b : In(r, b) <=> In(q, b) \/ b = a
         /\ Once(q) /\ ~In(q, a) => Once(r)
         /\ \A b, c : Before(q, b, c) => Before(r, b, c)
         /\ \A b : In(q, b) => Before(r, b, a)
<1>1. /\ DOMAIN q = 1 .. Len(q) /\ DOMAIN r = 1 .. (Len(q) + 1) /\ Len(q) \in Nat
      /\ \A i \in 1 .. Len(q) : r[i] = q[i]
      /\ r[Len(q) + 1] = a
  OBVIOUS
<1>2. \A b : In(r, b) <=> In(q, b) \/ b = a
  BY <1>1 DEF In
<1>3. Once(q) /\ ~In(q, a) => Once(r)
  BY <1>1 DEF In, Once
<1>4. \A b, c : Before(q, b, c) => Before(r, b, c)
  BY <1>1 DEF Before
<1>5. \A b : In(q, b) => Before(r, b, a)
  BY <1>1 DEF In, Before
<1> QED BY <1>2, <1>3, <1>4, <1>5

LEMMA OrderTail ==
  ASSUME NEW q \in Seq(Actors), q # <<>>, Once(q), NEW r, r = Tail(q), NEW a, a = Head(q)
  PROVE  /\ \A b : In(r, b) <=> In(q, b) /\ b # a
         /\ Once(r) /\ In(q, a)
         /\ \A b, c : Before(q, b, c) /\ b # a => Before(r, b, c)
         /\ \A b : ~Before(q, b, a)
<1>1. /\ DOMAIN q = 1 .. Len(q) /\ DOMAIN r = 1 .. (Len(q) - 1) /\ Len(q) \in Nat \ {0}
      /\ \A i \in 1 .. (Len(q) - 1) : r[i] = q[i + 1]
      /\ q[1] = a
  OBVIOUS
<1>2. \A b : In(r, b) <=> In(q, b) /\ b # a
  <2>1. ASSUME NEW b, In(q, b), b # a PROVE In(r, b)
    <3>1. PICK i \in 1 .. Len(q) : q[i] = b
      BY <1>1, <2>1 DEF In
    <3>2. i # 1 /\ i - 1 \in 1 .. (Len(q) - 1) /\ r[i - 1] = b
      BY <1>1, <2>1, <3>1
    <3> QED BY <1>1, <3>2 DEF In
  <2>2. ASSUME NEW b, In(r, b) PROVE In(q, b) /\ b # a
    BY <1>1, <2>2 DEF In, Once
  <2> QED BY <2>1, <2>2
<1>3. Once(r) /\ In(q, a)
  BY <1>1 DEF Once, In
<1>4. ASSUME NEW b, NEW c, Before(q, b, c), b # a PROVE Before(r, b, c)
  <2>1. PICK i, j \in 1 .. Len(q) : i < j /\ q[i] = b /\ q[j] = c
    BY <1>1, <1>4 DEF Before
  <2>2. /\ i # 1 /\ i - 1 \in 1 .. (Len(q) - 1) /\ j - 1 \in 1 .. (Len(q) - 1) /\ i - 1 < j - 1
        /\ r[i - 1] = b /\ r[j - 1] = c
    BY <1>1, <1>4, <2>1
  <2> QED BY <1>1, <2>2 DEF Before
<1>5. ASSUME NEW b, Before(q, b, a) PROVE FALSE
  BY <1>1, <1>5 DEF Before, Once
<1> QED BY <1>2, <1>3, <1>4, <1>5

(* The elements of a sequence from which the n-th one is removed. *)
LEMMA Splice ==
  ASSUME NEW S, NEW q \in Seq(S), NEW n \in 1 .. Len(q)
  PROVE  \E r \in Seq(S) :
           /\ r = SubSeq(q, 1, n - 1) \o SubSeq(q, n + 1, Len(q))
           /\ DOMAIN r = 1 .. (Len(q) - 1)
           /\ \A i \in 1 .. (Len(q) - 1) : r[i] = IF i < n THEN q[i] ELSE q[i + 1]
<1> DEFINE f == SubSeq(q, 1, n - 1)
           b == SubSeq(q, n + 1, Len(q))
<1>1. f \in Seq(S) /\ Len(f) = n - 1 /\ \A i \in 1 .. (n-1) : f[i] = q[i]
  OBVIOUS
<1>2. b \in Seq(S) /\ Len(b) = Len(q) - n /\ \A i \in 1 .. (Len(q) - n) : b[i] = q[n+i]
  OBVIOUS
<1> SUFFICES \E r \in Seq(S) : /\ r = f \o b
                               /\ DOMAIN r = 1 .. (Len(q) - 1)
                               /\ \A i \in 1 .. (Len(q) - 1) : r[i] = IF i < n THEN q[i] ELSE q[i + 1]
  OBVIOUS
<1> HIDE DEF f, b
<1>3. /\ f \o b \in Seq(S) /\ Len(f \o b) = Len(f) + Len(b)
      /\ \A i \in 1 .. Len(f) + Len(b) : (f \o b)[i] = IF i <= Len(f) THEN f[i] ELSE b[i - Len(f)]
  BY <1>1, <1>2, ConcatProperties, Zenon
<1>4. ASSUME NEW x \in Seq(S), Len(x) = Len(f) + Len(b),
             \A i \in 1 .. Len(f) + Len(b) : x[i] = IF i <= Len(f) THEN f[i] ELSE b[i - Len(f)]
      PROVE  /\ DOMAIN x = 1 .. (Len(q) - 1)
             /\ \A i \in 1 .. (Len(q) - 1) : x[i] = IF i < n THEN q[i] ELSE q[i + 1]
  <2>1. DOMAIN x = 1 .. (Len(q) - 1)
    BY <1>1, <1>2, <1>4
  <2>2. ASSUME NEW i \in 1 .. (Len(q) - 1), i < n PROVE x[i] = q[i]
    <3>1. i \in 1 .. (n - 1) /\ i <= Len(f) /\ i \in 1 .. Len(f) + Len(b)
      BY <1>1, <1>2, <2>2
    <3> QED BY <1>1, <1>4, <3>1, Zenon
  <2>3. ASSUME NEW i \in 1 .. (Len(q) - 1), ~(i < n) PROVE x[i] = q[i + 1]
    <3>1. /\ i - Len(f) \in 1 .. (Len(q) - n) /\ n + (i - Len(f)) = i + 1
          /\ ~(i <= Len(f)) /\ i \in 1 .. Len(f) + Len(b)
      BY <1>1, <1>2, <2>3
    <3>2. x[i] = b[i - Len(f)]
      BY <1>4, <3>1, Zenon
    <3>3. b[i - Len(f)] = q[n + (i - Len(f))]
      BY <1>2, <3>1, Zenon
    <3> QED BY <3>1, <3>2, <3>3
  <2> QED BY <2>1, <2>2, <2>3
<1> QED BY <1>3, <1>4, Zenon

LEMMA OrderLeave ==
  ASSUME turn \in Seq(Actors), Once(turn), NEW n \in DOMAIN turn, NEW a, turn[n] = a
  PROVE  /\ Leave(n) \in Seq(Actors) /\ Once(Leave(n))
         /\ \A b : In(Leave(n), b) <=> In(turn, b) /\ b # a
         /\ \A b, c : Before(turn, b, c) /\ b # a /\ c # a => Before(Leave(n), b, c)
<1>1. DOMAIN turn = 1 .. Len(turn) /\ Len(turn) \in Nat \ {0} /\ n \in 1 .. Len(turn)
  OBVIOUS
<1>2. PICK r \in Seq(Actors) :
        /\ r = Leave(n) /\ DOMAIN r = 1 .. (Len(turn) - 1)
        /\ \A i \in 1 .. (Len(turn) - 1) : r[i] = IF i < n THEN turn[i] ELSE turn[i + 1]
  <2>1. \E r \in Seq(Actors) :
           /\ r = SubSeq(turn, 1, n - 1) \o SubSeq(turn, n + 1, Len(turn))
           /\ DOMAIN r = 1 .. (Len(turn) - 1)
           /\ \A i \in 1 .. (Len(turn) - 1) : r[i] = IF i < n THEN turn[i] ELSE turn[i + 1]
    <3>1. turn \in Seq(Actors) /\ n \in 1 .. Len(turn)
      BY <1>1
    <3> HIDE <1>1
    <3> QED BY <3>1, Splice, ZenonT(60)
  <2> QED BY <2>1, Zenon DEF Leave
<1> DEFINE place(i) == IF i < n THEN i ELSE i - 1
<1>3. \A i \in 1 .. Len(turn) : i # n => /\ place(i) \in 1 .. (Len(turn) - 1)
                                         /\ r[place(i)] = turn[i]
  BY <1>1, <1>2
<1>4. \A i, j \in 1 .. Len(turn) : i < j /\ i # n /\ j # n => place(i) < place(j)
  BY <1>1
<1> HIDE DEF place
<1>5. Once(r)
  <2> DEFINE from(i) == IF i < n THEN i ELSE i + 1
  <2>1. \A i \in 1 .. (Len(turn) - 1) : from(i) \in 1 .. Len(turn) /\ r[i] = turn[from(i)]
    BY <1>1, <1>2
  <2>2. \A i, j \in 1 .. (Len(turn) - 1) : from(i) = from(j) => i = j
    BY <1>1
  <2> HIDE DEF from
  <2> QED BY <1>1, <1>2, <2>1, <2>2 DEF Once
<1>6. ASSUME NEW b, In(turn, b), b # a PROVE In(r, b)
  BY <1>1, <1>2, <1>3, <1>6 DEF In
<1>7. ASSUME NEW b, In(r, b) PROVE In(turn, b) /\ b # a
  BY <1>1, <1>2, <1>7 DEF In, Once
<1>8. ASSUME NEW b, NEW c, Before(turn, b, c), b # a, c # a PROVE Before(r, b, c)
  BY <1>1, <1>2, <1>3, <1>4, <1>8 DEF Before
<1> QED BY <1>2, <1>5, <1>6, <1>7, <1>8, Zenon

-----------------------------------------------------------------------------
(* What one step does to the pipeline.                                      *)

(* a takes its turn, or its await of something else completes. *)
Takes(a, jobs) ==
  /\ settled' = settled
  /\ \/ /\ at[a] \in {"settled", "rejected"}
        /\ \E i \in DOMAIN turn : /\ turn[i] = a /\ IsNext(i)
                                  /\ turn' = Leave(i) \o jobs \/ (turn' = Leave(i) /\ jobs = <<>>)
     \/ at[a] = "js" /\ (turn' = turn \o jobs \/ (turn' = turn /\ jobs = <<>>))

(* ... and submits its next operation, or awaits something else. *)
Leads(a, f) == \/ at' = [f EXCEPT ![a] = "lane"] /\ lane' = Append(lane, a)
               \/ at' = [f EXCEPT ![a] = "js"] /\ lane' = lane

(* A script step of a, which may wake the worker up. *)
Moves(a) == \/ Takes(a, <<>>) /\ Leads(a, at)
            \/ a # Worker /\ Takes(a, WakeJobs) /\ Leads(a, AtWoken)

(* The actors other than a stay in order, and a comes last.                 *)
Ordered(a) ==
  /\ \A b, c \in Actors \ {a} : /\ Before(lane, b, c) => Before(lane, b, c)'
                                /\ Ahead(b, c) => Ahead(b, c)'
                                /\ Together(b, c) => Together(b, c)'
  /\ \A b \in Actors \ {a} : at[b] = "lane" /\ at'[a] = "lane" => Before(lane, b, a)'

(* Whoever was settled before a has more frames to resume than a.           *)
GoesFirst(a) ==
  at[a] \in {"settled", "rejected"} =>
    \A b \in Actors : /\ Ahead(b, a) => ~(Hops(b) <= Hops(a))
                      /\ Together(b, a) => ~(Hops(b) < Hops(a))

LEMMA HopsType == \A a : Hops(a) \in Nat
BY DEF Hops

LEMMA TurnLeft ==
  ASSUME TypeInv, PipeInv, NEW a \in Actors, NEW jobs, Takes(a, jobs)
  PROVE  \E q \in Seq(Actors) :
           /\ turn' = q \o jobs \/ (turn' = q /\ jobs = <<>>)
           /\ Once(q)
           /\ \A b : In(q, b) <=> In(turn, b) /\ b # a
           /\ \A b, c : Before(turn, b, c) /\ b # a /\ c # a => Before(q, b, c)
<1>a. turn \in Seq(Actors) /\ Once(turn)
  BY DEF TypeInv, TypeOK, RtTypeOK, PipeInv
<1>1. ASSUME NEW i \in DOMAIN turn, turn[i] = a,
             turn' = Leave(i) \o jobs \/ (turn' = Leave(i) /\ jobs = <<>>)
      PROVE  \E q \in Seq(Actors) :
               /\ turn' = q \o jobs \/ (turn' = q /\ jobs = <<>>)
               /\ Once(q)
               /\ \A b : In(q, b) <=> In(turn, b) /\ b # a
               /\ \A b, c : Before(turn, b, c) /\ b # a /\ c # a => Before(q, b, c)
  <2>1. /\ Leave(i) \in Seq(Actors) /\ Once(Leave(i))
        /\ \A b : In(Leave(i), b) <=> In(turn, b) /\ b # a
        /\ \A b, c : Before(turn, b, c) /\ b # a /\ c # a => Before(Leave(i), b, c)
    BY <1>a, <1>1, OrderLeave
  <2> QED BY <1>1, <2>1, Zenon
<1>2. CASE at[a] = "js" /\ (turn' = turn \o jobs \/ (turn' = turn /\ jobs = <<>>))
  <2>1. ~In(turn, a)
    BY <1>2 DEF PipeInv
  <2>2. \A b : In(turn, b) <=> In(turn, b) /\ b # a
    BY <2>1
  <2> QED BY <1>a, <1>2, <2>2, Zenon
<1> QED BY <1>1, <1>2, Zenon DEF Takes

LEMMA FirstGoes ==
  ASSUME TypeInv, PipeInv, NEW a \in Actors, NEW jobs, Takes(a, jobs) PROVE GoesFirst(a)
<1> SUFFICES ASSUME at[a] \in {"settled", "rejected"}, NEW b \in Actors
             PROVE  /\ Ahead(b, a) => ~(Hops(b) <= Hops(a))
                    /\ Together(b, a) => ~(Hops(b) < Hops(a))
  BY DEF GoesFirst
<1>1. PICK i \in DOMAIN turn : turn[i] = a /\ IsNext(i)
  BY DEF Takes
<1>2. In(turn, a) /\ ~In(settled, a)
  BY <1>1 DEF In, PipeInv
<1>3. \A j \in DOMAIN turn : turn[j] = b => \/ Hops(a) < Hops(b)
                                            \/ Hops(a) = Hops(b) /\ i <= j
  BY <1>1 DEF IsNext
<1>4. Hops(a) \in Nat /\ Hops(b) \in Nat
  BY HopsType
<1>5. Together(b, a) => ~(Hops(b) < Hops(a))
  BY <1>2, <1>3, <1>4 DEF Together, In
<1>6. ASSUME Ahead(b, a) PROVE ~(Hops(b) <= Hops(a))
  <2>1. Before(turn, b, a)
    BY <1>2, <1>6 DEF Ahead, Before, In
  <2>2. PICK j, k \in DOMAIN turn : j < k /\ turn[j] = b /\ turn[k] = a
    BY <2>1 DEF Before
  <2>3. k = i /\ j \in Nat /\ i \in Nat
    BY <1>1, <2>2 DEF PipeInv, Once, TypeInv, TypeOK, RtTypeOK
  <2> QED BY <1>3, <1>4, <2>2, <2>3
<1> QED BY <1>5, <1>6

(* Where everybody is after a step of a. *)
LEMMA MoveAt ==
  ASSUME TypeInv, NEW a \in Actors, Moves(a)
  PROVE  /\ at'[a] \in {"lane", "js"} /\ at' \in [Actors -> Outcomes]
         /\ \A b \in Actors \ {a} :
              at'[b] = at[b] \/ (b = Worker /\ Waiting /\ at'[b] = "settled")
         /\ settled' = settled
         /\ \/ at'[a] = "lane" /\ lane' = Append(lane, a)
            \/ at'[a] = "js" /\ lane' = lane
<1>1. at \in [Actors -> Outcomes] /\ Worker \in Actors
  BY ActorsDistinct DEF TypeInv, TypeOK, RtTypeOK
<1>2. /\ AtWoken \in [Actors -> Outcomes]
      /\ \A b \in Actors : AtWoken[b] = at[b] \/ (b = Worker /\ Waiting /\ AtWoken[b] = "settled")
  BY <1>1 DEF AtWoken, Outcomes
<1>3. PICK f \in {at, AtWoken} : Leads(a, f) /\ settled' = settled
  BY DEF Moves, Takes
<1>4. f \in [Actors -> Outcomes]
      /\ \A b \in Actors : f[b] = at[b] \/ (b = Worker /\ Waiting /\ f[b] = "settled")
  BY <1>1, <1>2
<1> QED BY <1>3, <1>4 DEF Leads, Outcomes

LEMMA MovePipe ==
  ASSUME TypeInv, PipeInv, NEW a \in Actors, Moves(a) PROVE PipeInv' /\ Ordered(a)
<1>a. /\ lane \in Seq(Actors) /\ settled \in Seq(Actors) /\ Worker \in Actors
      /\ at \in [Actors -> Outcomes]
  BY ActorsDistinct DEF TypeInv, TypeOK, RtTypeOK
<1>1. PICK jobs \in {<<>>, WakeJobs} :
        /\ Takes(a, jobs)
        /\ \/ jobs = <<>> /\ Leads(a, at)
           \/ jobs = WakeJobs /\ a # Worker /\ Leads(a, AtWoken)
  BY DEF Moves
<1>2. PICK q \in Seq(Actors) :
        /\ turn' = q \o jobs \/ (turn' = q /\ jobs = <<>>)
        /\ Once(q)
        /\ \A b : In(q, b) <=> In(turn, b) /\ b # a
        /\ \A b, c : Before(turn, b, c) /\ b # a /\ c # a => Before(q, b, c)
  BY <1>1, TurnLeft
<1>3. settled' = settled /\ at[a] # "lane"
  BY <1>1 DEF Takes
<1>4. \/ turn' = q /\ Leads(a, at)
      \/ turn' = Append(q, Worker) /\ a # Worker /\ Waiting /\ Leads(a, AtWoken)
  <2>1. CASE jobs = <<>> /\ Leads(a, at)
    BY <1>2, <2>1
  <2>2. CASE jobs = WakeJobs /\ a # Worker /\ Leads(a, AtWoken) /\ Waiting
    <3>1. turn' = q \o <<Worker>>
      BY <1>2, <2>2 DEF WakeJobs
    <3> QED BY <1>2, <2>2, <3>1, <1>a, AppendIsConcat
  <2>3. CASE jobs = WakeJobs /\ a # Worker /\ Leads(a, AtWoken) /\ ~Waiting
    BY <1>2, <2>3 DEF WakeJobs, AtWoken
  <2> QED BY <1>1, <2>1, <2>2, <2>3
<1>5. /\ Once(lane')
      /\ \A b \in Actors : In(lane', b) <=> at'[b] = "lane"
      /\ \A b, c : Before(lane, b, c) => Before(lane', b, c)
      /\ \A b \in Actors \ {a} : at[b] = "lane" /\ at'[a] = "lane" => Before(lane', b, a)
  <2>1. Once(lane) /\ ~In(lane, a) /\ \A b \in Actors : In(lane, b) <=> at[b] = "lane"
    BY <1>3 DEF PipeInv
  <2>2. \A b \in Actors \ {a} : at'[b] = "lane" <=> at[b] = "lane"
    BY MoveAt DEF Waiting
  <2>3. CASE at'[a] = "lane" /\ lane' = Append(lane, a)
    BY <1>a, <2>1, <2>2, <2>3, OrderAppend
  <2>4. CASE at'[a] = "js" /\ lane' = lane
    BY <2>1, <2>2, <2>4
  <2> QED BY <2>3, <2>4, MoveAt
<1>6. /\ Once(turn')
      /\ \A b : In(turn', b) => (In(turn, b) /\ b # a) \/ (b = Worker /\ a # Worker /\ Waiting)
      /\ \A b : In(turn, b) /\ b # a => In(turn', b)
      /\ a # Worker /\ at'[Worker] # at[Worker] => In(turn', Worker)
      /\ a # Worker /\ Waiting /\ In(turn', Worker) => at'[Worker] = "settled"
      /\ \A b, c : Before(turn, b, c) /\ b # a /\ c # a => Before(turn', b, c)
  <2>1. CASE turn' = q /\ Leads(a, at)
    <3>1. a # Worker => at'[Worker] = at[Worker]
      BY <1>a, <2>1 DEF Leads
    <3>2. Waiting => ~In(turn, Worker)
      BY <1>a DEF Waiting, PipeInv
    <3> QED BY <1>2, <2>1, <3>1, <3>2
  <2>2. CASE turn' = Append(q, Worker) /\ a # Worker /\ Waiting /\ Leads(a, AtWoken)
    <3>1. ~In(q, Worker)
      BY <1>2, <1>a, <2>2 DEF Waiting, PipeInv
    <3>2. at'[Worker] = "settled"
      BY <1>a, <2>2 DEF Leads, AtWoken
    <3>3. /\ \A b : In(turn', b) <=> In(q, b) \/ b = Worker
          /\ Once(turn')
          /\ \A b, c : Before(q, b, c) => Before(turn', b, c)
      BY <1>2, <1>a, <2>2, <3>1, OrderAppend
    <3> QED BY <1>2, <2>2, <3>2, <3>3
  <2> QED BY <1>4, <2>1, <2>2
<1>7. ASSUME NEW b \in Actors
      PROVE  /\ In(turn', b) \/ In(settled', b) <=> at'[b] \in {"settled", "rejected"}
             /\ ~(In(turn', b) /\ In(settled', b))
  <2>1. /\ In(turn, b) \/ In(settled, b) <=> at[b] \in {"settled", "rejected"}
        /\ ~(In(turn, b) /\ In(settled, b))
    BY DEF PipeInv
  <2>2. CASE b = a
    <3>1. ~In(settled, a)
      <4>1. CASE at[a] = "js"
        BY <2>1, <2>2, <4>1
      <4>2. CASE at[a] # "js"
        BY <1>1, <2>1, <2>2, <4>2 DEF Takes, In
      <4> QED BY <4>1, <4>2
    <3>2. ~In(turn', a)
      BY <1>6
    <3> QED BY <1>3, <2>2, <3>1, <3>2, MoveAt
  <2>3. CASE b # a /\ at'[b] = at[b]
    <3>1. In(turn', b) <=> In(turn, b)
      BY <1>6, <2>3 DEF Waiting
    <3> QED BY <1>3, <2>1, <2>3, <3>1
  <2>4. CASE b # a /\ at'[b] # at[b]
    <3>1. b = Worker /\ Waiting /\ at'[b] = "settled"
      BY <2>4, MoveAt
    <3> QED BY <1>3, <1>6, <2>1, <2>4, <3>1 DEF Waiting
  <2> QED BY <2>2, <2>3, <2>4
<1>8. PipeInv'
  BY <1>3, <1>5, <1>6, <1>7 DEF PipeInv
<1>9. Ordered(a)
  <2>1. \A b, c \in Actors \ {a} : Ahead(b, c) => Ahead(b, c)'
    BY <1>3, <1>6 DEF Ahead
  <2>2. \A b, c \in Actors \ {a} : Together(b, c) => Together(b, c)'
    BY <1>3, <1>6 DEF Together
  <2> QED BY <1>5, <2>1, <2>2 DEF Ordered
<1> QED BY <1>8, <1>9

(* The Store executes the operation of a: a was the first of the lane and   *)
(* becomes the last of those to resume.                                     *)
LEMMA ServePipe ==
  ASSUME TypeInv, PipeInv, NEW a \in Actors, NEW points, NEW o \in {"settled", "rejected"},
         Serve(a, points, o)
  PROVE  /\ PipeInv' /\ Ordered(a)
         /\ \A b \in Actors : ~Before(lane, b, a)
         /\ \A b \in Actors \ {a} :
              at[b] \in {"settled", "rejected"} => Ahead(b, a)' /\ Together(b, a)'
<1>a. /\ lane \in Seq(Actors) /\ settled \in Seq(Actors) /\ at \in [Actors -> Outcomes]
      /\ Once(lane) /\ Once(settled)
  BY DEF TypeInv, TypeOK, RtTypeOK, PipeInv
<1>1. /\ turn = <<>> /\ turn' = turn /\ lane # <<>> /\ Head(lane) = a /\ lane' = Tail(lane)
      /\ settled' = Append(settled, a) /\ at' = [at EXCEPT ![a] = o] /\ at[a] = "lane"
  BY DEF Serve
<1>2. /\ \A b : In(lane', b) <=> In(lane, b) /\ b # a
      /\ Once(lane') /\ In(lane, a)
      /\ \A b, c : Before(lane, b, c) /\ b # a => Before(lane', b, c)
      /\ \A b : ~Before(lane, b, a)
  BY <1>a, <1>1, OrderTail
<1>3. ~In(settled, a)
  BY <1>1 DEF PipeInv
<1>4. /\ \A b : In(settled', b) <=> In(settled, b) \/ b = a
      /\ Once(settled')
      /\ \A b, c : Before(settled, b, c) => Before(settled', b, c)
      /\ \A b : In(settled, b) => Before(settled', b, a)
  BY <1>a, <1>1, <1>3, OrderAppend
<1>5. \A b : ~In(turn, b) /\ ~In(turn', b)
  BY <1>1 DEF In
<1>6. \A b \in Actors : at'[b] = IF b = a THEN o ELSE at[b]
  BY <1>a, <1>1
<1>7. \A b \in Actors : /\ In(lane', b) <=> at'[b] = "lane"
                        /\ In(turn', b) \/ In(settled', b) <=> at'[b] \in {"settled", "rejected"}
  <2>1. \A b \in Actors : /\ In(lane, b) <=> at[b] = "lane"
                          /\ In(turn, b) \/ In(settled, b) <=> at[b] \in {"settled", "rejected"}
    BY DEF PipeInv
  <2> QED BY <1>2, <1>4, <1>5, <1>6, <2>1
<1>8. Once(turn')
  BY <1>1 DEF Once
<1>9. PipeInv'
  BY <1>2, <1>4, <1>5, <1>7, <1>8 DEF PipeInv
<1>10. Ordered(a)
  <2>1. \A b, c : ~Before(turn, b, c)
    BY <1>1 DEF Before
  <2>2. \A b, c \in Actors \ {a} : Ahead(b, c) => Ahead(b, c)'
    BY <1>4, <2>1 DEF Ahead
  <2>3. \A b, c \in Actors \ {a} : Together(b, c) => Together(b, c)'
    BY <1>4, <1>5 DEF Together
  <2> QED BY <1>2, <1>6, <2>2, <2>3 DEF Ordered
<1>11. ASSUME NEW b \in Actors \ {a}, at[b] \in {"settled", "rejected"}
       PROVE  Ahead(b, a)' /\ Together(b, a)'
  <2>1. In(settled, b)
    BY <1>5, <1>11 DEF PipeInv
  <2> QED BY <1>4, <2>1 DEF Ahead, Together
<1> QED BY <1>2, <1>9, <1>10, <1>11

(* A step of nobody: everybody stays in order. *)
OrderKept ==
  \A b, c \in Actors : /\ Before(lane, b, c) => Before(lane, b, c)'
                       /\ Ahead(b, c) => Ahead(b, c)'
                       /\ Together(b, c) => Together(b, c)'

LEMMA TurnPipe == ASSUME TypeInv, PipeInv, StartTurn PROVE PipeInv' /\ OrderKept
<1>1. turn = <<>> /\ turn' = settled /\ settled' = <<>> /\ lane' = lane /\ at' = at
  BY DEF StartTurn
<1>2. \A b, c : ~In(turn, b) /\ ~Before(turn, b, c) /\ ~In(settled', b)
  BY <1>1 DEF In, Before
<1>3. /\ Once(turn') /\ Once(settled') /\ \A b : In(turn', b) <=> In(settled, b)
  BY <1>1 DEF PipeInv, Once
<1>4. PipeInv'
  BY <1>1, <1>2, <1>3 DEF PipeInv
<1>5. OrderKept
  BY <1>1, <1>2 DEF OrderKept, Ahead, Together
<1> QED BY <1>4, <1>5

LEMMA WokenPipe ==
  ASSUME TypeInv, PipeInv, turn' = turn \o WakeJobs, at' = AtWoken, UNCHANGED <<lane, settled>>
  PROVE  PipeInv' /\ OrderKept
<1>a. turn \in Seq(Actors) /\ Worker \in Actors /\ at \in [Actors -> Outcomes]
  BY ActorsDistinct DEF TypeInv, TypeOK, RtTypeOK
<1>1. CASE Waiting
  <2>1. turn' = Append(turn, Worker) /\ at' = [at EXCEPT ![Worker] = "settled"] /\ at[Worker] = "js"
    BY <1>a, <1>1, AppendIsConcat DEF WakeJobs, AtWoken, Waiting
  <2>2. Once(turn) /\ ~In(turn, Worker) /\ ~In(settled, Worker) /\ ~In(lane, Worker)
    BY <1>a, <2>1 DEF PipeInv
  <2>3. /\ \A b : In(turn', b) <=> In(turn, b) \/ b = Worker
        /\ Once(turn')
        /\ \A b, c : Before(turn, b, c) => Before(turn', b, c)
    BY <1>a, <2>1, <2>2, OrderAppend
  <2>4. \A b \in Actors : at'[b] = IF b = Worker THEN "settled" ELSE at[b]
    BY <1>a, <2>1
  <2>5. PipeInv'
    BY <2>2, <2>3, <2>4 DEF PipeInv
  <2>6. OrderKept
    BY <2>3 DEF OrderKept, Ahead, Together
  <2> QED BY <2>5, <2>6
<1>2. CASE ~Waiting
  <2>1. turn' = turn /\ at' = at
    BY <1>a, <1>2 DEF WakeJobs, AtWoken
  <2> QED BY <2>1 DEF PipeInv, OrderKept, Ahead, Together
<1> QED BY <1>1, <1>2

LEMMA HaltPipe == ASSUME Halt PROVE PipeInv'
<1>1. lane' = <<>> /\ settled' = <<>> /\ turn' = <<>> /\ \A a \in Actors : at'[a] = "js"
  BY DEF Halt
<1> QED BY <1>1 DEF PipeInv, Once, In

(* The end of the boot: the worker loop starts. *)
LEMMA UpPipe ==
  ASSUME TypeInv, PipeInv, Takes(Main, <<>>), at[Worker] = "js",
         at' = [at EXCEPT ![Main] = "js", ![Worker] = "lane"], lane' = Append(lane, Worker)
  PROVE  PipeInv'
<1>a. lane \in Seq(Actors) /\ Worker \in Actors /\ Main \in Actors /\ Main # Worker
      /\ at \in [Actors -> Outcomes]
  BY ActorsDistinct DEF TypeInv, TypeOK, RtTypeOK
<1>1. PICK q \in Seq(Actors) :
        /\ turn' = q \o <<>> \/ turn' = q
        /\ Once(q)
        /\ \A b : In(q, b) <=> In(turn, b) /\ b # Main
  BY <1>a, TurnLeft
<1>2. turn' = q
  BY <1>1
<1>3. Once(lane) /\ ~In(lane, Worker) /\ ~In(turn, Worker) /\ ~In(settled, Worker)
  BY <1>a DEF PipeInv
<1>4. Once(lane') /\ \A b : In(lane', b) <=> In(lane, b) \/ b = Worker
  BY <1>a, <1>3, OrderAppend
<1>5. \A b \in Actors : at'[b] = IF b = Main THEN "js" ELSE IF b = Worker THEN "lane" ELSE at[b]
  BY <1>a
<1>6. settled' = settled /\ ~In(settled, Main) /\ at[Main] # "lane"
  BY <1>a DEF Takes, In, PipeInv
<1>7. ASSUME NEW b \in Actors
      PROVE  /\ In(lane', b) <=> at'[b] = "lane"
             /\ In(turn', b) \/ In(settled', b) <=> at'[b] \in {"settled", "rejected"}
             /\ ~(In(turn', b) /\ In(settled', b))
  <2>1. /\ In(lane, b) <=> at[b] = "lane"
        /\ In(turn, b) \/ In(settled, b) <=> at[b] \in {"settled", "rejected"}
        /\ ~(In(turn, b) /\ In(settled, b))
    BY DEF PipeInv
  <2>2. In(turn', b) <=> In(turn, b) /\ b # Main
    BY <1>1, <1>2
  <2>3. In(settled', b) <=> In(settled, b)
    BY <1>6
  <2> QED BY <1>a, <1>3, <1>4, <1>5, <1>6, <2>1, <2>2, <2>3
<1>8. Once(turn') /\ Once(settled')
  BY <1>1, <1>2, <1>6 DEF PipeInv
<1> QED BY <1>4, <1>7, <1>8 DEF PipeInv

-----------------------------------------------------------------------------
(* The invariant of the rows.                                               *)

(* An actor at a point of the Store waits for the Store, and no other does. *)
PointInv == \A a \in Actors : pc[a] \in JsPoints => \/ at[a] = "js"
                                                    \/ pc[a] = "waiting" /\ at[a] = "settled"

(* While the agent is down or boots nobody else is there. *)
BootInv ==
  pc[Main] \in {"down"} \cup Booting =>
    /\ pc[Worker] = "off" /\ \A h \in Handlers : pc[h] \in {"idle", "done"}

(* The points of the worker, sorted by what they know of the row of its task *)
Free  == {"off", "hasRunning", "claim", "waiting", "exited", "failed"}
Early == {"selfGet", "selfFlag", "isCancel1"}
Run   == {"resolve", "execSel", "execIns", "spawn", "isCancel2", "wait", "waitKilled", "isCancel3",
          "outSel", "outIns", "errSel", "errIns", "errGet"}
Over  == {"agentSel", "agentIns", "close", "doneGet"}
mine  == arg[Worker]

WorkerInv ==
  /\ pc[Worker] \in Free \cup Early \cup Run \cup {"updGet", "updPut", "failClose"} \cup Over
  /\ pc[Worker] \in Free <=> mine = None
  /\ claimed # None => /\ pc[Worker] = "claim" /\ at[Worker] = "settled"
                       /\ status[claimed] \in {"running", "cancelled"}
  /\ pc[Worker] \in Early => status[mine] \in {"running", "cancelled"}
  /\ pc[Worker] = "isCancel1" /\ at[Worker] = "settled" /\ ~flag[Worker] => status[mine] = "running"
  /\ pc[Worker] \in Run => status[mine] = "running"
  /\ pc[Worker] = "errGet" /\ at[Worker] = "settled" => seen[Worker] = "running"
  /\ pc[Worker] = "updGet" \/ (pc[Worker] = "updPut" /\ at[Worker] # "settled") =>
       \/ status[mine] = "running"
       \/ goal[Worker] = "cancelled" /\ status[mine] = "cancelled"
  /\ pc[Worker] = "updPut" /\ at[Worker] = "settled" => status[mine] \in Terminal
  /\ pc[Worker] \in Over => status[mine] \in Terminal
  /\ pc[Worker] = "failClose" => status[mine] \notin {"none", "queued"}

(* The child of the task. *)
Started == {"isCancel2", "wait", "waitKilled", "isCancel3", "outSel", "outIns", "errSel", "errIns",
            "errGet", "updGet", "updPut", "agentSel", "agentIns"}
ChildInv ==
  /\ child # "none" => pc[Worker] \in Started
  /\ child = "running" => pc[Worker] \in {"isCancel2", "wait"}
  /\ pc[Worker] = "isCancel3" => child \in {"exited", "dead"}

(* A cancel is durable before anybody acts on it. *)
FlagInv ==
  /\ \A t \in Tasks : status[t] = "cancelled" => cancelFlag[t]
  /\ pc[Worker] \in FlagReads /\ at[Worker] = "settled" /\ flag[Worker] => cancelFlag[mine]
  /\ pc[Worker] \in {"outSel", "outIns", "updGet", "updPut"} /\ goal[Worker] = "cancelled"
       => cancelFlag[mine]
  /\ pc[Worker] = "waitKilled" \/ child \in {"killed", "dead", "heldKilled"} => cancelFlag[mine]
  /\ KillSeenAsCancel
  /\ \A a \in Handlers \cup {Main} : pc[a] = "reqFlag" /\ at[a] = "settled" => cancelFlag[arg[a]]
  /\ \A h \in Handlers : pc[h] \in {"updGet", "updPut"} => cancelFlag[arg[h]] /\ goal[h] = "cancelled"

(* stop() cancels a task that was claimed. *)
StopInv ==
  /\ pc[Main] \notin {"updGet", "updPut"}
  /\ pc[Main] \in {"reqGet", "reqFlag", "term"} => status[arg[Main]] \notin {"none", "queued"}
  /\ pc[Main] = "reqGet" /\ at[Main] = "settled" =>
       /\ seen[Main] \notin {"none", "queued"}
       /\ seen[Main] \in Terminal => status[arg[Main]] \in Terminal
  /\ pc[Main] = "reqFlag" => seen[Main] # "queued"

(* h has read `queued' and is going to write `cancelled'. *)
Cancelling(h) ==
  \/ pc[h] = "reqGet" /\ at[h] = "settled" /\ seen[h] = "queued"
  \/ pc[h] = "reqFlag" /\ at[h] \in {"lane", "settled"} /\ seen[h] = "queued"
  \/ pc[h] = "updGet" /\ at[h] \in {"lane", "settled"}
  \/ pc[h] = "updPut" /\ at[h] = "lane"

(* The worker has claimed the task of h, or has not decided to start it, and *)
(* will read the flag that h sets.                                          *)
Yields(h) ==
  \/ claimed = arg[h] /\ (pc[h] = "reqGet" => Ahead(h, Worker))
  \/ /\ mine = arg[h] /\ pc[h] # "reqGet"
     /\ \/ /\ pc[Worker] \in Early /\ at[Worker] = "lane"
           /\ pc[h] = "reqFlag" /\ at[h] = "lane" => Before(lane, h, Worker)
        \/ /\ pc[Worker] \in Early /\ at[Worker] = "settled"
           /\ ~(pc[h] = "reqFlag" /\ at[h] = "lane")
           /\ pc[Worker] = "isCancel1" => flag[Worker]
        \/ pc[Worker] \in {"updGet", "updPut"} /\ goal[Worker] = "cancelled"
  \/ mine = arg[h] /\ pc[Worker] \in Early /\ at[Worker] = "rejected"
  \/ mine = arg[h] /\ pc[Worker] = "failClose"
  \/ claimed # arg[h] /\ mine # arg[h]

CancelInv ==
  \A h \in Handlers : Cancelling(h) =>
    \/ status[arg[h]] \in {"queued", "cancelled"}
    \/ status[arg[h]] = "running" /\ Yields(h)

RowInv == PointInv /\ BootInv /\ WorkerInv /\ ChildInv /\ FlagInv /\ StopInv /\ CancelInv

-----------------------------------------------------------------------------
(* What the steps of the scripts have in common.                            *)

(* A step of a that leads to point p. *)
Script(a, p) == /\ Moves(a) /\ pc' = [pc EXCEPT ![a] = p]
                /\ \/ at'[a] = "lane" /\ p \in StorePoints
                   \/ at'[a] = "js" /\ p \in JsPoints

LEMMA ScriptIssues ==
  ASSUME TypeInv, NEW a \in Actors, NEW p \in StorePoints,
         \/ Takes(a, <<>>) /\ Issue(a, p)
         \/ a # Worker /\ Takes(a, WakeJobs) /\ IssueFrom(AtWoken, a, p)
  PROVE  Script(a, p)
<1>1. at \in [Actors -> Outcomes] /\ AtWoken \in [Actors -> Outcomes]
  BY DEF AtWoken, Outcomes, TypeInv, TypeOK, RtTypeOK
<1> QED BY <1>1 DEF Script, Moves, Leads, Issue, IssueFrom

LEMMA ScriptAwaits ==
  ASSUME TypeInv, NEW a \in Actors, NEW p \in JsPoints,
         \/ Takes(a, <<>>) /\ Await(a, p)
         \/ a # Worker /\ Takes(a, WakeJobs) /\ AwaitFrom(AtWoken, a, p)
  PROVE  Script(a, p)
<1>1. at \in [Actors -> Outcomes] /\ AtWoken \in [Actors -> Outcomes]
  BY DEF AtWoken, Outcomes, TypeInv, TypeOK, RtTypeOK
<1> QED BY <1>1 DEF Script, Moves, Leads, Await, AwaitFrom

LEMMA ResumeTakes ==
  ASSUME NEW a \in Actors, NEW points, NEW jobs, Resume(a, points, jobs)
  PROVE  Takes(a, jobs) /\ at[a] = "settled" /\ pc[a] \in points /\ UNCHANGED dbVars
BY DEF Resume, Takes

LEMMA CompleteTakes ==
  ASSUME NEW a \in Actors, NEW q, NEW jobs, Complete(a, q, jobs)
  PROVE  Takes(a, jobs) /\ at[a] = "js" /\ pc[a] = q /\ UNCHANGED dbVars
BY DEF Complete, Takes

(* The program points, sorted by what they await. *)
LEMMA PointKinds ==
  /\ {"hasRunning", "claim", "selfGet", "selfFlag", "isCancel1", "isCancel2", "isCancel3", "execSel",
      "errSel", "execIns", "errIns", "errGet", "outSel", "outIns", "updGet", "updPut", "agentSel",
      "agentIns", "doneGet", "reqGet", "reqFlag", "after", "before", "keyGet", "keyFind", "insert",
      "insertGet", "retryGet", "retryInsert", "retrySel", "retryIns", "retryRead", "bootList",
      "bootMark", "bootSel", "bootIns", "dbClose"} = StorePoints
  /\ {"off", "resolve", "spawn", "wait", "waitKilled", "close", "failClose", "waiting", "exited",
      "failed", "idle", "done", "term", "down", "up", "closing", "join"} = JsPoints
BY DEF StorePoints, ReadPoints, SelPoints, InsPoints, FlagReads, JsPoints

(* The edges of the worker's script, with what is read and written on them. *)
WorkerEdge(p) ==
  LET q == pc[Worker] IN
    /\ UNCHANGED <<dbVars, seen, flag, seq, fresh>>
    /\ \A b \in Actors \ {Worker} : arg'[b] = arg[b] /\ goal'[b] = goal[b]
    /\ q \in StorePoints \cup {"waiting"} => at[Worker] = "settled"
    /\ \/ /\ q \in {"waiting", "hasRunning", "claim", "doneGet"}
          /\ p \in {"exited", "hasRunning", "waiting"}
          /\ q = "claim" => claimed = None
          /\ arg'[Worker] = IF q = "doneGet" THEN None ELSE arg[Worker]
          /\ UNCHANGED <<claimed, child>>
       \/ /\ q = "claim" /\ p \in {"selfGet", "isCancel1"}
          /\ claimed # None /\ arg'[Worker] = claimed /\ claimed' = None
          /\ UNCHANGED child
       \/ /\ UNCHANGED <<claimed, child>> /\ arg'[Worker] = arg[Worker]
          /\ \/ q = "isCancel1" /\ p = "updGet" /\ (flag[Worker] <=> goal'[Worker] = "cancelled")
             \/ q = "waitKilled" /\ p \in {"updGet", "outSel"} /\ child \in {"exited", "dead"}
             \/ /\ q = "isCancel3" /\ p \in {"updGet", "outSel"}
                /\ flag[Worker] <=> goal'[Worker] = "cancelled"
             \/ /\ q = "errGet" /\ p = "updGet" /\ seen[Worker] \notin Terminal \cup {"none"}
                /\ goal'[Worker] = "failed"
       \/ /\ arg'[Worker] = arg[Worker] /\ goal'[Worker] = goal[Worker] /\ claimed' = claimed
          /\ \/ /\ UNCHANGED child
                /\ \/ q = "hasRunning" /\ p = "claim" /\ ~flag[Worker]
                   \/ q \in {"selfGet", "selfFlag"} /\ p \in {"selfFlag", "isCancel1"}
                   \/ q = "isCancel1" /\ p = "resolve" /\ ~flag[Worker]
                   \/ q = "resolve" /\ p \in {"execSel", "errSel"}
                   \/ q = "execIns" /\ p = "spawn"
                   \/ q = "spawn" /\ p = "errSel"
                   \/ q = "isCancel2" /\ p = "wait"
                   \/ q = "wait" /\ p \in {"isCancel3", "errSel"} /\ child \in {"exited", "dead"}
                   \/ q = "outIns" /\ p \in {"updGet", "outSel"}
                   \/ q = "errIns" /\ p = "errGet"
                   \/ q = "updPut" /\ p = "agentSel"
                   \/ q = "close" /\ p = "doneGet"
             \/ q = "spawn" /\ p = "isCancel2" /\ child' = "running"
             \/ q = "isCancel2" /\ p = "waitKilled" /\ flag[Worker] /\ child' = Killed(child)
             \/ /\ q \in {"errGet", "updPut", "agentIns"} /\ p \in {"doneGet", "close"}
                /\ q = "errGet" => seen[Worker] \in Terminal \cup {"none"}
                /\ child' = "none"

(* A continuation of the worker runs. *)
LEMMA WorkerScript ==
  ASSUME TypeInv, NEW points, NEW q,
         WorkerResumes(points) \/ WorkerAwaited(q),
         \/ \E p \in StorePoints : Issue(Worker, p)
         \/ \E p \in JsPoints : Await(Worker, p)
  PROVE  Script(Worker, pc'[Worker])
<1>a. Worker \in Actors /\ pc \in [Actors -> Points]
  BY ActorsDistinct DEF TypeInv, TypeOK, RtTypeOK
<1>1. Takes(Worker, <<>>)
  BY <1>a, ResumeTakes, CompleteTakes DEF WorkerResumes, WorkerAwaited
<1>2. ASSUME NEW p \in StorePoints, Issue(Worker, p) PROVE Script(Worker, pc'[Worker])
  <2>1. Script(Worker, p)
    BY <1>a, <1>1, <1>2, ScriptIssues
  <2> QED BY <1>a, <2>1 DEF Script
<1>3. ASSUME NEW p \in JsPoints, Await(Worker, p) PROVE Script(Worker, pc'[Worker])
  <2>1. Script(Worker, p)
    BY <1>a, <1>1, <1>3, ScriptAwaits
  <2> QED BY <1>a, <2>1 DEF Script
<1> QED BY <1>2, <1>3

LEMMA WorkerEdges ==
  ASSUME TypeInv, WorkerStep \/ WorkerAwait, ~WorkerFails
  PROVE  Script(Worker, pc'[Worker]) /\ WorkerEdge(pc'[Worker])
<1> USE DEF NoProcess, NoWake, KeepLocals, locals
<1>a. /\ Worker \in Actors /\ arg \in [Actors -> Tasks \cup {None}] /\ goal \in [Actors -> Terminal]
      /\ flag \in [Actors -> BOOLEAN]
  BY ActorsDistinct DEF TypeInv, TypeOK, LocalTypeOK
<1>1. CASE WakeUp
  <2>1. WorkerResumes({"waiting"})
    BY <1>1 DEF WakeUp
  <2>2. \/ \E p \in StorePoints : Issue(Worker, p)
        \/ \E p \in JsPoints : Await(Worker, p)
    BY <1>1, PointKinds DEF WakeUp, Pump
  <2>3. pc[Worker] \in {"waiting"} /\ UNCHANGED dbVars /\ at[Worker] = "settled"
    BY <1>a, <2>1, ResumeTakes DEF WorkerResumes
  <2>4. WorkerEdge(pc'[Worker])
    BY <1>1, <1>a, <2>1, <2>3, WorkerGoes, PointKinds DEF WorkerEdge, WakeUp, Pump
  <2> QED BY <2>1, <2>2, <2>4, WorkerScript
<1>2. CASE CheckedRunning
  <2>1. WorkerResumes({"hasRunning"})
    BY <1>2 DEF CheckedRunning
  <2>2. \/ \E p \in StorePoints : Issue(Worker, p)
        \/ \E p \in JsPoints : Await(Worker, p)
    BY <1>2, PointKinds DEF CheckedRunning, PumpIdle
  <2>3. pc[Worker] \in {"hasRunning"} /\ UNCHANGED dbVars /\ at[Worker] = "settled"
    BY <1>a, <2>1, ResumeTakes DEF WorkerResumes
  <2>4. WorkerEdge(pc'[Worker])
    BY <1>2, <1>a, <2>1, <2>3, WorkerGoes, PointKinds DEF WorkerEdge, CheckedRunning, PumpIdle
  <2> QED BY <2>1, <2>2, <2>4, WorkerScript
<1>3. CASE Claimed
  <2>1. WorkerResumes({"claim"})
    BY <1>3 DEF Claimed
  <2>2. \/ \E p \in StorePoints : Issue(Worker, p)
        \/ \E p \in JsPoints : Await(Worker, p)
    BY <1>3, PointKinds DEF Claimed, PumpIdle
  <2>3. pc[Worker] \in {"claim"} /\ UNCHANGED dbVars /\ at[Worker] = "settled"
    BY <1>a, <2>1, ResumeTakes DEF WorkerResumes
  <2>4. WorkerEdge(pc'[Worker])
    BY <1>3, <1>a, <2>1, <2>3, WorkerGoes, PointKinds DEF WorkerEdge, Claimed, PumpIdle
  <2> QED BY <2>1, <2>2, <2>4, WorkerScript
<1>4. CASE CancelOwnClaim
  <2>1. WorkerResumes({"selfGet", "selfFlag"})
    BY <1>4 DEF CancelOwnClaim
  <2>2. \/ \E p \in StorePoints : Issue(Worker, p)
        \/ \E p \in JsPoints : Await(Worker, p)
    BY <1>4, PointKinds DEF CancelOwnClaim
  <2>3. pc[Worker] \in {"selfGet", "selfFlag"} /\ UNCHANGED dbVars /\ at[Worker] = "settled"
    BY <1>a, <2>1, ResumeTakes DEF WorkerResumes
  <2>4. WorkerEdge(pc'[Worker])
    BY <1>4, <1>a, <2>1, <2>3, WorkerGoes, PointKinds DEF WorkerEdge, CancelOwnClaim
  <2> QED BY <2>1, <2>2, <2>4, WorkerScript
<1>5. CASE CheckedBeforeStart
  <2>1. WorkerResumes({"isCancel1"})
    BY <1>5 DEF CheckedBeforeStart
  <2>2. \/ \E p \in StorePoints : Issue(Worker, p)
        \/ \E p \in JsPoints : Await(Worker, p)
    BY <1>5, PointKinds DEF CheckedBeforeStart, Verdict
  <2>3. pc[Worker] \in {"isCancel1"} /\ UNCHANGED dbVars /\ at[Worker] = "settled"
    BY <1>a, <2>1, ResumeTakes DEF WorkerResumes
  <2>4. WorkerEdge(pc'[Worker])
    BY <1>5, <1>a, <2>1, <2>3, WorkerGoes, PointKinds DEF WorkerEdge, CheckedBeforeStart, Verdict
  <2> QED BY <2>1, <2>2, <2>4, WorkerScript
<1>6. CASE ExecLogged
  <2>1. WorkerResumes({"execIns"})
    BY <1>6 DEF ExecLogged
  <2>2. \/ \E p \in StorePoints : Issue(Worker, p)
        \/ \E p \in JsPoints : Await(Worker, p)
    BY <1>6, PointKinds DEF ExecLogged
  <2>3. pc[Worker] \in {"execIns"} /\ UNCHANGED dbVars /\ at[Worker] = "settled"
    BY <1>a, <2>1, ResumeTakes DEF WorkerResumes
  <2>4. WorkerEdge(pc'[Worker])
    BY <1>6, <1>a, <2>1, <2>3, WorkerGoes, PointKinds DEF WorkerEdge, ExecLogged
  <2> QED BY <2>1, <2>2, <2>4, WorkerScript
<1>7. CASE CheckedAfterStart
  <2>1. WorkerResumes({"isCancel2"})
    BY <1>7 DEF CheckedAfterStart
  <2>2. \/ \E p \in StorePoints : Issue(Worker, p)
        \/ \E p \in JsPoints : Await(Worker, p)
    BY <1>7, PointKinds DEF CheckedAfterStart
  <2>3. pc[Worker] \in {"isCancel2"} /\ UNCHANGED dbVars /\ at[Worker] = "settled"
    BY <1>a, <2>1, ResumeTakes DEF WorkerResumes
  <2>4. WorkerEdge(pc'[Worker])
    BY <1>7, <1>a, <2>1, <2>3, WorkerGoes, PointKinds DEF WorkerEdge, CheckedAfterStart
  <2> QED BY <2>1, <2>2, <2>4, WorkerScript
<1>8. CASE CheckedAfterExit
  <2>1. WorkerResumes({"isCancel3"})
    BY <1>8 DEF CheckedAfterExit
  <2>2. \/ \E p \in StorePoints : Issue(Worker, p)
        \/ \E p \in JsPoints : Await(Worker, p)
    BY <1>8, PointKinds DEF CheckedAfterExit, LogThenVerdict
  <2>3. pc[Worker] \in {"isCancel3"} /\ UNCHANGED dbVars /\ at[Worker] = "settled"
    BY <1>a, <2>1, ResumeTakes DEF WorkerResumes
  <2>4. WorkerEdge(pc'[Worker])
    BY <1>8, <1>a, <2>1, <2>3, WorkerGoes, PointKinds DEF WorkerEdge, CheckedAfterExit,
      LogThenVerdict
  <2> QED BY <2>1, <2>2, <2>4, WorkerScript
<1>9. CASE OutLogged
  <2>1. WorkerResumes({"outIns"})
    BY <1>9 DEF OutLogged
  <2>2. \/ \E p \in StorePoints : Issue(Worker, p)
        \/ \E p \in JsPoints : Await(Worker, p)
    BY <1>9, PointKinds DEF OutLogged
  <2>3. pc[Worker] \in {"outIns"} /\ UNCHANGED dbVars /\ at[Worker] = "settled"
    BY <1>a, <2>1, ResumeTakes DEF WorkerResumes
  <2>4. WorkerEdge(pc'[Worker])
    BY <1>9, <1>a, <2>1, <2>3, WorkerGoes, PointKinds DEF WorkerEdge, OutLogged
  <2> QED BY <2>1, <2>2, <2>4, WorkerScript
<1>10. CASE ErrorLogged
  <2>1. WorkerResumes({"errIns"})
    BY <1>10 DEF ErrorLogged
  <2>2. \/ \E p \in StorePoints : Issue(Worker, p)
        \/ \E p \in JsPoints : Await(Worker, p)
    BY <1>10, PointKinds DEF ErrorLogged
  <2>3. pc[Worker] \in {"errIns"} /\ UNCHANGED dbVars /\ at[Worker] = "settled"
    BY <1>a, <2>1, ResumeTakes DEF WorkerResumes
  <2>4. WorkerEdge(pc'[Worker])
    BY <1>10, <1>a, <2>1, <2>3, WorkerGoes, PointKinds DEF WorkerEdge, ErrorLogged
  <2> QED BY <2>1, <2>2, <2>4, WorkerScript
<1>11. CASE ErrorRead
  <2>1. WorkerResumes({"errGet"})
    BY <1>11 DEF ErrorRead
  <2>2. \/ \E p \in StorePoints : Issue(Worker, p)
        \/ \E p \in JsPoints : Await(Worker, p)
    BY <1>11, PointKinds DEF ErrorRead, Finish, Verdict
  <2>3. pc[Worker] \in {"errGet"} /\ UNCHANGED dbVars /\ at[Worker] = "settled"
    BY <1>a, <2>1, ResumeTakes DEF WorkerResumes
  <2>4. WorkerEdge(pc'[Worker])
    BY <1>11, <1>a, <2>1, <2>3, WorkerGoes, PointKinds DEF WorkerEdge, ErrorRead, Finish, Verdict
  <2> QED BY <2>1, <2>2, <2>4, WorkerScript
<1>12. CASE WorkerUpdated
  <2>1. WorkerResumes({"updPut"})
    BY <1>12 DEF WorkerUpdated
  <2>2. \/ \E p \in StorePoints : Issue(Worker, p)
        \/ \E p \in JsPoints : Await(Worker, p)
    BY <1>12, PointKinds DEF WorkerUpdated, Finish
  <2>3. pc[Worker] \in {"updPut"} /\ UNCHANGED dbVars /\ at[Worker] = "settled"
    BY <1>a, <2>1, ResumeTakes DEF WorkerResumes
  <2>4. WorkerEdge(pc'[Worker])
    BY <1>12, <1>a, <2>1, <2>3, WorkerGoes, PointKinds DEF WorkerEdge, WorkerUpdated, Finish
  <2> QED BY <2>1, <2>2, <2>4, WorkerScript
<1>13. CASE AgentLogged
  <2>1. WorkerResumes({"agentIns"})
    BY <1>13 DEF AgentLogged
  <2>2. \/ \E p \in StorePoints : Issue(Worker, p)
        \/ \E p \in JsPoints : Await(Worker, p)
    BY <1>13, PointKinds DEF AgentLogged, Finish
  <2>3. pc[Worker] \in {"agentIns"} /\ UNCHANGED dbVars /\ at[Worker] = "settled"
    BY <1>a, <2>1, ResumeTakes DEF WorkerResumes
  <2>4. WorkerEdge(pc'[Worker])
    BY <1>13, <1>a, <2>1, <2>3, WorkerGoes, PointKinds DEF WorkerEdge, AgentLogged, Finish
  <2> QED BY <2>1, <2>2, <2>4, WorkerScript
<1>14. CASE PumpDone
  <2>1. WorkerResumes({"doneGet"})
    BY <1>14 DEF PumpDone
  <2>2. \/ \E p \in StorePoints : Issue(Worker, p)
        \/ \E p \in JsPoints : Await(Worker, p)
    BY <1>14, PointKinds DEF PumpDone, Pump
  <2>3. pc[Worker] \in {"doneGet"} /\ UNCHANGED dbVars /\ at[Worker] = "settled"
    BY <1>a, <2>1, ResumeTakes DEF WorkerResumes
  <2>4. WorkerEdge(pc'[Worker])
    BY <1>14, <1>a, <2>1, <2>3, WorkerGoes, PointKinds DEF WorkerEdge, PumpDone, Pump
  <2> QED BY <2>1, <2>2, <2>4, WorkerScript
<1>15. CASE Resolved
  <2>1. WorkerAwaited("resolve")
    BY <1>15 DEF Resolved
  <2>2. \/ \E p \in StorePoints : Issue(Worker, p)
        \/ \E p \in JsPoints : Await(Worker, p)
    BY <1>15, PointKinds DEF Resolved
  <2>3. pc[Worker] \in {"resolve"} /\ UNCHANGED dbVars
    BY <1>a, <2>1, CompleteTakes DEF WorkerAwaited
  <2>4. WorkerEdge(pc'[Worker])
    BY <1>15, <1>a, <2>1, <2>3, WorkerGoesAwaited, PointKinds DEF WorkerEdge, Resolved
  <2> QED BY <2>1, <2>2, <2>4, WorkerScript
<1>16. CASE Spawned
  <2>1. WorkerAwaited("spawn")
    BY <1>16 DEF Spawned
  <2>2. \/ \E p \in StorePoints : Issue(Worker, p)
        \/ \E p \in JsPoints : Await(Worker, p)
    BY <1>16, PointKinds DEF Spawned
  <2>3. pc[Worker] \in {"spawn"} /\ UNCHANGED dbVars
    BY <1>a, <2>1, CompleteTakes DEF WorkerAwaited
  <2>4. WorkerEdge(pc'[Worker])
    BY <1>16, <1>a, <2>1, <2>3, WorkerGoesAwaited, PointKinds DEF WorkerEdge, Spawned
  <2> QED BY <2>1, <2>2, <2>4, WorkerScript
<1>17. CASE Waited
  <2>1. PICK q \in {"wait", "waitKilled"} : WorkerAwaited(q)
    BY <1>17 DEF Waited
  <2>2. \/ \E p \in StorePoints : Issue(Worker, p)
        \/ \E p \in JsPoints : Await(Worker, p)
    BY <1>17, PointKinds DEF Waited, LogThenVerdict
  <2>3. pc[Worker] \in {"wait", "waitKilled"} /\ UNCHANGED dbVars
    BY <1>a, <2>1, CompleteTakes DEF WorkerAwaited
  <2>4. WorkerEdge(pc'[Worker])
    BY <1>17, <1>a, <2>1, <2>3, WorkerGoesAwaited, PointKinds DEF WorkerEdge, Waited,
      LogThenVerdict
  <2> QED BY <2>1, <2>2, <2>4, WorkerScript
<1>18. CASE ProcessClosed
  <2>1. WorkerAwaited("close")
    BY <1>18 DEF ProcessClosed
  <2>2. \/ \E p \in StorePoints : Issue(Worker, p)
        \/ \E p \in JsPoints : Await(Worker, p)
    BY <1>18, PointKinds DEF ProcessClosed
  <2>3. pc[Worker] \in {"close"} /\ UNCHANGED dbVars
    BY <1>a, <2>1, CompleteTakes DEF WorkerAwaited
  <2>4. WorkerEdge(pc'[Worker])
    BY <1>18, <1>a, <2>1, <2>3, WorkerGoesAwaited, PointKinds DEF WorkerEdge, ProcessClosed
  <2> QED BY <2>1, <2>2, <2>4, WorkerScript
<1> QED BY <1>1, <1>2, <1>3, <1>4, <1>5, <1>6, <1>7, <1>8, <1>9, <1>10, <1>11, <1>12, <1>13,
    <1>14, <1>15, <1>16, <1>17, <1>18 DEF WorkerStep, WorkerAwait

(* Any other actor's step, from what Takes and Goes say of it. *)
LEMMA OtherScript ==
  ASSUME TypeInv, NEW a \in Actors, a # Worker,
         \/ /\ Takes(a, <<>>)
            /\ (\E p \in StorePoints : Issue(a, p)) \/ (\E p \in JsPoints : Await(a, p))
         \/ /\ Takes(a, WakeJobs)
            /\ \/ \E p \in StorePoints : IssueFrom(AtWoken, a, p)
               \/ \E p \in JsPoints : AwaitFrom(AtWoken, a, p)
  PROVE  Script(a, pc'[a])
<1>a. pc \in [Actors -> Points]
  BY DEF TypeInv, TypeOK, RtTypeOK
<1>1. PICK p \in StorePoints \cup JsPoints : Script(a, p)
  BY ScriptIssues, ScriptAwaits, Zenon
<1> QED BY <1>a, <1>1 DEF Script

(* Between the two statements of appendLog and of updateTask. *)
StatementEdge(a, p) ==
  /\ UNCHANGED <<dbVars, locals, child>> /\ at[a] = "settled"
  /\ \/ pc[a] = "updGet" /\ p = "updPut"
     \/ pc[a] \in SelPoints /\ p = InsOf[pc[a]]

LEMMA StatementEdges ==
  ASSUME TypeInv, NEW a \in Actors, NextStatement(a)
  PROVE  Script(a, pc'[a]) /\ StatementEdge(a, pc'[a])
<1>a. pc \in [Actors -> Points]
  BY DEF TypeInv, TypeOK, RtTypeOK
<1>1. Takes(a, <<>>) /\ at[a] = "settled" /\ pc[a] \in SelPoints \cup {"updGet"} /\ UNCHANGED dbVars
  BY ResumeTakes DEF NextStatement
<1>2. PICK p : p = (IF pc[a] = "updGet" THEN "updPut" ELSE InsOf[pc[a]]) /\ Issue(a, p)
  BY DEF NextStatement
<1>3. p \in StorePoints
  BY <1>1, <1>2, PointKinds DEF SelPoints, InsOf
<1>4. Script(a, p) /\ pc'[a] = p
  BY <1>a, <1>1, <1>2, <1>3, ScriptIssues DEF Issue, IssueFrom
<1>5. "updGet" \notin SelPoints
  BY DEF SelPoints
<1> QED BY <1>1, <1>2, <1>4, <1>5 DEF NextStatement, KeepLocals, NoProcess, StatementEdge

(* The edges of requestCancel and cancelRunning.                            *)
Kills(a) == \/ UNCHANGED child
            \/ child # "none" /\ arg[Worker] = arg[a] /\ child' = Killed(child)
CancelEdge(a, p) ==
  LET q == pc[a] IN
    /\ UNCHANGED <<dbVars, arg, seen, flag, seq, fresh, claimed>>
    /\ \A b \in Actors \ {a} : goal'[b] = goal[b]
    /\ q # "term" => at[a] = "settled"
    /\ \/ /\ goal'[a] = goal[a] /\ UNCHANGED child
          /\ \/ q = "reqGet" /\ p = "reqFlag" /\ seen[a] \notin Terminal \cup {"none"}
             \/ q = "reqGet" /\ p = "done" /\ a # Main
             \/ q = "term" /\ p = (IF a = Main THEN "join" ELSE "after")
       \/ /\ q = "reqFlag" /\ seen[a] = "queued" /\ p = "updGet"
          /\ goal'[a] = "cancelled" /\ UNCHANGED child
       \/ /\ goal'[a] = goal[a] /\ Kills(a)
          /\ p \in {"term", IF a = Main THEN "join" ELSE "after"}
          /\ \/ q = "reqGet" /\ a = Main /\ seen[a] \in Terminal \cup {"none"}
             \/ q = "reqFlag" /\ seen[a] # "queued"
             \/ q = "updPut"

LEMMA CancelEdges ==
  ASSUME TypeInv, NEW a \in Handlers \cup {Main}, CancelStep(a) \/ Terminated(a)
  PROVE  Script(a, pc'[a]) /\ CancelEdge(a, pc'[a])
<1> USE DEF NoProcess, NoWake, KeepLocals, locals
<1>a. /\ a \in Actors /\ a # Worker /\ goal \in [Actors -> Terminal] /\ pc \in [Actors -> Points]
  BY ActorsDistinct DEF TypeInv, TypeOK, LocalTypeOK, RtTypeOK
<1>b. \A p : Issue(a, p) \/ Await(a, p) => pc'[a] = p
  BY <1>a DEF Issue, IssueFrom, Await, AwaitFrom
<1>c. ASSUME Takes(a, <<>>), \/ \E p \in StorePoints : Issue(a, p)
                             \/ \E p \in JsPoints : Await(a, p)
      PROVE  Script(a, pc'[a])
  BY <1>a, <1>c, OtherScript
<1>1. CASE CancelRead(a)
  <2>1. Takes(a, <<>>) /\ at[a] = "settled" /\ pc[a] = "reqGet" /\ UNCHANGED dbVars
    BY <1>1, <1>a, ResumeTakes DEF CancelRead
  <2>2. \/ \E p \in StorePoints : Issue(a, p)
        \/ \E p \in JsPoints : Await(a, p)
    BY <1>1, PointKinds DEF CancelRead, CancelRunning, AfterCancel, Answer
  <2>3. CancelEdge(a, pc'[a])
    BY <1>1, <1>b, <2>1 DEF CancelRead, CancelRunning, AfterCancel, Answer, CancelEdge, Kills
  <2> QED BY <1>c, <2>1, <2>2, <2>3
<1>2. CASE CancelFlagged(a)
  <2>1. Takes(a, <<>>) /\ at[a] = "settled" /\ pc[a] = "reqFlag" /\ UNCHANGED dbVars
    BY <1>2, <1>a, ResumeTakes DEF CancelFlagged
  <2>2. \/ \E p \in StorePoints : Issue(a, p)
        \/ \E p \in JsPoints : Await(a, p)
    BY <1>2, PointKinds DEF CancelFlagged, CancelRunning, AfterCancel
  <2>3. CancelEdge(a, pc'[a])
    BY <1>2, <1>a, <1>b, <2>1 DEF CancelFlagged, CancelRunning, AfterCancel, CancelEdge, Kills
  <2> QED BY <1>c, <2>1, <2>2, <2>3
<1>3. CASE CancelUpdated(a)
  <2>1. Takes(a, <<>>) /\ at[a] = "settled" /\ pc[a] = "updPut" /\ UNCHANGED dbVars
    BY <1>3, <1>a, ResumeTakes DEF CancelUpdated
  <2>2. \/ \E p \in StorePoints : Issue(a, p)
        \/ \E p \in JsPoints : Await(a, p)
    BY <1>3, PointKinds DEF CancelUpdated, CancelRunning, AfterCancel
  <2>3. CancelEdge(a, pc'[a])
    BY <1>3, <1>b, <2>1 DEF CancelUpdated, CancelRunning, AfterCancel, CancelEdge, Kills
  <2> QED BY <1>c, <2>1, <2>2, <2>3
<1>4. CASE Terminated(a)
  <2>1. Takes(a, <<>>) /\ pc[a] = "term" /\ UNCHANGED dbVars
    BY <1>4, <1>a, CompleteTakes DEF Terminated
  <2>2. \/ \E p \in StorePoints : Issue(a, p)
        \/ \E p \in JsPoints : Await(a, p)
    BY <1>4, PointKinds DEF Terminated, AfterCancel
  <2>3. CancelEdge(a, pc'[a])
    BY <1>4, <1>b, <2>1 DEF Terminated, AfterCancel, CancelEdge
  <2> QED BY <1>c, <2>1, <2>2, <2>3
<1> QED BY <1>1, <1>2, <1>3, <1>4 DEF CancelStep

(* The edges of the other handlers. *)
HandlerEdge(h, p) ==
  LET q == pc[h] IN
    /\ UNCHANGED <<dbVars, seen, flag, goal, seq, fresh, claimed, child>>
    /\ \A b \in Actors \ {h} : arg'[b] = arg[b]
    /\ \/ at[h] = "rejected" /\ p = "done" /\ arg'[h] = arg[h]
       \/ /\ at[h] = "settled" /\ q = "retryGet" /\ p = "retryInsert" /\ arg'[h] = fresh[h]
          /\ seen[h] \in Terminal
       \/ /\ at[h] = "settled" /\ arg'[h] = arg[h]
          /\ \/ q = "keyFind" /\ p = (IF flag[h] THEN "keyGet" ELSE "insert")
             \/ q = "insert" /\ p = "insertGet"
             \/ q \in {"keyGet", "insertGet", "before", "after", "retryGet", "retryRead"} /\ p = "done"
             \/ q = "before" /\ p = "reqGet"
             \/ q = "retryInsert" /\ p = "retrySel"
             \/ q = "retryIns" /\ p = "retryRead"

LEMMA HandlerEdges ==
  ASSUME TypeInv, NEW h \in Handlers, HandlerStep(h)
  PROVE  Script(h, pc'[h]) /\ HandlerEdge(h, pc'[h])
<1> USE DEF NoProcess, NoWake, KeepLocals, locals
<1>a. /\ h \in Actors /\ h # Worker /\ arg \in [Actors -> Tasks \cup {None}]
      /\ pc \in [Actors -> Points]
  BY ActorsDistinct DEF TypeInv, TypeOK, LocalTypeOK, RtTypeOK
<1>b. \A p : Issue(h, p) \/ Await(h, p) \/ IssueFrom(AtWoken, h, p) \/ AwaitFrom(AtWoken, h, p)
               => pc'[h] = p
  BY <1>a DEF Issue, IssueFrom, Await, AwaitFrom
<1>c. ASSUME Takes(h, <<>>), \/ \E p \in StorePoints : Issue(h, p)
                             \/ \E p \in JsPoints : Await(h, p)
      PROVE  Script(h, pc'[h])
  BY <1>a, <1>c, OtherScript
<1>d. ASSUME Takes(h, WakeJobs), \/ \E p \in StorePoints : IssueFrom(AtWoken, h, p)
                                 \/ \E p \in JsPoints : AwaitFrom(AtWoken, h, p)
      PROVE  Script(h, pc'[h])
  BY <1>a, <1>d, OtherScript
<1>1. CASE FoundKey(h)
  <2>1. Takes(h, <<>>) /\ at[h] = "settled" /\ pc[h] = "keyFind" /\ UNCHANGED dbVars
    BY <1>1, <1>a, ResumeTakes DEF FoundKey
  <2>2. \E p \in StorePoints : Issue(h, p)
    BY <1>1, PointKinds DEF FoundKey
  <2>3. HandlerEdge(h, pc'[h])
    BY <1>1, <1>b, <2>1 DEF FoundKey, HandlerEdge
  <2> QED BY <1>c, <2>1, <2>2, <2>3
<1>2. CASE Enqueued(h)
  <2>1. PICK jobs \in {<<>>, WakeJobs} : /\ Resume(h, {"insert"}, jobs)
                                         /\ \/ jobs = <<>> /\ Issue(h, "insertGet")
                                            \/ jobs = WakeJobs /\ IssueFrom(AtWoken, h, "insertGet")
    BY <1>2 DEF Enqueued
  <2>2. Takes(h, jobs) /\ at[h] = "settled" /\ pc[h] = "insert" /\ UNCHANGED dbVars
    BY <1>a, <2>1, ResumeTakes
  <2>3. HandlerEdge(h, pc'[h])
    BY <1>2, <1>b, <2>1, <2>2 DEF Enqueued, HandlerEdge
  <2>4. Script(h, pc'[h])
    BY <1>c, <1>d, <2>1, <2>2, PointKinds
  <2> QED BY <2>3, <2>4
<1>3. CASE TaskAnswered(h) \/ CancelBefore(h) \/ CancelAnswered(h)
  <2>1. /\ Takes(h, <<>>) /\ at[h] = "settled" /\ UNCHANGED dbVars
        /\ pc[h] \in {"keyGet", "insertGet", "before", "after"}
    BY <1>3, <1>a, ResumeTakes DEF TaskAnswered, CancelBefore, CancelAnswered
  <2>2. \/ pc[h] = "before" /\ Issue(h, "reqGet")
        \/ Await(h, "done")
    BY <1>3, <1>a, ResumeTakes DEF TaskAnswered, CancelBefore, CancelAnswered, Answer
  <2>3. HandlerEdge(h, pc'[h])
    BY <1>3, <1>b, <2>1, <2>2 DEF TaskAnswered, CancelBefore, CancelAnswered, HandlerEdge
  <2> QED BY <1>c, <2>1, <2>2, <2>3, PointKinds
<1>4. CASE RetryRead(h)
  <2>1. Takes(h, <<>>) /\ at[h] = "settled" /\ pc[h] = "retryGet" /\ UNCHANGED dbVars
    BY <1>4, <1>a, ResumeTakes DEF RetryRead
  <2>2. \/ /\ Issue(h, "retryInsert") /\ arg' = [arg EXCEPT ![h] = fresh[h]]
           /\ seen[h] \in Terminal
        \/ Await(h, "done") /\ arg' = arg
    BY <1>4 DEF RetryRead, Answer
  <2>3. HandlerEdge(h, pc'[h])
    BY <1>4, <1>a, <1>b, <2>1, <2>2 DEF RetryRead, HandlerEdge
  <2> QED BY <1>c, <2>1, <2>2, <2>3, PointKinds
<1>5. CASE RetryInserted(h)
  <2>1. /\ Takes(h, <<>>) /\ at[h] = "settled" /\ pc[h] \in {"retryInsert", "retryIns"}
        /\ UNCHANGED dbVars
    BY <1>5, <1>a, ResumeTakes DEF RetryInserted
  <2>2. \E p \in StorePoints : Issue(h, p)
    BY <1>5, PointKinds DEF RetryInserted
  <2>3. HandlerEdge(h, pc'[h])
    BY <1>5, <1>b, <2>1 DEF RetryInserted, HandlerEdge
  <2> QED BY <1>c, <2>1, <2>2, <2>3
<1>6. CASE RetryAnswered(h)
  <2>1. Takes(h, WakeJobs) /\ at[h] = "settled" /\ pc[h] = "retryRead" /\ UNCHANGED dbVars
    BY <1>6, <1>a, ResumeTakes DEF RetryAnswered
  <2>2. \E p \in JsPoints : AwaitFrom(AtWoken, h, p)
    BY <1>6, PointKinds DEF RetryAnswered
  <2>3. HandlerEdge(h, pc'[h])
    BY <1>6, <1>b, <2>1 DEF RetryAnswered, HandlerEdge
  <2> QED BY <1>d, <2>1, <2>2, <2>3
<1>7. CASE HandlerFails(h)
  <2>1. Takes(h, <<>>) /\ at[h] = "rejected"
    BY <1>7 DEF HandlerFails, Takes
  <2>2. \E p \in JsPoints : Await(h, p)
    BY <1>7, PointKinds DEF HandlerFails, Answer
  <2>3. HandlerEdge(h, pc'[h])
    BY <1>7, <1>b, <2>1 DEF HandlerFails, Answer, HandlerEdge
  <2> QED BY <1>c, <2>1, <2>2, <2>3
<1> QED BY <1>1, <1>2, <1>3, <1>4, <1>5, <1>6, <1>7 DEF HandlerStep

(* A request arrives. *)
ReceiveEdge(h, p) ==
  /\ pc[Main] = "up" /\ pc[h] = "idle" /\ at[h] = "js"
  /\ UNCHANGED <<dbVars, seen, flag, goal, seq, claimed, child>>
  /\ \A b \in Actors \ {h} : arg'[b] = arg[b]
  /\ \A g \in Handlers \ {h} : fresh'[g] = fresh[g]
  /\ \/ p \in {"insert", "keyFind"} /\ arg'[h] \notin RetryIds /\ fresh'[h] = fresh[h]
     \/ p = "before" /\ fresh'[h] = fresh[h]
     \/ p = "retryGet" /\ fresh'[h] \in RetryIds /\ Unused(fresh'[h])

LEMMA ReceiveEdges ==
  ASSUME TypeInv, Arrive
  PROVE  \E h \in Handlers : Script(h, pc'[h]) /\ ReceiveEdge(h, pc'[h])
<1> USE DEF NoProcess, NoWake
<1>1. PICK h \in Handlers, t \in Tasks : PostTask(h, t) \/ PostCancel(h, t) \/ PostRetry(h, t)
  BY DEF Arrive
<1>a. /\ h \in Actors /\ h # Worker /\ arg \in [Actors -> Tasks \cup {None}]
      /\ pc \in [Actors -> Points] /\ fresh \in [Handlers -> Tasks \cup {None}]
  BY ActorsDistinct DEF TypeInv, TypeOK, LocalTypeOK, RtTypeOK
<1>2. PICK p \in {"insert", "keyFind", "before", "retryGet"} :
        /\ Receive(h, t, p)
        /\ \/ p \in {"insert", "keyFind"} /\ t \notin RetryIds /\ fresh' = fresh
           \/ p = "before" /\ fresh' = fresh
           \/ /\ p = "retryGet"
              /\ \E n \in RetryIds : Unused(n) /\ fresh' = [fresh EXCEPT ![h] = n]
  BY <1>1 DEF PostTask, PostCancel, PostRetry, Request
<1>3. /\ Takes(h, <<>>) /\ at[h] = "js" /\ pc[h] = "idle" /\ UNCHANGED dbVars
      /\ Issue(h, p) /\ arg' = [arg EXCEPT ![h] = t]
  BY <1>2, <1>a, CompleteTakes DEF Receive
<1>4. Script(h, pc'[h])
  BY <1>a, <1>3, OtherScript, PointKinds
<1>5. pc'[h] = p
  BY <1>a, <1>3 DEF Issue, IssueFrom
<1>6. ReceiveEdge(h, pc'[h])
  BY <1>a, <1>2, <1>3, <1>5 DEF ReceiveEdge, Receive
<1> QED BY <1>4, <1>6

(* The edges of boot and close. *)
MainFrame == /\ UNCHANGED <<dbVars, seen, flag, goal, seq, fresh, claimed, child>>
             /\ \A b \in Actors \ {Main} : arg'[b] = arg[b]
MainEdge(p) ==
  LET q == pc[Main] IN
    /\ MainFrame
    /\ \/ q = "down" /\ p = "bootList"
       \/ q \in {"bootList", "bootMark", "bootIns"} /\ p = "bootMark"
       \/ q = "bootMark" /\ p = "bootSel" /\ arg'[Main] = arg[Main]
       \/ at[Main] = "rejected" /\ p = (IF q \in Booting THEN "down" ELSE "join")
       \/ q \in {"closing", "up", "join"} /\ p \in {"closing", "join", "dbClose"}
       \/ q = "closing" /\ p = "reqGet" /\ arg'[Main] = arg[Worker] /\ arg[Worker] # None

(* The end of the boot: the worker loop starts. *)
BootEnds ==
  /\ MainFrame
  /\ Takes(Main, <<>>) /\ pc[Main] \in {"bootList", "bootMark", "bootIns"}
  /\ pc' = [pc EXCEPT ![Main] = "up", ![Worker] = "hasRunning"]
  /\ at' = [at EXCEPT ![Main] = "js", ![Worker] = "lane"]
  /\ lane' = Append(lane, Worker)

LEMMA MainEdges ==
  ASSUME TypeInv, PointInv, MainStep \/ MainAwait \/ Restart \/ StopRequested
  PROVE  (Script(Main, pc'[Main]) /\ MainEdge(pc'[Main])) \/ BootEnds
<1> USE DEF NoProcess, NoWake, KeepLocals, locals
<1>a. /\ Main \in Actors /\ Worker \in Actors /\ Main # Worker /\ arg \in [Actors -> Tasks \cup {None}]
      /\ pc \in [Actors -> Points]
  BY ActorsDistinct DEF TypeInv, TypeOK, LocalTypeOK, RtTypeOK
<1>b. \A p : Issue(Main, p) \/ Await(Main, p) \/ IssueFrom(AtWoken, Main, p)
               \/ AwaitFrom(AtWoken, Main, p) => pc'[Main] = p
  BY <1>a DEF Issue, IssueFrom, Await, AwaitFrom
<1>c. ASSUME Takes(Main, <<>>), \/ \E p \in StorePoints : Issue(Main, p)
                                \/ \E p \in JsPoints : Await(Main, p)
      PROVE  Script(Main, pc'[Main])
  BY <1>a, <1>c, OtherScript
<1>d. ASSUME Takes(Main, WakeJobs), \/ \E p \in StorePoints : IssueFrom(AtWoken, Main, p)
                                    \/ \E p \in JsPoints : AwaitFrom(AtWoken, Main, p)
      PROVE  Script(Main, pc'[Main])
  BY <1>a, <1>d, OtherScript
<1>1. CASE Restart \/ JoinWorker
  <2>1. Takes(Main, <<>>) /\ UNCHANGED dbVars /\ \/ pc[Main] = "down" /\ Issue(Main, "bootList")
                                                 \/ pc[Main] = "join" /\ Issue(Main, "dbClose")
    BY <1>1, <1>a, CompleteTakes DEF Restart, JoinWorker
  <2>2. MainEdge(pc'[Main])
    BY <1>1, <1>b, <2>1 DEF Restart, JoinWorker, MainEdge, MainFrame
  <2> QED BY <1>c, <2>1, <2>2, PointKinds
<1>2. CASE StopRequested
  <2>1. Takes(Main, <<>>)
    <3>1. at[Main] = "js"
      BY <1>2, <1>a DEF StopRequested, PointInv, JsPoints
    <3> QED BY <1>2, <3>1 DEF StopRequested, Takes
  <2>2. MainEdge(pc'[Main]) /\ Await(Main, "closing")
    BY <1>2, <1>b DEF StopRequested, MainEdge, MainFrame
  <2> QED BY <1>c, <2>1, <2>2, PointKinds
<1>3. CASE MainFails
  <2>1. Takes(Main, <<>>)
    BY <1>3 DEF MainFails, Takes
  <2>2. MainEdge(pc'[Main]) /\ \E p \in JsPoints : Await(Main, p)
    BY <1>3, <1>b, PointKinds DEF MainFails, MainEdge, MainFrame, history
  <2> QED BY <1>c, <2>1, <2>2
<1>4. CASE Recover
  <2>1. /\ Takes(Main, <<>>) /\ pc[Main] \in {"bootList", "bootMark", "bootIns"} /\ UNCHANGED dbVars
    BY <1>4, <1>a, ResumeTakes DEF Recover
  <2>2. CASE \/ pc[Main] = "bootMark" /\ Issue(Main, "bootSel") /\ arg' = arg
             \/ \E t : Issue(Main, "bootMark") /\ arg' = [arg EXCEPT ![Main] = t]
    <3>1. MainFrame
      BY <1>4, <1>a, <2>1, <2>2 DEF Recover, MainFrame
    <3>2. MainEdge(pc'[Main])
      BY <1>b, <2>1, <2>2, <3>1 DEF MainEdge
    <3> QED BY <1>c, <2>1, <2>2, <3>2, PointKinds
  <2>3. CASE /\ pc' = [pc EXCEPT ![Main] = "up", ![Worker] = "hasRunning"]
             /\ at' = [at EXCEPT ![Main] = "js", ![Worker] = "lane"]
             /\ lane' = Append(lane, Worker)
             /\ arg' = [arg EXCEPT ![Main] = None]
    BY <1>4, <1>a, <2>1, <2>3 DEF Recover, BootEnds, MainFrame
  <2> QED BY <1>4, <2>2, <2>3 DEF Recover, RecoverNext
<1>5. CASE StopQueue
  <2>1. Takes(Main, WakeJobs) /\ pc[Main] = "closing" /\ UNCHANGED dbVars
    BY <1>5, <1>a, CompleteTakes DEF StopQueue
  <2>2. \/ arg' = arg /\ AwaitFrom(AtWoken, Main, "join")
        \/ /\ arg' = [arg EXCEPT ![Main] = arg[Worker]] /\ arg[Worker] # None
           /\ IssueFrom(AtWoken, Main, "reqGet")
    BY <1>5 DEF StopQueue
  <2>3. MainEdge(pc'[Main])
    BY <1>5, <1>a, <1>b, <2>1, <2>2 DEF StopQueue, MainEdge, MainFrame
  <2> QED BY <1>d, <2>1, <2>2, <2>3, PointKinds
<1> QED BY <1>1, <1>2, <1>3, <1>4, <1>5 DEF MainStep, MainAwait

-----------------------------------------------------------------------------
(* Every step keeps RowInv.                                                 *)

LEMMA ScriptPoints ==
  ASSUME TypeInv, PointInv, NEW a \in Actors, NEW p, Script(a, p)
  PROVE  /\ PointInv'
         /\ pc'[a] = p /\ at'[a] \in {"lane", "js"}
         /\ \A b \in Actors \ {a} : pc'[b] = pc[b] /\ \/ at'[b] = at[b]
                                                      \/ b = Worker /\ pc[b] = "waiting"
<1>1. /\ pc' = [pc EXCEPT ![a] = p] /\ pc \in [Actors -> Points]
      /\ \/ at'[a] = "lane" /\ p \in StorePoints
         \/ at'[a] = "js" /\ p \in JsPoints
  BY DEF Script, TypeInv, TypeOK, RtTypeOK
<1>2. StorePoints \cap JsPoints = {}
  BY PointKinds
<1>3. \A b \in Actors \ {a} : at'[b] = at[b] \/ (b = Worker /\ Waiting /\ at'[b] = "settled")
  BY MoveAt DEF Script
<1>4. PointInv'
  BY <1>1, <1>2, <1>3 DEF PointInv, Waiting
<1> QED BY <1>1, <1>3, <1>4 DEF Waiting

LEMMA WorkerRow ==
  ASSUME TypeInv, PipeInv, RowInv, NEW p, Script(Worker, p), WorkerEdge(p) PROVE RowInv'
<1>a. /\ Worker \in Actors /\ Main \in Actors /\ Main # Worker
      /\ \A h \in Handlers : h \in Actors /\ h # Worker /\ h # Main
  BY ActorsDistinct
<1>b. /\ pc'[Worker] = p /\ at'[Worker] \in {"lane", "js"} /\ PointInv'
      /\ \A b \in Actors \ {Worker} : pc'[b] = pc[b] /\ at'[b] = at[b]
  BY <1>a, ScriptPoints DEF RowInv
<1>c. /\ UNCHANGED <<status, cancelFlag, seen, flag>>
      /\ \A b \in Actors \ {Worker} : arg'[b] = arg[b] /\ goal'[b] = goal[b]
  BY DEF WorkerEdge, dbVars
<1>d. None \notin Tasks /\ status \in [Tasks -> Status] /\ claimed \in Tasks \cup {None}
  BY ConstantsOK DEF TypeInv, TypeOK, DbTypeOK, LocalTypeOK
<1>1. BootInv'
  BY <1>a, <1>b DEF RowInv, BootInv, WorkerEdge
<1>2. WorkerInv'
  BY <1>b, <1>c, <1>d, PointKinds
  DEF RowInv, WorkerInv, WorkerEdge, Free, Early, Run, Over, mine, Terminal
<1>3. ChildInv'
  BY <1>b DEF RowInv, ChildInv, WorkerEdge, Started, Killed
<1>4. FlagInv'
  BY <1>a, <1>b, <1>c, PointKinds
  DEF RowInv, FlagInv, ChildInv, WorkerEdge, KillSeenAsCancel, FlagReads, mine, Killed,
      Started
<1>5. StopInv'
  BY <1>a, <1>b, <1>c DEF RowInv, StopInv
<1>6. ASSUME NEW h \in Handlers, Cancelling(h)', status[arg[h]] = "running", Cancelling(h), Yields(h)
      PROVE  Yields(h)'
  <2>1. /\ pc'[h] = pc[h] /\ at'[h] = at[h] /\ arg'[h] = arg[h] /\ seen'[h] = seen[h]
        /\ arg[h] \in Tasks
    BY <1>a, <1>b, <1>c, <1>6, PointSets DEF Cancelling, TypeInv, LocalsDefined
  <2>2. CASE claimed = arg[h] /\ (pc[h] = "reqGet" => Ahead(h, Worker))
    <3>1. pc[Worker] = "claim" /\ at[Worker] = "settled" /\ claimed # None
      BY <1>d, <2>1, <2>2 DEF RowInv, WorkerInv
    <3>2. pc[h] # "reqGet"
      <4>1. SUFFICES ASSUME pc[h] = "reqGet" PROVE FALSE
        OBVIOUS
      <4>2. Hops(h) = 2 /\ Hops(Worker) = 2
        BY <3>1, <4>1 DEF Hops, SelPoints
      <4>3. GoesFirst(Worker)
        BY <1>a, FirstGoes DEF Script, Moves
      <4> QED BY <1>a, <2>2, <3>1, <4>1, <4>2, <4>3 DEF GoesFirst
    <3>3. /\ p \in Early /\ arg'[Worker] = arg[h] /\ at'[Worker] = "lane"
      BY <1>b, <2>2, <3>1, PointKinds DEF WorkerEdge, Early, Script
    <3>4. at[h] = "lane" => Before(lane, h, Worker)'
      BY <1>a, <3>3, MovePipe DEF Ordered, Script
    <3> QED BY <1>b, <2>1, <3>2, <3>3, <3>4 DEF Yields, mine
  <2>3. CASE mine = arg[h] /\ mine # claimed
    <3>1. pc[Worker] \in Early \cup {"updPut"} /\ at[Worker] = "settled" /\ pc[h] # "reqGet"
      BY <1>6, <2>3, PointKinds DEF Yields, WorkerEdge, Early
    <3>2. pc[Worker] # "updPut"
      BY <1>6, <2>3, <3>1 DEF RowInv, WorkerInv, mine, Terminal
    <3>3. ~(pc[h] = "reqFlag" /\ at[h] = "lane") /\ (pc[Worker] = "isCancel1" => flag[Worker])
      BY <1>6, <2>3, <3>1, <3>2 DEF Yields, Early
    <3>4. /\ arg'[Worker] = arg[Worker]
          /\ \/ p \in Early /\ at'[Worker] = "lane"
             \/ p = "updGet" /\ goal'[Worker] = "cancelled"
      BY <1>b, <3>1, <3>2, <3>3, PointKinds DEF WorkerEdge, Early, Script
    <3> QED BY <1>b, <2>1, <2>3, <3>1, <3>3, <3>4 DEF Yields, mine
  <2>4. CASE claimed # arg[h] /\ mine # arg[h]
    <3>1. arg'[Worker] \in {arg[Worker], claimed, None} /\ claimed' \in {claimed, None}
      BY DEF WorkerEdge
    <3> QED BY <1>d, <2>1, <2>4, <3>1 DEF Yields, mine
  <2>5. mine = arg[h] => mine # claimed
    BY <1>d, <2>1 DEF RowInv, WorkerInv, Free, mine
  <2> QED BY <1>6, <2>2, <2>3, <2>4, <2>5 DEF Yields
<1>7. CancelInv'
  <2>1. ASSUME NEW h \in Handlers, Cancelling(h)' PROVE Cancelling(h)
    BY <1>a, <1>b, <1>c, <2>1 DEF Cancelling
  <2> QED BY <1>a, <1>c, <1>6, <2>1 DEF RowInv, CancelInv
<1> QED BY <1>b, <1>1, <1>2, <1>3, <1>4, <1>5, <1>7 DEF RowInv

(* A script step of another actor leaves alone what is said of the worker;  *)
(* it may kill the child, once the cancel is durable.                       *)
OtherEdge(a, p) ==
  /\ UNCHANGED <<status, cancelFlag, claimed>>
  /\ \A b \in Actors \ {a} : /\ arg'[b] = arg[b] /\ seen'[b] = seen[b]
                             /\ flag'[b] = flag[b] /\ goal'[b] = goal[b]
  /\ Kills(a)
  /\ child = "running" /\ child' # child => cancelFlag[arg[a]]
  /\ a \in Handlers /\ p \in {"updGet", "updPut"} => cancelFlag[arg'[a]] /\ goal'[a] = "cancelled"
  /\ Cancelling(a)' => Cancelling(a) /\ arg'[a] = arg[a] /\ (p = "reqFlag" => pc[a] = "reqGet")

LEMMA OtherRow ==
  ASSUME TypeInv, PipeInv, RowInv, NEW a \in Actors, a # Worker, NEW p, Script(a, p), OtherEdge(a, p)
  PROVE  /\ PointInv' /\ WorkerInv' /\ ChildInv' /\ FlagInv' /\ CancelInv'
         /\ a # Main => StopInv'
<1>a. /\ Worker \in Actors /\ Main \in Actors /\ Main # Worker
      /\ \A h \in Handlers : h \in Actors /\ h # Worker /\ h # Main
  BY ActorsDistinct
<1>b. /\ pc'[a] = p /\ at'[a] \in {"lane", "js"} /\ PointInv'
      /\ \A b \in Actors \ {a} : pc'[b] = pc[b] /\ (at'[b] = at[b] \/ (b = Worker /\ pc[b] = "waiting"))
  <2>1. PointInv
    BY DEF RowInv
  <2>2. /\ PointInv'
        /\ pc'[a] = p /\ at'[a] \in {"lane", "js"}
        /\ \A b \in Actors \ {a} : pc'[b] = pc[b] /\ \/ at'[b] = at[b]
                                                     \/ b = Worker /\ pc[b] = "waiting"
    BY <2>1, ScriptPoints, Zenon
  <2> QED BY <2>2
<1>c. /\ UNCHANGED <<status, cancelFlag, claimed>>
      /\ pc'[Worker] = pc[Worker] /\ arg'[Worker] = arg[Worker] /\ seen'[Worker] = seen[Worker]
      /\ flag'[Worker] = flag[Worker] /\ goal'[Worker] = goal[Worker]
      /\ at'[Worker] = at[Worker] \/ pc[Worker] = "waiting"
  BY <1>a, <1>b DEF OtherEdge
<1>1. WorkerInv'
  BY <1>c DEF RowInv, WorkerInv, mine, Early, Run, Over
<1>2. child' = child \/ (arg[Worker] = arg[a] /\ child' = Killed(child))
  BY DEF OtherEdge, Kills
<1>3. ChildInv'
  BY <1>2, <1>c DEF RowInv, ChildInv, Killed
<1>4. FlagInv'
  <2>1. child' \in {"killed", "dead", "heldKilled"} => cancelFlag[mine]
    BY <1>2 DEF RowInv, FlagInv, OtherEdge, Killed, mine
  <2>2. KillSeenAsCancel'
    BY <1>2, <1>c DEF RowInv, FlagInv, KillSeenAsCancel, Killed
  <2>3. \A b \in Handlers \cup {Main} : pc'[b] = "reqFlag" /\ at'[b] = "settled" => cancelFlag'[arg'[b]]
    BY <1>a, <1>b, <1>c DEF RowInv, FlagInv, OtherEdge
  <2>4. \A h \in Handlers : pc'[h] \in {"updGet", "updPut"} =>
          cancelFlag'[arg'[h]] /\ goal'[h] = "cancelled"
    BY <1>a, <1>b, <1>c DEF RowInv, FlagInv, OtherEdge
  <2>5. pc'[Worker] \in FlagReads /\ at'[Worker] = "settled" /\ flag'[Worker] => cancelFlag'[arg'[Worker]]
    BY <1>c DEF RowInv, FlagInv, FlagReads, mine
  <2> QED BY <1>c, <2>1, <2>2, <2>3, <2>4, <2>5 DEF RowInv, FlagInv, mine
<1>5. a # Main => StopInv'
  BY <1>a, <1>b, <1>c DEF RowInv, StopInv, OtherEdge
<1>6. ASSUME NEW h \in Handlers, Cancelling(h)'
      PROVE  \/ status'[arg'[h]] \in {"queued", "cancelled"}
             \/ status'[arg'[h]] = "running" /\ Yields(h)'
  <2>1. Cancelling(h) /\ arg'[h] = arg[h]
    BY <1>a, <1>b, <1>6 DEF OtherEdge, Cancelling
  <2>2. SUFFICES ASSUME Yields(h) PROVE Yields(h)'
    BY <1>c, <2>1 DEF RowInv, CancelInv
  <2>3. CASE h = a
    <3>1. pc'[h] \in {"reqFlag", "updGet", "updPut"} /\ pc'[h] = "reqFlag" => pc[h] = "reqGet"
      BY <1>b, <1>6, <2>3 DEF Cancelling, OtherEdge
    <3>2. pc'[h] # "reqGet"
      BY <1>b, <1>6, <2>3 DEF Cancelling
    <3>3. pc[Worker] # "waiting" => at'[Worker] = at[Worker]
      BY <1>c
    <3> QED BY <1>c, <2>1, <2>2, <3>1, <3>2, <3>3 DEF Yields, mine, Early
  <2>4. CASE h # a
    <3>1. pc'[h] = pc[h] /\ at'[h] = at[h]
      BY <1>a, <1>b, <2>4
    <3>2. /\ Ahead(h, Worker) => Ahead(h, Worker)'
          /\ Before(lane, h, Worker) => Before(lane, h, Worker)'
      BY <1>a, <2>4, MovePipe DEF Script, Ordered
    <3> QED BY <1>c, <2>1, <2>2, <3>1, <3>2 DEF Yields, mine, Early
  <2> QED BY <2>3, <2>4
<1>7. CancelInv'
  BY <1>6 DEF CancelInv
<1> QED BY <1>b, <1>1, <1>3, <1>4, <1>5, <1>7

LEMMA StatementRow ==
  ASSUME TypeInv, PipeInv, RowInv, NEW a \in Actors, NEW p, Script(a, p), StatementEdge(a, p)
  PROVE  RowInv'
<1>a. /\ Worker \in Actors /\ Main \in Actors /\ Main # Worker
      /\ \A h \in Handlers : h \in Actors /\ h # Worker /\ h # Main
  BY ActorsDistinct
<1>b. PointInv
  BY DEF RowInv
<1>c. /\ pc'[a] = p /\ at'[a] \in {"lane", "js"} /\ PointInv'
      /\ \A b \in Actors \ {a} : pc'[b] = pc[b] /\ (at'[b] = at[b] \/ (b = Worker /\ pc[b] = "waiting"))
  BY <1>b, ScriptPoints
<1>d. /\ UNCHANGED <<status, cancelFlag, arg, seen, flag, goal, claimed, child>>
      /\ at[a] = "settled"
      /\ \/ pc[a] = "updGet" /\ p = "updPut"
         \/ pc[a] = "execSel" /\ p = "execIns"
         \/ pc[a] = "outSel" /\ p = "outIns"
         \/ pc[a] = "errSel" /\ p = "errIns"
         \/ pc[a] = "agentSel" /\ p = "agentIns"
         \/ pc[a] = "retrySel" /\ p = "retryIns"
         \/ pc[a] = "bootSel" /\ p = "bootIns"
  BY DEF StatementEdge, dbVars, locals, SelPoints, InsOf
<1>1. BootInv'
  BY <1>a, <1>c, <1>d DEF RowInv, BootInv, Booting
<1>2. CASE a # Worker
  <2>1. OtherEdge(a, p)
    BY <1>a, <1>c, <1>d, <1>2 DEF OtherEdge, Kills, Cancelling, RowInv, FlagInv
  <2>2. StopInv'
    BY <1>a, <1>c, <1>d DEF RowInv, StopInv
  <2> QED BY <1>1, <1>2, <2>1, <2>2, OtherRow DEF RowInv
<1>3. CASE a = Worker
  <2>1. at'[Worker] = "lane" /\ \A b \in Actors \ {Worker} : pc'[b] = pc[b] /\ at'[b] = at[b]
    BY <1>c, <1>d, <1>3, PointKinds DEF Script
  <2>2. WorkerInv'
    BY <1>c, <1>d, <1>3, <2>1
    DEF RowInv, WorkerInv, Free, Early, Run, Over, mine, Terminal
  <2>3. ChildInv'
    BY <1>c, <1>d, <1>3 DEF RowInv, ChildInv, Started
  <2>4. FlagInv'
    BY <1>a, <1>c, <1>d, <1>3, <2>1
    DEF RowInv, FlagInv, KillSeenAsCancel, FlagReads, mine
  <2>5. StopInv'
    BY <1>a, <1>c, <1>d, <1>3 DEF RowInv, StopInv
  <2>6. ASSUME NEW h \in Handlers, Cancelling(h)' PROVE Cancelling(h)
    BY <1>a, <1>d, <2>1, <2>6 DEF Cancelling
  <2>7. ASSUME NEW h \in Handlers, Cancelling(h), Yields(h) PROVE Yields(h)'
    <3>1. claimed = None /\ arg[h] # None
      BY <1>a, <1>d, <1>3, <2>7, ConstantsOK, PointSets
      DEF RowInv, WorkerInv, Cancelling, TypeInv, LocalsDefined
    <3> QED BY <1>a, <1>c, <1>d, <1>3, <2>1, <2>7, <3>1 DEF Yields, Early, mine
  <2>8. CancelInv'
    BY <1>a, <1>d, <2>1, <2>6, <2>7 DEF RowInv, CancelInv
  <2> QED BY <1>1, <1>c, <2>2, <2>3, <2>4, <2>5, <2>8 DEF RowInv
<1> QED BY <1>2, <1>3

LEMMA CancelRow ==
  ASSUME TypeInv, PipeInv, RowInv, NEW a \in Handlers \cup {Main}, NEW p, Script(a, p), CancelEdge(a, p)
  PROVE  RowInv'
<1>a. /\ Worker \in Actors /\ Main \in Actors /\ Main # Worker /\ a \in Actors /\ a # Worker
      /\ \A h \in Handlers : h \in Actors /\ h # Worker /\ h # Main
  BY ActorsDistinct
<1>b. PointInv
  BY DEF RowInv
<1>c. /\ pc'[a] = p /\ at'[a] \in {"lane", "js"} /\ PointInv'
      /\ \A b \in Actors \ {a} : pc'[b] = pc[b] /\ (at'[b] = at[b] \/ (b = Worker /\ pc[b] = "waiting"))
  BY <1>a, <1>b, ScriptPoints
<1>d. UNCHANGED <<status, cancelFlag, arg, seen, flag, claimed>>
  BY DEF CancelEdge, dbVars
<1>1. BootInv'
  BY <1>a, <1>c DEF RowInv, BootInv, CancelEdge, Booting
<1>2. child' # child => cancelFlag[arg[a]]
  <2>1. SUFFICES ASSUME child' # child PROVE cancelFlag[arg[a]]
    OBVIOUS
  <2>2. /\ Kills(a) /\ at[a] = "settled"
        /\ \/ pc[a] = "reqGet" /\ a = Main /\ seen[a] \in Terminal \cup {"none"}
           \/ pc[a] = "reqFlag"
           \/ pc[a] = "updPut"
    BY <2>1 DEF CancelEdge
  <2>3. arg[Worker] = arg[a] /\ child = "running"
    BY <2>1, <2>2 DEF Kills, Killed
  <2>4. status[arg[a]] = "running"
    BY <2>3 DEF RowInv, ChildInv, WorkerInv, Run, mine
  <2>5. a = Main => pc[a] = "reqFlag"
    BY <2>2, <2>4 DEF RowInv, StopInv, Terminal
  <2> QED BY <1>a, <2>2, <2>5 DEF RowInv, FlagInv
<1>3. OtherEdge(a, p)
  <2>1. Kills(a)
    BY DEF CancelEdge, Kills
  <2>2. a \in Handlers /\ p \in {"updGet", "updPut"} => cancelFlag[arg[a]] /\ goal'[a] = "cancelled"
    BY <1>a DEF CancelEdge, RowInv, FlagInv
  <2>3. Cancelling(a)' => Cancelling(a) /\ (p = "reqFlag" => pc[a] = "reqGet")
    BY <1>c, <1>d DEF Cancelling, CancelEdge
  <2>4. \A b \in Actors \ {a} : goal'[b] = goal[b]
    BY DEF CancelEdge
  <2> QED BY <1>2, <1>d, <2>1, <2>2, <2>3, <2>4 DEF OtherEdge
<1>4. a = Main => StopInv'
  BY <1>c, <1>d DEF RowInv, StopInv, CancelEdge
<1> QED BY <1>a, <1>1, <1>3, <1>4, OtherRow DEF RowInv

LEMMA HandlerRow ==
  ASSUME TypeInv, PipeInv, RowInv, NEW h \in Handlers, NEW p, Script(h, p), HandlerEdge(h, p)
  PROVE  RowInv'
<1>a. /\ h \in Actors /\ h # Worker /\ h # Main /\ Worker \in Actors /\ Main \in Actors
      /\ \A g \in Handlers : g \in Actors /\ g # Worker /\ g # Main
  BY ActorsDistinct
<1>b. PointInv
  BY DEF RowInv
<1>c. /\ pc'[h] = p /\ at'[h] \in {"lane", "js"} /\ PointInv'
      /\ \A b \in Actors \ {h} : pc'[b] = pc[b] /\ (at'[b] = at[b] \/ (b = Worker /\ pc[b] = "waiting"))
  BY <1>a, <1>b, ScriptPoints
<1>1. BootInv'
  BY <1>a, <1>c DEF RowInv, BootInv, HandlerEdge, PointInv, JsPoints, Booting
<1>2. OtherEdge(h, p)
  <2>1. p \notin {"updGet", "updPut", "reqFlag"} /\ ~Cancelling(h)'
    BY <1>c DEF HandlerEdge, Cancelling
  <2> QED BY <2>1 DEF OtherEdge, HandlerEdge, dbVars, Kills
<1> QED BY <1>a, <1>1, <1>2, OtherRow DEF RowInv

LEMMA ReceiveRow ==
  ASSUME TypeInv, PipeInv, RowInv, NEW h \in Handlers, NEW p, Script(h, p), ReceiveEdge(h, p)
  PROVE  RowInv'
<1>a. /\ h \in Actors /\ h # Worker /\ h # Main /\ Worker \in Actors /\ Main \in Actors
      /\ \A g \in Handlers : g \in Actors /\ g # Worker /\ g # Main
  BY ActorsDistinct
<1>b. PointInv
  BY DEF RowInv
<1>c. /\ pc'[h] = p /\ at'[h] \in {"lane", "js"} /\ PointInv'
      /\ \A b \in Actors \ {h} : pc'[b] = pc[b] /\ (at'[b] = at[b] \/ (b = Worker /\ pc[b] = "waiting"))
  BY <1>a, <1>b, ScriptPoints
<1>1. BootInv'
  BY <1>a, <1>c DEF RowInv, BootInv, ReceiveEdge, Booting
<1>2. OtherEdge(h, p)
  <2>1. p \notin {"updGet", "updPut", "reqFlag"} /\ ~Cancelling(h)'
    BY <1>c DEF ReceiveEdge, Cancelling
  <2> QED BY <2>1 DEF OtherEdge, ReceiveEdge, dbVars, Kills
<1> QED BY <1>a, <1>1, <1>2, OtherRow DEF RowInv

LEMMA MainRow ==
  ASSUME TypeInv, PipeInv, RowInv, NEW p, Script(Main, p), MainEdge(p) PROVE RowInv'
<1>a. /\ Worker \in Actors /\ Main \in Actors /\ Main # Worker /\ Main \notin Handlers
      /\ \A g \in Handlers : g \in Actors /\ g # Worker /\ g # Main
  BY ActorsDistinct
<1>b. PointInv
  BY DEF RowInv
<1>c. /\ pc'[Main] = p /\ at'[Main] \in {"lane", "js"} /\ PointInv'
      /\ \A b \in Actors \ {Main} :
           pc'[b] = pc[b] /\ (at'[b] = at[b] \/ (b = Worker /\ pc[b] = "waiting"))
  BY <1>a, <1>b, ScriptPoints
<1>1. BootInv'
  BY <1>a, <1>c DEF RowInv, BootInv, MainEdge, Booting
<1>2. OtherEdge(Main, p)
  <2>1. p \notin {"updGet", "updPut", "reqFlag"} /\ ~Cancelling(Main)'
    BY <1>c DEF MainEdge, Cancelling, Booting
  <2> QED BY <1>a, <2>1 DEF OtherEdge, MainEdge, MainFrame, dbVars, Kills
<1>3. StopInv'
  <2>1. p = "reqGet" => arg'[Main] = arg[Worker] /\ arg[Worker] # None
    BY DEF MainEdge, Booting
  <2>2. arg[Worker] # None => status[arg[Worker]] \notin {"none", "queued"}
    BY DEF RowInv, WorkerInv, mine, Terminal
  <2>3. p \notin {"reqFlag", "term", "updGet", "updPut"} /\ status' = status
    BY DEF MainEdge, MainFrame, Booting, dbVars
  <2> QED BY <1>c, <2>1, <2>2, <2>3 DEF StopInv
<1> QED BY <1>a, <1>1, <1>2, <1>3, OtherRow DEF RowInv

LEMMA UpRow == ASSUME TypeInv, RowInv, BootEnds PROVE RowInv'
<1>a. /\ Worker \in Actors /\ Main \in Actors /\ Main # Worker /\ Main \notin Handlers
      /\ \A g \in Handlers : g \in Actors /\ g # Worker /\ g # Main
      /\ pc \in [Actors -> Points] /\ at \in [Actors -> Outcomes]
  BY ActorsDistinct DEF TypeInv, TypeOK, RtTypeOK
<1>1. pc[Worker] = "off" /\ \A h \in Handlers : pc[h] \in {"idle", "done"}
  BY DEF BootEnds, RowInv, BootInv, Booting
<1>2. arg[Worker] = None /\ child = "none" /\ claimed = None
  BY <1>1 DEF RowInv, WorkerInv, ChildInv, Started, Free, mine
<1>3. /\ UNCHANGED <<status, cancelFlag, seen, flag, goal, claimed, child>>
      /\ \A b \in Actors \ {Main} : arg'[b] = arg[b]
  BY DEF BootEnds, MainFrame, dbVars
<1>4. /\ pc'[Main] = "up" /\ pc'[Worker] = "hasRunning" /\ at'[Main] = "js" /\ at'[Worker] = "lane"
      /\ \A h \in Handlers : pc'[h] = pc[h] /\ at'[h] = at[h]
  BY <1>a DEF BootEnds
<1>5. PointInv'
  BY <1>a, <1>4, PointKinds DEF RowInv, PointInv, Actors
<1>6. BootInv' /\ StopInv'
  BY <1>4 DEF BootInv, StopInv, Booting
<1>7. WorkerInv' /\ ChildInv'
  BY <1>a, <1>2, <1>3, <1>4 DEF WorkerInv, ChildInv, Free, Early, Run, Over, mine
<1>8. FlagInv'
  BY <1>a, <1>1, <1>2, <1>3, <1>4 DEF RowInv, FlagInv, KillSeenAsCancel, FlagReads
<1>9. CancelInv'
  BY <1>1, <1>4 DEF CancelInv, Cancelling
<1> QED BY <1>5, <1>6, <1>7, <1>8, <1>9 DEF RowInv

(* A rejected loop ends, at once or after the close of its Process ...       *)
LoopEnds ==
  /\ pc' = [pc EXCEPT ![Worker] = "failed", ![Main] = IF @ = "up" THEN "closing" ELSE @]
  /\ at' = [at EXCEPT ![Worker] = "js"] /\ arg' = [arg EXCEPT ![Worker] = None]
  /\ UNCHANGED <<dbVars, seen, flag, goal, seq, fresh, claimed, todo>>
  /\ child' = "none" /\ claimed = None
  /\ pc[Worker] # "off"

(* ... which the loop begins when there is one.                              *)
LoopCloses ==
  /\ pc' = [pc EXCEPT ![Worker] = "failClose"]
  /\ at' = [at EXCEPT ![Worker] = "js"]
  /\ UNCHANGED <<dbVars, arg, seen, flag, goal, seq, fresh, claimed, todo>>
  /\ child # "none" /\ child' = "none"
  /\ at[Worker] = "rejected" /\ claimed = None
  /\ pc[Worker] \in Started

LEMMA FailsMoves == ASSUME TypeInv, WorkerFails \/ FailureClosed PROVE Moves(Worker)
<1>1. CASE WorkerFails
  BY <1>1 DEF WorkerFails, Moves, Takes, Leads
<1>2. CASE FailureClosed
  <2>1. at' = [at EXCEPT ![Worker] = "js"]
    BY <1>2 DEF FailureClosed, Complete, TypeInv, TypeOK, RtTypeOK
  <2>2. Takes(Worker, <<>>) /\ lane' = lane
    BY <1>2 DEF FailureClosed, Complete, Takes
  <2> QED BY <2>1, <2>2 DEF Moves, Leads
<1> QED BY <1>1, <1>2

LEMMA FailsEdges ==
  ASSUME TypeInv, RowInv, WorkerFails \/ FailureClosed PROVE LoopEnds \/ LoopCloses
<1>a. Worker \in Actors /\ at \in [Actors -> Outcomes]
  BY ActorsDistinct DEF TypeInv, TypeOK, RtTypeOK
<1>1. CASE WorkerFails
  <2>1. /\ UNCHANGED <<dbVars, seen, flag, goal, seq, fresh, claimed, todo>> /\ child' = "none"
        /\ at' = [at EXCEPT ![Worker] = "js"] /\ at[Worker] = "rejected"
    BY <1>1 DEF WorkerFails
  <2>2. claimed = None
    BY <2>1 DEF RowInv, WorkerInv
  <2>3. pc[Worker] # "off"
    BY <1>a, <2>1, PointKinds DEF RowInv, PointInv
  <2>4. CASE child = "none"
    BY <1>1, <2>1, <2>2, <2>3, <2>4 DEF WorkerFails, LoopRejects, LoopEnds
  <2>5. CASE child # "none"
    BY <1>1, <2>1, <2>2, <2>5 DEF WorkerFails, LoopCloses, RowInv, ChildInv
  <2> QED BY <2>4, <2>5
<1>2. CASE FailureClosed
  <2>1. pc[Worker] = "failClose" /\ at[Worker] = "js"
    BY <1>2 DEF FailureClosed, Complete
  <2>2. claimed = None /\ child = "none"
    BY <2>1 DEF RowInv, WorkerInv, ChildInv, Started
  <2>3. at' = [at EXCEPT ![Worker] = "js"]
    BY <1>2, <1>a, <2>1 DEF FailureClosed
  <2> QED BY <1>2, <2>1, <2>2, <2>3
          DEF FailureClosed, LoopRejects, LoopEnds, Complete, NoProcess
<1> QED BY <1>1, <1>2

LEMMA EndsRow == ASSUME TypeInv, RowInv, LoopEnds PROVE RowInv'
<1>a. /\ Worker \in Actors /\ Main \in Actors /\ Main # Worker /\ Main \notin Handlers
      /\ \A g \in Handlers : g \in Actors /\ g # Worker /\ g # Main
      /\ pc \in [Actors -> Points] /\ at \in [Actors -> Outcomes]
      /\ arg \in [Actors -> Tasks \cup {None}]
  BY ActorsDistinct DEF TypeInv, TypeOK, RtTypeOK, LocalTypeOK
<1>1. /\ UNCHANGED <<status, cancelFlag, seen, flag, goal>> /\ child' = "none"
      /\ pc[Worker] # "off"
      /\ pc' = [pc EXCEPT ![Worker] = "failed", ![Main] = IF @ = "up" THEN "closing" ELSE @]
      /\ at' = [at EXCEPT ![Worker] = "js"] /\ arg' = [arg EXCEPT ![Worker] = None]
      /\ claimed' = None
  BY DEF LoopEnds, dbVars
<1>2. /\ pc'[Worker] = "failed" /\ at'[Worker] = "js" /\ arg'[Worker] = None
      /\ pc'[Main] = (IF pc[Main] = "up" THEN "closing" ELSE pc[Main])
      /\ at'[Main] = at[Main] /\ arg'[Main] = arg[Main]
      /\ \A h \in Handlers : pc'[h] = pc[h] /\ at'[h] = at[h] /\ arg'[h] = arg[h]
  BY <1>a, <1>1
<1>3. claimed' = None
  BY <1>1
<1>4. PointInv'
  <2>1. pc[Main] = "up" => at[Main] = "js"
    BY <1>a, PointKinds DEF RowInv, PointInv
  <2> QED BY <1>a, <1>2, <2>1, PointKinds DEF RowInv, PointInv, Actors
<1>5. BootInv'
  BY <1>1, <1>2 DEF RowInv, BootInv, Booting
<1>6. WorkerInv' /\ ChildInv'
  BY <1>1, <1>2, <1>3 DEF WorkerInv, ChildInv, Free, Early, Run, Over, mine
<1>7. FlagInv'
  BY <1>a, <1>1, <1>2 DEF RowInv, FlagInv, KillSeenAsCancel, FlagReads
<1>8. StopInv'
  BY <1>1, <1>2 DEF RowInv, StopInv
<1>9. CancelInv'
  <2>1. \A h \in Handlers : Cancelling(h)' => Cancelling(h) /\ arg[h] # None
    BY <1>a, <1>1, <1>2, ConstantsOK, PointSets DEF Cancelling, TypeInv, LocalsDefined
  <2>2. \A h \in Handlers : Cancelling(h)' => Yields(h)'
    BY <1>2, <1>3, <2>1 DEF Yields, mine
  <2> QED BY <1>1, <1>2, <2>1, <2>2 DEF RowInv, CancelInv
<1> QED BY <1>4, <1>5, <1>6, <1>7, <1>8, <1>9 DEF RowInv

LEMMA ClosesRow == ASSUME TypeInv, RowInv, LoopCloses PROVE RowInv'
<1>a. /\ Worker \in Actors /\ Main \in Actors /\ Main # Worker /\ Main \notin Handlers
      /\ \A g \in Handlers : g \in Actors /\ g # Worker /\ g # Main
      /\ pc \in [Actors -> Points] /\ at \in [Actors -> Outcomes]
  BY ActorsDistinct DEF TypeInv, TypeOK, RtTypeOK
<1>1. /\ UNCHANGED <<status, cancelFlag, seen, flag, goal, arg>> /\ child' = "none"
      /\ at[Worker] = "rejected" /\ claimed' = None /\ pc[Worker] \in Started
  BY DEF LoopCloses, dbVars
<1>2. /\ pc'[Worker] = "failClose" /\ at'[Worker] = "js"
      /\ \A a \in Actors \ {Worker} : pc'[a] = pc[a] /\ at'[a] = at[a]
  BY <1>a DEF LoopCloses
<1>3. PointInv'
  BY <1>a, <1>2, PointKinds DEF RowInv, PointInv
<1>4. BootInv'
  BY <1>a, <1>1, <1>2 DEF RowInv, BootInv, Booting, Started
<1>5. WorkerInv' /\ ChildInv'
  <2>1. mine # None /\ status[mine] \notin {"none", "queued"}
    BY <1>1 DEF RowInv, WorkerInv, Started, Free, Run, Over, Terminal
  <2> QED BY <1>1, <1>2, <2>1 DEF WorkerInv, ChildInv, Free, Early, Run, Over, mine
<1>6. FlagInv'
  BY <1>a, <1>1, <1>2 DEF RowInv, FlagInv, KillSeenAsCancel, FlagReads
<1>7. StopInv'
  BY <1>a, <1>1, <1>2 DEF RowInv, StopInv
<1>8. CancelInv'
  <2>1. \A h \in Handlers : Cancelling(h)' => Cancelling(h)
    BY <1>a, <1>1, <1>2 DEF Cancelling
  <2>2. \A h \in Handlers : Cancelling(h) => arg[h] # None
    BY <1>a, ConstantsOK, PointSets DEF Cancelling, TypeInv, LocalsDefined
  <2>3. \A h \in Handlers : Cancelling(h)' => Yields(h)'
    BY <1>1, <1>2, <2>1, <2>2 DEF Yields, mine
  <2> QED BY <1>1, <2>1, <2>3 DEF RowInv, CancelInv
<1> QED BY <1>3, <1>4, <1>5, <1>6, <1>7, <1>8 DEF RowInv

LEMMA FailsRow == ASSUME TypeInv, RowInv, WorkerFails \/ FailureClosed PROVE RowInv'
BY FailsEdges, EndsRow, ClosesRow

LEMMA HaltRow == ASSUME TypeInv, RowInv, Halt PROVE RowInv'
<1>a. /\ Worker \in Actors /\ Main \in Actors /\ Main # Worker
      /\ \A g \in Handlers : g \in Actors /\ g # Worker /\ g # Main
  BY ActorsDistinct
<1>1. /\ UNCHANGED <<status, cancelFlag>> /\ child' = "none" /\ claimed' = None
      /\ \A a \in Actors : at'[a] = "js"
      /\ pc'[Main] = "down" /\ pc'[Worker] = "off" /\ arg'[Worker] = None
      /\ \A h \in Handlers : pc'[h] \in {"idle", "done"}
  BY <1>a DEF Halt, dbVars
<1>2. PointInv' /\ BootInv' /\ StopInv'
  BY <1>a, <1>1 DEF PointInv, BootInv, StopInv
<1>3. WorkerInv' /\ ChildInv'
  BY <1>1 DEF WorkerInv, ChildInv, Free, Early, Run, Over, mine
<1>4. FlagInv'
  BY <1>a, <1>1 DEF RowInv, FlagInv, KillSeenAsCancel, FlagReads
<1>5. CancelInv'
  BY <1>1 DEF CancelInv, Cancelling
<1> QED BY <1>2, <1>3, <1>4, <1>5 DEF RowInv

(* A step of the job pump, of the control loop or of the child. *)
LEMMA QuietRow ==
  ASSUME TypeInv, RowInv, OrderKept, UNCHANGED <<status, cancelFlag, pc, arg, seen, flag, goal, claimed>>,
         \A a \in Actors : \/ at'[a] = at[a]
                           \/ a = Worker /\ pc[a] = "waiting" /\ at'[a] = "settled",
         \/ child' = child
         \/ child \in {"running", "held"} /\ child' \in {"held", "exited"}
         \/ child \in {"killed", "heldKilled"} /\ child' \in {"heldKilled", "dead"}
  PROVE  RowInv'
<1>a. /\ Worker \in Actors /\ Main \in Actors /\ Main # Worker
      /\ \A g \in Handlers : g \in Actors /\ g # Worker /\ g # Main
  BY ActorsDistinct
<1>1. PointInv' /\ BootInv' /\ StopInv'
  BY <1>a DEF RowInv, PointInv, BootInv, StopInv
<1>2. WorkerInv'
  BY <1>a DEF RowInv, WorkerInv, mine, Early, Run, Over
<1>3. ChildInv'
  BY <1>a DEF RowInv, ChildInv
<1>4. FlagInv'
  BY <1>a DEF RowInv, FlagInv, ChildInv, KillSeenAsCancel, FlagReads, mine
<1>5. CancelInv'
  <2>1. ASSUME NEW h \in Handlers, Cancelling(h)' PROVE Cancelling(h)
    BY <1>a, <2>1 DEF Cancelling
  <2>2. ASSUME NEW h \in Handlers, Cancelling(h), Yields(h) PROVE Yields(h)'
    BY <1>a, <2>2 DEF Yields, Early, mine, OrderKept
  <2> QED BY <2>1, <2>2 DEF RowInv, CancelInv
<1> QED BY <1>1, <1>2, <1>3, <1>4, <1>5 DEF RowInv

(* The operations of the Store.                                             *)

LEMMA ServedPoints ==
  ASSUME TypeInv, PointInv, NEW a \in Actors, NEW points, NEW o \in {"settled", "rejected"},
         Serve(a, points, o)
  PROVE  /\ pc' = pc /\ child' = child /\ at[a] = "lane" /\ at'[a] = o /\ pc[a] \in points
         /\ \A b \in Actors \ {a} : at'[b] = at[b]
         /\ PointInv'
<1>1. pc' = pc /\ child' = child /\ at[a] = "lane" /\ at' = [at EXCEPT ![a] = o] /\ pc[a] \in points
  BY ServeType
<1>2. at \in [Actors -> Outcomes]
  BY DEF TypeInv, TypeOK, RtTypeOK
<1>3. pc[a] \notin JsPoints
  BY <1>1 DEF PointInv
<1>4. at'[a] = o /\ \A b \in Actors \ {a} : at'[b] = at[b]
  BY <1>1, <1>2
<1> QED BY <1>1, <1>3, <1>4 DEF PointInv

(* An operation of another actor, which may add a row or set a flag. *)
LEMMA ServeOther ==
  ASSUME TypeInv, PipeInv, RowInv, NEW a \in Actors, a # Worker, NEW points,
         NEW o \in {"settled", "rejected"}, Serve(a, points, o),
         claimed' = claimed,
         \A t \in Tasks : \/ status'[t] = status[t]
                          \/ status[t] = "none" /\ status'[t] = "queued",
         \A t \in Tasks : cancelFlag[t] => cancelFlag'[t],
         \A b \in Actors \ {a} : arg'[b] = arg[b] /\ seen'[b] = seen[b] /\ flag'[b] = flag[b],
         goal' = goal,
         pc[a] = "reqFlag" /\ o = "settled" => cancelFlag'[arg[a]],
         pc[a] \in {"reqGet", "reqFlag", "updGet", "updPut", "term"} => arg'[a] = arg[a],
         pc[a] = "reqGet" /\ o = "settled" => seen'[a] = status'[arg[a]],
         pc[a] = "reqFlag" => seen'[a] = seen[a]
  PROVE  RowInv'
<1>a. /\ Worker \in Actors /\ Main \in Actors /\ Main # Worker /\ Main \notin Handlers
      /\ \A h \in Handlers : h \in Actors /\ h # Worker /\ h # Main
  BY ActorsDistinct
<1>b. PointInv
  BY DEF RowInv
<1>c. /\ pc' = pc /\ child' = child /\ at[a] = "lane" /\ at'[a] = o
      /\ \A b \in Actors \ {a} : at'[b] = at[b]
      /\ PointInv'
  BY <1>b, ServedPoints
<1>d. None \notin Tasks /\ claimed \in Tasks \cup {None} /\ arg \in [Actors -> Tasks \cup {None}]
      /\ \A b \in Actors : pc[b] \in {"reqGet", "reqFlag", "updGet", "updPut", "term"} => arg[b] \in Tasks
  BY ConstantsOK, PointSets DEF TypeInv, TypeOK, LocalTypeOK, LocalsDefined
<1>1. BootInv'
  BY <1>c DEF RowInv, BootInv
<1>2. /\ pc'[Worker] = pc[Worker] /\ at'[Worker] = at[Worker] /\ arg'[Worker] = arg[Worker]
      /\ seen'[Worker] = seen[Worker] /\ flag'[Worker] = flag[Worker]
  BY <1>a, <1>c
<1>m. /\ mine' = mine /\ mine \in Tasks \cup {None}
      /\ pc[Worker] \in {"waitKilled", "outSel", "outIns", "updGet", "updPut"} \cup FlagReads \cup Started
           => mine \in Tasks
  BY <1>a, <1>2, <1>d DEF mine, RowInv, WorkerInv, Free, FlagReads, Started
<1>3. WorkerInv'
  BY <1>2, <1>d, <1>m DEF RowInv, WorkerInv, Free, Early, Run, Over, Terminal
<1>4. ChildInv'
  BY <1>c DEF RowInv, ChildInv
<1>5. FlagInv'
  <2>1. \A t \in Tasks : status'[t] = "cancelled" => cancelFlag'[t]
    BY DEF RowInv, FlagInv
  <2>2. /\ pc[Worker] \in FlagReads /\ at[Worker] = "settled" /\ flag[Worker] => cancelFlag'[mine]
        /\ pc[Worker] \in {"outSel", "outIns", "updGet", "updPut"} /\ goal[Worker] = "cancelled"
             => cancelFlag'[mine]
        /\ pc[Worker] = "waitKilled" \/ child \in {"killed", "dead", "heldKilled"} => cancelFlag'[mine]
    BY <1>m DEF RowInv, FlagInv, ChildInv, Started
  <2>3. \A b \in Handlers \cup {Main} : pc[b] = "reqFlag" /\ at'[b] = "settled" => cancelFlag'[arg'[b]]
    BY <1>a, <1>c, <1>d DEF RowInv, FlagInv
  <2>4. \A h \in Handlers : pc[h] \in {"updGet", "updPut"} => cancelFlag'[arg'[h]] /\ goal[h] = "cancelled"
    BY <1>a, <1>d DEF RowInv, FlagInv
  <2>5. KillSeenAsCancel'
    BY <1>2, <1>c DEF RowInv, FlagInv, KillSeenAsCancel
  <2> QED BY <1>2, <1>c, <1>m, <2>1, <2>2, <2>3, <2>4, <2>5 DEF FlagInv
<1>6. StopInv'
  <2>1. pc[Main] \in {"reqGet", "reqFlag", "term"} =>
          arg'[Main] = arg[Main] /\ arg[Main] \in Tasks /\ status'[arg[Main]] = status[arg[Main]]
    BY <1>a, <1>d DEF RowInv, StopInv
  <2>2. CASE a = Main /\ pc[Main] = "reqGet"
    BY <1>c, <2>1, <2>2 DEF RowInv, StopInv
  <2>3. CASE ~(a = Main /\ pc[Main] = "reqGet")
    <3>1. /\ pc[Main] \in {"reqGet", "reqFlag"} => seen'[Main] = seen[Main]
          /\ pc[Main] = "reqGet" => at'[Main] = at[Main]
      BY <1>a, <1>c, <2>3
    <3> QED BY <1>c, <2>1, <3>1 DEF RowInv, StopInv
  <2> QED BY <2>2, <2>3
<1>7. ASSUME NEW h \in Handlers, Cancelling(h)'
      PROVE  \/ status'[arg'[h]] \in {"queued", "cancelled"}
             \/ status'[arg'[h]] = "running" /\ Yields(h)'
  <2>1. /\ arg'[h] = arg[h] /\ arg[h] \in Tasks
        /\ Cancelling(h) \/ (h = a /\ status'[arg[h]] = "queued")
    BY <1>a, <1>c, <1>d, <1>7 DEF Cancelling
  <2>2. CASE h = a /\ status'[arg[h]] = "queued"
    BY <2>1, <2>2
  <2>3. CASE Cancelling(h)
    <3>1. SUFFICES ASSUME status[arg[h]] = "running", Yields(h) PROVE Yields(h)'
      BY <2>1, <2>3 DEF RowInv, CancelInv
    <3>2. CASE h = a
      <4>1. pc[h] # "reqGet"
        BY <1>c, <2>3, <3>2 DEF Cancelling
      <4> QED BY <1>2, <1>c, <1>m, <2>1, <3>1, <3>2, <4>1 DEF Yields
    <3>3. CASE h # a
      <4>1. /\ Ahead(h, Worker) => Ahead(h, Worker)'
            /\ Before(lane, h, Worker) => Before(lane, h, Worker)'
        BY <1>a, <3>3, ServePipe DEF Ordered
      <4>2. at'[h] = at[h]
        BY <1>a, <1>c, <3>3
      <4> QED BY <1>2, <1>c, <1>m, <2>1, <3>1, <4>1, <4>2 DEF Yields
    <3> QED BY <3>2, <3>3
  <2> QED BY <2>1, <2>2, <2>3
<1>8. CancelInv'
  BY <1>7 DEF CancelInv
<1> QED BY <1>c, <1>1, <1>3, <1>4, <1>5, <1>6, <1>8 DEF RowInv

(* An operation of the worker that writes no row. *)
LEMMA ServeWorker ==
  ASSUME TypeInv, PipeInv, RowInv, NEW points, NEW o \in {"settled", "rejected"},
         Serve(Worker, points, o),
         UNCHANGED <<status, arg, goal>>,
         \A t \in Tasks : cancelFlag[t] => cancelFlag'[t],
         \A b \in Actors \ {Worker} : seen'[b] = seen[b],
         claimed' \in {claimed, None},
         o = "settled" => pc[Worker] # "updPut",
         pc[Worker] = "errGet" /\ o = "settled" => seen'[Worker] = status[mine],
         pc[Worker] \in FlagReads /\ o = "settled" => flag'[Worker] = cancelFlag'[mine]
  PROVE  RowInv'
<1>a. /\ Worker \in Actors /\ Main \in Actors /\ Main # Worker /\ Main \notin Handlers
      /\ \A h \in Handlers : h \in Actors /\ h # Worker /\ h # Main
  BY ActorsDistinct
<1>b. PointInv
  BY DEF RowInv
<1>c. /\ pc' = pc /\ child' = child /\ at[Worker] = "lane" /\ at'[Worker] = o
      /\ \A b \in Actors \ {Worker} : at'[b] = at[b]
      /\ PointInv'
  BY <1>a, <1>b, ServedPoints
<1>d. None \notin Tasks /\ claimed \in Tasks \cup {None} /\ arg \in [Actors -> Tasks \cup {None}]
      /\ \A b \in Actors : pc[b] \in {"reqGet", "reqFlag", "updGet", "updPut", "term"} => arg[b] \in Tasks
  BY ConstantsOK, PointSets DEF TypeInv, TypeOK, LocalTypeOK, LocalsDefined
<1>e. claimed = None /\ claimed' = None /\ mine' = mine
  BY <1>c DEF RowInv, WorkerInv, mine
<1>m. /\ mine \in Tasks \cup {None}
      /\ pc[Worker] \in {"waitKilled", "outSel", "outIns", "updGet", "updPut"} \cup FlagReads \cup Started
           => mine \in Tasks
  BY <1>a, <1>d DEF mine, RowInv, WorkerInv, Free, FlagReads, Started
<1>f. \A t \in Tasks : status[t] = "cancelled" => cancelFlag'[t]
  BY DEF RowInv, FlagInv
<1>1. BootInv'
  BY <1>c DEF RowInv, BootInv
<1>2. WorkerInv'
  <2>1. pc[Worker] = "isCancel1" /\ o = "settled" /\ ~flag'[Worker] => status[mine] = "running"
    BY <1>m, <1>f DEF RowInv, WorkerInv, Early, FlagReads
  <2>2. pc[Worker] = "errGet" /\ o = "settled" => seen'[Worker] = "running"
    BY DEF RowInv, WorkerInv, Run
  <2>3. pc[Worker] = "updPut" => at'[Worker] # "settled"
    BY <1>c
  <2> QED BY <1>c, <1>e, <2>1, <2>2, <2>3 DEF RowInv, WorkerInv
<1>3. ChildInv'
  BY <1>c DEF RowInv, ChildInv
<1>4. FlagInv'
  <2>1. /\ pc[Worker] \in {"outSel", "outIns", "updGet", "updPut"} /\ goal[Worker] = "cancelled"
             => cancelFlag'[mine]
        /\ pc[Worker] = "waitKilled" \/ child \in {"killed", "dead", "heldKilled"} => cancelFlag'[mine]
    BY <1>m DEF RowInv, FlagInv, ChildInv, Started
  <2>2. \A b \in Handlers \cup {Main} : pc[b] = "reqFlag" /\ at'[b] = "settled" => cancelFlag'[arg[b]]
    BY <1>a, <1>c, <1>d DEF RowInv, FlagInv
  <2>3. \A h \in Handlers : pc[h] \in {"updGet", "updPut"} => cancelFlag'[arg[h]] /\ goal[h] = "cancelled"
    BY <1>a, <1>d DEF RowInv, FlagInv
  <2>4. KillSeenAsCancel'
    BY <1>c, <2>1 DEF KillSeenAsCancel, FlagReads
  <2>5. pc[Worker] \in FlagReads /\ at'[Worker] = "settled" /\ flag'[Worker] => cancelFlag'[mine]
    BY <1>c
  <2> QED BY <1>c, <1>e, <1>f, <2>1, <2>2, <2>3, <2>4, <2>5 DEF FlagInv
<1>5. StopInv'
  BY <1>a, <1>c DEF RowInv, StopInv
<1>6. ASSUME NEW h \in Handlers, Cancelling(h)', status[arg[h]] = "running", Yields(h)
      PROVE  Yields(h)'
  <2>1. arg[h] \in Tasks /\ arg[h] # None /\ at'[h] = at[h]
    BY <1>a, <1>c, <1>d, <1>6 DEF Cancelling
  <2>2. ~Before(lane, h, Worker)
    BY <1>a, ServePipe
  <2>3. CASE mine = arg[h] /\ pc[Worker] \in Early
    <3>1. pc[h] # "reqGet" /\ ~(pc[h] = "reqFlag" /\ at[h] = "lane")
      BY <1>c, <1>e, <1>6, <2>1, <2>2, <2>3 DEF Yields, Early
    <3>2. cancelFlag'[arg[h]]
      BY <1>a, <1>c, <1>6, <2>1, <3>1 DEF Cancelling, RowInv, FlagInv
    <3>3. pc[Worker] = "isCancel1" /\ o = "settled" => flag'[Worker]
      BY <2>3, <3>2 DEF FlagReads
    <3> QED BY <1>c, <1>e, <2>1, <2>3, <3>1, <3>3 DEF Yields
  <2>4. CASE mine = arg[h] /\ pc[Worker] \notin Early
    BY <1>c, <1>e, <1>6, <2>1, <2>4 DEF Yields
  <2>5. CASE mine # arg[h]
    BY <1>c, <1>e, <2>1, <2>5 DEF Yields
  <2> QED BY <2>3, <2>4, <2>5
<1>7. CancelInv'
  <2>1. ASSUME NEW h \in Handlers, Cancelling(h)' PROVE Cancelling(h)
    BY <1>a, <1>c, <2>1 DEF Cancelling
  <2> QED BY <1>6, <2>1 DEF RowInv, CancelInv
<1> QED BY <1>c, <1>1, <1>2, <1>3, <1>4, <1>5, <1>7 DEF RowInv

(* The worker writes a verdict. *)
LEMMA VerdictRow ==
  ASSUME TypeInv, PipeInv, RowInv, WriteStatus(Worker) PROVE RowInv'
<1>a. /\ Worker \in Actors /\ Main \in Actors /\ Main # Worker /\ Main \notin Handlers
      /\ \A h \in Handlers : h \in Actors /\ h # Worker /\ h # Main
  BY ActorsDistinct
<1>b. Serve(Worker, {"updPut"}, "settled") /\ PointInv
  BY DEF WriteStatus, Execute, RowInv
<1>c. /\ pc' = pc /\ child' = child /\ at[Worker] = "lane" /\ at'[Worker] = "settled"
      /\ pc[Worker] = "updPut"
      /\ \A b \in Actors \ {Worker} : at'[b] = at[b]
      /\ PointInv'
  BY <1>a, <1>b, ServedPoints
<1>d. /\ None \notin Tasks /\ claimed = None /\ mine \in Tasks /\ goal[Worker] \in Terminal
      /\ status \in [Tasks -> Status]
      /\ \A b \in Actors : pc[b] \in {"reqGet", "reqFlag", "updGet", "updPut", "term"} => arg[b] \in Tasks
  BY <1>a, <1>c, ConstantsOK, PointSets
  DEF TypeInv, TypeOK, LocalTypeOK, DbTypeOK, LocalsDefined, RowInv, WorkerInv, mine
<1>e. /\ UNCHANGED <<cancelFlag, arg, seen, flag, goal, claimed>> /\ mine' = mine
      /\ \A t \in Tasks : status'[t] = IF t = mine THEN goal[Worker] ELSE status[t]
  BY <1>d DEF WriteStatus, locals, mine
<1>f. \/ status[mine] = "running"
      \/ goal[Worker] = "cancelled" /\ status[mine] = "cancelled"
  BY <1>c DEF RowInv, WorkerInv
<1>1. BootInv'
  BY <1>c DEF RowInv, BootInv
<1>2. WorkerInv'
  BY <1>c, <1>d, <1>e DEF RowInv, WorkerInv, Free, Early, Run, Over, mine
<1>3. ChildInv'
  BY <1>c, <1>e DEF RowInv, ChildInv
<1>4. FlagInv'
  <2>1. goal[Worker] = "cancelled" => cancelFlag[mine]
    BY <1>c DEF RowInv, FlagInv
  <2> QED BY <1>a, <1>c, <1>e, <2>1 DEF RowInv, FlagInv, KillSeenAsCancel, FlagReads
<1>5. StopInv'
  <2>1. pc[Main] \in {"reqGet", "reqFlag", "term"} => arg[Main] \in Tasks
    BY <1>a, <1>d
  <2> QED BY <1>a, <1>c, <1>d, <1>e, <2>1 DEF RowInv, StopInv, Terminal
<1>6. ASSUME NEW h \in Handlers, Cancelling(h)'
      PROVE  \/ status'[arg'[h]] \in {"queued", "cancelled"}
             \/ status'[arg'[h]] = "running" /\ Yields(h)'
  <2>1. Cancelling(h) /\ arg[h] \in Tasks /\ arg'[h] = arg[h]
    BY <1>a, <1>c, <1>d, <1>e, <1>6 DEF Cancelling
  <2>2. CASE arg[h] = mine
    <3>1. goal[Worker] = "cancelled"
      BY <1>c, <1>d, <1>f, <2>1, <2>2 DEF RowInv, CancelInv, Yields, Early
    <3> QED BY <1>e, <2>1, <2>2, <3>1
  <2>3. CASE arg[h] # mine
    BY <1>d, <1>e, <2>1, <2>3 DEF RowInv, CancelInv, Yields, mine
  <2> QED BY <2>2, <2>3
<1>7. CancelInv'
  BY <1>6 DEF CancelInv
<1> QED BY <1>c, <1>1, <1>2, <1>3, <1>4, <1>5, <1>7 DEF RowInv

(* requestCancel writes `cancelled': the worker has not decided to start    *)
(* the task, or it has decided the same.                                    *)
LEMMA WithdrawRow ==
  ASSUME TypeInv, PipeInv, RowInv, NEW h \in Handlers, WriteStatus(h) PROVE RowInv'
<1>a. /\ Worker \in Actors /\ Main \in Actors /\ Main # Worker /\ Main \notin Handlers
      /\ \A g \in Handlers : g \in Actors /\ g # Worker /\ g # Main
  BY ActorsDistinct
<1>b. Serve(h, {"updPut"}, "settled") /\ PointInv
  BY DEF WriteStatus, Execute, RowInv
<1>c. /\ pc' = pc /\ child' = child /\ at[h] = "lane" /\ at'[h] = "settled" /\ pc[h] = "updPut"
      /\ \A b \in Actors \ {h} : at'[b] = at[b]
      /\ PointInv'
  BY <1>a, <1>b, ServedPoints
<1>d. /\ None \notin Tasks /\ arg[h] \in Tasks /\ goal[h] = "cancelled" /\ cancelFlag[arg[h]]
      /\ status \in [Tasks -> Status] /\ mine \in Tasks \cup {None} /\ claimed \in Tasks \cup {None}
      /\ \A b \in Actors : pc[b] \in {"reqGet", "reqFlag", "updGet", "updPut", "term"} => arg[b] \in Tasks
  <2>1. None \notin Tasks
    BY ConstantsOK
  <2>2. \A b \in Actors : pc[b] \in {"reqGet", "reqFlag", "updGet", "updPut", "term"} => arg[b] \in Tasks
    BY PointSets DEF TypeInv, TypeOK, LocalTypeOK, LocalsDefined
  <2>3. status \in [Tasks -> Status] /\ claimed \in Tasks \cup {None}
    BY DEF TypeInv, TypeOK, LocalTypeOK, DbTypeOK
  <2>4. mine \in Tasks \cup {None}
    BY <1>a, PointSets DEF TypeInv, TypeOK, LocalTypeOK, LocalsDefined, mine
  <2>5. goal[h] = "cancelled" /\ cancelFlag[arg[h]]
    BY <1>a, <1>c DEF RowInv, FlagInv
  <2> QED BY <1>a, <1>c, <2>1, <2>2, <2>3, <2>4, <2>5
<1>e. /\ UNCHANGED <<cancelFlag, arg, seen, flag, goal, claimed>> /\ mine' = mine
      /\ \A t \in Tasks : status'[t] = IF t = arg[h] THEN "cancelled" ELSE status[t]
  BY <1>d DEF WriteStatus, locals, mine
<1>f. \/ status[arg[h]] \in {"queued", "cancelled"}
      \/ status[arg[h]] = "running" /\ Yields(h)
  BY <1>c DEF RowInv, CancelInv, Cancelling
<1>1. BootInv'
  BY <1>c DEF RowInv, BootInv
<1>2. WorkerInv'
  <2>1. CASE arg[h] = mine
    <3>1. \/ status[mine] = "cancelled"
          \/ /\ pc[Worker] \in Early
             /\ pc[Worker] = "isCancel1" /\ at[Worker] = "settled" => flag[Worker]
          \/ pc[Worker] \in {"updGet", "updPut"} /\ goal[Worker] = "cancelled"
          \/ pc[Worker] = "failClose"
      <4>1. status[mine] # "queued" /\ claimed # mine
        BY <1>d, <2>1 DEF RowInv, WorkerInv, Free, Terminal
      <4> QED BY <1>f, <2>1, <4>1 DEF Yields
    <3>2. claimed # None => claimed # arg[h]
      BY <1>d, <2>1 DEF RowInv, WorkerInv, Free
    <3> QED BY <1>a, <1>c, <1>d, <1>e, <2>1, <3>1, <3>2
            DEF RowInv, WorkerInv, Free, Early, Run, Over, Terminal
  <2>2. CASE arg[h] # mine
    BY <1>a, <1>c, <1>d, <1>e, <2>2 DEF RowInv, WorkerInv, Free, Early, Run, Over
  <2> QED BY <2>1, <2>2
<1>3. ChildInv'
  BY <1>c, <1>e DEF RowInv, ChildInv
<1>4. FlagInv'
  BY <1>a, <1>c, <1>d, <1>e DEF RowInv, FlagInv, KillSeenAsCancel, FlagReads
<1>5. StopInv'
  <2>1. pc[Main] \in {"reqGet", "reqFlag", "term"} => arg[Main] \in Tasks
    BY <1>a, <1>d
  <2> QED BY <1>a, <1>c, <1>d, <1>e, <2>1 DEF RowInv, StopInv, Terminal
<1>6. ASSUME NEW g \in Handlers, Cancelling(g)'
      PROVE  \/ status'[arg'[g]] \in {"queued", "cancelled"}
             \/ status'[arg'[g]] = "running" /\ Yields(g)'
  <2>1. Cancelling(g) /\ arg[g] \in Tasks /\ arg'[g] = arg[g] /\ g # h
    BY <1>a, <1>c, <1>d, <1>e, <1>6 DEF Cancelling
  <2>2. CASE arg[g] = arg[h]
    BY <1>e, <2>1, <2>2
  <2>3. CASE arg[g] # arg[h]
    <3>1. SUFFICES ASSUME status[arg[g]] = "running", Yields(g) PROVE Yields(g)'
      BY <1>e, <2>1, <2>3 DEF RowInv, CancelInv
    <3>2. /\ Ahead(g, Worker) => Ahead(g, Worker)'
          /\ Before(lane, g, Worker) => Before(lane, g, Worker)'
      BY <1>a, <1>b, <2>1, ServePipe DEF Ordered
    <3>3. at'[g] = at[g] /\ at'[Worker] = at[Worker]
      BY <1>a, <1>c, <2>1
    <3> QED BY <1>c, <1>e, <2>1, <3>1, <3>2, <3>3 DEF Yields
  <2> QED BY <2>2, <2>3
<1>7. CancelInv'
  BY <1>6 DEF CancelInv
<1> QED BY <1>c, <1>1, <1>2, <1>3, <1>4, <1>5, <1>7 DEF RowInv

(* The claim.  A handler that has read `queued' resumes before the worker.  *)
LEMMA ClaimRow ==
  ASSUME TypeInv, PipeInv, RowInv, ClaimNextQueued PROVE RowInv'
<1>a. /\ Worker \in Actors /\ Main \in Actors /\ Main # Worker /\ Main \notin Handlers
      /\ \A h \in Handlers : h \in Actors /\ h # Worker /\ h # Main
  BY ActorsDistinct
<1>b. Serve(Worker, {"claim"}, "settled") /\ PointInv
  BY DEF ClaimNextQueued, Execute, RowInv
<1>c. /\ pc' = pc /\ child' = child /\ at[Worker] = "lane" /\ at'[Worker] = "settled"
      /\ pc[Worker] = "claim"
      /\ \A b \in Actors \ {Worker} : at'[b] = at[b]
      /\ PointInv'
  BY <1>a, <1>b, ServedPoints
<1>d. UNCHANGED <<cancelFlag, arg, seen, flag, goal>>
  BY DEF ClaimNextQueued
<1>1. CASE claimed' = None /\ status' = status
  BY <1>b, <1>c, <1>d, <1>1, ServeWorker DEF FlagReads
<1>2. ASSUME NEW i \in DOMAIN created, Claimable(i), claimed' = created[i],
             status' = [status EXCEPT ![created[i]] = "running"]
      PROVE  RowInv'
  <2> DEFINE t == created[i]
  <2>a. /\ t \in Tasks /\ status[t] = "queued" /\ claimed' = t /\ None \notin Tasks
        /\ status \in [Tasks -> Status] /\ claimed = None /\ mine = None /\ mine' = None
    BY <1>2, <1>c, <1>d, ConstantsOK
    DEF Claimable, TypeInv, TypeOK, DbTypeOK, RowInv, WorkerInv, Free, mine
  <2>b. \A u \in Tasks : status'[u] = IF u = t THEN "running" ELSE status[u]
    BY <1>2, <2>a
  <2>c. \A b \in Actors : pc[b] \in {"reqGet", "reqFlag", "updGet", "updPut", "term"} => arg[b] \in Tasks
    BY PointSets DEF TypeInv, LocalsDefined
  <2> HIDE DEF t
  <2>1. BootInv'
    BY <1>c DEF RowInv, BootInv
  <2>2. WorkerInv' /\ ChildInv'
    BY <1>c, <2>a, <2>b DEF RowInv, WorkerInv, ChildInv, Started, Free, Early, Run, Over
  <2>3. FlagInv'
    BY <1>a, <1>c, <1>d, <2>b DEF RowInv, FlagInv, ChildInv, Started, KillSeenAsCancel, FlagReads
  <2>4. StopInv'
    <3>1. pc[Main] \in {"reqGet", "reqFlag", "term"} => arg[Main] \in Tasks
      BY <1>a, <2>c
    <3> QED BY <1>a, <1>c, <1>d, <2>a, <2>b, <3>1 DEF RowInv, StopInv, Terminal
  <2>5. ASSUME NEW h \in Handlers, Cancelling(h)'
        PROVE  \/ status'[arg'[h]] \in {"queued", "cancelled"}
               \/ status'[arg'[h]] = "running" /\ Yields(h)'
    <3>1. Cancelling(h) /\ arg[h] \in Tasks /\ arg'[h] = arg[h]
      BY <1>a, <1>c, <1>d, <2>5, <2>c DEF Cancelling
    <3>2. CASE arg[h] = t
      <4>1. pc[h] = "reqGet" => Ahead(h, Worker)'
        <5>1. pc[h] = "reqGet" => at[h] = "settled"
          BY <3>1 DEF Cancelling
        <5> QED BY <1>a, <1>b, <5>1, ServePipe
      <4> QED BY <1>c, <2>a, <2>b, <3>1, <3>2, <4>1 DEF Yields
    <3>3. CASE arg[h] # t
      BY <2>a, <2>b, <3>1, <3>3 DEF RowInv, CancelInv, Yields
    <3> QED BY <3>2, <3>3
  <2>6. CancelInv'
    BY <2>5 DEF CancelInv
  <2> QED BY <1>c, <2>1, <2>2, <2>3, <2>4, <2>6 DEF RowInv
<1> QED BY <1>1, <1>2 DEF ClaimNextQueued

LEMMA MarkRow == ASSUME TypeInv, PipeInv, RowInv, MarkInterrupted PROVE RowInv'
<1>a. /\ Worker \in Actors /\ Main \in Actors /\ Main # Worker /\ Main \notin Handlers
      /\ \A h \in Handlers : h \in Actors /\ h # Worker /\ h # Main
  BY ActorsDistinct
<1>b. Serve(Main, {"bootMark"}, "settled") /\ PointInv
  BY DEF MarkInterrupted, MarkAs, Execute, RowInv
<1>c. /\ pc' = pc /\ child' = child /\ pc[Main] = "bootMark"
      /\ \A b \in Actors \ {Main} : at'[b] = at[b]
      /\ PointInv'
  BY <1>a, <1>b, ServedPoints
<1>d. UNCHANGED <<arg, claimed>>
  BY DEF MarkInterrupted, MarkAs, locals
<1>1. BootInv'
  BY <1>c DEF RowInv, BootInv
<1>2. pc[Worker] = "off" /\ mine = None /\ claimed = None /\ child = "none"
      /\ \A h \in Handlers : pc[h] \in {"idle", "done"}
  BY <1>c DEF RowInv, BootInv, Booting, WorkerInv, ChildInv, Started, Free
<1>3. WorkerInv' /\ ChildInv'
  BY <1>c, <1>d, <1>2 DEF WorkerInv, ChildInv, Free, Early, Run, Over, mine
<1>4. FlagInv'
  <2>1. \A t \in Tasks : status'[t] = "cancelled" => cancelFlag'[t]
    <3>1. status \in [Tasks -> Status] /\ cancelFlag \in [Tasks -> BOOLEAN] /\ arg[Main] \in Tasks
      BY <1>a, <1>c, PointSets DEF TypeInv, TypeOK, DbTypeOK, LocalsDefined
    <3> QED BY <3>1 DEF MarkInterrupted, MarkAs, RowInv, FlagInv
  <2> QED BY <1>a, <1>c, <1>2, <2>1 DEF FlagInv, KillSeenAsCancel, FlagReads
<1>5. StopInv' /\ CancelInv'
  BY <1>c, <1>2 DEF StopInv, CancelInv, Cancelling
<1> QED BY <1>c, <1>1, <1>3, <1>4, <1>5 DEF RowInv

LEMMA StoreRow == ASSUME TypeInv, PipeInv, RowInv, StoreStep PROVE RowInv'
<1>a. /\ Worker \in Actors /\ Main \in Actors /\ Main # Worker /\ Main \notin Handlers
      /\ \A h \in Handlers : h \in Actors /\ h # Worker /\ h # Main
  BY ActorsDistinct
<1>b. /\ status \in [Tasks -> Status] /\ cancelFlag \in [Tasks -> BOOLEAN]
      /\ arg \in [Actors -> Tasks \cup {None}] /\ seen \in [Actors -> Status]
      /\ flag \in [Actors -> BOOLEAN]
  BY DEF TypeInv, TypeOK, DbTypeOK, LocalTypeOK
<1>1. ASSUME NEW a \in Actors, GetTask(a) PROVE RowInv'
  <2>1. /\ Serve(a, ReadPoints, "settled")
        /\ UNCHANGED <<status, cancelFlag, arg, flag, goal, claimed>>
        /\ \A b \in Actors : seen'[b] = IF b = a THEN status[arg[a]] ELSE seen[b]
    BY <1>1, <1>b DEF GetTask, Execute, dbVars
  <2>2. pc[a] \in ReadPoints
    BY <2>1 DEF Serve
  <2>3. CASE a = Worker
    BY <2>1, <2>2, <2>3, ServeWorker DEF ReadPoints, FlagReads, mine
  <2>4. CASE a # Worker /\ pc[a] = "reqGet"
    BY <2>1, <2>4, ServeOther
  <2>5. CASE a # Worker /\ pc[a] # "reqGet"
    BY <2>1, <2>2, <2>5, ServeOther DEF ReadPoints
  <2> QED BY <2>3, <2>4, <2>5
<1>2. ASSUME NEW a \in Actors, SetCancelFlag(a) PROVE RowInv'
  <2>1. /\ Serve(a, {"reqFlag", "selfFlag"}, "settled")
        /\ UNCHANGED <<status, arg, seen, flag, goal, claimed>>
        /\ cancelFlag' = [cancelFlag EXCEPT ![arg[a]] = TRUE]
    BY <1>2 DEF SetCancelFlag, Execute, locals
  <2>2. pc[a] \in {"reqFlag", "selfFlag"}
    BY <2>1 DEF Serve
  <2>3. arg[a] \in Tasks
    BY <2>2, PointSets DEF TypeInv, LocalsDefined
  <2>4. cancelFlag'[arg[a]] /\ \A t \in Tasks : cancelFlag[t] => cancelFlag'[t]
    BY <1>b, <2>1, <2>3
  <2> QED BY <2>1, <2>2, <2>4, ServeOther, ServeWorker DEF FlagReads
<1>3. ASSUME NEW a \in Actors, WriteStatus(a) PROVE RowInv'
  <2>1. a # Main
    BY <1>3 DEF WriteStatus, Execute, Serve, RowInv, StopInv
  <2> QED BY <1>3, <2>1, VerdictRow, WithdrawRow DEF Actors
<1>4. ASSUME NEW a \in Actors, LogSequence(a) PROVE RowInv'
  <2>1. /\ Serve(a, SelPoints, "settled")
        /\ UNCHANGED <<status, cancelFlag, arg, seen, flag, goal, claimed>>
    BY <1>4 DEF LogSequence, Execute, dbVars
  <2>2. pc[a] \in SelPoints
    BY <2>1 DEF Serve
  <2> QED BY <2>1, <2>2, ServeOther, ServeWorker DEF SelPoints, FlagReads
<1>5. ASSUME NEW a \in Actors, LogInsert(a) PROVE RowInv'
  <2>1. PICK o \in {"settled", "rejected"} :
          /\ Serve(a, InsPoints, o)
          /\ UNCHANGED <<status, cancelFlag, arg, seen, flag, goal, claimed>>
    BY <1>5 DEF LogInsert, locals
  <2>2. pc[a] \in InsPoints
    BY <2>1 DEF Serve
  <2> QED BY <2>1, <2>2, ServeOther, ServeWorker DEF InsPoints, FlagReads
<1>6. ASSUME NEW h \in Handlers, FindByIdempotencyKey(h) PROVE RowInv'
  <2>1. /\ Serve(h, {"keyFind"}, "settled") /\ UNCHANGED <<status, cancelFlag, seen, goal, claimed>>
        /\ \A b \in Actors \ {h} : arg'[b] = arg[b] /\ flag'[b] = flag[b]
    BY <1>6, <1>a, <1>b DEF FindByIdempotencyKey, Execute, dbVars
  <2>2. pc[h] = "keyFind"
    BY <2>1 DEF Serve
  <2> QED BY <1>a, <2>1, <2>2, ServeOther
<1>7. ASSUME NEW h \in Handlers, CreateTask(h) PROVE RowInv'
  <2>1. /\ Serve(h, {"insert", "retryInsert"}, "settled")
        /\ UNCHANGED <<cancelFlag, arg, seen, goal, claimed>>
        /\ \A b \in Actors \ {h} : flag'[b] = flag[b]
    BY <1>7, <1>a, <1>b DEF CreateTask, Execute
  <2>2. pc[h] \in {"insert", "retryInsert"}
    BY <2>1 DEF Serve
  <2>3. \/ status' = status
        \/ status[arg[h]] = "none" /\ status' = [status EXCEPT ![arg[h]] = "queued"]
    BY <1>7, Zenon DEF CreateTask
  <2>4. \A t \in Tasks : \/ status'[t] = status[t]
                         \/ status[t] = "none" /\ status'[t] = "queued"
    BY <1>b, <2>3
  <2> QED BY <1>a, <2>1, <2>2, <2>4, ServeOther
<1>8. CASE IsCancelRequested
  <2>1. /\ Serve(Worker, FlagReads, "settled")
        /\ UNCHANGED <<status, cancelFlag, arg, seen, goal, claimed>>
        /\ flag'[Worker] = cancelFlag[mine]
    BY <1>8, <1>a, <1>b DEF IsCancelRequested, Execute, dbVars, mine
  <2>2. pc[Worker] \in FlagReads
    BY <2>1 DEF Serve
  <2> QED BY <1>a, <2>1, <2>2, ServeWorker DEF FlagReads
<1>9. CASE HasRunning
  <2>1. /\ Serve(Worker, {"hasRunning"}, "settled")
        /\ UNCHANGED <<status, cancelFlag, arg, seen, goal, claimed>>
    BY <1>9 DEF HasRunning, Execute, dbVars
  <2>2. pc[Worker] = "hasRunning"
    BY <2>1 DEF Serve
  <2> QED BY <1>a, <2>1, <2>2, ServeWorker DEF FlagReads
<1>10. CASE ListInterrupted
  <2>1. /\ Serve(Main, {"bootList"}, "settled")
        /\ UNCHANGED <<status, cancelFlag, arg, seen, flag, goal, claimed>>
    BY <1>10 DEF ListInterrupted, Execute, dbVars
  <2>2. pc[Main] = "bootList"
    BY <2>1 DEF Serve
  <2> QED BY <1>a, <2>1, <2>2, ServeOther
<1> QED BY <1>1, <1>2, <1>3, <1>4, <1>5, <1>6, <1>7, <1>8, <1>9, <1>10, ClaimRow,
    MarkRow DEF StoreStep

LEMMA StoreFaultRow == ASSUME TypeInv, PipeInv, RowInv, NEW a \in Actors, StoreFault(a) PROVE RowInv'
<1>1. /\ Serve(a, StorePoints \ {"dbClose"}, "rejected")
      /\ UNCHANGED <<status, cancelFlag, arg, seen, flag, goal, claimed>>
  BY DEF StoreFault, dbVars, locals
<1> QED BY <1>1, ServeOther, ServeWorker

-----------------------------------------------------------------------------
(* The invariant of a run, assembled.                                       *)

LEMMA InitRow == Init => PipeInv /\ RowInv
<1> SUFFICES ASSUME Init PROVE PipeInv /\ RowInv
  OBVIOUS
<1>a. Worker \in Actors /\ Main \in Actors /\ Main # Worker
      /\ \A h \in Handlers : h \in Actors /\ h # Worker /\ h # Main
  BY ActorsDistinct
<1>1. /\ \A t \in Tasks : status[t] = "none" /\ ~cancelFlag[t]
      /\ lane = <<>> /\ settled = <<>> /\ turn = <<>> /\ child = "none" /\ claimed = None
      /\ \A a \in Actors : at[a] = "js" /\ arg[a] = None
      /\ pc[Main] = "down" /\ pc[Worker] = "off" /\ \A h \in Handlers : pc[h] = "idle"
  BY <1>a DEF Init
<1>2. PipeInv
  BY <1>1 DEF PipeInv, Once, In
<1>3. PointInv /\ BootInv /\ StopInv
  BY <1>a, <1>1 DEF PointInv, BootInv, StopInv
<1>4. WorkerInv /\ ChildInv
  BY <1>a, <1>1 DEF WorkerInv, ChildInv, Free, Early, Run, Over, mine
<1>5. FlagInv /\ CancelInv
  BY <1>a, <1>1 DEF FlagInv, CancelInv, KillSeenAsCancel, FlagReads, Cancelling
<1> QED BY <1>2, <1>3, <1>4, <1>5 DEF RowInv

LEMMA NextRow ==
  ASSUME TypeInv, PipeInv, RowInv, [Next]_vars PROVE PipeInv' /\ RowInv'
<1>a. /\ Worker \in Actors /\ Main \in Actors /\ Main # Worker /\ Handlers \subseteq Actors
      /\ Main \notin Handlers
  BY ActorsDistinct
<1>b. PointInv /\ pc[Main] \in {"bootList", "bootMark", "bootIns"} => at[Worker] = "js"
  BY <1>a, PointKinds DEF PointInv, RowInv, BootInv, Booting
<1>c. PointInv
  BY DEF RowInv
<1>s. ASSUME NEW a \in Actors, NEW p, Script(a, p) PROVE PipeInv'
  BY <1>s, MovePipe DEF Script
<1>o. ASSUME NEW a \in Actors, NEW points, NEW o \in {"settled", "rejected"}, Serve(a, points, o)
      PROVE  PipeInv'
  BY <1>o, ServePipe
<1>1. CASE StoreStep
  <2>1. PICK a \in Actors : \E points : \E o \in {"settled", "rejected"} : Serve(a, points, o)
    BY <1>1, <1>a
    DEF StoreStep, GetTask, SetCancelFlag, WriteStatus, LogSequence, LogInsert,
      FindByIdempotencyKey,
        CreateTask, IsCancelRequested, HasRunning, ClaimNextQueued, ListInterrupted,
        MarkInterrupted, MarkAs, Execute
  <2> QED BY <1>1, <1>o, <2>1, StoreRow
<1>2. ASSUME NEW a \in Actors, StoreFault(a) PROVE PipeInv' /\ RowInv'
  BY <1>2, <1>o, StoreFaultRow DEF StoreFault
<1>3. CASE (WorkerStep \/ WorkerAwait) /\ ~WorkerFails
  BY <1>3, <1>a, <1>s, WorkerEdges, WorkerRow
<1>4. CASE WorkerFails \/ FailureClosed
  BY <1>4, <1>a, FailsMoves, FailsRow, MovePipe
<1>5. ASSUME NEW a \in Actors, NextStatement(a) PROVE PipeInv' /\ RowInv'
  BY <1>5, <1>s, StatementEdges, StatementRow
<1>6. ASSUME NEW a \in Handlers \cup {Main}, CancelStep(a) \/ Terminated(a) PROVE PipeInv' /\ RowInv'
  BY <1>6, <1>a, <1>s, CancelEdges, CancelRow
<1>7. ASSUME NEW h \in Handlers, HandlerStep(h) PROVE PipeInv' /\ RowInv'
  BY <1>7, <1>a, <1>s, HandlerEdges, HandlerRow
<1>8. CASE Arrive
  BY <1>8, <1>a, <1>s, ReceiveEdges, ReceiveRow
<1>9. CASE MainStep \/ MainAwait \/ Restart \/ StopRequested
  <2>1. CASE BootEnds
    <3>1. /\ Takes(Main, <<>>) /\ pc[Main] \in {"bootList", "bootMark", "bootIns"}
          /\ at' = [at EXCEPT ![Main] = "js", ![Worker] = "lane"] /\ lane' = Append(lane, Worker)
      BY <2>1 DEF BootEnds
    <3> QED BY <1>b, <1>c, <2>1, <3>1, UpPipe, UpRow
  <2>2. CASE Script(Main, pc'[Main]) /\ MainEdge(pc'[Main])
    BY <1>a, <1>s, <2>2, MainRow
  <2> QED BY <1>c, <1>9, <2>1, <2>2, MainEdges
<1>10. CASE Crash \/ CloseStore
  BY <1>10, HaltPipe, HaltRow DEF Crash, CloseStore
<1>11. CASE StartTurn
  <2>1. UNCHANGED <<status, cancelFlag, pc, arg, seen, flag, goal, claimed, at, child>>
    BY <1>11 DEF StartTurn, dbVars, locals
  <2> QED BY <1>11, <2>1, TurnPipe, QuietRow
<1>12. CASE Tick
  <2>1. /\ UNCHANGED <<status, cancelFlag, pc, arg, seen, flag, goal, claimed, child, lane, settled>>
        /\ turn' = turn \o WakeJobs /\ at' = AtWoken
    BY <1>12 DEF Tick, dbVars, locals
  <2>2. \A a \in Actors : \/ at'[a] = at[a]
                          \/ a = Worker /\ pc[a] = "waiting" /\ at'[a] = "settled"
    BY <2>1 DEF AtWoken, Waiting, TypeInv, TypeOK, RtTypeOK
  <2>3. PipeInv' /\ OrderKept
    BY <2>1, WokenPipe
  <2> QED BY <2>1, <2>2, <2>3, QuietRow
<1>13. CASE ChildExits \/ DescendantEnds \/ UNCHANGED vars
  <2>1. /\ UNCHANGED <<status, cancelFlag, pc, arg, seen, flag, goal, claimed, lane, settled, turn, at>>
        /\ \/ child' = child
           \/ child \in {"running", "held"} /\ child' \in {"held", "exited"}
           \/ child \in {"killed", "heldKilled"} /\ child' \in {"heldKilled", "dead"}
    BY <1>13 DEF ChildExits, DescendantEnds, Held, vars, dbVars, rtVars, locals
  <2>2. PipeInv' /\ OrderKept
    BY <2>1 DEF PipeInv, OrderKept, Ahead, Together
  <2> QED BY <2>1, <2>2, QuietRow
<1> QED BY <1>1, <1>2, <1>3, <1>4, <1>5, <1>6, <1>7, <1>8, <1>9, <1>10, <1>11, <1>12, <1>13
        DEF Next, Progress

LEMMA AlwaysRows == Spec => [](TypeInv /\ SafeInv /\ PipeInv /\ RowInv)
<1>1. TypeInv /\ PipeInv /\ RowInv /\ [Next]_vars => PipeInv' /\ RowInv'
  BY NextRow
<1> QED BY <1>1, InitTypes, NextTypes, InitSafe, NextSafe, InitRow, PTL DEF Spec

(* requestCancel decides to write `cancelled' from a status it read two     *)
(* awaits earlier.  Whatever the worker, other handlers and stop() do in    *)
(* between, a live child that nobody has killed belongs to a row that says  *)
(* `running'.                                                               *)
THEOREM ProcessRowIsRunning == Spec => []ProcessHasRunningRow
<1>1. RowInv => ProcessHasRunningRow
  BY DEF RowInv, ChildInv, WorkerInv, Run, mine, ProcessHasRunningRow
<1> QED BY <1>1, AlwaysRows, PTL

(* cancelRunning kills only after requestCancel's UPDATE: when the executor *)
(* asks, after the exit, whether the task was cancelled, a child that was   *)
(* killed is never taken for one that failed by itself.                     *)
THEOREM KillsAreSeen == Spec => []KillSeenAsCancel
<1>1. RowInv => KillSeenAsCancel
  BY DEF RowInv, FlagInv
<1> QED BY <1>1, AlwaysRows, PTL

-----------------------------------------------------------------------------
(* The rows implement TaskLifecycle.                                        *)

LEMMA StoreLifecycle ==
  ASSUME TypeInv, SafeInv, RowInv, StoreStep PROVE [Lifecycle!Next]_status
<1> USE DEF Lifecycle!Next, Lifecycle!Become
<1>a. /\ Worker \in Actors /\ Main \in Actors /\ Main # Worker /\ Main \notin Handlers
      /\ \A h \in Handlers : h \in Actors /\ h # Worker /\ h # Main
      /\ goal \in [Actors -> Terminal]
  BY ActorsDistinct DEF TypeInv, TypeOK, LocalTypeOK
<1>b. Lifecycle!Terminal = Terminal
  BY DEF Lifecycle!Terminal, Terminal
<1>1. CASE status' = status
  BY <1>1
<1>2. ASSUME NEW a \in Actors, WriteStatus(a) PROVE [Lifecycle!Next]_status
  <2>1. /\ at[a] = "lane" /\ pc[a] = "updPut" /\ status' = [status EXCEPT ![arg[a]] = goal[a]]
        /\ arg[a] \in Tasks /\ goal[a] \in Terminal
    BY <1>2, <1>a, PointSets DEF WriteStatus, Execute, Serve, TypeInv, LocalsDefined
  <2>2. CASE status[arg[a]] = "running"
    <3>1. Lifecycle!Conclude(arg[a])
      BY <1>b, <2>1, <2>2 DEF Lifecycle!Conclude
    <3> QED BY <2>1, <3>1
  <2>3. CASE status[arg[a]] = "cancelled" /\ goal[a] = "cancelled"
    <3>1. status' = status
      BY <2>1, <2>3 DEF TypeInv, TypeOK, DbTypeOK
    <3> QED BY <3>1
  <2>4. CASE status[arg[a]] = "queued" /\ goal[a] = "cancelled"
    <3>1. Lifecycle!Withdraw(arg[a])
      BY <2>1, <2>4 DEF Lifecycle!Withdraw
    <3> QED BY <2>1, <3>1
  <2>5. a = Worker => \/ status[arg[a]] = "running"
                      \/ status[arg[a]] = "cancelled" /\ goal[a] = "cancelled"
    BY <2>1 DEF RowInv, WorkerInv, mine
  <2>6. a \in Handlers => /\ status[arg[a]] \in {"queued", "cancelled", "running"}
                          /\ goal[a] = "cancelled"
    BY <2>1 DEF RowInv, CancelInv, Cancelling, FlagInv
  <2>7. a # Main
    BY <2>1 DEF RowInv, StopInv
  <2> QED BY <2>2, <2>3, <2>4, <2>5, <2>6, <2>7 DEF Actors
<1>3. ASSUME NEW h \in Handlers, CreateTask(h) PROVE [Lifecycle!Next]_status
  <2>1. arg[h] \in Tasks
    BY <1>3, <1>a, PointSets DEF CreateTask, Execute, Serve, TypeInv, LocalsDefined
  <2>2. \/ status' = status
        \/ status[arg[h]] = "none" /\ status' = [status EXCEPT ![arg[h]] = "queued"]
    BY <1>3, Zenon DEF CreateTask
  <2> QED BY <2>1, <2>2 DEF Lifecycle!Accept
<1>4. CASE ClaimNextQueued
  <2>1. /\ NoneRunning
        /\ \/ status' = status
           \/ \E i \in DOMAIN created : /\ Claimable(i)
                                        /\ status' = [status EXCEPT ![created[i]] = "running"]
    BY <1>4 DEF ClaimNextQueued, Execute, Serve, SafeInv, ClaimIsFresh
  <2>2. ASSUME NEW i \in DOMAIN created, Claimable(i),
               status' = [status EXCEPT ![created[i]] = "running"]
        PROVE  Lifecycle!Run(created[i]) /\ created[i] \in Tasks
    BY <2>1, <2>2 DEF Lifecycle!Run, NoneRunning, Claimable, TypeInv, TypeOK, DbTypeOK
  <2> QED BY <2>1, <2>2
<1>5. CASE MarkInterrupted
  <2>1. arg[Main] \in Tasks
    BY <1>5, <1>a, PointSets DEF MarkInterrupted, MarkAs, Execute, Serve, TypeInv, LocalsDefined
  <2>2. \/ status' = status
        \/ status[arg[Main]] = "running" /\ status' = [status EXCEPT ![arg[Main]] = "failed"]
    BY <1>5 DEF MarkInterrupted, MarkAs
  <2>3. "failed" \in Terminal
    BY DEF Terminal
  <2> QED BY <1>b, <2>1, <2>2, <2>3 DEF Lifecycle!Conclude
<1>6. ASSUME NEW a \in Actors, \/ GetTask(a) \/ SetCancelFlag(a) \/ LogSequence(a) \/ LogInsert(a)
                               \/ FindByIdempotencyKey(a) \/ IsCancelRequested \/ HasRunning
                               \/ ListInterrupted
      PROVE  status' = status
  BY <1>6 DEF GetTask, SetCancelFlag, LogSequence, LogInsert, FindByIdempotencyKey,
     IsCancelRequested, HasRunning, ListInterrupted, dbVars
<1> QED BY <1>a, <1>1, <1>2, <1>3, <1>4, <1>5, <1>6 DEF StoreStep

LEMMA StepLifecycle ==
  ASSUME TypeInv, SafeInv, RowInv, [Next]_vars PROVE [Lifecycle!Next]_status
<1>a. Worker \in Actors /\ Main \in Actors /\ Handlers \subseteq Actors
  BY ActorsDistinct
<1>b. PointInv
  BY DEF RowInv
<1>c. UNCHANGED dbVars => status' = status
  BY DEF dbVars
<1>1. CASE StoreStep
  BY <1>1, StoreLifecycle
<1>2. CASE (WorkerStep \/ WorkerAwait) /\ ~WorkerFails
  BY <1>2, <1>c, WorkerEdges DEF WorkerEdge
<1>3. CASE \/ WorkerFails \/ FailureClosed \/ Crash \/ CloseStore \/ StartTurn \/ Tick
         \/ ChildExits \/ DescendantEnds \/ UNCHANGED vars
  BY <1>3, <1>c DEF WorkerFails, FailureClosed, Complete, Crash, CloseStore, Halt, StartTurn, Tick,
     ChildExits, DescendantEnds, vars
<1>4. ASSUME NEW a \in Actors, NextStatement(a) \/ StoreFault(a) PROVE status' = status
  BY <1>4, <1>c, StatementEdges DEF StatementEdge, StoreFault
<1>5. ASSUME NEW a \in Handlers \cup {Main}, CancelStep(a) \/ Terminated(a) PROVE status' = status
  BY <1>5, <1>c, CancelEdges DEF CancelEdge
<1>6. ASSUME NEW h \in Handlers, HandlerStep(h) PROVE status' = status
  BY <1>6, <1>c, HandlerEdges DEF HandlerEdge
<1>7. CASE Arrive
  BY <1>7, <1>c, ReceiveEdges DEF ReceiveEdge
<1>8. CASE MainStep \/ MainAwait \/ Restart \/ StopRequested
  BY <1>8, <1>b, <1>c, MainEdges DEF MainEdge, BootEnds, MainFrame
<1> QED BY <1>1, <1>2, <1>3, <1>4, <1>5, <1>6, <1>7, <1>8 DEF Next, Progress

(* The rows a client can observe follow the lifecycle it relies on: queued  *)
(* once, run alone, withdrawn only before the run, one verdict that neither *)
(* a cancel, a retry, a stop, a crash nor the recovery on boot takes back.  *)
THEOREM RowsImplementLifecycle == Spec => ImplementsLifecycle
<1>1. Init => Lifecycle!Init
  BY DEF Init, Lifecycle!Init
<1>2. TypeInv /\ SafeInv /\ RowInv /\ [Next]_vars => [Lifecycle!Next]_status
  BY StepLifecycle
<1> QED BY <1>1, <1>2, AlwaysRows, PTL DEF Spec, ImplementsLifecycle, Lifecycle!Spec

-----------------------------------------------------------------------------
(* Log sequence numbers.                                                    *)

(* The ids that the retries draw. *)
FreshInv ==
  /\ \A g, h \in Handlers : fresh[g] = fresh[h] /\ fresh[g] # None => g = h
  /\ \A h \in Handlers :
       /\ fresh[h] \in RetryIds \cup {None}
       /\ pc[h] \in {"retryInsert", "retrySel", "retryIns", "retryRead"} => arg[h] = fresh[h]
       /\ pc[h] \in {"retryGet", "retryInsert", "retrySel", "retryIns", "retryRead"} => fresh[h] # None
       /\ pc[h] = "insert" \/ (pc[h] = "keyFind" /\ (at[h] = "lane" \/ ~flag[h])) => arg[h] \notin RetryIds
       /\ pc[h] = "retryGet" \/ (pc[h] = "retryInsert" /\ at[h] # "settled") => status[fresh[h]] = "none"

(* Between the two statements of appendLog. *)
Reserved(a) == \/ pc[a] \in SelPoints /\ at[a] = "settled"
               \/ pc[a] \in InsPoints /\ at[a] = "lane"
SeqInv == \A a \in Actors : Reserved(a) => seq[a] > logs[arg[a]]

(* The clone is in the queue, and its first log line is still to be written. *)
Cloning(h) ==
  \/ pc[h] = "retryInsert" /\ at[h] = "settled"
  \/ pc[h] = "retrySel" /\ at[h] \in {"lane", "settled"}
  \/ pc[h] = "retryIns" /\ at[h] = "lane"

(* The worker has not claimed the clone, or it will log it after h has: it  *)
(* checks the flag of a claimed task before it logs anything, and resumes   *)
(* two frames after that check where the handler resumes one.               *)
Follows(h) ==
  \/ /\ claimed = arg[h]
     /\ pc[h] = "retryInsert" => Ahead(h, Worker)
     /\ pc[h] = "retrySel" /\ at[h] = "settled" => Together(h, Worker)
  \/ mine = arg[h] /\ (at[Worker] = "rejected" \/ pc[Worker] = "failClose")
  \/ /\ mine = arg[h] /\ pc[Worker] \in {"selfGet", "isCancel1"} /\ pc[h] = "retrySel"
     /\ IF at[h] = "lane" THEN Before(lane, h, Worker)
        ELSE at[Worker] = "lane" \/ Together(h, Worker)
  \/ /\ mine = arg[h] /\ pc[h] = "retryIns" /\ pc[Worker] \notin InsPoints
     /\ pc[Worker] \in SelPoints => Before(lane, h, Worker)
  \/ claimed # arg[h] /\ mine # arg[h]
CloneInv == \A h \in Handlers : Cloning(h) => Follows(h)

(* Who logs where. *)
LogPoints ==
  /\ \A h \in Handlers : pc[h] \in SelPoints \cup InsPoints => pc[h] \in {"retrySel", "retryIns"}
  /\ pc[Main] \in SelPoints \cup InsPoints => pc[Main] \in {"bootSel", "bootIns"}

LogInv == LogPoints /\ FreshInv /\ SeqInv /\ CloneInv

-----------------------------------------------------------------------------
(* The steps of the scripts.                                                *)

(* What every script step says of the logs. *)
LogEdge(a, p) ==
  /\ UNCHANGED <<status, logs, seq>> /\ \A b \in Actors \ {a} : arg'[b] = arg[b]
  /\ p \in InsPoints => Reserved(a) /\ arg'[a] = arg[a]
  /\ p \in SelPoints \cup InsPoints =>
       /\ a \in Handlers => p \in {"retrySel", "retryIns"}
       /\ a = Main => p \in {"bootSel", "bootIns"}

LEMMA LogPointSets ==
  /\ SelPoints = {"execSel", "outSel", "errSel", "agentSel", "retrySel", "bootSel"}
  /\ InsPoints = {"execIns", "outIns", "errIns", "agentIns", "retryIns", "bootIns"}
BY DEF SelPoints, InsPoints

LEMMA ScriptLogs ==
  ASSUME TypeInv, PointInv, LogInv, NEW a \in Actors, NEW p, Script(a, p), LogEdge(a, p)
  PROVE  LogPoints' /\ SeqInv'
<1>a. Main \in Actors /\ Handlers \subseteq Actors
  BY ActorsDistinct
<1>1. /\ pc'[a] = p /\ at'[a] \in {"lane", "js"}
      /\ \A b \in Actors \ {a} : pc'[b] = pc[b] /\ \/ at'[b] = at[b]
                                                   \/ b = Worker /\ pc[b] = "waiting"
  BY ScriptPoints, Zenon
<1>2. LogPoints'
  BY <1>a, <1>1 DEF LogInv, LogPoints, LogEdge
<1>3. ASSUME NEW b \in Actors, Reserved(b)' PROVE seq'[b] > logs'[arg'[b]]
  <2>1. CASE b = a
    <3>1. Reserved(a) /\ arg'[a] = arg[a]
      BY <1>1, <1>3, <2>1 DEF Reserved, LogEdge
    <3> QED BY <2>1, <3>1 DEF LogInv, SeqInv, LogEdge
  <2>2. CASE b # a
    <3>1. Reserved(b)
      BY <1>1, <1>3, <2>2, LogPointSets DEF Reserved
    <3> QED BY <2>2, <3>1 DEF LogInv, SeqInv, LogEdge
  <2> QED BY <2>1, <2>2
<1> QED BY <1>2, <1>3 DEF SeqInv

(* A step of another actor than the worker. *)
CloneEdge(a, p) ==
  /\ UNCHANGED <<claimed, seq>>
  /\ a \in Handlers => /\ p = "retrySel" => pc[a] = "retryInsert" /\ at[a] = "settled" /\ arg'[a] = arg[a]
                       /\ p = "retryIns" => pc[a] = "retrySel" /\ at[a] = "settled" /\ arg'[a] = arg[a]

LEMMA OtherClones ==
  ASSUME TypeInv, PipeInv, PointInv, LogInv, NEW a \in Actors, a # Worker, NEW p, Script(a, p),
         LogEdge(a, p), CloneEdge(a, p)
  PROVE  CloneInv'
<1>a. Worker \in Actors /\ \A h \in Handlers : h \in Actors /\ h # Worker
  BY ActorsDistinct
<1>b. /\ pc'[a] = p /\ at'[a] \in {"lane", "js"}
      /\ \A b \in Actors \ {a} : pc'[b] = pc[b] /\ \/ at'[b] = at[b]
                                                   \/ b = Worker /\ pc[b] = "waiting"
  BY ScriptPoints, Zenon
<1>c. /\ claimed' = claimed /\ mine' = mine /\ pc'[Worker] = pc[Worker]
      /\ pc[Worker] # "waiting" => at'[Worker] = at[Worker]
  BY <1>a, <1>b DEF LogEdge, CloneEdge, mine
<1>d. at[Worker] = "rejected" => pc[Worker] # "waiting"
  BY <1>a, PointKinds DEF PointInv
<1>1. ASSUME NEW h \in Handlers, Cloning(h)' PROVE Follows(h)'
  <2>1. CASE h = a
    <3>1. \/ pc[h] = "retryInsert" /\ at[h] = "settled" /\ p = "retrySel" /\ at'[h] = "lane"
          \/ pc[h] = "retrySel" /\ at[h] = "settled" /\ p = "retryIns" /\ at'[h] = "lane"
      BY <1>b, <1>1, <2>1 DEF Cloning, CloneEdge
    <3>2. arg'[h] = arg[h] /\ Follows(h)
      BY <2>1, <3>1 DEF CloneEdge, Cloning, LogInv, CloneInv
    <3> QED BY <1>b, <1>c, <1>d, <2>1, <3>1, <3>2, LogPointSets DEF Follows
  <2>2. CASE h # a
    <3>1. /\ Before(lane, h, Worker) => Before(lane, h, Worker)'
          /\ Ahead(h, Worker) => Ahead(h, Worker)'
          /\ Together(h, Worker) => Together(h, Worker)'
      BY <1>a, <2>2, MovePipe DEF Script, Ordered
    <3>2. arg'[h] = arg[h] /\ pc'[h] = pc[h] /\ at'[h] = at[h] /\ Follows(h)
      BY <1>a, <1>b, <1>1, <2>2 DEF Cloning, LogEdge, LogInv, CloneInv
    <3> QED BY <1>c, <1>d, <3>1, <3>2 DEF Follows
  <2> QED BY <2>1, <2>2
<1> QED BY <1>1 DEF CloneInv

(* A step of the worker. *)
LEMMA WorkerClones ==
  ASSUME TypeInv, PipeInv, RowInv, LogInv, NEW p, Script(Worker, p),
         \/ WorkerEdge(p)
         \/ StatementEdge(Worker, p)
  PROVE  CloneInv'
<1>a. Worker \in Actors /\ \A h \in Handlers : h \in Actors /\ h # Worker
  BY ActorsDistinct
<1>b. PointInv
  BY DEF RowInv
<1>c. /\ pc'[Worker] = p /\ at'[Worker] \in {"lane", "js"}
      /\ \A b \in Actors \ {Worker} : pc'[b] = pc[b] /\ at'[b] = at[b]
  BY <1>a, <1>b, ScriptPoints
<1>d. None \notin Tasks /\ at[Worker] \notin {"lane", "rejected"}
      /\ \A b \in Actors \ {Worker} : arg'[b] = arg[b]
  BY <1>a, <1>b, ConstantsOK, PointKinds
  DEF WorkerEdge, StatementEdge, locals, PointInv, TypeInv, TypeOK, RtTypeOK, Outcomes
<1>1. ASSUME NEW h \in Handlers, Cloning(h)' PROVE Follows(h)'
  <2>1. /\ arg'[h] = arg[h] /\ pc'[h] = pc[h] /\ at'[h] = at[h] /\ Follows(h) /\ Cloning(h)
        /\ arg[h] # None
    <3>1. arg'[h] = arg[h] /\ pc'[h] = pc[h] /\ at'[h] = at[h]
      BY <1>a, <1>c, <1>d
    <3>2. Cloning(h)
      BY <1>1, <3>1 DEF Cloning
    <3>3. arg[h] \in Tasks
      BY <1>a, <3>2, PointSets DEF Cloning, TypeInv, LocalsDefined
    <3> QED BY <1>d, <3>1, <3>2, <3>3 DEF LogInv, CloneInv
  <2>2. ~Before(lane, h, Worker)
    BY <1>a, <1>d DEF PipeInv, Before, In
  <2>3. Ahead(h, Worker) => Hops(h) > Hops(Worker)
    <3>1. CASE at[Worker] = "settled"
      <4>1. GoesFirst(Worker)
        BY <1>a, FirstGoes DEF Script, Moves
      <4> QED BY <1>a, <3>1, <4>1, HopsType DEF GoesFirst
    <3>2. CASE at[Worker] = "js"
      BY <1>a, <3>2 DEF PipeInv, Ahead, Before, In
    <3> QED BY <1>a, <1>d, <3>1, <3>2 DEF TypeInv, TypeOK, RtTypeOK, Outcomes
  <2>4. Together(h, Worker) => Hops(h) >= Hops(Worker)
    <3>1. CASE at[Worker] = "settled"
      <4>1. GoesFirst(Worker)
        BY <1>a, FirstGoes DEF Script, Moves
      <4> QED BY <1>a, <3>1, <4>1, HopsType DEF GoesFirst
    <3>2. CASE at[Worker] = "js"
      BY <1>a, <3>2 DEF PipeInv, Together
    <3> QED BY <1>a, <1>d, <3>1, <3>2 DEF TypeInv, TypeOK, RtTypeOK, Outcomes
  <2>5. at[h] = "lane" /\ at'[Worker] = "lane" => Before(lane, h, Worker)'
    BY <1>a, MovePipe DEF Script, Ordered
  <2>6. CASE claimed = arg[h]
    <3>1. pc[Worker] = "claim" /\ at[Worker] = "settled"
      BY <2>1, <2>6 DEF RowInv, WorkerInv
    <3>2. p \in {"selfGet", "isCancel1"} /\ arg'[Worker] = arg[h] /\ at'[Worker] = "lane"
      BY <1>c, <2>1, <2>6, <3>1, PointKinds DEF WorkerEdge, StatementEdge, SelPoints, Script
    <3>3. at[h] = "lane" /\ pc[h] \in {"retrySel", "retryIns"}
      <4>1. Hops(Worker) = 2
        BY <3>1 DEF Hops, SelPoints
      <4>2. pc[h] = "retryInsert" => Hops(h) = 2
        BY DEF Hops, SelPoints
      <4>3. pc[h] = "retrySel" => Hops(h) = 1
        BY DEF Hops, SelPoints
      <4>4. mine # arg[h]
        BY <2>1, <3>1 DEF RowInv, WorkerInv, Free
      <4>5. /\ pc[h] = "retryInsert" => Ahead(h, Worker)
            /\ pc[h] = "retrySel" /\ at[h] = "settled" => Together(h, Worker)
        BY <2>1, <2>6, <4>4 DEF Follows
      <4> QED BY <2>1, <2>3, <2>4, <4>1, <4>2, <4>3, <4>5 DEF Cloning
    <3> QED BY <1>c, <2>1, <2>5, <3>2, <3>3, LogPointSets DEF Follows, mine
  <2>7. CASE claimed # arg[h] /\ mine # arg[h]
    <3>1. arg'[Worker] \in {arg[Worker], claimed, None} /\ claimed' \in {claimed, None}
      BY DEF WorkerEdge, StatementEdge, locals
    <3> QED BY <2>1, <2>7, <3>1 DEF Follows, mine
  <2>8. CASE claimed # arg[h] /\ mine = arg[h]
    <3>1. claimed' # arg[h] /\ arg'[Worker] \in {arg[Worker], None}
      BY <2>1, <2>8 DEF WorkerEdge, StatementEdge, locals, RowInv, WorkerInv, Free
    <3>2. CASE arg'[Worker] = None
      BY <2>1, <3>1, <3>2 DEF Follows, mine
    <3>3. CASE arg'[Worker] = arg[Worker]
      <4>1. pc[h] = "retryIns" /\ pc[Worker] \notin InsPoints \cup SelPoints
        <5>1. ~(pc[Worker] \in {"selfGet", "isCancel1"} /\ pc[h] = "retrySel")
          <6>1. SUFFICES ASSUME pc[Worker] \in {"selfGet", "isCancel1"}, pc[h] = "retrySel" PROVE FALSE
            OBVIOUS
          <6>2. Hops(Worker) = 2 /\ Hops(h) = 1
            BY <6>1 DEF Hops, SelPoints
          <6>3. Together(h, Worker)
            BY <1>d, <2>1, <2>2, <2>8, <6>1 DEF Follows
          <6> QED BY <2>4, <6>2, <6>3
        <5>2. pc[Worker] # "failClose"
          BY <1>c, PointKinds DEF WorkerEdge, StatementEdge, SelPoints
        <5> QED BY <1>d, <2>1, <2>2, <2>8, <5>1, <5>2 DEF Follows
      <4>2. p \notin InsPoints /\ (p \in SelPoints => at'[Worker] = "lane")
        BY <4>1, <1>c, LogPointSets, PointKinds DEF WorkerEdge, StatementEdge, Script
      <4> QED BY <1>c, <2>1, <2>5, <2>8, <3>1, <3>3, <4>1, <4>2 DEF Follows, Cloning, mine
    <3> QED BY <3>1, <3>2, <3>3
  <2> QED BY <2>6, <2>7, <2>8
<1> QED BY <1>1 DEF CloneInv

(* What every script step says of the ids that the retries draw. *)
FreshEdge(a, p) ==
  /\ flag' = flag /\ \A h \in Handlers \ {a} : fresh'[h] = fresh[h]
  /\ a \in Handlers =>
       /\ fresh'[a] # fresh[a] => p = "retryGet"
       /\ p = "retryGet" => fresh'[a] \in RetryIds /\ Unused(fresh'[a])
       /\ p = "retryInsert" => pc[a] = "retryGet" /\ at[a] = "settled" /\ arg'[a] = fresh[a]
       /\ p \in {"retrySel", "retryIns", "retryRead"} =>
            pc[a] \in {"retryInsert", "retrySel", "retryIns"} /\ arg'[a] = arg[a]
       /\ p = "keyFind" => arg'[a] \notin RetryIds
       /\ p = "insert" => \/ arg'[a] \notin RetryIds
                          \/ pc[a] = "keyFind" /\ ~flag[a] /\ arg'[a] = arg[a]

LEMMA ScriptFresh ==
  ASSUME TypeInv, PointInv, LogInv, NEW a \in Actors, NEW p, Script(a, p), LogEdge(a, p), FreshEdge(a, p)
  PROVE  FreshInv'
<1>a. /\ None \notin RetryIds /\ \A h \in Handlers : h \in Actors /\ h # Worker
      /\ fresh \in [Handlers -> Tasks \cup {None}]
  BY ConstantsOK, ActorsDistinct DEF TypeInv, TypeOK, LocalTypeOK
<1>b. /\ pc'[a] = p /\ at'[a] \in {"lane", "js"}
      /\ \A b \in Handlers \ {a} : pc'[b] = pc[b] /\ at'[b] = at[b] /\ arg'[b] = arg[b]
      /\ status' = status /\ flag' = flag
  <2>1. /\ pc'[a] = p /\ at'[a] \in {"lane", "js"}
        /\ \A b \in Actors \ {a} : pc'[b] = pc[b] /\ \/ at'[b] = at[b]
                                                     \/ b = Worker /\ pc[b] = "waiting"
    BY ScriptPoints, Zenon
  <2> QED BY <1>a, <2>1 DEF LogEdge, FreshEdge
<1>c. FreshInv
  BY DEF LogInv
<1>1. \A g, h \in Handlers : fresh'[g] = fresh'[h] /\ fresh'[g] # None => g = h
  BY <1>a, <1>c DEF FreshInv, FreshEdge, Unused
<1>2. ASSUME NEW h \in Handlers
      PROVE  /\ fresh'[h] \in RetryIds \cup {None}
             /\ pc'[h] \in {"retryInsert", "retrySel", "retryIns", "retryRead"} => arg'[h] = fresh'[h]
             /\ pc'[h] \in {"retryGet", "retryInsert", "retrySel", "retryIns", "retryRead"} =>
                  fresh'[h] # None
             /\ pc'[h] = "insert" \/ (pc'[h] = "keyFind" /\ (at'[h] = "lane" \/ ~flag'[h])) =>
                  arg'[h] \notin RetryIds
             /\ pc'[h] = "retryGet" \/ (pc'[h] = "retryInsert" /\ at'[h] # "settled") =>
                  status'[fresh'[h]] = "none"
  <2>1. CASE h # a
    BY <1>b, <1>c, <2>1 DEF FreshInv, FreshEdge
  <2>2. CASE h = a
    <3>1. CASE p = "retryGet"
      BY <1>a, <1>b, <2>2, <3>1 DEF FreshEdge, Unused
    <3>2. CASE p # "retryGet"
      <4>1. fresh'[h] = fresh[h]
        BY <2>2, <3>2 DEF FreshEdge
      <4> QED BY <1>b, <1>c, <2>2, <3>2, <4>1 DEF FreshEdge, FreshInv
    <3> QED BY <3>1, <3>2
  <2> QED BY <2>1, <2>2
<1> QED BY <1>1, <1>2 DEF FreshInv

LEMMA WorkerLogs ==
  ASSUME TypeInv, NEW p, WorkerEdge(p), Script(Worker, p) PROVE LogEdge(Worker, p) /\ FreshEdge(Worker, p)
BY ActorsDistinct, LogPointSets DEF WorkerEdge, LogEdge, FreshEdge, dbVars

LEMMA StatementLogs ==
  ASSUME TypeInv, LogInv, NEW a \in Actors, NEW p, StatementEdge(a, p)
  PROVE  LogEdge(a, p) /\ FreshEdge(a, p) /\ CloneEdge(a, p)
<1>1. \/ pc[a] = "updGet" /\ p = "updPut"
      \/ /\ pc[a] \in SelPoints /\ p \in InsPoints
         /\ a \in Handlers => pc[a] = "retrySel" /\ p = "retryIns"
         /\ a = Main => pc[a] = "bootSel" /\ p = "bootIns"
  BY LogPointSets DEF StatementEdge, InsOf, LogInv, LogPoints
<1> QED BY <1>1, LogPointSets DEF StatementEdge, LogEdge, FreshEdge, CloneEdge, Reserved, dbVars,
    locals

LEMMA CancelLogs ==
  ASSUME TypeInv, NEW a \in Handlers \cup {Main}, NEW p, CancelEdge(a, p)
  PROVE  LogEdge(a, p) /\ FreshEdge(a, p) /\ CloneEdge(a, p)
BY LogPointSets DEF CancelEdge, LogEdge, FreshEdge, CloneEdge, dbVars

LEMMA HandlerLogs ==
  ASSUME TypeInv, NEW h \in Handlers, NEW p, HandlerEdge(h, p)
  PROVE  LogEdge(h, p) /\ FreshEdge(h, p) /\ CloneEdge(h, p)
BY LogPointSets, ActorsDistinct DEF HandlerEdge, LogEdge, FreshEdge, CloneEdge, dbVars

LEMMA ReceiveLogs ==
  ASSUME TypeInv, NEW h \in Handlers, NEW p, ReceiveEdge(h, p)
  PROVE  LogEdge(h, p) /\ FreshEdge(h, p) /\ CloneEdge(h, p)
BY LogPointSets, ActorsDistinct DEF ReceiveEdge, LogEdge, FreshEdge, CloneEdge, dbVars

LEMMA MainLogs ==
  ASSUME TypeInv, NEW p, MainEdge(p)
  PROVE  LogEdge(Main, p) /\ FreshEdge(Main, p) /\ CloneEdge(Main, p)
BY LogPointSets, ActorsDistinct DEF MainEdge, MainFrame, LogEdge, FreshEdge, CloneEdge, dbVars

LEMMA ScriptLogInv ==
  ASSUME TypeInv, PipeInv, RowInv, LogInv, NEW a \in Actors, NEW p, Script(a, p), LogEdge(a, p),
         FreshEdge(a, p),
         \/ a # Worker /\ CloneEdge(a, p)
         \/ a = Worker /\ (WorkerEdge(p) \/ StatementEdge(Worker, p))
  PROVE  LogInv'
<1>1. PointInv
  BY DEF RowInv
<1>2. LogPoints' /\ SeqInv' /\ FreshInv'
  BY <1>1, ScriptLogs, ScriptFresh
<1>3. CloneInv'
  BY <1>1, OtherClones, WorkerClones
<1> QED BY <1>2, <1>3 DEF LogInv

(* Nobody logs while the agent boots. *)
LEMMA UpLogs == ASSUME TypeInv, RowInv, LogInv, BootEnds PROVE LogInv'
<1>1. /\ pc' = [pc EXCEPT ![Main] = "up", ![Worker] = "hasRunning"] /\ pc \in [Actors -> Points]
      /\ Main \in Actors /\ Worker \in Actors /\ Main # Worker
      /\ \A h \in Handlers : h \in Actors /\ h # Main /\ h # Worker
      /\ \A h \in Handlers : pc[h] \in {"idle", "done"}
      /\ UNCHANGED <<fresh, seq, logs, status>>
  BY ActorsDistinct DEF BootEnds, RowInv, BootInv, Booting, TypeInv, TypeOK, RtTypeOK, MainFrame,
    dbVars
<1>2. /\ pc'[Main] = "up" /\ pc'[Worker] = "hasRunning"
      /\ \A h \in Handlers : pc'[h] \in {"idle", "done"}
  BY <1>1
<1>3. \A a \in Actors : ~Reserved(a)'
  BY <1>2, LogPointSets DEF Reserved, Actors
<1>4. \A h \in Handlers : ~Cloning(h)'
  BY <1>2 DEF Cloning
<1>5. LogPoints' /\ FreshInv'
  BY <1>1, <1>2, LogPointSets DEF LogPoints, FreshInv, LogInv
<1> QED BY <1>3, <1>4, <1>5 DEF LogInv, SeqInv, CloneInv

LEMMA HaltLogs == ASSUME TypeInv, LogInv, Halt PROVE LogInv'
<1>1. /\ Main \in Actors /\ Worker \in Actors /\ Main # Worker
      /\ \A h \in Handlers : h \in Actors /\ h # Main /\ h # Worker
      /\ fresh' = fresh
  BY ActorsDistinct DEF Halt
<1>2. /\ pc'[Main] = "down" /\ pc'[Worker] = "off"
      /\ \A h \in Handlers : pc'[h] \in {"idle", "done"}
  BY <1>1 DEF Halt
<1>3. \A a \in Actors : ~Reserved(a)'
  BY <1>2, LogPointSets DEF Reserved, Actors
<1>4. \A h \in Handlers : ~Cloning(h)'
  BY <1>2 DEF Cloning
<1>5. LogPoints' /\ FreshInv'
  BY <1>1, <1>2, LogPointSets DEF LogPoints, FreshInv, LogInv
<1> QED BY <1>3, <1>4, <1>5 DEF LogInv, SeqInv, CloneInv

LEMMA EndsLogs == ASSUME TypeInv, PipeInv, RowInv, LogInv, LoopEnds PROVE LogInv'
<1>1. /\ Main \in Actors /\ Worker \in Actors /\ Main # Worker
      /\ \A h \in Handlers : h \in Actors /\ h # Main /\ h # Worker
      /\ pc \in [Actors -> Points] /\ at \in [Actors -> Outcomes]
      /\ arg \in [Actors -> Tasks \cup {None}] /\ None \notin Tasks
      /\ pc' = [pc EXCEPT ![Worker] = "failed", ![Main] = IF @ = "up" THEN "closing" ELSE @]
      /\ at' = [at EXCEPT ![Worker] = "js"] /\ arg' = [arg EXCEPT ![Worker] = None]
      /\ UNCHANGED <<status, logs, flag, seq, fresh, claimed>> /\ claimed = None
  BY ActorsDistinct, ConstantsOK DEF LoopEnds, TypeInv, TypeOK, RtTypeOK, LocalTypeOK, dbVars
<1>2. /\ pc'[Worker] = "failed" /\ mine' = None
      /\ \A h \in Handlers : pc'[h] = pc[h] /\ at'[h] = at[h] /\ arg'[h] = arg[h]
      /\ arg'[Main] = arg[Main] /\ at'[Main] = at[Main]
      /\ pc'[Main] = pc[Main] \/ pc'[Main] = "closing"
  BY <1>1 DEF mine
<1>3. LogPoints'
  BY <1>2, LogPointSets DEF LogPoints, LogInv
<1>4. FreshInv'
  BY <1>1, <1>2 DEF FreshInv, LogInv
<1>5. SeqInv'
  <2>1. ASSUME NEW a \in Actors, Reserved(a)'
        PROVE  Reserved(a) /\ arg'[a] = arg[a]
    BY <1>2, <2>1, LogPointSets DEF Reserved, Actors
  <2> QED BY <1>1, <2>1 DEF SeqInv, LogInv
<1>6. ASSUME NEW h \in Handlers, Cloning(h)' PROVE Follows(h)'
  <2>1. Cloning(h)
    BY <1>2, <1>6 DEF Cloning
  <2>2. arg[h] \in Tasks
    BY <1>1, <2>1, PointSets DEF Cloning, TypeInv, LocalsDefined
  <2>3. claimed # arg[h]
    BY <1>1, <2>2
  <2> QED BY <1>1, <1>2, <2>2, <2>3 DEF Follows
<1> QED BY <1>3, <1>4, <1>5, <1>6 DEF LogInv, CloneInv

LEMMA ClosesLogs == ASSUME TypeInv, LogInv, LoopCloses PROVE LogInv'
<1>1. /\ Worker \in Actors /\ Main # Worker /\ Main \in Actors
      /\ \A h \in Handlers : h \in Actors /\ h # Worker
      /\ pc \in [Actors -> Points] /\ at \in [Actors -> Outcomes]
  BY ActorsDistinct DEF TypeInv, TypeOK, RtTypeOK
<1>2. /\ UNCHANGED <<status, logs, arg, flag, seq, fresh, claimed>>
      /\ pc'[Worker] = "failClose" /\ claimed = None
      /\ \A a \in Actors \ {Worker} : pc'[a] = pc[a] /\ at'[a] = at[a]
      /\ at[Worker] = "rejected"
  BY <1>1 DEF LoopCloses, dbVars
<1>3. LogPoints' /\ FreshInv'
  BY <1>1, <1>2 DEF LogPoints, FreshInv, LogInv
<1>4. SeqInv'
  <2>1. \A a \in Actors : Reserved(a)' => Reserved(a)
    BY <1>1, <1>2, LogPointSets DEF Reserved
  <2> QED BY <1>2, <2>1 DEF SeqInv, LogInv
<1>5. ASSUME NEW h \in Handlers, Cloning(h)' PROVE Follows(h)'
  <2>1. Cloning(h)
    BY <1>1, <1>2, <1>5 DEF Cloning
  <2>2. arg[h] \in Tasks /\ Follows(h)
    BY <1>1, <2>1, PointSets DEF Cloning, TypeInv, LocalsDefined, LogInv, CloneInv
  <2>3. claimed # arg[h]
    BY <1>2, <2>2, ConstantsOK
  <2> QED BY <1>2, <2>2, <2>3 DEF Follows, mine
<1> QED BY <1>3, <1>4, <1>5 DEF LogInv, CloneInv

LEMMA FailsLogs ==
  ASSUME TypeInv, PipeInv, RowInv, LogInv, WorkerFails \/ FailureClosed PROVE LogInv'
BY FailsEdges, EndsLogs, ClosesLogs

LEMMA QuietLogs ==
  ASSUME TypeInv, LogInv, OrderKept, UNCHANGED <<status, logs, pc, arg, flag, seq, fresh, claimed>>,
         \A a \in Actors : \/ at'[a] = at[a]
                           \/ a = Worker /\ pc[a] = "waiting" /\ at[a] = "js"
  PROVE  LogInv'
<1>1. /\ Worker \in Actors /\ mine' = mine
      /\ \A h \in Handlers : h \in Actors /\ h # Worker /\ at'[h] = at[h]
  BY ActorsDistinct DEF mine
<1>2. \A a \in Actors : Reserved(a)' => Reserved(a)
  BY LogPointSets DEF Reserved
<1>3. LogPoints' /\ FreshInv' /\ SeqInv'
  BY <1>1, <1>2 DEF LogInv, LogPoints, FreshInv, SeqInv
<1>4. ASSUME NEW h \in Handlers, Cloning(h)' PROVE Follows(h)'
  <2>1. Follows(h)
    BY <1>1, <1>4 DEF Cloning, LogInv, CloneInv
  <2>2. /\ Before(lane, h, Worker) => Before(lane, h, Worker)'
        /\ Ahead(h, Worker) => Ahead(h, Worker)'
        /\ Together(h, Worker) => Together(h, Worker)'
    BY <1>1 DEF OrderKept
  <2>3. at'[Worker] = at[Worker] \/ (pc[Worker] = "waiting" /\ at[Worker] = "js")
    BY <1>1
  <2> QED BY <1>1, <2>1, <2>2, <2>3 DEF Follows
<1> QED BY <1>3, <1>4 DEF LogInv, CloneInv

-----------------------------------------------------------------------------
(* The operations of the Store.                                             *)

(* Two actors never are between the two statements for the same task. *)
LEMMA OneWriter ==
  ASSUME TypeInv, PipeInv, RowInv, LogInv, NEW a \in Actors, NEW b \in Actors, a # b,
         pc[a] \in InsPoints, at[a] = "lane", Reserved(b)
  PROVE  arg[a] # arg[b]
<1>a. pc[a] \in SelPoints \cup InsPoints /\ pc[b] \in SelPoints \cup InsPoints
  BY DEF Reserved
<1>b. a # Main /\ b # Main
  <2>1. pc[Main] \in {"bootSel", "bootIns"} =>
          /\ pc[Worker] = "off" /\ \A h \in Handlers : pc[h] \in {"idle", "done"}
    BY DEF RowInv, BootInv, Booting
  <2>2. pc[Main] \in SelPoints \cup InsPoints => pc[Main] \in {"bootSel", "bootIns"}
    BY DEF LogInv, LogPoints
  <2> QED BY <1>a, <2>1, <2>2, LogPointSets DEF Actors
<1>c. \A h \in Handlers : pc[h] \in SelPoints \cup InsPoints =>
        pc[h] \in {"retrySel", "retryIns"} /\ arg[h] = fresh[h] /\ fresh[h] # None
  BY DEF LogInv, LogPoints, FreshInv
<1>d. pc[Worker] \in SelPoints \cup InsPoints => claimed = None
  BY LogPointSets DEF RowInv, WorkerInv
<1>1. CASE a \in Handlers /\ b \in Handlers
  BY <1>a, <1>c, <1>1 DEF LogInv, FreshInv
<1>2. CASE a \in Handlers /\ b = Worker
  <2>1. pc[a] = "retryIns" /\ Follows(a) /\ claimed # arg[a]
    <3>1. pc[a] = "retryIns"
      BY <1>2, LogPointSets DEF LogInv, LogPoints
    <3>2. Cloning(a)
      BY <3>1 DEF Cloning
    <3> QED BY <1>2, <1>a, <1>c, <1>d, <3>1, <3>2 DEF LogInv, CloneInv
  <2>2. ~Before(lane, a, Worker) \/ at[Worker] = "lane"
    BY <1>2 DEF PipeInv, Before, In
  <2> QED BY <1>2, <2>1, <2>2, LogPointSets DEF Follows, Reserved, mine
<1>3. CASE a = Worker /\ b \in Handlers
  <2>1. Cloning(b) /\ claimed # arg[b]
    BY <1>3, <1>a, <1>c, <1>d, LogPointSets DEF Cloning, Reserved
  <2>2. Follows(b)
    BY <1>3, <2>1 DEF LogInv, CloneInv
  <2> QED BY <1>3, <2>1, <2>2, LogPointSets DEF Follows, mine
<1> QED BY <1>b, <1>1, <1>2, <1>3 DEF Actors

(* What an operation of a may do to the rest of the state. *)
Served(a, o) ==
  /\ UNCHANGED <<pc, fresh>>
  /\ \A b \in Actors \ {a} : arg'[b] = arg[b] /\ flag'[b] = flag[b] /\ seq'[b] = seq[b]
  /\ arg'[a] # arg[a] => pc[a] = "keyFind" /\ flag'[a]
  /\ \A t \in Tasks : status[t] = "none" =>
       \/ status'[t] = "none"
       \/ a \in Handlers /\ o = "settled" /\ pc[a] \in {"insert", "retryInsert"} /\ t = arg[a]
  /\ claimed' # claimed => a = Worker /\ pc[a] = "claim" /\ o = "settled"

LEMMA ServedFresh ==
  ASSUME TypeInv, PointInv, LogInv, NEW a \in Actors, NEW points, NEW o \in {"settled", "rejected"},
         Serve(a, points, o), Served(a, o)
  PROVE  LogPoints' /\ FreshInv'
<1>a. /\ at[a] = "lane" /\ at'[a] = o /\ pc' = pc
      /\ \A h \in Handlers : h \in Actors /\ (h # a => at'[h] = at[h] /\ arg'[h] = arg[h] /\ flag'[h] = flag[h])
  <2>1. pc' = pc /\ at[a] = "lane" /\ at'[a] = o /\ \A b \in Actors \ {a} : at'[b] = at[b]
    BY ServedPoints
  <2> QED BY <2>1, ActorsDistinct DEF Served
<1>1. LogPoints'
  BY <1>a DEF LogInv, LogPoints
<1>2. \A g, h \in Handlers : fresh'[g] = fresh'[h] /\ fresh'[g] # None => g = h
  BY DEF LogInv, FreshInv, Served
<1>3. ASSUME NEW h \in Handlers
      PROVE  /\ fresh'[h] \in RetryIds \cup {None}
             /\ pc'[h] \in {"retryInsert", "retrySel", "retryIns", "retryRead"} => arg'[h] = fresh'[h]
             /\ pc'[h] \in {"retryGet", "retryInsert", "retrySel", "retryIns", "retryRead"} =>
                  fresh'[h] # None
             /\ pc'[h] = "insert" \/ (pc'[h] = "keyFind" /\ (at'[h] = "lane" \/ ~flag'[h])) =>
                  arg'[h] \notin RetryIds
             /\ pc'[h] = "retryGet" \/ (pc'[h] = "retryInsert" /\ at'[h] # "settled") =>
                  status'[fresh'[h]] = "none"
  <2>1. /\ fresh[h] \in RetryIds \cup {None}
        /\ pc[h] \in {"retryInsert", "retrySel", "retryIns", "retryRead"} => arg[h] = fresh[h]
        /\ pc[h] \in {"retryGet", "retryInsert", "retrySel", "retryIns", "retryRead"} =>
             fresh[h] # None
        /\ pc[h] = "insert" \/ (pc[h] = "keyFind" /\ (at[h] = "lane" \/ ~flag[h])) =>
             arg[h] \notin RetryIds
        /\ pc[h] = "retryGet" \/ (pc[h] = "retryInsert" /\ at[h] # "settled") =>
             status[fresh[h]] = "none"
    BY DEF LogInv, FreshInv
  <2>2. /\ fresh' = fresh
        /\ arg'[a] # arg[a] => pc[a] = "keyFind" /\ flag'[a]
    BY DEF Served
  <2>3. ASSUME pc'[h] = "retryGet" \/ (pc'[h] = "retryInsert" /\ at'[h] # "settled")
        PROVE  status'[fresh'[h]] = "none"
    <3>1. pc[h] = "retryGet" \/ (pc[h] = "retryInsert" /\ at[h] # "settled")
      BY <1>a, <2>3
    <3>2. status[fresh[h]] = "none" /\ fresh[h] \in RetryIds /\ fresh[h] \in Tasks
      BY <2>1, <3>1, ConstantsOK
    <3>3. ~(a \in Handlers /\ o = "settled" /\ pc[a] \in {"insert", "retryInsert"} /\ fresh[h] = arg[a])
      <4>1. pc[a] = "insert" /\ a \in Handlers => arg[a] \notin RetryIds
        BY DEF LogInv, FreshInv
      <4>2. pc[a] = "retryInsert" /\ a \in Handlers => arg[a] = fresh[a]
        BY DEF LogInv, FreshInv
      <4>3. a \in Handlers /\ fresh[h] = fresh[a] => h = a
        BY <3>2, ConstantsOK DEF LogInv, FreshInv
      <4> QED BY <1>a, <2>3, <3>2, <4>1, <4>2, <4>3
    <3> QED BY <2>2, <3>2, <3>3 DEF Served
  <2> QED BY <1>a, <2>1, <2>2, <2>3
<1> QED BY <1>1, <1>2, <1>3 DEF FreshInv

LEMMA ServedSeq ==
  ASSUME TypeInv, PointInv, LogInv, NEW a \in Actors, NEW points, NEW o \in {"settled", "rejected"},
         Serve(a, points, o), Served(a, o), logs' = logs,
         pc[a] \in SelPoints /\ o = "settled" => seq'[a] > logs[arg'[a]]
  PROVE  SeqInv'
<1>a. /\ at[a] = "lane" /\ at'[a] = o /\ pc' = pc
      /\ \A b \in Actors \ {a} : at'[b] = at[b]
  BY ServedPoints
<1>1. ASSUME NEW b \in Actors, Reserved(b)' PROVE seq'[b] > logs'[arg'[b]]
  <2>1. CASE b = a
    BY <1>a, <1>1, <2>1, LogPointSets DEF Reserved
  <2>2. CASE b # a
    <3>1. Reserved(b)
      BY <1>a, <1>1, <2>2, LogPointSets DEF Reserved
    <3> QED BY <2>2, <3>1 DEF LogInv, SeqInv, Served
  <2> QED BY <2>1, <2>2
<1> QED BY <1>1 DEF SeqInv

LEMMA InsertedSeq ==
  ASSUME TypeInv, PipeInv, RowInv, LogInv, NEW a \in Actors, LogInsert(a) PROVE SeqInv'
<1>1. PICK o \in {"settled", "rejected"} : Serve(a, InsPoints, o)
  BY DEF LogInsert
<1>2. /\ pc' = pc /\ at[a] = "lane" /\ at'[a] = o /\ pc[a] \in InsPoints
      /\ \A b \in Actors \ {a} : at'[b] = at[b]
  BY <1>1, ServedPoints DEF RowInv
<1>3. /\ UNCHANGED <<seq, arg>> /\ logs \in [Tasks -> Nat]
      /\ \A t \in Tasks : t # arg[a] => logs'[t] = logs[t]
      /\ arg \in [Actors -> Tasks \cup {None}]
  BY DEF LogInsert, locals, TypeInv, TypeOK, DbTypeOK, LocalTypeOK
<1>4. ASSUME NEW b \in Actors, Reserved(b)' PROVE seq'[b] > logs'[arg'[b]]
  <2>1. b # a
    BY <1>2, <1>4, LogPointSets DEF Reserved
  <2>2. Reserved(b)
    BY <1>2, <1>4, <2>1, LogPointSets DEF Reserved
  <2>3. arg[a] # arg[b]
    BY <1>2, <2>1, <2>2, OneWriter
  <2>4. arg[b] \in Tasks
    BY <2>2, LogPointSets, PointSets DEF Reserved, TypeInv, LocalsDefined
  <2> QED BY <1>3, <2>2, <2>3, <2>4 DEF LogInv, SeqInv
<1> QED BY <1>4 DEF SeqInv

LEMMA ServedClones ==
  ASSUME TypeInv, PipeInv, RowInv, LogInv, NEW a \in Actors, NEW points,
         NEW o \in {"settled", "rejected"}, Serve(a, points, o), Served(a, o)
  PROVE  CloneInv'
<1>a. /\ Worker \in Actors /\ \A h \in Handlers : h \in Actors /\ h # Worker
      /\ None \notin Tasks
  BY ActorsDistinct, ConstantsOK
<1>b. /\ at[a] = "lane" /\ at'[a] = o /\ pc' = pc
      /\ \A b \in Actors \ {a} : at'[b] = at[b]
  BY ServedPoints DEF RowInv
<1>c. /\ Ordered(a) /\ \A b \in Actors : ~Before(lane, b, a)
      /\ \A b \in Actors \ {a} : at[b] \in {"settled", "rejected"} => Ahead(b, a)' /\ Together(b, a)'
  BY ServePipe
<1>d. /\ \A b \in Actors \ {a} : arg'[b] = arg[b]
      /\ arg'[a] # arg[a] => pc[a] = "keyFind"
      /\ claimed' # claimed => a = Worker /\ pc[a] = "claim" /\ o = "settled"
  BY DEF Served
<1>e. pc[Worker] # "keyFind"
  BY DEF RowInv, WorkerInv, Free, Early, Run, Over
<1>f. mine' = mine
  BY <1>a, <1>d, <1>e DEF mine
<1>1. ASSUME NEW h \in Handlers, Cloning(h)' PROVE Follows(h)'
  <2>1. /\ pc'[h] = pc[h] /\ arg'[h] = arg[h] /\ arg[h] \in Tasks
        /\ pc[h] \in {"retryInsert", "retrySel", "retryIns"}
    <3>1. pc[h] \in {"retryInsert", "retrySel", "retryIns"}
      BY <1>b, <1>1 DEF Cloning
    <3> QED BY <1>a, <1>b, <1>d, <3>1, PointSets DEF TypeInv, LocalsDefined
  <2>2. CASE h = a
    <3>1. claimed' = claimed /\ at'[Worker] = at[Worker]
      BY <1>a, <1>b, <1>d, <2>2
    <3>2. CASE pc[h] = "retryInsert"
      <4>1. status[arg[h]] = "none"
        BY <1>b, <2>2, <3>2 DEF LogInv, FreshInv
      <4>2. claimed # arg[h]
        BY <1>a, <2>1, <4>1 DEF RowInv, WorkerInv
      <4>3. mine # arg[h]
        BY <1>a, <2>1, <4>1 DEF RowInv, WorkerInv, Terminal
      <4> QED BY <1>f, <2>1, <3>1, <4>2, <4>3 DEF Follows
    <3>3. CASE pc[h] # "retryInsert"
      <4>1. pc[h] = "retrySel" /\ at'[h] = "settled"
        BY <1>b, <1>1, <2>1, <2>2, <3>3 DEF Cloning
      <4>2. Follows(h)
        BY <1>b, <2>2, <4>1 DEF Cloning, LogInv, CloneInv
      <4>3. CASE claimed = arg[h]
        <5>1. at[Worker] = "settled"
          BY <1>a, <2>1, <4>3 DEF RowInv, WorkerInv
        <5>2. Together(h, Worker)'
          BY <1>a, <1>c, <2>2, <5>1 DEF Together
        <5> QED BY <2>1, <3>1, <4>1, <4>3, <5>2 DEF Follows
      <4>4. CASE mine = arg[h] /\ (at[Worker] = "rejected" \/ pc[Worker] = "failClose")
        BY <1>b, <1>f, <2>1, <3>1, <4>4 DEF Follows
      <4>5. CASE mine = arg[h] /\ pc[Worker] \in {"selfGet", "isCancel1"} /\ Before(lane, h, Worker)
        <5>1. at'[Worker] = "lane"
          BY <1>a, <3>1, <4>5 DEF PipeInv, Before, In
        <5> QED BY <1>b, <1>f, <2>1, <4>1, <4>5, <5>1 DEF Follows
      <4>6. CASE claimed # arg[h] /\ mine # arg[h]
        BY <1>f, <2>1, <3>1, <4>6 DEF Follows
      <4> QED BY <1>b, <2>2, <4>1, <4>2, <4>3, <4>4, <4>5, <4>6 DEF Follows
    <3> QED BY <3>2, <3>3
  <2>3. CASE h # a /\ a # Worker
    <3>1. /\ at'[h] = at[h] /\ at'[Worker] = at[Worker] /\ claimed' = claimed
          /\ pc'[Worker] = pc[Worker]
      BY <1>a, <1>b, <1>d, <2>3
    <3>2. /\ Before(lane, h, Worker) => Before(lane, h, Worker)'
          /\ Ahead(h, Worker) => Ahead(h, Worker)'
          /\ Together(h, Worker) => Together(h, Worker)'
      BY <1>a, <1>c, <2>3 DEF Ordered
    <3>3. Follows(h)
      BY <1>1, <2>1, <3>1 DEF Cloning, LogInv, CloneInv
    <3> QED BY <1>f, <2>1, <3>1, <3>2, <3>3 DEF Follows
  <2>4. CASE a = Worker
    <3>1. /\ at'[h] = at[h] /\ at[Worker] = "lane" /\ at'[Worker] = o /\ pc'[Worker] = pc[Worker]
          /\ ~Before(lane, h, Worker)
          /\ at[h] = "settled" => Ahead(h, Worker)' /\ Together(h, Worker)'
      BY <1>a, <1>b, <1>c, <2>4
    <3>2. Cloning(h) /\ Follows(h)
      BY <1>1, <2>1, <3>1 DEF Cloning, LogInv, CloneInv
    <3>3. claimed # arg[h]
      BY <2>1, <3>1, <1>a DEF RowInv, WorkerInv
    <3>4. CASE mine # arg[h]
      <4>1. CASE claimed' = arg[h]
        <5>1. /\ pc[h] = "retryInsert" => Ahead(h, Worker)'
              /\ pc[h] = "retrySel" /\ at[h] = "settled" => Together(h, Worker)'
          BY <3>1, <3>2 DEF Cloning
        <5> QED BY <2>1, <3>1, <4>1, <5>1 DEF Follows
      <4>2. CASE claimed' # arg[h]
        BY <1>f, <2>1, <3>4, <4>2 DEF Follows
      <4> QED BY <4>1, <4>2
    <3>5. CASE mine = arg[h]
      <4>1. CASE pc[h] = "retrySel" /\ pc[Worker] \in {"selfGet", "isCancel1"}
        <5>1. at[h] = "settled"
          BY <3>1, <3>2, <3>3, <3>5, <4>1 DEF Cloning, Follows
        <5> QED BY <1>f, <2>1, <3>1, <3>5, <4>1, <5>1 DEF Follows
      <4>2. CASE pc[h] = "retryIns" /\ pc[Worker] \notin InsPoints \cup SelPoints
        BY <1>f, <2>1, <3>1, <3>5, <4>2 DEF Follows
      <4>3. pc[Worker] # "failClose"
        BY <1>a, <3>1, PointKinds DEF RowInv, PointInv
      <4> QED BY <3>1, <3>2, <3>3, <3>5, <4>1, <4>2, <4>3 DEF Follows
    <3> QED BY <3>4, <3>5
  <2> QED BY <2>2, <2>3, <2>4
<1> QED BY <1>1 DEF CloneInv

LEMMA ServedLogs ==
  ASSUME TypeInv, PipeInv, RowInv, LogInv, NEW a \in Actors, NEW points,
         NEW o \in {"settled", "rejected"}, Serve(a, points, o), Served(a, o), logs' = logs,
         pc[a] \in SelPoints /\ o = "settled" => seq'[a] > logs[arg'[a]]
  PROVE  LogInv'
<1>1. PointInv
  BY DEF RowInv
<1>2. LogPoints' /\ FreshInv'
  BY <1>1, ServedFresh
<1>3. SeqInv'
  BY <1>1, ServedSeq
<1>4. CloneInv'
  BY ServedClones
<1> QED BY <1>2, <1>3, <1>4 DEF LogInv

(* Nobody writes a verdict in a row that does not exist. *)
LEMMA WrittenRow ==
  ASSUME TypeInv, RowInv, NEW a \in Actors, pc[a] = "updPut", at[a] = "lane"
  PROVE  status[arg[a]] # "none"
<1>1. CASE a = Worker
  BY <1>1 DEF RowInv, WorkerInv, mine
<1>2. CASE a = Main
  BY <1>2 DEF RowInv, StopInv
<1>3. CASE a \in Handlers
  BY <1>3 DEF RowInv, CancelInv, Cancelling
<1> QED BY <1>1, <1>2, <1>3 DEF Actors

LEMMA StoreLogs == ASSUME TypeInv, PipeInv, RowInv, LogInv, StoreStep PROVE LogInv'
<1>a. /\ Worker \in Actors /\ Main \in Actors /\ \A h \in Handlers : h \in Actors
      /\ arg \in [Actors -> Tasks \cup {None}] /\ status \in [Tasks -> Status]
      /\ seq \in [Actors -> Nat] /\ logs \in [Tasks -> Nat] /\ flag \in [Actors -> BOOLEAN]
  BY ActorsDistinct DEF TypeInv, TypeOK, LocalTypeOK, DbTypeOK
<1>p. \A a \in Actors : pc[a] \in SelPoints => arg[a] \in Tasks
  BY LogPointSets, PointSets DEF TypeInv, LocalsDefined
<1>1. ASSUME NEW a \in Actors, GetTask(a) \/ SetCancelFlag(a) PROVE LogInv'
  <2>1. PICK points : Serve(a, points, "settled") /\ points \cap SelPoints = {}
    BY <1>1, LogPointSets DEF GetTask, SetCancelFlag, Execute, ReadPoints
  <2>2. Served(a, "settled") /\ logs' = logs
    BY <1>1, <2>1 DEF GetTask, SetCancelFlag, Served, Serve, dbVars, locals
  <2>3. pc[a] \notin SelPoints
    BY <2>1 DEF Serve
  <2> QED BY <2>1, <2>2, <2>3, ServedLogs
<1>2. ASSUME NEW a \in Actors, WriteStatus(a) PROVE LogInv'
  <2>1. Serve(a, {"updPut"}, "settled") /\ pc[a] = "updPut" /\ at[a] = "lane"
    BY <1>2 DEF WriteStatus, Execute, Serve
  <2>2. status[arg[a]] # "none"
    BY <2>1, WrittenRow
  <2>3. Served(a, "settled") /\ logs' = logs
    BY <1>2, <1>a, <2>1, <2>2 DEF WriteStatus, Served, Serve, locals
  <2> QED BY <2>1, <2>3, LogPointSets, ServedLogs
<1>3. ASSUME NEW a \in Actors, LogSequence(a) PROVE LogInv'
  <2>1. Serve(a, SelPoints, "settled") /\ pc[a] \in SelPoints
    BY <1>3 DEF LogSequence, Execute, Serve
  <2>2. Served(a, "settled") /\ logs' = logs
    BY <1>3, <1>a, <2>1 DEF LogSequence, Served, Serve, dbVars
  <2>3. seq'[a] > logs[arg'[a]]
    <3>1. logs[arg[a]] \in Nat /\ seq'[a] = logs[arg[a]] + 1 /\ arg' = arg
      BY <1>3, <1>a, <1>p, <2>1 DEF LogSequence
    <3> QED BY <3>1
  <2> QED BY <2>1, <2>2, <2>3, ServedLogs
<1>4. ASSUME NEW a \in Actors, LogInsert(a) PROVE LogInv'
  <2>1. PICK o \in {"settled", "rejected"} : Serve(a, InsPoints, o)
    BY <1>4 DEF LogInsert
  <2>2. Served(a, o) /\ PointInv
    BY <1>4, <2>1 DEF LogInsert, Served, Serve, locals, RowInv
  <2>3. LogPoints' /\ FreshInv' /\ CloneInv' /\ SeqInv'
    BY <1>4, <2>1, <2>2, ServedFresh, ServedClones, InsertedSeq
  <2> QED BY <2>3 DEF LogInv
<1>5. ASSUME NEW h \in Handlers, FindByIdempotencyKey(h) PROVE LogInv'
  <2>1. Serve(h, {"keyFind"}, "settled") /\ pc[h] = "keyFind"
    BY <1>5 DEF FindByIdempotencyKey, Execute, Serve
  <2>2. Served(h, "settled") /\ logs' = logs
    BY <1>5, <1>a, <2>1 DEF FindByIdempotencyKey, Served, Serve, dbVars
  <2> QED BY <1>a, <2>1, <2>2, LogPointSets, ServedLogs
<1>6. ASSUME NEW h \in Handlers, CreateTask(h) PROVE LogInv'
  <2>1. Serve(h, {"insert", "retryInsert"}, "settled") /\ pc[h] \in {"insert", "retryInsert"}
    BY <1>6 DEF CreateTask, Execute, Serve
  <2>2. status' = status \/ status' = [status EXCEPT ![arg[h]] = "queued"]
    BY <1>6 DEF CreateTask
  <2>3. Served(h, "settled") /\ logs' = logs
    BY <1>6, <1>a, <2>1, <2>2 DEF CreateTask, Served, Serve
  <2> QED BY <1>a, <2>1, <2>3, LogPointSets, ServedLogs
<1>7. CASE IsCancelRequested \/ HasRunning
  <2>1. PICK points : Serve(Worker, points, "settled") /\ points \cap SelPoints = {}
    BY <1>7, LogPointSets DEF IsCancelRequested, HasRunning, Execute, FlagReads
  <2>2. Served(Worker, "settled") /\ logs' = logs
    BY <1>7, <1>a, <2>1 DEF IsCancelRequested, HasRunning, Served, Serve, dbVars
  <2>3. pc[Worker] \notin SelPoints
    BY <2>1 DEF Serve
  <2> QED BY <1>a, <2>1, <2>2, <2>3, ServedLogs
<1>8. CASE ClaimNextQueued
  <2>1. Serve(Worker, {"claim"}, "settled") /\ pc[Worker] = "claim"
    BY <1>8 DEF ClaimNextQueued, Execute, Serve
  <2>2. \A t \in Tasks : status[t] = "none" => status'[t] = "none"
    BY <1>8, <1>a DEF ClaimNextQueued, Claimable
  <2>3. Served(Worker, "settled") /\ logs' = logs
    BY <1>8, <2>1, <2>2 DEF ClaimNextQueued, Served, Serve
  <2> QED BY <1>a, <2>1, <2>3, LogPointSets, ServedLogs
<1>9. CASE ListInterrupted
  <2>1. Serve(Main, {"bootList"}, "settled") /\ pc[Main] = "bootList"
    BY <1>9 DEF ListInterrupted, Execute, Serve
  <2>2. Served(Main, "settled") /\ logs' = logs
    BY <1>9, <2>1 DEF ListInterrupted, Served, Serve, dbVars
  <2> QED BY <1>a, <2>1, <2>2, LogPointSets, ServedLogs
<1>10. CASE MarkInterrupted
  <2>1. Serve(Main, {"bootMark"}, "settled") /\ pc[Main] = "bootMark"
    BY <1>10 DEF MarkInterrupted, MarkAs, Execute, Serve
  <2>2. \A t \in Tasks : status[t] = "none" => status'[t] = "none"
    BY <1>10, <1>a DEF MarkInterrupted, MarkAs
  <2>3. Served(Main, "settled") /\ logs' = logs
    BY <1>10, <2>1, <2>2 DEF MarkInterrupted, MarkAs, Served, Serve, locals
  <2> QED BY <1>a, <2>1, <2>3, LogPointSets, ServedLogs
<1> QED BY <1>1, <1>2, <1>3, <1>4, <1>5, <1>6, <1>7, <1>8, <1>9, <1>10 DEF StoreStep

LEMMA FaultLogs ==
  ASSUME TypeInv, PipeInv, RowInv, LogInv, NEW a \in Actors, StoreFault(a) PROVE LogInv'
<1>1. Serve(a, StorePoints \ {"dbClose"}, "rejected") /\ UNCHANGED <<dbVars, locals>>
  BY DEF StoreFault
<1>2. Served(a, "rejected") /\ logs' = logs
  BY <1>1 DEF Served, Serve, dbVars, locals
<1> QED BY <1>1, <1>2, ServedLogs

-----------------------------------------------------------------------------
(* The invariant of a run, assembled.                                       *)

LEMMA InitLogs == Init => LogInv
<1> SUFFICES ASSUME Init PROVE LogInv
  OBVIOUS
<1>1. /\ pc[Main] = "down" /\ pc[Worker] = "off" /\ \A h \in Handlers : pc[h] = "idle" /\ fresh[h] = None
  BY ActorsDistinct DEF Init
<1>2. \A a \in Actors : ~Reserved(a)
  BY <1>1, LogPointSets DEF Reserved, Actors
<1> QED BY <1>1, <1>2, LogPointSets DEF LogInv, LogPoints, FreshInv, SeqInv, CloneInv, Cloning

LEMMA NextLogs ==
  ASSUME TypeInv, PipeInv, RowInv, LogInv, [Next]_vars PROVE LogInv'
<1>a. /\ Worker \in Actors /\ Main \in Actors /\ Main # Worker
      /\ \A h \in Handlers : h \in Actors /\ h # Worker
      /\ PointInv
  BY ActorsDistinct DEF RowInv
<1>1. CASE StoreStep
  BY <1>1, StoreLogs
<1>2. ASSUME NEW a \in Actors, StoreFault(a) PROVE LogInv'
  BY <1>2, FaultLogs
<1>3. CASE (WorkerStep \/ WorkerAwait) /\ ~WorkerFails
  <2>1. Script(Worker, pc'[Worker]) /\ WorkerEdge(pc'[Worker])
    BY <1>3, WorkerEdges
  <2> QED BY <1>a, <2>1, WorkerLogs, ScriptLogInv
<1>4. CASE WorkerFails \/ FailureClosed
  BY <1>4, FailsLogs
<1>5. ASSUME NEW a \in Actors, NextStatement(a) PROVE LogInv'
  <2>1. Script(a, pc'[a]) /\ StatementEdge(a, pc'[a])
    BY <1>5, StatementEdges
  <2>2. LogEdge(a, pc'[a]) /\ FreshEdge(a, pc'[a]) /\ CloneEdge(a, pc'[a])
    BY <2>1, StatementLogs
  <2> QED BY <2>1, <2>2, ScriptLogInv
<1>6. ASSUME NEW a \in Handlers \cup {Main}, CancelStep(a) \/ Terminated(a) PROVE LogInv'
  <2>1. Script(a, pc'[a]) /\ CancelEdge(a, pc'[a])
    BY <1>6, CancelEdges
  <2> QED BY <1>a, <2>1, CancelLogs, ScriptLogInv
<1>7. ASSUME NEW h \in Handlers, HandlerStep(h) PROVE LogInv'
  <2>1. Script(h, pc'[h]) /\ HandlerEdge(h, pc'[h])
    BY <1>7, HandlerEdges
  <2> QED BY <1>a, <2>1, HandlerLogs, ScriptLogInv
<1>8. CASE Arrive
  <2>1. PICK h \in Handlers : Script(h, pc'[h]) /\ ReceiveEdge(h, pc'[h])
    BY <1>8, ReceiveEdges
  <2> QED BY <1>a, <2>1, ReceiveLogs, ScriptLogInv
<1>9. CASE MainStep \/ MainAwait \/ Restart \/ StopRequested
  <2>1. CASE BootEnds
    BY <2>1, UpLogs
  <2>2. CASE Script(Main, pc'[Main]) /\ MainEdge(pc'[Main])
    BY <1>a, <2>2, MainLogs, ScriptLogInv
  <2> QED BY <1>a, <1>9, <2>1, <2>2, MainEdges
<1>10. CASE Crash \/ CloseStore
  BY <1>10, HaltLogs DEF Crash, CloseStore
<1>11. CASE StartTurn
  <2>1. UNCHANGED <<status, logs, pc, arg, flag, seq, fresh, claimed, at>>
    BY <1>11 DEF StartTurn, dbVars, locals
  <2> QED BY <1>11, <2>1, TurnPipe, QuietLogs
<1>12. CASE Tick
  <2>1. /\ UNCHANGED <<status, logs, pc, arg, flag, seq, fresh, claimed, lane, settled>>
        /\ turn' = turn \o WakeJobs /\ at' = AtWoken
    BY <1>12 DEF Tick, dbVars, locals
  <2>2. \A a \in Actors : \/ at'[a] = at[a]
                          \/ a = Worker /\ pc[a] = "waiting" /\ at[a] = "js"
    BY <2>1 DEF AtWoken, Waiting, TypeInv, TypeOK, RtTypeOK
  <2>3. OrderKept
    BY <2>1, WokenPipe
  <2> QED BY <2>1, <2>2, <2>3, QuietLogs
<1>13. CASE ChildExits \/ DescendantEnds \/ UNCHANGED vars
  <2>1. UNCHANGED <<status, logs, pc, arg, flag, seq, fresh, claimed, lane, settled, turn, at>>
    BY <1>13 DEF ChildExits, DescendantEnds, Held, vars, dbVars, rtVars, locals
  <2>2. OrderKept
    BY <2>1 DEF OrderKept, Ahead, Together
  <2> QED BY <2>1, <2>2, QuietLogs
<1> QED BY <1>1, <1>2, <1>3, <1>4, <1>5, <1>6, <1>7, <1>8, <1>9, <1>10, <1>11, <1>12, <1>13
        DEF Next, Progress

(* appendLog reads MAX(sequence) and inserts in two statements, and the      *)
(* handler of a retry logs a task that the worker may already have claimed:  *)
(* whatever the order of requests, faults, stops and crashes, the sequence   *)
(* that is about to be inserted is free, so no primary key clash rejects the *)
(* worker loop.                                                              *)
THEOREM LogsAreOrdered == Spec => []LogsNeverCollide
<1>1. Init => LogInv
  BY InitLogs
<1>2. TypeInv /\ PipeInv /\ RowInv /\ LogInv /\ [Next]_vars => LogInv'
  BY NextLogs
<1>3. LogInv => LogsNeverCollide
  BY DEF LogInv, SeqInv, Reserved, LogsNeverCollide
<1> QED BY <1>1, <1>2, <1>3, AlwaysRows, PTL DEF Spec

-----------------------------------------------------------------------------
(***************************************************************************)
(* A clean stop.  ShutInv: without a fault no operation is rejected, every *)
(* running row is the one the worker holds, and the cancel of stop()       *)
(* cannot miss the child; recovery on boot has the rows that a crash left. *)
(***************************************************************************)

(* Nothing but a fault makes an operation fail: log sequences do not clash. *)
NoFault == /\ \A a \in Actors : at[a] # "rejected"
           /\ pc[Worker] \notin {"failed", "failClose"}

(* While the worker lives, a running row is the one it holds. *)
Owned == pc[Worker] # "off" =>
           \A t \in Tasks : status[t] = "running" => t \in {mine, claimed}

(* Recovery on boot has the rows still to be marked in todo. *)
Recovering ==
  pc[Main] \in {"bootMark", "bootSel", "bootIns"} \/ (pc[Main] = "bootList" /\ at[Main] = "settled") =>
    \A t \in Tasks : status[t] = "running" =>
      /\ t \in todo
      /\ pc[Main] \in {"bootSel", "bootIns"} \/ (pc[Main] = "bootMark" /\ at[Main] = "settled") =>
           t # arg[Main]

(* The cancel that stop() ends with cannot miss the child: either the child *)
(* is registered when it looks, or the flag is set before the executor asks *)
(* for the last time.                                                       *)
Stopped ==
  /\ pc[Worker] = "selfGet" /\ at[Worker] = "settled" => seen[Worker] = "running" \/ cancelFlag[mine]
  /\ pc[Worker] = "selfFlag" /\ at[Worker] = "settled" => cancelFlag[mine]
  /\ pc[Main] \in {"reqGet", "reqFlag"} => mine = arg[Main] \/ pc[Worker] = "exited"
  /\ pc[Main] \in {"term", "join"} =>
       /\ pc[Worker] \in {"isCancel1"} \cup Run => cancelFlag[mine]
       /\ child = "running" => /\ pc[Worker] = "isCancel2"
                               /\ at[Worker] = "lane" \/ flag[Worker]
  /\ pc[Main] = "dbClose" => pc[Worker] = "exited"

ShutInv == /\ Recovering
           /\ faults = 0 => NoFault /\ Owned /\ Stopped

-----------------------------------------------------------------------------
(* What the steps of the scripts say of a stop.                             *)

(* Which branch the worker takes. *)
WorkerTurn(p) ==
  LET q == pc[Worker] IN
    /\ UNCHANGED <<faults, todo>> /\ p \notin {"off", "failed", "failClose"}
    /\ q = "claim" /\ p = "isCancel1" => ~queueStopping
    /\ q = "doneGet" /\ appStopping => p = "exited"
    /\ q = "selfGet" /\ p = "isCancel1" => seen[Worker] \in Terminal \cup {"none"}
    /\ q = "isCancel2" /\ p = "wait" => ~flag[Worker]

LEMMA WorkerTurns ==
  ASSUME TypeInv, WorkerStep \/ WorkerAwait, ~WorkerFails PROVE WorkerTurn(pc'[Worker])
<1> USE DEF NoProcess, NoWake, KeepLocals, locals, WorkerResumes, WorkerAwaited, Resume, Complete
<1>a. Worker \in Actors /\ pc \in [Actors -> Points]
  BY ActorsDistinct DEF TypeInv, TypeOK, RtTypeOK
<1>b. \A p : Issue(Worker, p) \/ Await(Worker, p) => pc'[Worker] = p
  BY <1>a DEF Issue, IssueFrom, Await, AwaitFrom
<1>1. CASE WakeUp \/ CheckedRunning
  BY <1>1, <1>b DEF WakeUp, Pump, CheckedRunning, PumpIdle, WorkerTurn
<1>2. CASE Claimed
  BY <1>2, <1>b DEF Claimed, PumpIdle, WorkerTurn
<1>3. CASE CancelOwnClaim
  BY <1>3, <1>b DEF CancelOwnClaim, WorkerTurn
<1>4. CASE CheckedBeforeStart \/ Resolved \/ ExecLogged \/ Spawned
  BY <1>4, <1>b DEF CheckedBeforeStart, Verdict, Resolved, ExecLogged, Spawned, WorkerTurn
<1>5. CASE CheckedAfterStart
  BY <1>5, <1>b DEF CheckedAfterStart, WorkerTurn
<1>6. CASE Waited \/ CheckedAfterExit
  BY <1>6, <1>b DEF Waited, CheckedAfterExit, LogThenVerdict, WorkerTurn
<1>7. CASE OutLogged \/ ErrorLogged
  BY <1>7, <1>b DEF OutLogged, ErrorLogged, WorkerTurn
<1>8. CASE ErrorRead \/ WorkerUpdated \/ AgentLogged
  BY <1>8, <1>b DEF ErrorRead, WorkerUpdated, AgentLogged, Verdict, Finish, WorkerTurn
<1>9. CASE ProcessClosed
  BY <1>9, <1>b DEF ProcessClosed, WorkerTurn
<1>10. CASE PumpDone
  BY <1>10, <1>b DEF PumpDone, Pump, WorkerTurn
<1> QED BY <1>1, <1>2, <1>3, <1>4, <1>5, <1>6, <1>7, <1>8, <1>9, <1>10 DEF WorkerStep, WorkerAwait

(* What a stop has done when it goes on to join the worker. *)
Joins(p) ==
  LET q == pc[Main] IN
    /\ p \in {"term", "join"} =>
         \/ q = "closing" /\ mine = None /\ child' = child
         \/ q = "term" /\ child' = child
         \/ at[Main] = "rejected"
         \/ /\ q \in {"reqGet", "reqFlag", "updPut"} /\ at[Main] = "settled"
            /\ mine = arg[Main] => child' # "running"
            /\ q = "reqGet" => seen[Main] \in Terminal \cup {"none"}
    /\ p = "reqGet" => arg'[Main] = mine
    /\ p = "reqFlag" => q = "reqGet" /\ arg'[Main] = arg[Main]
    /\ p = "dbClose" => pc[Worker] \in {"exited", "failed"}

LEMMA CancelJoins ==
  ASSUME TypeInv, CancelStep(Main) \/ Terminated(Main) PROVE Joins(pc'[Main])
<1> USE DEF NoProcess, NoWake, KeepLocals, locals, Resume, Complete
<1>a. Main \in Actors /\ Main # Worker /\ pc \in [Actors -> Points]
  BY ActorsDistinct DEF TypeInv, TypeOK, RtTypeOK
<1>b. \A p : Issue(Main, p) \/ Await(Main, p) => pc'[Main] = p
  BY <1>a DEF Issue, IssueFrom, Await, AwaitFrom
<1>1. CancelRunning(Main) => Kills(Main) /\ (mine = arg[Main] => child' # "running")
  BY DEF CancelRunning, Kills, Killed, mine
<1>2. CASE CancelRead(Main)
  BY <1>1, <1>2, <1>b DEF CancelRead, CancelRunning, AfterCancel, Joins
<1>3. CASE CancelFlagged(Main)
  BY <1>1, <1>3, <1>b DEF CancelFlagged, CancelRunning, AfterCancel, Joins
<1>4. CASE CancelUpdated(Main)
  BY <1>1, <1>4, <1>b DEF CancelUpdated, CancelRunning, AfterCancel, Joins
<1>5. CASE Terminated(Main)
  BY <1>5, <1>b DEF Terminated, AfterCancel, Joins
<1> QED BY <1>2, <1>3, <1>4, <1>5 DEF CancelStep

LEMMA MainJoins ==
  ASSUME TypeInv, MainStep \/ MainAwait \/ Restart \/ StopRequested, ~BootEnds
  PROVE  Joins(pc'[Main])
<1> USE DEF NoProcess, NoWake, KeepLocals, locals, Resume, Complete
<1>a. Main \in Actors /\ Worker \in Actors /\ Main # Worker /\ pc \in [Actors -> Points]
      /\ arg \in [Actors -> Tasks \cup {None}]
  BY ActorsDistinct DEF TypeInv, TypeOK, RtTypeOK, LocalTypeOK
<1>b. \A p : Issue(Main, p) \/ Await(Main, p) \/ IssueFrom(AtWoken, Main, p)
               \/ AwaitFrom(AtWoken, Main, p) => pc'[Main] = p
  BY <1>a DEF Issue, IssueFrom, Await, AwaitFrom
<1>1. CASE Restart \/ JoinWorker
  BY <1>1, <1>b DEF Restart, JoinWorker, Joins
<1>2. CASE StopRequested \/ MainFails
  BY <1>2, <1>b DEF StopRequested, MainFails, Joins
<1>3. CASE StopQueue
  BY <1>3, <1>a, <1>b DEF StopQueue, Joins, mine
<1>4. CASE Recover
  <2>1. pc'[Main] \in {"up", "bootMark", "bootSel"}
    BY <1>4, <1>a, <1>b DEF Recover, RecoverNext
  <2> QED BY <2>1 DEF Joins
<1> QED BY <1>1, <1>2, <1>3, <1>4 DEF MainStep, MainAwait

(* Only a StoreFault counts as one, and todo is Main's. *)
LEMMA FaultsKept == ASSUME [Next]_vars, \A a \in Actors : ~StoreFault(a) PROVE faults' = faults
<1>1. CASE StoreStep
  BY <1>1
  DEF StoreStep, GetTask, SetCancelFlag, WriteStatus, LogSequence, LogInsert,
    FindByIdempotencyKey,
      CreateTask, IsCancelRequested, HasRunning, ClaimNextQueued, ListInterrupted,
        MarkInterrupted,
      MarkAs, Execute
<1>2. CASE WorkerStep \/ WorkerAwait
  BY <1>2
  DEF WorkerStep, WorkerAwait, WakeUp, CheckedRunning, Claimed, CancelOwnClaim,
    CheckedBeforeStart,
      ExecLogged, CheckedAfterStart, CheckedAfterExit, OutLogged, ErrorLogged, ErrorRead,
      WorkerUpdated, AgentLogged, PumpDone, WorkerFails, Resolved, Spawned, Waited, ProcessClosed,
      WorkerResumes, WorkerAwaited, Resume, Complete, history
<1>3. ASSUME NEW a \in Actors, NextStatement(a) \/ CancelStep(a) \/ Terminated(a)
      PROVE  faults' = faults
  BY <1>3 DEF NextStatement, CancelStep, CancelRead, CancelFlagged, CancelUpdated, Terminated,
    Resume,
              Complete
<1>4. ASSUME NEW h \in Handlers, HandlerStep(h) PROVE faults' = faults
  BY <1>4
  DEF HandlerStep, FoundKey, Enqueued, TaskAnswered, CancelBefore, CancelAnswered, RetryRead,
      RetryInserted, RetryAnswered, HandlerFails, Resume
<1>5. CASE Arrive
  BY <1>5 DEF Arrive, PostTask, PostCancel, PostRetry, Request, Receive, Complete
<1>6. CASE MainStep \/ MainAwait \/ Restart \/ StopRequested
  BY <1>6 DEF MainStep, MainAwait, Restart, StopRequested, Recover, MainFails, StopQueue,
    JoinWorker,
              Resume, Complete, history
<1>7. CASE \/ FailureClosed \/ Crash \/ CloseStore \/ StartTurn \/ Tick \/ ChildExits
         \/ DescendantEnds \/ UNCHANGED vars
  BY <1>7 DEF FailureClosed, Complete, Crash, CloseStore, StartTurn, Tick, ChildExits,
     DescendantEnds, vars, history
<1> QED BY <1>1, <1>2, <1>3, <1>4, <1>5, <1>6, <1>7, ActorsDistinct DEF Next, Progress

-----------------------------------------------------------------------------
(* The steps of the scripts.                                                *)

LEMMA ScriptNoFault ==
  ASSUME TypeInv, PointInv, NoFault, NEW a \in Actors, NEW p, Script(a, p), a = Worker => p \notin {"failed", "failClose"}
  PROVE  NoFault'
<1>1. /\ PointInv' /\ pc'[a] = p /\ at'[a] \in {"lane", "js"}
      /\ \A b \in Actors \ {a} : pc'[b] = pc[b] /\ \/ at'[b] = at[b]
                                                   \/ b = Worker /\ pc[b] = "waiting"
  BY ScriptPoints, Zenon
<1>2. Worker \in Actors
  BY ActorsDistinct
<1>3. pc'[Worker] = "waiting" => at'[Worker] # "rejected"
  BY <1>1, <1>2, PointKinds DEF PointInv
<1> QED BY <1>1, <1>2, <1>3 DEF NoFault

LEMMA ScriptRecovering ==
  ASSUME TypeInv, PointInv, Recovering, NEW a \in Actors, NEW p, Script(a, p), LogEdge(a, p),
         todo' = todo,
         a = Main => \/ p \notin {"bootMark", "bootSel", "bootIns"}
                     \/ p = "bootIns" /\ pc[Main] = "bootSel" /\ arg'[Main] = arg[Main]
  PROVE  Recovering'
<1>1. /\ pc'[a] = p /\ at'[a] \in {"lane", "js"}
      /\ \A b \in Actors \ {a} : pc'[b] = pc[b] /\ \/ at'[b] = at[b]
                                                   \/ b = Worker /\ pc[b] = "waiting"
  BY ScriptPoints, Zenon
<1>2. Main \in Actors /\ Main # Worker
  BY ActorsDistinct
<1>3. status' = status /\ (a # Main => arg'[Main] = arg[Main])
  BY <1>2 DEF LogEdge
<1>4. CASE a = Main
  BY <1>1, <1>3, <1>4 DEF Recovering
<1>5. CASE a # Main
  BY <1>1, <1>2, <1>3, <1>5 DEF Recovering
<1> QED BY <1>4, <1>5

LEMMA OtherOwned ==
  ASSUME TypeInv, PointInv, Owned, NEW a \in Actors, a # Worker, NEW p, Script(a, p), LogEdge(a, p),
         CloneEdge(a, p)
  PROVE  Owned'
<1>1. pc'[Worker] = pc[Worker] /\ mine' = mine /\ status' = status /\ claimed' = claimed
  BY ActorsDistinct, ScriptPoints DEF LogEdge, CloneEdge, mine
<1> QED BY <1>1 DEF Owned

LEMMA WorkerOwned ==
  ASSUME TypeInv, RowInv, Owned, NEW p, WorkerEdge(p) PROVE Owned'
<1>1. pc[Worker] # "off" /\ status' = status
  BY DEF WorkerEdge, dbVars
<1>2. CASE UNCHANGED claimed /\ mine' = mine
  BY <1>1, <1>2 DEF Owned
<1>3. CASE claimed # None /\ mine' = claimed
  BY <1>1, <1>3, ConstantsOK DEF Owned, RowInv, WorkerInv, Free
<1>4. CASE pc[Worker] = "doneGet"
  <2>1. claimed = None /\ status[mine] \in Terminal
    BY <1>4 DEF RowInv, WorkerInv, Over
  <2> QED BY <1>1, <2>1, ConstantsOK DEF Owned, Terminal
<1> QED BY <1>2, <1>3, <1>4 DEF WorkerEdge, mine

LEMMA WorkerStopped ==
  ASSUME TypeInv, RowInv, Stopped, NEW p, Script(Worker, p), WorkerEdge(p), WorkerTurn(p)
  PROVE  Stopped'
<1>a. /\ Worker \in Actors /\ Main \in Actors /\ Main # Worker
  BY ActorsDistinct
<1>b. /\ pc'[Worker] = p /\ pc'[Main] = pc[Main] /\ at'[Worker] \in {"lane", "js"}
      /\ p \in StorePoints => at'[Worker] = "lane"
  BY <1>a, ScriptPoints, PointKinds DEF RowInv, Script
<1>c. /\ UNCHANGED <<cancelFlag, seen, flag>> /\ arg'[Main] = arg[Main]
  BY <1>a DEF WorkerEdge, dbVars
<1>1. pc'[Main] \in {"reqGet", "reqFlag"} => mine' = arg'[Main] \/ pc'[Worker] = "exited"
  <2>1. SUFFICES ASSUME pc[Main] \in {"reqGet", "reqFlag"} PROVE mine' = arg[Main] \/ p = "exited"
    BY <1>b, <1>c
  <2>2. appStopping /\ pc[Worker] # "exited" /\ mine = arg[Main]
    BY <2>1 DEF appStopping, Closing, Stopped, WorkerEdge
  <2>3. arg[Main] \in Tasks /\ None \notin Tasks
    BY <1>a, <2>1, PointSets, ConstantsOK DEF TypeInv, LocalsDefined
  <2>4. pc[Worker] \notin Free
    BY <2>2, <2>3 DEF RowInv, WorkerInv
  <2> QED BY <2>2, <2>4 DEF WorkerEdge, WorkerTurn, Free, mine
<1>2. ASSUME pc'[Main] \in {"term", "join"} PROVE
           /\ pc'[Worker] \in {"isCancel1"} \cup Run => cancelFlag'[mine']
           /\ child' = "running" => /\ pc'[Worker] = "isCancel2"
                                    /\ at'[Worker] = "lane" \/ flag'[Worker]
  <2>1. /\ pc[Worker] \in {"isCancel1"} \cup Run => cancelFlag[mine]
        /\ child = "running" => /\ pc[Worker] = "isCancel2"
                                /\ at[Worker] = "lane" \/ flag[Worker]
    BY <1>b, <1>2 DEF Stopped
  <2>2. queueStopping
    BY <1>b, <1>2 DEF queueStopping, Closing
  <2>3. pc'[Worker] \in {"isCancel1"} \cup Run => cancelFlag'[mine']
    <3>1. CASE pc[Worker] \in {"selfGet", "selfFlag"} /\ p = "isCancel1"
      <4>1. mine' = mine /\ at[Worker] = "settled"
        BY <3>1, PointKinds DEF WorkerEdge, mine
      <4>2. cancelFlag[mine]
        BY <3>1, <4>1 DEF Stopped, WorkerTurn, Terminal
      <4> QED BY <1>c, <4>1, <4>2
    <3>2. CASE pc[Worker] = "claim" /\ p = "isCancel1"
      BY <2>2, <3>2 DEF WorkerTurn
    <3>3. CASE mine' = mine /\ pc[Worker] \in {"isCancel1"} \cup Run
      BY <1>c, <2>1, <3>3
    <3>4. CASE p \notin {"isCancel1"} \cup Run
      BY <1>b, <3>4
    <3> QED BY <1>b, <3>1, <3>2, <3>3, <3>4 DEF WorkerEdge, Run, mine
  <2>4. CASE child' = "running" /\ child # "running"
    <3>1. p = "isCancel2"
      BY <2>4 DEF WorkerEdge, Killed
    <3> QED BY <1>b, <2>3, <3>1, PointKinds
  <2>5. CASE child' = "running" /\ child = "running"
    <3>1. pc[Worker] = "isCancel2" /\ at[Worker] = "settled" /\ flag[Worker]
      BY <2>1, <2>5, PointKinds DEF WorkerEdge
    <3> QED BY <2>5, <3>1 DEF WorkerEdge, WorkerTurn, Killed
  <2> QED BY <2>3, <2>4, <2>5
<1>3. pc'[Main] = "dbClose" => pc'[Worker] = "exited"
  BY <1>b DEF Stopped, WorkerEdge
<1> QED BY <1>b, <1>1, <1>2, <1>3 DEF Stopped

(* Of any other actor: the child may be killed, never started. *)
Steady(a) ==
  /\ UNCHANGED <<cancelFlag, seen, flag>>
  /\ \A b \in Actors \ {a} : arg'[b] = arg[b]
  /\ child' = "running" => child = "running"

LEMMA HandlerStopped ==
  ASSUME TypeInv, PointInv, Stopped, NEW h \in Handlers, NEW p, Script(h, p), Steady(h)
  PROVE  Stopped'
<1>a. /\ Worker \in Actors /\ Main \in Actors /\ Main # Worker /\ h # Worker /\ h # Main /\ h \in Actors
  BY ActorsDistinct
<1>1. /\ pc'[Worker] = pc[Worker] /\ pc'[Main] = pc[Main]
      /\ at'[Worker] = at[Worker] \/ pc[Worker] = "waiting"
  BY <1>a, ScriptPoints
<1>2. mine' = mine /\ arg'[Main] = arg[Main]
  BY <1>a DEF Steady, mine
<1> QED BY <1>1, <1>2 DEF Steady, Stopped, Run

LEMMA StatementStopped ==
  ASSUME TypeInv, RowInv, Stopped, NEW p, Script(Worker, p), StatementEdge(Worker, p)
  PROVE  Stopped'
<1>a. /\ Worker \in Actors /\ Main \in Actors /\ Main # Worker
  BY ActorsDistinct
<1>1. /\ pc'[Worker] = p /\ pc'[Main] = pc[Main] /\ UNCHANGED <<cancelFlag, seen, flag, arg, child>>
  BY <1>a, ScriptPoints DEF RowInv, StatementEdge, dbVars, locals
<1>2. \/ pc[Worker] = "updGet" /\ p = "updPut"
      \/ pc[Worker] = "agentSel" /\ p = "agentIns"
      \/ pc[Worker] \in {"execSel", "outSel", "errSel"} /\ p \in {"execIns", "outIns", "errIns"}
  BY LogPointSets DEF StatementEdge, InsOf, RowInv, WorkerInv, Free, Early, Run, Over
<1> QED BY <1>1, <1>2 DEF Stopped, Run, mine

LEMMA MainStopped ==
  ASSUME TypeInv, RowInv, NoFault, Stopped, NEW p, Script(Main, p), Steady(Main), Joins(p)
  PROVE  Stopped'
<1>a. /\ Worker \in Actors /\ Main \in Actors /\ Main # Worker
  BY ActorsDistinct
<1>1. /\ pc'[Worker] = pc[Worker] /\ pc'[Main] = p
      /\ at'[Worker] = at[Worker] \/ pc[Worker] = "waiting"
  BY <1>a, ScriptPoints DEF RowInv
<1>2. mine' = mine
  BY <1>a DEF Steady, mine
<1>3. ASSUME p \in {"term", "join"} PROVE
           /\ pc[Worker] \in {"isCancel1"} \cup Run => cancelFlag[mine]
           /\ child' = "running" => /\ pc[Worker] = "isCancel2"
                                    /\ at[Worker] = "lane" \/ flag[Worker]
  <2>1. CASE pc[Main] = "closing" /\ mine = None /\ child' = child
    <3>1. pc[Worker] \in Free
      BY <2>1 DEF RowInv, WorkerInv
    <3> QED BY <2>1, <3>1 DEF RowInv, ChildInv, Free, Run, Started
  <2>2. CASE pc[Main] = "term"
    BY <2>2 DEF Stopped, Steady
  <2>3. CASE /\ pc[Main] \in {"reqGet", "reqFlag"} /\ at[Main] = "settled"
             /\ mine = arg[Main] => child' # "running"
             /\ pc[Main] = "reqGet" => seen[Main] \in Terminal \cup {"none"}
    <3>1. CASE pc[Worker] = "exited"
      BY <2>3, <3>1 DEF Steady, RowInv, ChildInv, Run
    <3>2. CASE pc[Worker] # "exited"
      <4>1. mine = arg[Main] /\ child' # "running"
        BY <2>3, <3>2 DEF Stopped
      <4>2. CASE pc[Main] = "reqFlag"
        BY <1>a, <2>3, <4>1, <4>2 DEF RowInv, FlagInv
      <4>3. CASE pc[Main] = "reqGet"
        <5>1. status[mine] \in Terminal
          BY <2>3, <4>1, <4>3 DEF RowInv, StopInv
        <5>2. mine \in Tasks
          BY <1>a, <4>1, <4>3, PointSets DEF TypeInv, LocalsDefined
        <5>3. pc[Worker] \notin Run
          BY <5>1 DEF RowInv, WorkerInv, Terminal
        <5>4. pc[Worker] = "isCancel1" => status[mine] = "cancelled"
          BY <5>1 DEF RowInv, WorkerInv, Early, Terminal
        <5> QED BY <4>1, <5>2, <5>3, <5>4 DEF RowInv, FlagInv
      <4> QED BY <2>3, <4>2, <4>3
    <3> QED BY <3>1, <3>2
  <2>4. pc[Main] # "updPut" /\ at[Main] # "rejected"
    BY <1>a DEF RowInv, StopInv, NoFault
  <2> QED BY <1>3, <2>1, <2>2, <2>3, <2>4 DEF Joins
<1>4. p \in {"reqGet", "reqFlag"} => mine = arg'[Main] \/ pc[Worker] = "exited"
  BY DEF Joins, Stopped
<1>5. p = "dbClose" => pc[Worker] = "exited"
  BY DEF Joins, NoFault
<1> QED BY <1>1, <1>2, <1>3, <1>4, <1>5 DEF Steady, Stopped, Run

-----------------------------------------------------------------------------
(* Recovery on boot, and what ends the process.                             *)

LEMMA MainRecovering ==
  ASSUME TypeInv, RowInv, Recovering, MainStep \/ MainAwait \/ Restart \/ StopRequested
  PROVE  /\ Recovering'
         /\ pc'[Worker] # pc[Worker] => \A t \in Tasks : status'[t] # "running"
<1> USE DEF NoProcess, NoWake, KeepLocals, locals, Resume, Complete
<1>a. /\ Main \in Actors /\ Worker \in Actors /\ Main # Worker /\ pc \in [Actors -> Points]
      /\ arg \in [Actors -> Tasks \cup {None}] /\ at \in [Actors -> Outcomes]
  BY ActorsDistinct DEF TypeInv, TypeOK, RtTypeOK, LocalTypeOK
<1>b. \A p : /\ Issue(Main, p) \/ IssueFrom(AtWoken, Main, p) =>
                  pc'[Main] = p /\ pc'[Worker] = pc[Worker] /\ (Issue(Main, p) => at'[Main] = "lane")
             /\ Await(Main, p) \/ AwaitFrom(AtWoken, Main, p) =>
                  pc'[Main] = p /\ pc'[Worker] = pc[Worker]
  BY <1>a DEF Issue, IssueFrom, Await, AwaitFrom
<1>1. CASE Restart \/ JoinWorker \/ StopRequested \/ MainFails \/ StopQueue
  <2>1. pc'[Main] \in {"dbClose", "closing", "down", "join", "reqGet"} \/ (pc'[Main] = "bootList" /\ at'[Main] = "lane")
    BY <1>1, <1>b DEF Restart, JoinWorker, StopRequested, MainFails, StopQueue
  <2>2. pc'[Worker] = pc[Worker]
    BY <1>1, <1>b DEF Restart, JoinWorker, StopRequested, MainFails, StopQueue
  <2> QED BY <2>1, <2>2 DEF Recovering
<1>2. CASE Recover
  <2>1. status' = status /\ at[Main] = "settled" /\ pc[Main] \in {"bootList", "bootMark", "bootIns"}
    BY <1>2 DEF Recover, dbVars
  <2>2. CASE pc[Main] = "bootMark"
    <3>1. Issue(Main, "bootSel") /\ UNCHANGED <<todo, arg>>
      BY <1>2, <2>2 DEF Recover
    <3> QED BY <1>b, <2>1, <2>2, <3>1 DEF Recovering
  <2>3. ASSUME NEW rest, RecoverNext(rest), \A t \in Tasks : status[t] = "running" => t \in rest
        PROVE  /\ Recovering'
               /\ pc'[Worker] # pc[Worker] => \A t \in Tasks : status'[t] # "running"
    <3>1. CASE rest = {}
      <4>1. pc'[Main] = "up"
        BY <1>a, <2>3, <3>1 DEF RecoverNext
      <4> QED BY <2>1, <2>3, <3>1, <4>1 DEF Recovering
    <3>2. CASE rest # {}
      <4>1. Issue(Main, "bootMark") /\ todo' = rest
        BY <2>3, <3>2 DEF RecoverNext
      <4> QED BY <1>b, <2>1, <2>3, <4>1 DEF Recovering
    <3> QED BY <3>1, <3>2
  <2>4. CASE pc[Main] = "bootList"
    <3>1. RecoverNext(todo)
      BY <1>2, <2>4 DEF Recover
    <3> QED BY <2>1, <2>3, <2>4, <3>1 DEF Recovering
  <2>5. CASE pc[Main] = "bootIns"
    <3>1. RecoverNext(todo \ {arg[Main]})
      BY <1>2, <2>5 DEF Recover
    <3> QED BY <2>1, <2>3, <2>5, <3>1 DEF Recovering
  <2> QED BY <2>1, <2>2, <2>4, <2>5
<1> QED BY <1>1, <1>2 DEF MainStep, MainAwait

LEMMA UpShut ==
  ASSUME TypeInv, RowInv, BootEnds, \A t \in Tasks : status'[t] # "running"
  PROVE  (NoFault => NoFault') /\ Owned' /\ Stopped'
<1>a. /\ Main \in Actors /\ Worker \in Actors /\ Main # Worker /\ pc \in [Actors -> Points]
      /\ at \in [Actors -> Outcomes]
  BY ActorsDistinct DEF TypeInv, TypeOK, RtTypeOK
<1>1. /\ pc'[Main] = "up" /\ pc'[Worker] = "hasRunning"
      /\ \A a \in Actors : at'[a] \in {at[a], "js", "lane"}
  BY <1>a DEF BootEnds
<1> QED BY <1>1 DEF NoFault, Owned, Stopped

LEMMA HaltShut == ASSUME Halt PROVE Recovering' /\ NoFault' /\ Owned' /\ Stopped'
<1>1. /\ pc'[Main] = "down" /\ pc'[Worker] = "off" /\ \A a \in Actors : at'[a] = "js"
  BY ActorsDistinct DEF Halt
<1> QED BY <1>1 DEF Recovering, NoFault, Owned, Stopped, Run

LEMMA QuietShut ==
  ASSUME UNCHANGED <<status, cancelFlag, pc, arg, seen, flag, claimed, todo>>,
         \A a \in Actors : \/ at'[a] = at[a]
                           \/ a = Worker /\ pc[a] = "waiting" /\ at'[a] = "settled",
         child' = "running" => child = "running"
  PROVE  /\ Recovering => Recovering'
         /\ NoFault => NoFault'
         /\ Owned => Owned'
         /\ Stopped => Stopped'
<1>1. /\ Main \in Actors /\ Worker \in Actors /\ Main # Worker /\ mine' = mine
  BY ActorsDistinct DEF mine
<1>2. at'[Main] = at[Main] /\ (at'[Worker] = at[Worker] \/ pc[Worker] = "waiting")
  BY <1>1
<1>3. (Recovering => Recovering') /\ (Owned => Owned')
  BY <1>1, <1>2 DEF Recovering, Owned
<1>4. NoFault => NoFault'
  BY DEF NoFault
<1>5. Stopped => Stopped'
  BY <1>1, <1>2 DEF Stopped, Run
<1> QED BY <1>3, <1>4, <1>5

-----------------------------------------------------------------------------
(* The operations of the Store, when none fails.                            *)

(* What an operation of a may do to the rows and to what the worker read. *)
Written(a) ==
  /\ \A t \in Tasks : status'[t] = "running" => status[t] = "running" \/ (pc[a] = "claim" /\ t = claimed')
  /\ a # Worker => seen'[Worker] = seen[Worker]
  /\ pc[Worker] = "off" \/ \A t \in Tasks : cancelFlag[t] => cancelFlag'[t]
  /\ a = Worker =>
       /\ pc[Worker] = "selfGet" => seen'[Worker] = status[mine]
       /\ pc[Worker] = "selfFlag" => cancelFlag'[mine]
       /\ pc[Worker] = "isCancel2" => flag'[Worker] = cancelFlag[mine]

LEMMA ServedShut ==
  ASSUME TypeInv, RowInv, NoFault, Owned, Stopped, NEW a \in Actors, NEW points,
         Serve(a, points, "settled"), Served(a, "settled"), Written(a)
  PROVE  NoFault' /\ Owned' /\ Stopped'
<1>a. /\ Worker \in Actors /\ Main \in Actors /\ Main # Worker /\ None \notin Tasks
  BY ActorsDistinct, ConstantsOK
<1>b. /\ pc' = pc /\ child' = child /\ at[a] = "lane" /\ at'[a] = "settled"
      /\ \A b \in Actors \ {a} : at'[b] = at[b]
  BY ServedPoints DEF RowInv
<1>1. mine' = mine /\ (pc[Main] \in {"reqGet", "reqFlag"} => arg'[Main] = arg[Main])
  <2>1. pc[Worker] # "keyFind"
    BY DEF RowInv, WorkerInv, Free, Early, Run, Over
  <2> QED BY <1>a, <2>1 DEF Served, mine
<1>2. NoFault'
  BY <1>b DEF NoFault
<1>3. Owned'
  <2>1. CASE claimed' = claimed
    BY <1>b, <1>1, <2>1 DEF Owned, Written
  <2>2. CASE claimed' # claimed
    <3>1. pc[Worker] = "claim" /\ at[Worker] = "lane"
      BY <1>b, <2>2 DEF Served
    <3>2. claimed = None /\ mine = None
      BY <3>1 DEF RowInv, WorkerInv, Free
    <3> QED BY <1>a, <1>1, <3>1, <3>2 DEF Owned, Written
  <2> QED BY <2>1, <2>2
<1>4. Stopped'
  <2>1. CASE pc[Worker] = "off"
    <3>1. child # "running"
      BY <2>1 DEF RowInv, ChildInv
    <3> QED BY <1>b, <1>1, <2>1, <3>1 DEF Stopped, Run
  <2>2. CASE pc[Worker] # "off"
    <3>1. pc[Worker] \notin Free => mine \in Tasks
      BY <1>a DEF RowInv, WorkerInv, TypeInv, TypeOK, LocalTypeOK, mine
    <3>2. \A t \in Tasks : cancelFlag[t] => cancelFlag'[t]
      BY <2>2 DEF Written
    <3>3. pc'[Worker] = "selfGet" /\ at'[Worker] = "settled" => seen'[Worker] = "running" \/ cancelFlag'[mine']
      <4>1. CASE a = Worker /\ pc[Worker] = "selfGet"
        <5>1. seen'[Worker] = status[mine] /\ mine \in Tasks /\ status[mine] \in {"running", "cancelled"}
          BY <3>1, <4>1 DEF Written, RowInv, WorkerInv, Early, Free
        <5> QED BY <1>1, <3>2, <5>1 DEF RowInv, FlagInv
      <4>2. CASE a # Worker /\ pc[Worker] = "selfGet"
        BY <1>a, <1>b, <1>1, <3>1, <3>2, <4>2 DEF Written, Stopped, Free
      <4> QED BY <1>b, <4>1, <4>2
    <3>4. pc'[Worker] = "selfFlag" /\ at'[Worker] = "settled" => cancelFlag'[mine']
      BY <1>a, <1>b, <1>1, <3>1, <3>2 DEF Written, Stopped, Free
    <3>5. pc'[Main] \in {"term", "join"} /\ pc'[Worker] \in {"isCancel1"} \cup Run => cancelFlag'[mine']
      BY <1>b, <1>1, <3>1, <3>2 DEF Stopped, Free, Run
    <3>6. pc'[Main] \in {"term", "join"} /\ child' = "running" =>
            /\ pc'[Worker] = "isCancel2"
            /\ at'[Worker] = "lane" \/ flag'[Worker]
      BY <1>a, <1>b DEF Stopped, Served, Written, Run
    <3>7. /\ pc'[Main] \in {"reqGet", "reqFlag"} => mine' = arg'[Main] \/ pc'[Worker] = "exited"
          /\ pc'[Main] = "dbClose" => pc'[Worker] = "exited"
      BY <1>b, <1>1 DEF Stopped
    <3> QED BY <3>3, <3>4, <3>5, <3>6, <3>7 DEF Stopped
  <2> QED BY <2>1, <2>2
<1> QED BY <1>2, <1>3, <1>4

LEMMA ServedRecovering ==
  ASSUME TypeInv, RowInv, Recovering, NEW a \in Actors, NEW points, NEW o \in {"settled", "rejected"},
         Serve(a, points, o), Served(a, o),
         \A t \in Tasks : status'[t] = "running" => status[t] = "running" \/ pc[a] = "claim",
         todo' = todo, pc[a] # "bootList" \/ o = "rejected",
         pc[a] = "bootMark" /\ o = "settled" => status'[arg[a]] # "running"
  PROVE  Recovering'
<1>a. Main \in Actors /\ Main # Worker /\ Actors = Handlers \cup {Worker, Main}
  BY ActorsDistinct DEF Actors
<1>b. /\ pc' = pc /\ at[a] = "lane" /\ at'[a] = o
      /\ \A b \in Actors \ {a} : at'[b] = at[b]
  BY ServedPoints DEF RowInv
<1>1. SUFFICES ASSUME pc[Main] \in Booting PROVE Recovering'
  BY <1>b DEF Recovering, Booting
<1>2. a = Main
  BY <1>a, <1>b, <1>1, PointKinds DEF RowInv, BootInv, PointInv
<1>3. arg'[Main] = arg[Main] /\ pc[Main] # "claim"
  BY <1>1, <1>2 DEF Served, Booting
<1> QED BY <1>b, <1>2, <1>3 DEF Recovering, Booting

LEMMA StoreShut ==
  ASSUME TypeInv, PipeInv, RowInv, LogInv, Recovering, StoreStep
  PROVE  /\ Recovering'
         /\ NoFault /\ Owned /\ Stopped => NoFault' /\ Owned' /\ Stopped'
<1>a. /\ Worker \in Actors /\ Main \in Actors /\ Main # Worker
      /\ \A h \in Handlers : h \in Actors /\ h # Worker
      /\ arg \in [Actors -> Tasks \cup {None}] /\ status \in [Tasks -> Status]
      /\ goal \in [Actors -> Terminal] /\ flag \in [Actors -> BOOLEAN]
      /\ cancelFlag \in [Tasks -> BOOLEAN] /\ seen \in [Actors -> Status]
  BY ActorsDistinct DEF TypeInv, TypeOK, LocalTypeOK, DbTypeOK
<1>1. ASSUME NEW a \in Actors, NEW points, Serve(a, points, "settled"), Served(a, "settled"), Written(a),
             todo' = todo, pc[a] # "bootList", pc[a] = "bootMark" => status'[arg[a]] # "running"
      PROVE  /\ Recovering'
             /\ NoFault /\ Owned /\ Stopped => NoFault' /\ Owned' /\ Stopped'
  <2>1. \A t \in Tasks : status'[t] = "running" => status[t] = "running" \/ pc[a] = "claim"
    BY <1>1 DEF Written
  <2>2. Recovering'
    BY <1>1, <2>1, ServedRecovering
  <2> QED BY <1>1, <2>2, ServedShut
<1>2. ASSUME NEW a \in Actors, GetTask(a)
      PROVE  /\ Recovering'
             /\ NoFault /\ Owned /\ Stopped => NoFault' /\ Owned' /\ Stopped'
  <2>1. Serve(a, ReadPoints, "settled") /\ pc[a] \in ReadPoints
    BY <1>2 DEF GetTask, Execute, Serve
  <2>2. Served(a, "settled") /\ Written(a) /\ todo' = todo
    BY <1>2, <1>a, <2>1 DEF GetTask, Served, Written, Serve, dbVars, ReadPoints, mine
  <2> QED BY <1>1, <2>1, <2>2 DEF ReadPoints
<1>3. ASSUME NEW a \in Actors, SetCancelFlag(a)
      PROVE  /\ Recovering'
             /\ NoFault /\ Owned /\ Stopped => NoFault' /\ Owned' /\ Stopped'
  <2>1. Serve(a, {"reqFlag", "selfFlag"}, "settled") /\ pc[a] \in {"reqFlag", "selfFlag"}
    BY <1>3 DEF SetCancelFlag, Execute, Serve
  <2>2. arg[a] \in Tasks
    BY <2>1, PointSets DEF TypeInv, LocalsDefined
  <2>3. Served(a, "settled") /\ Written(a) /\ todo' = todo
    BY <1>3, <1>a, <2>1, <2>2 DEF SetCancelFlag, Served, Written, Serve, locals, mine
  <2> QED BY <1>1, <2>1, <2>3
<1>4. ASSUME NEW a \in Actors, WriteStatus(a)
      PROVE  /\ Recovering'
             /\ NoFault /\ Owned /\ Stopped => NoFault' /\ Owned' /\ Stopped'
  <2>1. Serve(a, {"updPut"}, "settled") /\ pc[a] = "updPut" /\ at[a] = "lane"
    BY <1>4 DEF WriteStatus, Execute, Serve
  <2>2. status[arg[a]] # "none"
    BY <2>1, WrittenRow
  <2>3. Served(a, "settled") /\ Written(a) /\ todo' = todo
    BY <1>4, <1>a, <2>1, <2>2 DEF WriteStatus, Served, Written, Serve, locals, Terminal
  <2> QED BY <1>1, <2>1, <2>3
<1>5. ASSUME NEW a \in Actors, LogSequence(a)
      PROVE  /\ Recovering'
             /\ NoFault /\ Owned /\ Stopped => NoFault' /\ Owned' /\ Stopped'
  <2>1. Serve(a, SelPoints, "settled") /\ pc[a] \in SelPoints
    BY <1>5 DEF LogSequence, Execute, Serve
  <2>2. Served(a, "settled") /\ Written(a) /\ todo' = todo
    BY <1>5, <1>a, <2>1, LogPointSets DEF LogSequence, Served, Written, Serve, dbVars
  <2> QED BY <1>1, <2>1, <2>2, LogPointSets
(* The sequence is free, so the insertion succeeds. *)
<1>6. ASSUME NEW a \in Actors, LogInsert(a)
      PROVE  /\ Recovering'
             /\ NoFault /\ Owned /\ Stopped => NoFault' /\ Owned' /\ Stopped'
  <2>1. at[a] = "lane" /\ pc[a] \in InsPoints
    BY <1>6 DEF LogInsert, Serve
  <2>2. ~(seq[a] <= logs[arg[a]])
    <3>1. arg[a] \in Tasks
      BY <2>1, LogPointSets, PointSets DEF TypeInv, LocalsDefined
    <3>2. seq[a] \in Nat /\ logs[arg[a]] \in Nat
      BY <3>1 DEF TypeInv, TypeOK, LocalTypeOK, DbTypeOK
    <3> QED BY <2>1, <3>2 DEF LogInv, SeqInv, Reserved
  <2>3. Serve(a, InsPoints, "settled")
    BY <1>6, <2>2 DEF LogInsert
  <2>4. Served(a, "settled") /\ Written(a) /\ todo' = todo
    BY <1>6, <1>a, <2>1, <2>3, LogPointSets DEF LogInsert, Served, Written, Serve, locals
  <2> QED BY <1>1, <2>1, <2>3, <2>4, LogPointSets
<1>7. ASSUME NEW h \in Handlers, FindByIdempotencyKey(h)
      PROVE  /\ Recovering'
             /\ NoFault /\ Owned /\ Stopped => NoFault' /\ Owned' /\ Stopped'
  <2>1. Serve(h, {"keyFind"}, "settled") /\ pc[h] = "keyFind"
    BY <1>7 DEF FindByIdempotencyKey, Execute, Serve
  <2>2. Served(h, "settled") /\ Written(h) /\ todo' = todo
    BY <1>7, <1>a, <2>1 DEF FindByIdempotencyKey, Served, Written, Serve, dbVars
  <2> QED BY <1>a, <1>1, <2>1, <2>2
<1>8. ASSUME NEW h \in Handlers, CreateTask(h)
      PROVE  /\ Recovering'
             /\ NoFault /\ Owned /\ Stopped => NoFault' /\ Owned' /\ Stopped'
  <2>1. Serve(h, {"insert", "retryInsert"}, "settled") /\ pc[h] \in {"insert", "retryInsert"}
    BY <1>8 DEF CreateTask, Execute, Serve
  <2>2. status' = status \/ status' = [status EXCEPT ![arg[h]] = "queued"]
    BY <1>8 DEF CreateTask
  <2>3. Served(h, "settled") /\ Written(h) /\ todo' = todo
    BY <1>8, <1>a, <2>1, <2>2 DEF CreateTask, Served, Written, Serve
  <2> QED BY <1>a, <1>1, <2>1, <2>3
<1>9. CASE IsCancelRequested
  <2>1. Serve(Worker, FlagReads, "settled") /\ pc[Worker] \in FlagReads
    BY <1>9 DEF IsCancelRequested, Execute, Serve
  <2>2. Served(Worker, "settled") /\ Written(Worker) /\ todo' = todo
    BY <1>9, <1>a, <2>1 DEF IsCancelRequested, Served, Written, Serve, dbVars, FlagReads, mine
  <2> QED BY <1>a, <1>1, <2>1, <2>2 DEF FlagReads
<1>10. CASE HasRunning
  <2>1. Serve(Worker, {"hasRunning"}, "settled") /\ pc[Worker] = "hasRunning"
    BY <1>10 DEF HasRunning, Execute, Serve
  <2>2. Served(Worker, "settled") /\ Written(Worker) /\ todo' = todo
    BY <1>10, <1>a, <2>1 DEF HasRunning, Served, Written, Serve, dbVars
  <2> QED BY <1>a, <1>1, <2>1, <2>2
<1>11. CASE ClaimNextQueued
  <2>1. Serve(Worker, {"claim"}, "settled") /\ pc[Worker] = "claim"
    BY <1>11 DEF ClaimNextQueued, Execute, Serve
  <2>2. \A t \in Tasks : /\ status[t] = "none" => status'[t] = "none"
                         /\ status'[t] = "running" => status[t] = "running" \/ t = claimed'
    BY <1>11, <1>a DEF ClaimNextQueued, Claimable
  <2>3. Served(Worker, "settled") /\ Written(Worker) /\ todo' = todo
    BY <1>11, <2>1, <2>2 DEF ClaimNextQueued, Served, Written, Serve
  <2> QED BY <1>a, <1>1, <2>1, <2>3
<1>12. CASE ListInterrupted
  <2>1. Serve(Main, {"bootList"}, "settled") /\ pc[Main] = "bootList" /\ pc' = pc
    BY <1>12 DEF ListInterrupted, Execute, Serve
  <2>2. Served(Main, "settled") /\ Written(Main)
    BY <1>12, <1>a, <2>1 DEF ListInterrupted, Served, Written, Serve, dbVars
  <2>3. status' = status /\ todo' = {t \in Tasks : status[t] = "running"}
    BY <1>12 DEF ListInterrupted, dbVars
  <2>4. Recovering'
    BY <2>1, <2>3 DEF Recovering
  <2> QED BY <1>a, <2>1, <2>2, <2>4, ServedShut
<1>13. CASE MarkInterrupted
  <2>1. Serve(Main, {"bootMark"}, "settled") /\ pc[Main] = "bootMark"
    BY <1>13 DEF MarkInterrupted, MarkAs, Execute, Serve
  <2>2. pc[Worker] = "off"
    BY <2>1 DEF RowInv, BootInv, Booting
  <2>3. \A t \in Tasks : /\ status[t] = "none" => status'[t] = "none"
                         /\ status'[t] = "running" => status[t] = "running" /\ t # arg[Main]
    BY <1>13, <1>a DEF MarkInterrupted, MarkAs
  <2>4. Served(Main, "settled") /\ Written(Main) /\ todo' = todo
    BY <1>13, <1>a, <2>1, <2>2, <2>3 DEF MarkInterrupted, MarkAs, Served, Written, Serve, locals
  <2>5. arg[Main] \in Tasks
    BY <1>a, <2>1, PointSets DEF TypeInv, LocalsDefined
  <2> QED BY <1>a, <1>1, <2>1, <2>3, <2>4, <2>5
<1> QED BY <1>2, <1>3, <1>4, <1>5, <1>6, <1>7, <1>8, <1>9, <1>10, <1>11, <1>12,
    <1>13 DEF StoreStep

-----------------------------------------------------------------------------
(* The invariant of a run, assembled.                                       *)

LEMMA FaultRecovering ==
  ASSUME TypeInv, RowInv, Recovering, NEW a \in Actors, StoreFault(a) PROVE Recovering'
<1>1. Serve(a, StorePoints \ {"dbClose"}, "rejected") /\ UNCHANGED <<dbVars, locals>>
  BY DEF StoreFault
<1>2. Served(a, "rejected") /\ status' = status /\ todo' = todo
  BY <1>1 DEF Served, Serve, dbVars, locals
<1> QED BY <1>1, <1>2, ServedRecovering

LEMMA TodoKept ==
  ASSUME \/ \E a \in Handlers \cup {Main} : CancelStep(a) \/ Terminated(a)
         \/ \E h \in Handlers : HandlerStep(h)
         \/ Arrive
  PROVE  todo' = todo
<1>1. ASSUME NEW a \in Handlers \cup {Main}, CancelStep(a) \/ Terminated(a) PROVE todo' = todo
  BY <1>1 DEF CancelStep, CancelRead, CancelFlagged, CancelUpdated, Terminated, KeepLocals, locals
<1>2. ASSUME NEW h \in Handlers, HandlerStep(h) PROVE todo' = todo
  BY <1>2
  DEF HandlerStep, FoundKey, Enqueued, TaskAnswered, CancelBefore, CancelAnswered, RetryRead,
      RetryInserted, RetryAnswered, HandlerFails, KeepLocals, locals
<1>3. CASE Arrive
  BY <1>3 DEF Arrive, PostTask, PostCancel, PostRetry, Request, Receive
<1> QED BY <1>1, <1>2, <1>3

(* A script step of an actor other than the worker. *)
LEMMA OtherShut ==
  ASSUME TypeInv, RowInv, Recovering, NEW a \in Actors, a # Worker, NEW p, Script(a, p),
         LogEdge(a, p), CloneEdge(a, p), Steady(a), todo' = todo,
         a = Main => /\ Joins(p)
                     /\ \/ p \notin {"bootMark", "bootSel", "bootIns"}
                        \/ p = "bootIns" /\ pc[Main] = "bootSel" /\ arg'[Main] = arg[Main]
  PROVE  /\ Recovering'
         /\ NoFault /\ Owned /\ Stopped => NoFault' /\ Owned' /\ Stopped'
<1>1. PointInv /\ a \in Handlers \cup {Main}
  BY DEF RowInv, Actors
<1>2. Recovering'
  BY <1>1, ScriptRecovering
<1>3. ASSUME NoFault, Owned, Stopped PROVE NoFault' /\ Owned' /\ Stopped'
  BY <1>1, <1>3, ScriptNoFault, OtherOwned, HandlerStopped, MainStopped
<1> QED BY <1>2, <1>3

LEMMA StepShut ==
  ASSUME TypeInv, PipeInv, RowInv, LogInv, Recovering, [Next]_vars
  PROVE  /\ Recovering'
         /\ \/ NoFault /\ Owned /\ Stopped => NoFault' /\ Owned' /\ Stopped'
            \/ \E a \in Actors : StoreFault(a)
<1> DEFINE Good == /\ Recovering'
                   /\ NoFault /\ Owned /\ Stopped => NoFault' /\ Owned' /\ Stopped'
<1>a. /\ Worker \in Actors /\ Main \in Actors /\ Main # Worker
      /\ \A h \in Handlers : h \in Actors /\ h # Worker /\ h # Main
      /\ PointInv
  BY ActorsDistinct DEF RowInv
<1>1. CASE StoreStep
  BY <1>1, StoreShut
<1>2. ASSUME NEW a \in Actors, StoreFault(a) PROVE Recovering'
  BY <1>2, FaultRecovering
<1>3. CASE (WorkerStep \/ WorkerAwait) /\ ~WorkerFails
  <2>1. Script(Worker, pc'[Worker]) /\ WorkerEdge(pc'[Worker]) /\ WorkerTurn(pc'[Worker])
    BY <1>3, WorkerEdges, WorkerTurns
  <2>2. LogEdge(Worker, pc'[Worker]) /\ todo' = todo /\ pc'[Worker] \notin {"failed", "failClose"}
    BY <2>1, WorkerLogs DEF WorkerTurn
  <2>3. Recovering'
    BY <1>a, <2>1, <2>2, ScriptRecovering
  <2>4. ASSUME NoFault, Owned, Stopped PROVE NoFault' /\ Owned' /\ Stopped'
    BY <1>a, <2>1, <2>2, <2>4, ScriptNoFault, WorkerOwned, WorkerStopped
  <2> QED BY <2>3, <2>4
<1>4. CASE WorkerFails \/ FailureClosed
  <2>1. at[Worker] = "rejected" \/ pc[Worker] = "failClose"
    BY <1>4 DEF WorkerFails, FailureClosed, Complete
  <2>2. LoopEnds \/ LoopCloses
    BY <1>4, FailsEdges
  <2>3. /\ status' = status /\ todo' = todo
        /\ pc'[Main] \in {pc[Main], "closing"} /\ at'[Main] = at[Main] /\ arg'[Main] = arg[Main]
    BY <1>a, <2>2 DEF LoopEnds, LoopCloses, dbVars, TypeInv, TypeOK, RtTypeOK, LocalTypeOK
  <2>4. Recovering'
    BY <2>3 DEF Recovering
  <2> QED BY <1>a, <2>1, <2>4 DEF NoFault
<1>5. ASSUME NEW a \in Actors, NextStatement(a) PROVE Good
  <2>1. Script(a, pc'[a]) /\ StatementEdge(a, pc'[a])
    BY <1>5, StatementEdges
  <2>2. LogEdge(a, pc'[a]) /\ CloneEdge(a, pc'[a])
    BY <2>1, StatementLogs
  <2>3. /\ UNCHANGED <<status, cancelFlag, arg, seen, flag, claimed, todo, child>>
        /\ pc'[a] \in InsPoints \cup {"updPut"}
        /\ pc'[a] = "bootIns" => pc[a] = "bootSel"
    BY <2>1, LogPointSets DEF StatementEdge, dbVars, locals, InsOf
  <2>4. CASE a = Worker
    <3>1. pc[Worker] # "off" /\ pc'[Worker] \notin {"failed", "failClose"}
      BY <2>1, <2>3, <2>4, LogPointSets DEF StatementEdge
    <3>2. Recovering'
      BY <1>a, <2>1, <2>2, <2>3, <2>4, ScriptRecovering
    <3>3. ASSUME NoFault, Owned, Stopped PROVE NoFault' /\ Owned' /\ Stopped'
      <4>1. NoFault' /\ Stopped'
        BY <1>a, <2>1, <2>4, <3>1, <3>3, ScriptNoFault, StatementStopped
      <4>2. Owned'
        BY <2>3, <3>1, <3>3 DEF Owned, mine
      <4> QED BY <4>1, <4>2
    <3> QED BY <3>2, <3>3
  <2>5. CASE a # Worker
    <3>1. Steady(a) /\ Joins(pc'[a])
      BY <2>3, LogPointSets DEF Steady, Joins
    <3>2. a = Main => \/ pc'[a] \notin {"bootMark", "bootSel", "bootIns"}
                      \/ pc'[a] = "bootIns" /\ pc[Main] = "bootSel" /\ arg'[Main] = arg[Main]
      BY <2>3, LogPointSets
    <3> QED BY <2>1, <2>2, <2>3, <2>5, <3>1, <3>2, OtherShut
  <2> QED BY <2>4, <2>5
<1>6. ASSUME NEW a \in Handlers \cup {Main}, CancelStep(a) \/ Terminated(a) PROVE Good
  <2>1. Script(a, pc'[a]) /\ CancelEdge(a, pc'[a]) /\ todo' = todo
    BY <1>6, CancelEdges, TodoKept
  <2>2. LogEdge(a, pc'[a]) /\ CloneEdge(a, pc'[a]) /\ Steady(a)
    BY <2>1, CancelLogs DEF CancelEdge, Steady, Kills, Killed, dbVars
  <2>3. a = Main => Joins(pc'[a]) /\ pc'[a] \notin {"bootMark", "bootSel", "bootIns"}
    BY <1>6, <2>1, CancelJoins DEF CancelEdge
  <2> QED BY <1>a, <2>1, <2>2, <2>3, OtherShut
<1>7. ASSUME NEW h \in Handlers, HandlerStep(h) PROVE Good
  <2>1. Script(h, pc'[h]) /\ HandlerEdge(h, pc'[h]) /\ todo' = todo
    BY <1>7, HandlerEdges, TodoKept
  <2>2. LogEdge(h, pc'[h]) /\ CloneEdge(h, pc'[h]) /\ Steady(h)
    BY <2>1, HandlerLogs DEF HandlerEdge, Steady, dbVars
  <2> QED BY <1>a, <2>1, <2>2, OtherShut
<1>8. CASE Arrive
  <2>1. PICK h \in Handlers : Script(h, pc'[h]) /\ ReceiveEdge(h, pc'[h])
    BY <1>8, ReceiveEdges
  <2>2. LogEdge(h, pc'[h]) /\ CloneEdge(h, pc'[h]) /\ Steady(h) /\ todo' = todo
    BY <1>8, <2>1, ReceiveLogs, TodoKept DEF ReceiveEdge, Steady, dbVars
  <2> QED BY <1>a, <2>1, <2>2, OtherShut
<1>9. CASE MainStep \/ MainAwait \/ Restart \/ StopRequested
  <2>1. /\ Recovering'
        /\ pc'[Worker] # pc[Worker] => \A t \in Tasks : status'[t] # "running"
    BY <1>9, MainRecovering
  <2>2. CASE BootEnds
    <3>1. pc[Worker] = "off" /\ pc'[Worker] = "hasRunning"
      BY <1>a, <2>2 DEF BootEnds, RowInv, BootInv, Booting, TypeInv, TypeOK, RtTypeOK
    <3> QED BY <2>1, <2>2, <3>1, UpShut
  <2>3. CASE ~BootEnds
    <3>1. Script(Main, pc'[Main]) /\ MainEdge(pc'[Main])
      BY <1>9, <1>a, <2>3, MainEdges
    <3>2. LogEdge(Main, pc'[Main]) /\ CloneEdge(Main, pc'[Main]) /\ Steady(Main)
      BY <3>1, MainLogs DEF MainEdge, MainFrame, Steady, dbVars
    <3>3. Joins(pc'[Main])
      BY <1>9, <2>3, MainJoins
    <3>4. ASSUME NoFault, Owned, Stopped PROVE NoFault' /\ Owned' /\ Stopped'
      BY <1>a, <3>1, <3>2, <3>3, <3>4, ScriptNoFault, OtherOwned, MainStopped
    <3> QED BY <2>1, <3>4
  <2> QED BY <2>2, <2>3
<1>10. CASE Crash \/ CloseStore
  BY <1>10, HaltShut DEF Crash, CloseStore
<1>11. CASE StartTurn
  <2>1. UNCHANGED <<status, cancelFlag, pc, arg, seen, flag, claimed, todo, at, child>>
    BY <1>11 DEF StartTurn, dbVars, locals
  <2> QED BY <2>1, QuietShut
<1>12. CASE Tick
  <2>1. UNCHANGED <<status, cancelFlag, pc, arg, seen, flag, claimed, todo, child>> /\ at' = AtWoken
    BY <1>12 DEF Tick, dbVars, locals
  <2>2. \A a \in Actors : \/ at'[a] = at[a]
                          \/ a = Worker /\ pc[a] = "waiting" /\ at'[a] = "settled"
    BY <2>1 DEF AtWoken, Waiting, TypeInv, TypeOK, RtTypeOK
  <2> QED BY <2>1, <2>2, QuietShut
<1>13. CASE ChildExits \/ DescendantEnds \/ UNCHANGED vars
  <2>1. /\ UNCHANGED <<status, cancelFlag, pc, arg, seen, flag, claimed, todo, at>>
        /\ child' = "running" => child = "running"
    BY <1>13 DEF ChildExits, DescendantEnds, Held, vars, dbVars, rtVars, locals
  <2> QED BY <2>1, QuietShut
<1> QED BY <1>1, <1>2, <1>3, <1>4, <1>5, <1>6, <1>7, <1>8, <1>9, <1>10, <1>11, <1>12, <1>13
        DEF Next, Progress

LEMMA NextShut ==
  ASSUME TypeInv, PipeInv, RowInv, LogInv, ShutInv, [Next]_vars PROVE ShutInv'
<1>1. Recovering'
  BY StepShut DEF ShutInv
<1>2. ASSUME faults' = 0 PROVE NoFault' /\ Owned' /\ Stopped'
  <2>1. \A a \in Actors : ~StoreFault(a)
    BY <1>2 DEF StoreFault, TypeInv, TypeOK, HistoryTypeOK
  <2>2. faults = 0
    BY <1>2, <2>1, FaultsKept
  <2> QED BY <2>1, <2>2, StepShut DEF ShutInv
<1> QED BY <1>1, <1>2 DEF ShutInv

LEMMA InitShut == Init => ShutInv
BY ActorsDistinct DEF Init, ShutInv, Recovering, NoFault, Owned, Stopped, Run

(* TaskQueue.stop() interleaves with a claim, with the start of a child and  *)
(* with the cancels of clients: unless a statement failed, no live child     *)
(* that nobody killed is left when the join of the worker begins - what it   *)
(* may wait for is a descendant - and the Store is closed with no row        *)
(* `running': only a close that is cut off leaves something to recover.      *)
THEOREM StopsCleanly == Spec => []CleanShutdown
<1>1. Init => LogInv /\ ShutInv
  BY InitLogs, InitShut
<1>2. TypeInv /\ PipeInv /\ RowInv /\ LogInv /\ ShutInv /\ [Next]_vars => LogInv' /\ ShutInv'
  BY NextLogs, NextShut
<1>3. TypeInv /\ RowInv /\ ShutInv => CleanShutdown
  <2> SUFFICES ASSUME TypeInv, RowInv, ShutInv, faults = 0 PROVE CleanShutdown
    BY DEF CleanShutdown
  <2>1. pc[Main] = "join" /\ pc[Worker] \in {"wait", "waitKilled"} => child # "running"
    BY DEF ShutInv, Stopped
  <2>2. ASSUME pc[Main] = "dbClose" PROVE \A t \in Tasks : status[t] # "running"
    <3>1. pc[Worker] = "exited" /\ mine = None /\ claimed = None
      BY <2>2 DEF ShutInv, Stopped, RowInv, WorkerInv, Free
    <3> QED BY <3>1, ConstantsOK DEF ShutInv, Owned
  <2> QED BY <2>1, <2>2 DEF CleanShutdown
<1> QED BY <1>1, <1>2, <1>3, AlwaysRows, PTL DEF Spec
=============================================================================
