--------------------------- MODULE AgentTaskQueue ---------------------------
(***************************************************************************)
(* The agent's task inbox: TaskStore (SQLite rows), TaskQueue (single      *)
(* flight worker, cancel, retry, stop), ShellExecutor (one child process)  *)
(* and the parts of Application that start, join and close them.           *)
(*                                                                         *)
(* Every `await this.db...' of the script is a point where another actor   *)
(* may run.  The actors are the worker loop, the main flow (boot recovery, *)
(* then product close) and one HTTP handler per request in flight.  They   *)
(* are scheduled the way the native runtime schedules them:                *)
(*   lane     operations submitted to the Store's SerialWorker, executed   *)
(*            one at a time in submission order;                           *)
(*   settled  operations that executed, whose promise is settled, in       *)
(*            completion order;                                            *)
(*   turn     the promise jobs of the current job-pump turn.               *)
(* A submitted operation is identified by its actor: pc says which one.    *)
(***************************************************************************)
EXTENDS Naturals, Sequences

CONSTANTS
  Tasks,        \* task ids, chosen by the control plane or randomUuidV4
  Handlers,     \* HTTP requests the agent may have in flight
  AgentTasks,   \* ids of the tasks of kind 'agent', which this backend rejects
  RetryIds,     \* ids randomUuidV4 may choose for a retry
  KeyOf,        \* KeyOf[t]: idempotency key of the dispatch of t, or None
  None,         \* no task, no key
  MaxCrashes,   \* bound: process crashes
  MaxStops,     \* bound: orderly stops
  MaxFaults     \* bound: store operations that fail

Keys == {KeyOf[t] : t \in Tasks} \ {None}

Worker == "worker"
Main   == "main"
Actors == Handlers \cup {Worker, Main}

ASSUME ConstantsOK ==
  /\ AgentTasks \subseteq Tasks /\ RetryIds \subseteq Tasks
  /\ None \notin Tasks
  /\ Handlers \cap {Worker, Main} = {}
  /\ KeyOf \in [Tasks -> {KeyOf[t] : t \in Tasks}]
  /\ MaxCrashes \in Nat /\ MaxStops \in Nat /\ MaxFaults \in Nat

VARIABLES
  \* the database
  status,       \* status[t], "none" when the row does not exist
  cancelFlag,   \* tasks.cancel_requested
  created,      \* ids in created_at order
  keyed,        \* task_idempotency: key -> task id
  logs,         \* logs[t]: MAX(sequence) of task_logs
  \* the runtime
  lane, settled, turn,
  at,           \* at[a]: "js", "lane", "settled" or "rejected"
  \* the actors' local variables
  pc,
  arg,          \* arg[a]: the task the actor works on; arg[Worker] = activeTaskId
  seen,         \* status the actor read last
  flag,         \* boolean result of the actor's last operation
  goal,         \* status the actor is about to write
  seq,          \* log sequence computed by SELECT MAX
  fresh,        \* fresh[h]: id the retry handler h drew
  claimed,      \* row returned by claimNextQueued
  outs,         \* captured streams still to be logged
  todo,         \* interrupted rows still to be marked on boot
  child,        \* the Process in ShellExecutor.active
  wakePending,
  \* history and bounds
  starts,       \* starts[t]: processes ever started for t
  reply,        \* what the handler answered
  crashes, stops, faults

dbVars   == <<status, cancelFlag, created, keyed, logs>>
rtVars   == <<lane, settled, turn, at>>
locals   == <<arg, seen, flag, goal, seq, fresh, claimed, outs, todo>>
history  == <<starts, reply, crashes, stops, faults>>
vars     == <<dbVars, rtVars, pc, locals, child, wakePending, history>>

Terminal == {"succeeded", "failed", "cancelled", "timed_out"}
Status   == {"none", "queued", "running"} \cup Terminal

-----------------------------------------------------------------------------
(* Program points.  A point in StorePoints awaits a Store operation.       *)

ReadPoints == {"keyGet", "insertGet", "before", "reqGet", "updGet", "after", "retryGet",
               "retryRead", "selfGet", "errGet", "doneGet"}
SelPoints  == {"execSel", "outSel", "errSel", "agentSel", "retrySel", "bootSel"}
InsPoints  == {"execIns", "outIns", "errIns", "agentIns", "retryIns", "bootIns"}
FlagReads  == {"isCancel1", "isCancel2", "isCancel3"}
StorePoints == ReadPoints \cup SelPoints \cup InsPoints \cup FlagReads \cup
               {"keyFind", "insert", "retryInsert", "reqFlag", "selfFlag", "updPut",
                "hasRunning", "claim", "bootList", "bootMark", "dbClose"}
JsPoints == {"idle", "done", "term", "off", "resolve", "spawn", "wait", "waitKilled", "close", "failClose",
             "waiting", "exited", "failed", "down", "up", "closing", "join"}

InsOf == [execSel |-> "execIns", outSel |-> "outIns", errSel |-> "errIns",
          agentSel |-> "agentIns", retrySel |-> "retryIns", bootSel |-> "bootIns"]

Booting   == {"bootList", "bootMark", "bootSel", "bootIns"}
Closing   == {"closing", "reqGet", "reqFlag", "updGet", "updPut", "term", "join", "dbClose"}
appStopping   == pc[Main] \in Closing                   \* Application.stopping
queueStopping == pc[Main] \in Closing \ {"closing"}     \* TaskQueue.stopping

-----------------------------------------------------------------------------
(* The runtime.                                                            *)

(* Submit the Store operation of point p, or go to a point that is not one; *)
(* f is at, or at after a wake-up.                                         *)
IssueFrom(f, a, p) == /\ pc' = [pc EXCEPT ![a] = p]
                      /\ at' = [f EXCEPT ![a] = "lane"]
                      /\ lane' = Append(lane, a)
AwaitFrom(f, a, p) == /\ pc' = [pc EXCEPT ![a] = p]
                      /\ at' = [f EXCEPT ![a] = "js"]
                      /\ UNCHANGED lane
Issue(a, p) == IssueFrom(at, a, p)
Await(a, p) == AwaitFrom(at, a, p)

(* notifyWorker: resolve the waiter, or remember the pulse. *)
Waiting  == pc[Worker] = "waiting" /\ at[Worker] = "js"      \* wakeResolver is set
WakeJobs == IF Waiting THEN <<Worker>> ELSE <<>>
AtWoken  == IF Waiting THEN [at EXCEPT ![Worker] = "settled"] ELSE at
Pulse    == wakePending' = (wakePending \/ ~Waiting)

(* Async frames to resume, one promise job each, before the actor reaches *)
(* its next submission.  Job rounds interleave the chains of one turn.    *)
Hops(a) ==
  IF \/ pc[a] \in SelPoints
     \/ pc[a] = "reqFlag" /\ seen[a] = "queued"
     \/ pc[a] = "keyFind" /\ flag[a] THEN 1
  ELSE IF pc[a] = "updPut" THEN IF a = Worker THEN IF arg[a] \in AgentTasks THEN 2 ELSE 3 ELSE 4
  ELSE IF pc[a] \in {"doneGet", "insert", "reqFlag", "keyFind"} THEN 3
  ELSE 2

AnyOrder(i) == i \in DOMAIN turn                         \* variant: jobs run in any order
IsNext(i) == \A j \in DOMAIN turn :
               \/ Hops(turn[i]) < Hops(turn[j])
               \/ Hops(turn[i]) = Hops(turn[j]) /\ i <= j

Leave(i) == SubSeq(turn, 1, i - 1) \o SubSeq(turn, i + 1, Len(turn))

(* The continuation of a runs now; jobs it enqueues join the turn. *)
Resume(a, points, jobs) ==
  /\ at[a] = "settled" /\ pc[a] \in points
  /\ \E i \in DOMAIN turn : turn[i] = a /\ IsNext(i) /\ turn' = Leave(i) \o jobs
  /\ UNCHANGED <<settled, dbVars, crashes, stops, faults>>

(* The await of a on something other than the Store completes. *)
Complete(a, p, jobs) ==
  /\ at[a] = "js" /\ pc[a] = p
  /\ turn' = turn \o jobs
  /\ UNCHANGED <<settled, dbVars, crashes, stops, faults>>

(* The job pump takes every promise settled so far. *)
StartTurn == /\ turn = <<>> /\ settled # <<>>
             /\ turn' = settled /\ settled' = <<>>
             /\ UNCHANGED <<dbVars, lane, at, pc, locals, child, wakePending, history>>

-----------------------------------------------------------------------------
(* Store operations, executed at the head of the lane.                     *)

Serve(a, points, outcome) ==
  /\ turn = <<>>           \* commutes with the continuations of a turn
  /\ lane # <<>> /\ Head(lane) = a
  /\ at[a] = "lane" /\ pc[a] \in points
  /\ lane' = Tail(lane)
  /\ settled' = Append(settled, a)
  /\ at' = [at EXCEPT ![a] = outcome]
  /\ UNCHANGED <<turn, pc, child, wakePending, starts, reply, crashes, stops>>

Execute(a, points) == Serve(a, points, "settled") /\ UNCHANGED faults

(* TaskStore.getTask *)
GetTask(a) ==
  /\ Execute(a, ReadPoints)
  /\ seen' = [seen EXCEPT ![a] = status[arg[a]]]
  /\ UNCHANGED <<dbVars, arg, flag, goal, seq, fresh, claimed, outs, todo>>

IsCancelRequested ==
  /\ Execute(Worker, FlagReads)
  /\ flag' = [flag EXCEPT ![Worker] = cancelFlag[arg[Worker]]]
  /\ UNCHANGED <<dbVars, arg, seen, goal, seq, fresh, claimed, outs, todo>>

HasRunning ==
  /\ Execute(Worker, {"hasRunning"})
  /\ flag' = [flag EXCEPT ![Worker] = \E t \in Tasks : status[t] = "running"]
  /\ UNCHANGED <<dbVars, arg, seen, goal, seq, fresh, claimed, outs, todo>>

Claimable(i) == status[created[i]] = "queued" /\ ~cancelFlag[created[i]]

(* Variant: WHERE id IN (SELECT ...), without LIMIT 1. *)
ClaimEveryQueued ==
  /\ Execute(Worker, {"claim"})
  /\ \/ /\ ~ \E i \in DOMAIN created : Claimable(i)
        /\ claimed' = None
        /\ UNCHANGED status
     \/ \E i \in DOMAIN created :
          /\ Claimable(i)
          /\ claimed' = created[i]
          /\ status' = [t \in Tasks |-> IF \E j \in DOMAIN created : created[j] = t /\ Claimable(j)
                                        THEN "running" ELSE status[t]]
  /\ UNCHANGED <<cancelFlag, created, keyed, logs, arg, seen, flag, goal, seq, fresh, outs, todo>>

(* UPDATE ... WHERE id = (oldest claimable) ... RETURNING, one statement. *)
ClaimNextQueued ==
  /\ Execute(Worker, {"claim"})
  /\ \/ /\ ~ \E i \in DOMAIN created : Claimable(i)
        /\ claimed' = None
        /\ UNCHANGED status
     \/ \E i \in DOMAIN created :
          /\ Claimable(i)
          /\ \A j \in DOMAIN created : Claimable(j) => i <= j
          /\ claimed' = created[i]
          /\ status' = [status EXCEPT ![created[i]] = "running"]
  /\ UNCHANGED <<cancelFlag, created, keyed, logs, arg, seen, flag, goal, seq, fresh, outs, todo>>

(* Variant: AND status = 'queued'. *)
SetFlagIfQueued(a) ==
  /\ Execute(a, {"reqFlag", "selfFlag"})
  /\ cancelFlag' = [cancelFlag EXCEPT ![arg[a]] = @ \/ status[arg[a]] = "queued"]
  /\ UNCHANGED <<status, created, keyed, logs, locals>>

(* requestCancel: UPDATE tasks SET cancel_requested = 1 WHERE id = ? *)
SetCancelFlag(a) ==
  /\ Execute(a, {"reqFlag", "selfFlag"})
  /\ cancelFlag' = [cancelFlag EXCEPT ![arg[a]] = TRUE]
  /\ UNCHANGED <<status, created, keyed, logs, locals>>

(* updateTask: UPDATE tasks SET status = ? WHERE id = ?, whatever it is now. *)
WriteStatus(a) ==
  /\ Execute(a, {"updPut"})
  /\ status' = [status EXCEPT ![arg[a]] = goal[a]]
  /\ UNCHANGED <<cancelFlag, created, keyed, logs, locals>>

(* appendLog, first statement: SELECT MAX(sequence). *)
LogSequence(a) ==
  /\ Execute(a, SelPoints)
  /\ seq' = [seq EXCEPT ![a] = logs[arg[a]] + 1]
  /\ UNCHANGED <<dbVars, arg, seen, flag, goal, fresh, claimed, outs, todo>>

(* appendLog, second statement: (task_id, sequence) is the primary key. *)
LogInsert(a) ==
  LET clash == seq[a] <= logs[arg[a]] IN
    /\ Serve(a, InsPoints, IF clash THEN "rejected" ELSE "settled")
    /\ logs' = [logs EXCEPT ![arg[a]] = IF clash THEN @ ELSE seq[a]]
    /\ UNCHANGED <<status, cancelFlag, created, keyed, locals, faults>>

FindByIdempotencyKey(h) ==
  /\ Execute(h, {"keyFind"})
  /\ LET prior == keyed[KeyOf[arg[h]]] IN
       /\ flag' = [flag EXCEPT ![h] = prior # None]
       /\ arg' = [arg EXCEPT ![h] = IF prior = None THEN @ ELSE prior]
  /\ UNCHANGED <<dbVars, seen, goal, seq, fresh, claimed, outs, todo>>

(* createTask, one transaction.  A retry drops the idempotency key. *)
CreateTask(h) ==
  /\ Execute(h, {"insert", "retryInsert"})
  /\ LET t   == arg[h]
         key == IF pc[h] = "insert" THEN KeyOf[t] ELSE None
         new == status[t] = "none" /\ (key # None => keyed[key] = None)
     IN /\ flag' = [flag EXCEPT ![h] = new]
        /\ IF new THEN /\ status' = [status EXCEPT ![t] = "queued"]
                       /\ created' = Append(created, t)
                       /\ keyed' = [k \in Keys |-> IF k = key THEN t ELSE keyed[k]]
                  ELSE UNCHANGED <<status, created, keyed>>
  /\ UNCHANGED <<cancelFlag, logs, arg, seen, goal, seq, fresh, claimed, outs, todo>>

(* recoverInterruptedOnBoot *)
ListInterrupted ==
  /\ Execute(Main, {"bootList"})
  /\ todo' = {t \in Tasks : status[t] = "running"}
  /\ UNCHANGED <<dbVars, arg, seen, flag, goal, seq, fresh, claimed, outs>>

(* recoverInterruptedOnBoot, one row: UPDATE ... WHERE status = 'running'. *)
MarkAs(s) ==
  /\ Execute(Main, {"bootMark"})
  /\ LET t == arg[Main] IN
       IF status[t] = "running"
       THEN /\ status' = [status EXCEPT ![t] = s]
            /\ cancelFlag' = [cancelFlag EXCEPT ![t] = FALSE]
       ELSE UNCHANGED <<status, cancelFlag>>
  /\ UNCHANGED <<created, keyed, logs, locals>>
Requeue   == MarkAs("queued")           \* variant: an interrupted task runs again
MarkInterrupted == MarkAs("failed")

(* A statement fails (disk, constraint): nothing is written. *)
StoreFault(a) ==
  /\ faults < MaxFaults /\ faults' = faults + 1
  /\ Serve(a, StorePoints \ {"dbClose"}, "rejected")
  /\ UNCHANGED <<dbVars, locals>>

StoreStep ==
  \/ \E a \in Actors : GetTask(a) \/ SetCancelFlag(a) \/ WriteStatus(a)
                       \/ LogSequence(a) \/ LogInsert(a)
  \/ \E h \in Handlers : FindByIdempotencyKey(h) \/ CreateTask(h)
  \/ IsCancelRequested \/ HasRunning \/ ClaimNextQueued
  \/ ListInterrupted \/ MarkInterrupted

-----------------------------------------------------------------------------
(* The worker loop: runWorkerLoop, pumpOnce and ShellExecutor.execute.      *)

WorkerResumes(points) == Resume(Worker, points, <<>>)
WorkerAwaited(p)      == Complete(Worker, p, <<>>)
NoWake     == UNCHANGED wakePending
NoProcess  == UNCHANGED <<child, starts>>
KeepLocals == UNCHANGED locals

(* Head of the loop: pumpOnce passes its gate and asks for running rows. *)
Pump == IF appStopping THEN Await(Worker, "exited") ELSE Issue(Worker, "hasRunning")

(* pumpOnce returned false: wait for work, or consume the pending pulse. *)
PumpIdle ==
  IF appStopping THEN Await(Worker, "exited") /\ NoWake
  ELSE IF wakePending THEN Issue(Worker, "hasRunning") /\ wakePending' = FALSE
  ELSE Await(Worker, "waiting") /\ NoWake

WakeUp ==
  /\ WorkerResumes({"waiting"})
  /\ Pump
  /\ KeepLocals /\ NoWake /\ NoProcess /\ UNCHANGED reply

CheckedRunning ==
  /\ WorkerResumes({"hasRunning"})
  /\ IF flag[Worker] \/ queueStopping THEN PumpIdle
     ELSE Issue(Worker, "claim") /\ NoWake
  /\ KeepLocals /\ NoProcess /\ UNCHANGED reply

Claimed ==
  /\ WorkerResumes({"claim"})
  /\ IF claimed = None THEN PumpIdle /\ UNCHANGED arg
     ELSE /\ Issue(Worker, IF queueStopping THEN "selfGet" ELSE "isCancel1")
          /\ arg' = [arg EXCEPT ![Worker] = claimed]
          /\ NoWake
  /\ claimed' = None
  /\ UNCHANGED <<seen, flag, goal, seq, fresh, outs, todo, reply>> /\ NoProcess

(* pumpOnce cancels the task it has just claimed when stop() came first. *)
CancelOwnClaim ==
  /\ WorkerResumes({"selfGet", "selfFlag"})
  /\ Issue(Worker, IF pc[Worker] = "selfGet" /\ seen[Worker] \notin Terminal \cup {"none"}
                   THEN "selfFlag" ELSE "isCancel1")
  /\ KeepLocals /\ NoWake /\ NoProcess /\ UNCHANGED reply

(* The worker writes a verdict: updateTask reads the row, then writes it. *)
Verdict(s) == Issue(Worker, "updGet") /\ goal' = [goal EXCEPT ![Worker] = s]

(* Variant: no isCancelRequested before the start. *)
NotCheckedBeforeStart ==
  /\ WorkerResumes({"isCancel1"})
  /\ IF arg[Worker] \in AgentTasks THEN Verdict("failed")
     ELSE Await(Worker, "resolve") /\ UNCHANGED goal
  /\ UNCHANGED <<arg, seen, flag, seq, fresh, claimed, outs, todo, reply>> /\ NoWake /\ NoProcess

CheckedBeforeStart ==
  /\ WorkerResumes({"isCancel1"})
  /\ IF flag[Worker] THEN Verdict("cancelled")
     ELSE IF arg[Worker] \in AgentTasks THEN Verdict("failed")
     ELSE Await(Worker, "resolve") /\ UNCHANGED goal
  /\ UNCHANGED <<arg, seen, flag, seq, fresh, claimed, outs, todo, reply>> /\ NoWake /\ NoProcess

(* resolveExecutable *)
Resolved ==
  /\ WorkerAwaited("resolve")
  /\ \E p \in {"execSel", "errSel"} : Issue(Worker, p)
  /\ KeepLocals /\ NoWake /\ NoProcess /\ UNCHANGED reply

ExecLogged ==
  /\ WorkerResumes({"execIns"})
  /\ Await(Worker, "spawn")
  /\ KeepLocals /\ NoWake /\ NoProcess /\ UNCHANGED reply

(* new Process and start(); the executor then registers it as active.  One *)
(* that did not start is closed at once, which waits for nothing.          *)
Spawned ==
  /\ WorkerAwaited("spawn")
  /\ \/ /\ child' = "running"
        /\ starts' = [starts EXCEPT ![arg[Worker]] = @ + 1]
        /\ Issue(Worker, "isCancel2")
     \/ Issue(Worker, "errSel") /\ NoProcess
  /\ KeepLocals /\ NoWake /\ UNCHANGED reply

(* Process.terminate signals the group, but no more once the child, its    *)
(* leader, has exited.                                                     *)
Killed(c) == IF c = "running" THEN "killed" ELSE c

CheckedAfterStart ==
  /\ WorkerResumes({"isCancel2"})
  /\ IF flag[Worker] THEN Await(Worker, "waitKilled") /\ child' = Killed(child)
     ELSE Await(Worker, "wait") /\ UNCHANGED child
  /\ KeepLocals /\ NoWake /\ UNCHANGED <<starts, reply>>

(* The child exits by itself, on its timeout, or because it was killed.    *)
(* wait() then also awaits the end of its output, which a descendant may    *)
(* hold: one that the child left behind, or one that had left the group.   *)
Held == {"held", "heldKilled"}
ChildExits ==
  /\ \/ child = "running" /\ child' \in {"exited", "held"}
     \/ child = "killed"  /\ child' \in {"dead", "heldKilled"}
  /\ UNCHANGED <<dbVars, rtVars, pc, locals, wakePending, history>>

(* That descendant ends: the program does not make it, since the child's    *)
(* exit cancelled the timeout.                                             *)
DescendantEnds ==
  /\ \/ child = "held" /\ child' = "exited"
     \/ child = "heldKilled" /\ child' = "dead"
  /\ UNCHANGED <<dbVars, rtVars, pc, locals, wakePending, history>>

(* Captured streams are logged before the verdict, at most stdout and stderr. *)
LogThenVerdict(s) ==
  /\ goal' = [goal EXCEPT ![Worker] = s]
  /\ \E n \in 0..2 : outs' = n /\ Issue(Worker, IF n = 0 THEN "updGet" ELSE "outSel")

Waited ==
  /\ child \in {"exited", "dead"}
  /\ \/ /\ WorkerAwaited("wait")
        /\ \E p \in {"isCancel3", "errSel"} : Issue(Worker, p)
        /\ UNCHANGED <<goal, outs>>
     \/ WorkerAwaited("waitKilled") /\ LogThenVerdict("cancelled")
  /\ UNCHANGED <<arg, seen, flag, seq, fresh, claimed, todo, reply>> /\ NoWake /\ NoProcess

(* Cancel may have raced with wait; otherwise the exit decides. *)
CheckedAfterExit ==
  /\ WorkerResumes({"isCancel3"})
  /\ IF flag[Worker] THEN LogThenVerdict("cancelled")
     ELSE \E s \in IF child = "dead" THEN {"failed"} ELSE {"succeeded", "failed", "timed_out"} :
            LogThenVerdict(s)
  /\ UNCHANGED <<arg, seen, flag, seq, fresh, claimed, todo, reply>> /\ NoWake /\ NoProcess

OutLogged ==
  /\ WorkerResumes({"outIns"})
  /\ outs' = outs - 1
  /\ Issue(Worker, IF outs = 1 THEN "updGet" ELSE "outSel")
  /\ UNCHANGED <<arg, seen, flag, goal, seq, fresh, claimed, todo, reply>> /\ NoWake /\ NoProcess

(* recordExecFailure: log, then fail the task unless it is terminal. *)
ErrorLogged ==
  /\ WorkerResumes({"errIns"})
  /\ Issue(Worker, "errGet")
  /\ KeepLocals /\ NoWake /\ NoProcess /\ UNCHANGED reply

(* execute returns: `finally' drops the Process and closes it. *)
Finish == IF child = "none" THEN Issue(Worker, "doneGet") /\ UNCHANGED child
          ELSE Await(Worker, "close") /\ child' = "none"

ErrorRead ==
  /\ WorkerResumes({"errGet"})
  /\ IF seen[Worker] \in Terminal \cup {"none"} THEN Finish /\ UNCHANGED goal
     ELSE Verdict("failed") /\ UNCHANGED child
  /\ UNCHANGED <<arg, seen, flag, seq, fresh, claimed, outs, todo, starts, reply>> /\ NoWake

WorkerUpdated ==
  /\ WorkerResumes({"updPut"})
  /\ IF arg[Worker] \in AgentTasks /\ goal[Worker] = "failed"
     THEN Issue(Worker, "agentSel") /\ UNCHANGED child
     ELSE Finish
  /\ KeepLocals /\ NoWake /\ UNCHANGED <<starts, reply>>

AgentLogged ==
  /\ WorkerResumes({"agentIns"})
  /\ Finish
  /\ KeepLocals /\ NoWake /\ UNCHANGED <<starts, reply>>

ProcessClosed ==
  /\ WorkerAwaited("close")
  /\ Issue(Worker, "doneGet")
  /\ KeepLocals /\ NoWake /\ NoProcess /\ UNCHANGED reply

(* pumpOnce is over: activeTaskId is cleared and the loop turns. *)
PumpDone ==
  /\ WorkerResumes({"doneGet"})
  /\ Pump
  /\ arg' = [arg EXCEPT ![Worker] = None]
  /\ UNCHANGED <<seen, flag, goal, seq, fresh, claimed, outs, todo, reply>> /\ NoWake /\ NoProcess

(* The loop is rejected, which starts the product close. *)
LoopRejects ==
  /\ pc' = [pc EXCEPT ![Worker] = "failed",
                      ![Main] = IF @ = "up" THEN "closing" ELSE @]
  /\ arg' = [arg EXCEPT ![Worker] = None]

(* A Store failure rejects execute, whose `finally' first drops the        *)
(* Process, if there is one, and closes it: its group is killed.           *)
WorkerFails ==
  /\ at[Worker] = "rejected"
  /\ \E i \in DOMAIN turn : turn[i] = Worker /\ IsNext(i) /\ turn' = Leave(i)
  /\ IF child = "none" THEN LoopRejects
     ELSE pc' = [pc EXCEPT ![Worker] = "failClose"] /\ UNCHANGED arg
  /\ at' = [at EXCEPT ![Worker] = "js"]
  /\ child' = "none"
  /\ UNCHANGED <<dbVars, lane, settled, seen, flag, goal, seq, fresh, claimed, outs, todo,
                 wakePending, history>>

(* close() returns, unless an escaped descendant holds the output.         *)
FailureClosed ==
  /\ Complete(Worker, "failClose", <<>>)
  /\ LoopRejects
  /\ UNCHANGED <<lane, at, seen, flag, goal, seq, fresh, claimed, outs, todo, reply>>
  /\ NoWake /\ NoProcess

WorkerStep ==
  \/ WakeUp \/ CheckedRunning \/ Claimed \/ CancelOwnClaim \/ CheckedBeforeStart
  \/ ExecLogged \/ CheckedAfterStart \/ CheckedAfterExit \/ OutLogged \/ ErrorLogged
  \/ ErrorRead \/ WorkerUpdated \/ AgentLogged \/ PumpDone \/ WorkerFails
WorkerAwait == Resolved \/ Spawned \/ Waited \/ ProcessClosed

-----------------------------------------------------------------------------
(* Steps shared by every actor that logs, updates or cancels.               *)

(* Between the two statements of appendLog, and of updateTask. *)
NextStatement(a) ==
  /\ Resume(a, SelPoints \cup {"updGet"}, <<>>)
  /\ Issue(a, IF pc[a] = "updGet" THEN "updPut" ELSE InsOf[pc[a]])
  /\ KeepLocals /\ NoWake /\ NoProcess /\ UNCHANGED reply

(* cancelRunning: SIGKILL the Process registered for the task, if any. *)
AfterCancel(a) == IF a = Main THEN Await(a, "join") ELSE Issue(a, "after")
CancelRunning(a) ==
  IF child # "none" /\ arg[Worker] = arg[a]
  THEN Await(a, "term") /\ child' = Killed(child)
  ELSE AfterCancel(a) /\ UNCHANGED child

Answer(h, r) == Await(h, "done") /\ reply' = [reply EXCEPT ![h] = r]

(* requestCancel, from its getTask: a terminal task is left alone (stop()   *)
(* ignores that answer and still calls cancelRunning).                      *)
CancelRead(a) ==
  /\ Resume(a, {"reqGet"}, <<>>)
  /\ IF seen[a] \notin Terminal \cup {"none"}
     THEN Issue(a, "reqFlag") /\ UNCHANGED <<child, reply>>
     ELSE IF a = Main THEN CancelRunning(a) /\ UNCHANGED reply
     ELSE Answer(a, "terminal") /\ UNCHANGED child
  /\ KeepLocals /\ NoWake /\ UNCHANGED starts

(* Variant: leave the queued row to the worker. *)
CancelFlaggedOnly(a) ==
  /\ Resume(a, {"reqFlag"}, <<>>)
  /\ CancelRunning(a)
  /\ KeepLocals /\ NoWake /\ UNCHANGED <<starts, reply>>

(* The status read before the flag was set decides whether to write one. *)
CancelFlagged(a) ==
  /\ Resume(a, {"reqFlag"}, <<>>)
  /\ IF seen[a] = "queued"
     THEN /\ Issue(a, "updGet")
          /\ goal' = [goal EXCEPT ![a] = "cancelled"]
          /\ UNCHANGED child
     ELSE CancelRunning(a) /\ UNCHANGED goal
  /\ UNCHANGED <<arg, seen, flag, seq, fresh, claimed, outs, todo, starts, reply>> /\ NoWake

CancelUpdated(a) ==
  /\ Resume(a, {"updPut"}, <<>>)
  /\ CancelRunning(a)
  /\ KeepLocals /\ NoWake /\ UNCHANGED <<starts, reply>>

Terminated(a) ==
  /\ Complete(a, "term", <<>>)
  /\ AfterCancel(a)
  /\ KeepLocals /\ NoWake /\ NoProcess /\ UNCHANGED reply

CancelStep(a) == CancelRead(a) \/ CancelFlagged(a) \/ CancelUpdated(a)

-----------------------------------------------------------------------------
(* HTTP handlers: POST /tasks, POST /tasks/:id/cancel, POST /tasks/:id/retry *)

(* A request for task t arrives while the agent is ready. *)
Receive(h, t, p) ==
  /\ pc[Main] = "up"
  /\ Complete(h, "idle", <<>>)
  /\ Issue(h, p)
  /\ arg' = [arg EXCEPT ![h] = t]
  /\ UNCHANGED <<seen, flag, goal, seq, claimed, outs, todo, reply>> /\ NoWake /\ NoProcess
Request(h, t, p) == Receive(h, t, p) /\ UNCHANGED fresh

PostTask(h, t)   == t \notin RetryIds
                    /\ Request(h, t, IF KeyOf[t] = None THEN "insert" ELSE "keyFind")
PostCancel(h, t) == Request(h, t, "before")

(* retry() draws the id of the clone before it reads the task. *)
Unused(n) == status[n] = "none" /\ \A h \in Handlers : arg[h] # n /\ fresh[h] # n
PostRetry(h, t) ==
  /\ Receive(h, t, "retryGet")
  /\ \E n \in RetryIds :
       Unused(n) /\ (n \in AgentTasks <=> t \in AgentTasks) /\ fresh' = [fresh EXCEPT ![h] = n]

(* The key is mapped: answer with the task it names. *)
FoundKey(h) ==
  /\ Resume(h, {"keyFind"}, <<>>)
  /\ Issue(h, IF flag[h] THEN "keyGet" ELSE "insert")
  /\ KeepLocals /\ NoWake /\ NoProcess /\ UNCHANGED reply

(* Variant: no notifyWorker. *)
EnqueuedSilently(h) ==
  /\ Resume(h, {"insert"}, <<>>)
  /\ Issue(h, "insertGet")
  /\ KeepLocals /\ NoWake /\ NoProcess /\ UNCHANGED reply

(* enqueue, then getTask(task_id) for the answer. *)
Enqueued(h) ==
  /\ Resume(h, {"insert"}, IF flag[h] THEN WakeJobs ELSE <<>>)
  /\ IF flag[h] THEN Pulse /\ IssueFrom(AtWoken, h, "insertGet")
     ELSE NoWake /\ Issue(h, "insertGet")
  /\ KeepLocals /\ NoProcess /\ UNCHANGED reply

TaskAnswered(h) ==
  /\ Resume(h, {"keyGet", "insertGet"}, <<>>)
  /\ Answer(h, IF pc[h] = "insertGet" /\ flag[h] THEN "accepted" ELSE "deduped")
  /\ KeepLocals /\ NoWake /\ NoProcess

CancelBefore(h) ==
  /\ Resume(h, {"before"}, <<>>)
  /\ IF seen[h] = "none" THEN Answer(h, "not_found") ELSE Issue(h, "reqGet") /\ UNCHANGED reply
  /\ KeepLocals /\ NoWake /\ NoProcess

CancelAnswered(h) ==
  /\ Resume(h, {"after"}, <<>>)
  /\ Answer(h, IF seen[h] = "cancelled" THEN "cancelled" ELSE "cancelling")
  /\ KeepLocals /\ NoWake /\ NoProcess

(* enqueueRetryOf: a terminal task is cloned. *)
RetryRead(h) ==
  /\ Resume(h, {"retryGet"}, <<>>)
  /\ IF seen[h] \in Terminal
     THEN Issue(h, "retryInsert") /\ arg' = [arg EXCEPT ![h] = fresh[h]] /\ UNCHANGED reply
     ELSE Answer(h, IF seen[h] = "none" THEN "not_found" ELSE "error") /\ UNCHANGED arg
  /\ UNCHANGED <<seen, flag, goal, seq, fresh, claimed, outs, todo>> /\ NoWake /\ NoProcess

RetryInserted(h) ==
  /\ Resume(h, {"retryInsert", "retryIns"}, <<>>)
  /\ Issue(h, IF pc[h] = "retryInsert" THEN "retrySel" ELSE "retryRead")
  /\ KeepLocals /\ NoWake /\ NoProcess /\ UNCHANGED reply

RetryAnswered(h) ==
  /\ Resume(h, {"retryRead"}, WakeJobs)
  /\ Pulse
  /\ AwaitFrom(AtWoken, h, "done")
  /\ reply' = [reply EXCEPT ![h] = "accepted"]
  /\ KeepLocals /\ NoProcess

(* The handler's promise rejects; a retry that was inserted stays queued and *)
(* nobody is notified.                                                       *)
HandlerFails(h) ==
  /\ at[h] = "rejected"
  /\ \E i \in DOMAIN turn : turn[i] = h /\ IsNext(i) /\ turn' = Leave(i)
  /\ Answer(h, "error")
  /\ UNCHANGED <<dbVars, settled, locals, child, wakePending, starts, crashes, stops, faults>>

HandlerStep(h) ==
  \/ FoundKey(h) \/ Enqueued(h) \/ TaskAnswered(h) \/ CancelBefore(h) \/ CancelAnswered(h)
  \/ RetryRead(h) \/ RetryInserted(h) \/ RetryAnswered(h) \/ HandlerFails(h)

-----------------------------------------------------------------------------
(* Application: boot, control loop tick, product close, crash.              *)

(* Everything in memory is lost; the rows are not. *)
Halt ==
  /\ lane' = <<>> /\ settled' = <<>> /\ turn' = <<>>
  /\ at' = [a \in Actors |-> "js"]
  /\ pc' = [a \in Actors |-> CASE a = Main -> "down"
                               [] a = Worker -> "off"
                               [] OTHER -> IF pc[a] = "idle" THEN "idle" ELSE "done"]
  /\ reply' = [h \in Handlers |-> IF pc[h] \in {"idle", "done"} THEN reply[h] ELSE "lost"]
  /\ arg' = [a \in Actors |-> IF a \in Handlers THEN arg[a] ELSE None]
  /\ seen' = [a \in Actors |-> "none"] /\ goal' = [a \in Actors |-> "failed"]
  /\ flag' = [a \in Actors |-> FALSE]  /\ seq' = [a \in Actors |-> 0]
  /\ claimed' = None /\ outs' = 0 /\ todo' = {}
  /\ child' = "none" /\ wakePending' = FALSE
  /\ UNCHANGED <<dbVars, fresh, starts>>

Crash == /\ pc[Main] # "down" /\ crashes < MaxCrashes
         /\ crashes' = crashes + 1
         /\ Halt
         /\ UNCHANGED <<stops, faults>>

(* The agent is started: by the operator, or by systemd after a failure.    *)
(* initialize() recovers before it listens.                                 *)
Restart ==
  /\ Complete(Main, "down", <<>>)
  /\ Issue(Main, "bootList")
  /\ KeepLocals /\ NoWake /\ NoProcess /\ UNCHANGED reply

(* Mark and log the interrupted rows one by one, then start the loops. *)
RecoverNext(rest) ==
  /\ todo' = rest
  /\ IF rest = {}
     THEN /\ pc' = [pc EXCEPT ![Main] = "up", ![Worker] = "hasRunning"]
          /\ at' = [at EXCEPT ![Main] = "js", ![Worker] = "lane"]
          /\ lane' = Append(lane, Worker)
          /\ arg' = [arg EXCEPT ![Main] = None]
     ELSE \E t \in rest : Issue(Main, "bootMark") /\ arg' = [arg EXCEPT ![Main] = t]

Recover ==
  /\ Resume(Main, {"bootList", "bootMark", "bootIns"}, <<>>)
  /\ IF pc[Main] = "bootMark"
     THEN Issue(Main, "bootSel") /\ UNCHANGED <<todo, arg>>
     ELSE RecoverNext(IF pc[Main] = "bootList" THEN todo ELSE todo \ {arg[Main]})
  /\ UNCHANGED <<seen, flag, goal, seq, fresh, claimed, outs, reply>> /\ NoWake /\ NoProcess

(* The control loop's coarse reconciliation wake, every 5 s. *)
Tick ==
  /\ pc[Main] = "up" /\ ~(wakePending /\ ~Waiting)
  /\ turn' = turn \o WakeJobs /\ at' = AtWoken /\ Pulse
  /\ UNCHANGED <<dbVars, lane, settled, pc, locals, child, history>>

(* shutdown(): stop claiming to be ready, close the server (handlers in     *)
(* flight are not awaited), the commands and the terminals.                 *)
StopRequested ==
  /\ pc[Main] = "up" /\ stops < MaxStops
  /\ stops' = stops + 1
  /\ Await(Main, "closing")
  /\ UNCHANGED <<dbVars, settled, turn, locals, child, wakePending, starts, reply, crashes, faults>>

(* Variant: stop() does not notify the worker. *)
StopQueueSilently ==
  /\ Complete(Main, "closing", <<>>)
  /\ IF arg[Worker] = None THEN Await(Main, "join") /\ UNCHANGED arg
     ELSE Issue(Main, "reqGet") /\ arg' = [arg EXCEPT ![Main] = arg[Worker]]
  /\ UNCHANGED <<seen, flag, goal, seq, fresh, claimed, outs, todo, reply>> /\ NoWake /\ NoProcess

(* TaskQueue.stop(): refuse new claims, wake the worker, cancel its task. *)
StopQueue ==
  /\ Complete(Main, "closing", WakeJobs)
  /\ Pulse
  /\ IF arg[Worker] = None THEN AwaitFrom(AtWoken, Main, "join") /\ UNCHANGED arg
     ELSE /\ IssueFrom(AtWoken, Main, "reqGet")
          /\ arg' = [arg EXCEPT ![Main] = arg[Worker]]
  /\ UNCHANGED <<seen, flag, goal, seq, fresh, claimed, outs, todo, reply>> /\ NoProcess

(* Variant: the Store is closed without joining the worker. *)
CloseWithoutJoin ==
  /\ Complete(Main, "join", <<>>)
  /\ Issue(Main, "dbClose")
  /\ KeepLocals /\ NoWake /\ NoProcess /\ UNCHANGED reply

(* joinBackgroundLoops, then Store.close(). *)
JoinWorker ==
  /\ pc[Worker] \in {"exited", "failed"}
  /\ Complete(Main, "join", <<>>)
  /\ Issue(Main, "dbClose")
  /\ KeepLocals /\ NoWake /\ NoProcess /\ UNCHANGED reply

CloseStore ==
  /\ turn = <<>> /\ lane # <<>> /\ Head(lane) = Main
  /\ at[Main] = "lane" /\ pc[Main] = "dbClose"
  /\ Halt
  /\ UNCHANGED <<crashes, stops, faults>>

(* A Store failure in initialize() ends the process; one in stop() is only *)
(* logged, and the close goes on.                                          *)
MainFails ==
  /\ at[Main] = "rejected"
  /\ \E i \in DOMAIN turn : turn[i] = Main /\ IsNext(i) /\ turn' = Leave(i)
  /\ Await(Main, IF pc[Main] \in Booting THEN "down" ELSE "join")
  /\ todo' = {}
  /\ UNCHANGED <<dbVars, settled, arg, seen, flag, goal, seq, fresh, claimed, outs, child, wakePending,
                 history>>

MainStep  == Recover \/ MainFails
MainAwait == StopQueue \/ JoinWorker

-----------------------------------------------------------------------------
Init ==
  /\ status = [t \in Tasks |-> "none"] /\ cancelFlag = [t \in Tasks |-> FALSE]
  /\ created = <<>> /\ keyed = [k \in Keys |-> None] /\ logs = [t \in Tasks |-> 0]
  /\ lane = <<>> /\ settled = <<>> /\ turn = <<>> /\ at = [a \in Actors |-> "js"]
  /\ pc = [a \in Actors |-> CASE a = Main -> "down" [] a = Worker -> "off" [] OTHER -> "idle"]
  /\ arg = [a \in Actors |-> None] /\ seen = [a \in Actors |-> "none"]
  /\ flag = [a \in Actors |-> FALSE] /\ goal = [a \in Actors |-> "failed"]
  /\ seq = [a \in Actors |-> 0] /\ fresh = [h \in Handlers |-> None] /\ claimed = None /\ outs = 0 /\ todo = {}
  /\ child = "none" /\ wakePending = FALSE
  /\ starts = [t \in Tasks |-> 0] /\ reply = [h \in Handlers |-> "none"]
  /\ crashes = 0 /\ stops = 0 /\ faults = 0

Arrive == \E h \in Handlers, t \in Tasks : PostTask(h, t) \/ PostCancel(h, t) \/ PostRetry(h, t)

(* One step of the runtime: the lane, the job pump, or a continuation. *)
Progress ==
  \/ StoreStep \/ CloseStore \/ StartTurn \/ WorkerStep \/ MainStep
  \/ \E h \in Handlers : HandlerStep(h)
  \/ \E a \in Actors : NextStatement(a)
  \/ \E a \in Handlers \cup {Main} : CancelStep(a)

Next ==
  \/ Progress \/ WorkerAwait \/ ChildExits \/ DescendantEnds \/ FailureClosed \/ MainAwait \/ Restart
  \/ \E a \in Handlers \cup {Main} : Terminated(a)
  \/ Arrive \/ StopRequested \/ Tick \/ Crash
  \/ \E a \in Actors : StoreFault(a)

Spec == Init /\ [][Next]_vars

(* The runtime runs what is ready, native operations complete and a child   *)
(* exits (every Process has a timeout while its leader lives).  Nothing is  *)
(* assumed of descendants, nor of a close that awaits one.  Requests, ticks,*)
(* stops, restarts, crashes and faults may happen or not.                   *)
Fairness ==
  /\ WF_vars(Progress) /\ WF_vars(WorkerAwait) /\ WF_vars(ChildExits)
  /\ WF_vars(MainAwait)
  /\ \A a \in Handlers \cup {Main} : WF_vars(Terminated(a))

FairSpec == Spec /\ Fairness
-----------------------------------------------------------------------------
(* Properties.                                                              *)

Points   == StorePoints \cup JsPoints
Outcomes == {"js", "lane", "settled", "rejected"}
Replies  == {"none", "accepted", "deduped", "not_found", "terminal", "cancelled", "cancelling",
             "error", "lost"}

DbTypeOK ==
  /\ status \in [Tasks -> Status] /\ cancelFlag \in [Tasks -> BOOLEAN]
  /\ created \in Seq(Tasks) /\ keyed \in [Keys -> Tasks \cup {None}]
  /\ logs \in [Tasks -> Nat]
RtTypeOK ==
  /\ lane \in Seq(Actors) /\ settled \in Seq(Actors) /\ turn \in Seq(Actors)
  /\ at \in [Actors -> Outcomes] /\ pc \in [Actors -> Points]
LocalTypeOK ==
  /\ arg \in [Actors -> Tasks \cup {None}] /\ seen \in [Actors -> Status]
  /\ flag \in [Actors -> BOOLEAN] /\ goal \in [Actors -> Terminal]
  /\ seq \in [Actors -> Nat] /\ fresh \in [Handlers -> Tasks \cup {None}]
  /\ claimed \in Tasks \cup {None} /\ outs \in 0..2 /\ todo \in SUBSET Tasks
  /\ child \in {"none", "running", "killed", "exited", "dead"} \cup Held /\ wakePending \in BOOLEAN
HistoryTypeOK ==
  /\ starts \in [Tasks -> Nat] /\ reply \in [Handlers -> Replies]
  /\ crashes \in Nat /\ stops \in Nat /\ faults \in Nat

(* Every variable keeps its type. *)
TypeOK == DbTypeOK /\ RtTypeOK /\ LocalTypeOK /\ HistoryTypeOK

(* pumpOnce is single flight: whatever crashes, restarts and failing        *)
(* statements leave behind, two rows are never `running' together.          *)
SingleFlight == \A t, u \in Tasks : status[t] = "running" /\ status[u] = "running" => t = u

(* recoverInterruptedOnBoot: "tasks left in running must NOT re-execute";   *)
(* no task ever gets a second child process.                                *)
AtMostOnce == \A t \in Tasks : starts[t] <= 1

(* A live, unkilled child belongs to a row that says so: no other actor has *)
(* written a verdict under the worker (requestCancel decides to do it from a*)
(* status it read two awaits ago).                                          *)
ProcessHasRunningRow == child = "running" => status[arg[Worker]] = "running"

(* cancelRunning kills only after the flag is durable: when the executor    *)
(* asks whether the exit was a cancel, a killed child is never mistaken for *)
(* one that failed by itself.                                               *)
KillSeenAsCancel ==
  pc[Worker] = "isCancel3" /\ at[Worker] = "settled" /\ child = "dead" => flag[Worker]

(* appendLog reads MAX(sequence) and inserts in two statements: a retry's   *)
(* handler and the worker may log the same task, and a primary key clash    *)
(* would reject the worker loop and close the agent.                        *)
LogsNeverCollide ==
  \A a \in Actors : at[a] = "lane" /\ pc[a] \in InsPoints => seq[a] > logs[arg[a]]

(* TaskQueue.stop(): once it has returned, the worker is not left waiting   *)
(* for a child that lives and nobody killed, however stop() interleaves     *)
(* with a claim - what it may wait for is the descendant of one that has    *)
(* exited - and the Store is closed only after the worker has written its   *)
(* verdict: no orderly close leaves a running row, only a close that the    *)
(* lifecycle timeout cuts off (Crash) leaves one to recovery.               *)
CleanShutdown ==
  /\ pc[Main] = "join" /\ pc[Worker] \in {"wait", "waitKilled"} /\ faults = 0 => child # "running"
  /\ pc[Main] = "dbClose" /\ faults = 0 => \A t \in Tasks : status[t] # "running"

(* The task rows implement the lifecycle a client relies on: queued once,   *)
(* run once, one verdict, never taken back.                                 *)
Lifecycle == INSTANCE TaskLifecycle
ImplementsLifecycle == Lifecycle!Spec

(* terminate() does nothing once the child has exited, and its timeout is   *)
(* cancelled: a descendant that keeps the output open for good keeps the    *)
(* task running, and with it the queue and the close.  No other behaviour   *)
(* of a child does, and one that ends only delays them.                     *)
HeldForGood == <>[](child \in Held)

(* A cancel that was recorded is not forgotten: the task reaches a verdict, *)
(* unless a stop cuts requestCancel in two: the row is then queued for good.*)
CancelTakesEffect ==
  HeldForGood \/ \A t \in Tasks : cancelFlag[t] ~> status[t] \in Terminal \/ stops > 0

(* What is queued leaves the queue, with no help from the periodic tick,    *)
(* while the agent is not stopped: the wake protocol of notifyWorker and    *)
(* waitForWork loses no pulse, also for what was queued behind a task.      *)
QueueDrains ==
  HeldForGood \/ \A t \in Tasks : status[t] = "queued" ~> status[t] # "queued" \/ cancelFlag[t] \/ pc[Main] = "down"

(* A product close that has begun ends: the wake-up in stop() reaches the   *)
(* worker, its child is killed or times out, the loops are joined.          *)
ShutdownCompletes == HeldForGood \/ (pc[Main] = "closing" ~> pc[Main] = "down")

(* createTask: "If idempotency_key is set and already mapped, returns false *)
(* (caller should load existing)": POST /tasks answers with a stored task.  *)
ReplyNamesStoredTask ==
  \A h \in Handlers : reply[h] \in {"accepted", "deduped"} => status[arg[h]] # "none"
=============================================================================
