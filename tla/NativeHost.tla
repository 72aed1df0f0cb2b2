----------------------------- MODULE NativeHost -----------------------------
(***************************************************************************)
(* The native host: Application and EntryModule (src/host), the kernel     *)
(* Runtime::Impl, its job pump and its promises, and the wait of C++ for a *)
(* JavaScript promise (src/runtime).                                       *)
(*                                                                         *)
(* One owner thread runs the handlers posted to main_io, in their order.   *)
(* Between two of them signals arrive, other threads ask for a stop,       *)
(* timers expire and the worker pool works.  A turn of the job pump runs   *)
(* one job where the code runs up to kJobsPerTurn; a job that fails is     *)
(* consumed and reported, as one that has no effect.                       *)
(***************************************************************************)
EXTENDS Integers, Sequences, FiniteSets, SequencesExt

CONSTANTS
  Stoppers,   \* threads that call Application::request_stop once
  MaxSignals, \* bound: SIGINT and SIGTERM while the host waits for them
  HostUses    \* what the script does: see HostUse

(* What C++ calls and awaits: the module's evaluation and the two exports, *)
(* and a callback of the script, which has no deadline.                    *)
Entry == {"evaluation", "initialize", "shutdown"}
Callees == Entry \cup {"callback"}
(* Native operations the script starts in initialize: a timer, which ends  *)
(* when the runtime stops, and work on the pool, which does not.           *)
Ops == {"sleep", "job"}
(* How a call ends: it throws or is no function, throws when it has        *)
(* enqueued jobs (strands), returns a value, or a promise that a job       *)
(* fulfils or rejects, that is fulfilled once the operations have settled, *)
(* that the callback fulfils (called), or that never is.                   *)
Ends == {"throws", "strands", "value", "soon", "rejects", "ops", "called", "never"}
HostUse == [ends : [Callees -> Ends], ops : SUBSET Ops, opens : BOOLEAN]

(* A module that is evaluated is a promise, or does not link and has run    *)
(* nothing (JS_EvalFunction).                                              *)
ASSUME HostConstantsOK ==
  HostUses \subseteq HostUse /\ \A u \in HostUses : u.ends["evaluation"] \notin {"value", "strands"}

VARIABLES
  phase,    \* Runtime::Phase
  pc,       \* Application::run: new, ready, armed, checked, loop, returned
  wanted,   \* Application::stop_requested_
  kernel,   \* Runtime::Impl::stop_requested_ until the loop runs
  stopper,
  app,      \* entry_ready_, stop_seen_, lifecycle_failed_
  wait,     \* the signal wait: none, armed, fired with its handler queued
  signals,  \* those that came, those that no handler has seen
  queue, jobs,
  pump,     \* job_pump_scheduled_
  await,    \* none, AwaitState::status, and ok or failed once it was taken
  timer,    \* AwaitState::timer: off, armed, or its handler is queued
  op,       \* none, waiting, working, done, settled
  exit,
  hostUse

threads == <<wanted, stopper, signals>>
loop == <<queue, jobs, pump>>
awaiting == <<await, timer>>
hostVars == <<phase, pc, kernel, threads, app, wait, loop, awaiting, op, exit, hostUse>>

HostInit ==
  /\ hostUse \in HostUses
  /\ phase = "created" /\ pc = "new" /\ wanted = FALSE /\ kernel = FALSE
  /\ stopper = [s \in Stoppers |-> "idle"]
  /\ app = [ready |-> FALSE, seen |-> FALSE, failed |-> FALSE]
  /\ wait = "none" /\ signals = [came |-> 0, left |-> 0]
  /\ queue = <<>> /\ jobs = <<>> /\ pump = FALSE
  /\ await = [a \in Callees |-> "none"] /\ timer = [a \in Callees |-> "off"]
  /\ op = [o \in Ops |-> "none"] /\ exit = "none"

Stopping == phase \in {"stopping", "closed"}
Accepts == phase \in {"initialized", "running"}
Handler(kind, of) == [kind |-> kind, of |-> of]
Plain(kind) == Handler(kind, "none")

-----------------------------------------------------------------------------
(* Mutant: a turn is posted for new jobs only, not for those left over. *)
LeavesNew(q, pending, scheduled, js, hs) ==
  LET now == ~scheduled /\ js # <<>> IN
  /\ jobs' = pending \o js
  /\ pump' = (scheduled \/ now)
  /\ queue' = q \o hs \o (IF now THEN <<Plain("pump")>> ELSE <<>>)

(* What a step leaves in the queues: js are the jobs it adds and hs what   *)
(* it posts; schedule_job_pump posts one turn at a time, and only when a   *)
(* job is pending.                                                         *)
Leaves(q, pending, scheduled, js, hs) ==
  LET all == pending \o js
      now == ~scheduled /\ all # <<>> IN
  /\ jobs' = all
  /\ pump' = (scheduled \/ now)
  /\ queue' = q \o hs \o (IF now THEN <<Plain("pump")>> ELSE <<>>)

(* A step that does not call schedule_job_pump. *)
LeavesUnscheduled(q, js, hs) ==
  jobs' = jobs \o js /\ queue' = q \o hs /\ UNCHANGED pump

(* AwaitState::cancel_timer: a wait that is armed completes. *)
Wakes(a) == IF timer[a] = "armed" THEN <<Handler("resume", a)>> ELSE <<>>
CancelTimer(a) == [timer EXCEPT ![a] = IF @ = "armed" THEN "queued" ELSE @]

(* begin_shutdown: every stop callback posts the cancellation of its wait. *)
BeginShutdown ==
  IF phase # "running" THEN UNCHANGED phase /\ queue' = Tail(queue)
  ELSE /\ phase' = "stopping"
       /\ queue' = Tail(queue)
            \o SetToSeq({Handler("cancel", a) : a \in {x \in Callees : timer[x] # "off"}})
            \o SetToSeq({Handler("cancelOp", o) : o \in {x \in Ops : op[x] = "waiting" /\ x = "sleep"}})

-----------------------------------------------------------------------------
(* await_value after the call of a: what the caller has at once, or wait.  *)
(* A stop that was requested hides a value, and no then is called.         *)
Throws(a) == hostUse.ends[a] \in {"throws", "strands"}
Answer(a) ==
  IF Throws(a) \/ Stopping THEN "failed"
  ELSE IF hostUse.ends[a] = "value" THEN "ok"
  ELSE "pending"

(* The operations have settled and the script has continued. *)
OpsFollowed(js) ==
  (\A o \in hostUse.ops : op[o] = "settled") /\ (\A i \in 1 .. Len(js) : js[i].kind # "op")

(* The waits whose promise the call of a fulfils. *)
Fulfils(a) ==
  IF a = "callback" THEN {x \in Callees : hostUse.ends[x] = "called" /\ await[x] = "pending"} ELSE {}

(* The reactions that are pending when the call of a has thrown, ...       *)
Stranded(a) ==
  IF hostUse.ends[a] = "strands"
  THEN <<Handler("left", "none")>> \o SetToSeq({Handler("left", x) : x \in Fulfils(a)})
  ELSE <<>>

(* ... and when it has not, and then was called. *)
Reactions(a) ==
  SetToSeq({Handler("react", x) : x \in Fulfils(a)})
  \o IF Answer(a) = "pending"
          /\ \/ hostUse.ends[a] \in {"soon", "rejects"}
             \/ hostUse.ends[a] = "ops" /\ OpsFollowed(jobs)
     THEN <<Handler("react", a)>> ELSE <<>>

(* A call that throws returns before schedule_job_pump. *)
LeavesCall(a, q, hs) ==
  IF Throws(a) THEN LeavesUnscheduled(q, Stranded(a), hs) ELSE Leaves(q, jobs, pump, Reactions(a), hs)

(* The operations the call of initialize starts, also one that throws.  A  *)
(* sleep looks at the stop first, so does run_blocking.                    *)
Started(a) == IF a = "initialize" THEN hostUse.ops ELSE {}
OpsAfter(started) == [o \in Ops |-> IF o \notin started THEN op[o]
                                    ELSE IF Stopping THEN "done" ELSE "waiting"]
Completions(started) == IF Stopping THEN SetToSeq({Handler("done", o) : o \in started}) ELSE <<>>

(* Application after the entry call a ended, hs being what it posted. *)
Posts(a, end) ==
  IF a = "shutdown" \/ end = "failed" THEN <<Plain("shutdown")>> ELSE <<>>
(* Mutant: a shutdown that failed is not told. *)
AppQuiet(a, end) ==
  [app EXCEPT !.failed = @ \/ (end = "failed" /\ a # "shutdown"),
              !.ready = IF a = "shutdown" THEN FALSE ELSE @ \/ (a = "initialize" /\ end = "ok")]
AppAfter(a, end) ==
  [app EXCEPT !.failed = @ \/ end = "failed",
              !.ready = IF a = "shutdown" THEN FALSE ELSE @ \/ (a = "initialize" /\ end = "ok")]
WaitAfter(a, end) == IF Posts(a, end) = <<>> THEN wait ELSE "none"

(* A call that answers at once, or is waited for, from queue q; c and t    *)
(* are await and timer before it.                                          *)
Calling(a, q, c, t) ==
  LET end == Answer(a)
      posts == IF end = "pending" \/ a = "callback" THEN <<>> ELSE Posts(a, end) IN
  /\ await' = [c EXCEPT ![a] = end]
  /\ timer' = [t EXCEPT ![a] = IF end = "pending" THEN "armed" ELSE "off"]
  /\ op' = OpsAfter(Started(a))
  /\ LeavesCall(a, q, Completions(Started(a)) \o posts)
  /\ IF end = "pending" \/ a = "callback" THEN UNCHANGED <<app, wait>>
     ELSE app' = AppAfter(a, end) /\ wait' = WaitAfter(a, end)

-----------------------------------------------------------------------------
(* Application::initialize, unless the engine cannot be opened. *)
Initialize ==
  /\ pc = "new" /\ hostUse.opens /\ pc' = "ready" /\ phase' = "initialized"
  /\ UNCHANGED <<kernel, threads, app, wait, loop, awaiting, op, exit, hostUse>>
InitializeFails ==
  /\ pc = "new" /\ ~hostUse.opens /\ pc' = "returned" /\ exit' = "failure"
  /\ UNCHANGED <<phase, kernel, threads, app, wait, loop, awaiting, op, hostUse>>

(* Application::run arms the wait for signals, *)
RunArms ==
  /\ pc = "ready" /\ pc' = "armed" /\ wait' = "armed"
  /\ UNCHANGED <<phase, kernel, threads, app, loop, awaiting, op, exit, hostUse>>

(* it makes a stop that was asked for before stick in the kernel, *)
RunChecks ==
  /\ pc = "armed" /\ pc' = "checked"
  /\ IF wanted THEN /\ wait' = "none" /\ kernel' = TRUE
                    /\ queue' = Append(queue, Plain("shutdown"))
     ELSE UNCHANGED <<wait, kernel, queue>>
  /\ UNCHANGED <<phase, threads, app, jobs, pump, awaiting, op, exit, hostUse>>

(* and Runtime::run starts the entry unless a stop has stuck. *)
RunStarts ==
  /\ pc = "checked" /\ pc' = "loop"
  /\ IF kernel THEN phase' = "stopping" /\ queue' = queue
     ELSE phase' = "running" /\ queue' = Append(queue, Plain("start"))
  /\ UNCHANGED <<kernel, threads, app, wait, jobs, pump, awaiting, op, exit, hostUse>>

-----------------------------------------------------------------------------
Due(kind) == pc = "loop" /\ queue # <<>> /\ Head(queue).kind = kind
Of == Head(queue).of

(* load_and_initialize begins. *)
Start ==
  /\ Due("start") /\ Calling("evaluation", Tail(queue), await, timer)
  /\ UNCHANGED <<phase, pc, kernel, threads, exit, hostUse>>

(* begin_graceful_stop: the export may answer at once. *)
BeginGracefulStop ==
  LET end == Answer("shutdown") IN
  /\ await' = [await EXCEPT !["shutdown"] = end]
  /\ timer' = [timer EXCEPT !["shutdown"] = IF end = "pending" THEN "armed" ELSE "off"]
  /\ app' = [(IF end = "pending" THEN app ELSE AppAfter("shutdown", end)) EXCEPT !.seen = TRUE]
  /\ LeavesCall("shutdown", Tail(queue), IF end = "pending" THEN <<>> ELSE <<Plain("shutdown")>>)

(* on_stop_request: the first stop shuts a ready entry down, the second    *)
(* one, or one before the entry is ready, stops the kernel.                *)
OnStopRequest ==
  IF ~app.seen /\ app.ready THEN BeginGracefulStop
  ELSE /\ app' = [app EXCEPT !.seen = TRUE]
       /\ LeavesUnscheduled(Tail(queue), <<>>, <<Plain("shutdown")>>)
       /\ UNCHANGED awaiting
(* Whether on_stop_request resets signals_. *)
Resets == app.seen \/ ~app.ready \/ Answer("shutdown") # "pending"

(* The handler of Application::request_stop, dropped when stopping. *)
StopHandled ==
  /\ Due("stop") /\ Accepts /\ OnStopRequest
  /\ wait' = IF Resets THEN "none" ELSE wait
  /\ UNCHANGED <<phase, pc, kernel, threads, op, exit, hostUse>>
StopDropped ==
  /\ Due("stop") /\ ~Accepts /\ queue' = Tail(queue)
  /\ UNCHANGED <<phase, pc, kernel, threads, app, wait, jobs, pump, awaiting, op, exit, hostUse>>

(* arm_signal_wait: the wait is armed again while signals_ is there, and   *)
(* one that came meanwhile completes it.                                   *)
SignalHandled ==
  /\ Due("signal") /\ OnStopRequest
  /\ signals' = [signals EXCEPT !.left = @ - 1]
  /\ wait' = IF wait = "none" \/ Resets THEN "none" ELSE "armed"
  /\ UNCHANGED <<phase, pc, kernel, wanted, stopper, op, exit, hostUse>>

ShutdownHandled ==
  /\ Due("shutdown") /\ BeginShutdown
  /\ UNCHANGED <<pc, kernel, threads, app, wait, jobs, pump, awaiting, op, exit, hostUse>>

(* The script's continuation of an operation: with the last of them, the   *)
(* promises that follow them are fulfilled.                                *)
Follow ==
  IF OpsFollowed(Tail(jobs))
  THEN SetToSeq({Handler("react", a) : a \in {x \in Callees : hostUse.ends[x] = "ops" /\ await[x] = "pending"}})
  ELSE <<>>

(* await_callback_entry: only a pending wait is settled, and woken. *)
Settle(a) ==
  IF await[a] # "pending" THEN Leaves(Tail(queue), Tail(jobs), FALSE, <<>>, <<>>) /\ UNCHANGED awaiting
  ELSE /\ await' = [await EXCEPT ![a] = IF hostUse.ends[a] = "rejects" THEN "rejected" ELSE "fulfilled"]
       /\ timer' = CancelTimer(a)
       /\ Leaves(Tail(queue), Tail(jobs), FALSE, <<>>, Wakes(a))

(* A turn of the pump. *)
Pump ==
  /\ Due("pump") /\ jobs # <<>>
  /\ \/ Head(jobs).kind = "op" /\ Leaves(Tail(queue), Tail(jobs), FALSE, Follow, <<>>) /\ UNCHANGED awaiting
     \/ Head(jobs).of \in Callees /\ Settle(Head(jobs).of)
     \/ Head(jobs).of = "none" /\ Leaves(Tail(queue), Tail(jobs), FALSE, <<>>, <<>>) /\ UNCHANGED awaiting
  /\ UNCHANGED <<phase, pc, kernel, threads, app, wait, op, exit, hostUse>>

(* Mutant: a stop cancels a wait that was settled. *)
CancelAlways ==
  /\ Due("cancel")
  /\ await' = [await EXCEPT ![Of] = IF @ \in {"ok", "failed"} THEN @ ELSE "cancelled"]
  /\ timer' = CancelTimer(Of) /\ queue' = Tail(queue) \o Wakes(Of)
  /\ UNCHANGED <<phase, pc, kernel, threads, app, wait, jobs, pump, op, exit, hostUse>>

(* apply_cancel_on_owner *)
Cancel ==
  /\ Due("cancel")
  /\ IF await[Of] # "pending" THEN queue' = Tail(queue) /\ UNCHANGED awaiting
     ELSE /\ await' = [await EXCEPT ![Of] = "cancelled"] /\ timer' = CancelTimer(Of)
          /\ queue' = Tail(queue) \o Wakes(Of)
  /\ UNCHANGED <<phase, pc, kernel, threads, app, wait, jobs, pump, op, exit, hostUse>>

(* try_consume_terminal; what is still pending has timed out. *)
Outcome(a) == IF await[a] = "fulfilled" THEN "ok" ELSE "failed"

(* The coroutine of the entry goes on; after the evaluation it calls       *)
(* initialize, which may answer at once.                                   *)
EntryResumes ==
  /\ Due("resume") /\ Of \in Entry
  /\ LET end == Outcome(Of)
         c == [await EXCEPT ![Of] = end]
         t == [timer EXCEPT ![Of] = "off"] IN
     IF Of = "evaluation" /\ end = "ok" THEN Calling("initialize", Tail(queue), c, t)
     ELSE /\ await' = c /\ timer' = t /\ op' = op
          /\ LeavesUnscheduled(Tail(queue), <<>>, Posts(Of, end))
          /\ app' = AppAfter(Of, end) /\ wait' = WaitAfter(Of, end)
  /\ UNCHANGED <<phase, pc, kernel, threads, exit, hostUse>>

(* And that of a callback. *)
CallbackResumes ==
  /\ Due("resume") /\ Of \notin Entry
  /\ await' = [await EXCEPT ![Of] = Outcome(Of)] /\ timer' = [timer EXCEPT ![Of] = "off"]
  /\ queue' = Tail(queue)
  /\ UNCHANGED <<phase, pc, kernel, threads, app, wait, jobs, pump, op, exit, hostUse>>

(* A native operation is stopped: the timer completes, aborted. *)
CancelOp ==
  /\ Due("cancelOp")
  /\ IF op[Of] = "waiting" THEN op' = [op EXCEPT ![Of] = "done"] /\ queue' = Append(Tail(queue), Handler("done", Of))
     ELSE op' = op /\ queue' = Tail(queue)
  /\ UNCHANGED <<phase, pc, kernel, threads, app, wait, jobs, pump, awaiting, exit, hostUse>>

(* complete_promise: the capability is settled and its reaction is due. *)
Complete ==
  /\ Due("done")
  /\ op' = [op EXCEPT ![Of] = "settled"]
  /\ Leaves(Tail(queue), jobs, pump, <<Handler("op", Of)>>, <<>>)
  /\ UNCHANGED <<phase, pc, kernel, threads, app, wait, awaiting, exit, hostUse>>

(* call_and_await: a native coroutine calls the script. *)
Callback ==
  /\ pc = "loop" /\ await["initialize"] # "none" /\ await["callback"] = "none"
  /\ Calling("callback", queue, await, timer)
  /\ UNCHANGED <<phase, pc, kernel, threads, exit, hostUse>>

-----------------------------------------------------------------------------
(* The lifecycle timeout of a call is over. *)
Expire(a) ==
  /\ pc = "loop" /\ timer[a] = "armed" /\ a # "callback"
  /\ timer' = [timer EXCEPT ![a] = "queued"] /\ queue' = Append(queue, Handler("resume", a))
  /\ UNCHANGED <<phase, pc, kernel, threads, app, wait, jobs, pump, await, op, exit, hostUse>>

(* The delay of the sleep is over. *)
Elapse ==
  /\ pc = "loop" /\ op["sleep"] = "waiting"
  /\ op' = [op EXCEPT !["sleep"] = "done"] /\ queue' = Append(queue, Handler("done", "sleep"))
  /\ UNCHANGED <<phase, pc, kernel, threads, app, wait, jobs, pump, awaiting, exit, hostUse>>

(* run_blocking on a worker: dequeued, it is skipped when a stop was       *)
(* requested; once begun it runs to its end.                               *)
WorkerTakes ==
  /\ pc = "loop" /\ op["job"] = "waiting"
  /\ op' = [op EXCEPT !["job"] = IF Stopping THEN "done" ELSE "working"]
  /\ queue' = IF Stopping THEN Append(queue, Handler("done", "job")) ELSE queue
  /\ UNCHANGED <<phase, pc, kernel, threads, app, wait, jobs, pump, awaiting, exit, hostUse>>
WorkerEnds ==
  /\ pc = "loop" /\ op["job"] = "working"
  /\ op' = [op EXCEPT !["job"] = "done"] /\ queue' = Append(queue, Handler("done", "job"))
  /\ UNCHANGED <<phase, pc, kernel, threads, app, wait, jobs, pump, awaiting, exit, hostUse>>

(* A signal while signals_ is registered; without it, it kills. *)
Signal ==
  /\ wait # "none" /\ signals.came < MaxSignals
  /\ signals' = [came |-> signals.came + 1, left |-> signals.left + 1]
  /\ UNCHANGED <<phase, pc, kernel, wanted, stopper, app, wait, loop, awaiting, op, exit, hostUse>>
Fire ==
  /\ wait = "armed" /\ signals.left > 0
  /\ wait' = "fired" /\ queue' = Append(queue, Plain("signal"))
  /\ UNCHANGED <<phase, pc, kernel, threads, app, jobs, pump, awaiting, op, exit, hostUse>>

(* Application::request_stop: the intent first, then the post, or the      *)
(* kernel's stop when posts are refused.                                   *)
StopMarks(s) ==
  /\ stopper[s] = "idle" /\ pc # "returned"
  /\ stopper' = [stopper EXCEPT ![s] = "marked"] /\ wanted' = TRUE
  /\ UNCHANGED <<phase, pc, kernel, signals, app, wait, loop, awaiting, op, exit, hostUse>>
StopPosts(s) ==
  /\ stopper[s] = "marked"
  /\ stopper' = [stopper EXCEPT ![s] = "posted"]
  /\ queue' = Append(queue, Plain(IF Accepts THEN "stop" ELSE "shutdown"))
  /\ kernel' = (kernel \/ ~Accepts)
  /\ UNCHANGED <<phase, pc, wanted, signals, app, wait, jobs, pump, awaiting, op, exit, hostUse>>

-----------------------------------------------------------------------------
(* main_io returns when nothing is outstanding: no handler, no keepalive,  *)
(* no wait for a signal, no timer and no operation.                        *)
Drained ==
  /\ phase = "stopping" /\ queue = <<>> /\ wait = "none"
  /\ \A a \in Callees : timer[a] = "off"
  /\ \A o \in Ops : op[o] \in {"none", "settled"}

(* The engine is closed, the workers are joined and run returns. *)
Return ==
  /\ pc = "loop" /\ Drained
  /\ pc' = "returned" /\ phase' = "closed" /\ pump' = FALSE
  /\ exit' = IF app.failed THEN "failure" ELSE "success"
  /\ app' = [app EXCEPT !.ready = FALSE]
  /\ UNCHANGED <<kernel, threads, wait, queue, jobs, awaiting, op, hostUse>>

Run == RunArms \/ RunChecks \/ RunStarts
Executor == \/ Start \/ StopHandled \/ StopDropped \/ SignalHandled \/ ShutdownHandled
            \/ Pump \/ Cancel \/ EntryResumes \/ CallbackResumes \/ CancelOp \/ Complete
Clock == (\E a \in Callees : Expire(a)) \/ Elapse
Worker == WorkerTakes \/ WorkerEnds
HostNext ==
  \/ Initialize \/ InitializeFails \/ Run \/ Executor \/ Callback \/ Clock \/ Worker \/ Signal \/ Fire \/ Return
  \/ \E s \in Stoppers : StopMarks(s) \/ StopPosts(s)

(* The process is scheduled; handlers run in order; every timer expires;   *)
(* a blocking job ends; a signal that was caught is delivered.  Nobody     *)
(* needs to ask for a stop, and no callback needs to come.                 *)
HostFairness ==
  /\ WF_hostVars(Initialize \/ InitializeFails \/ Run) /\ WF_hostVars(Executor) /\ WF_hostVars(Return)
  /\ \A a \in Callees : WF_hostVars(Expire(a))
  /\ WF_hostVars(Elapse) /\ WF_hostVars(Worker) /\ WF_hostVars(Fire)
  /\ \A s \in Stoppers : WF_hostVars(StopPosts(s))
HostSpec == HostInit /\ [][HostNext]_hostVars /\ HostFairness

-----------------------------------------------------------------------------
(* The preconditions of entry_module.hpp: the entry is loaded and shut     *)
(* down once, in a running kernel, initialize follows the evaluation, and  *)
(* only an initialized entry is shut down, whatever the order of stops,    *)
(* signals, timeouts and settlements.                                      *)
Begins(a) == await[a] = "none" /\ await'[a] # "none"
EntryContract ==
  [][ /\ \A a \in Callees : await[a] # "none" => await'[a] # "none"
      /\ Begins("evaluation") => phase = "running"
      /\ Begins("initialize") => await'["evaluation"] = "ok"
      /\ Begins("shutdown") => phase = "running" /\ await["initialize"] = "ok" ]_hostVars

(* Who awaits a promise takes what came first: a settlement, a timeout or  *)
(* a stop after another changes nothing (AwaitState is single-shot).       *)
Decided == {"fulfilled", "rejected", "cancelled"}
FirstWins ==
  [][ \A a \in Callees : await[a] \in Decided =>
        await'[a] \in {await[a], IF await[a] = "fulfilled" THEN "ok" ELSE "failed"} ]_hostVars

(* The order of evaluation, initialize and shutdown, and what came first.  *)
HostContract == EntryContract /\ FirstWins

(* A pending job that no throwing call has left behind is never without a   *)
(* turn of the pump to come (the coalescing of schedule_job_pump), so no    *)
(* reaction is lost, also none that is enqueued behind what was left, and   *)
(* when the engine is closed nobody is left that would use it: no wait, no  *)
(* operation, no job but those left behind.                                *)
Left(js) == \A i \in DOMAIN js : js[i].kind = "left"
NoLostReaction ==
  /\ ~Left(jobs) => \E i \in 1 .. Len(queue) : queue[i] = Plain("pump")
  /\ phase = "closed" =>
       /\ Left(jobs)
       /\ \A a \in Callees : await[a] \in {"none", "ok", "failed"}
       /\ \A o \in Ops : op[o] \in {"none", "settled"}

(* The exit code tells whether a call of the lifecycle failed, timed out   *)
(* or was cut off by a stop.                                               *)
ExitTruth ==
  phase = "closed" => (exit = "failure" <=> \E a \in Entry : await[a] = "failed")

(* A start ends, be it by the lifecycle timeout, and once a stop was asked *)
(* for, by a signal or a thread, the program returns: no hung promise, no  *)
(* callback without a deadline and no operation keeps the loop.            *)
HostEnds ==
  <>[]((app.ready \/ pc = "returned") /\ (wanted \/ app.seen => pc = "returned"))
=============================================================================
