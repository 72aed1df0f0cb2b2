---------------------------- MODULE NativeProcess ----------------------------
(***************************************************************************)
(* vacps:process, the native child processes of the agent                  *)
(* (src/process, src/modules/process.cpp): spawn, the two drain coroutines *)
(* and the reaping coroutine of a child, the timeout and grace timers, the *)
(* callers of read, write, wait, waitForExit, terminate and close, and the *)
(* budget that all processes share.                                        *)
(*                                                                         *)
(* Everything runs on the one owner executor: an action is one handler, or *)
(* the stretch of a coroutine between two co_awaits.  A caller suspended   *)
(* on a gate timer is "gate" until the gate is cancelled ("ready"); a      *)
(* cancelled operation whose completion is already queued still completes: *)
(* a timer that is "due" fires, a read that "got" bytes delivers them.     *)
(* Bytes are counted, and a byte read back is <<stream, position>>.        *)
(***************************************************************************)
EXTENDS Integers, SequencesExt, FiniteSetsExt

CONSTANTS
  Procs, Clients, Nobody,
  ProcessUses, \* what may be done with the processes: see ProcessUse
  MaxRunning, \* ProcessLimits::max_running
  MaxTotal,   \* ProcessLimits::max_total_buffer_bytes
  Cap,        \* max_stdout_bytes and max_stderr_bytes
  ReadMax,    \* ReadOptions::max_bytes
  Payload     \* bound: pieces in which a write reaches the pipe

Streams == {"out", "err"}
Ops == {"write", "writeClose", "wait", "waitForExit", "close"}
(* What a client and a child do with a process: start, read, terminate or  *)
(* drop it; it has a timeout; its child leaves a descendant behind, in its *)
(* group or, after setsid, out of it.                                      *)
Marks == {"start", "read", "terminate", "dispose", "timeout", "forks", "escapes"}
ProcessUse == [wants : [Clients -> SUBSET (Ops \X Procs)], traits : [Procs -> SUBSET Marks],
               bytes : [Procs -> [Streams -> Nat]]]

(* What the constants are assumed to be. *)
ProcessConstantsOK ==
  /\ IsFiniteSet(Procs) /\ Nobody \notin Clients
  /\ ProcessUses \subseteq ProcessUse
  /\ MaxRunning \in Nat \ {0} /\ MaxTotal \in Nat \ {0} /\ Cap \in Nat
  /\ ReadMax \in Nat \ {0} /\ Payload \in Nat \ {0}

VARIABLES
  h,          \* Process::State
  kept,       \* its ChunkRefs, in the order of their sequence numbers
  made,       \* produced_out, produced_err
  drain,      \* the drain coroutines
  busy,       \* the caller that holds write_busy, or Nobody
  pCall,      \* the callers
  reader,     \* the client that reads with a cursor: [at, seq, off, got, eof]
  running, buffered,        \* ProcessBudget
  disposing,  \* processes for which dispose() has posted its handler
  child, left, pipe, wrote, \* the children, their descendants and their output
  pUse,       \* the member of ProcessUses that this behaviour follows
  fed         \* what reached a child's stdin

processState == <<h, kept, made, drain, busy, pCall, reader, running, buffered>>
processKernel == <<child, left, pipe, wrote, fed, pUse>>
processVars == <<processState, processKernel, disposing>>

Fresh == [status |-> "Created", started |-> FALSE, closing |-> FALSE,
          finished |-> FALSE, exited |-> FALSE, timedOut |-> FALSE,
          cancelled |-> FALSE, stdin |-> FALSE, eof |-> {}, slot |-> FALSE,
          timeout |-> "off", grace |-> "off"]
Idle == [op |-> "none", p |-> Nobody, at |-> "free", left |-> 0]

ProcessInit ==
  /\ h = [p \in Procs |-> Fresh] /\ kept = [p \in Procs |-> <<>>]
  /\ made = [p \in Procs |-> [s \in Streams |-> 0]]
  /\ drain = [p \in Procs |-> [s \in Streams |-> "none"]]
  /\ busy = [p \in Procs |-> Nobody] /\ pCall = [c \in Clients |-> Idle]
  /\ reader = [p \in Procs |-> [at |-> "free", seq |-> 1, off |-> 0,
                                got |-> <<>>, eof |-> FALSE]]
  /\ running = 0 /\ buffered = 0 /\ disposing = {}
  /\ child = [p \in Procs |-> "none"] /\ left = [p \in Procs |-> {}]
  /\ pipe = made /\ wrote = made /\ fed = [p \in Procs |-> <<>>]
  /\ pUse \in ProcessUses

-----------------------------------------------------------------------------
(* The state machine of a handle.                                          *)

Size(refs) == FoldSeq(LAMBDA k, n : k.size + n, 0, refs)
Acc(refs, s) == FoldSeq(LAMBDA k, n : IF k.stream = s THEN k.size + n ELSE n, 0, refs)

(* cancel() and reset() of a timer: a handler already queued still runs. *)
Off(timer) == IF timer = "due" THEN "due" ELSE "off"

(* finalize_close *)
FinalizedProcess(s) == [s EXCEPT !.status = "Closed", !.closing = FALSE, !.slot = FALSE]

(* Mutant: the process is finished when its leader is reaped. *)
TryFinishAtExit(s) ==
  IF s.finished \/ ~s.exited THEN s
  ELSE LET f == [s EXCEPT !.finished = TRUE, !.stdin = FALSE, !.slot = FALSE]
       IN IF s.closing THEN FinalizedProcess(f) ELSE [f EXCEPT !.status = "Exited"]

(* try_finish: the join of the reaping and of both drains. *)
TryFinish(s) ==
  LET f == [s EXCEPT !.finished = TRUE, !.stdin = FALSE, !.slot = FALSE,
                     !.timeout = Off(@), !.grace = Off(@)]
  IN CASE s.finished \/ ~s.exited \/ s.eof # Streams -> s
       [] OTHER -> IF s.closing THEN FinalizedProcess(f) ELSE
            [f EXCEPT !.status = IF s.timedOut THEN "TimedOut" ELSE
                                 IF s.cancelled THEN "Cancelled" ELSE "Exited"]

(* Mutant: the slot is given back when the leader is reaped. *)
ExitedFreesSlot(s) ==
  IF s.exited THEN s
  ELSE TryFinish([s EXCEPT !.exited = TRUE, !.stdin = FALSE, !.slot = FALSE])

(* on_process_exit *)
Exited(s) ==
  IF s.exited THEN s
  ELSE TryFinish([s EXCEPT !.exited = TRUE, !.stdin = FALSE, !.timeout = Off(@)])

(* begin_close, with the timers and the stdin pipe that cancel_io closes. *)
Closing(s) ==
  CASE s.status = "Closed" -> s
    [] s.status # "Closed" /\ ~s.started -> [s EXCEPT !.status = "Closed", !.closing = FALSE]
    [] OTHER ->
         LET k == [s EXCEPT !.closing = TRUE, !.status = "Closing",
                            !.cancelled = TRUE, !.stdin = FALSE,
                            !.timeout = Off(@), !.grace = Off(@)]
         IN IF s.finished THEN FinalizedProcess(k) ELSE k

(* Which gates a change of the handle cancels. *)
Gate(op) == IF op \in {"write", "writeClose"} THEN "write" ELSE "finish"
Notified(s, t) ==
     (IF t.finished /\ ~s.finished THEN {"finish", "read"} ELSE {})
  \cup (IF t.status = "Closed" /\ s.status # "Closed"
        THEN {"finish", "read", "write"} ELSE {})

WokenClients(calls, p, gates) ==
  [c \in Clients |->
     IF calls[c].p = p /\ calls[c].at = "gate" /\ Gate(calls[c].op) \in gates
     THEN [calls[c] EXCEPT !.at = "ready"] ELSE calls[c]]
WokenReader(p, gates) ==
  IF reader[p].at = "gate" /\ "read" \in gates
  THEN [reader EXCEPT ![p].at = "ready"] ELSE reader

(* The handle becomes t: the slot and the buffers go back to the budget    *)
(* (release_process and sub_buffered stop at zero) and readers wake up.    *)
Become(p, t, gates) ==
  LET closed == t.status = "Closed" /\ h[p].status # "Closed"
  IN /\ h' = [h EXCEPT ![p] = t]
     /\ running' = IF h[p].slot /\ ~t.slot /\ running > 0 THEN running - 1 ELSE running
     /\ kept' = IF closed THEN [kept EXCEPT ![p] = <<>>] ELSE kept
     /\ buffered' = IF ~closed THEN buffered
                    ELSE IF buffered > Size(kept[p]) THEN buffered - Size(kept[p]) ELSE 0
     /\ reader' = WokenReader(p, gates)

Holders(p) == child[p] = "alive" \/ left[p] # {}

(* kill(-pgid, SIGKILL) reaches all but the descendants that left the group. *)
KillGroup(p) ==
  /\ child' = [child EXCEPT ![p] = IF @ = "alive" THEN "zombie" ELSE @]
  /\ left' = [left EXCEPT ![p] = @ \ {"group"}]

(* Mutant: close cancels the I/O and does not kill. *)
BeginsCloseSparing(p) ==
  /\ Become(p, Closing(h[p]), IF h[p].status = "Closed" THEN {} ELSE {"read"})
  /\ drain' = [drain EXCEPT ![p] = [s \in Streams |->
                 IF @[s] = "read" THEN "abort" ELSE @[s]]]
  /\ UNCHANGED <<child, left>>

(* begin_close: SIGKILL, then cancel_io.  A drain between two reads, or    *)
(* with a completion queued, has no operation to cancel.                   *)
LiveProcess(p) == h[p].started /\ h[p].status # "Closed"
BeginsProcessClose(p) ==
  /\ Become(p, Closing(h[p]), IF h[p].status = "Closed" THEN {} ELSE {"read"})
  /\ IF LiveProcess(p)
     THEN /\ KillGroup(p)
          /\ drain' = [drain EXCEPT ![p] = [s \in Streams |->
                         IF @[s] = "read" THEN "abort" ELSE @[s]]]
     ELSE UNCHANGED <<child, left, drain>>

(* What it does to the callers: the write in progress is aborted. *)
Released(p) ==
  LET aborted == [c \in Clients |->
                    IF LiveProcess(p) /\ pCall[c].p = p /\ pCall[c].at = "pipe"
                    THEN [pCall[c] EXCEPT !.at = "abort"] ELSE pCall[c]]
  IN IF h[p].status = "Closed" THEN pCall ELSE WokenClients(aborted, p, {"finish", "write"})

-----------------------------------------------------------------------------
(* start: a spawn that fails gives its slot back before it returns. *)
Start(p) ==
  /\ "start" \in pUse.traits[p] /\ h[p].status = "Created" /\ running < MaxRunning
  /\ running' = running + 1
  /\ h' = [h EXCEPT ![p] = [Fresh EXCEPT !.status = "Running", !.started = TRUE,
                              !.stdin = TRUE, !.slot = TRUE,
                              !.timeout = IF "timeout" \in pUse.traits[p] THEN "armed" ELSE "off"]]
  /\ drain' = [drain EXCEPT ![p] = [s \in Streams |-> "start"]]
  /\ child' = [child EXCEPT ![p] = "alive"]
  /\ UNCHANGED <<kept, made, busy, pCall, reader, buffered, disposing,
                 left, pipe, wrote, fed, pUse>>

(* The child and its descendants. *)
ChildWrites(p, s) ==
  /\ Holders(p) /\ wrote[p][s] < pUse.bytes[p][s]
  /\ pipe' = [pipe EXCEPT ![p][s] = @ + 1]
  /\ wrote' = [wrote EXCEPT ![p][s] = @ + 1]
  /\ UNCHANGED <<processState, disposing, child, left, fed, pUse>>

ChildForks(p) ==
  /\ child[p] = "alive" /\ left[p] = {}
  /\ \/ "forks" \in pUse.traits[p] /\ left' = [left EXCEPT ![p] = {"group"}]
     \/ "escapes" \in pUse.traits[p] /\ left' = [left EXCEPT ![p] = {"escaped"}]
  /\ UNCHANGED <<processState, disposing, child, pipe, wrote, fed, pUse>>

ChildExits(p) ==
  /\ \/ child[p] = "alive" /\ child' = [child EXCEPT ![p] = "zombie"] /\ left' = left
     \/ left[p] # {} /\ left' = [left EXCEPT ![p] = {}] /\ child' = child
  /\ UNCHANGED <<processState, disposing, pipe, wrote, fed, pUse>>

(* The drain coroutines: spawned, then one read after the other. *)
DrainStarts(p, s) ==
  /\ drain[p][s] = "start"
  /\ drain' = [drain EXCEPT ![p][s] = "read"]
  /\ UNCHANGED <<h, kept, made, busy, pCall, reader, running, buffered, processKernel, disposing>>

(* The read completes: with bytes, or at the end of the file. *)
DrainCompletes(p, s) ==
  /\ drain[p][s] = "read" /\ (pipe[p][s] > 0 \/ ~Holders(p))
  /\ drain' = [drain EXCEPT ![p][s] = IF pipe[p][s] > 0 THEN "got" ELSE "abort"]
  /\ UNCHANGED <<h, kept, made, busy, pCall, reader, running, buffered, processKernel, disposing>>

EntryRoom(p, s) == IF Acc(kept[p], s) < Cap THEN Cap - Acc(kept[p], s) ELSE 0
GlobalRoom == IF buffered < MaxTotal THEN MaxTotal - buffered ELSE 0
Room(p, s) == Min({EntryRoom(p, s), GlobalRoom})

(* append_capture *)
DrainTakes(p, s) ==
  LET n == pipe[p][s]
      room == Room(p, s)
      take == Min({n, room})
  IN /\ drain[p][s] = "got"
     /\ drain' = [drain EXCEPT ![p][s] = "read"]
     /\ made' = [made EXCEPT ![p][s] = @ + n]
     /\ pipe' = [pipe EXCEPT ![p][s] = 0]
     /\ IF room = 0 THEN UNCHANGED <<kept, buffered, reader>>
        ELSE /\ kept' = [kept EXCEPT ![p] = Append(@,
                  [stream |-> s, from |-> Acc(kept[p], s), size |-> take])]
             /\ buffered' = buffered + take
             /\ reader' = WokenReader(p, {"read"})
     /\ UNCHANGED <<h, busy, pCall, running, disposing, child, left, wrote, fed, pUse>>

DrainEnds(p, s) ==
  /\ drain[p][s] = "abort"
  /\ drain' = [drain EXCEPT ![p][s] = "done"]
  /\ LET t == TryFinish([h[p] EXCEPT !.eof = @ \cup {s}])
     IN /\ Become(p, t, Notified(h[p], t))
        /\ pCall' = WokenClients(pCall, p, Notified(h[p], t))
  /\ UNCHANGED <<made, busy, processKernel, disposing>>

(* The reaping coroutine. *)
Reap(p) ==
  /\ child[p] = "zombie"
  /\ child' = [child EXCEPT ![p] = "reaped"]
  /\ left' = IF h[p].timedOut THEN [left EXCEPT ![p] = @ \ {"group"}] ELSE left
  /\ Become(p, Exited(h[p]), Notified(h[p], Exited(h[p])))
  /\ pCall' = WokenClients(pCall, p, Notified(h[p], Exited(h[p])))
  /\ UNCHANGED <<made, drain, busy, disposing, pipe, wrote, fed, pUse>>

-----------------------------------------------------------------------------
(* The timers. *)
TimerExpires(p) ==
  /\ \/ h[p].timeout = "armed" /\ h' = [h EXCEPT ![p].timeout = "due"]
     \/ h[p].grace = "armed" /\ h' = [h EXCEPT ![p].grace = "due"]
  /\ UNCHANGED <<kept, made, drain, busy, pCall, reader, running, buffered, processKernel, disposing>>

TimeoutFires(p) ==
  LET late == h[p].finished \/ h[p].exited \/ h[p].status = "Closed"
  IN /\ h[p].timeout = "due"
     /\ h' = [h EXCEPT ![p].timeout = "off", ![p].timedOut = @ \/ ~late]
     /\ IF late THEN UNCHANGED <<child, left>> ELSE KillGroup(p)
     /\ UNCHANGED <<kept, made, drain, busy, pCall, reader, running, buffered,
                    disposing, pipe, wrote, fed, pUse>>

GraceFires(p) ==
  /\ h[p].grace = "due"
  /\ h' = [h EXCEPT ![p].grace = "fired"]
  /\ IF h[p].finished \/ h[p].status = "Closed" THEN UNCHANGED <<child, left>>
     ELSE KillGroup(p)
  /\ UNCHANGED <<kept, made, drain, busy, pCall, reader, running, buffered,
                 disposing, pipe, wrote, fed, pUse>>

(* terminate: SIGTERM may be ignored, and arms the escalation. *)
Terminate(p, sig) ==
  LET s == h[p]
  IN /\ "terminate" \in pUse.traits[p] /\ s.started /\ s.status # "Closed"
     /\ ~s.closing /\ ~s.finished /\ ~s.exited
     /\ \/ KillGroup(p)
        \/ sig = "SIGTERM" /\ UNCHANGED <<child, left>>
     /\ h' = [h EXCEPT ![p].grace = IF sig = "SIGTERM" /\ @ \in {"off", "fired"} THEN "armed" ELSE @]
     /\ UNCHANGED <<kept, made, drain, busy, pCall, reader, running, buffered,
                    disposing, pipe, wrote, fed, pUse>>

-----------------------------------------------------------------------------
(* The callers.  A call ends "ok" or "failed", and its caller calls no more. *)

Ends(c, at) == [pCall EXCEPT ![c].at = at]

Unavailable(s) == ~s.started \/ s.finished \/ ~s.stdin \/ s.closing \/ s.status = "Closed"

(* Mutant: a woken writer does not look at write_busy again. *)
WriteTriesOnce(c, p, op) ==
  LET next(at) == [pCall EXCEPT ![c] = [op |-> op, p |-> p, at |-> at, left |-> Payload]]
  IN /\ IF Unavailable(h[p]) THEN pCall' = next("failed") /\ busy' = busy
        ELSE IF busy[p] # Nobody /\ pCall[c].at = "free" THEN pCall' = next("gate") /\ busy' = busy
        ELSE pCall' = next("pipe") /\ busy' = [busy EXCEPT ![p] = c]
     /\ UNCHANGED <<h, kept, made, drain, reader, running, buffered, processKernel, disposing>>

(* write, up to the async_write: from the call, and from each wake-up. *)
WriteTries(c, p, op) ==
  LET next(at) == [pCall EXCEPT ![c] = [op |-> op, p |-> p, at |-> at, left |-> Payload]]
  IN /\ IF Unavailable(h[p]) THEN pCall' = next("failed") /\ busy' = busy
        ELSE IF busy[p] # Nobody THEN pCall' = next("gate") /\ busy' = busy
        ELSE pCall' = next("pipe") /\ busy' = [busy EXCEPT ![p] = c]
     /\ UNCHANGED <<h, kept, made, drain, reader, running, buffered, processKernel, disposing>>

(* A piece of the payload reaches the pipe; after the last one stdin is    *)
(* closed if asked, then write_busy is released and the waiters notified.  *)
WriteProceeds(c) ==
  LET p == pCall[c].p
      last == pCall[c].left = 1
  IN /\ pCall[c].at = "pipe" /\ Holders(p)
     /\ fed' = [fed EXCEPT ![p] = Append(@, c)]
     /\ IF ~last THEN pCall' = [pCall EXCEPT ![c].left = @ - 1] /\ UNCHANGED <<h, busy>>
        ELSE /\ pCall' = WokenClients(Ends(c, "ok"), p, {"write"})
             /\ busy' = [busy EXCEPT ![p] = Nobody]
             /\ h' = [h EXCEPT ![p].stdin = @ /\ pCall[c].op = "write"]
     /\ UNCHANGED <<kept, made, drain, reader, running, buffered, disposing,
                    child, left, pipe, wrote, pUse>>

(* The write fails: cancelled by a close, or nobody is left to read it. *)
WriteFails(c) ==
  LET p == pCall[c].p
  IN /\ pCall[c].at = "abort" \/ (pCall[c].at = "pipe" /\ ~Holders(p))
     /\ pCall' = WokenClients(Ends(c, "failed"), p, {"write"})
     /\ busy' = [busy EXCEPT ![p] = Nobody]
     /\ UNCHANGED <<h, kept, made, drain, reader, running, buffered, processKernel, disposing>>

(* wait: the result is copied while the handle is open. *)
WaitTries(c, p) ==
  /\ pCall' = [pCall EXCEPT ![c] = [op |-> "wait", p |-> p, left |-> 0, at |->
                IF h[p].status = "Closed" \/ ~h[p].started THEN "failed"
                ELSE IF h[p].finished THEN "ok" ELSE "gate"]]
  /\ UNCHANGED <<h, kept, made, drain, busy, reader, running, buffered, processKernel, disposing>>

(* wait_for_exit: one gate, cancelled or timed out; ok is completed. *)
WaitForExit(c, p) ==
  /\ pCall' = [pCall EXCEPT ![c] = [op |-> "waitForExit", p |-> p, left |-> 0, at |->
                IF h[p].finished THEN "ok"
                ELSE IF pCall[c].at = "free" THEN "gate" ELSE "failed"]]
  /\ UNCHANGED <<h, kept, made, drain, busy, reader, running, buffered, processKernel, disposing>>

GateExpires(c) ==
  /\ pCall[c].at = "gate" /\ pCall[c].op = "waitForExit"
  /\ pCall' = Ends(c, "ready")
  /\ UNCHANGED <<h, kept, made, drain, busy, reader, running, buffered, processKernel, disposing>>

(* async_close: begin_close, then the loop that joins the drain barrier. *)
CloseBegins(c, p) ==
  LET open == Closing(h[p]).status # "Closed"
  IN /\ BeginsProcessClose(p)
     /\ pCall' = [Released(p) EXCEPT ![c] = [op |-> "close", p |-> p, left |-> 0,
                                           at |-> IF open THEN "gate" ELSE "ok"]]
     /\ UNCHANGED <<made, busy, disposing, pipe, wrote, fed, pUse>>

CloseJoins(c) ==
  LET p == pCall[c].p
      t == IF h[p].finished /\ h[p].status # "Closed" THEN FinalizedProcess(h[p]) ELSE h[p]
      gates == Notified(h[p], t)
  IN /\ pCall[c].at = "ready" /\ pCall[c].op = "close"
     /\ Become(p, t, gates)
     /\ pCall' = [WokenClients(pCall, p, gates) EXCEPT
                   ![c].at = IF t.status = "Closed" THEN "ok" ELSE "gate"]
     /\ UNCHANGED <<made, drain, busy, processKernel, disposing>>

ClientCalls(c, p) ==
  /\ pCall[c].at = "free"
  /\ \/ \E op \in {"write", "writeClose"} : <<op, p>> \in pUse.wants[c] /\ WriteTries(c, p, op)
     \/ <<"wait", p>> \in pUse.wants[c] /\ WaitTries(c, p)
     \/ <<"waitForExit", p>> \in pUse.wants[c] /\ h[p].started /\ WaitForExit(c, p)
     \/ <<"close", p>> \in pUse.wants[c] /\ CloseBegins(c, p)

Resumes(c) ==
  /\ pCall[c].at = "ready"
  /\ \/ Gate(pCall[c].op) = "write" /\ WriteTries(c, pCall[c].p, pCall[c].op)
     \/ pCall[c].op = "wait" /\ WaitTries(c, pCall[c].p)
     \/ pCall[c].op = "waitForExit" /\ WaitForExit(c, pCall[c].p)
     \/ CloseJoins(c)

(* collect: what chunk i adds to the cursor and the bytes of the result. *)
Collected(acc, k, i) ==
  LET start == IF i = acc.seq THEN acc.off ELSE 0
      take == Min({k.size - start, ReadMax - Len(acc.got)})
      next(seq, off) == [seq |-> seq, off |-> off,
             got |-> acc.got \o [j \in 1..take |-> <<k.stream, k.from + start + j>>]]
  IN CASE i < acc.seq -> acc
       [] i >= acc.seq /\ start >= k.size -> [acc EXCEPT !.seq = i + 1, !.off = 0]
       [] i >= acc.seq /\ start < k.size /\ take = 0 -> acc
       [] OTHER -> IF start + take < k.size THEN next(i, start + take) ELSE next(i + 1, 0)

(* The loop over the chunks, from the cursor. *)
Collect(refs, seq, off) ==
  LET walk[i \in 0..Len(refs)] ==
        IF i = 0 THEN [seq |-> seq, off |-> off, got |-> <<>>]
        ELSE Collected(walk[i - 1], refs[i], i)
  IN walk[Len(refs)]

(* Mutant: the chunk the cursor stands in counts as read. *)
HasUnreadAfter(refs, seq, off) == \E i \in DOMAIN refs : i > seq /\ off < refs[i].size

HasUnread(refs, seq, off) ==
  \E i \in DOMAIN refs : i >= seq /\ (IF i = seq THEN off ELSE 0) < refs[i].size

(* read with a wait: it answers at once if it can, else after one gate. *)
Reads(p) ==
  LET r == reader[p]
      c == Collect(kept[p], r.seq, r.off)
      eof == h[p].finished /\ ~HasUnread(kept[p], c.seq, c.off)
      answers == c.got # <<>> \/ eof \/ r.at = "ready"
  IN /\ "read" \in pUse.traits[p] /\ r.at \in {"free", "ready"} /\ ~r.eof /\ h[p].started
     /\ r.at = "free" => ~h[p].closing /\ h[p].status # "Closed"
     /\ reader' = [reader EXCEPT ![p] =
            IF answers THEN [at |-> "free", seq |-> c.seq, off |-> c.off,
                             got |-> r.got \o c.got, eof |-> eof]
            ELSE [r EXCEPT !.at = "gate"]]
     /\ UNCHANGED <<h, kept, made, drain, busy, pCall, running, buffered, processKernel, disposing>>

ReadExpires(p) ==
  /\ reader[p].at = "gate"
  /\ reader' = [reader EXCEPT ![p].at = "ready"]
  /\ UNCHANGED <<h, kept, made, drain, busy, pCall, running, buffered, processKernel, disposing>>

(* dispose: the finalizer, or the stop bridge of a pending call, posts it. *)
DisposeProcess(p) ==
  /\ "dispose" \in pUse.traits[p] /\ p \notin disposing /\ h[p].status # "Closed"
  /\ disposing' = disposing \cup {p}
  /\ UNCHANGED <<processState, processKernel>>

DisposeProcessRuns(p) ==
  /\ p \in disposing
  /\ disposing' = disposing \ {p}
  /\ BeginsProcessClose(p) /\ pCall' = Released(p)
  /\ UNCHANGED <<made, busy, pipe, wrote, fed, pUse>>

-----------------------------------------------------------------------------
Drains(p, s) ==
  DrainStarts(p, s) \/ DrainCompletes(p, s) \/ DrainTakes(p, s) \/ DrainEnds(p, s)
Timers(p) == TimerExpires(p) \/ TimeoutFires(p) \/ GraceFires(p)

ProcessNext ==
  \/ \E p \in Procs :
       \/ \E s \in Streams : Drains(p, s) \/ ChildWrites(p, s)
       \/ Reap(p) \/ Timers(p) \/ DisposeProcessRuns(p)
       \/ Start(p) \/ Reads(p) \/ ReadExpires(p) \/ DisposeProcess(p)
       \/ ChildForks(p) \/ ChildExits(p)
       \/ \E sig \in {"SIGTERM", "SIGKILL"} : Terminate(p, sig)
  \/ \E c \in Clients :
       \/ \E p \in Procs : ClientCalls(c, p)
       \/ Resumes(c) \/ WriteProceeds(c) \/ WriteFails(c) \/ GateExpires(c)

(* The executor runs what is queued; nothing makes a child write or exit,  *)
(* and no client calls terminate for ever: each call starts its grace anew.*)
ProcessFairness ==
  /\ \A p \in Procs : /\ \A s \in Streams : WF_processVars(Drains(p, s))
                      /\ WF_processVars(Reap(p)) /\ WF_processVars(Timers(p))
                      /\ WF_processVars(DisposeProcessRuns(p))
  /\ \A c \in Clients : WF_processVars(Resumes(c))

ProcessSpec == ProcessInit /\ [][ProcessNext]_processVars /\ ProcessFairness

-----------------------------------------------------------------------------
(* The budget is exact on every path that ends a process: each slot taken  *)
(* is given back once, at the join of reap and drains, and the bytes       *)
(* charged are those still retained, until the handle is closed.           *)
BudgetExact ==
  /\ running = Cardinality({p \in Procs : h[p].slot})
  /\ buffered = FoldSet(LAMBDA p, n : Size(kept[p]) + n, 0, Procs)
  /\ \A p \in Procs : h[p].slot <=> h[p].started /\ ~h[p].finished

(* A wait that succeeds returns everything the child and its descendants   *)
(* ever wrote: close and dispose cut the drains short, but then wait fails.*)
WaitIsComplete ==
  \A c \in Clients : pCall[c].op = "wait" /\ pCall[c].at = "ok" =>
     made[pCall[c].p] = wrote[pCall[c].p]

(* A client that follows the cursor reads every retained byte once, in the *)
(* order of each stream, and learns eof only when it has all of them.      *)
ReaderIsExact ==
  \A p \in Procs :
    LET r == reader[p]
    IN /\ \A i \in DOMAIN r.got :
            r.got[i][2] = Cardinality({j \in 1..i : r.got[j][1] = r.got[i][1]})
       /\ r.eof /\ h[p].status # "Closed" => Len(r.got) = Size(kept[p])

(* Payloads reach stdin whole and one after the other. *)
WritesAreSerialized ==
  \A p \in Procs : \A i, k \in DOMAIN fed[p] :
    fed[p][i] = fed[p][k] => \A j \in i..k : fed[p][j] = fed[p][i]

(* The join barrier of close falls: SIGKILL ends the group, so the reap    *)
(* and both ends of file come.  A descendant that left the group is not    *)
(* killed; a read that it keeps open is cancelled, but a drain that was    *)
(* between two reads then reads on, and close waits for the descendant.    *)
DrainsAgain(p) == left[p] = {"escaped"} /\ \E s \in Streams : drain[p][s] = "read"
ProcessClosesEnd == <>[](\A p \in Procs : h[p].status = "Closing" => DrainsAgain(p))

(* SIGTERM ignored or not, the leader of a terminated process is reaped.   *)
TerminateEnds == <>[](\A p \in Procs : h[p].grace # "off" => h[p].exited)

(* vacps-process.d.ts: "Kill after this many ms".                          *)
TimeoutEnds == \A p \in Procs : "timeout" \in pUse.traits[p] /\ h[p].started ~> h[p].finished
=============================================================================
