------------------------------ MODULE Terminal ------------------------------
(***************************************************************************)
(* A Terminal of vacps:terminal (src/terminal/terminal.cpp, the adapter    *)
(* src/modules/terminal.cpp, the budget src/process/budget.cpp): a child   *)
(* session on a PTY, whose output is kept in a bounded rolling buffer that *)
(* readers address by absolute offsets.                                    *)
(*                                                                         *)
(* The executor runs start, the methods, the read loop, the wait for the   *)
(* child and the timer handlers one at a time; between two of them the     *)
(* kernel moves bytes and processes live and die.  A byte is its offset:   *)
(* a chunk is where it starts and its size.  Scripts keep the contract of  *)
(* terminal.hpp: one start, and no call but close once close was called.   *)
(***************************************************************************)
EXTENDS Integers, Sequences, FiniteSets, SequencesExt

CONSTANTS
  Writers, Waiters, TerminalClosers, \* calls of write, waitForExit and close
  Reader,      \* the call of read: a reader reads to the end
  Buffer,      \* maxBufferBytes
  MaxRead,     \* maxBytes of a read
  MaxBytes,    \* bound: bytes the session writes
  TerminalUses \* what the script and the system do: see TerminalUse

TerminalCallers == Writers \cup Waiters \cup TerminalClosers \cup {Reader}
Groups == {"leader", "front", "back"}
(* The calls made; the job-control groups beside the leader's; the groups  *)
(* that ignore SIGHUP and SIGINT; whether there is a timeout, a stop, a    *)
(* collected object, a start that fails; the room ProcessBudget may have;   *)
(* the bytes that come.                                                    *)
TerminalUse == [calls : SUBSET TerminalCallers, groups : SUBSET Groups, deaf : SUBSET Groups,
                timeout : BOOLEAN, stops : BOOLEAN, lost : BOOLEAN, fails : BOOLEAN,
                rooms : SUBSET Nat, bytes : 0 .. MaxBytes]

(* What the constants are assumed to be: a read asks for a byte at least,  *)
(* and the calls are calls of one method each.                             *)
TerminalConstantsOK ==
  /\ TerminalUses \subseteq TerminalUse
  /\ Buffer \in Nat /\ MaxRead \in Nat \ {0} /\ MaxBytes \in Nat
  /\ TerminalClosers \cap (Writers \cup Waiters \cup {Reader}) = {}
  /\ Reader \notin Writers \cup Waiters

VARIABLES
  state,    \* Created, Running, Ended once the child was reaped, or Failed
  flags,    \* timed_out, closing, closed, close_escalated, pty_eof, finished
  timers,   \* timeout_timer and close_timer: off, set, or expired and queued
  master,   \* the PTY master and its read loop: none, open, closed, done
  alive,    \* the process groups that hold the slave
  pending,  \* bytes in the PTY that were not read
  chunks, produced,
  arrived,  \* bytes of a read that has completed, and whose handler is queued
  afterEof,     \* history: bytes of such a read appended after the end was told
  slot,     \* holds one of max_running
  charged,  \* bytes charged to the global budget
  tCall,    \* the calls
  pos,      \* the offset the reader has come to, and whether it was told eof
  stop,
  object,   \* the JS object: held, posted, disposed, gone
  tUse

system == <<alive, pending>>
buffer == <<chunks, produced, charged, arrived, afterEof>>
script == <<pos, stop, object, tUse>>
terminalVars == <<state, flags, timers, master, system, buffer, slot, tCall, script>>

TerminalInit ==
  /\ tUse \in TerminalUses
  /\ state = "Created" /\ timers = [timeout |-> "off", close |-> "off"] /\ master = "none"
  /\ flags = [timedOut |-> FALSE, closing |-> FALSE, closed |-> FALSE,
              escalated |-> FALSE, eof |-> FALSE, finished |-> FALSE]
  /\ alive = {} /\ pending = 0
  /\ chunks = <<>> /\ produced = 0 /\ slot = FALSE /\ charged = 0 /\ arrived = 0 /\ afterEof = 0
  /\ tCall = [k \in TerminalCallers |-> "free"] /\ pos = [at |-> 0, eof |-> FALSE]
  /\ stop = FALSE /\ object = "held"

Started == state \in {"Running", "Ended"}
Least(a, b) == IF a < b THEN a ELSE b
Most(a, b) == IF a < b THEN b ELSE a
End(c) == c.from + Len(c.data)
Held(ch) == FoldSeq(LAMBDA c, n : Len(c.data) + n, 0, ch)
(* The last k elements of a sequence. *)
Latest(s, k) == SubSeq(s, Len(s) - k + 1, Len(s))

-----------------------------------------------------------------------------
(* State::notify: the timers that callers wait on are cancelled. *)
WokenCalls(kinds) == [k \in TerminalCallers |-> IF k \in kinds /\ tCall[k] = "waiting" THEN "awake" ELSE tCall[k]]
TimersCancelled(t) == [k \in DOMAIN t |-> IF t[k] = "set" THEN "off" ELSE t[k]]

(* State::try_finish, after flags f and timers t and with the child ended  *)
(* or not; wakes are notified in any case.                                 *)
TryFinishSession(f, t, ended, wakes) ==
  LET now == ~f.finished /\ ended /\ f.eof IN
  /\ flags' = [f EXCEPT !.finished = @ \/ now]
  /\ timers' = IF now THEN TimersCancelled(t) ELSE t
  /\ tCall' = WokenCalls(IF now THEN TerminalCallers ELSE wakes)

(* State::cancel_master: what was not read is lost with the master, but a  *)
(* read that has completed keeps its bytes until its handler runs.         *)
CancelMaster(f, t) ==
  IF master = "none" THEN flags' = f /\ timers' = t /\ UNCHANGED <<master, pending, tCall>>
  ELSE /\ master' = IF master = "open" THEN "closed" ELSE master
       /\ pending' = 0
       /\ TryFinishSession([f EXCEPT !.eof = TRUE], t, state = "Ended", Writers \cup {Reader})

(* signal_terminal: the foreground job, then the group of the leader; what *)
(* runs in the background is left alone.                                   *)
Killed == IF Started THEN {"leader", "front"} ELSE {}
HungUp == Killed \ tUse.deaf

-----------------------------------------------------------------------------
(* Terminal::start: nothing in it suspends. *)
StartTerminal ==
  /\ state = "Created" /\ ~flags.closed /\ object = "held" /\ ~stop
  /\ state' = "Running" /\ slot' = TRUE
  /\ master' = "open" /\ alive' = {"leader"} \cup tUse.groups
  /\ timers' = [timers EXCEPT !.timeout = IF tUse.timeout THEN "set" ELSE "off"]
  /\ UNCHANGED <<flags, pending, buffer, tCall, script>>

(* No slot is free, the PTY or the child fails: what was taken is returned *)
(* and close is the only call left.                                        *)
StartFails ==
  /\ state = "Created" /\ tUse.fails /\ ~flags.closed /\ object = "held" /\ ~stop
  /\ state' = "Failed"
  /\ UNCHANGED <<flags, timers, master, system, buffer, slot, tCall, script>>

(* State::evict: the oldest n bytes go, whole chunks and the first bytes   *)
(* of the one that stays in front.                                         *)
Evict(ch, n) ==
  LET First(k) == Held(SubSeq(ch, 1, k))
      stay == {k \in DOMAIN ch : First(k) > n}
      front == Min(stay)
      take == n - First(front - 1)
  IN  IF stay = {} THEN <<>>
      ELSE <<[from |-> ch[front].from + take,
              data |-> Latest(ch[front].data, Len(ch[front].data) - take)]>>
           \o SubSeq(ch, front + 1, Len(ch))

(* What stays of the buffer when size bytes come. *)
MakeRoom(size) ==
  LET over == Held(chunks) + size - Buffer
  IN  IF over > 0 THEN Evict(chunks, over) ELSE chunks

(* Mutant: the chunk gets the offset of the read and not of the bytes it   *)
(* keeps.                                                                  *)
OffsetOfRead(n, room) ==
  LET size == Least(n, Buffer)
      take == Least(size, room)
      bytes == [k \in 1 .. n |-> produced + k - 1]
  IN  /\ produced' = produced + n
      /\ chunks' = IF take = 0 THEN MakeRoom(size)
                   ELSE Append(MakeRoom(size), [from |-> produced, data |-> Latest(bytes, take)])
      /\ charged' = charged - (Held(chunks) - Held(MakeRoom(size))) + take

(* State::append of n bytes: what the buffer or the budget has no room for *)
(* loses its first ones.                                                   *)
Keep(n, room) ==
  LET size == Least(n, Buffer)
      take == Least(size, room)
      bytes == [k \in 1 .. n |-> produced + k - 1]
  IN  /\ produced' = produced + n
      /\ chunks' = IF take = 0 THEN MakeRoom(size)
                   ELSE Append(MakeRoom(size), [from |-> produced' - take, data |-> Latest(bytes, take)])
      /\ charged' = charged - (Held(chunks) - Held(MakeRoom(size))) + take

(* The read loop: a read completes, its handler appends the bytes, which   *)
(* may be after the master was cancelled, and after the close as well.     *)
LoopReadCompletes ==
  /\ master = "open" /\ arrived = 0
  /\ \E n \in 1 .. pending : arrived' = n /\ pending' = pending - n
  /\ UNCHANGED <<state, flags, timers, master, alive, chunks, produced, charged, afterEof, slot, tCall, script>>

LoopReadAppends ==
  /\ arrived > 0 /\ arrived' = 0
  /\ \E room \in tUse.rooms : Keep(arrived, room)
  /\ afterEof' = IF flags.eof THEN arrived ELSE 0
  /\ tCall' = WokenCalls({Reader})
  /\ UNCHANGED <<state, flags, timers, master, system, slot, script>>

(* Its end: the master was closed, or nobody holds the slave any more.     *)
ReadLoopEnds ==
  /\ arrived = 0
  /\ master = "closed" \/ (master = "open" /\ pending = 0 /\ alive = {})
  /\ master' = "done"
  /\ TryFinishSession([flags EXCEPT !.eof = TRUE], timers, state = "Ended", Writers \cup {Reader})
  /\ UNCHANGED <<state, system, buffer, slot, script>>

(* The wait for the child completes: on_process_exit. *)
ChildReaped ==
  /\ state = "Running" /\ "leader" \notin alive
  /\ state' = "Ended" /\ TryFinishSession(flags, timers, TRUE, {Reader})
  /\ UNCHANGED <<master, system, buffer, slot, script>>

Expires(t) ==
  /\ timers[t] = "set" /\ timers' = [timers EXCEPT ![t] = "expired"]
  /\ UNCHANGED <<state, flags, master, system, buffer, slot, tCall, script>>

(* The timeout handler, which does nothing once the child was reaped. *)
TerminalTimeoutFires ==
  /\ timers.timeout = "expired"
  /\ LET t == [timers EXCEPT !.timeout = "off"] IN
     IF flags.finished \/ state = "Ended"
     THEN timers' = t /\ UNCHANGED <<flags, master, system, tCall>>
     ELSE alive' = alive \ Killed /\ CancelMaster([flags EXCEPT !.timedOut = TRUE], t)
  /\ UNCHANGED <<state, buffer, slot, script>>

(* The handler at the end of the grace of close. *)
GraceEnds ==
  /\ timers.close = "expired"
  /\ LET t == [timers EXCEPT !.close = "off"] IN
     IF flags.finished THEN timers' = t /\ UNCHANGED <<flags, master, system, tCall>>
     ELSE alive' = alive \ Killed /\ CancelMaster([flags EXCEPT !.escalated = TRUE], t)
  /\ UNCHANGED <<state, buffer, slot, script>>

-----------------------------------------------------------------------------
(* State::collect: the bytes from .. to - 1, adjacent in the buffer, for a *)
(* reader at offset o; those between o and from were dropped.              *)
AvailableFrom == IF chunks = <<>> THEN produced ELSE chunks[1].from
CollectBytes(o) ==
  LET cursor == Most(o, AvailableFrom)
      later == {k \in DOMAIN chunks : End(chunks[k]) > cursor}
      from == IF later = {} THEN Most(cursor, produced) ELSE Most(cursor, chunks[Min(later)].from)
      Through(t, c) == IF c.from <= t /\ t < End(c) THEN Least(End(c), from + MaxRead) ELSE t
      to[k \in 0 .. Len(chunks)] == IF k = 0 THEN from ELSE Through(to[k - 1], chunks[k])
  IN  [from |-> from, to |-> to[Len(chunks)],
       eof |-> flags.finished /\ to[Len(chunks)] >= produced]

(* A method is called on a started terminal before its close. *)
MayCall(k) ==
  /\ k \in tUse.calls /\ tCall[k] = "free" /\ object = "held"
  /\ Started /\ ~flags.closing /\ ~flags.closed
Answers(k) == tCall' = [tCall EXCEPT ![k] = "done"]
Kept == UNCHANGED <<state, flags, timers, master, system, buffer, slot, stop, object, tUse>>

(* Terminal::read with a wait: the script reads on from nextOffset. *)
ReadsOn(r) ==
  /\ pos' = [at |-> r.to, eof |-> r.eof]
  /\ tCall' = [tCall EXCEPT ![Reader] = IF r.eof THEN "done" ELSE "free"]
ReadCalled ==
  /\ MayCall(Reader) /\ Kept
  /\ LET r == CollectBytes(pos.at) IN
     IF stop THEN Answers(Reader) /\ UNCHANGED pos
     ELSE IF r.to # pos.at \/ r.eof THEN ReadsOn(r)
     ELSE tCall' = [tCall EXCEPT ![Reader] = "waiting"] /\ UNCHANGED pos
ReadResumes ==
  /\ tCall[Reader] = "awake" /\ Kept
  /\ IF stop THEN Answers(Reader) /\ UNCHANGED pos ELSE ReadsOn(CollectBytes(pos.at))

(* Terminal::write: one at a time, the others wait to look again. *)
Busy == \E w \in Writers : tCall[w] = "writing"
Writes(k) ==
  /\ tCall' = [tCall EXCEPT ![k] = IF Busy THEN "waiting"
                                 ELSE IF flags.finished \/ flags.eof THEN "done" ELSE "writing"]
  /\ UNCHANGED pos
WriteCalled(k) ==
  MayCall(k) /\ Kept /\ IF stop THEN Answers(k) /\ UNCHANGED pos ELSE Writes(k)
WriteResumes(k) ==
  tCall[k] = "awake" /\ Kept /\ IF stop THEN Answers(k) /\ UNCHANGED pos ELSE Writes(k)
TerminalWriteCompletes(k) ==
  /\ tCall[k] = "writing" /\ Kept
  /\ tCall' = [WokenCalls(Writers) EXCEPT ![k] = "done"] /\ UNCHANGED pos

(* Terminal::wait_for_exit *)
WaitCalled(k) ==
  /\ MayCall(k) /\ Kept /\ UNCHANGED pos
  /\ tCall' = [tCall EXCEPT ![k] = IF stop \/ flags.finished THEN "done" ELSE "waiting"]
WaitResumes(k) == tCall[k] = "awake" /\ Kept /\ Answers(k) /\ UNCHANGED pos

(* A wait ends by its time, or by the stop of the runtime. *)
WaitEnds(k) ==
  /\ tCall[k] = "waiting" /\ Kept /\ UNCHANGED pos
  /\ stop \/ k \in Waiters \cup {Reader}
  /\ tCall' = [tCall EXCEPT ![k] = "awake"]

(* Terminal::signal *)
Signal ==
  /\ Started /\ ~flags.closing /\ ~flags.closed /\ ~flags.eof /\ object = "held"
  /\ alive' = alive \ ((IF "front" \in alive THEN {"front"} ELSE {"leader"}) \ tUse.deaf)
  /\ UNCHANGED <<state, flags, timers, master, pending, buffer, slot, tCall, script>>

-----------------------------------------------------------------------------
(* finalize_close, by the close k that found the session finished.         *)
FinalizeClose(k) ==
  /\ chunks' = <<>> /\ charged' = 0 /\ slot' = FALSE
  /\ flags' = [flags EXCEPT !.closing = @ \/ Started, !.closed = TRUE]
  /\ tCall' = [WokenCalls(TerminalCallers) EXCEPT ![k] = "done"]
  /\ UNCHANGED <<state, timers, master, system, produced, arrived, afterEof, script>>

(* Mutant: a close that finds another under way returns at once. *)
ReturnsAtOnce(k) ==
  /\ k \in tUse.calls /\ tCall[k] = "free" /\ object = "held"
  /\ IF flags.closing THEN Answers(k) /\ UNCHANGED <<state, flags, timers, master, system, buffer, slot, script>>
     ELSE IF ~Started \/ flags.finished THEN FinalizeClose(k)
     ELSE /\ tCall' = [tCall EXCEPT ![k] = "waiting"]
          /\ flags' = [flags EXCEPT !.closing = TRUE]
          /\ alive' = alive \ HungUp /\ timers' = [timers EXCEPT !.close = "set"]
          /\ UNCHANGED <<state, master, pending, buffer, slot, script>>

(* Terminal::async_close *)
TerminalCloseCalled(k) ==
  /\ k \in tUse.calls /\ tCall[k] = "free" /\ object = "held"
  /\ IF flags.closed THEN Answers(k) /\ UNCHANGED <<state, flags, timers, master, system, buffer, slot, script>>
     ELSE IF ~Started \/ flags.finished THEN FinalizeClose(k)
     ELSE /\ tCall' = [tCall EXCEPT ![k] = "waiting"]
          /\ flags' = [flags EXCEPT !.closing = TRUE]
          /\ IF flags.closing THEN UNCHANGED <<alive, timers>>
             ELSE alive' = alive \ HungUp /\ timers' = [timers EXCEPT !.close = "set"]
          /\ UNCHANGED <<state, master, pending, buffer, slot, script>>

TerminalCloseResumes(k) ==
  /\ tCall[k] = "awake"
  /\ IF flags.closed THEN Answers(k) /\ UNCHANGED <<state, flags, timers, master, system, buffer, slot, script>>
     ELSE FinalizeClose(k)

(* The JS object is collected while no call holds it: ~Terminal posts      *)
(* begin_dispose; the state dies with the last handler that shares it.     *)
ObjectLost ==
  /\ tUse.lost /\ object = "held"
  /\ \A k \in TerminalCallers : tCall[k] \in {"free", "done"}
  /\ object' = "posted"
  /\ UNCHANGED <<state, flags, timers, master, system, buffer, slot, tCall, pos, stop, tUse>>

DisposesTerminal ==
  /\ object = "posted" /\ object' = "disposed"
  /\ IF flags.closed THEN UNCHANGED <<flags, timers, master, system, tCall>>
     ELSE alive' = alive \ Killed /\ CancelMaster([flags EXCEPT !.closing = TRUE], TimersCancelled(timers))
  /\ UNCHANGED <<state, buffer, slot, pos, stop, tUse>>

StateDies ==
  /\ object = "disposed" /\ object' = "gone"
  /\ Started => state = "Ended" /\ master = "done"
  /\ \A t \in DOMAIN timers : timers[t] = "off"
  /\ chunks' = <<>> /\ charged' = 0 /\ slot' = FALSE
  /\ UNCHANGED <<state, flags, timers, master, system, produced, arrived, afterEof, tCall, pos, stop, tUse>>

-----------------------------------------------------------------------------
(* Who holds the slave writes to it, and leaves when it likes. *)
Outputs ==
  /\ alive # {} /\ master = "open" /\ produced + arrived + pending < tUse.bytes
  /\ pending' = pending + 1
  /\ UNCHANGED <<state, flags, timers, master, alive, buffer, slot, tCall, script>>
Leaves(g) ==
  /\ g \in alive /\ alive' = alive \ {g}
  /\ UNCHANGED <<state, flags, timers, master, pending, buffer, slot, tCall, script>>
RequestStop ==
  /\ tUse.stops /\ ~stop /\ stop' = TRUE
  /\ UNCHANGED <<state, flags, timers, master, system, buffer, slot, tCall, pos, object, tUse>>

TerminalResumes ==
  \/ ReadResumes
  \/ \E k \in Writers : WriteResumes(k)
  \/ \E k \in Waiters : WaitResumes(k)
  \/ \E k \in TerminalClosers : TerminalCloseResumes(k)
Called ==
  \/ ReadCalled \/ Signal
  \/ \E k \in Writers : WriteCalled(k)
  \/ \E k \in Waiters : WaitCalled(k)
  \/ \E k \in TerminalClosers : TerminalCloseCalled(k)
Handlers ==
  \/ LoopReadCompletes \/ LoopReadAppends \/ ReadLoopEnds
  \/ ChildReaped \/ TerminalTimeoutFires \/ GraceEnds \/ DisposesTerminal \/ StateDies

TerminalNext ==
  \/ StartTerminal \/ StartFails \/ Called \/ TerminalResumes \/ Handlers
  \/ \E t \in DOMAIN timers : Expires(t)
  \/ \E k \in Writers : TerminalWriteCompletes(k)
  \/ \E k \in TerminalCallers \ TerminalClosers : WaitEnds(k)
  \/ ObjectLost \/ Outputs \/ RequestStop \/ \E g \in Groups : Leaves(g)

(* The executor runs its handlers, time passes, the kernel reaps whom it   *)
(* killed; nobody need read its input, write or leave.  A write to a PTY   *)
(* that is closed or that nobody holds fails.                              *)
TerminalFairness ==
  /\ WF_terminalVars(LoopReadCompletes) /\ WF_terminalVars(LoopReadAppends)
  /\ WF_terminalVars(ReadLoopEnds) /\ WF_terminalVars(ChildReaped)
  /\ WF_terminalVars(TerminalResumes) /\ WF_terminalVars(TerminalTimeoutFires) /\ WF_terminalVars(GraceEnds)
  /\ WF_terminalVars(DisposesTerminal) /\ WF_terminalVars(StateDies)
  /\ \A t \in {"timeout", "close"} : WF_terminalVars(Expires(t))
  /\ \A k \in Writers : WF_terminalVars((master # "open" \/ alive = {}) /\ TerminalWriteCompletes(k))

TerminalSpec == TerminalInit /\ [][TerminalNext]_terminalVars /\ TerminalFairness

-----------------------------------------------------------------------------
(* terminal.hpp: "callers can detect loss when their cursor falls behind". *)
(* From any offset a read returns bytes that lie side by side, each the    *)
(* byte of its offset; it skips none that is kept, and gets on unless all  *)
(* was read.  What was called the end stays it, but for the bytes of one   *)
(* read that had completed when the master was cancelled: their handler    *)
(* appends them after the reader was told eof.                             *)
FaithfulReads ==
  /\ \A o \in 0 .. produced :
       LET r == CollectBytes(o)
           kept == {c \in {chunks[k] : k \in DOMAIN chunks} : End(c) > o}
       IN  /\ r.from >= o /\ r.to - r.from \in 0 .. MaxRead /\ (r.to = o => o = produced)
           /\ \A x \in r.from .. r.to - 1 :
                \E c \in kept : x \in c.from .. End(c) - 1 /\ c.data[x - c.from + 1] = x
           /\ \A c \in kept : Most(c.from, o) >= r.from
  /\ pos.eof => pos.at = produced \/ (afterEof > 0 /\ pos.at + afterEof = produced)

(* budget.hpp: a session holds a slot and has its bytes charged from start *)
(* until its close or its death, not more, not less and never twice; it    *)
(* keeps no more than maxBufferBytes.  Bytes appended after the close are  *)
(* charged until the session's state dies.                                 *)
TerminalBudget ==
  /\ charged = Held(chunks) /\ charged <= Buffer
  /\ slot <=> Started /\ ~flags.closed /\ object # "gone"

(* What readers and the budget hold a terminal to. *)
BufferExact == FaithfulReads /\ TerminalBudget

(* What a closer sees of the session. *)
ClosePhase ==
  IF flags.closed \/ (flags.closing /\ (flags.finished \/ ~Started)) THEN "closed"
  ELSE IF flags.closing THEN "closing" ELSE "open"

TerminalBarrier == INSTANCE CloseBarrier WITH
  Work <- {"session"}, Callers <- TerminalClosers,
  phase <- ClosePhase,
  live <- IF Started /\ ~flags.finished THEN {"session"} ELSE {},
  asked <- {k \in TerminalClosers : tCall[k] # "free"},
  done <- {k \in TerminalClosers : tCall[k] = "done"}

(* terminal.hpp: close awaits "real reap and PTY EOF", for every caller:   *)
(* no call of close returns before the session has finished, however it    *)
(* came to its end and whoever else closes.                                *)
TerminalImplementsBarrier == TerminalBarrier!Safety

(* Whoever closes gets there, although a group in the background keeps the *)
(* PTY and the child ignores SIGHUP (terminal.cpp: async_close).           *)
TerminalClosesEnd == TerminalBarrier!Liveness

(* A timeout ends the session, whoever holds the PTY, if the child did not *)
(* end before it.                                                          *)
TimeoutBounds ==
  <>[](/\ flags.timedOut => flags.finished
       /\ state = "Running" => timers.timeout = "off")

(* Reads, writes and waits return once the session has finished, and a     *)
(* session that nobody holds returns its slot.                             *)
CallsEnd ==
  <>[](/\ flags.finished => \A k \in TerminalCallers : tCall[k] \in {"free", "done"}
       /\ object \in {"posted", "disposed"} => ~slot)
=============================================================================
