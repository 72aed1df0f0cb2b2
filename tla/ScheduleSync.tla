----------------------------- MODULE ScheduleSync -----------------------------
(***************************************************************************)
(* One cron schedule, kept twice: as a row of the control plane's D1       *)
(* database (ScheduleService) and as a row of the agent's SQLite database  *)
(* (SchedulerStore), which fires it.  The control plane pushes its row     *)
(* with PUT /schedulers/:id; the agent claims due occurrences on its own   *)
(* and acknowledges them with POST /api/schedules/:id/occurrences/ack.     *)
(*                                                                         *)
(* Every operation of ScheduleService is a chain of awaited steps, and     *)
(* every D1 statement, request and SQLite operation is one action here:    *)
(*   call[c]  where the control plane's part of operation c is, with the   *)
(*            row it read or is about to write;                            *)
(*   net      the requests to the agent that are on their way or being     *)
(*            handled.  They may be lost, overtake each other and outlive  *)
(*            their caller's 12 s timeout; a PUT's handler reads the local *)
(*            row and writes it back in two operations of the Store.       *)
(* SQLite operations of different handlers interleave freely, as those of  *)
(* the Store's lane do.  Both sides read one clock.  A cron expression in  *)
(* its time zone is the set of instants at which it fires.                 *)
(***************************************************************************)
EXTENDS Integers, FiniteSets, FiniteSetsExt

CONSTANTS
  Confs,       \* configurations a client may give the schedule
  Requests,    \* client requests the control plane may be serving
  Ops,         \* what clients ask for in an instance: "patch", "delete", "runNow"
  Acks,        \* occurrence acks the control plane may be serving
  None,        \* no row, no cursor
  MaxSteps,    \* MAX_SCHEDULE_ADVANCE_STEPS, 32 in the code
  MaxTime,     \* bound: the last instant the clock reaches
  MaxRev,      \* bound: revisions
  MaxNet,      \* bound: requests to the agent at a time
  MaxCrashes   \* bound: agent crashes and Worker evictions

Calls == Requests \cup Acks

Config == [cron : SUBSET Int, enabled : BOOLEAN,
           concurrency : {"allow", "forbid", "replace", "queue"},
           misfire : {"run_once", "skip", "catch_up"}, max : 0..100]

ASSUME ScheduleConstantsOK ==
  /\ Confs \subseteq Config /\ \A k \in Confs : IsFiniteSet(k.cron)
  /\ Ops \subseteq {"patch", "delete", "runNow"}
  /\ Requests \cap Acks = {} /\ None \notin Calls
  /\ None \notin Int /\ None \notin [rev : Int, conf : Confs, next : Int \cup {None}]
  /\ MaxSteps \in Nat \ {0} /\ MaxTime \in Nat /\ MaxRev \in Nat
  /\ MaxNet \in Nat /\ MaxCrashes \in Nat

(* An expression that fires at all goes on firing beyond the clock's bound: *)
(* the search for the next instant (366 days ahead in the code) finds one. *)
ASSUME CronGoesOn ==
  \A k \in Confs : k.cron = {} \/ \E u \in k.cron : u > MaxTime

VARIABLES
  now,
  cp,        \* the row in D1 [rev, conf, next], or None
  ag,        \* the row in the agent's schedulers table, or None
  call, net,
  pump,      \* fireDueSchedulers: the row listDue returned and its nowMs
  created,   \* the schedule's (random) id has been drawn
  fired,     \* tasks inserted for occurrences [rev, slot, forbid]
  active,    \* those still queued or running
  claimed,   \* history: <<revision, cursor>> of every claim that won
  crashes

vars == <<now, cp, ag, call, net, pump, created, fired, active, claimed, crashes>>
cpSide == <<cp, created>>
agentSide == <<ag, pump, fired, active, claimed>>

(* A disabled row has no cursor. *)
Rows == {r \in [rev : 1..MaxRev, conf : Confs, next : Int \cup {None}] :
           ~r.conf.enabled => r.next = None}
Idle == [op |-> "none", at |-> "idle", row |-> None, to |-> None, count |-> 0]

-----------------------------------------------------------------------------
(* Cron arithmetic (cron-next.ts, schedule-logic.ts). *)

After(cron, t) == {u \in cron : u > t}
Before(S, u)   == Cardinality({v \in S : v < u})
Least(S)       == IF S = {} THEN None ELSE Min(S)
FirstN(S, n)   == {u \in S : Before(S, u) < n}

(* nextCronRunAtIso: undefined when there is none within a year. *)
NextAfter(cron, t) == Least(After(cron, t))

(* The n-th successor. *)
Nth(cron, t, n) == Least({u \in After(cron, t) : Before(After(cron, t), u) = n - 1})

(* advancePastNow: chained from `from', past t or the step cap. *)
PastNow(cron, from, t) ==
  Least({u \in After(cron, from) : u > t \/ Before(After(cron, from), u) >= MaxSteps})

Later(a, b) == IF a = None THEN b ELSE IF b = None THEN a ELSE Max({a, b})

(* planMisfire: what a claim of a due cursor enqueues, and where it leaves  *)
(* the cursor.                                                             *)
Missed(k, cursor, t) == FirstN({u \in {cursor} \cup After(k.cron, cursor) : u <= t}, MaxSteps)

CatchUp(k, cursor, t) ==
  LET missed == Missed(k, cursor, t)
      slots  == FirstN(missed, Max({1, Min({k.max, MaxSteps})}))
      next[last \in {cursor} \cup k.cron] ==
        LET after  == NextAfter(k.cron, last)
            past   == PastNow(k.cron, last, t)
            behind == after # None /\ after <= t
        IN IF behind /\ past # None /\ slots = missed THEN past ELSE after
  IN [slots |-> slots, next |-> next[Max(slots)]]

PlanMisfire(k, cursor, t) ==
  IF k.misfire = "catch_up" THEN CatchUp(k, cursor, t)
  ELSE [slots |-> IF k.misfire = "skip" THEN {} ELSE {cursor},
        next  |-> PastNow(k.cron, cursor, t)]

(* authoritativeNextAfterOccurrence, as ackOccurrence calls it. *)
Authoritative(k, slot, t, count) ==
  IF k.misfire = "catch_up" /\ count > 0 THEN Nth(k.cron, slot, Min({count, MaxSteps}))
                                         ELSE PastNow(k.cron, slot, t)

FirstCursor(k) == IF k.enabled THEN NextAfter(k.cron, now) ELSE None

-----------------------------------------------------------------------------
(* ScheduleService.  From the moment the row to push is read, a call that  *)
(* does nothing with the agent's answer is only its request; create and    *)
(* delete await the answer (`from').                                       *)

GoTo(c, point) == call' = [call EXCEPT ![c].at = point]
End(c)  == call' = [call EXCEPT ![c] = Idle]

Start(c, o, point, row) ==
  /\ call[c] = Idle
  /\ call' = [call EXCEPT ![c] = [Idle EXCEPT !.op = o, !.at = point, !.row = row]]

Send(m) == Cardinality(net) < MaxNet /\ net' = net \cup {m}
Detach(c) == net' = {IF m.from = c THEN [m EXCEPT !.from = None] ELSE m : m \in net}

(* sync: PUT /schedulers/:id with a row that was read. *)
Put(from, row) ==
  LET next == IF row.next = None THEN FirstCursor(row.conf) ELSE row.next
  IN Send([from |-> from, op |-> "put", at |-> "sent", row |-> [row EXCEPT !.next = next]])

(* create: INSERT with revision 1. *)
Create(c, k) ==
  /\ ~created
  /\ Start(c, "create", "get", None)
  /\ created' = TRUE
  /\ cp' = [rev |-> 1, conf |-> k, next |-> FirstCursor(k)]
  /\ UNCHANGED <<now, agentSide, net, crashes>>

(* patch, applyUpdate: read the row, compute the next revision. *)
Patch(c, k) ==
  /\ cp # None /\ cp.rev < MaxRev /\ k # cp.conf
  /\ Start(c, "patch", "update", [rev |-> cp.rev + 1, conf |-> k, next |-> FirstCursor(k)])
  /\ UNCHANGED <<now, cpSide, agentSide, net, crashes>>

(* Variant: an UPDATE without the revision. *)
UpdateIfExists(row) == cp # None

(* applyUpdate: UPDATE ... WHERE id = ? AND revision = ?, else 409. *)
UpdateHits(row) == cp # None /\ cp.rev = row.rev - 1

Update(c) ==
  /\ call[c].at = "update"
  /\ LET row == call[c].row IN
       IF UpdateHits(row) THEN cp' = row /\ Put(None, row) ELSE UNCHANGED <<cp, net>>
  /\ End(c)
  /\ UNCHANGED <<now, created, agentSide, crashes>>

(* delete: the row exists; its backend is told first. *)
Delete(c) ==
  /\ cp # None
  /\ Start(c, "delete", "await", None)
  /\ Send([from |-> c, op |-> "delete", at |-> "sent", row |-> None])
  /\ UNCHANGED <<now, cpSide, agentSide, crashes>>

(* runNow: read the row, have a task created from it (POST /tasks).  The    *)
(* cursor it will move is the one it read (bound: not beyond MaxTime).     *)
RunNow(c) ==
  /\ cp # None /\ (cp.next # None => cp.next <= MaxTime)
  /\ Start(c, "runNow", "cas", cp)
  /\ UNCHANGED <<now, cpSide, agentSide, net, crashes>>

(* tasks.create threw, or found the task of an earlier request. *)
TaskRefused(c) ==
  /\ call[c].op = "runNow" /\ call[c].at = "cas"
  /\ End(c)
  /\ UNCHANGED <<now, cpSide, agentSide, net, crashes>>

(* Variant: an UPDATE without the cursor. *)
RunNowAnyCursor(row) == cp # None /\ cp.rev = row.rev

(* UPDATE ... WHERE id = ? AND revision = ? AND next_run_at = ?, without    *)
(* the last condition when no cursor was read.  The cursor leaves the      *)
(* occurrence that was read, or now.                                       *)
RunNowHits(row) == cp # None /\ cp.rev = row.rev /\ (row.next # None => cp.next = row.next)

RunNowMoves(c) ==
  /\ call[c].op = "runNow" /\ call[c].at = "cas"
  /\ LET row  == call[c].row
         from == IF row.next = None THEN now ELSE row.next
         to   == IF row.conf.enabled THEN NextAfter(row.conf.cron, from) ELSE None
     IN cp' = IF RunNowHits(row) THEN [cp EXCEPT !.next = to] ELSE cp
  /\ GoTo(c, "get")
  /\ UNCHANGED <<now, created, agentSide, net, crashes>>

(* ackOccurrence, up to its UPDATE: the ack carries revision, scheduled_for *)
(* and enqueued_count.  It is answered without an UPDATE when the schedule *)
(* is gone, disabled or at another revision, and when the cursor is past   *)
(* the occurrence (already_advanced) or elsewhere (cursor_mismatch).       *)
AckApplies(ack) ==
  /\ cp # None /\ cp.rev = ack.row.rev /\ cp.conf.enabled
  /\ cp.next \in {ack.row.next, None}

AckRead(c) ==
  /\ call[c].at = "ack"
  /\ LET ack == call[c]
         to  == Authoritative(cp.conf, ack.row.next, now, ack.count)
         row == [cp EXCEPT !.next = ack.row.next]
     IN IF AckApplies(ack)
          THEN call' = [call EXCEPT ![c] = [op |-> "ack", at |-> "cas", row |-> row,
                                            to |-> to, count |-> ack.count]]
          ELSE End(c)
  /\ UNCHANGED <<now, cpSide, agentSide, net, crashes>>

(* UPDATE ... WHERE id = ? AND revision = ? AND next_run_at = ?, of the row *)
(* that was read.                                                          *)
AckHits(row) == cp # None /\ cp.rev = row.rev /\ cp.next = row.next

AckMoves(c) ==
  /\ call[c].op = "ack" /\ call[c].at = "cas"
  /\ IF AckHits(call[c].row)
       THEN cp' = [cp EXCEPT !.next = call[c].to] /\ GoTo(c, "get")
       ELSE UNCHANGED cp /\ End(c)
  /\ UNCHANGED <<now, created, agentSide, net, crashes>>

(* this.get(id) and sync of the row as it is now. *)
GetAndSync(c) ==
  /\ call[c].at = "get"
  /\ LET waits == cp # None /\ call[c].op = "create" IN
       /\ IF waits THEN GoTo(c, "await") ELSE End(c)
       /\ IF cp = None THEN UNCHANGED net ELSE Put(IF waits THEN c ELSE None, cp)
  /\ UNCHANGED <<now, cpSide, agentSide, crashes>>

(* reconcile: the list is read once, each row of it synced later. *)
Reconcile ==
  /\ cp # None
  /\ Put(None, cp)
  /\ UNCHANGED <<now, cpSide, call, agentSide, crashes>>

(* No answer, an error, or none within 12 s: the request may still be on    *)
(* its way, or have been handled.  create rolls its row back; delete goes  *)
(* on all the same.                                                        *)
Failed(c) ==
  /\ call[c].at = "await"
  /\ Detach(c)
  /\ GoTo(c, "drop")
  /\ UNCHANGED <<now, cpSide, agentSide, crashes>>

(* DELETE FROM schedules WHERE id = ? *)
DropRow(c) ==
  /\ call[c].at = "drop"
  /\ cp' = None
  /\ End(c)
  /\ UNCHANGED <<now, created, agentSide, net, crashes>>

(* The Worker is evicted: the rest of the call is not executed. *)
Evicted(c) ==
  /\ call[c] # Idle /\ crashes < MaxCrashes
  /\ crashes' = crashes + 1
  /\ End(c)
  /\ Detach(c)
  /\ UNCHANGED <<now, cpSide, agentSide>>

-----------------------------------------------------------------------------
(* The agent's PUT and DELETE /schedulers/:id (TaskQueue.upsertScheduler,   *)
(* SchedulerStore.upsertFromWire, remove).                                 *)

(* The 204, for a caller that still waits. *)
Answer(m) ==
  /\ net' = net \ {m}
  /\ IF m.from = None THEN UNCHANGED call
     ELSE IF m.op = "delete" THEN GoTo(m.from, "drop") ELSE End(m.from)

(* 409 capability_unavailable for what this backend does not implement. *)
Supported(k) == \/ k.concurrency = "queue"
                \/ k.concurrency = "forbid" /\ k.misfire # "catch_up"

(* Variant: the comparison of revisions the wrong way round. *)
IgnoredNewer(local, wire) == local # None /\ wire.rev > local.rev

(* mergeSchedulerWire and what upsertFromWire makes of its result. *)
Ignored(local, wire) == local # None /\ wire.rev < local.rev

MergedCursor(local, wire) ==
  LET same == local # None /\ wire.rev = local.rev
      next == IF same THEN Later(local.next, wire.next) ELSE wire.next
  IN IF ~wire.conf.enabled THEN None
     ELSE IF next = None THEN FirstCursor(wire.conf) ELSE next

Merged(local, wire) == [wire EXCEPT !.next = MergedCursor(local, wire)]

(* The PUT arrives: SELECT the local row, merge. *)
PutRead(m) ==
  /\ m.op = "put" /\ m.at = "sent"
  /\ CASE ~Supported(m.row.conf) -> net' = net \ {m} /\ UNCHANGED call
       [] Supported(m.row.conf) /\ Ignored(ag, m.row) -> Answer(m)
       [] OTHER -> /\ net' = (net \ {m}) \cup {[m EXCEPT !.at = "write", !.row = Merged(ag, @)]}
                   /\ UNCHANGED call
  /\ UNCHANGED <<now, cpSide, agentSide, crashes>>

(* writeRow: INSERT ... ON CONFLICT(id) DO UPDATE, unconditional. *)
PutWrite(m) ==
  /\ m.at = "write"
  /\ ag' = m.row
  /\ Answer(m)
  /\ UNCHANGED <<now, cpSide, pump, fired, active, claimed, crashes>>

DeleteArrives(m) ==
  /\ m.op = "delete"
  /\ ag' = None
  /\ Answer(m)
  /\ UNCHANGED <<now, cpSide, pump, fired, active, claimed, crashes>>

(* The request is lost on its way, or finds the agent down. *)
Lost(m) ==
  /\ m.at = "sent"
  /\ net' = net \ {m}
  /\ UNCHANGED <<now, cpSide, call, agentSide, crashes>>

-----------------------------------------------------------------------------
(* The agent's control loop (TaskQueue.fireDueSchedulers). *)

Due(row, t) == row # None /\ row.conf.enabled /\ row.next # None /\ row.next <= t

(* listDue at nowMs. *)
ListDue ==
  /\ pump = None /\ Due(ag, now)
  /\ pump' = [row |-> ag, at |-> now]
  /\ UNCHANGED <<now, cpSide, ag, call, net, fired, active, claimed, crashes>>

(* Variant: what forbid suppresses is not claimed either. *)
ClaimUnlessSuppressed(row) ==
  /\ ag # None /\ ag.rev = row.rev /\ ag.conf.enabled /\ ag.next = row.next
  /\ row.conf.concurrency = "queue" \/ active = {}

(* The UPDATE's condition: revision, enabled and cursor as listed. *)
ClaimHolds(row) == ag # None /\ ag.rev = row.rev /\ ag.conf.enabled /\ ag.next = row.next

(* Variant: INSERTs without NOT EXISTS (... status IN ('queued', 'running')). *)
AdmittedAlways(row, slots) ==
  {[rev |-> row.rev, slot |-> u, forbid |-> row.conf.concurrency # "queue"] :
     u \in {v \in slots : ~\E f \in fired : f.rev = row.rev /\ f.slot = v}}

(* The INSERTs' conditions: concurrency, and ON CONFLICT(id) DO NOTHING.    *)
(* forbid never plans two slots (Supported).                               *)
Admitted(row, slots) ==
  LET exclusive == row.conf.concurrency # "queue" IN
    IF exclusive /\ active # {} THEN {}
    ELSE {[rev |-> row.rev, slot |-> u, forbid |-> exclusive] :
            u \in {v \in slots : ~\E f \in fired : f.rev = row.rev /\ f.slot = v}}

(* reportScheduleOccurrenceAck: at most one POST, which may not arrive. *)
SendAck(row, count) ==
  \/ UNCHANGED call
  \/ \E c \in Acks :
       /\ call[c] = Idle
       /\ call' = [call EXCEPT ![c] = [op |-> "ack", at |-> "ack", row |-> row,
                                      to |-> None, count |-> count]]

(* claimAndEnqueue: one transaction.  Its INSERTs are executed whether the  *)
(* UPDATE matched or not.                                                  *)
Claim ==
  /\ pump # None
  /\ pump' = None
  /\ \E plan \in {PlanMisfire(pump.row.conf, pump.row.next, pump.at)} :
     \E new \in {Admitted(pump.row, plan.slots)} :
       /\ fired' = fired \cup new /\ active' = active \cup new
       /\ IF ClaimHolds(pump.row)
            THEN /\ ag' = [ag EXCEPT !.next = plan.next]
                 /\ claimed' = claimed \cup {<<pump.row.rev, pump.row.next>>}
                 /\ SendAck(pump.row, Cardinality(new))
            ELSE UNCHANGED <<ag, claimed, call>>
  /\ UNCHANGED <<now, cpSide, net, crashes>>

(* The worker finishes a task (AgentTaskQueue). *)
TaskEnds ==
  /\ \E i \in active : active' = active \ {i}
  /\ UNCHANGED <<now, cpSide, ag, call, net, pump, fired, claimed, crashes>>

(* The agent process dies: its handlers and its loop forget what they read. *)
AgentCrash ==
  /\ crashes < MaxCrashes
  /\ crashes' = crashes + 1
  /\ pump' = None
  /\ net' = {m \in net : m.at = "sent"}
  /\ UNCHANGED <<now, cpSide, call, ag, fired, active, claimed>>

Tick ==
  /\ now < MaxTime
  /\ now' = now + 1
  /\ UNCHANGED <<cpSide, call, net, agentSide, crashes>>

-----------------------------------------------------------------------------
Init ==
  /\ now = 0
  /\ cp = None /\ ag = None /\ created = FALSE
  /\ call = [c \in Calls |-> Idle] /\ net = {}
  /\ pump = None /\ fired = {} /\ active = {} /\ claimed = {}
  /\ crashes = 0

ClientStep(c) == \/ \E k \in Confs : Create(c, k)
                 \/ "patch" \in Ops /\ \E k \in Confs : Patch(c, k)
                 \/ "delete" \in Ops /\ Delete(c)
                 \/ "runNow" \in Ops /\ RunNow(c)
CallStep(c) == \/ Update(c) \/ TaskRefused(c) \/ RunNowMoves(c) \/ AckRead(c) \/ AckMoves(c)
               \/ GetAndSync(c) \/ Failed(c) \/ DropRow(c)

Next ==
  \/ \E c \in Requests : ClientStep(c)
  \/ Reconcile
  \/ \E c \in Calls : CallStep(c) \/ Evicted(c)
  \/ \E m \in net : PutRead(m) \/ PutWrite(m) \/ DeleteArrives(m) \/ Lost(m)
  \/ ListDue \/ Claim \/ TaskEnds \/ AgentCrash \/ Tick

Spec == Init /\ [][Next]_vars

(* The Worker runs on and its five-minute trigger fires again and again;    *)
(* the agent's loop runs every few seconds, so that a PUT does not fall    *)
(* between listDue and the claim every time; if the control plane sends    *)
(* again and again, the agent reads some of it.  Nothing is assumed of     *)
(* clients, of acks or of the clock.                                       *)
Fairness ==
  /\ WF_vars(Reconcile) /\ WF_vars(ListDue) /\ WF_vars(Claim)
  /\ SF_vars(Claim /\ ClaimHolds(pump.row))
  /\ \A c \in Calls : WF_vars(CallStep(c))
  /\ SF_vars(\E m \in net : PutRead(m))
  /\ WF_vars(\E m \in net : PutWrite(m) \/ DeleteArrives(m))

FairSpec == Spec /\ Fairness

-----------------------------------------------------------------------------
CallType == [op : {"none", "create", "patch", "delete", "runNow", "ack"},
             at : {"idle", "update", "cas", "ack", "get", "await", "drop"},
             row : Rows \cup {None}, to : Int \cup {None}, count : Nat]
Message == [from : Calls \cup {None}, op : {"put"}, at : {"sent", "write"}, row : Rows]
           \cup [from : Calls \cup {None}, op : {"delete"}, at : {"sent"}, row : {None}]

(* Every variable keeps its type. *)
TypeOK ==
  /\ now \in Nat /\ cp \in Rows \cup {None} /\ ag \in Rows \cup {None}
  /\ call \in [Calls -> CallType] /\ net \subseteq Message
  /\ pump = None \/ (pump.row \in Rows /\ Due(pump.row, pump.at))
  /\ created \in BOOLEAN /\ crashes \in Nat
  /\ active \subseteq fired /\ claimed \subseteq (1..MaxRev) \X Int

(* applyUpdate's CAS on revision: a revision number names one              *)
(* configuration, so an agent that holds the control plane's revision runs *)
(* its configuration, whatever requests were concurrent, lost or late.     *)
SameRevisionSameConf == cp # None /\ ag # None /\ ag.rev = cp.rev => ag.conf = cp.conf

(* concurrency `forbid': two occurrences that were inserted under it are    *)
(* never queued or running together, across revisions, re-claims and       *)
(* crashes.                                                                *)
ForbidNeverOverlaps == \A i, j \in active : i.forbid /\ j.forbid => i = j

(* ackOccurrence and runNow race on one cursor: within a revision the       *)
(* control plane's next_run_at never moves back, and it leaves an           *)
(* occurrence only because the agent has claimed that occurrence of that    *)
(* revision, or by "run now".                                               *)
CursorMovesByClaim ==
  [][cp # None /\ cp' # None /\ cp'.rev = cp.rev /\ cp'.next # cp.next
       => /\ cp'.next = None \/ (cp.next # None /\ cp.next < cp'.next)
          /\ \/ <<cp.rev, cp.next>> \in claimed
             \/ \E c \in Requests : call[c].op = "runNow" /\ call[c].at = "cas"
                                   /\ call'[c].at = "get"]_vars

(* reconcile repairs what failed syncs, crashes and stale writes left: the  *)
(* agent is back in step with the control plane again and again, unless it *)
(* does not support the policy.                                            *)
Converges ==
  []<>(cp = None \/ ~Supported(cp.conf) \/ (ag # None /\ ag.rev = cp.rev))

(* No occurrence stays due, not even in a backlog that one claim does not   *)
(* clear: the loop claims them all, unless a PUT that read the row before  *)
(* a claim puts the cursor back again and again (upsertFromWire).          *)
Rewinds ==
  ag # None /\ ag' # None /\ ag'.rev = ag.rev /\ ag.next # None /\ ag'.next # None /\ ag'.next < ag.next
NothingStaysDue == []<>~Due(ag, now) \/ []<><<Rewinds>>_vars

(* schedule-semantics.ts: "disable only prevents further claims             *)
(* (`enabled = 1` in CAS)": a row that is disabled, or gone, enqueues       *)
(* nothing more.                                                           *)
DisabledFiresNothing == [][fired' # fired => ag # None /\ ag.conf.enabled]_vars

(* REVISION_MERGE_SPEC, "lower_rev: ignore" and "same_rev:                  *)
(* keep_later_next_cursor": the agent's revision never goes down, and its  *)
(* cursor never goes back within one.                                      *)
MergeNeverRewinds ==
  [][ag # None /\ ag' # None /\ ag.next # None /\ ag'.next # None
       => \/ ag'.rev > ag.rev
          \/ ag'.rev = ag.rev /\ ag.next <= ag'.next]_vars

(* schedule-semantics.ts: backends "advance offline ..., then reconcile via *)
(* revision + occurrence ack": an ack of an enabled schedule's current     *)
(* revision finds the cursor past its occurrence, or moves it there.       *)
AckReconciles ==
  [][\A c \in Acks :
       /\ call[c].at = "ack" /\ call'[c] = Idle /\ crashes' = crashes
       /\ cp # None /\ cp.rev = call[c].row.rev /\ cp.conf.enabled
       => cp.next > call[c].row.next]_vars
=============================================================================
