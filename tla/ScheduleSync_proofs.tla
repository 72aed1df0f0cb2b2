------------------------- MODULE ScheduleSync_proofs -------------------------
(***************************************************************************)
(* Three safety theorems about a schedule kept on both sides, for any       *)
(* configurations, any number of requests in flight and any bounds:        *)
(* SameRevisionSameConf, ForbidNeverOverlaps and CursorMovesByClaim.       *)
(***************************************************************************)
EXTENDS ScheduleSync, FiniteSetTheorems, WellFoundedInduction, TLAPS

-----------------------------------------------------------------------------
(* A revision number names one configuration.  A new number is given by    *)
(* UPDATE ... WHERE revision = ? alone, and it is larger than every number *)
(* that any row, stored or on its way, carries.                            *)

IsRow(x) == x.rev \in Int /\ x = [rev |-> x.rev, conf |-> x.conf, next |-> x.next]
IsCall(x) == x = [op |-> x.op, at |-> x.at, row |-> x.row, to |-> x.to, count |-> x.count]
IsMessage(m) == m = [from |-> m.from, op |-> m.op, at |-> m.at, row |-> m.row]

(* Every row that the agent has or may still be given, and the one in D1. *)
PutRows(n) == {m.row : m \in {l \in n : l.op = "put"}}
Known == {x \in {cp, ag} : x # None} \cup PutRows(net)

CallShape ==
  /\ call = [c \in Calls |-> call[c]]
  /\ \A c \in Calls : IsCall(call[c]) /\ (call[c].at = "update" => IsRow(call[c].row))
NetShape == \A m \in net : IsMessage(m) /\ (m.at = "write" => m.op = "put")

RevisionInv ==
  /\ CallShape /\ NetShape
  /\ \A x, y \in Known : x.rev = y.rev => x.conf = y.conf
  /\ \A x \in Known : IsRow(x) /\ (cp # None => x.rev <= cp.rev)
  /\ ~created => Known = {}

(* x is a row that was there before, but for its cursor. *)
Like(x) == IsRow(x) /\ \E y \in Known : x.rev = y.rev /\ x.conf = y.conf

(* What holds of a step that gives no new number. *)
SameNumbers ==
  /\ \A x \in Known' : Like(x)
  /\ cp' # None => cp # None /\ cp'.rev = cp.rev
  /\ created' = created

LEMMA SameNumbersKeep ==
  ASSUME RevisionInv, SameNumbers, CallShape', NetShape' PROVE RevisionInv'
<1>1. \A x, y \in Known' : x.rev = y.rev => x.conf = y.conf
  BY DEF RevisionInv, SameNumbers, Like
<1>2. \A x \in Known' : IsRow(x) /\ (cp' # None => x.rev <= cp'.rev)
  BY DEF RevisionInv, SameNumbers, Like
<1>3. ~created' => Known' = {}
  BY DEF RevisionInv, SameNumbers, Like
<1> QED BY <1>1, <1>2, <1>3 DEF RevisionInv

LEMMA KnownLike == ASSUME RevisionInv, NEW x \in Known PROVE Like(x)
BY DEF RevisionInv, Like

(* What the helpers of the module do to calls and messages.  *)
LEMMA GoToShape == ASSUME CallShape, NEW c, NEW p, p # "update", GoTo(c, p) PROVE CallShape'
BY DEF CallShape, GoTo, IsCall

LEMMA EndShape == ASSUME CallShape, NEW c, End(c) PROVE CallShape'
BY DEF CallShape, End, Idle, IsCall

LEMMA StartShape ==
  ASSUME CallShape, NEW c, NEW o, NEW p, NEW row, Start(c, o, p, row), p = "update" => IsRow(row)
  PROVE  CallShape'
BY DEF CallShape, Start, Idle, IsCall

LEMMA DetachRows ==
  ASSUME NetShape, NEW c, Detach(c) PROVE NetShape' /\ PutRows(net') = PutRows(net)
<1> DEFINE D(m) == IF m.from = c THEN [m EXCEPT !.from = None] ELSE m
<1>1. net' = {D(m) : m \in net}
  BY DEF Detach
<1>2. \A m \in net : IsMessage(D(m)) /\ D(m).op = m.op /\ D(m).row = m.row /\ D(m).at = m.at
  BY DEF NetShape, IsMessage
<1> HIDE DEF D
<1>3. NetShape'
  BY <1>1, <1>2 DEF NetShape
<1>4. PutRows(net') \subseteq PutRows(net) /\ PutRows(net) \subseteq PutRows(net')
  BY <1>1, <1>2 DEF PutRows
<1> QED BY <1>3, <1>4

LEMMA PutSends ==
  ASSUME NetShape, NEW from, NEW row, IsRow(row), Put(from, row)
  PROVE  /\ NetShape'
         /\ \E x : /\ IsRow(x) /\ x.rev = row.rev /\ x.conf = row.conf
                   /\ PutRows(net') = PutRows(net) \cup {x}
<1> DEFINE n == IF row.next = None THEN FirstCursor(row.conf) ELSE row.next
           x == [row EXCEPT !.next = n]
           m == [from |-> from, op |-> "put", at |-> "sent", row |-> x]
<1>1. net' = net \cup {m}
  BY DEF Put, Send
<1> HIDE DEF n
<1>2. IsRow(x) /\ x.rev = row.rev /\ x.conf = row.conf
  BY DEF IsRow
<1>3. IsMessage(m) /\ m.op = "put" /\ m.at = "sent" /\ m.row = x
  BY DEF IsMessage
<1>4. NetShape'
  BY <1>1, <1>3 DEF NetShape
<1>5. PutRows(net') = PutRows(net) \cup {x}
  BY <1>1, <1>3 DEF PutRows
<1> QED BY <1>2, <1>4, <1>5

LEMMA AnswerRows ==
  ASSUME CallShape, NetShape, NEW m, Answer(m)
  PROVE  CallShape' /\ NetShape' /\ PutRows(net') \subseteq PutRows(net)
<1>1. CallShape'
  BY GoToShape, EndShape DEF Answer, CallShape
<1> QED BY <1>1 DEF Answer, NetShape, PutRows

(* A step that stores no row and sends none. *)
LEMMA NoNewRows ==
  ASSUME RevisionInv, CallShape', NetShape', UNCHANGED <<cp, ag, created>>,
         PutRows(net') \subseteq PutRows(net)
  PROVE  RevisionInv'
<1>1. Known' \subseteq Known
  BY DEF Known
<1>2. SameNumbers
  BY <1>1, KnownLike DEF SameNumbers
<1> QED BY <1>2, SameNumbersKeep

(* A step of the control plane that changes at most its row's cursor, and    *)
(* that may send that row.                                                 *)
LEMMA NewCursor ==
  ASSUME RevisionInv, CallShape', UNCHANGED <<ag, created>>, NetShape',
         cp' = None \/ (cp # None /\ IsRow(cp') /\ cp'.rev = cp.rev /\ cp'.conf = cp.conf),
         \A x \in PutRows(net') : x \in PutRows(net) \/ Like(x)
  PROVE  RevisionInv'
<1>1. \A x \in Known' : x \in Known \/ Like(x)
  BY DEF Known, Like
<1>2. SameNumbers
  BY <1>1, KnownLike DEF SameNumbers
<1> QED BY <1>2, SameNumbersKeep

LEMMA CreateKeeps == ASSUME RevisionInv, NEW c, NEW k, Create(c, k) PROVE RevisionInv'
<1>1. CallShape' /\ NetShape'
  BY StartShape DEF Create, RevisionInv, NetShape
<1>2. Known' \subseteq {cp'} /\ IsRow(cp')
  BY DEF Create, RevisionInv, Known, agentSide, IsRow
<1> QED BY <1>1, <1>2 DEF RevisionInv, Create, IsRow

LEMMA UpdateKeeps == ASSUME RevisionInv, NEW c \in Calls, Update(c) PROVE RevisionInv'
<1> DEFINE row == call[c].row
<1>1. CallShape' /\ IsRow(row)
  BY EndShape DEF Update, RevisionInv, CallShape
<1>2. CASE UpdateHits(row)
  <2>1. cp' = row /\ cp # None /\ row.rev = cp.rev + 1 /\ UNCHANGED <<ag, created>>
    BY <1>1, <1>2 DEF Update, UpdateHits, agentSide, RevisionInv, Known, IsRow
  <2>2. PICK x : /\ NetShape' /\ IsRow(x) /\ x.rev = row.rev /\ x.conf = row.conf
                 /\ PutRows(net') = PutRows(net) \cup {x}
    BY <1>1, <1>2, PutSends DEF Update, RevisionInv
  <2>3. cp \in Known /\ Known' \subseteq Known \cup {row, x}
    BY <2>1, <2>2 DEF Known
  <2>4. \A y \in Known : IsRow(y) /\ y.rev < row.rev
    BY <2>1, <2>3 DEF RevisionInv, IsRow
  <2>5. \A y \in Known' : IsRow(y) /\ y.rev <= row.rev /\ (y.rev = row.rev => y.conf = row.conf)
    BY <1>1, <2>2, <2>3, <2>4 DEF IsRow
  <2>6. \A y, z \in Known' : y.rev = z.rev => y.conf = z.conf
    BY <2>2, <2>3, <2>4 DEF RevisionInv, IsRow
  <2> QED BY <1>1, <2>1, <2>2, <2>3, <2>5, <2>6 DEF RevisionInv
<1>3. CASE ~UpdateHits(row)
  BY <1>1, <1>3, NoNewRows DEF Update, RevisionInv, NetShape, PutRows, agentSide
<1> QED BY <1>2, <1>3

LEMMA ClientStepKeeps == ASSUME RevisionInv, NEW c, ClientStep(c) PROVE RevisionInv'
<1> USE DEF RevisionInv
<1>1. CASE \E k \in Confs : Create(c, k)
  BY <1>1, CreateKeeps
<1>2. ASSUME NEW k \in Confs, Patch(c, k) PROVE RevisionInv'
  <2>1. IsRow([rev |-> cp.rev + 1, conf |-> k, next |-> FirstCursor(k)])
    BY <1>2 DEF Patch, Known, IsRow
  <2>2. CallShape'
    BY <1>2, <2>1, StartShape DEF Patch
  <2> QED BY <1>2, <2>2, NoNewRows DEF Patch, cpSide, agentSide, NetShape, PutRows
<1>3. CASE Delete(c)
  <2>1. CallShape'
    BY <1>3, StartShape DEF Delete
  <2> QED BY <1>3, <2>1, NoNewRows DEF Delete, Send, cpSide, agentSide, NetShape, IsMessage, PutRows
<1>4. CASE RunNow(c)
  <2>1. CallShape'
    BY <1>4, StartShape DEF RunNow
  <2> QED BY <1>4, <2>1, NoNewRows DEF RunNow, cpSide, agentSide, NetShape, PutRows
<1> QED BY <1>1, <1>2, <1>3, <1>4 DEF ClientStep

LEMMA CallStepKeeps ==
  ASSUME RevisionInv, NEW c \in Calls, CallStep(c) \/ Evicted(c) PROVE RevisionInv'
<1> USE DEF RevisionInv
<1>0. cp # None => IsRow(cp)
  BY DEF Known
<1>1. CASE TaskRefused(c)
  BY <1>1, EndShape, NoNewRows DEF TaskRefused, cpSide, agentSide, NetShape, PutRows
<1>2. CASE RunNowMoves(c)
  <2>1. CallShape'
    BY <1>2, GoToShape DEF RunNowMoves
  <2>2. cp' = None \/ (cp # None /\ IsRow(cp') /\ cp'.rev = cp.rev /\ cp'.conf = cp.conf)
    BY <1>0, <1>2 DEF RunNowMoves, RunNowHits, IsRow
  <2> QED BY <1>2, <2>1, <2>2, NewCursor DEF RunNowMoves, agentSide, NetShape, PutRows
<1>3. CASE AckRead(c)
  <2>1. ASSUME AckApplies(call[c]) PROVE CallShape'
    BY <1>3, <2>1 DEF AckRead, CallShape, IsCall
  <2>2. ASSUME ~AckApplies(call[c]) PROVE CallShape'
    BY <1>3, <2>2, EndShape DEF AckRead
  <2>3. CallShape'
    BY <2>1, <2>2
  <2> QED BY <1>3, <2>3, NoNewRows DEF AckRead, cpSide, agentSide, NetShape, PutRows
<1>4. CASE AckMoves(c)
  <2>1. CallShape'
    BY <1>4, GoToShape, EndShape DEF AckMoves
  <2>2. cp' = None \/ (cp # None /\ IsRow(cp') /\ cp'.rev = cp.rev /\ cp'.conf = cp.conf)
    BY <1>0, <1>4 DEF AckMoves, AckHits, IsRow
  <2> QED BY <1>4, <2>1, <2>2, NewCursor DEF AckMoves, agentSide, NetShape, PutRows
<1>5. CASE GetAndSync(c)
  <2>1. CallShape' /\ UNCHANGED <<cp, ag, created>>
    BY <1>5, GoToShape, EndShape DEF GetAndSync, cpSide, agentSide
  <2>2. NetShape' /\ \A x \in PutRows(net') : x \in PutRows(net) \/ Like(x)
    BY <1>0, <1>5, PutSends DEF GetAndSync, Like, Known, NetShape, PutRows
  <2> QED BY <1>0, <2>1, <2>2, NewCursor
<1>6. CASE Failed(c) \/ Evicted(c)
  <2>1. CallShape' /\ UNCHANGED <<cp, ag, created>>
    BY <1>6, GoToShape, EndShape DEF Failed, Evicted, cpSide, agentSide
  <2> QED BY <1>6, <2>1, DetachRows, NoNewRows DEF Failed, Evicted
<1>7. CASE DropRow(c)
  BY <1>7, EndShape, NewCursor DEF DropRow, agentSide, NetShape, PutRows
<1> QED BY <1>1, <1>2, <1>3, <1>4, <1>5, <1>6, <1>7, UpdateKeeps DEF CallStep

LEMMA NetStepKeeps ==
  ASSUME RevisionInv, NEW m \in net, PutRead(m) \/ PutWrite(m) \/ DeleteArrives(m) \/ Lost(m)
  PROVE  RevisionInv'
<1> USE DEF RevisionInv
<1>1. CASE Lost(m)
  BY <1>1, NoNewRows DEF Lost, cpSide, agentSide, CallShape, NetShape, PutRows
<1>2. CASE DeleteArrives(m)
  <2>1. Known' \subseteq Known /\ CallShape' /\ NetShape' /\ UNCHANGED <<cp, created>>
    BY <1>2, AnswerRows DEF DeleteArrives, Known, cpSide
  <2> QED BY <2>1, KnownLike, SameNumbersKeep DEF SameNumbers
<1>3. CASE PutWrite(m)
  <2>1. m.row \in PutRows(net)
    BY <1>3 DEF PutWrite, NetShape, PutRows
  <2>2. Known' \subseteq Known /\ CallShape' /\ NetShape' /\ UNCHANGED <<cp, created>>
    BY <1>3, <2>1, AnswerRows DEF PutWrite, Known, cpSide
  <2> QED BY <2>2, KnownLike, SameNumbersKeep DEF SameNumbers
<1>4. CASE PutRead(m) /\ Supported(m.row.conf) /\ ~Ignored(ag, m.row)
  <2> DEFINE w == [m EXCEPT !.at = "write", !.row = Merged(ag, @)]
  <2>1. m.op = "put" /\ net' = (net \ {m}) \cup {w}
    BY <1>4 DEF PutRead
  <2>2. m.row \in Known
    BY <2>1 DEF Known, PutRows
  <2>3. Like(w.row) /\ IsMessage(w) /\ w.op = "put"
    <3> DEFINE n == MergedCursor(ag, m.row)
    <3>1. w = [m EXCEPT !.at = "write", !.row = [m.row EXCEPT !.next = n]]
      BY <2>1 DEF NetShape, IsMessage, Merged
    <3>2. IsRow(m.row) /\ IsMessage(m)
      BY <2>2 DEF NetShape
    <3> HIDE DEF n, w
    <3>3. IsMessage(w) /\ w.op = "put" /\ w.row = [m.row EXCEPT !.next = n]
      BY <2>1, <3>1, <3>2 DEF IsMessage
    <3>4. IsRow(w.row) /\ w.row.rev = m.row.rev /\ w.row.conf = m.row.conf
      BY <3>2, <3>3 DEF IsRow
    <3> QED BY <2>2, <3>3, <3>4 DEF Like
  <2>4. UNCHANGED <<cp, ag, created, call>>
    BY <1>4 DEF PutRead, cpSide, agentSide
  <2>5. NetShape' /\ \A x \in PutRows(net') : x \in PutRows(net) \/ x = w.row
    BY <2>1, <2>3 DEF NetShape, PutRows
  <2> HIDE DEF w
  <2>6. CallShape' /\ (cp' = None \/ (cp # None /\ IsRow(cp') /\ cp'.rev = cp.rev /\ cp'.conf = cp.conf))
    BY <2>4 DEF CallShape, Known
  <2> QED BY <2>3, <2>4, <2>5, <2>6, NewCursor
<1>5. CASE PutRead(m) /\ ~(Supported(m.row.conf) /\ ~Ignored(ag, m.row))
  <2>1. CallShape' /\ NetShape' /\ PutRows(net') \subseteq PutRows(net)
    BY <1>5, AnswerRows DEF PutRead, CallShape, NetShape, PutRows
  <2> QED BY <1>5, <2>1, NoNewRows DEF PutRead, cpSide, agentSide
<1> QED BY <1>1, <1>2, <1>3, <1>4, <1>5

LEMMA AgentKeeps ==
  ASSUME RevisionInv, ListDue \/ Claim \/ TaskEnds \/ AgentCrash \/ Tick PROVE RevisionInv'
<1> USE DEF RevisionInv
<1>1. CASE Claim
  <2>1. CallShape'
    BY <1>1 DEF Claim, SendAck, CallShape, IsCall
  <2>2. ag' = ag \/ (ag # None /\ \E n : ag' = [ag EXCEPT !.next = n])
    BY <1>1 DEF Claim, ClaimHolds
  <2>3. ag' = ag \/ (ag # None /\ Like(ag'))
    BY <2>2 DEF Known, Like, IsRow
  <2>4. UNCHANGED <<cp, created, net>>
    BY <1>1 DEF Claim, cpSide
  <2>5. \A x \in Known' : x \in Known \/ Like(x)
    BY <2>3, <2>4 DEF Known
  <2>6. NetShape'
    BY <2>4 DEF NetShape
  <2> QED BY <2>1, <2>4, <2>5, <2>6, KnownLike, SameNumbersKeep DEF SameNumbers
<1>2. CASE ListDue \/ TaskEnds \/ AgentCrash \/ Tick
  BY <1>2, NoNewRows
     DEF ListDue, TaskEnds, AgentCrash, Tick, cpSide, agentSide, CallShape, NetShape, PutRows
<1> QED BY <1>1, <1>2

LEMMA RevisionInvHolds == Spec => []RevisionInv
<1>1. Init => RevisionInv
  <2> SUFFICES ASSUME Init PROVE RevisionInv
    OBVIOUS
  <2>1. CallShape /\ NetShape
    BY DEF Init, CallShape, NetShape, Idle, IsCall
  <2>2. Known = {}
    BY DEF Init, Known, PutRows
  <2> QED BY <2>1, <2>2 DEF RevisionInv
<1>2. RevisionInv /\ [Next]_vars => RevisionInv'
  <2> SUFFICES ASSUME RevisionInv, [Next]_vars PROVE RevisionInv'
    OBVIOUS
  <2>1. CASE Next
    <3>1. CASE Reconcile
      <4>1. IsRow(cp) /\ UNCHANGED <<cp, ag, created, call>>
        BY <3>1 DEF Reconcile, RevisionInv, Known, cpSide, agentSide
      <4>2. NetShape' /\ \A x \in PutRows(net') : x \in PutRows(net) \/ Like(x)
        BY <3>1, <4>1, PutSends DEF Reconcile, RevisionInv, Like, Known
      <4> QED BY <3>1, <4>1, <4>2, NewCursor DEF Reconcile, RevisionInv, CallShape
    <3> QED BY <2>1, <3>1, ClientStepKeeps, CallStepKeeps, NetStepKeeps, AgentKeeps DEF Next, Calls
  <2>2. CASE UNCHANGED vars
    BY <2>2, NoNewRows DEF vars, RevisionInv, CallShape, NetShape, PutRows
  <2> QED BY <2>1, <2>2
<1> QED BY <1>1, <1>2, PTL DEF Spec

(* Whatever requests are concurrent, lost, late or handled twice, the agent  *)
(* never runs, under the control plane's revision number, a configuration   *)
(* other than the control plane's.                                         *)
THEOREM RevisionNamesConf == Spec => []SameRevisionSameConf
<1>1. RevisionInv => SameRevisionSameConf
  BY DEF RevisionInv, Known, SameRevisionSameConf
<1> QED BY <1>1, RevisionInvHolds, PTL

-----------------------------------------------------------------------------
(* The concurrency policy `forbid'.  The agent holds, lists and is about to  *)
(* write only supported policies, and those plan one slot under `forbid'.  *)

Accepted(n) == \A m \in n : m.at = "write" => Supported(m.row.conf)

ForbidInv ==
  /\ ForbidNeverOverlaps
  /\ Accepted(net)
  /\ ag # None => Supported(ag.conf)
  /\ pump # None => Supported(pump.row.conf)

LEMMA DetachAccepts ==
  ASSUME NetShape, NEW c, Detach(c), Accepted(net) PROVE Accepted(net')
<1> DEFINE D(m) == IF m.from = c THEN [m EXCEPT !.from = None] ELSE m
<1>1. net' = {D(m) : m \in net}
  BY DEF Detach
<1>2. \A m \in net : D(m).at = m.at /\ D(m).row = m.row
  BY DEF NetShape, IsMessage
<1> HIDE DEF D
<1> QED BY <1>1, <1>2 DEF Accepted

LEMMA ControlPlaneForbid ==
  ASSUME RevisionInv, ForbidInv,
         NEW c \in Calls, ClientStep(c) \/ CallStep(c) \/ Evicted(c)
  PROVE  ForbidInv'
<1>1. UNCHANGED <<ag, pump, active>>
  BY DEF ClientStep, Create, Patch, Delete, RunNow, CallStep, Update, TaskRefused,
         RunNowMoves, AckRead, AckMoves, GetAndSync, Failed, DropRow, Evicted, agentSide
<1>2. Accepted(net')
  <2>1. CASE Failed(c) \/ Evicted(c)
    BY <2>1, DetachAccepts DEF Failed, Evicted, RevisionInv, ForbidInv
  <2>2. CASE ~(Failed(c) \/ Evicted(c))
    <3>1. net' = net \/ Delete(c) \/ \E from, row : Put(from, row)
      BY <2>2 DEF ClientStep, Create, Patch, RunNow, CallStep, Update, TaskRefused,
         RunNowMoves, AckRead, AckMoves, GetAndSync, DropRow
    <3>2. \A m \in net' : m \in net \/ m.at = "sent"
      BY <3>1 DEF Delete, Put, Send
    <3> QED BY <3>2 DEF ForbidInv, Accepted
  <2> QED BY <2>1, <2>2
<1> QED BY <1>1, <1>2 DEF ForbidInv, ForbidNeverOverlaps, Accepted

LEMMA NetForbid ==
  ASSUME RevisionInv, ForbidInv,
         NEW m \in net, PutRead(m) \/ PutWrite(m) \/ DeleteArrives(m) \/ Lost(m)
  PROVE  ForbidInv'
<1>1. UNCHANGED <<pump, active>>
  BY DEF PutRead, PutWrite, DeleteArrives, Lost, agentSide
<1>2. ag' # None => Supported(ag'.conf)
  BY DEF PutRead, PutWrite, DeleteArrives, Lost, agentSide, ForbidInv, Accepted
<1>3. Accepted(net')
  <2>1. CASE PutRead(m) /\ Supported(m.row.conf) /\ ~Ignored(ag, m.row)
    <3> DEFINE w == [m EXCEPT !.at = "write", !.row = Merged(ag, @)]
    <3>1. m.op = "put" /\ net' = (net \ {m}) \cup {w}
      BY <2>1 DEF PutRead
    <3>2. IsRow(m.row)
      BY <3>1 DEF RevisionInv, Known, PutRows
    <3>3. Merged(ag, m.row).conf = m.row.conf
      BY <3>2 DEF Merged, IsRow
    <3>4. w.row = Merged(ag, m.row)
      BY <3>1 DEF RevisionInv, NetShape, IsMessage
    <3> QED BY <2>1, <3>1, <3>3, <3>4 DEF ForbidInv, Accepted
  <2>2. CASE ~(PutRead(m) /\ Supported(m.row.conf) /\ ~Ignored(ag, m.row))
    <3>1. net' \subseteq net
      BY <2>2 DEF PutRead, PutWrite, DeleteArrives, Lost, Answer
    <3> QED BY <3>1 DEF ForbidInv, Accepted
  <2> QED BY <2>1, <2>2
<1> QED BY <1>1, <1>2, <1>3 DEF ForbidInv, ForbidNeverOverlaps, Accepted

(* What one transaction of claimAndEnqueue inserts for a supported policy.  *)
LEMMA AdmittedForbid ==
  ASSUME NEW row, Supported(row.conf), NEW t
  PROVE  LET new == Admitted(row, PlanMisfire(row.conf, row.next, t).slots) IN
           \A i, j \in new : i.forbid /\ j.forbid => i = j /\ active = {}
<1> DEFINE slots == PlanMisfire(row.conf, row.next, t).slots
           I(u)  == [rev |-> row.rev, slot |-> u, forbid |-> row.conf.concurrency # "queue"]
<1> SUFFICES \A i, j \in Admitted(row, slots) : i.forbid /\ j.forbid => i = j /\ active = {}
  OBVIOUS
<1>1. Admitted(row, slots) \subseteq {I(u) : u \in slots}
  <2> HIDE DEF slots
  <2> QED BY Zenon DEF Admitted
<1>2. CASE row.conf.concurrency # "queue"
  <2>1. slots = {} \/ slots = {row.next}
    BY <1>2 DEF Supported, PlanMisfire
  <2>2. active # {} => Admitted(row, slots) = {}
    BY <1>2 DEF Admitted
  <2> HIDE DEF slots, I
  <2> QED BY <1>1, <2>1, <2>2
<1>3. CASE row.conf.concurrency = "queue"
  <2>1. \A u : ~I(u).forbid
    BY <1>3
  <2> HIDE DEF slots, I
  <2> QED BY <1>1, <2>1
<1> QED BY <1>2, <1>3

LEMMA AgentForbid ==
  ASSUME RevisionInv, ForbidInv, ListDue \/ Claim \/ TaskEnds \/ AgentCrash \/ Tick
  PROVE  ForbidInv'
<1> USE DEF ForbidInv, Accepted
<1>1. CASE Claim
  <2> DEFINE new == Admitted(pump.row, PlanMisfire(pump.row.conf, pump.row.next, pump.at).slots)
  <2>1. active' = active \cup new /\ pump' = None /\ net' = net
    BY <1>1 DEF Claim
  <2>2. \A i, j \in new : i.forbid /\ j.forbid => i = j /\ active = {}
    BY <1>1, AdmittedForbid DEF Claim
  <2>3. ag' # None => Supported(ag'.conf)
    <3>1. ag' = ag \/ (ag # None /\ \E n : ag' = [ag EXCEPT !.next = n])
      BY <1>1 DEF Claim, ClaimHolds
    <3> QED BY <3>1 DEF RevisionInv, Known, IsRow
  <2> HIDE DEF new
  <2> QED BY <2>1, <2>2, <2>3 DEF ForbidNeverOverlaps
<1>2. CASE ListDue \/ TaskEnds \/ AgentCrash \/ Tick
  <2>1. active' \subseteq active /\ net' \subseteq net /\ ag' = ag
    BY <1>2 DEF ListDue, TaskEnds, AgentCrash, Tick, agentSide
  <2>2. pump' # None => Supported(pump'.row.conf)
    BY <1>2 DEF ListDue, TaskEnds, AgentCrash, Tick, agentSide, Due
  <2> QED BY <2>1, <2>2 DEF ForbidNeverOverlaps
<1> QED BY <1>1, <1>2

(* Two occurrences that were admitted under `forbid' are never queued or     *)
(* running together, though the INSERTs are executed whether or not the     *)
(* claim won, across revisions, re-claims and crashes.                      *)
THEOREM ForbidHolds == Spec => []ForbidNeverOverlaps
<1>1. Init => ForbidInv
  BY DEF Init, ForbidInv, ForbidNeverOverlaps, Accepted
<1>2. RevisionInv /\ ForbidInv /\ [Next]_vars => ForbidInv'
  <2> SUFFICES ASSUME RevisionInv, ForbidInv, [Next]_vars PROVE ForbidInv'
    OBVIOUS
  <2>1. CASE Next
    <3>1. CASE Reconcile
      BY <3>1 DEF Reconcile, agentSide, Put, Send, ForbidInv, ForbidNeverOverlaps, Accepted
    <3> QED BY <2>1, <3>1, ControlPlaneForbid, NetForbid, AgentForbid DEF Next, Calls
  <2>2. CASE UNCHANGED vars
    BY <2>2 DEF vars, ForbidInv, ForbidNeverOverlaps, Accepted
  <2> QED BY <2>1, <2>2
<1>3. ForbidInv => ForbidNeverOverlaps
  BY DEF ForbidInv
<1> QED BY <1>1, <1>2, <1>3, RevisionInvHolds, PTL DEF Spec

-----------------------------------------------------------------------------
(* The cursor.  First what the arithmetic of cron expressions gives: an     *)
(* instant is found whenever one exists, and an expression that fires at    *)
(* all fires after the clock (CronGoesOn).                                 *)

LEMMA LeastOf ==
  ASSUME NEW S, S # {}, NEW t \in Int, \A u \in S : u \in Int /\ u > t
  PROVE  Least(S) \in S /\ Least(S) > t /\ \A u \in S : Least(S) <= u
<1> DEFINE T == {u - t : u \in S}
           R == OpToRel(<, Nat)
<1>1. T \subseteq Nat /\ T # {}
  OBVIOUS
<1>2. \A x, y \in Nat : y < x => <<y, x>> \in R
  BY DEF OpToRel
<1>3. IsWellFoundedOn(R, Nat)
  BY NatLessThanWellFounded
<1> HIDE DEF R
<1>4. PICK x \in T : \A y \in T : ~(<<y, x>> \in R)
  <2> HIDE DEF T
  <2> QED BY <1>1, <1>3, WFMin
<1>5. PICK u \in S : x = u - t
  OBVIOUS
<1>6. ASSUME NEW v \in S PROVE u <= v
  <2>1. v - t \in T /\ u - t \in T
    OBVIOUS
  <2>2. ~(v - t < u - t)
    BY <1>1, <1>2, <1>4, <1>5, <2>1
  <2> QED BY <2>2
<1>7. Least(S) \in S /\ \A v \in S : Least(S) <= v
  BY <1>6 DEF Least, Min
<1> QED BY <1>7

LEMMA LastOf ==
  ASSUME NEW S, S # {}, NEW t \in Int, \A u \in S : u \in Int /\ u <= t
  PROVE  Max(S) \in S /\ \A u \in S : u <= Max(S)
<1> DEFINE D == {-u : u \in S}
<1>1. D # {} /\ -t - 1 \in Int /\ \A d \in D : d \in Int /\ d > -t - 1
  OBVIOUS
<1>2. Least(D) \in D /\ \A d \in D : Least(D) <= d
  <2> HIDE DEF D
  <2> QED BY <1>1, LeastOf
<1>3. PICK w \in S : Least(D) = -w
  BY <1>2
<1>4. ASSUME NEW u \in S PROVE w >= u
  <2>1. -u \in D
    OBVIOUS
  <2>2. -w <= -u
    BY <1>2, <1>3, <2>1
  <2> QED BY <2>2
<1> QED BY <1>4 DEF Max

(* A set that has n elements below one of its own has one with exactly n.  *)
LEMMA Placed ==
  ASSUME NEW A, IsFiniteSet(A), NEW t \in Int, \A u \in A : u \in Int /\ u > t,
         NEW n \in Nat, NEW last \in A, Before(A, last) >= n
  PROVE  \E u \in A : Before(A, u) = n
<1> DEFINE B == {u \in A : Before(A, u) >= n}
<1>1. \A u \in A : Before(A, u) \in Nat
  BY FS_Subset, FS_CardinalityType DEF Before
<1>2. PICK u \in B : \A v \in B : u <= v
  <2>1. B # {} /\ \A v \in B : v \in Int /\ v > t
    OBVIOUS
  <2> HIDE DEF B
  <2> QED BY <2>1, LeastOf
<1>3. ASSUME Before(A, u) # n
      PROVE  FALSE
  <2> DEFINE L == {v \in A : v < u}
  <2>1. IsFiniteSet(L) /\ Before(A, u) = Cardinality(L) /\ Cardinality(L) > n
    BY <1>1, <1>3, FS_Subset DEF Before
  <2>2. L # {}
    BY <2>1, FS_EmptySet
  <2>3. PICK w \in L : \A v \in L : v <= w
    <3>1. u \in Int /\ \A v \in L : v \in Int /\ v <= u
      OBVIOUS
    <3> HIDE DEF L, B
    <3> QED BY <2>2, <3>1, LastOf
  <2>4. {v \in A : v < w} = L \ {w}
    BY <2>3
  <2>5. Before(A, w) = Cardinality(L) - 1
    <3> HIDE DEF L, B
    <3> QED BY <2>1, <2>3, <2>4, FS_RemoveElement DEF Before
  <2>6. w \in B
    BY <1>1, <2>1, <2>5
  <2> QED BY <1>2, <2>3, <2>6
<1> QED BY <1>3

(* to is where a cursor of the configuration k may go from `from'.          *)
Goes(k, from, to) ==
  /\ to = None \/ (to \in Int /\ from < to)
  /\ k.cron # {} => to # None

LEMMA Crons ==
  ASSUME NEW k \in Confs
  PROVE  /\ IsFiniteSet(k.cron) /\ k.cron \subseteq Int /\ k.max \in 0 .. 100
         /\ k.cron # {} => \E u \in k.cron : u > MaxTime
         /\ MaxTime \in Nat /\ MaxSteps \in Nat \ {0} /\ None \notin Int
BY ScheduleConstantsOK, CronGoesOn DEF Config

LEMMA LeastGoes ==
  ASSUME NEW k \in Confs, NEW from \in Int, NEW S, S \subseteq After(k.cron, from), k.cron # {} => S # {}
  PROVE  Goes(k, from, Least(S))
<1>1. CASE S = {}
  BY <1>1 DEF Least, Goes
<1>2. CASE S # {}
  <2>1. \A u \in S : u \in Int /\ u > from
    BY Crons DEF After
  <2>2. Least(S) \in Int /\ Least(S) > from
    BY <1>2, <2>1, LeastOf
  <2> QED BY <2>2, Crons DEF Goes
<1> QED BY <1>1, <1>2

LEMMA NextGoes ==
  ASSUME NEW k \in Confs, NEW from \in Int, from <= MaxTime
  PROVE  Goes(k, from, NextAfter(k.cron, from))
<1>1. k.cron # {} => After(k.cron, from) # {}
  BY Crons DEF After
<1> QED BY <1>1, LeastGoes DEF NextAfter

LEMMA PastNowGoes ==
  ASSUME NEW k \in Confs, NEW from \in Int, from <= MaxTime, NEW t \in Int, t <= MaxTime
  PROVE  Goes(k, from, PastNow(k.cron, from, t))
<1> DEFINE S == {u \in After(k.cron, from) : u > t \/ Before(After(k.cron, from), u) >= MaxSteps}
<1>1. k.cron # {} => S # {}
  BY Crons DEF After
<1> HIDE DEF S
<1>2. S \subseteq After(k.cron, from) /\ PastNow(k.cron, from, t) = Least(S)
  BY DEF S, PastNow
<1> QED BY <1>1, <1>2, LeastGoes

(* An advance of any length ends at an instant, or at none. *)
LEMMA Instants ==
  ASSUME NEW k \in Confs, NEW from \in Int, NEW S, S \subseteq After(k.cron, from)
  PROVE  Least(S) \in Int \cup {None}
<1>1. CASE S = {}
  BY <1>1 DEF Least
<1>2. CASE S # {}
  <2>1. \A u \in S : u \in Int /\ u > from
    BY Crons DEF After
  <2> QED BY <1>2, <2>1, LeastOf
<1> QED BY <1>1, <1>2

(* Where a claim leaves the cursor: the slots that it is measured from are   *)
(* missed occurrences, from the cursor itself to the clock.                *)
LEMMA FirstSome ==
  ASSUME NEW S, S # {}, NEW t \in Int, \A u \in S : u \in Int /\ u > t, NEW n \in Int, n >= 1
  PROVE  FirstN(S, n) # {} /\ FirstN(S, n) \subseteq S
<1>1. PICK w \in S : \A u \in S : w <= u
  BY LeastOf
<1>2. {v \in S : v < w} = {}
  BY <1>1
<1>3. Before(S, w) = 0
  BY <1>2, FS_EmptySet DEF Before
<1> QED BY <1>3 DEF FirstN

LEMMA SlotsMissed ==
  ASSUME NEW k \in Confs, NEW from \in Int, NEW t \in Int, from <= t
  PROVE  LET slots == CatchUp(k, from, t).slots
         IN slots # {} /\ slots \subseteq {from} \cup {u \in After(k.cron, from) : u <= t}
<1> DEFINE F == {u \in {from} \cup After(k.cron, from) : u <= t}
           M == Missed(k, from, t)
           n == Max({1, Min({k.max, MaxSteps})})
<1>1. F # {} /\ from - 1 \in Int /\ \A u \in F : u \in Int /\ u > from - 1
  BY Crons DEF After
<1>2. M # {} /\ M \subseteq F
  <2>1. M = FirstN(F, MaxSteps)
    BY DEF Missed
  <2> HIDE DEF F, M
  <2> QED BY <1>1, <2>1, FirstSome, Crons
<1>3. n \in Int /\ n >= 1
  <2>1. k.max \in Int /\ MaxSteps \in Int
    BY Crons
  <2>2. Min({k.max, MaxSteps}) \in Int
    BY <2>1 DEF Min
  <2> QED BY <2>2 DEF Max
<1>4. FirstN(M, n) # {} /\ FirstN(M, n) \subseteq M
  <2>1. \A u \in M : u \in Int /\ u > from - 1
    BY <1>1, <1>2
  <2> HIDE DEF M, n
  <2> QED BY <1>1, <1>2, <1>3, <2>1, FirstSome
<1>5. CatchUp(k, from, t).slots = FirstN(M, n)
  BY DEF CatchUp
<1>6. F \subseteq {from} \cup {u \in After(k.cron, from) : u <= t}
  OBVIOUS
<1> HIDE DEF F, M, n
<1> QED BY <1>2, <1>4, <1>5, <1>6

LEMMA PlannedNext ==
  ASSUME NEW k \in Confs, NEW from \in Int, NEW t \in Int, from <= t
  PROVE  PlanMisfire(k, from, t).next \in Int \cup {None}
<1>1. ASSUME NEW f \in Int
      PROVE  PastNow(k.cron, f, t) \in Int \cup {None} /\ NextAfter(k.cron, f) \in Int \cup {None}
  BY Instants DEF PastNow, NextAfter
<1>2. CASE k.misfire = "catch_up"
  <2> DEFINE slots == CatchUp(k, from, t).slots
  <2>1. slots # {} /\ slots \subseteq {from} \cup k.cron /\ \A u \in slots : u \in Int /\ u <= t
    BY SlotsMissed, Crons DEF After
  <2>2. Max(slots) \in Int /\ Max(slots) \in {from} \cup k.cron
    <3> HIDE DEF slots
    <3> QED BY <2>1, LastOf
  <2>3. CatchUp(k, from, t).next \in {PastNow(k.cron, Max(slots), t), NextAfter(k.cron, Max(slots))}
    BY <2>2 DEF CatchUp
  <2> QED BY <1>1, <1>2, <2>2, <2>3 DEF PlanMisfire
<1>3. CASE k.misfire # "catch_up"
  BY <1>1, <1>3 DEF PlanMisfire
<1> QED BY <1>2, <1>3

LEMMA OneMore ==
  ASSUME NEW L, IsFiniteSet(L), NEW x, NEW S, S \subseteq L \cup {x}
  PROVE  /\ IsFiniteSet(S) /\ Cardinality(S) \in Nat /\ Cardinality(L) \in Nat
         /\ Cardinality(S) <= Cardinality(L) + 1
<1>1. /\ IsFiniteSet(L \cup {x})
      /\ Cardinality(L \cup {x}) = IF x \in L THEN Cardinality(L) ELSE Cardinality(L) + 1
  BY FS_AddElement
<1>2. IsFiniteSet(S) /\ Cardinality(S) <= Cardinality(L \cup {x})
  BY <1>1, FS_Subset
<1>3. Cardinality(S) \in Nat /\ Cardinality(L) \in Nat
  BY <1>2, FS_CardinalityType
<1> QED BY <1>1, <1>2, <1>3

(* Counted occurrences are fewer than the expression's instants: the ack's   *)
(* enqueued_count-th successor exists if any does.                         *)
LEMMA NthGoes ==
  ASSUME NEW k \in Confs, NEW from \in Int, NEW t \in Int, from <= t, t <= MaxTime,
         NEW slots, slots \subseteq {from} \cup {u \in After(k.cron, from) : u <= t},
         NEW n \in Nat, n >= 1, n <= Cardinality(slots)
  PROVE  Goes(k, from, Nth(k.cron, from, n))
<1> DEFINE A == After(k.cron, from)
           S == {u \in A : Before(A, u) = n - 1}
<1>0. IsFiniteSet(A) /\ \A u \in A : u \in Int /\ u > from
  BY Crons, FS_Subset DEF After
<1>1. k.cron # {} => S # {}
  <2> SUFFICES ASSUME k.cron # {} PROVE S # {}
    OBVIOUS
  <2>1. PICK last \in A : last > MaxTime
    BY Crons DEF After
  <2> DEFINE L == {v \in A : v < last}
  <2>2. slots \subseteq L \cup {from}
    BY <1>0, <2>1, Crons
  <2> HIDE DEF A
  <2>3. IsFiniteSet(L)
    BY <1>0, FS_Subset
  <2>4. Before(A, last) = Cardinality(L)
    BY DEF Before
  <2> HIDE DEF L
  <2>5. Cardinality(L) \in Nat /\ Cardinality(slots) <= Cardinality(L) + 1
    BY <2>2, <2>3, OneMore
  <2>6. Before(A, last) >= n - 1 /\ n - 1 \in Nat
    <3>1. Cardinality(slots) \in Nat
      BY <2>2, <2>3, OneMore
    <3> QED BY <2>4, <2>5, <3>1
  <2>7. \E u \in A : Before(A, u) = n - 1
    BY <1>0, <2>6, Placed
  <2> QED BY <2>7
<1>2. S \subseteq After(k.cron, from) /\ Nth(k.cron, from, n) = Least(S)
  BY DEF Nth
<1> HIDE DEF S
<1> QED BY <1>1, <1>2, LeastGoes

LEMMA AdmittedCount ==
  ASSUME NEW row, NEW slots, IsFiniteSet(slots)
  PROVE  /\ IsFiniteSet(Admitted(row, slots))
         /\ Cardinality(Admitted(row, slots)) \in Nat
         /\ Cardinality(Admitted(row, slots)) <= Cardinality(slots)
<1> DEFINE I(u) == [rev |-> row.rev, slot |-> u, forbid |-> row.conf.concurrency # "queue"]
           new == Admitted(row, slots)
           f == [i \in new |-> i.slot]
<1>1. new \subseteq {I(u) : u \in slots}
  BY Zenon DEF Admitted
<1>2. \A i \in new : i.slot \in slots /\ i = I(i.slot)
  BY <1>1
<1> HIDE DEF I, new
<1>3. f \in Injection(new, slots)
  BY <1>2 DEF Injection, IsInjective
<1> HIDE DEF f
<1>4. IsFiniteSet(new) /\ Cardinality(new) <= Cardinality(slots)
  BY <1>3, FS_Injection
<1>5. Cardinality(new) \in Nat
  BY <1>4, FS_CardinalityType
<1> QED BY <1>4, <1>5 DEF new

-----------------------------------------------------------------------------
(* The cursor's invariant.  Its parts are stated of the control plane's row  *)
(* r and of the won claims, so that a step need only show that the rows     *)
(* follow each other and that the claims grow.                             *)

Typed(x) == IsRow(x) /\ x.conf \in Confs /\ x.next \in Int \cup {None}

(* A row whose expression fires has a cursor. *)
Fires(x) == x.conf.enabled /\ x.conf.cron # {} => x.next # None

(* x carries no newer revision than r, and the configuration r has. *)
Agrees(x, r) == r # None => x.rev <= r.rev /\ (x.rev = r.rev => x.conf = r.conf)

(* The occurrence at which the row x stood has been claimed. *)
Reported(x, won) == x.next \in Int /\ x.next <= MaxTime /\ <<x.rev, x.next>> \in won

(* Where the count of an ack leads. *)
Counted(x, n) ==
  /\ n \in Nat
  /\ x.conf.misfire = "catch_up" /\ n > 0 =>
       Goes(x.conf, x.next, Nth(x.conf.cron, x.next, Min({n, MaxSteps})))

CallInv(c, x, r, won) ==
  /\ x.op = "runNow" => c \in Requests
  /\ x.at = "update" => Typed(x.row) /\ Fires(x.row)
  /\ x.at \in {"ack", "cas"} => Typed(x.row) /\ Agrees(x.row, r)
  /\ x.at = "ack" => x.op = "ack" /\ Reported(x.row, won) /\ Counted(x.row, x.count)
  /\ x.at = "cas" => \/ /\ x.op = "runNow" /\ Fires(x.row)
                        /\ x.row.next # None => x.row.next <= MaxTime
                     \/ /\ x.op = "ack" /\ Reported(x.row, won)
                        /\ Goes(x.row.conf, x.row.next, x.to)

PumpInv(p, r) ==
  p # None => /\ Typed(p.row) /\ Agrees(p.row, r)
              /\ p.row.next \in Int /\ p.at \in Int /\ p.row.next <= p.at /\ p.at <= MaxTime

RowsInv == /\ cp # None => Typed(cp) /\ Fires(cp)
           /\ ag # None => Typed(ag)
PutsInv(n) == \A m \in n : m.op = "put" => Typed(m.row)
CallsInv == \A c \in Calls : CallInv(c, call[c], cp, claimed)
UnbornInv == ~created => pump = None /\ \A c \in Calls : call[c].at \notin {"ack", "cas"}

CursorInv ==
  /\ now \in Int /\ now <= MaxTime
  /\ RowsInv /\ PutsInv(net) /\ PumpInv(pump, cp) /\ CallsInv /\ UnbornInv

(* The row r may become s: of the same revision, or of the next one. *)
Follows(r, s) ==
  s = None \/ (r # None /\ ((s.rev = r.rev /\ s.conf = r.conf) \/ s.rev = r.rev + 1))

LEMMA AgreesFollows ==
  ASSUME NEW x, Typed(x), NEW r, r # None => Typed(r), NEW s, Follows(r, s), Agrees(x, r)
  PROVE  Agrees(x, s)
BY DEF Agrees, Follows, Typed, IsRow

LEMMA CallFollows ==
  ASSUME NEW c, NEW x, NEW r, r # None => Typed(r), NEW s, Follows(r, s),
         NEW won, NEW won2, won \subseteq won2, CallInv(c, x, r, won)
  PROVE  CallInv(c, x, s, won2)
<1>1. x.at \in {"ack", "cas"} => Agrees(x.row, s)
  BY AgreesFollows DEF CallInv
<1>2. \A y : Reported(y, won) => Reported(y, won2)
  BY DEF Reported
<1> QED BY <1>1, <1>2 DEF CallInv

(* At most one call moves in a step. *)
Moves(c, x) == call' = [call EXCEPT ![c] = x]

LEMMA OneCallMoves ==
  ASSUME CallShape, CursorInv, Follows(cp, cp'), claimed \subseteq claimed',
         NEW c \in Calls, NEW x, Moves(c, x), CallInv(c, x, cp', claimed')
  PROVE  CallsInv'
<1>1. cp # None => Typed(cp)
  BY DEF CursorInv, RowsInv
<1>2. ASSUME NEW d \in Calls PROVE CallInv(d, call'[d], cp', claimed')
  <2>1. CallInv(d, call[d], cp', claimed')
    <3>1. CallInv(d, call[d], cp, claimed)
      BY DEF CursorInv, CallsInv
    <3> QED BY <1>1, <3>1, CallFollows
  <2>2. call'[d] = IF d = c THEN x ELSE call[d]
    BY DEF CallShape, Moves
  <2> QED BY <2>1, <2>2
<1> QED BY <1>2 DEF CallsInv

LEMMA NoCallMoves ==
  ASSUME CursorInv, Follows(cp, cp'), claimed \subseteq claimed', UNCHANGED call
  PROVE  CallsInv'
<1>1. cp # None => Typed(cp)
  BY DEF CursorInv, RowsInv
<1>2. ASSUME NEW d \in Calls PROVE CallInv(d, call'[d], cp', claimed')
  <2>1. CallInv(d, call[d], cp, claimed)
    BY DEF CursorInv, CallsInv
  <2> QED BY <1>1, <2>1, CallFollows
<1> QED BY <1>2 DEF CallsInv

(* A call that ends or goes on to a point where it holds no row. *)
LEMMA QuietCall ==
  ASSUME CallShape, CursorInv, Follows(cp, cp'), claimed \subseteq claimed', NEW c \in Calls,
         End(c) \/ (\E p \in {"get", "await", "drop"} : GoTo(c, p))
  PROVE  CallsInv' /\ (UnbornInv /\ UNCHANGED <<created, pump>> => UnbornInv')
<1>1. PICK x : /\ Moves(c, x) /\ x.at \in {"idle", "get", "await", "drop"}
               /\ (x.op = call[c].op \/ x.op = "none")
  <2>1. CASE End(c)
    <3>1. Moves(c, Idle)
      BY <2>1 DEF End, Moves
    <3>2. Idle.at = "idle" /\ Idle.op = "none"
      BY DEF Idle
    <3> QED BY <3>1, <3>2
  <2>2. CASE \E p \in {"get", "await", "drop"} : GoTo(c, p)
    <3>1. PICK p \in {"get", "await", "drop"} : GoTo(c, p)
      BY <2>2
    <3> DEFINE y == [call[c] EXCEPT !.at = p]
    <3>2. Moves(c, y)
      BY <3>1 DEF GoTo, Moves
    <3>3. y.at = p /\ y.op = call[c].op
      BY DEF CallShape, IsCall
    <3> HIDE DEF y
    <3> QED BY <3>2, <3>3
  <2> QED BY <2>1, <2>2
<1>2. CallInv(c, x, cp', claimed')
  BY <1>1 DEF CallInv, CursorInv, CallsInv
<1>3. UnbornInv /\ UNCHANGED <<created, pump>> => UnbornInv'
  BY <1>1 DEF UnbornInv, Moves, CallShape
<1> QED BY <1>1, <1>2, <1>3, OneCallMoves

LEMMA PumpFollows ==
  ASSUME CursorInv, Follows(cp, cp'), pump' = None \/ pump' = pump
  PROVE  PumpInv(pump', cp')
<1>1. cp # None => Typed(cp)
  BY DEF CursorInv, RowsInv
<1>2. PumpInv(pump, cp)
  BY DEF CursorInv
<1>3. PumpInv(pump, cp')
  BY <1>1, <1>2, AgreesFollows DEF PumpInv
<1> QED BY <1>3 DEF PumpInv

(* What the helpers of the module give to rows, messages and calls. *)
LEMMA FirstCursorGoes ==
  ASSUME now \in Int, now <= MaxTime, NEW k \in Confs
  PROVE  FirstCursor(k) \in Int \cup {None} /\ (k.enabled /\ k.cron # {} => FirstCursor(k) # None)
<1>1. Goes(k, now, NextAfter(k.cron, now))
  BY NextGoes
<1> QED BY <1>1 DEF FirstCursor, Goes

LEMMA PutTyped ==
  ASSUME CursorInv, NEW from, NEW row, Typed(row), Put(from, row) PROVE PutsInv(net')
<1> DEFINE n == IF row.next = None THEN FirstCursor(row.conf) ELSE row.next
           x == [row EXCEPT !.next = n]
           m == [from |-> from, op |-> "put", at |-> "sent", row |-> x]
<1>1. net' = net \cup {m}
  BY DEF Put, Send
<1>2. n \in Int \cup {None}
  BY FirstCursorGoes DEF CursorInv, Typed
<1> HIDE DEF n
<1>3. Typed(x)
  BY <1>2 DEF Typed, IsRow
<1> QED BY <1>1, <1>3 DEF PutsInv, CursorInv

LEMMA DetachPuts == ASSUME NetShape, NEW c, Detach(c), PutsInv(net) PROVE PutsInv(net')
<1> DEFINE D(m) == IF m.from = c THEN [m EXCEPT !.from = None] ELSE m
<1>1. net' = {D(m) : m \in net}
  BY DEF Detach
<1>2. \A m \in net : D(m).op = m.op /\ D(m).row = m.row
  BY DEF NetShape, IsMessage
<1> HIDE DEF D
<1> QED BY <1>1, <1>2 DEF PutsInv

LEMMA Starts ==
  ASSUME NEW c, NEW o, NEW p, NEW row, Start(c, o, p, row)
  PROVE  \E x : Moves(c, x) /\ x.op = o /\ x.at = p /\ x.row = row
<1> DEFINE x == [Idle EXCEPT !.op = o, !.at = p, !.row = row]
<1>1. Moves(c, x)
  BY DEF Start, Moves
<1>2. x.op = o /\ x.at = p /\ x.row = row
  BY DEF Idle
<1> HIDE DEF x
<1> QED BY <1>1, <1>2

LEMMA Born == ASSUME RevisionInv, cp # None \/ ag # None PROVE created
BY DEF RevisionInv, Known

LEMMA ClientCursor ==
  ASSUME RevisionInv, CursorInv, NEW c \in Requests, ClientStep(c) PROVE CursorInv'
<1>0. c \in Calls /\ CallShape
  BY DEF Calls, RevisionInv
<1>1. ASSUME NEW k \in Confs, Create(c, k) PROVE CursorInv'
  <2>1. UNCHANGED <<now, ag, net, pump, claimed>> /\ created'
    BY <1>1 DEF Create, agentSide
  <2>2. ~created /\ cp = None /\ ag = None /\ pump = None
    BY <1>1 DEF Create, RevisionInv, Known, CursorInv, UnbornInv
  <2>3. Typed(cp') /\ Fires(cp')
    <3> DEFINE n == FirstCursor(k)
    <3>1. n \in Int \cup {None} /\ (k.enabled /\ k.cron # {} => n # None)
      BY FirstCursorGoes DEF CursorInv
    <3>2. cp' = [rev |-> 1, conf |-> k, next |-> n]
      BY <1>1 DEF Create
    <3> HIDE DEF n
    <3> QED BY <3>1, <3>2 DEF Typed, Fires, IsRow
  <2>4. PICK x : Moves(c, x) /\ x.op = "create" /\ x.at = "get"
    BY <1>1, Starts DEF Create
  <2>5. ASSUME NEW d \in Calls PROVE CallInv(d, call'[d], cp', claimed')
    <3>1. call'[d] = IF d = c THEN x ELSE call[d]
      BY <1>0, <2>4 DEF CallShape, Moves
    <3>2. CallInv(d, call[d], cp, claimed) /\ call[d].at \notin {"ack", "cas"}
      BY <2>2 DEF CursorInv, CallsInv, UnbornInv
    <3> QED BY <2>4, <3>1, <3>2 DEF CallInv
  <2>6. CallsInv'
    BY <2>5 DEF CallsInv
  <2> QED BY <2>1, <2>2, <2>3, <2>6 DEF CursorInv, RowsInv, PutsInv, PumpInv, UnbornInv
<1>2. CASE cp # None /\ ~\E k \in Confs : Create(c, k)
  <2>1. UNCHANGED <<now, cp, ag, pump, claimed, created>> /\ created
    BY <1>2, Born DEF ClientStep, Patch, Delete, RunNow, cpSide, agentSide
  <2>2. Follows(cp, cp')
    BY <2>1 DEF Follows
  <2>3. PutsInv(net')
    <3>1. net' = net \/ \E m : m.op = "delete" /\ net' = net \cup {m}
      BY <1>2, Zenon DEF ClientStep, Patch, Delete, RunNow, Send
    <3> QED BY <3>1 DEF PutsInv, CursorInv
  <2>4. PICK x : Moves(c, x) /\ CallInv(c, x, cp, claimed)
    <3>1. ASSUME NEW k \in Confs, Patch(c, k) PROVE \E x : Moves(c, x) /\ CallInv(c, x, cp, claimed)
      <4> DEFINE n == FirstCursor(k)
                 row == [rev |-> cp.rev + 1, conf |-> k, next |-> n]
      <4>1. n \in Int \cup {None} /\ (k.enabled /\ k.cron # {} => n # None)
        BY FirstCursorGoes DEF CursorInv
      <4>2. PICK x : Moves(c, x) /\ x.op = "patch" /\ x.at = "update" /\ x.row = row
        BY <3>1, Starts DEF Patch
      <4> HIDE DEF n
      <4>3. Typed(row) /\ Fires(row)
        BY <1>2, <4>1 DEF Typed, Fires, IsRow, CursorInv, RowsInv
      <4> QED BY <4>2, <4>3 DEF CallInv
    <3>2. CASE Delete(c)
      <4>1. PICK x : Moves(c, x) /\ x.op = "delete" /\ x.at = "await"
        BY <3>2, Starts DEF Delete
      <4> QED BY <4>1 DEF CallInv
    <3>3. CASE RunNow(c)
      <4>1. PICK x : Moves(c, x) /\ x.op = "runNow" /\ x.at = "cas" /\ x.row = cp
        BY <3>3, Starts DEF RunNow
      <4>2. Typed(cp) /\ Fires(cp) /\ Agrees(cp, cp) /\ (cp.next # None => cp.next <= MaxTime)
        BY <1>2, <3>3 DEF CursorInv, RowsInv, Agrees, RunNow, Typed, IsRow
      <4> QED BY <4>1, <4>2 DEF CallInv
    <3> QED BY <1>2, <3>1, <3>2, <3>3 DEF ClientStep
  <2>5. CallsInv'
    BY <1>0, <2>1, <2>2, <2>4, OneCallMoves
  <2>6. PumpInv(pump', cp')
    BY <2>1, <2>2, PumpFollows
  <2> QED BY <2>1, <2>3, <2>5, <2>6 DEF CursorInv, RowsInv, UnbornInv
<1> QED BY <1>1, <1>2 DEF ClientStep, Patch, Delete, RunNow

(* A cursor of a revision moves on, or is given up for good. *)
Moved(r, s) ==
  /\ r # None /\ Typed(s) /\ Fires(s) /\ s.rev = r.rev /\ s.conf = r.conf
  /\ s.next = None \/ (r.next # None /\ r.next < s.next)

LEMMA GoesMoved ==
  ASSUME NEW r, r # None, Typed(r), NEW to, r.next # None \/ to = None, Typed([r EXCEPT !.next = to]),
         to = None \/ r.next < to, r.conf.enabled /\ r.conf.cron # {} => to # None
  PROVE  Moved(r, [r EXCEPT !.next = to])
BY DEF Moved, Typed, Fires, IsRow

(* runNow: of the row that was read nothing but the cursor matters, and that *)
(* is the row's own, unless none was read; and then none is to come.        *)
LEMMA RunNowCursor ==
  ASSUME RevisionInv, CursorInv, NEW c \in Calls, RunNowMoves(c)
  PROVE  cp' = cp \/ Moved(cp, cp')
<1> DEFINE row  == call[c].row
           from == IF row.next = None THEN now ELSE row.next
           to   == IF row.conf.enabled THEN NextAfter(row.conf.cron, from) ELSE None
<1>1. CallInv(c, call[c], cp, claimed) /\ call[c].op = "runNow" /\ call[c].at = "cas"
  BY DEF RunNowMoves, CursorInv, CallsInv
<1>2. /\ Typed(row) /\ Agrees(row, cp) /\ Fires(row)
      /\ row.next # None => row.next <= MaxTime
  BY <1>1 DEF CallInv
<1>3. CASE RunNowHits(row)
  <2>1. cp # None /\ cp.conf = row.conf /\ (row.next # None => cp.next = row.next) /\ Typed(cp)
    BY <1>2, <1>3 DEF RunNowHits, Agrees, CursorInv, RowsInv
  <2>2. from \in Int /\ from <= MaxTime
    BY <1>2 DEF CursorInv, Typed
  <2>3. Goes(row.conf, from, NextAfter(row.conf.cron, from))
    <3> HIDE DEF from, row
    <3> QED BY <1>2, <2>2, NextGoes DEF Typed
  <2>4. cp' = [cp EXCEPT !.next = to]
    BY <1>3 DEF RunNowMoves
  <2>5. /\ to \in Int \cup {None}
        /\ to = None \/ from < to
        /\ row.conf.enabled /\ row.conf.cron # {} => to # None
    BY <2>3 DEF Goes
  <2>6. row.next = None => to = None
    <3>1. ASSUME row.next = None, row.conf.enabled PROVE to = None
      <4>1. row.conf.cron = {}
        BY <1>2, <3>1 DEF Fires
      <4>2. NextAfter(row.conf.cron, from) = None
        BY <4>1 DEF NextAfter, After, Least
      <4> QED BY <3>1, <4>2
    <3> QED BY <3>1
  <2>7. row.next # None => from = cp.next
    BY <2>1
  <2> HIDE DEF to, from
  <2>8. cp.next # None \/ to = None
    BY <2>1, <2>6, <2>7
  <2>9. to = None \/ cp.next < to
    BY <2>5, <2>6, <2>7
  <2>10. Typed([cp EXCEPT !.next = to])
    BY <2>1, <2>5 DEF Typed, IsRow
  <2> HIDE DEF row
  <2> QED BY <2>1, <2>4, <2>5, <2>8, <2>9, <2>10, GoesMoved
<1>4. CASE ~RunNowHits(row)
  BY <1>4 DEF RunNowMoves
<1> QED BY <1>3, <1>4

LEMMA AckCursor ==
  ASSUME RevisionInv, CursorInv, NEW c \in Calls, AckMoves(c)
  PROVE  cp' = cp \/ (Moved(cp, cp') /\ <<cp.rev, cp.next>> \in claimed)
<1> DEFINE row == call[c].row
           to  == call[c].to
<1>1. CallInv(c, call[c], cp, claimed) /\ call[c].op = "ack" /\ call[c].at = "cas"
  BY DEF AckMoves, CursorInv, CallsInv
<1>2. Typed(row) /\ Agrees(row, cp) /\ Reported(row, claimed) /\ Goes(row.conf, row.next, to)
  BY <1>1 DEF CallInv
<1>3. CASE AckHits(row)
  <2>1. cp # None /\ cp.conf = row.conf /\ cp.next = row.next /\ cp.rev = row.rev /\ Typed(cp)
    BY <1>2, <1>3 DEF AckHits, Agrees, CursorInv, RowsInv
  <2>2. cp' = [cp EXCEPT !.next = to]
    BY <1>3 DEF AckMoves
  <2> HIDE DEF row, to
  <2>3. <<cp.rev, cp.next>> \in claimed /\ cp.next \in Int
    BY <1>2, <2>1 DEF Reported
  <2>4. /\ to \in Int \cup {None}
        /\ to = None \/ cp.next < to
        /\ cp.conf.cron # {} => to # None
    BY <1>2, <2>1 DEF Goes
  <2>5. cp.next # None
    BY <2>3, Crons, <2>1 DEF Typed
  <2>6. Typed([cp EXCEPT !.next = to])
    BY <2>1, <2>4 DEF Typed, IsRow
  <2> QED BY <2>1, <2>2, <2>3, <2>4, <2>5, <2>6, GoesMoved
<1>4. CASE ~AckHits(row)
  BY <1>4 DEF AckMoves
<1> QED BY <1>3, <1>4

(* ackOccurrence: the occurrence, and where the cursor is to go from it. *)
LEMMA AckReads ==
  ASSUME RevisionInv, CursorInv, NEW c \in Calls, AckRead(c), AckApplies(call[c])
  PROVE  \E x : Moves(c, x) /\ CallInv(c, x, cp, claimed)
<1> DEFINE slot == call[c].row.next
           n    == call[c].count
           to   == Authoritative(cp.conf, slot, now, n)
           row  == [cp EXCEPT !.next = slot]
           x    == [op |-> "ack", at |-> "cas", row |-> row, to |-> to, count |-> n]
<1>1. CallInv(c, call[c], cp, claimed) /\ call[c].at = "ack"
  BY DEF AckRead, CursorInv, CallsInv
<1>2. /\ Typed(call[c].row) /\ Agrees(call[c].row, cp)
      /\ Reported(call[c].row, claimed) /\ Counted(call[c].row, n)
  BY <1>1 DEF CallInv
<1>3. cp # None /\ Typed(cp) /\ cp.rev = call[c].row.rev /\ cp.conf = call[c].row.conf
  BY <1>2 DEF AckApplies, Agrees, CursorInv, RowsInv
<1>4. slot \in Int /\ slot <= MaxTime /\ <<cp.rev, slot>> \in claimed
  BY <1>2, <1>3 DEF Reported
<1>5. n > 0 /\ cp.conf.misfire = "catch_up" =>
        Goes(cp.conf, slot, Nth(cp.conf.cron, slot, Min({n, MaxSteps})))
  BY <1>2, <1>3 DEF Counted
<1>6. Moves(c, x)
  BY DEF AckRead, Moves
<1>7. Typed(row) /\ row.rev = cp.rev /\ row.conf = cp.conf /\ row.next = slot
  BY <1>3, <1>4 DEF Typed, IsRow
<1> HIDE DEF slot, n, row
<1>8. Goes(cp.conf, slot, to)
  BY <1>3, <1>4, <1>5, PastNowGoes DEF Authoritative, CursorInv, Typed
<1> HIDE DEF to
<1>9. x.op = "ack" /\ x.at = "cas" /\ x.row = row /\ x.to = to
  OBVIOUS
<1> HIDE DEF x
<1>10. Agrees(row, cp) /\ Reported(row, claimed)
  BY <1>3, <1>4, <1>7 DEF Agrees, Reported, Typed, IsRow
<1>11. CallInv(c, x, cp, claimed)
  BY <1>7, <1>8, <1>9, <1>10 DEF CallInv
<1> QED BY <1>6, <1>11

LEMMA CallCursor ==
  ASSUME RevisionInv, CursorInv, NEW c \in Calls, CallStep(c) \/ Evicted(c) PROVE CursorInv'
<1>0. CallShape /\ NetShape /\ (cp # None => Typed(cp))
  BY DEF RevisionInv, CursorInv, RowsInv
<1>1. UNCHANGED <<now, ag, pump, claimed, created>>
  BY DEF CallStep, Update, TaskRefused, RunNowMoves, AckRead, AckMoves, GetAndSync, Failed,
         DropRow, Evicted, cpSide, agentSide
<1>2. Follows(cp, cp') /\ (cp' # None => Typed(cp') /\ Fires(cp'))
  <2>1. CASE Update(c)
    <3>1. CallInv(c, call[c], cp, claimed)
      BY DEF CursorInv, CallsInv
    <3> QED BY <1>0, <2>1, <3>1 DEF Update, UpdateHits, Follows, CallInv, Typed, IsRow, CursorInv, RowsInv
  <2>2. CASE RunNowMoves(c) \/ AckMoves(c)
    <3>1. cp' = cp \/ Moved(cp, cp')
      BY <2>2, RunNowCursor, AckCursor
    <3> QED BY <3>1 DEF Moved, Follows, CursorInv, RowsInv
  <2>3. CASE DropRow(c)
    BY <2>3 DEF DropRow, Follows
  <2>4. CASE UNCHANGED cp
    BY <2>4 DEF Follows, CursorInv, RowsInv
  <2> QED BY <2>1, <2>2, <2>3, <2>4
          DEF CallStep, TaskRefused, AckRead, GetAndSync, Failed, Evicted, cpSide
<1>3. PutsInv(net')
  <2>1. CASE Failed(c) \/ Evicted(c)
    BY <1>0, <2>1, DetachPuts DEF Failed, Evicted, CursorInv
  <2>2. CASE Update(c) \/ GetAndSync(c)
    <3>1. CallInv(c, call[c], cp, claimed)
      BY DEF CursorInv, CallsInv
    <3>2. net' = net \/ \E from, row : Typed(row) /\ Put(from, row)
      BY <1>0, <2>2, <3>1 DEF Update, GetAndSync, CallInv
    <3> QED BY <3>2, PutTyped DEF CursorInv
  <2>3. CASE UNCHANGED net
    BY <2>3 DEF CursorInv
  <2> QED BY <2>1, <2>2, <2>3 DEF CallStep, TaskRefused, RunNowMoves, AckRead, AckMoves, DropRow
<1>4. CallsInv' /\ UnbornInv'
  <2>1. CASE AckRead(c) /\ AckApplies(call[c])
    <3>1. created
      BY <2>1, Born DEF AckApplies
    <3>2. PICK x : Moves(c, x) /\ CallInv(c, x, cp, claimed)
      BY <2>1, AckReads
    <3>3. UNCHANGED cp
      BY <2>1 DEF AckRead, cpSide
    <3> QED BY <1>0, <1>1, <1>2, <3>1, <3>2, <3>3, OneCallMoves DEF UnbornInv
  <2>2. CASE ~(AckRead(c) /\ AckApplies(call[c]))
    <3>1. End(c) \/ \E p \in {"get", "await", "drop"} : GoTo(c, p)
      BY <2>2 DEF CallStep, Update, TaskRefused, RunNowMoves, AckRead, AckMoves, GetAndSync,
         Failed, DropRow, Evicted
    <3> QED BY <1>0, <1>1, <1>2, <3>1, QuietCall DEF CursorInv
  <2> QED BY <2>1, <2>2
<1>5. PumpInv(pump', cp')
  BY <1>1, <1>2, PumpFollows
<1>6. RowsInv'
  BY <1>1, <1>2 DEF CursorInv, RowsInv
<1> QED BY <1>1, <1>3, <1>4, <1>5, <1>6 DEF CursorInv

LEMMA LaterInt ==
  ASSUME NEW a \in Int \cup {None}, NEW b \in Int \cup {None} PROVE Later(a, b) \in Int \cup {None}
<1>1. ASSUME a \in Int, b \in Int PROVE Max({a, b}) \in {a, b}
  <2>1. \E u \in {a, b} : \A v \in {a, b} : u >= v
    BY <1>1
  <2> QED BY <2>1 DEF Max
<1> QED BY <1>1 DEF Later

LEMMA MergedTyped ==
  ASSUME CursorInv, NEW wire, Typed(wire) PROVE Typed(Merged(ag, wire))
<1> DEFINE n == MergedCursor(ag, wire)
<1>1. wire.next \in Int \cup {None} /\ FirstCursor(wire.conf) \in Int \cup {None}
  BY FirstCursorGoes DEF Typed, CursorInv
<1>2. ag # None => Later(ag.next, wire.next) \in Int \cup {None}
  BY <1>1, LaterInt DEF CursorInv, RowsInv, Typed
<1>3. n \in Int \cup {None}
  BY <1>1, <1>2 DEF MergedCursor
<1>4. Merged(ag, wire) = [wire EXCEPT !.next = n]
  BY DEF Merged
<1> HIDE DEF n
<1> QED BY <1>3, <1>4 DEF Typed, IsRow

LEMMA AnswerCursor ==
  ASSUME CallShape, CursorInv, NEW m \in net, Answer(m), UNCHANGED <<cp, claimed, created, pump>>
  PROVE  PutsInv(net') /\ CallsInv' /\ UnbornInv'
<1>1. PutsInv(net')
  BY DEF Answer, PutsInv, CursorInv
<1>2. Follows(cp, cp')
  BY DEF Follows
<1>3. CASE m.from \in Calls /\ m.from # None
  <2>1. End(m.from) \/ \E p \in {"get", "await", "drop"} : GoTo(m.from, p)
    BY <1>3 DEF Answer
  <2> QED BY <1>1, <1>2, <1>3, <2>1, QuietCall DEF CursorInv
<1>4. CASE ~(m.from \in Calls /\ m.from # None)
  <2>1. UNCHANGED call
    BY <1>4 DEF Answer, CallShape, GoTo, End
  <2> QED BY <1>1, <1>2, <2>1, NoCallMoves DEF CursorInv, UnbornInv
<1> QED BY <1>3, <1>4

LEMMA NetCursor ==
  ASSUME RevisionInv, CursorInv,
         NEW m \in net, PutRead(m) \/ PutWrite(m) \/ DeleteArrives(m) \/ Lost(m)
  PROVE  CursorInv'
<1>0. CallShape /\ NetShape
  BY DEF RevisionInv
<1>1. UNCHANGED <<now, cp, claimed, created, pump>>
  BY DEF PutRead, PutWrite, DeleteArrives, Lost, cpSide, agentSide
<1>2. Follows(cp, cp')
  BY <1>1 DEF Follows
<1>3. PutsInv(net') /\ CallsInv' /\ UnbornInv'
  <2>1. CASE Answer(m)
    BY <1>0, <1>1, <2>1, AnswerCursor
  <2>2. CASE UNCHANGED call
    <3>1. CallsInv' /\ UnbornInv'
      BY <1>1, <1>2, <2>2, NoCallMoves DEF CursorInv, UnbornInv
    <3>2. CASE net' \subseteq net
      BY <3>1, <3>2 DEF PutsInv, CursorInv
    <3>3. CASE PutRead(m) /\ Supported(m.row.conf) /\ ~Ignored(ag, m.row)
      <4> DEFINE w == [m EXCEPT !.at = "write", !.row = Merged(ag, @)]
      <4>1. m.op = "put" /\ net' = (net \ {m}) \cup {w}
        BY <3>3 DEF PutRead
      <4>2. Typed(Merged(ag, m.row))
        BY <4>1, MergedTyped DEF CursorInv, PutsInv
      <4>3. w.row = Merged(ag, m.row)
        BY <1>0, <4>1 DEF NetShape, IsMessage
      <4> HIDE DEF w
      <4> QED BY <3>1, <4>1, <4>2, <4>3 DEF PutsInv, CursorInv
    <3> QED BY <2>2, <3>2, <3>3, <2>1, <1>0, <1>1, AnswerCursor
            DEF PutRead, PutWrite, DeleteArrives, Lost, Answer
  <2> QED BY <2>1, <2>2 DEF PutRead, PutWrite, DeleteArrives, Lost
<1>4. RowsInv'
  <2>1. CASE PutWrite(m)
    <3>1. Typed(m.row)
      BY <1>0, <2>1 DEF PutWrite, NetShape, CursorInv, PutsInv
    <3> QED BY <1>1, <2>1, <3>1 DEF PutWrite, CursorInv, RowsInv
  <2>2. CASE ag' = None \/ ag' = ag
    BY <1>1, <2>2 DEF CursorInv, RowsInv
  <2> QED BY <2>1, <2>2 DEF PutRead, DeleteArrives, Lost, agentSide
<1>5. PumpInv(pump', cp')
  BY <1>1, <1>2, PumpFollows
<1> QED BY <1>1, <1>3, <1>4, <1>5 DEF CursorInv

(* The claim: the ack carries a claimed occurrence, and a count that the     *)
(* expression covers.                                                      *)
LEMMA ClaimCounted ==
  ASSUME NEW row, Typed(row), row.next \in Int, NEW t \in Int, row.next <= t, t <= MaxTime,
         NEW n, n = Cardinality(Admitted(row, PlanMisfire(row.conf, row.next, t).slots))
  PROVE  Counted(row, n)
<1> DEFINE k     == row.conf
           slots == PlanMisfire(k, row.next, t).slots
<1>0. k \in Confs
  BY DEF Typed
<1>1. slots \subseteq {row.next} \cup {u \in After(k.cron, row.next) : u <= t}
  BY <1>0, SlotsMissed DEF PlanMisfire
<1>2. IsFiniteSet(slots)
  <2>1. IsFiniteSet({u \in After(k.cron, row.next) : u <= t})
    BY <1>0, Crons, FS_Subset DEF After
  <2> HIDE DEF slots
  <2> QED BY <1>1, <2>1, OneMore
<1> HIDE DEF slots
<1>3. n \in Nat /\ n <= Cardinality(slots) /\ Cardinality(slots) \in Nat
  BY <1>2, AdmittedCount, FS_CardinalityType DEF slots
<1>4. ASSUME n > 0 PROVE Goes(k, row.next, Nth(k.cron, row.next, Min({n, MaxSteps})))
  <2> DEFINE j == Min({n, MaxSteps})
  <2>1. j \in {n, MaxSteps} /\ j <= n
    <3>1. \E u \in {n, MaxSteps} : \A v \in {n, MaxSteps} : u <= v
      BY <1>3, Crons, <1>0
    <3> QED BY <3>1 DEF Min
  <2>2. j \in Nat /\ j >= 1 /\ j <= Cardinality(slots)
    BY <1>0, <1>3, <1>4, <2>1, Crons
  <2> HIDE DEF j
  <2>3. Goes(k, row.next, Nth(k.cron, row.next, j))
    <3> HIDE DEF k
    <3> QED BY <1>0, <1>1, <2>2, NthGoes
  <2> QED BY <2>3 DEF j
<1> QED BY <1>3, <1>4 DEF Counted

LEMMA ClaimCursor == ASSUME RevisionInv, CursorInv, Claim PROVE CursorInv'
<1> DEFINE row  == pump.row
           plan == PlanMisfire(row.conf, row.next, pump.at)
           n    == Cardinality(Admitted(row, plan.slots))
<1>1. UNCHANGED <<now, cp, created, net>> /\ pump # None /\ pump' = None
  BY DEF Claim, cpSide
<1>2. /\ Typed(row) /\ Agrees(row, cp)
      /\ row.next \in Int /\ pump.at \in Int /\ row.next <= pump.at /\ pump.at <= MaxTime
  BY <1>1 DEF CursorInv, PumpInv
<1>3. Follows(cp, cp') /\ claimed \subseteq claimed'
  BY <1>1 DEF Follows, Claim
<1>4. CallsInv' /\ UnbornInv'
  <2>0. created
    BY <1>1 DEF CursorInv, UnbornInv
  <2>1. CASE UNCHANGED call
    BY <1>1, <1>3, <2>0, <2>1, NoCallMoves DEF UnbornInv
  <2>2. CASE ~UNCHANGED call
    <3>1. ClaimHolds(row) /\ claimed' = claimed \cup {<<row.rev, row.next>>} /\ SendAck(row, n)
      BY <2>2 DEF Claim
    <3>2. PICK c \in Acks : call' = [call EXCEPT ![c] = [op |-> "ack", at |-> "ack", row |-> row,
                                                        to |-> None, count |-> n]]
      BY <2>2, <3>1 DEF SendAck
    <3>3. Reported(row, claimed') /\ Counted(row, n)
      <4>1. Reported(row, claimed')
        BY <1>2, <3>1, ScheduleConstantsOK DEF Reported
      <4>2. Counted(row, n)
        <5> HIDE DEF row
        <5> QED BY <1>2, ClaimCounted
      <4> QED BY <4>1, <4>2
    <3> DEFINE x == [op |-> "ack", at |-> "ack", row |-> row, to |-> None, count |-> n]
    <3> HIDE DEF n, row, plan
    <3>4. Moves(c, x) /\ x.op = "ack" /\ x.at = "ack" /\ x.row = row /\ x.count = n
      BY <3>2 DEF Moves
    <3> HIDE DEF x
    <3>5. CallInv(c, x, cp', claimed')
      BY <1>1, <1>2, <3>3, <3>4 DEF CallInv
    <3>6. CallsInv'
      BY <1>3, <3>4, <3>5, OneCallMoves DEF Calls, RevisionInv
    <3> QED BY <1>1, <2>0, <3>6 DEF UnbornInv
  <2> QED BY <2>1, <2>2
<1>5. RowsInv'
  <2>1. CASE ClaimHolds(row)
    <3>1. plan.next \in Int \cup {None}
      BY <1>2, PlannedNext DEF Typed
    <3>2. ag' = [ag EXCEPT !.next = plan.next]
      BY <2>1 DEF Claim
    <3> HIDE DEF plan
    <3>3. Typed(ag')
      BY <2>1, <3>1, <3>2 DEF ClaimHolds, CursorInv, RowsInv, Typed, IsRow
    <3> QED BY <1>1, <3>3 DEF CursorInv, RowsInv
  <2>2. CASE ~ClaimHolds(row)
    BY <1>1, <2>2 DEF Claim, CursorInv, RowsInv
  <2> QED BY <2>1, <2>2
<1> QED BY <1>1, <1>4, <1>5 DEF CursorInv, PutsInv, PumpInv

LEMMA AgentCursor ==
  ASSUME RevisionInv, CursorInv, ListDue \/ TaskEnds \/ AgentCrash \/ Tick PROVE CursorInv'
<1>1. /\ UNCHANGED <<cp, ag, claimed, created, call>> /\ net' \subseteq net
      /\ now' \in Int /\ now' <= MaxTime
  BY Crons, ScheduleConstantsOK DEF ListDue, TaskEnds, AgentCrash, Tick, cpSide, agentSide, CursorInv
<1>2. Follows(cp, cp')
  BY <1>1 DEF Follows
<1>3. CallsInv' /\ RowsInv' /\ PutsInv(net')
  BY <1>1, <1>2, NoCallMoves DEF CursorInv, RowsInv, PutsInv
<1>4. PumpInv(pump', cp') /\ UnbornInv'
  <2>1. CASE ListDue
    <3>1. pump' = [row |-> ag, at |-> now] /\ Due(ag, now)
      BY <2>1 DEF ListDue
    <3>2. Typed(ag) /\ ag.next \in Int /\ ag.next <= now /\ created
      BY <3>1, Born DEF Due, CursorInv, RowsInv, Typed
    <3>3. Agrees(ag, cp)
      BY <3>1 DEF Due, RevisionInv, Known, Agrees
    <3> QED BY <1>1, <3>1, <3>2, <3>3 DEF PumpInv, CursorInv, UnbornInv
  <2>2. CASE pump' = pump \/ pump' = None
    BY <1>1, <1>2, <2>2, PumpFollows DEF CursorInv, UnbornInv
  <2> QED BY <2>1, <2>2 DEF TaskEnds, AgentCrash, Tick, agentSide
<1> QED BY <1>1, <1>3, <1>4 DEF CursorInv

LEMMA CursorInvHolds == Spec => []CursorInv
<1>1. Init => CursorInv
  BY ScheduleConstantsOK DEF Init, Idle, CursorInv, RowsInv, PutsInv, PumpInv, CallsInv, CallInv, UnbornInv
<1>2. RevisionInv /\ CursorInv /\ [Next]_vars => CursorInv'
  <2> SUFFICES ASSUME RevisionInv, CursorInv, [Next]_vars PROVE CursorInv'
    OBVIOUS
  <2>1. CASE Next
    <3>1. CASE Reconcile
      <4>1. UNCHANGED <<now, cp, ag, call, pump, claimed, created>> /\ Typed(cp)
        BY <3>1 DEF Reconcile, cpSide, agentSide, CursorInv, RowsInv
      <4>2. PutsInv(net')
        BY <3>1, <4>1, PutTyped DEF Reconcile
      <4>3. CallsInv'
        BY <4>1, NoCallMoves DEF Follows
      <4> QED BY <4>1, <4>2, <4>3 DEF CursorInv, RowsInv, PumpInv, UnbornInv
    <3> QED BY <2>1, <3>1, ClientCursor, CallCursor, NetCursor, ClaimCursor, AgentCursor DEF Next
  <2>2. CASE UNCHANGED vars
    BY <2>2 DEF vars, CursorInv, RowsInv, PutsInv, PumpInv, CallsInv, UnbornInv
  <2> QED BY <2>1, <2>2
<1> QED BY <1>1, <1>2, RevisionInvHolds, PTL DEF Spec

(* runNow and ackOccurrence race on one cursor with two CASes, while         *)
(* patches, deletes and the agent go on: within a revision the cursor never *)
(* moves back, and it leaves an occurrence only when the agent has claimed  *)
(* that occurrence under that revision, or by "run now".                    *)
THEOREM CursorsMoveByClaim == Spec => CursorMovesByClaim
<1> DEFINE A == cp # None /\ cp' # None /\ cp'.rev = cp.rev /\ cp'.next # cp.next
       => /\ cp'.next = None \/ (cp.next # None /\ cp.next < cp'.next)
          /\ \/ <<cp.rev, cp.next>> \in claimed
             \/ \E c \in Requests : call[c].op = "runNow" /\ call[c].at = "cas"
                                   /\ call'[c].at = "get"
<1>1. RevisionInv /\ CursorInv /\ [Next]_vars => [A]_vars
  <2> SUFFICES ASSUME RevisionInv, CursorInv, Next,
                      cp # None, cp' # None, cp'.rev = cp.rev, cp'.next # cp.next
               PROVE  /\ cp'.next = None \/ (cp.next # None /\ cp.next < cp'.next)
                      /\ \/ <<cp.rev, cp.next>> \in claimed
                         \/ \E c \in Requests : call[c].op = "runNow" /\ call[c].at = "cas"
                                               /\ call'[c].at = "get"
    OBVIOUS
  <2>1. \E c \in Calls : RunNowMoves(c) \/ AckMoves(c)
    <3>1. ~\E c \in Requests : ClientStep(c)
      <4>1. ~\E c, k : Create(c, k)
        BY Born DEF Create
      <4> QED BY <4>1 DEF ClientStep, Patch, Delete, RunNow, cpSide
    <3>2. \A c \in Calls : ~Update(c)
      <4> SUFFICES ASSUME NEW c \in Calls, Update(c) PROVE FALSE
        OBVIOUS
      <4>1. CallInv(c, call[c], cp, claimed)
        BY DEF CursorInv, CallsInv
      <4> QED BY <4>1 DEF Update, UpdateHits, CallInv, Typed, IsRow, CursorInv, RowsInv
    <3> QED BY <3>1, <3>2
            DEF Next, Reconcile, CallStep, Evicted, TaskRefused, AckRead, GetAndSync, Failed, DropRow,
                PutRead, PutWrite, DeleteArrives, Lost, ListDue, Claim, TaskEnds, AgentCrash, Tick, cpSide
  <2>2. PICK c \in Calls : RunNowMoves(c) \/ AckMoves(c)
    BY <2>1
  <2>3. Moved(cp, cp')
    BY <2>2, RunNowCursor, AckCursor
  <2>4. CASE AckMoves(c)
    BY <2>2, <2>3, <2>4, AckCursor DEF Moved
  <2>5. CASE RunNowMoves(c)
    <3>1. CallInv(c, call[c], cp, claimed) /\ call[c].op = "runNow" /\ call[c].at = "cas"
      BY <2>5 DEF RunNowMoves, CursorInv, CallsInv
    <3>2. c \in Requests
      BY <3>1 DEF CallInv
    <3>3. call'[c].at = "get"
      BY <2>2, <2>5 DEF RunNowMoves, GoTo, RevisionInv, CallShape, IsCall
    <3> QED BY <2>3, <3>1, <3>2, <3>3 DEF Moved
  <2> QED BY <2>2, <2>4, <2>5
<1>2. CursorMovesByClaim <=> [][A]_vars
  BY DEF CursorMovesByClaim
<1> QED BY <1>1, <1>2, RevisionInvHolds, CursorInvHolds, PTL DEF Spec
=============================================================================
