------------------------- MODULE NativeHost_proofs -------------------------
(***************************************************************************)
(* The order of the lifecycle, that no reaction is lost and that the exit  *)
(* code is true, for any stoppers, signals and scripts.                    *)
(*                                                                         *)
(* The states say little of it: it is the queue of the owner that orders   *)
(* the steps.  AwaitInv says that a wait is under way exactly while its    *)
(* timer is, and that its completion is queued at most once; StartInv that *)
(* no stop of the kernel is queued before the start of the entry; CutInv   *)
(* that a kernel that stops, or is about to, has a reason that keeps the   *)
(* entry from a graceful shutdown.                                         *)
(***************************************************************************)
EXTENDS NativeHost, FiniteSetTheorems, TLAPS

Phases == {"created", "initialized", "running", "stopping", "closed"}
Stages == {"new", "ready", "armed", "checked", "loop", "returned"}
Awaited == {"pending", "fulfilled", "rejected", "cancelled"}
Answers == {"none", "ok", "failed"} \cup Awaited
Timers == {"off", "armed", "queued"}

(* What is posted, and to whom; what the jobs of the script are. *)
Handlers ==
  [kind : {"resume", "cancel"}, of : Callees] \cup [kind : {"cancelOp", "done"}, of : Ops]
  \cup [kind : {"start", "stop", "signal", "shutdown", "pump"}, of : {"none"}]
Jobs ==
  [kind : {"react", "left"}, of : Callees] \cup [kind : {"op"}, of : Ops] \cup [kind : {"left"}, of : {"none"}]

TypeInv ==
  /\ hostUse \in HostUse
  /\ phase \in Phases /\ pc \in Stages /\ kernel \in BOOLEAN
  /\ stopper \in [Stoppers -> {"idle", "marked", "posted"}]
  /\ app \in [ready : BOOLEAN, seen : BOOLEAN, failed : BOOLEAN]
  /\ wait \in {"none", "armed", "fired"}
  /\ queue \in Seq(Handlers) /\ jobs \in Seq(Jobs) /\ pump \in BOOLEAN
  /\ await \in [Callees -> Answers] /\ timer \in [Callees -> Timers]
  /\ op \in [Ops -> {"none", "waiting", "working", "done", "settled"}]

-----------------------------------------------------------------------------
(* The inductive invariant.                                                *)

(* Where Application::run is, and the phase of its kernel. *)
InStep ==
  /\ pc = "new" => phase = "created"
  /\ pc \in {"ready", "armed", "checked"} => phase = "initialized"
  /\ pc = "loop" => phase \in {"running", "stopping"}
  /\ pc = "returned" => phase \in {"created", "closed"}

(* Parts of the invariant that the queue q has. *)
Has(q, kind) == \E i \in DOMAIN q : q[i].kind = kind
ResumesOnce(q, t) ==
  /\ \A i \in DOMAIN q : q[i].kind = "resume" => t[q[i].of] = "queued"
  /\ \A i, j \in DOMAIN q : q[i].kind = "resume" /\ q[j] = q[i] => i = j
StartsFirst(q) ==
  \A i, j \in DOMAIN q : q[i].kind = "start" =>
    /\ j < i => q[j].kind # "shutdown"
    /\ q[j].kind = "start" => i = j

(* A wait is under way while its timer is; its completion is queued once.  *)
AwaitInv ==
  /\ \A a \in Callees : await[a] \in Awaited <=> timer[a] # "off"
  /\ ResumesOnce(queue, timer)

(* The entry starts once, in a running kernel that no stop has reached.    *)
Begun == await["evaluation"] # "none" \/ Has(queue, "start")
StartInv ==
  /\ Begun => phase \in {"running", "stopping", "closed"}
  /\ StartsFirst(queue)
  /\ Has(queue, "start") => await["evaluation"] = "none" /\ phase = "running"
  /\ Has(queue, "shutdown") /\ pc \notin {"loop", "returned"} => kernel

(* What has been called, in its order, and what the host knows of it. *)
OrderInv ==
  /\ await["initialize"] # "none" => await["evaluation"] = "ok"
  /\ await["callback"] # "none" => await["initialize"] # "none"
  /\ await["shutdown"] # "none" => await["initialize"] = "ok" /\ app.seen
  /\ app.ready => await["initialize"] = "ok" /\ await["shutdown"] \notin {"ok", "failed"}
  /\ app.failed <=> \E a \in Entry : await[a] = "failed"

(* A kernel that stops, or is about to, has a reason. *)
CutInv ==
  Has(queue, "shutdown") \/ phase \in {"stopping", "closed"} =>
    app.seen \/ app.failed \/ ~Begun

(* A job that no throwing call has left behind has its turn. *)
TurnInv ==
  /\ ~Left(jobs) => pump
  /\ pump => Has(queue, "pump")

(* Nothing moves once the engine is closed. *)
ClosedInv ==
  phase = "closed" =>
    /\ Left(jobs) /\ wait = "none"
    /\ \A a \in Callees : timer[a] = "off"
    /\ \A o \in Ops : op[o] \in {"none", "settled"}
    /\ exit = "failure" <=> app.failed

IInv ==
  /\ TypeInv /\ InStep /\ AwaitInv /\ StartInv /\ OrderInv
  /\ CutInv /\ TurnInv /\ ClosedInv

-----------------------------------------------------------------------------
(* The queue.                                                              *)

(* What is left once its head is taken. *)
LEMMA Taken ==
  ASSUME NEW q \in Seq(Handlers), q # <<>>
  PROVE  /\ Tail(q) \in Seq(Handlers) /\ Head(q) \in Handlers
         /\ \A kind : Has(Tail(q), kind) => Has(q, kind)
         /\ \A kind : Has(q, kind) /\ Head(q).kind # kind => Has(Tail(q), kind)
         /\ StartsFirst(q) =>
              /\ StartsFirst(Tail(q))
              /\ Head(q).kind = "start" => ~Has(Tail(q), "start")
              /\ Head(q).kind = "shutdown" => ~Has(q, "start")
         /\ \A t : ResumesOnce(q, t) =>
              /\ ResumesOnce(Tail(q), t)
              /\ Head(q).kind = "resume" =>
                   t[Head(q).of] = "queued" /\ \A i \in DOMAIN Tail(q) : Tail(q)[i] # Head(q)
<1>1. /\ Len(q) \in Nat /\ Len(q) >= 1 /\ DOMAIN q = 1 .. Len(q) /\ q[1] = Head(q)
      /\ Tail(q) \in Seq(Handlers) /\ DOMAIN Tail(q) = 1 .. Len(q) - 1
      /\ \A i \in 1 .. Len(q) - 1 : Tail(q)[i] = q[i + 1]
  OBVIOUS
<1>2. \A kind : Has(Tail(q), kind) => Has(q, kind)
  BY <1>1 DEF Has
<1>3. ASSUME NEW kind, Has(q, kind), Head(q).kind # kind
      PROVE  Has(Tail(q), kind)
  <2>1. PICK i \in 1 .. Len(q) : q[i].kind = kind
    BY <1>1, <1>3 DEF Has
  <2>2. i - 1 \in 1 .. Len(q) - 1 /\ (i - 1) + 1 = i
    BY <2>1, <1>1, <1>3
  <2>3. Tail(q)[i - 1].kind = kind
    BY <2>1, <2>2, <1>1
  <2>4. QED
    BY <2>2, <2>3, <1>1 DEF Has
<1>4. ASSUME StartsFirst(q)
      PROVE  /\ StartsFirst(Tail(q))
             /\ Head(q).kind = "start" => ~Has(Tail(q), "start")
             /\ Head(q).kind = "shutdown" => ~Has(q, "start")
  <2>1. \A i, j \in 1 .. Len(q) - 1 : i + 1 \in DOMAIN q /\ j + 1 \in DOMAIN q /\ 1 \in DOMAIN q /\ i + 1 # 1
    BY <1>1
  <2>2. StartsFirst(Tail(q))
    BY <1>1, <1>4, <2>1 DEF StartsFirst
  <2>3. Head(q).kind = "start" => ~Has(Tail(q), "start")
    BY <1>1, <1>4, <2>1 DEF StartsFirst, Has
  <2>4. Head(q).kind = "shutdown" => ~Has(q, "start")
    BY <1>1, <1>4, <2>1 DEF StartsFirst, Has
  <2>5. QED
    BY <2>2, <2>3, <2>4
<1>5. ASSUME NEW t, ResumesOnce(q, t)
      PROVE  /\ ResumesOnce(Tail(q), t)
             /\ Head(q).kind = "resume" =>
                  t[Head(q).of] = "queued" /\ \A i \in DOMAIN Tail(q) : Tail(q)[i] # Head(q)
  <2>1. \A i, j \in 1 .. Len(q) - 1 : i + 1 \in DOMAIN q /\ j + 1 \in DOMAIN q /\ 1 \in DOMAIN q /\ i + 1 # 1
    BY <1>1
  <2>2. ResumesOnce(Tail(q), t)
    BY <1>1, <1>5, <2>1 DEF ResumesOnce
  <2>3. Head(q).kind = "resume" => t[Head(q).of] = "queued" /\ \A i \in DOMAIN Tail(q) : Tail(q)[i] # Head(q)
    BY <1>1, <1>5, <2>1 DEF ResumesOnce
  <2>4. QED
    BY <2>2, <2>3
<1>6. Head(q) \in Handlers
  BY <1>1
<1>7. QED
  BY <1>1, <1>2, <1>3, <1>4, <1>5, <1>6

(* And when handlers are posted. *)
LEMMA Posted ==
  ASSUME NEW q \in Seq(Handlers), NEW hs \in Seq(Handlers)
  PROVE  /\ q \o hs \in Seq(Handlers)
         /\ \A kind : Has(q \o hs, kind) <=> Has(q, kind) \/ Has(hs, kind)
         /\ StartsFirst(q) /\ ~Has(hs, "start") => StartsFirst(q \o hs)
         /\ \A t : ResumesOnce(q, t) /\ ~Has(hs, "resume") => ResumesOnce(q \o hs, t)
<1>1. /\ q \o hs \in Seq(Handlers) /\ Len(q) \in Nat /\ Len(hs) \in Nat
      /\ DOMAIN q = 1 .. Len(q) /\ DOMAIN hs = 1 .. Len(hs)
      /\ DOMAIN (q \o hs) = 1 .. Len(q) + Len(hs)
  OBVIOUS
<1>2. \A i \in 1 .. Len(q) : i \in DOMAIN (q \o hs) /\ (q \o hs)[i] = q[i]
  BY <1>1
<1>3. \A i \in 1 .. Len(hs) : Len(q) + i \in DOMAIN (q \o hs) /\ (q \o hs)[Len(q) + i] = hs[i]
  BY <1>1
<1>4. ASSUME NEW i \in DOMAIN (q \o hs), i \notin DOMAIN q
      PROVE  i - Len(q) \in DOMAIN hs /\ (q \o hs)[i] = hs[i - Len(q)] /\ i > Len(q)
  BY <1>1, <1>4
<1>5. ASSUME NEW kind
      PROVE  Has(q \o hs, kind) <=> Has(q, kind) \/ Has(hs, kind)
  <2>1. Has(q \o hs, kind) => Has(q, kind) \/ Has(hs, kind)
    BY <1>1, <1>2, <1>4 DEF Has
  <2>2. Has(q, kind) => Has(q \o hs, kind)
    BY <1>1, <1>2 DEF Has
  <2>3. Has(hs, kind) => Has(q \o hs, kind)
    BY <1>1, <1>3 DEF Has
  <2>4. QED
    BY <2>1, <2>2, <2>3
<1>6. ASSUME StartsFirst(q), ~Has(hs, "start")
      PROVE  StartsFirst(q \o hs)
  <2>1. SUFFICES ASSUME NEW i \in DOMAIN (q \o hs), NEW j \in DOMAIN (q \o hs), (q \o hs)[i].kind = "start"
                 PROVE  /\ j < i => (q \o hs)[j].kind # "shutdown"
                        /\ (q \o hs)[j].kind = "start" => i = j
    BY DEF StartsFirst
  <2>2. i \in DOMAIN q /\ (q \o hs)[i] = q[i]
    BY <1>1, <1>2, <1>4, <1>6, <2>1 DEF Has
  <2>3. CASE j \in DOMAIN q
    <3>1. (q \o hs)[j] = q[j]
      BY <2>3, <1>1, <1>2
    <3>2. QED
      BY <2>1, <2>2, <2>3, <3>1, <1>6 DEF StartsFirst
  <2>4. CASE j \notin DOMAIN q
    <3>1. j > Len(q) /\ i <= Len(q) /\ (q \o hs)[j].kind # "start"
      BY <2>2, <2>4, <1>1, <1>4, <1>6 DEF Has
    <3>2. ~(j < i)
      BY <3>1, <1>1, <2>2
    <3>3. QED
      BY <3>1, <3>2
  <2>5. QED
    BY <2>3, <2>4
<1>7. ASSUME NEW t, ResumesOnce(q, t), ~Has(hs, "resume")
      PROVE  ResumesOnce(q \o hs, t)
  <2>1. \A i \in DOMAIN (q \o hs) : (q \o hs)[i].kind = "resume" => i \in DOMAIN q /\ (q \o hs)[i] = q[i]
    BY <1>1, <1>2, <1>4, <1>7 DEF Has
  <2>2. QED
    BY <2>1, <1>7 DEF ResumesOnce
<1>8. QED
  BY <1>1, <1>5, <1>6, <1>7

(* A completion of a wait that had none is queued once. *)
LEMMA WakesOnce ==
  ASSUME NEW q \in Seq(Handlers), NEW t \in [Callees -> Timers], NEW a \in Callees,
         ResumesOnce(q, t), t[a] # "queued"
  PROVE  ResumesOnce(q \o <<Handler("resume", a)>>, [t EXCEPT ![a] = "queued"])
<1> DEFINE h == Handler("resume", a)
           r == q \o <<h>>
<1>1. h.kind = "resume" /\ h.of = a
  BY DEF Handler
<1>2. /\ Len(q) \in Nat /\ DOMAIN q = 1 .. Len(q) /\ DOMAIN r = 1 .. Len(q) + 1
      /\ r[Len(q) + 1] = h /\ \A i \in 1 .. Len(q) : r[i] = q[i] /\ q[i] \in Handlers
  OBVIOUS
<1>3. \A i \in 1 .. Len(q) : q[i].kind = "resume" => q[i] # h /\ q[i].of # a
  BY <1>1, <1>2 DEF ResumesOnce
<1> HIDE DEF h, r
<1>4. \A x \in Handlers : x.kind = "resume" => x.of \in Callees
  BY DEF Handlers
<1>5. \A i \in DOMAIN r : r[i].kind = "resume" => [t EXCEPT ![a] = "queued"][r[i].of] = "queued"
  <2>1. SUFFICES ASSUME NEW i \in DOMAIN r, r[i].kind = "resume"
                 PROVE  [t EXCEPT ![a] = "queued"][r[i].of] = "queued"
    OBVIOUS
  <2>2. CASE i = Len(q) + 1
    BY <2>2, <1>1, <1>2
  <2>3. CASE i \in 1 .. Len(q)
    BY <2>1, <2>3, <1>2, <1>3, <1>4 DEF ResumesOnce
  <2>4. QED
    BY <2>2, <2>3, <1>2
<1>6. \A i, j \in DOMAIN r : r[i].kind = "resume" /\ r[j] = r[i] => i = j
  BY <1>1, <1>2, <1>3 DEF ResumesOnce
<1>7. QED
  BY <1>5, <1>6 DEF ResumesOnce, r, h

(* Callbacks and operations are finite in number, so what is posted for    *)
(* some of them is a sequence.                                             *)
LEMMA FiniteTargets == IsFiniteSet(Callees) /\ IsFiniteSet(Ops)
<1>1. IsFiniteSet({"evaluation"})
  BY FS_Singleton
<1>2. IsFiniteSet({"evaluation", "initialize"})
  <2>1. {"evaluation", "initialize"} = {"evaluation"} \cup {"initialize"}
    OBVIOUS
  <2>2. QED
    BY <1>1, <2>1, FS_AddElement
<1>3. IsFiniteSet({"evaluation", "initialize", "shutdown"})
  <2>1. {"evaluation", "initialize", "shutdown"} = {"evaluation", "initialize"} \cup {"shutdown"}
    OBVIOUS
  <2>2. QED
    BY <1>2, <2>1, FS_AddElement
<1>4. IsFiniteSet(Callees)
  BY <1>3, FS_AddElement DEF Callees, Entry
<1>5. IsFiniteSet({"sleep"})
  BY FS_Singleton
<1>6. IsFiniteSet(Ops)
  <2>1. Ops = {"sleep"} \cup {"job"}
    BY DEF Ops
  <2>2. QED
    BY <1>5, <2>1, FS_AddElement
<1>7. QED
  BY <1>4, <1>6

LEMMA Sequenced ==
  ASSUME NEW kind, NEW T, IsFiniteSet(T)
  PROVE  /\ SetToSeq({Handler(kind, x) : x \in T}) \in Seq({Handler(kind, x) : x \in T})
         /\ \A other : Has(SetToSeq({Handler(kind, x) : x \in T}), other) => other = kind
<1> DEFINE S == {Handler(kind, x) : x \in T}
           g == [x \in T |-> Handler(kind, x)]
<1>1. g \in Surjection(T, S)
  BY DEF Surjection
<1>2. IsFiniteSet(S)
  BY <1>1, FS_Surjection
<1>3. \A h \in S : h.kind = kind
  BY DEF Handler
<1> HIDE DEF S, g
<1>4. PICK f \in [1 .. Cardinality(S) -> S] : IsInjective(f)
  BY <1>2, FS_CardinalityType DEF ExistsBijection, Bijection, Injection
<1>5. SetToSeq(S) \in [1 .. Cardinality(S) -> S]
  BY <1>4 DEF SetToSeq
<1>6. SetToSeq(S) \in Seq(S)
  BY <1>2, <1>5, FS_CardinalityType
<1>7. \A other : Has(SetToSeq(S), other) => other = kind
  BY <1>3, <1>6 DEF Has
<1>8. QED
  BY <1>6, <1>7 DEF S

(* What a step that runs script leaves: a turn is queued for a job that is *)
(* pending.                                                                *)
LEMMA LeavesTurn ==
  ASSUME NEW q \in Seq(Handlers), NEW pending \in Seq(Jobs), NEW scheduled \in BOOLEAN,
         NEW js \in Seq(Jobs), NEW hs \in Seq(Handlers),
         scheduled => Has(q, "pump"), Leaves(q, pending, scheduled, js, hs)
  PROVE  /\ jobs' \in Seq(Jobs) /\ pump' \in BOOLEAN /\ queue' \in Seq(Handlers)
         /\ jobs' # <<>> => pump'
         /\ pump' => Has(queue', "pump")
         /\ Has(q, "pump") => Has(queue', "pump")
         /\ \A kind : kind # "pump" => (Has(queue', kind) <=> Has(q, kind) \/ Has(hs, kind))
         /\ StartsFirst(q) /\ ~Has(hs, "start") => StartsFirst(queue')
         /\ \A t : ResumesOnce(q \o hs, t) => ResumesOnce(queue', t)
<1> DEFINE turn == IF ~scheduled /\ jobs' # <<>> THEN <<Plain("pump")>> ELSE <<>>
<1>1. /\ jobs' = pending \o js /\ pump' = (scheduled \/ (~scheduled /\ jobs' # <<>>))
      /\ queue' = q \o hs \o turn
  BY DEF Leaves
<1> HIDE DEF turn
<1>2. jobs' \in Seq(Jobs) /\ pump' \in BOOLEAN /\ (jobs' # <<>> => pump')
  <2>1. pending \o js \in Seq(Jobs)
    OBVIOUS
  <2>2. QED
    BY <1>1, <2>1
<1> USE DEF turn
<1>3. turn \in Seq(Handlers) /\ (\A kind : Has(turn, kind) => kind = "pump") /\ (pump' => scheduled \/ Has(turn, "pump"))
  <2>1. Plain("pump") \in Handlers /\ Plain("pump").kind = "pump"
    BY DEF Plain, Handler, Handlers
  <2>2. CASE ~scheduled /\ jobs' # <<>>
    <3>1. turn = <<Plain("pump")>>
      BY <2>2
    <3>2. turn \in Seq(Handlers) /\ DOMAIN turn = {1} /\ turn[1] = Plain("pump")
      BY <2>1, <3>1
    <3>3. QED
      BY <2>1, <3>2 DEF Has
  <2>3. CASE ~(~scheduled /\ jobs' # <<>>)
    <3>1. turn = <<>>
      BY <2>3
    <3>2. QED
      BY <1>1, <2>3, <3>1 DEF Has
  <2>4. QED
    BY <2>2, <2>3
<1> HIDE DEF turn
<1>4. q \o hs \in Seq(Handlers) /\ queue' = (q \o hs) \o turn
  BY <1>1
<1>5. /\ q \o hs \in Seq(Handlers)
      /\ \A kind : Has(q \o hs, kind) <=> Has(q, kind) \/ Has(hs, kind)
      /\ StartsFirst(q) /\ ~Has(hs, "start") => StartsFirst(q \o hs)
  BY Posted
<1>6. /\ queue' \in Seq(Handlers)
      /\ \A kind : Has(queue', kind) <=> Has(q \o hs, kind) \/ Has(turn, kind)
      /\ StartsFirst(q \o hs) /\ ~Has(turn, "start") => StartsFirst(queue')
      /\ \A t : ResumesOnce(q \o hs, t) /\ ~Has(turn, "resume") => ResumesOnce(queue', t)
  BY <1>3, <1>4, Posted
<1>7. ~Has(turn, "start") /\ ~Has(turn, "resume")
  BY <1>3
<1>8. (pump' => Has(queue', "pump")) /\ (Has(q, "pump") => Has(queue', "pump"))
  BY <1>1, <1>3, <1>5, <1>6
<1>9. \A kind : kind # "pump" => (Has(queue', kind) <=> Has(q, kind) \/ Has(hs, kind))
  BY <1>3, <1>5, <1>6
<1>10. QED
  BY <1>2, <1>5, <1>6, <1>7, <1>8, <1>9

(* Handlers that are posted one at a time. *)
LEMMA Kinds ==
  /\ \A kind \in {"start", "stop", "signal", "shutdown", "pump"} : Plain(kind) \in Handlers /\ Plain(kind).kind = kind
  /\ \A a \in Callees, kind \in {"resume", "cancel"} :
       Handler(kind, a) \in Handlers /\ Handler(kind, a).kind = kind /\ Handler(kind, a).of = a
  /\ \A o \in Ops, kind \in {"cancelOp", "done"} :
       Handler(kind, o) \in Handlers /\ Handler(kind, o).kind = kind /\ Handler(kind, o).of = o
  /\ \A h \in Handlers : /\ h.kind \in {"resume", "cancel"} => h.of \in Callees
                         /\ h.kind \in {"cancelOp", "done"} => h.of \in Ops
                         /\ h.kind = "resume" => h = Handler("resume", h.of)
BY DEF Plain, Handler, Handlers

LEMMA Few ==
  /\ <<>> \in Seq(Handlers) /\ \A kind : ~Has(<<>>, kind)
  /\ \A h \in Handlers : <<h>> \in Seq(Handlers) /\ \A kind : Has(<<h>>, kind) <=> h.kind = kind
<1>1. ASSUME NEW h \in Handlers, NEW kind
      PROVE  <<h>> \in Seq(Handlers) /\ (Has(<<h>>, kind) <=> h.kind = kind)
  <2>1. DOMAIN <<h>> = {1} /\ <<h>>[1] = h
    OBVIOUS
  <2>2. QED
    BY <2>1 DEF Has
<1>2. QED
  BY <1>1 DEF Has

LEMMA Appended ==
  ASSUME NEW q \in Seq(Handlers), NEW h \in Handlers
  PROVE  /\ Append(q, h) \in Seq(Handlers)
         /\ \A kind : Has(Append(q, h), kind) <=> Has(q, kind) \/ h.kind = kind
         /\ StartsFirst(q) /\ h.kind # "start" => StartsFirst(Append(q, h))
         /\ ~Has(q, "start") /\ ~Has(q, "shutdown") => StartsFirst(Append(q, h))
         /\ \A t : ResumesOnce(q, t) /\ h.kind # "resume" => ResumesOnce(Append(q, h), t)
<1>1. Append(q, h) = q \o <<h>>
  OBVIOUS
<1>2. <<h>> \in Seq(Handlers) /\ \A kind : Has(<<h>>, kind) <=> h.kind = kind
  BY Few
<1>3. ASSUME ~Has(q, "start"), ~Has(q, "shutdown")
      PROVE  StartsFirst(Append(q, h))
  <2>1. /\ Len(q) \in Nat /\ DOMAIN q = 1 .. Len(q) /\ DOMAIN Append(q, h) = 1 .. Len(q) + 1
        /\ \A i \in 1 .. Len(q) : Append(q, h)[i] = q[i]
    OBVIOUS
  <2>2. \A i \in 1 .. Len(q) : Append(q, h)[i].kind \notin {"start", "shutdown"}
    BY <1>3, <2>1 DEF Has
  <2>3. \A i \in DOMAIN Append(q, h) : Append(q, h)[i].kind = "start" => i = Len(q) + 1
    BY <2>1, <2>2
  <2>4. QED
    BY <2>1, <2>2, <2>3 DEF StartsFirst
<1>4. /\ q \o <<h>> \in Seq(Handlers)
      /\ \A kind : Has(q \o <<h>>, kind) <=> Has(q, kind) \/ Has(<<h>>, kind)
      /\ StartsFirst(q) /\ ~Has(<<h>>, "start") => StartsFirst(q \o <<h>>)
      /\ \A t : ResumesOnce(q, t) /\ ~Has(<<h>>, "resume") => ResumesOnce(q \o <<h>>, t)
  BY <1>2, Posted
<1> DEFINE long == q \o <<h>>
<1> HIDE DEF long
<1>5. /\ long \in Seq(Handlers)
      /\ \A kind : Has(long, kind) <=> Has(q, kind) \/ h.kind = kind
      /\ StartsFirst(q) /\ h.kind # "start" => StartsFirst(long)
      /\ \A t : ResumesOnce(q, t) /\ h.kind # "resume" => ResumesOnce(long, t)
  BY <1>2, <1>4 DEF long
<1>6. QED
  BY <1>1, <1>3, <1>5 DEF long

-----------------------------------------------------------------------------
(* Each step preserves the invariant.  First those of run, *)
LEMMA RunSteps ==
  ASSUME IInv, Initialize \/ InitializeFails \/ Run
  PROVE  IInv'
<1> USE DEF IInv
<1>1. CASE Initialize
  BY <1>1 DEF Initialize, TypeInv, InStep, AwaitInv, StartInv, OrderInv, CutInv, TurnInv, ClosedInv, Begun,
              threads, loop, awaiting, Phases, Stages
<1>2. CASE InitializeFails
  BY <1>2 DEF InitializeFails, TypeInv, InStep, AwaitInv, StartInv, OrderInv, CutInv, TurnInv, ClosedInv, Begun,
              threads, loop, awaiting, Phases, Stages
<1>3. CASE RunArms
  BY <1>3 DEF RunArms, TypeInv, InStep, AwaitInv, StartInv, OrderInv, CutInv, TurnInv, ClosedInv, Begun,
              threads, loop, awaiting, Phases, Stages
<1>4. CASE RunChecks
  <2>1. /\ Append(queue, Plain("shutdown")) \in Seq(Handlers)
        /\ \A kind : Has(Append(queue, Plain("shutdown")), kind) <=> Has(queue, kind) \/ kind = "shutdown"
        /\ StartsFirst(Append(queue, Plain("shutdown")))
        /\ ResumesOnce(Append(queue, Plain("shutdown")), timer)
    BY Appended, Kinds DEF TypeInv, AwaitInv, StartInv
  <2>2. CASE wanted
    BY <1>4, <2>1, <2>2 DEF RunChecks, TypeInv, InStep, AwaitInv, StartInv, OrderInv, CutInv, TurnInv, ClosedInv,
                            Begun, threads, awaiting, Phases, Stages
  <2>3. CASE ~wanted
    BY <1>4, <2>3 DEF RunChecks, TypeInv, InStep, AwaitInv, StartInv, OrderInv, CutInv, TurnInv, ClosedInv,
                      Begun, threads, awaiting, Phases, Stages
  <2>4. QED
    BY <2>2, <2>3
<1>5. CASE RunStarts
  <2>1. CASE kernel
    BY <1>5, <2>1 DEF RunStarts, TypeInv, InStep, AwaitInv, StartInv, OrderInv, CutInv, TurnInv, ClosedInv,
                      Begun, threads, awaiting, Phases, Stages
  <2>2. CASE ~kernel
    <3>1. ~Has(queue, "shutdown") /\ ~Begun
      BY <1>5, <2>2 DEF RunStarts, InStep, StartInv
    <3>2. /\ queue' \in Seq(Handlers) /\ StartsFirst(queue') /\ ResumesOnce(queue', timer)
          /\ \A kind : Has(queue', kind) <=> Has(queue, kind) \/ kind = "start"
      <4>1. queue' = Append(queue, Plain("start")) /\ Plain("start") \in Handlers /\ Plain("start").kind = "start"
        BY <1>5, <2>2, Kinds DEF RunStarts
      <4>2. queue \in Seq(Handlers) /\ ResumesOnce(queue, timer) /\ ~Has(queue, "start")
        BY <3>1 DEF TypeInv, AwaitInv, Begun
      <4>3. QED
        BY <3>1, <4>1, <4>2, Appended
    <3>3. QED
      BY <1>5, <2>2, <3>1, <3>2 DEF RunStarts, TypeInv, InStep, AwaitInv, StartInv, OrderInv, CutInv, TurnInv,
                                    ClosedInv, Begun, threads, awaiting, Phases, Stages
  <2>3. QED
    BY <2>1, <2>2
<1>6. QED
  BY <1>1, <1>2, <1>3, <1>4, <1>5 DEF Run

(* those of signals and of other threads, *)
LEMMA SignalSteps ==
  ASSUME IInv, Signal \/ Fire \/ (\E s \in Stoppers : StopMarks(s) \/ StopPosts(s))
  PROVE  IInv'
<1> USE DEF IInv
<1>1. CASE Signal
  BY <1>1 DEF Signal, TypeInv, InStep, AwaitInv, StartInv, OrderInv, CutInv, TurnInv, ClosedInv, Begun, loop, awaiting
<1>2. CASE Fire
  <2>1. /\ queue' \in Seq(Handlers) /\ StartsFirst(queue') /\ ResumesOnce(queue', timer)
        /\ \A kind : Has(queue', kind) <=> Has(queue, kind) \/ kind = "signal"
    BY <1>2, Appended, Kinds DEF Fire, TypeInv, AwaitInv, StartInv
  <2>2. QED
    BY <1>2, <2>1 DEF Fire, TypeInv, InStep, AwaitInv, StartInv, OrderInv, CutInv, TurnInv, ClosedInv, Begun,
                      threads, awaiting
<1>3. CASE \E s \in Stoppers : StopMarks(s)
  BY <1>3 DEF StopMarks, TypeInv, InStep, AwaitInv, StartInv, OrderInv, CutInv, TurnInv, ClosedInv, Begun, loop, awaiting
<1>4. CASE \E s \in Stoppers : StopPosts(s)
  <2>1. PICK s \in Stoppers : StopPosts(s)
    BY <1>4
  <2> DEFINE kind == IF Accepts THEN "stop" ELSE "shutdown"
  <2>2. /\ queue' \in Seq(Handlers) /\ StartsFirst(queue') /\ ResumesOnce(queue', timer)
        /\ \A k : Has(queue', k) <=> Has(queue, k) \/ k = kind
    BY <2>1, Appended, Kinds DEF StopPosts, TypeInv, AwaitInv, StartInv
  <2>3. CASE Accepts
    BY <2>1, <2>2, <2>3 DEF StopPosts, TypeInv, InStep, AwaitInv, StartInv, OrderInv, CutInv, TurnInv, ClosedInv,
                            Begun, awaiting
  <2>4. CASE ~Accepts
    <3>1. kind = "shutdown" /\ phase \notin {"initialized", "running"} /\ kernel' = TRUE
      BY <2>1, <2>4 DEF StopPosts, Accepts, TypeInv
    <3>2. UNCHANGED <<phase, pc, wanted, signals, app, wait, jobs, pump, await, timer, op, exit, hostUse>>
      BY <2>1 DEF StopPosts, awaiting
    <3>3. Begun' <=> Begun
      BY <2>2, <3>1, <3>2 DEF Begun
    <3>4. TypeInv' /\ InStep'
      BY <2>1, <2>2, <3>1, <3>2 DEF StopPosts, TypeInv, InStep
    <3>5. AwaitInv' /\ OrderInv' /\ ClosedInv'
      BY <2>2, <3>2 DEF AwaitInv, OrderInv, ClosedInv
    <3>6. StartInv' /\ TurnInv'
      BY <2>2, <3>1, <3>2, <3>3 DEF StartInv, TurnInv
    <3>7. CutInv'
      BY <2>2, <3>1, <3>2, <3>3 DEF CutInv, StartInv, TypeInv, Phases
    <3>8. QED
      BY <3>4, <3>5, <3>6, <3>7
  <2>5. QED
    BY <2>3, <2>4
<1>5. QED
  BY <1>1, <1>2, <1>3, <1>4

(* What the owner has when it takes a handler. *)
LEMMA Owner ==
  ASSUME IInv, pc = "loop", queue # <<>>
  PROVE  /\ Tail(queue) \in Seq(Handlers) /\ Head(queue) \in Handlers /\ phase \in {"running", "stopping"}
         /\ StartsFirst(Tail(queue)) /\ ResumesOnce(Tail(queue), timer)
         /\ \A kind : Has(Tail(queue), kind) => Has(queue, kind)
         /\ \A kind : Has(queue, kind) /\ Head(queue).kind # kind => Has(Tail(queue), kind)
         /\ Head(queue).kind = "start" => ~Has(Tail(queue), "start")
         /\ Head(queue).kind = "shutdown" => ~Has(queue, "start")
         /\ Head(queue).kind = "resume" =>
              timer[Of] = "queued" /\ \A i \in DOMAIN Tail(queue) : Tail(queue)[i] # Head(queue)
         /\ Head(queue).kind # "pump" /\ pump => Has(Tail(queue), "pump")
         /\ Has(queue, Head(queue).kind)
<1>1. queue \in Seq(Handlers) /\ StartsFirst(queue) /\ ResumesOnce(queue, timer) /\ phase \in {"running", "stopping"}
  BY DEF IInv, TypeInv, StartInv, AwaitInv, InStep
<1>2. Has(queue, Head(queue).kind)
  BY <1>1 DEF Has
<1>3. pump => Has(queue, "pump")
  BY DEF IInv, TurnInv
<1>4. QED
  BY <1>1, <1>2, <1>3, Taken DEF Of


(* What a step keeps of the queue: its order, and whether a start or a     *)
(* shutdown is in it.                                                      *)
Ordered(q, t) == q \in Seq(Handlers) /\ StartsFirst(q) /\ ResumesOnce(q, t)
Steady(q, r) ==
  /\ Has(r, "start") <=> Has(q, "start")
  /\ Has(r, "shutdown") <=> Has(q, "shutdown")
Alike(q, r) == Steady(q, r) /\ (Has(q, "pump") => Has(r, "pump"))
Special == {"start", "shutdown", "resume"}

LEMMA OwnerTakes ==
  ASSUME IInv, pc = "loop", queue # <<>>
  PROVE  /\ Ordered(Tail(queue), timer) /\ Ordered(queue, timer)
         /\ Head(queue).kind \notin {"start", "shutdown", "pump"} => Alike(queue, Tail(queue))
         /\ Tail(queue) \o <<>> = Tail(queue)
BY Owner DEF Ordered, Alike, Steady, IInv, TypeInv, AwaitInv, StartInv

LEMMA QuietAppend ==
  ASSUME NEW q, NEW t, Ordered(q, t), NEW h \in Handlers, h.kind \notin Special
  PROVE  Ordered(Append(q, h), t) /\ Alike(q, Append(q, h))
<1>1. /\ Append(q, h) \in Seq(Handlers)
      /\ \A kind : Has(Append(q, h), kind) <=> Has(q, kind) \/ h.kind = kind
      /\ StartsFirst(q) /\ h.kind # "start" => StartsFirst(Append(q, h))
      /\ \A u : ResumesOnce(q, u) /\ h.kind # "resume" => ResumesOnce(Append(q, h), u)
  BY Appended DEF Ordered
<1>2. QED
  BY <1>1 DEF Ordered, Alike, Steady, Special

(* A step that only runs script. *)
LEMMA QuietLeaves ==
  ASSUME NEW q, NEW t, NEW hs \in Seq(Handlers), Ordered(q, timer), Ordered(q \o hs, t), ~Has(hs, "start"),
         NEW pending \in Seq(Jobs), NEW scheduled \in BOOLEAN, NEW js \in Seq(Jobs),
         scheduled => Has(q, "pump"), Leaves(q, pending, scheduled, js, hs)
  PROVE  /\ Ordered(queue', t) /\ TurnInv' /\ jobs' \in Seq(Jobs) /\ pump' \in BOOLEAN
         /\ Has(q, "pump") => Has(queue', "pump")
         /\ Has(queue', "start") <=> Has(q, "start")
         /\ Has(queue', "shutdown") <=> Has(q, "shutdown") \/ Has(hs, "shutdown")
<1>1. q \in Seq(Handlers) /\ StartsFirst(q) /\ ResumesOnce(q \o hs, t)
  BY DEF Ordered
<1>2. /\ jobs' \in Seq(Jobs) /\ pump' \in BOOLEAN /\ queue' \in Seq(Handlers)
      /\ jobs' # <<>> => pump'
      /\ pump' => Has(queue', "pump")
      /\ Has(q, "pump") => Has(queue', "pump")
      /\ \A kind : kind # "pump" => (Has(queue', kind) <=> Has(q, kind) \/ Has(hs, kind))
      /\ StartsFirst(q) /\ ~Has(hs, "start") => StartsFirst(queue')
      /\ \A u : ResumesOnce(q \o hs, u) => ResumesOnce(queue', u)
  BY <1>1, LeavesTurn
<1>3. jobs' = <<>> => Left(jobs')
  BY DEF Left
<1>4. QED
  BY <1>1, <1>2, <1>3 DEF Ordered, TurnInv

(* A step of script that schedules no turn adds jobs that are left behind, *)
(* so that it needs none.                                                  *)
LEMMA QuietUnscheduled ==
  ASSUME NEW q, NEW t, NEW hs \in Seq(Handlers), Ordered(q, timer), Ordered(q \o hs, t), ~Has(hs, "start"),
         TurnInv, jobs \in Seq(Jobs), pump \in BOOLEAN, NEW js \in Seq(Jobs), Left(js),
         pump => Has(q, "pump"), LeavesUnscheduled(q, js, hs)
  PROVE  /\ Ordered(queue', t) /\ TurnInv' /\ jobs' \in Seq(Jobs) /\ pump' \in BOOLEAN
         /\ Has(q, "pump") => Has(queue', "pump")
         /\ Has(queue', "start") <=> Has(q, "start")
         /\ Has(queue', "shutdown") <=> Has(q, "shutdown") \/ Has(hs, "shutdown")
<1>1. jobs' = jobs \o js /\ queue' = q \o hs /\ pump' = pump
  BY DEF LeavesUnscheduled
<1>2. q \in Seq(Handlers)
  BY DEF Ordered
<1>3. /\ jobs \o js \in Seq(Jobs) /\ Len(jobs) \in Nat /\ Len(js) \in Nat
      /\ DOMAIN jobs = 1 .. Len(jobs) /\ DOMAIN js = 1 .. Len(js)
      /\ DOMAIN (jobs \o js) = 1 .. Len(jobs) + Len(js)
      /\ \A i \in 1 .. Len(jobs) : (jobs \o js)[i] = jobs[i]
      /\ \A i \in 1 .. Len(jobs) + Len(js) :
           i > Len(jobs) => i - Len(jobs) \in 1 .. Len(js) /\ (jobs \o js)[i] = js[i - Len(jobs)]
  OBVIOUS
<1>4. Left(jobs) => Left(jobs \o js)
  BY <1>3 DEF Left
<1>5. \A kind : Has(q \o hs, kind) <=> Has(q, kind) \/ Has(hs, kind)
  BY <1>2, Posted
<1>6. TurnInv'
  <2>1. ~Left(jobs') => pump'
    BY <1>1, <1>4 DEF TurnInv
  <2>2. pump' => Has(queue', "pump")
    BY <1>1, <1>5
  <2>3. QED
    BY <2>1, <2>2 DEF TurnInv
<1>7. QED
  BY <1>1, <1>3, <1>5, <1>6

(* What does not touch the lifecycle keeps what is said of it. *)
LEMMA LifecycleKept ==
  ASSUME IInv, Steady(queue, queue'), Ordered(queue', timer'), UNCHANGED <<phase, pc, kernel, app, hostUse, exit, wait>>,
         phase # "closed",
         \A a \in Callees :
           \/ await'[a] = await[a]
           \/ a \in Entry /\ await[a] \in Awaited /\ await'[a] \in Awaited
           \/ a \notin Entry /\ await[a] # "none" /\ await'[a] # "none"
  PROVE  InStep' /\ StartInv' /\ OrderInv' /\ CutInv' /\ ClosedInv'
<1>1. InStep' /\ ClosedInv'
  BY DEF IInv, InStep, ClosedInv
<1>2. \A a \in Entry : a \in Callees
  BY DEF Callees
<1>3. \A a \in Entry : /\ await'[a] = "none" <=> await[a] = "none"
                       /\ await'[a] = "ok" <=> await[a] = "ok"
                       /\ await'[a] = "failed" <=> await[a] = "failed"
  BY <1>2 DEF Awaited
<1>4. await'["callback"] = "none" <=> await["callback"] = "none"
  BY DEF Callees, Entry
<1>5. Begun' <=> Begun
  BY <1>3 DEF Begun, Steady, Entry
<1>6. StartInv' /\ CutInv'
  BY <1>3, <1>5 DEF IInv, StartInv, CutInv, Steady, Ordered, Entry
<1>7. OrderInv'
  BY <1>3, <1>4 DEF IInv, OrderInv, Entry
<1>8. QED
  BY <1>1, <1>6, <1>7

(* those of native operations, *)
LEMMA OpSteps ==
  ASSUME IInv, Elapse \/ WorkerTakes \/ WorkerEnds \/ CancelOp \/ Complete
  PROVE  IInv'
<1>1. ASSUME pc = "loop", UNCHANGED <<phase, pc, kernel, threads, app, wait, awaiting, exit, hostUse>>,
             Ordered(queue', timer), Alike(queue, queue'), TurnInv', jobs' \in Seq(Jobs), pump' \in BOOLEAN,
             op' \in [Ops -> {"none", "waiting", "working", "done", "settled"}]
      PROVE  IInv'
  <2>1. InStep' /\ StartInv' /\ OrderInv' /\ CutInv' /\ ClosedInv'
    <3>1. phase # "closed"
      BY <1>1 DEF IInv, InStep
    <3>2. QED
      BY <1>1, <3>1, LifecycleKept DEF awaiting, Alike, Steady
  <2>2. TypeInv' /\ AwaitInv'
    BY <1>1 DEF IInv, TypeInv, AwaitInv, Ordered, threads, awaiting
  <2>3. QED
    BY <1>1, <2>1, <2>2 DEF IInv
<1>2. ASSUME NEW o \in Ops, NEW h \in Handlers, NEW s \in {"done", "working"}, h.kind = "done", pc = "loop",
             op' = [op EXCEPT ![o] = s], queue' = queue \/ queue' = Append(queue, h),
             UNCHANGED <<phase, pc, kernel, threads, app, wait, jobs, pump, awaiting, exit, hostUse>>
      PROVE  IInv'
  <2>1. Ordered(queue, timer) /\ Alike(queue, queue) /\ TypeInv /\ TurnInv
    BY DEF IInv, Ordered, Alike, Steady, TypeInv, AwaitInv, StartInv
  <2>2. Ordered(queue', timer) /\ Alike(queue, queue')
    BY <1>2, <2>1, QuietAppend DEF Special
  <2>3. TurnInv'
    BY <1>2, <2>1, <2>2 DEF TurnInv, Alike, Steady
  <2>4. QED
    BY <1>1, <1>2, <2>1, <2>2, <2>3 DEF TypeInv
<1>3. "sleep" \in Ops /\ "job" \in Ops
  BY DEF Ops
<1>4. CASE Elapse
  <2>1. Handler("done", "sleep") \in Handlers /\ Handler("done", "sleep").kind = "done"
    BY <1>3, Kinds
  <2>2. QED
    BY <1>2, <1>3, <1>4, <2>1 DEF Elapse
<1>5. CASE WorkerTakes
  <2>1. Handler("done", "job") \in Handlers /\ Handler("done", "job").kind = "done"
    BY <1>3, Kinds
  <2>2. PICK s \in {"done", "working"} : s = IF Stopping THEN "done" ELSE "working"
    OBVIOUS
  <2>3. op' = [op EXCEPT !["job"] = s] /\ (queue' = queue \/ queue' = Append(queue, Handler("done", "job")))
    BY <1>5, <2>2 DEF WorkerTakes
  <2>4. QED
    BY <1>2, <1>3, <1>5, <2>1, <2>3 DEF WorkerTakes
<1>6. CASE WorkerEnds
  <2>1. Handler("done", "job") \in Handlers /\ Handler("done", "job").kind = "done"
    BY <1>3, Kinds
  <2>2. QED
    BY <1>2, <1>3, <1>6, <2>1 DEF WorkerEnds
<1>7. CASE CancelOp
  <2>1. pc = "loop" /\ queue # <<>> /\ Head(queue).kind = "cancelOp"
    BY <1>7 DEF CancelOp, Due
  <2>2. Of \in Ops /\ Handler("done", Of) \in Handlers /\ Handler("done", Of).kind = "done"
    BY <2>1, Owner, Kinds DEF Of
  <2>3. Ordered(Tail(queue), timer) /\ Alike(queue, Tail(queue))
    BY <2>1, OwnerTakes
  <2>4. Ordered(queue', timer) /\ Alike(queue, queue')
    <3>1. CASE queue' = Tail(queue)
      BY <2>3, <3>1
    <3>2. CASE queue' = Append(Tail(queue), Handler("done", Of))
      <4>1. Ordered(queue', timer) /\ Alike(Tail(queue), queue')
        BY <2>2, <2>3, <3>2, QuietAppend DEF Special
      <4>2. QED
        BY <2>3, <4>1 DEF Alike, Steady
    <3>3. QED
      BY <1>7, <3>1, <3>2 DEF CancelOp
  <2>5. op' \in [Ops -> {"none", "waiting", "working", "done", "settled"}]
    BY <1>7, <2>2 DEF CancelOp, IInv, TypeInv
  <2>6. TurnInv'
    BY <1>7, <2>4 DEF CancelOp, IInv, TurnInv, Alike, Steady
  <2>7. QED
    BY <1>1, <1>7, <2>1, <2>4, <2>5, <2>6 DEF CancelOp, IInv, TypeInv
<1>8. CASE Complete
  <2>1. pc = "loop" /\ queue # <<>> /\ Head(queue).kind = "done"
    BY <1>8 DEF Complete, Due
  <2>2. Of \in Ops /\ <<Handler("op", Of)>> \in Seq(Jobs)
    <3>1. Of \in Ops
      BY <2>1, Owner, Kinds DEF Of
    <3>2. Handler("op", Of) \in Jobs
      BY <3>1 DEF Handler, Jobs
    <3>3. QED
      BY <3>1, <3>2
  <2>3. /\ Ordered(Tail(queue), timer) /\ Alike(queue, Tail(queue)) /\ Tail(queue) \o <<>> = Tail(queue)
        /\ pump => Has(Tail(queue), "pump")
    BY <2>1, Owner, OwnerTakes
  <2>4. jobs \in Seq(Jobs) /\ pump \in BOOLEAN /\ <<>> \in Seq(Handlers) /\ \A kind : ~Has(<<>>, kind)
    BY Few DEF IInv, TypeInv
  <2>5. /\ Ordered(queue', timer) /\ TurnInv' /\ jobs' \in Seq(Jobs) /\ pump' \in BOOLEAN
        /\ Has(Tail(queue), "pump") => Has(queue', "pump")
        /\ Has(queue', "start") <=> Has(Tail(queue), "start")
        /\ Has(queue', "shutdown") <=> Has(Tail(queue), "shutdown") \/ Has(<<>>, "shutdown")
    <3>1. Leaves(Tail(queue), jobs, pump, <<Handler("op", Of)>>, <<>>)
      BY <1>8 DEF Complete
    <3>2. QED
      BY <2>2, <2>3, <2>4, <3>1, QuietLeaves
  <2>6. Alike(queue, queue')
    BY <2>3, <2>4, <2>5 DEF Alike, Steady
  <2>7. op' \in [Ops -> {"none", "waiting", "working", "done", "settled"}]
    BY <1>8, <2>2 DEF Complete, IInv, TypeInv
  <2>8. QED
    BY <1>1, <1>8, <2>1, <2>5, <2>6, <2>7 DEF Complete
<1>9. QED
  BY <1>4, <1>5, <1>6, <1>7, <1>8

(* A wait is woken once, whatever ends it, *)
LEMMA Woken ==
  ASSUME NEW q, Ordered(q, timer), timer \in [Callees -> Timers], NEW a \in Callees
  PROVE  /\ Wakes(a) \in Seq(Handlers) /\ ~Has(Wakes(a), "start") /\ ~Has(Wakes(a), "shutdown")
         /\ Ordered(q \o Wakes(a), CancelTimer(a)) /\ Alike(q, q \o Wakes(a))
         /\ CancelTimer(a) \in [Callees -> Timers]
         /\ \A b \in Callees : CancelTimer(a)[b] = "off" <=> timer[b] = "off"
<1>1. Handler("resume", a) \in Handlers /\ Handler("resume", a).kind = "resume"
  BY Kinds
<1>2. CancelTimer(a) \in [Callees -> Timers] /\ \A b \in Callees : CancelTimer(a)[b] = "off" <=> timer[b] = "off"
  BY DEF CancelTimer, Timers
<1>3. CASE timer[a] = "armed"
  <2>1. Wakes(a) = <<Handler("resume", a)>> /\ CancelTimer(a) = [timer EXCEPT ![a] = "queued"]
    BY <1>3 DEF Wakes, CancelTimer
  <2>2. Wakes(a) \in Seq(Handlers) /\ \A kind : Has(Wakes(a), kind) <=> kind = "resume"
    BY <1>1, <2>1, Few
  <2>3. /\ q \o Wakes(a) \in Seq(Handlers)
        /\ \A kind : Has(q \o Wakes(a), kind) <=> Has(q, kind) \/ Has(Wakes(a), kind)
        /\ StartsFirst(q) /\ ~Has(Wakes(a), "start") => StartsFirst(q \o Wakes(a))
    BY <2>2, Posted DEF Ordered
  <2>4. ResumesOnce(q \o Wakes(a), CancelTimer(a))
    BY <1>3, <2>1, WakesOnce DEF Ordered
  <2>5. QED
    BY <1>2, <2>2, <2>3, <2>4 DEF Ordered, Alike, Steady
<1>4. CASE timer[a] # "armed"
  <2>1. Wakes(a) = <<>> /\ CancelTimer(a) = timer
    BY <1>4 DEF Wakes, CancelTimer
  <2>2. q \o <<>> = q
    BY DEF Ordered
  <2>3. QED
    BY <1>2, <2>1, <2>2, Few DEF Ordered, Alike, Steady
<1>5. QED
  BY <1>3, <1>4

(* and is over when its completion is taken. *)
LEMMA Resumed ==
  ASSUME IInv, Due("resume")
  PROVE  /\ Of \in Callees /\ await[Of] \in Awaited /\ queue # <<>> /\ pc = "loop"
         /\ Ordered(Tail(queue), [timer EXCEPT ![Of] = "off"]) /\ Ordered(Tail(queue), timer)
         /\ Alike(queue, Tail(queue)) /\ Tail(queue) \o <<>> = Tail(queue)
<1>1. pc = "loop" /\ queue # <<>> /\ Head(queue).kind = "resume"
  BY DEF Due
<1>2. /\ Head(queue) \in Handlers /\ Of \in Callees /\ Head(queue) = Handler("resume", Of)
      /\ timer[Of] = "queued" /\ \A i \in DOMAIN Tail(queue) : Tail(queue)[i] # Head(queue)
      /\ Tail(queue) \in Seq(Handlers)
  BY <1>1, Owner, Kinds DEF Of
<1>3. await[Of] \in Awaited /\ timer \in [Callees -> Timers]
  BY <1>2 DEF IInv, TypeInv, AwaitInv
<1>4. /\ Ordered(Tail(queue), timer)
      /\ Alike(queue, Tail(queue)) /\ Tail(queue) \o <<>> = Tail(queue)
  BY <1>1, OwnerTakes
<1>5. \A i \in DOMAIN Tail(queue) : Tail(queue)[i].kind = "resume" =>
        Tail(queue)[i].of \in Callees /\ Tail(queue)[i].of # Of
  <2>1. \A i \in DOMAIN Tail(queue) : Tail(queue)[i] \in Handlers
    BY <1>2
  <2>2. QED
    BY <1>2, <2>1, Kinds
<1>6. Ordered(Tail(queue), [timer EXCEPT ![Of] = "off"])
  BY <1>3, <1>4, <1>5 DEF Ordered, ResumesOnce
<1>7. QED
  BY <1>1, <1>2, <1>3, <1>4, <1>6

LEMMA WaitKept ==
  ASSUME IInv, pc = "loop", UNCHANGED <<phase, pc, kernel, threads, app, wait, op, exit, hostUse>>,
         Ordered(queue', timer'), Steady(queue, queue'), TurnInv', jobs' \in Seq(Jobs), pump' \in BOOLEAN,
         await' \in [Callees -> Answers], timer' \in [Callees -> Timers],
         \A a \in Callees : await'[a] \in Awaited <=> timer'[a] # "off",
         \A a \in Callees :
           \/ await'[a] = await[a]
           \/ a \in Entry /\ await[a] \in Awaited /\ await'[a] \in Awaited
           \/ a \notin Entry /\ await[a] # "none" /\ await'[a] # "none"
  PROVE  IInv'
<1>1. phase # "closed"
  BY DEF IInv, InStep
<1>2. InStep' /\ StartInv' /\ OrderInv' /\ CutInv' /\ ClosedInv'
  BY <1>1, LifecycleKept
<1>3. TypeInv' /\ AwaitInv'
  BY DEF IInv, TypeInv, AwaitInv, Ordered, threads
<1>4. QED
  BY <1>2, <1>3 DEF IInv

(* those that end a wait, *)
LEMMA WaitSteps ==
  ASSUME IInv, (\E a \in Callees : Expire(a)) \/ Cancel \/ CallbackResumes
  PROVE  IInv'
<1>1. TypeInv /\ AwaitInv /\ TurnInv /\ jobs \in Seq(Jobs) /\ pump \in BOOLEAN /\ Ordered(queue, timer)
  BY DEF IInv, TypeInv, Ordered, AwaitInv, StartInv
<1>2. CASE \E a \in Callees : Expire(a)
  <2>1. PICK a \in Callees : Expire(a)
    BY <1>2
  <2>2. /\ pc = "loop" /\ timer[a] = "armed" /\ await' = await
        /\ timer' = CancelTimer(a) /\ queue' = queue \o Wakes(a)
    <3>1. PICK h : h = Handler("resume", a)
      OBVIOUS
    <3>2. Append(queue, h) = queue \o <<h>>
      BY <1>1 DEF TypeInv
    <3>3. /\ pc = "loop" /\ timer[a] = "armed" /\ await' = await
          /\ timer' = [timer EXCEPT ![a] = "queued"] /\ queue' = Append(queue, h)
      BY <2>1, <3>1 DEF Expire
    <3>4. Wakes(a) = <<h>>
      BY <3>1, <3>3 DEF Wakes
    <3>5. CancelTimer(a) = [timer EXCEPT ![a] = "queued"]
      BY <3>3 DEF CancelTimer
    <3>6. QED
      BY <3>2, <3>3, <3>4, <3>5
  <2>3. /\ Ordered(queue', timer') /\ Alike(queue, queue') /\ timer' \in [Callees -> Timers]
        /\ \A b \in Callees : timer'[b] = "off" <=> timer[b] = "off"
    BY <1>1, <2>2, Woken DEF TypeInv
  <2>4. TurnInv'
    BY <1>1, <2>1, <2>3 DEF Expire, TurnInv, Alike, Steady
  <2>5. QED
    BY <1>1, <2>1, <2>2, <2>3, <2>4, WaitKept DEF Expire, Alike, Steady, TypeInv, AwaitInv
<1>3. CASE Cancel
  <2>1. pc = "loop" /\ queue # <<>> /\ Head(queue).kind = "cancel"
    BY <1>3 DEF Cancel, Due
  <2>2. Of \in Callees
    BY <2>1, Owner, Kinds DEF Of
  <2>3. Ordered(Tail(queue), timer) /\ Alike(queue, Tail(queue))
    BY <2>1, OwnerTakes
  <2>4. CASE await[Of] # "pending"
    <3>1. queue' = Tail(queue) /\ await' = await /\ timer' = timer
      BY <1>3, <2>4 DEF Cancel, awaiting
    <3>2. TurnInv'
      BY <1>1, <1>3, <2>3, <3>1 DEF Cancel, TurnInv, Alike, Steady
    <3>3. QED
      BY <1>1, <1>3, <2>1, <2>3, <3>1, <3>2, WaitKept DEF Cancel, Alike, Steady, TypeInv, AwaitInv
  <2>5. CASE await[Of] = "pending"
    <3>1. /\ await' = [await EXCEPT ![Of] = "cancelled"] /\ timer' = CancelTimer(Of)
          /\ queue' = Tail(queue) \o Wakes(Of)
      BY <1>3, <2>5 DEF Cancel
    <3>2. /\ Ordered(queue', timer') /\ Alike(Tail(queue), queue') /\ timer' \in [Callees -> Timers]
          /\ \A b \in Callees : timer'[b] = "off" <=> timer[b] = "off"
      BY <1>1, <2>2, <2>3, <3>1, Woken DEF TypeInv
    <3>3. Alike(queue, queue')
      BY <2>3, <3>2 DEF Alike, Steady
    <3>4. TurnInv'
      BY <1>1, <1>3, <3>3 DEF Cancel, TurnInv, Alike, Steady
    <3>5. /\ await' \in [Callees -> Answers]
          /\ \A a \in Callees : \/ await'[a] = await[a]
                                \/ await[a] \in Awaited /\ await'[a] \in Awaited
          /\ \A a \in Callees : await'[a] \in Awaited <=> await[a] \in Awaited
          /\ \A a \in Callees : await[a] \in Awaited => await[a] # "none"
      BY <1>1, <2>2, <2>5, <3>1 DEF TypeInv, Answers, Awaited
    <3>6. QED
      BY <1>1, <1>3, <2>1, <3>2, <3>3, <3>4, <3>5, WaitKept DEF Cancel, Alike, Steady, AwaitInv, Awaited
  <2>6. QED
    BY <2>4, <2>5
<1>4. CASE CallbackResumes
  <2>1. Due("resume") /\ Of \notin Entry
    BY <1>4 DEF CallbackResumes
  <2>2. /\ Of \in Callees /\ await[Of] \in Awaited /\ pc = "loop"
        /\ Ordered(Tail(queue), [timer EXCEPT ![Of] = "off"]) /\ Alike(queue, Tail(queue))
    BY <2>1, Resumed
  <2>3. /\ await' = [await EXCEPT ![Of] = Outcome(Of)] /\ timer' = [timer EXCEPT ![Of] = "off"]
        /\ queue' = Tail(queue) /\ Outcome(Of) \in {"ok", "failed"}
    BY <1>4 DEF CallbackResumes, Outcome
  <2>4. TurnInv'
    BY <1>1, <1>4, <2>2, <2>3 DEF CallbackResumes, TurnInv, Alike, Steady
  <2>5. /\ await' \in [Callees -> Answers] /\ timer' \in [Callees -> Timers]
        /\ \A a \in Callees : \/ await'[a] = await[a]
                              \/ a \notin Entry /\ await[a] # "none" /\ await'[a] # "none"
        /\ \A a \in Callees : await'[a] \in Awaited <=> timer'[a] # "off"
    BY <1>1, <2>1, <2>2, <2>3 DEF TypeInv, AwaitInv, Answers, Awaited, Timers
  <2>6. QED
    BY <1>1, <1>4, <2>2, <2>3, <2>4, <2>5, WaitKept DEF CallbackResumes, Alike, Steady
<1>5. QED
  BY <1>2, <1>3, <1>4

(* those of the script's jobs, *)
LEMMA PumpSteps ==
  ASSUME IInv, Pump
  PROVE  IInv'
<1>1. pc = "loop" /\ queue # <<>> /\ Head(queue).kind = "pump" /\ jobs # <<>>
  BY DEF Pump, Due
<1>2. /\ TypeInv /\ AwaitInv /\ jobs \in Seq(Jobs) /\ Tail(jobs) \in Seq(Jobs) /\ Head(jobs) \in Jobs
      /\ await \in [Callees -> Answers] /\ timer \in [Callees -> Timers]
  <2>1. TypeInv /\ AwaitInv
    BY DEF IInv
  <2>2. jobs \in Seq(Jobs) /\ await \in [Callees -> Answers] /\ timer \in [Callees -> Timers]
    BY <2>1 DEF TypeInv
  <2>3. QED
    BY <1>1, <2>1, <2>2
<1>3. Ordered(Tail(queue), timer) /\ Tail(queue) \o <<>> = Tail(queue) /\ Steady(queue, Tail(queue))
  <2>1. Ordered(Tail(queue), timer) /\ Tail(queue) \o <<>> = Tail(queue)
    BY <1>1, OwnerTakes
  <2>2. /\ \A kind : Has(Tail(queue), kind) => Has(queue, kind)
        /\ \A kind : Has(queue, kind) /\ Head(queue).kind # kind => Has(Tail(queue), kind)
    BY <1>1, Owner
  <2>3. QED
    BY <1>1, <2>1, <2>2 DEF Steady
<1>4. ASSUME NEW t \in [Callees -> Timers], NEW hs \in Seq(Handlers), NEW js \in Seq(Jobs),
             ~Has(hs, "start"), ~Has(hs, "shutdown"), Ordered(Tail(queue) \o hs, t),
             Leaves(Tail(queue), Tail(jobs), FALSE, js, hs), timer' = t,
             \A a \in Callees : await'[a] = await[a] \/ (await[a] \in Awaited /\ await'[a] \in Awaited),
             await' \in [Callees -> Answers], \A a \in Callees : t[a] = "off" <=> timer[a] = "off"
      PROVE  IInv'
  <2>1. /\ Ordered(queue', t) /\ TurnInv' /\ jobs' \in Seq(Jobs) /\ pump' \in BOOLEAN
        /\ Has(queue', "start") <=> Has(Tail(queue), "start")
        /\ Has(queue', "shutdown") <=> Has(Tail(queue), "shutdown") \/ Has(hs, "shutdown")
    BY <1>2, <1>3, <1>4, QuietLeaves
  <2>2. Steady(queue, queue')
    BY <1>3, <1>4, <2>1 DEF Steady
  <2>3. \A a \in Callees : await'[a] \in Awaited <=> timer'[a] # "off"
    BY <1>2, <1>4 DEF AwaitInv
  <2>4. \A a \in Callees : await[a] \in Awaited => await[a] # "none"
    BY DEF Awaited
  <2>5. \A a \in Callees :
           \/ await'[a] = await[a]
           \/ a \in Entry /\ await[a] \in Awaited /\ await'[a] \in Awaited
           \/ a \notin Entry /\ await[a] # "none" /\ await'[a] # "none"
    BY <1>4, <2>4 DEF Awaited
  <2>6. UNCHANGED <<phase, pc, kernel, threads, app, wait, op, exit, hostUse>>
    BY DEF Pump
  <2>7. QED
    BY <1>1, <1>4, <2>1, <2>2, <2>3, <2>5, <2>6, WaitKept
<1>5. CASE Head(jobs).kind = "op" /\ Leaves(Tail(queue), Tail(jobs), FALSE, Follow, <<>>) /\ UNCHANGED awaiting
  <2>1. Follow \in Seq(Jobs)
    <3> DEFINE T == {x \in Callees : hostUse.ends[x] = "ops" /\ await[x] = "pending"}
               S == {Handler("react", a) : a \in T}
    <3>1. IsFiniteSet(T)
      BY FiniteTargets, FS_Subset
    <3>2. SetToSeq(S) \in Seq(S)
      BY <3>1, Sequenced
    <3>3. S \subseteq Jobs
      BY DEF Handler, Jobs
    <3>4. SetToSeq(S) \in Seq(Jobs)
      BY <3>2, <3>3
    <3>5. Follow = SetToSeq(S) \/ Follow = <<>>
      BY DEF Follow
    <3> HIDE DEF S, T
    <3>6. <<>> \in Seq(Jobs)
      OBVIOUS
    <3>7. QED
      BY <3>4, <3>5, <3>6
  <2>2. await' = await /\ timer' = timer
    BY <1>5 DEF awaiting
  <2>3. QED
    BY <1>2, <1>3, <1>4, <1>5, <2>1, <2>2, Few
<1>6. CASE Head(jobs).of \in Callees /\ Settle(Head(jobs).of)
  <2>1. PICK a \in Callees : a = Head(jobs).of
    BY <1>6
  <2>2. CASE await[a] # "pending"
    <3>1. Leaves(Tail(queue), Tail(jobs), FALSE, <<>>, <<>>) /\ await' = await /\ timer' = timer
      BY <1>6, <2>1, <2>2 DEF Settle, awaiting
    <3>2. <<>> \in Seq(Jobs) /\ <<>> \in Seq(Handlers) /\ \A kind : ~Has(<<>>, kind)
      BY Few
    <3>3. QED
      BY <1>2, <1>3, <1>4, <3>1, <3>2
  <2>3. CASE await[a] = "pending"
    <3>1. /\ await' = [await EXCEPT ![a] = IF hostUse.ends[a] = "rejects" THEN "rejected" ELSE "fulfilled"]
          /\ timer' = CancelTimer(a)
          /\ Leaves(Tail(queue), Tail(jobs), FALSE, <<>>, Wakes(a))
      BY <1>6, <2>1, <2>3 DEF Settle
    <3>2. /\ Wakes(a) \in Seq(Handlers) /\ ~Has(Wakes(a), "start") /\ ~Has(Wakes(a), "shutdown")
          /\ Ordered(Tail(queue) \o Wakes(a), CancelTimer(a))
          /\ CancelTimer(a) \in [Callees -> Timers]
          /\ \A b \in Callees : CancelTimer(a)[b] = "off" <=> timer[b] = "off"
      BY <1>2, <1>3, Woken
    <3>3. /\ await' \in [Callees -> Answers]
          /\ \A b \in Callees : await'[b] = await[b] \/ (await[b] \in Awaited /\ await'[b] \in Awaited)
      BY <1>2, <2>3, <3>1 DEF Answers, Awaited
    <3>4. <<>> \in Seq(Jobs)
      OBVIOUS
    <3>5. QED
      BY <1>4, <3>1, <3>2, <3>3, <3>4
  <2>4. QED
    BY <2>2, <2>3
<1>7. CASE /\ Head(jobs).of = "none" /\ Leaves(Tail(queue), Tail(jobs), FALSE, <<>>, <<>>)
           /\ UNCHANGED awaiting
  <2>1. await' = await /\ timer' = timer /\ <<>> \in Seq(Jobs)
    BY <1>7 DEF awaiting
  <2>2. QED
    BY <1>2, <1>3, <1>4, <1>7, <2>1, Few
<1>8. QED
  BY <1>5, <1>6, <1>7 DEF Pump

-----------------------------------------------------------------------------
(* The call of an export, a callback or the module.                        *)

LEMMA Answered == \A a \in Callees : Answer(a) \in {"failed", "ok", "pending"}
BY DEF Answer

(* A wait that begins has nothing queued yet. *)
LEMMA Rearmed ==
  ASSUME NEW q, NEW t \in [Callees -> Timers], Ordered(q, t), NEW a \in Callees, t[a] # "queued", NEW v
  PROVE  Ordered(q, [t EXCEPT ![a] = v])
<1>1. \A i \in DOMAIN q : q[i] \in Handlers
  BY DEF Ordered
<1>2. \A i \in DOMAIN q : q[i].kind = "resume" => q[i].of \in Callees /\ q[i].of # a
  BY <1>1, Kinds DEF Ordered, ResumesOnce
<1>3. QED
  BY <1>2 DEF Ordered, ResumesOnce

LEMMA AppTypes ==
  ASSUME TypeInv, NEW a \in Callees, NEW end
  PROVE  /\ AppAfter(a, end) \in [ready : BOOLEAN, seen : BOOLEAN, failed : BOOLEAN]
         /\ AppAfter(a, end).seen = app.seen
         /\ AppAfter(a, end).failed <=> app.failed \/ end = "failed"
         /\ AppAfter(a, end).ready <=> a # "shutdown" /\ (app.ready \/ (a = "initialize" /\ end = "ok"))
<1>1. app \in [ready : BOOLEAN, seen : BOOLEAN, failed : BOOLEAN]
  BY DEF TypeInv
<1>2. QED
  BY <1>1 DEF AppAfter

LEMMA OpTypes ==
  ASSUME TypeInv, NEW a \in Callees
  PROVE  /\ OpsAfter(Started(a)) \in [Ops -> {"none", "waiting", "working", "done", "settled"}]
         /\ Completions(Started(a)) \in Seq(Handlers)
         /\ \A kind : Has(Completions(Started(a)), kind) => kind = "done"
         /\ Reactions(a) \in Seq(Jobs)
         /\ Stranded(a) \in Seq(Jobs) /\ Left(Stranded(a))
<1>1. Started(a) \subseteq Ops
  BY DEF TypeInv, HostUse, Started
<1>2. OpsAfter(Started(a)) \in [Ops -> {"none", "waiting", "working", "done", "settled"}]
  BY DEF TypeInv, OpsAfter
<1>3. Completions(Started(a)) \in Seq(Handlers) /\ \A kind : Has(Completions(Started(a)), kind) => kind = "done"
  <2> DEFINE S == {Handler("done", o) : o \in Started(a)}
  <2>1. IsFiniteSet(Started(a))
    BY <1>1, FiniteTargets, FS_Subset
  <2>2. SetToSeq(S) \in Seq(S) /\ \A kind : Has(SetToSeq(S), kind) => kind = "done"
    BY <2>1, Sequenced
  <2>3. S \subseteq Handlers
    BY <1>1 DEF Handler, Handlers
  <2>4. SetToSeq(S) \in Seq(Handlers)
    BY <2>2, <2>3
  <2>5. Completions(Started(a)) = SetToSeq(S) \/ Completions(Started(a)) = <<>>
    BY DEF Completions
  <2> HIDE DEF S
  <2>6. QED
    BY <2>2, <2>4, <2>5, Few
<1>4. PICK F : F = Fulfils(a)
  OBVIOUS
<1>5. F \subseteq Callees /\ IsFiniteSet(F)
  BY <1>4, FiniteTargets, FS_Subset DEF Fulfils
<1>6. Reactions(a) \in Seq(Jobs)
  <2> DEFINE S == {Handler("react", x) : x \in F}
             own == IF Answer(a) = "pending"
                         /\ \/ hostUse.ends[a] \in {"soon", "rejects"}
                            \/ hostUse.ends[a] = "ops" /\ OpsFollowed(jobs)
                    THEN <<Handler("react", a)>> ELSE <<>>
  <2>1. Handler("react", a) \in Jobs
    BY DEF Handler, Jobs
  <2>2. <<Handler("react", a)>> \in Seq(Jobs) /\ <<>> \in Seq(Jobs)
    BY <2>1
  <2>3. own \in Seq(Jobs)
    BY <2>2
  <2>4. SetToSeq(S) \in Seq(S)
    BY <1>5, Sequenced
  <2>5. S \subseteq Jobs
    BY <1>5 DEF Handler, Jobs
  <2>6. Reactions(a) = SetToSeq(S) \o own
    BY <1>4 DEF Reactions
  <2> HIDE DEF S, own
  <2>7. SetToSeq(S) \in Seq(Jobs)
    BY <2>4, <2>5
  <2>8. QED
    BY <2>3, <2>6, <2>7
<1>7. Stranded(a) \in Seq(Jobs) /\ Left(Stranded(a))
  <2> DEFINE S == {Handler("left", x) : x \in F}
             L == {j \in Jobs : j.kind = "left"}
  <2>1. Handler("left", "none") \in L
    BY DEF Handler, Jobs
  <2>2. SetToSeq(S) \in Seq(S)
    BY <1>5, Sequenced
  <2>3. S \subseteq L
    BY <1>5 DEF Handler, Jobs
  <2>4. Stranded(a) = (IF hostUse.ends[a] = "strands" THEN <<Handler("left", "none")>> \o SetToSeq(S) ELSE <<>>)
    BY <1>4 DEF Stranded
  <2>5. L \subseteq Jobs /\ \A j \in L : j.kind = "left"
    OBVIOUS
  <2> HIDE DEF S, L
  <2>6. SetToSeq(S) \in Seq(L) /\ <<Handler("left", "none")>> \in Seq(L) /\ <<>> \in Seq(L)
    BY <2>1, <2>2, <2>3
  <2>7. <<Handler("left", "none")>> \o SetToSeq(S) \in Seq(L)
    BY <2>6
  <2>8. Stranded(a) \in Seq(L)
    BY <2>4, <2>6, <2>7
  <2>9. QED
    BY <2>5, <2>8 DEF Left
<1>8. QED
  BY <1>1, <1>2, <1>3, <1>6, <1>7

(* What a call leaves that began when the queue was q and the awaits c. *)
Called(a, q, c) ==
  /\ await' = [c EXCEPT ![a] = Answer(a)] /\ await' \in [Callees -> Answers]
  /\ timer' \in [Callees -> Timers] /\ op' \in [Ops -> {"none", "waiting", "working", "done", "settled"}]
  /\ AwaitInv' /\ TurnInv' /\ jobs' \in Seq(Jobs) /\ pump' \in BOOLEAN
  /\ Ordered(queue', timer')
  /\ Has(queue', "start") <=> Has(q, "start")
  /\ Has(queue', "shutdown") <=> Has(q, "shutdown") \/ (a # "callback" /\ Answer(a) = "failed")
  /\ app' = IF Answer(a) = "pending" \/ a = "callback" THEN app ELSE AppAfter(a, Answer(a))
  /\ wait' \in {"none", "armed", "fired"}

LEMMA CallSteps ==
  ASSUME IInv, NEW a \in Callees, a # "shutdown", NEW q, NEW c \in [Callees -> Answers], NEW t \in [Callees -> Timers],
         Ordered(q, timer), Ordered(q, t), t[a] # "queued", pump => Has(q, "pump"), Calling(a, q, c, t),
         \A b \in Callees : b # a => (c[b] \in Awaited <=> t[b] # "off")
  PROVE  Called(a, q, c)
<1> DEFINE end == Answer(a)
           posts == IF end = "pending" \/ a = "callback" THEN <<>> ELSE Posts(a, end)
           done == Completions(Started(a))
<1>1. TypeInv /\ jobs \in Seq(Jobs) /\ pump \in BOOLEAN /\ wait \in {"none", "armed", "fired"}
  BY DEF IInv, TypeInv
<1>2. end \in {"failed", "ok", "pending"}
  BY Answered
<1>3. /\ await' = [c EXCEPT ![a] = end]
      /\ timer' = [t EXCEPT ![a] = IF end = "pending" THEN "armed" ELSE "off"]
      /\ op' = OpsAfter(Started(a))
      /\ LeavesCall(a, q, done \o posts)
      /\ app' = IF end = "pending" \/ a = "callback" THEN app ELSE AppAfter(a, end)
      /\ wait' = wait \/ wait' = WaitAfter(a, end)
  BY DEF Calling
<1>4. posts \in Seq(Handlers) /\ \A kind : Has(posts, kind) <=> kind = "shutdown" /\ a # "callback" /\ end = "failed"
  <2>1. CASE a # "callback" /\ end = "failed"
    <3>1. PICK h \in Handlers : h = Plain("shutdown") /\ h.kind = "shutdown"
      BY Kinds
    <3>2. posts = <<h>>
      BY <2>1, <3>1 DEF Posts
    <3> HIDE DEF posts, end
    <3>3. posts \in Seq(Handlers) /\ \A kind : Has(posts, kind) <=> kind = "shutdown"
      BY <3>1, <3>2, Few
    <3>4. QED
      BY <2>1, <3>3
  <2>2. CASE ~(a # "callback" /\ end = "failed")
    <3>1. posts = <<>>
      BY <2>2 DEF Posts
    <3>2. QED
      BY <2>2, <3>1, Few
  <2>3. QED
    BY <2>1, <2>2
<1>5. /\ done \in Seq(Handlers) /\ \A kind : Has(done, kind) => kind = "done"
      /\ op' \in [Ops -> {"none", "waiting", "working", "done", "settled"}]
      /\ Reactions(a) \in Seq(Jobs) /\ Stranded(a) \in Seq(Jobs) /\ Left(Stranded(a))
  BY <1>1, <1>3, OpTypes
<1>6. wait' \in {"none", "armed", "fired"}
  BY <1>1, <1>3 DEF WaitAfter
<1> HIDE DEF end, posts, done
<1>7. PICK hs : hs = done \o posts
  OBVIOUS
<1>8. /\ hs \in Seq(Handlers)
      /\ \A kind : Has(hs, kind) <=> Has(done, kind) \/ Has(posts, kind)
  BY <1>4, <1>5, <1>7, Posted
<1>9. /\ ~Has(hs, "start") /\ ~Has(hs, "resume")
      /\ Has(hs, "shutdown") <=> a # "callback" /\ end = "failed"
  <2>1. ~Has(done, "start") /\ ~Has(done, "resume") /\ ~Has(done, "shutdown")
    BY <1>5
  <2>2. ~Has(posts, "start") /\ ~Has(posts, "resume")
    BY <1>4
  <2>3. Has(posts, "shutdown") <=> a # "callback" /\ end = "failed"
    BY <1>4
  <2>4. QED
    BY <1>8, <2>1, <2>2, <2>3
<1>10. Ordered(q \o hs, t)
  <2>1. q \in Seq(Handlers)
    BY DEF Ordered
  <2>2. /\ q \o hs \in Seq(Handlers)
        /\ StartsFirst(q) /\ ~Has(hs, "start") => StartsFirst(q \o hs)
        /\ \A u : ResumesOnce(q, u) /\ ~Has(hs, "resume") => ResumesOnce(q \o hs, u)
    BY <1>8, <2>1, Posted
  <2>3. QED
    BY <1>9, <2>2 DEF Ordered
<1>11. /\ Ordered(queue', t) /\ TurnInv' /\ jobs' \in Seq(Jobs) /\ pump' \in BOOLEAN
       /\ Has(queue', "start") <=> Has(q, "start")
       /\ Has(queue', "shutdown") <=> Has(q, "shutdown") \/ Has(hs, "shutdown")
  <2>1. CASE Throws(a)
    <3>1. LeavesUnscheduled(q, Stranded(a), hs) /\ TurnInv
      BY <1>3, <1>7, <2>1 DEF LeavesCall, IInv
    <3>2. QED
      BY <1>1, <1>5, <1>8, <1>9, <1>10, <3>1, QuietUnscheduled
  <2>2. CASE ~Throws(a)
    <3>1. Leaves(q, jobs, pump, Reactions(a), hs)
      BY <1>3, <1>7, <2>2 DEF LeavesCall
    <3>2. QED
      BY <1>1, <1>5, <1>8, <1>9, <1>10, <3>1, QuietLeaves
  <2>3. QED
    BY <2>1, <2>2
<1>12. Ordered(queue', timer')
  BY <1>3, <1>11, Rearmed
<1>13. /\ await' \in [Callees -> Answers] /\ timer' \in [Callees -> Timers]
       /\ \A b \in Callees : await'[b] \in Awaited <=> timer'[b] # "off"
  BY <1>2, <1>3 DEF Answers, Awaited, Timers
<1>14. AwaitInv'
  BY <1>12, <1>13 DEF AwaitInv, Ordered
<1>15. QED
  BY <1>3, <1>5, <1>6, <1>9, <1>11, <1>12, <1>13, <1>14 DEF end, Called

(* The order of the lifecycle when a, which is not the shutdown, begins or *)
(* has ended: AppAfter tells a failure.                                    *)
LEMMA OrderKept ==
  ASSUME IInv, NEW a \in Callees, a # "shutdown", await' \in [Callees -> Answers],
         \A b \in Callees : b # a => await'[b] = await[b],
         await'[a] # "none", await[a] # "ok", await[a] # "failed",
         app' = (IF await'[a] \in Awaited \/ a = "callback" THEN app ELSE AppAfter(a, await'[a])),
         a = "initialize" => await["evaluation"] = "ok",
         a = "callback" => await["initialize"] # "none",
         a = "evaluation" => await["initialize"] = "none"
  PROVE  OrderInv' /\ app'.seen = app.seen /\ (app'.failed <=> app.failed \/ (a # "callback" /\ await'[a] = "failed"))
<1>1. TypeInv /\ OrderInv
  BY DEF IInv
<1>2. /\ app'.seen = app.seen
      /\ app'.failed <=> app.failed \/ (a # "callback" /\ await'[a] = "failed")
      /\ app'.ready <=> app.ready \/ (a = "initialize" /\ await'[a] = "ok")
  BY <1>1, AppTypes DEF Awaited
<1>3. "evaluation" \in Callees /\ "initialize" \in Callees /\ "shutdown" \in Callees /\ "callback" \in Callees
  BY DEF Callees, Entry
<1>4. app'.failed <=> \E b \in Entry : await'[b] = "failed"
  <2>1. app.failed <=> \E b \in Entry : await[b] = "failed"
    BY <1>1 DEF OrderInv
  <2>2. \A b \in Entry : b \in Callees
    BY DEF Callees
  <2>3. a # "callback" <=> a \in Entry
    BY DEF Callees, Entry
  <2>4. QED
    BY <1>2, <2>1, <2>2, <2>3
<1>5. /\ await'["initialize"] # "none" => await'["evaluation"] = "ok"
      /\ await'["callback"] # "none" => await'["initialize"] # "none"
  BY <1>1, <1>3 DEF OrderInv
<1>6. await'["shutdown"] # "none" => await'["initialize"] = "ok" /\ app'.seen
  BY <1>1, <1>2, <1>3 DEF OrderInv
<1>7. app'.ready => await'["initialize"] = "ok" /\ await'["shutdown"] \notin {"ok", "failed"}
  BY <1>1, <1>2, <1>3 DEF OrderInv
<1>8. QED
  BY <1>2, <1>4, <1>5, <1>6, <1>7 DEF OrderInv

(* The entry begins, *)
LEMMA StartSteps ==
  ASSUME IInv, Start
  PROVE  IInv' /\ await["evaluation"] = "none" /\ phase = "running" /\ await'["evaluation"] # "none"
         /\ \A b \in Callees : b # "evaluation" => await'[b] = await[b]
<1>1. pc = "loop" /\ queue # <<>> /\ Head(queue).kind = "start" /\ Calling("evaluation", Tail(queue), await, timer)
  BY DEF Start, Due
<1>2. /\ Has(queue, "start") /\ ~Has(Tail(queue), "start") /\ (Has(Tail(queue), "shutdown") <=> Has(queue, "shutdown"))
      /\ pump => Has(Tail(queue), "pump")
  BY <1>1, Owner
<1>3. Ordered(Tail(queue), timer)
  BY <1>1, OwnerTakes
<1>4. TypeInv /\ AwaitInv /\ await \in [Callees -> Answers] /\ timer \in [Callees -> Timers]
  BY DEF IInv, TypeInv
<1>5. await["evaluation"] = "none" /\ phase = "running" /\ "evaluation" \in Callees
  BY <1>2 DEF IInv, StartInv, Callees, Entry
<1>6. timer["evaluation"] = "off"
  BY <1>4, <1>5 DEF AwaitInv, Awaited
<1>7. PICK q, c : q = Tail(queue) /\ c = await /\ Called("evaluation", q, c)
  <2>1. PICK q, c, t : q = Tail(queue) /\ c = await /\ t = timer
    OBVIOUS
  <2>2. Calling("evaluation", q, c, t) /\ (pump => Has(q, "pump")) /\ Ordered(q, t) /\ Ordered(q, timer)
    BY <1>1, <1>2, <1>3, <2>1
  <2>3. c \in [Callees -> Answers] /\ t \in [Callees -> Timers] /\ t["evaluation"] # "queued" /\ "evaluation" \in Callees
    BY <1>4, <1>5, <1>6, <2>1
  <2>4. \A b \in Callees : b # "evaluation" => (c[b] \in Awaited <=> t[b] # "off")
    BY <1>4, <2>1 DEF AwaitInv
  <2>5. Called("evaluation", q, c)
    BY <2>2, <2>3, <2>4, CallSteps
  <2>6. QED
    BY <2>1, <2>5
<1>8. UNCHANGED <<phase, pc, kernel, threads, exit, hostUse>>
  BY DEF Start
<1>9. Answer("evaluation") \in {"failed", "ok", "pending"} /\ await'["evaluation"] = Answer("evaluation")
  BY <1>4, <1>5, <1>7, Answered DEF Called
<1>10. /\ \A b \in Callees : b # "evaluation" => await'[b] = await[b]
       /\ await'["evaluation"] # "none"
  BY <1>4, <1>7, <1>9 DEF Called
<1>11. OrderInv' /\ app'.seen = app.seen /\ (app'.failed <=> app.failed \/ await'["evaluation"] = "failed")
  <2>1. await["initialize"] = "none"
    BY <1>5 DEF IInv, OrderInv
  <2>2. app' = IF await'["evaluation"] \in Awaited \/ "evaluation" = "callback" THEN app
               ELSE AppAfter("evaluation", await'["evaluation"])
    BY <1>7, <1>9 DEF Awaited, Called
  <2>3. QED
    BY <1>5, <1>7, <1>10, <2>1, <2>2, OrderKept DEF Called
<1>12. TypeInv'
  <2>1. app' \in [ready : BOOLEAN, seen : BOOLEAN, failed : BOOLEAN]
    BY <1>4, <1>5, <1>7, AppTypes DEF TypeInv, Called
  <2>2. QED
    BY <1>4, <1>7, <1>8, <2>1 DEF TypeInv, Ordered, threads, Called
<1>13. InStep' /\ ClosedInv'
  BY <1>5, <1>8 DEF IInv, InStep, ClosedInv
<1>14. StartInv'
  BY <1>1, <1>2, <1>5, <1>7, <1>8 DEF IInv, StartInv, Ordered, Called
<1>15. CutInv'
  <2>1. Has(queue, "shutdown") => app.seen \/ app.failed
    BY <1>2 DEF IInv, CutInv, Begun
  <2>2. QED
    BY <1>2, <1>5, <1>7, <1>8, <1>9, <1>11, <2>1 DEF CutInv, Called
<1>16. QED
  BY <1>5, <1>7, <1>10, <1>11, <1>12, <1>13, <1>14, <1>15 DEF IInv, Called

(* a callback of the script begins, *)
LEMMA CallbackSteps ==
  ASSUME IInv, Callback
  PROVE  IInv' /\ await["callback"] = "none" /\ \A b \in Callees : b # "callback" => await'[b] = await[b]
<1>1. /\ pc = "loop" /\ await["initialize"] # "none" /\ await["callback"] = "none"
      /\ Calling("callback", queue, await, timer)
  BY DEF Callback
<1>2. TypeInv /\ AwaitInv /\ await \in [Callees -> Answers] /\ timer \in [Callees -> Timers] /\ "callback" \in Callees
  BY DEF IInv, TypeInv, Callees
<1>3. Ordered(queue, timer) /\ (pump => Has(queue, "pump"))
  BY <1>2 DEF IInv, TypeInv, AwaitInv, StartInv, TurnInv, Ordered
<1>4. timer["callback"] = "off"
  BY <1>1, <1>2 DEF AwaitInv, Awaited
<1>5. PICK q, c : q = queue /\ c = await /\ Called("callback", q, c)
  <2>1. PICK q, c, t : q = queue /\ c = await /\ t = timer
    OBVIOUS
  <2>2. Calling("callback", q, c, t) /\ (pump => Has(q, "pump")) /\ Ordered(q, t) /\ Ordered(q, timer)
    BY <1>1, <1>3, <2>1
  <2>3. c \in [Callees -> Answers] /\ t \in [Callees -> Timers] /\ t["callback"] # "queued" /\ "callback" \in Callees
    BY <1>2, <1>4, <2>1
  <2>4. \A b \in Callees : b # "callback" => (c[b] \in Awaited <=> t[b] # "off")
    BY <1>2, <2>1 DEF AwaitInv
  <2>5. Called("callback", q, c)
    BY <2>2, <2>3, <2>4, CallSteps
  <2>6. QED
    BY <2>1, <2>5
<1>6. UNCHANGED <<phase, pc, kernel, threads, exit, hostUse>>
  BY DEF Callback
<1>7. /\ \A b \in Callees : b # "callback" => await'[b] = await[b]
      /\ await'["callback"] # "none"
  BY <1>2, <1>5, Answered DEF Called
<1>8. OrderInv' /\ app' = app
  <2>1. app' = IF await'["callback"] \in Awaited \/ "callback" = "callback" THEN app
               ELSE AppAfter("callback", await'["callback"])
    BY <1>5 DEF Called
  <2>2. QED
    BY <1>1, <1>2, <1>5, <1>7, <2>1, OrderKept DEF Called
<1>9. TypeInv'
  BY <1>2, <1>5, <1>6, <1>8 DEF TypeInv, Ordered, threads, Called
<1>10. InStep' /\ ClosedInv'
  BY <1>1, <1>6 DEF IInv, InStep, ClosedInv
<1>11. await'["evaluation"] = await["evaluation"]
  BY <1>7 DEF Callees, Entry
<1>12. StartInv' /\ CutInv'
  BY <1>5, <1>6, <1>8, <1>11 DEF IInv, StartInv, CutInv, Begun, Ordered, Called
<1>13. QED
  BY <1>1, <1>5, <1>7, <1>8, <1>9, <1>10, <1>12 DEF IInv, Called

(* and the entry goes on: initialize follows the evaluation, *)
LEMMA InitializeFollows ==
  ASSUME IInv, Due("resume"), Of = "evaluation",
         NEW c, c = [await EXCEPT !["evaluation"] = "ok"],
         NEW t, t = [timer EXCEPT !["evaluation"] = "off"],
         Calling("initialize", Tail(queue), c, t),
         UNCHANGED <<phase, pc, kernel, threads, exit, hostUse>>
  PROVE  IInv' /\ await["initialize"] = "none" /\ await'["evaluation"] = "ok"
         /\ \A b \in Callees \ {"evaluation", "initialize"} : await'[b] = await[b]
<1>1. TypeInv /\ AwaitInv /\ OrderInv /\ await \in [Callees -> Answers] /\ timer \in [Callees -> Timers]
  BY DEF IInv, TypeInv
<1>2. /\ "evaluation" \in Callees /\ "initialize" \in Callees /\ "shutdown" \in Callees /\ "callback" \in Callees
      /\ Entry = {"evaluation", "initialize", "shutdown"}
  BY DEF Callees, Entry
<1>3. /\ await["evaluation"] \in Awaited /\ pc = "loop" /\ queue # <<>> /\ Head(queue).kind = "resume"
      /\ Ordered(Tail(queue), t) /\ Ordered(Tail(queue), timer) /\ Alike(queue, Tail(queue))
  BY Resumed DEF Due
<1>4. await["initialize"] = "none" /\ await["callback"] = "none" /\ await["shutdown"] = "none"
  BY <1>1, <1>3 DEF OrderInv, Awaited
<1>5. /\ c \in [Callees -> Answers] /\ t \in [Callees -> Timers] /\ t["initialize"] # "queued"
      /\ \A b \in Callees : b # "initialize" => (c[b] \in Awaited <=> t[b] # "off")
  BY <1>1, <1>2, <1>3, <1>4 DEF AwaitInv, Awaited, Answers, Timers
<1>6. pump => Has(Tail(queue), "pump")
  BY <1>3, Owner
<1>7. PICK q : q = Tail(queue) /\ Called("initialize", q, c)
  <2>1. PICK q : q = Tail(queue)
    OBVIOUS
  <2>2. "initialize" \in Callees /\ "initialize" # "shutdown" /\ Calling("initialize", q, c, t)
    BY <1>2, <2>1
  <2>3. Ordered(q, t) /\ Ordered(q, timer) /\ (pump => Has(q, "pump"))
    BY <1>3, <1>6, <2>1
  <2>4. Called("initialize", q, c)
    BY <1>5, <2>2, <2>3, CallSteps
  <2>5. QED
    BY <2>1, <2>4
<1>8. /\ await'["evaluation"] = "ok" /\ await'["initialize"] = Answer("initialize")
      /\ Answer("initialize") \in {"failed", "ok", "pending"}
      /\ \A b \in Callees \ {"evaluation", "initialize"} : await'[b] = await[b]
  BY <1>1, <1>2, <1>5, <1>7, Answered DEF Called
<1>9. /\ app'.seen = app.seen
      /\ app'.failed <=> app.failed \/ await'["initialize"] = "failed"
      /\ app'.ready <=> app.ready \/ await'["initialize"] = "ok"
  BY <1>1, <1>2, <1>7, <1>8, AppTypes DEF Called
<1>10. OrderInv'
  <2>1. app.failed <=> \E b \in Entry : await[b] = "failed"
    BY <1>1 DEF OrderInv
  <2>2. ~app.failed /\ ~app.ready
    BY <1>1, <1>2, <1>3, <1>4, <2>1 DEF OrderInv, Awaited
  <2>3. app'.failed <=> \E b \in Entry : await'[b] = "failed"
    BY <1>2, <1>4, <1>8, <1>9, <2>2
  <2>4. QED
    BY <1>2, <1>4, <1>8, <1>9, <2>2, <2>3 DEF OrderInv
<1>11. TypeInv'
  <2>1. app' \in [ready : BOOLEAN, seen : BOOLEAN, failed : BOOLEAN]
    BY <1>1, <1>2, <1>7, AppTypes DEF TypeInv, Called
  <2>2. QED
    BY <1>1, <1>7, <2>1 DEF TypeInv, Ordered, threads, Called
<1>12. InStep' /\ ClosedInv'
  BY <1>3 DEF IInv, InStep, ClosedInv
<1>13. /\ await["evaluation"] # "none"
       /\ Has(queue', "start") <=> Has(queue, "start")
       /\ Has(Tail(queue), "shutdown") <=> Has(queue, "shutdown")
  BY <1>3, <1>7 DEF Awaited, Alike, Steady, Called
<1>14. StartInv' /\ CutInv'
  BY <1>7, <1>8, <1>9, <1>13, <1>3 DEF IInv, StartInv, CutInv, Begun, Ordered, Called
<1>15. QED
  BY <1>4, <1>7, <1>8, <1>10, <1>11, <1>12, <1>14 DEF IInv, Called

(* or the start has failed, or the entry is ready, or it has shut down. *)
LEMMA EntryEnds ==
  ASSUME IInv, Due("resume"), Of \in Entry,
         NEW a \in Entry, a = Of, NEW end \in {"ok", "failed"}, end = Outcome(a), ~(a = "evaluation" /\ end = "ok"),
         await' = [await EXCEPT ![a] = end], timer' = [timer EXCEPT ![a] = "off"], op' = op,
         LeavesUnscheduled(Tail(queue), <<>>, Posts(a, end)),
         app' = AppAfter(a, end), wait' = WaitAfter(a, end),
         UNCHANGED <<phase, pc, kernel, threads, exit, hostUse>>
  PROVE  IInv' /\ await[a] \in Awaited
<1>1. TypeInv /\ AwaitInv /\ OrderInv /\ await \in [Callees -> Answers] /\ timer \in [Callees -> Timers]
  BY DEF IInv, TypeInv
<1>2. /\ Entry = {"evaluation", "initialize", "shutdown"} /\ a \in Callees /\ "callback" \notin Entry
      /\ "evaluation" \in Callees /\ "initialize" \in Callees /\ "shutdown" \in Callees /\ "callback" \in Callees
  BY DEF Callees, Entry
<1>3. PICK q, t, hs : q = Tail(queue) /\ t = [timer EXCEPT ![a] = "off"] /\ hs = Posts(a, end)
  OBVIOUS
<1>4. /\ await[a] \in Awaited /\ pc = "loop" /\ queue # <<>> /\ Head(queue).kind = "resume"
      /\ Ordered(q, t) /\ Ordered(q, timer) /\ Alike(queue, q)
  BY <1>3, Resumed DEF Due
<1>5. pump => Has(q, "pump")
  BY <1>3, <1>4, Owner
<1>6. hs \in Seq(Handlers) /\ \A kind : Has(hs, kind) <=> kind = "shutdown" /\ (a = "shutdown" \/ end = "failed")
  <2>1. PICK h \in Handlers : h = Plain("shutdown") /\ h.kind = "shutdown"
    BY Kinds
  <2>2. hs = IF a = "shutdown" \/ end = "failed" THEN <<h>> ELSE <<>>
    BY <1>3, <2>1 DEF Posts
  <2>3. QED
    BY <2>1, <2>2, Few
<1>7. Ordered(q \o hs, t) /\ ~Has(hs, "start")
  <2>1. ~Has(hs, "start") /\ ~Has(hs, "resume")
    BY <1>6
  <2>2. q \in Seq(Handlers) /\ StartsFirst(q) /\ ResumesOnce(q, t)
    BY <1>4 DEF Ordered
  <2>3. /\ q \o hs \in Seq(Handlers)
        /\ StartsFirst(q) /\ ~Has(hs, "start") => StartsFirst(q \o hs)
        /\ \A u : ResumesOnce(q, u) /\ ~Has(hs, "resume") => ResumesOnce(q \o hs, u)
    BY <1>6, <2>2, Posted
  <2>4. QED
    BY <2>1, <2>2, <2>3 DEF Ordered
<1>8. /\ Ordered(queue', t) /\ TurnInv' /\ jobs' \in Seq(Jobs) /\ pump' \in BOOLEAN
      /\ Has(queue', "start") <=> Has(q, "start")
      /\ Has(queue', "shutdown") <=> Has(q, "shutdown") \/ Has(hs, "shutdown")
  <2>1. LeavesUnscheduled(q, <<>>, hs) /\ TurnInv
    BY <1>3 DEF IInv
  <2>2. jobs \in Seq(Jobs) /\ pump \in BOOLEAN /\ <<>> \in Seq(Jobs) /\ Left(<<>>)
    BY <1>1 DEF TypeInv, Left
  <2>3. QED
    BY <1>4, <1>5, <1>6, <1>7, <2>1, <2>2, QuietUnscheduled
<1>9. /\ await' \in [Callees -> Answers] /\ timer' \in [Callees -> Timers] /\ timer' = t
      /\ \A b \in Callees : b # a => await'[b] = await[b]
      /\ await'[a] = end /\ await[a] # "none"
      /\ \A b \in Callees : await'[b] \in Awaited <=> timer'[b] # "off"
  BY <1>1, <1>2, <1>3, <1>4 DEF AwaitInv, Answers, Awaited, Timers
<1>10. /\ app' \in [ready : BOOLEAN, seen : BOOLEAN, failed : BOOLEAN]
       /\ app'.seen = app.seen
       /\ app'.failed <=> app.failed \/ end = "failed"
       /\ app'.ready <=> a # "shutdown" /\ (app.ready \/ (a = "initialize" /\ end = "ok"))
  BY <1>1, <1>2, AppTypes
<1>11. wait' \in {"none", "armed", "fired"}
  BY <1>1 DEF TypeInv, WaitAfter
<1>12. TypeInv' /\ AwaitInv' /\ InStep' /\ ClosedInv'
  <2>1. TypeInv'
    BY <1>1, <1>8, <1>9, <1>10, <1>11 DEF TypeInv, Ordered, threads
  <2>2. AwaitInv'
    BY <1>8, <1>9 DEF AwaitInv, Ordered
  <2>3. InStep' /\ ClosedInv'
    BY <1>4 DEF IInv, InStep, ClosedInv
  <2>4. QED
    BY <2>1, <2>2, <2>3
<1>13. OrderInv'
  <2>1. app'.failed <=> \E b \in Entry : await'[b] = "failed"
    <3>1. app.failed <=> \E b \in Entry : await[b] = "failed"
      BY <1>1 DEF OrderInv
    <3>2. \A b \in Entry : b \in Callees
      BY DEF Callees
    <3>3. await[a] # "failed"
      BY <1>4 DEF Awaited
    <3>4. QED
      BY <1>2, <1>9, <1>10, <3>1, <3>2, <3>3
  <2>2. await'["initialize"] # "none" => await'["evaluation"] = "ok"
    BY <1>1, <1>2, <1>4, <1>9 DEF OrderInv, Awaited
  <2>3. await'["callback"] # "none" => await'["initialize"] # "none"
    BY <1>1, <1>2, <1>9 DEF OrderInv
  <2>4. await'["shutdown"] # "none" => await'["initialize"] = "ok" /\ app'.seen
    BY <1>1, <1>2, <1>4, <1>9, <1>10 DEF OrderInv, Awaited
  <2>5. app'.ready => await'["initialize"] = "ok" /\ await'["shutdown"] \notin {"ok", "failed"}
    BY <1>1, <1>2, <1>4, <1>9, <1>10 DEF OrderInv, Awaited
  <2>6. QED
    BY <2>1, <2>2, <2>3, <2>4, <2>5 DEF OrderInv
<1>14. (await'["evaluation"] # "none" <=> await["evaluation"] # "none") /\ (Has(queue', "start") => Has(queue, "start"))
  BY <1>2, <1>4, <1>8, <1>9 DEF Alike, Steady
<1>15. StartInv'
  <2>1. Has(queue', "start") => await'["evaluation"] = "none"
    BY <1>14 DEF IInv, StartInv
  <2>2. QED
    BY <1>4, <1>8, <1>9, <1>14, <2>1 DEF IInv, StartInv, Begun, Ordered
<1>16. CutInv'
  <2>1. Has(hs, "shutdown") => app'.seen \/ app'.failed
    BY <1>1, <1>6, <1>9, <1>10 DEF OrderInv
  <2>2. Has(q, "shutdown") => Has(queue, "shutdown")
    BY <1>4 DEF Alike, Steady
  <2>3. QED
    BY <1>8, <1>10, <1>14, <2>1, <2>2 DEF IInv, CutInv, Begun
<1>17. QED
  BY <1>4, <1>8, <1>12, <1>13, <1>15, <1>16 DEF IInv

(* What a step may do to the calls. *)
Keeps ==
  /\ \A a \in Callees : await[a] # "none" => await'[a] # "none"
  /\ Begins("evaluation") => phase = "running"
  /\ Begins("initialize") => await'["evaluation"] = "ok"
  /\ Begins("shutdown") => phase = "running" /\ await["initialize"] = "ok"
  /\ \A a \in Callees : await[a] \in Decided =>
       await'[a] \in {await[a], IF await[a] = "fulfilled" THEN "ok" ELSE "failed"}

LEMMA EntryResumeSteps ==
  ASSUME IInv, EntryResumes
  PROVE  IInv' /\ Keeps
<1>1. PICK a \in Entry, end \in {"ok", "failed"} : a = Of /\ end = Outcome(a) /\ Due("resume")
  BY DEF EntryResumes, Outcome
<1>2. PICK c, t : c = [await EXCEPT ![a] = end] /\ t = [timer EXCEPT ![a] = "off"]
  OBVIOUS
<1>3. /\ IF a = "evaluation" /\ end = "ok" THEN Calling("initialize", Tail(queue), c, t)
         ELSE /\ await' = c /\ timer' = t /\ op' = op
              /\ LeavesUnscheduled(Tail(queue), <<>>, Posts(a, end))
              /\ app' = AppAfter(a, end) /\ wait' = WaitAfter(a, end)
      /\ UNCHANGED <<phase, pc, kernel, threads, exit, hostUse>>
  BY <1>1, <1>2 DEF EntryResumes
<1>4. await \in [Callees -> Answers] /\ a \in Callees /\ await[a] \in Awaited
  BY <1>1, Resumed DEF IInv, TypeInv
<1>5. end = IF await[a] = "fulfilled" THEN "ok" ELSE "failed"
  BY <1>1 DEF Outcome
<1>6. /\ "evaluation" \in Callees /\ "initialize" \in Callees /\ "shutdown" \in Callees
      /\ Callees = {"evaluation", "initialize", "shutdown", "callback"}
  BY DEF Callees, Entry
<1>7. CASE a = "evaluation" /\ end = "ok"
  <2>1. /\ IInv' /\ await["initialize"] = "none" /\ await'["evaluation"] = "ok"
        /\ \A b \in Callees \ {"evaluation", "initialize"} : await'[b] = await[b]
    BY <1>1, <1>2, <1>3, <1>7, InitializeFollows
  <2>2. await["evaluation"] = "fulfilled"
    BY <1>5, <1>7
  <2>3. Keeps
    BY <1>6, <2>1, <2>2 DEF Keeps, Begins, Decided
  <2>4. QED
    BY <2>1, <2>3
<1>8. CASE ~(a = "evaluation" /\ end = "ok")
  <2>1. /\ await' = c /\ timer' = t /\ op' = op
        /\ LeavesUnscheduled(Tail(queue), <<>>, Posts(a, end))
        /\ app' = AppAfter(a, end) /\ wait' = WaitAfter(a, end)
    BY <1>3, <1>8
  <2>2. IInv'
    BY <1>1, <1>2, <1>3, <1>8, <2>1, EntryEnds
  <2>3. await'[a] = end /\ \A b \in Callees : b # a => await'[b] = await[b]
    BY <1>2, <1>4, <2>1
  <2>4. Keeps
    BY <1>4, <1>5, <1>6, <2>3 DEF Keeps, Begins, Decided, Awaited
  <2>5. QED
    BY <2>2, <2>4
<1>9. QED
  BY <1>7, <1>8

-----------------------------------------------------------------------------
(* A stop: the first that reaches a ready entry calls its shutdown, in a   *)
(* kernel that runs, since CutInv leaves no other reason to stop; another  *)
(* stops the kernel.                                                       *)
LEMMA StopRequested ==
  ASSUME IInv, pc = "loop", queue # <<>>, Head(queue).kind \in {"stop", "signal"}, OnStopRequest,
         wait' \in {"none", "armed", "fired"}, stopper' \in [Stoppers -> {"idle", "marked", "posted"}],
         UNCHANGED <<phase, pc, kernel, op, exit, hostUse>>
  PROVE  IInv' /\ Keeps
<1>1. /\ TypeInv /\ AwaitInv /\ OrderInv /\ await \in [Callees -> Answers] /\ timer \in [Callees -> Timers]
      /\ jobs \in Seq(Jobs) /\ pump \in BOOLEAN /\ app \in [ready : BOOLEAN, seen : BOOLEAN, failed : BOOLEAN]
  BY DEF IInv, TypeInv
<1>2. PICK q : q = Tail(queue)
  OBVIOUS
<1>3. /\ Ordered(q, timer) /\ Alike(queue, q) /\ q \in Seq(Handlers) /\ (pump => Has(q, "pump"))
      /\ phase \in {"running", "stopping"}
  BY <1>2, Owner, OwnerTakes
<1>4. /\ "evaluation" \in Callees /\ "initialize" \in Callees /\ "shutdown" \in Callees /\ "callback" \in Callees
      /\ Entry = {"evaluation", "initialize", "shutdown"} /\ Callees = Entry \cup {"callback"}
  BY DEF Callees, Entry
<1>5. PICK h \in Handlers : h = Plain("shutdown") /\ h.kind = "shutdown"
  BY Kinds
<1>6. ASSUME NEW t \in [Callees -> Timers], Ordered(q, t), NEW js \in Seq(Jobs), NEW hs,
             hs = <<>> \/ hs = <<h>>, timer' = t,
             Leaves(q, jobs, pump, js, hs) \/ (Left(js) /\ LeavesUnscheduled(q, js, hs)),
             await' \in [Callees -> Answers], \A a \in Callees : await'[a] \in Awaited <=> t[a] # "off",
             app' \in [ready : BOOLEAN, seen : BOOLEAN, failed : BOOLEAN], app'.seen, OrderInv',
             await'["evaluation"] = await["evaluation"]
      PROVE  IInv'
  <2>1. hs \in Seq(Handlers) /\ ~Has(hs, "start") /\ ~Has(hs, "resume")
    BY <1>5, <1>6, Few
  <2>2. Ordered(q \o hs, t)
    <3>1. /\ q \o hs \in Seq(Handlers)
          /\ StartsFirst(q) /\ ~Has(hs, "start") => StartsFirst(q \o hs)
          /\ \A u : ResumesOnce(q, u) /\ ~Has(hs, "resume") => ResumesOnce(q \o hs, u)
      BY <1>3, <2>1, Posted
    <3>2. QED
      BY <1>6, <2>1, <3>1 DEF Ordered
  <2>3. /\ Ordered(queue', t) /\ TurnInv' /\ jobs' \in Seq(Jobs) /\ pump' \in BOOLEAN
        /\ Has(queue', "start") <=> Has(q, "start")
    <3>1. TurnInv
      BY DEF IInv
    <3>2. CASE Leaves(q, jobs, pump, js, hs)
      BY <1>1, <1>3, <1>6, <2>1, <2>2, <3>2, QuietLeaves
    <3>3. CASE Left(js) /\ LeavesUnscheduled(q, js, hs)
      BY <1>1, <1>3, <1>6, <2>1, <2>2, <3>1, <3>3, QuietUnscheduled
    <3>4. QED
      BY <1>6, <3>2, <3>3
  <2>4. TypeInv' /\ AwaitInv'
    BY <1>1, <1>6, <2>3 DEF TypeInv, AwaitInv, Ordered
  <2>5. InStep' /\ ClosedInv' /\ CutInv'
    BY <1>3, <1>6 DEF IInv, InStep, ClosedInv, CutInv
  <2>6. StartInv'
    BY <1>3, <1>6, <2>3 DEF IInv, StartInv, Begun, Ordered, Alike, Steady
  <2>7. QED
    BY <1>6, <2>3, <2>4, <2>5, <2>6 DEF IInv
<1>7. CASE ~app.seen /\ app.ready
  <2>1. await["initialize"] = "ok" /\ await["evaluation"] = "ok" /\ await["shutdown"] = "none"
    BY <1>1, <1>7 DEF OrderInv
  <2>2. phase = "running"
    <3>1. ~app.failed
      BY <1>1, <1>4, <1>7, <2>1 DEF OrderInv
    <3>2. Begun
      BY <2>1 DEF Begun
    <3>3. QED
      BY <1>3, <1>7, <3>1, <3>2 DEF IInv, CutInv
  <2>3. PICK end \in {"failed", "ok", "pending"} : end = Answer("shutdown")
    BY <1>4, Answered
  <2>4. PICK js \in Seq(Jobs) :
          IF Throws("shutdown") THEN js = Stranded("shutdown") /\ Left(js) ELSE js = Reactions("shutdown")
    BY <1>1, <1>4, OpTypes
  <2>5. PICK hs : hs = IF end = "pending" THEN <<>> ELSE <<h>>
    OBVIOUS
  <2>6. PICK t : t = [timer EXCEPT !["shutdown"] = IF end = "pending" THEN "armed" ELSE "off"]
    OBVIOUS
  <2>7. /\ await' = [await EXCEPT !["shutdown"] = end] /\ timer' = t
        /\ app' = [(IF end = "pending" THEN app ELSE AppAfter("shutdown", end)) EXCEPT !.seen = TRUE]
        /\ Leaves(q, jobs, pump, js, hs) \/ (Left(js) /\ LeavesUnscheduled(q, js, hs))
    <3>1. /\ await' = [await EXCEPT !["shutdown"] = end] /\ timer' = t
          /\ app' = [(IF end = "pending" THEN app ELSE AppAfter("shutdown", end)) EXCEPT !.seen = TRUE]
          /\ LeavesCall("shutdown", q, hs)
      BY <1>2, <1>5, <1>7, <2>3, <2>5, <2>6 DEF OnStopRequest, BeginGracefulStop
    <3>2. CASE Throws("shutdown")
      BY <2>4, <3>1, <3>2 DEF LeavesCall
    <3>3. CASE ~Throws("shutdown")
      BY <2>4, <3>1, <3>3 DEF LeavesCall
    <3>4. QED
      BY <3>2, <3>3
  <2>8. timer["shutdown"] = "off"
    BY <1>1, <1>4, <2>1 DEF AwaitInv, Awaited
  <2>9. t \in [Callees -> Timers] /\ Ordered(q, t)
    BY <1>1, <1>3, <1>4, <2>6, <2>8, Rearmed DEF Timers
  <2>10. /\ await' \in [Callees -> Answers]
         /\ \A a \in Callees : await'[a] \in Awaited <=> t[a] # "off"
         /\ await'["shutdown"] = end
         /\ \A a \in Callees : a # "shutdown" => await'[a] = await[a]
    BY <1>1, <1>4, <2>6, <2>7 DEF AwaitInv, Awaited, Answers
  <2>11. /\ app' \in [ready : BOOLEAN, seen : BOOLEAN, failed : BOOLEAN] /\ app'.seen
         /\ app'.failed <=> app.failed \/ end = "failed"
         /\ app'.ready <=> app.ready /\ end = "pending"
    <3>1. PICK x : x = AppAfter("shutdown", end)
      OBVIOUS
    <3>2. /\ x \in [ready : BOOLEAN, seen : BOOLEAN, failed : BOOLEAN]
          /\ x.failed <=> app.failed \/ end = "failed"
          /\ ~x.ready
      BY <1>1, <1>4, <3>1, AppTypes
    <3>3. app' = [(IF end = "pending" THEN app ELSE x) EXCEPT !.seen = TRUE]
      BY <2>7, <3>1
    <3>4. QED
      BY <1>1, <3>2, <3>3
  <2>12. OrderInv'
    <3>1. app'.failed <=> \E a \in Entry : await'[a] = "failed"
      BY <1>1, <1>4, <2>1, <2>10, <2>11 DEF OrderInv
    <3>2. /\ await'["initialize"] = "ok" /\ await'["evaluation"] = "ok"
          /\ app'.ready => await'["shutdown"] = "pending"
      BY <1>4, <2>1, <2>10, <2>11
    <3>3. QED
      BY <2>11, <3>1, <3>2 DEF OrderInv
  <2>13. IInv'
    BY <1>4, <1>6, <2>5, <2>7, <2>9, <2>10, <2>11, <2>12
  <2>14. Keeps
    BY <1>4, <2>1, <2>2, <2>10 DEF Keeps, Begins, Decided
  <2>15. QED
    BY <2>13, <2>14
<1>8. CASE ~(~app.seen /\ app.ready)
  <2>1. /\ app' = [app EXCEPT !.seen = TRUE] /\ await' = await /\ timer' = timer
        /\ LeavesUnscheduled(q, <<>>, <<h>>)
    BY <1>2, <1>5, <1>8 DEF OnStopRequest, awaiting
  <2>2. /\ app' \in [ready : BOOLEAN, seen : BOOLEAN, failed : BOOLEAN]
        /\ app'.seen /\ app'.failed = app.failed /\ app'.ready = app.ready
    BY <1>1, <2>1
  <2>3. OrderInv'
    BY <1>1, <2>1, <2>2 DEF OrderInv
  <2>4. IInv'
    <3>1. /\ <<>> \in Seq(Jobs) /\ Left(<<>>)
          /\ \A a \in Callees : await[a] \in Awaited <=> timer[a] # "off"
      BY <1>1 DEF AwaitInv, Left
    <3>2. QED
      BY <1>1, <1>3, <1>6, <2>1, <2>2, <2>3, <3>1
  <2>5. Keeps
    BY <1>4, <2>1 DEF Keeps, Begins
  <2>6. QED
    BY <2>4, <2>5
<1>9. QED
  BY <1>7, <1>8

LEMMA StopSteps ==
  ASSUME IInv, StopHandled \/ StopDropped \/ SignalHandled
  PROVE  IInv' /\ Keeps
<1>1. CASE StopHandled
  <2>1. /\ pc = "loop" /\ queue # <<>> /\ Head(queue).kind = "stop" /\ OnStopRequest
        /\ wait' = (IF Resets THEN "none" ELSE wait) /\ stopper' = stopper
        /\ UNCHANGED <<phase, pc, kernel, op, exit, hostUse>>
    BY <1>1 DEF StopHandled, Due, threads
  <2>2. wait' \in {"none", "armed", "fired"} /\ stopper' \in [Stoppers -> {"idle", "marked", "posted"}]
    BY <2>1 DEF IInv, TypeInv
  <2>3. QED
    BY <2>1, <2>2, StopRequested
<1>2. CASE SignalHandled
  <2>1. /\ pc = "loop" /\ queue # <<>> /\ Head(queue).kind = "signal" /\ OnStopRequest
        /\ wait' = (IF wait = "none" \/ Resets THEN "none" ELSE "armed") /\ stopper' = stopper
        /\ UNCHANGED <<phase, pc, kernel, op, exit, hostUse>>
    BY <1>2 DEF SignalHandled, Due
  <2>2. wait' \in {"none", "armed", "fired"} /\ stopper' \in [Stoppers -> {"idle", "marked", "posted"}]
    BY <2>1 DEF IInv, TypeInv
  <2>3. QED
    BY <2>1, <2>2, StopRequested
<1>3. CASE StopDropped
  <2>1. /\ pc = "loop" /\ queue # <<>> /\ Head(queue).kind = "stop" /\ queue' = Tail(queue)
        /\ UNCHANGED <<phase, pc, kernel, threads, app, wait, jobs, pump, op, exit, hostUse>>
        /\ await' = await /\ timer' = timer
    BY <1>3 DEF StopDropped, Due, awaiting
  <2>2. Ordered(queue', timer') /\ Alike(queue, queue')
    BY <2>1, OwnerTakes
  <2>3. TypeInv /\ AwaitInv /\ TurnInv
    BY DEF IInv
  <2>4. TurnInv'
    BY <2>1, <2>2, <2>3 DEF TurnInv, Alike
  <2>5. IInv'
    BY <2>1, <2>2, <2>3, <2>4, WaitKept DEF TypeInv, AwaitInv, Alike
  <2>6. Keeps
    BY <2>1 DEF Keeps, Begins
  <2>7. QED
    BY <2>5, <2>6
<1>4. QED
  BY <1>1, <1>2, <1>3

-----------------------------------------------------------------------------
(* The stop of the kernel, which no start can follow, *)
LEMMA ShutdownSteps ==
  ASSUME IInv, ShutdownHandled
  PROVE  IInv'
<1>1. pc = "loop" /\ queue # <<>> /\ Head(queue).kind = "shutdown" /\ BeginShutdown
  BY DEF ShutdownHandled, Due
<1>2. /\ TypeInv /\ AwaitInv /\ TurnInv /\ Ordered(Tail(queue), timer) /\ phase \in {"running", "stopping"}
      /\ ~Has(queue, "start") /\ Has(queue, "shutdown") /\ ~Has(Tail(queue), "start")
      /\ pump => Has(Tail(queue), "pump")
  BY <1>1, Owner, OwnerTakes DEF IInv
<1>3. PICK hs \in Seq(Handlers) : /\ queue' = Tail(queue) \o hs
                                  /\ ~Has(hs, "start") /\ ~Has(hs, "resume")
  <2>1. CASE phase # "running"
    <3>1. queue' = Tail(queue) /\ Tail(queue) \o <<>> = Tail(queue)
      BY <1>1, <2>1, OwnerTakes DEF BeginShutdown
    <3>2. QED
      BY <3>1, Few
  <2>2. CASE phase = "running"
    <3> DEFINE A == {x \in Callees : timer[x] # "off"}
               O == {x \in Ops : op[x] = "waiting" /\ x = "sleep"}
               C == {Handler("cancel", x) : x \in A}
               D == {Handler("cancelOp", x) : x \in O}
    <3>1. IsFiniteSet(A) /\ IsFiniteSet(O)
      BY FiniteTargets, FS_Subset
    <3>2. C \subseteq Handlers /\ D \subseteq Handlers
      BY DEF Handler, Handlers
    <3>3. SetToSeq(C) \in Seq(C) /\ \A kind : Has(SetToSeq(C), kind) => kind = "cancel"
      BY <3>1, Sequenced
    <3>4. SetToSeq(D) \in Seq(D) /\ \A kind : Has(SetToSeq(D), kind) => kind = "cancelOp"
      BY <3>1, Sequenced
    <3>5. queue' = Tail(queue) \o SetToSeq(C) \o SetToSeq(D)
      BY <1>1, <2>2 DEF BeginShutdown
    <3> HIDE DEF A, O, C, D
    <3>6. SetToSeq(C) \in Seq(Handlers) /\ SetToSeq(D) \in Seq(Handlers)
      BY <3>2, <3>3, <3>4
    <3>7. PICK hs : hs = SetToSeq(C) \o SetToSeq(D)
      OBVIOUS
    <3>8. hs \in Seq(Handlers) /\ \A kind : Has(hs, kind) <=> Has(SetToSeq(C), kind) \/ Has(SetToSeq(D), kind)
      BY <3>6, <3>7, Posted
    <3>9. queue' = Tail(queue) \o hs
      BY <1>2, <3>5, <3>6, <3>7 DEF Ordered
    <3>10. QED
      BY <3>3, <3>4, <3>8, <3>9
  <2>3. QED
    BY <2>1, <2>2
<1>4. /\ Ordered(queue', timer) /\ ~Has(queue', "start")
      /\ Has(Tail(queue), "pump") => Has(queue', "pump")
  <2>1. PICK q \in Seq(Handlers) : q = Tail(queue)
    BY <1>2 DEF Ordered
  <2>2. /\ q \o hs \in Seq(Handlers)
        /\ \A kind : Has(q \o hs, kind) <=> Has(q, kind) \/ Has(hs, kind)
        /\ StartsFirst(q) /\ ~Has(hs, "start") => StartsFirst(q \o hs)
        /\ \A u : ResumesOnce(q, u) /\ ~Has(hs, "resume") => ResumesOnce(q \o hs, u)
    BY Posted
  <2>3. QED
    BY <1>2, <1>3, <2>1, <2>2 DEF Ordered
<1>5. phase' \in {"running", "stopping"} /\ (phase' = "running" => phase = "running")
  BY <1>1, <1>2 DEF BeginShutdown
<1>6. UNCHANGED <<pc, kernel, threads, app, wait, jobs, pump, op, exit, hostUse>> /\ await' = await /\ timer' = timer
  BY DEF ShutdownHandled, awaiting
<1>7. TypeInv' /\ AwaitInv' /\ TurnInv'
  BY <1>2, <1>4, <1>5, <1>6 DEF TypeInv, AwaitInv, TurnInv, Ordered, Phases, threads
<1>8. InStep' /\ ClosedInv'
  BY <1>1, <1>5, <1>6 DEF InStep, ClosedInv
<1>9. OrderInv'
  BY <1>6 DEF IInv, OrderInv
<1>10. StartInv' /\ CutInv'
  BY <1>1, <1>2, <1>4, <1>5, <1>6 DEF IInv, StartInv, CutInv, Begun, Ordered
<1>11. QED
  BY <1>7, <1>8, <1>9, <1>10 DEF IInv

(* and the end: when nothing is outstanding, no job is left but those that *)
(* a throwing call has left behind.                                        *)
LEMMA ReturnSteps ==
  ASSUME IInv, Return
  PROVE  IInv'
<1>1. /\ phase = "stopping" /\ queue = <<>> /\ wait = "none"
      /\ \A a \in Callees : timer[a] = "off"
      /\ \A o \in Ops : op[o] \in {"none", "settled"}
      /\ pc' = "returned" /\ phase' = "closed" /\ pump' = FALSE
      /\ exit' = (IF app.failed THEN "failure" ELSE "success")
      /\ app' = [app EXCEPT !.ready = FALSE]
      /\ UNCHANGED <<kernel, threads, wait, queue, jobs, op, hostUse>> /\ await' = await /\ timer' = timer
  BY DEF Return, Drained, awaiting
<1>2. \A kind : ~Has(queue, kind)
  BY <1>1 DEF Has
<1>3. Left(jobs) /\ ~pump
  BY <1>2 DEF IInv, TurnInv
<1>4. TypeInv /\ app \in [ready : BOOLEAN, seen : BOOLEAN, failed : BOOLEAN]
  BY DEF IInv, TypeInv
<1>5. /\ app' \in [ready : BOOLEAN, seen : BOOLEAN, failed : BOOLEAN]
      /\ app'.ready = FALSE /\ app'.seen = app.seen /\ app'.failed = app.failed
  BY <1>1, <1>4
<1>6. TypeInv'
  BY <1>1, <1>4, <1>5 DEF TypeInv, Phases, Stages, threads
<1>7. InStep' /\ AwaitInv' /\ TurnInv'
  BY <1>1, <1>3 DEF IInv, InStep, AwaitInv, TurnInv
<1>8. StartInv' /\ CutInv'
  BY <1>1, <1>2, <1>5 DEF IInv, StartInv, CutInv, Begun
<1>9. OrderInv'
  BY <1>1, <1>5 DEF IInv, OrderInv
<1>10. ClosedInv'
  BY <1>1, <1>3, <1>5 DEF ClosedInv
<1>11. QED
  BY <1>6, <1>7, <1>8, <1>9, <1>10 DEF IInv

-----------------------------------------------------------------------------
(* The invariant and the contract.                                         *)

LEMMA InitHolds == HostInit => IInv
<1> SUFFICES ASSUME HostInit
             PROVE  IInv
  OBVIOUS
<1>1. \A kind : ~Has(<<>>, kind)
  BY Few
<1>2. hostUse \in HostUse
  BY HostConstantsOK DEF HostInit
<1>3. <<>> \in Seq(Handlers) /\ <<>> \in Seq(Jobs)
  OBVIOUS
<1>4. /\ phase = "created" /\ pc = "new" /\ kernel = FALSE
      /\ stopper = [s \in Stoppers |-> "idle"]
      /\ app = [ready |-> FALSE, seen |-> FALSE, failed |-> FALSE]
      /\ wait = "none" /\ queue = <<>> /\ jobs = <<>> /\ pump = FALSE
      /\ await = [a \in Callees |-> "none"] /\ timer = [a \in Callees |-> "off"]
      /\ op = [o \in Ops |-> "none"]
  BY DEF HostInit
<1>5. TypeInv
  BY <1>2, <1>3, <1>4 DEF TypeInv, Phases, Stages, Answers, Timers
<1>6. "evaluation" \in Callees /\ "initialize" \in Callees /\ "shutdown" \in Callees /\ "callback" \in Callees
      /\ \A a \in Entry : a \in Callees
  BY DEF Callees, Entry
<1>7. ~Begun
  BY <1>1, <1>4, <1>6 DEF Begun
<1>8. AwaitInv
  BY <1>4 DEF AwaitInv, Awaited, ResumesOnce
<1>9. StartInv
  BY <1>1, <1>4, <1>7 DEF StartInv, StartsFirst
<1>10. OrderInv
  BY <1>4, <1>6 DEF OrderInv
<1>11. InStep /\ CutInv /\ TurnInv /\ ClosedInv
  <2>1. Left(jobs)
    BY <1>4 DEF Left
  <2>2. QED
    BY <1>1, <1>4, <1>7, <2>1 DEF InStep, CutInv, TurnInv, ClosedInv
<1>12. QED
  BY <1>5, <1>8, <1>9, <1>10, <1>11 DEF IInv

(* The calls change in few steps, each as the contract has it. *)
LEMMA CallsKept ==
  ASSUME await' = await
  PROVE  Keeps
<1>1. "evaluation" \in Callees /\ "initialize" \in Callees /\ "shutdown" \in Callees
  BY DEF Callees, Entry
<1>2. QED
  BY <1>1 DEF Keeps, Begins

LEMMA WaitContract ==
  ASSUME IInv, Pump \/ Cancel \/ CallbackResumes
  PROVE  Keeps
<1>1. /\ await \in [Callees -> Answers] /\ queue \in Seq(Handlers) /\ jobs \in Seq(Jobs)
      /\ "evaluation" \in Callees /\ "initialize" \in Callees /\ "shutdown" \in Callees
  BY DEF IInv, TypeInv, Callees, Entry
<1>2. ASSUME NEW a \in Callees, NEW v \in Answers \ {"none"}, await' = [await EXCEPT ![a] = v],
             \/ await[a] = "pending"
             \/ await[a] \in Awaited /\ v = Outcome(a)
      PROVE  Keeps
  BY <1>1, <1>2 DEF Keeps, Begins, Decided, Awaited, Outcome
<1>3. CASE Pump
  <2>1. CASE UNCHANGED awaiting
    <3>1. await' = await
      BY <2>1 DEF awaiting
    <3>2. QED
      BY <3>1, CallsKept
  <2>2. CASE Head(jobs).of \in Callees /\ Settle(Head(jobs).of)
    <3>1. PICK a \in Callees : a = Head(jobs).of
      BY <2>2
    <3>2. CASE await[a] # "pending"
      <4>1. await' = await
        BY <2>2, <3>1, <3>2 DEF Settle, awaiting
      <4>2. QED
        BY <4>1, CallsKept
    <3>3. CASE await[a] = "pending"
      <4>1. PICK v \in Answers \ {"none"} : v = IF hostUse.ends[a] = "rejects" THEN "rejected" ELSE "fulfilled"
        BY DEF Answers, Awaited
      <4>2. await' = [await EXCEPT ![a] = v]
        BY <2>2, <3>1, <3>3, <4>1 DEF Settle
      <4>3. QED
        BY <1>2, <3>3, <4>2
    <3>4. QED
      BY <3>2, <3>3
  <2>3. QED
    BY <1>3, <2>1, <2>2 DEF Pump
<1>4. CASE Cancel
  <2>1. pc = "loop" /\ queue # <<>> /\ Head(queue).kind = "cancel"
    BY <1>4 DEF Cancel, Due
  <2>2. PICK a \in Callees : a = Of
    BY <2>1, Owner, Kinds DEF Of
  <2>3. CASE await[a] # "pending"
    <3>1. await' = await
      BY <1>4, <2>2, <2>3 DEF Cancel, awaiting
    <3>2. QED
      BY <3>1, CallsKept
  <2>4. CASE await[a] = "pending"
    <3>1. await' = [await EXCEPT ![a] = "cancelled"] /\ "cancelled" \in Answers
      BY <1>4, <2>2, <2>4 DEF Cancel, Answers, Awaited
    <3>2. QED
      BY <1>2, <2>4, <3>1
  <2>5. QED
    BY <2>3, <2>4
<1>5. CASE CallbackResumes
  <2>1. PICK a \in Callees, v \in {"ok", "failed"} : a = Of /\ v = Outcome(a) /\ await[a] \in Awaited
    BY <1>5, Resumed DEF CallbackResumes, Outcome
  <2>2. await' = [await EXCEPT ![a] = v] /\ v \in Answers
    BY <1>5, <2>1 DEF CallbackResumes, Answers
  <2>3. QED
    BY <1>2, <2>1, <2>2
<1>6. QED
  BY <1>3, <1>4, <1>5

LEMMA NextKeeps ==
  ASSUME IInv, [HostNext]_hostVars
  PROVE  IInv' /\ Keeps
<1>1. CASE Initialize \/ InitializeFails \/ Run
  <2>1. await' = await
    BY <1>1 DEF Initialize, InitializeFails, Run, RunArms, RunChecks, RunStarts, awaiting
  <2>2. QED
    BY <1>1, <2>1, RunSteps, CallsKept
<1>2. CASE Signal \/ Fire \/ \E s \in Stoppers : StopMarks(s) \/ StopPosts(s)
  <2>1. await' = await
    BY <1>2 DEF Signal, Fire, StopMarks, StopPosts, awaiting
  <2>2. QED
    BY <1>2, <2>1, SignalSteps, CallsKept
<1>3. CASE Elapse \/ WorkerTakes \/ WorkerEnds \/ CancelOp \/ Complete
  <2>1. await' = await
    BY <1>3 DEF Elapse, WorkerTakes, WorkerEnds, CancelOp, Complete, awaiting
  <2>2. QED
    BY <1>3, <2>1, OpSteps, CallsKept
<1>4. CASE \E a \in Callees : Expire(a)
  <2>1. await' = await
    BY <1>4 DEF Expire
  <2>2. QED
    BY <1>4, <2>1, WaitSteps, CallsKept
<1>5. CASE Cancel \/ CallbackResumes
  BY <1>5, WaitSteps, WaitContract
<1>6. CASE Pump
  BY <1>6, PumpSteps, WaitContract
<1>7. CASE Start
  <2>1. /\ IInv' /\ await["evaluation"] = "none" /\ phase = "running" /\ await'["evaluation"] # "none"
        /\ \A b \in Callees : b # "evaluation" => await'[b] = await[b]
    BY <1>7, StartSteps
  <2>2. Keeps
    BY <2>1 DEF Keeps, Begins, Decided, Callees, Entry
  <2>3. QED
    BY <2>1, <2>2
<1>8. CASE Callback
  <2>1. IInv' /\ await["callback"] = "none" /\ \A b \in Callees : b # "callback" => await'[b] = await[b]
    BY <1>8, CallbackSteps
  <2>2. Keeps
    BY <2>1 DEF Keeps, Begins, Decided, Callees, Entry
  <2>3. QED
    BY <2>1, <2>2
<1>9. CASE EntryResumes
  BY <1>9, EntryResumeSteps
<1>10. CASE StopHandled \/ StopDropped \/ SignalHandled
  BY <1>10, StopSteps
<1>11. CASE ShutdownHandled
  <2>1. await' = await
    BY <1>11 DEF ShutdownHandled, awaiting
  <2>2. QED
    BY <1>11, <2>1, ShutdownSteps, CallsKept
<1>12. CASE Return
  <2>1. await' = await
    BY <1>12 DEF Return, awaiting
  <2>2. QED
    BY <1>12, <2>1, ReturnSteps, CallsKept
<1>13. CASE UNCHANGED hostVars
  <2>1. /\ UNCHANGED <<phase, pc, kernel, stopper, app, wait, queue, jobs, pump, await, timer, op, exit, hostUse>>
    BY <1>13 DEF hostVars, threads, loop, awaiting
  <2>2. IInv'
    BY <2>1 DEF IInv, TypeInv, InStep, AwaitInv, StartInv, OrderInv, CutInv, TurnInv, ClosedInv, Begun
  <2>3. QED
    BY <2>1, <2>2, CallsKept
<1>14. QED
  BY <1>1, <1>2, <1>3, <1>4, <1>5, <1>6, <1>7, <1>8, <1>9, <1>10, <1>11, <1>12, <1>13
     DEF HostNext, Executor, Clock, Worker

(* The invariant holds in every reachable state. *)
THEOREM HostInvariant == HostSpec => []IInv
<1>1. IInv /\ [HostNext]_hostVars => IInv'
  BY NextKeeps
<1>2. QED
  BY InitHolds, <1>1, PTL DEF HostSpec

(* schedule_job_pump coalesces the turns of the pump, and a call that      *)
(* throws returns before it (runtime_callbacks.cpp, runtime_script.cpp).   *)
(* Yet a pending job always has a turn queued, unless every pending job    *)
(* was left behind by such a call, and when the engine is closed nobody    *)
(* waits, no operation runs and no other job is left: what begin_shutdown  *)
(* cancels, what expires and what completes is all taken before main_io    *)
(* returns.                                                                *)
THEOREM ReactionsNotLost == HostSpec => []NoLostReaction
<1>1. ASSUME IInv
      PROVE  NoLostReaction
  <2>1. ASSUME ~Left(jobs)
        PROVE  \E i \in 1 .. Len(queue) : queue[i] = Plain("pump")
    <3>1. queue \in Seq(Handlers)
      BY <1>1 DEF IInv, TypeInv
    <3>2. PICK i \in DOMAIN queue : queue[i].kind = "pump"
      BY <1>1, <2>1 DEF IInv, TurnInv, Has
    <3>3. i \in 1 .. Len(queue) /\ queue[i] \in Handlers
      BY <3>1, <3>2
    <3>4. queue[i] = Plain("pump")
      BY <3>2, <3>3 DEF Handlers, Plain, Handler
    <3>5. QED
      BY <3>3, <3>4
  <2>2. ASSUME phase = "closed"
        PROVE  /\ Left(jobs)
               /\ \A a \in Callees : await[a] \in {"none", "ok", "failed"}
               /\ \A o \in Ops : op[o] \in {"none", "settled"}
    BY <1>1, <2>2 DEF IInv, TypeInv, AwaitInv, ClosedInv, Answers
  <2>3. QED
    BY <2>1, <2>2 DEF NoLostReaction
<1>2. QED
  BY HostInvariant, <1>1, PTL

(* Application::run returns failure exactly when the evaluation, the       *)
(* initialization or the shutdown failed, timed out or was cut off.        *)
THEOREM ExitIsTrue == HostSpec => []ExitTruth
<1>1. IInv => ExitTruth
  BY DEF IInv, OrderInv, ClosedInv, ExitTruth
<1>2. QED
  BY HostInvariant, <1>1, PTL

(* The preconditions of EntryModule hold whenever it is called, in any     *)
(* order of stops, signals, timeouts and settlements, and AwaitState       *)
(* answers what came first.                                                *)
THEOREM LifecycleKeepsContract == HostSpec => HostContract
<1>1. Keeps => /\ \A a \in Callees : await[a] # "none" => await'[a] # "none"
               /\ Begins("evaluation") => phase = "running"
               /\ Begins("initialize") => await'["evaluation"] = "ok"
               /\ Begins("shutdown") => phase = "running" /\ await["initialize"] = "ok"
  BY DEF Keeps
<1>2. Keeps => \A a \in Callees : await[a] \in Decided =>
                 await'[a] \in {await[a], IF await[a] = "fulfilled" THEN "ok" ELSE "failed"}
  BY DEF Keeps
<1>3. IInv /\ [HostNext]_hostVars =>
        [ /\ \A a \in Callees : await[a] # "none" => await'[a] # "none"
          /\ Begins("evaluation") => phase = "running"
          /\ Begins("initialize") => await'["evaluation"] = "ok"
          /\ Begins("shutdown") => phase = "running" /\ await["initialize"] = "ok" ]_hostVars
  BY NextKeeps, <1>1
<1>4. IInv /\ [HostNext]_hostVars =>
        [ \A a \in Callees : await[a] \in Decided =>
            await'[a] \in {await[a], IF await[a] = "fulfilled" THEN "ok" ELSE "failed"} ]_hostVars
  BY NextKeeps, <1>2
<1>5. QED
  BY HostInvariant, <1>3, <1>4, PTL DEF HostSpec, HostContract, EntryContract, FirstWins
=============================================================================
