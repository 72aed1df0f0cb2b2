-------------------------- MODULE HttpServer_proofs --------------------------
(***************************************************************************)
(* HttpServer implements CloseBarrier and answers each request with its    *)
(* own response, for any connections, callers, responses and uses.         *)
(*                                                                         *)
(* The refinement needs that the server knows when its work is done: the   *)
(* counter child_count is the size of the set of live children.  That is   *)
(* an invariant once three facts accompany it: a child is counted before   *)
(* it lives and given back once, a connection whose accept completed has   *)
(* no session yet, and phase Closing stands exactly while a child lives.   *)
(***************************************************************************)
EXTENDS HttpServer, FiniteSetTheorems, TLAPS

Phases == {"Created", "Listening", "Closing", "Closed"}
Loops == {"none", "start", "accepting", "got", "failed", "done"}
Calls == {"free", "waiting", "ready", "returned"}

(* The phase of the barrier; the callers that asked and that have returned. *)
Stage == CASE phase \in {"Created", "Listening"} -> "open"
           [] phase = "Closing" -> "closing" [] OTHER -> "closed"
Asked == {k \in Callers : call[k] # "free"}
Returned == {k \in Callers : call[k] = "returned"}

(* Sessions are records; where one is suffices here. *)
Shape == /\ DOMAIN sess = Conns /\ sess = [c \in Conns |-> sess[c]]
         /\ \A c \in Conns : "at" \in DOMAIN sess[c]
TypeInv ==
  /\ Shape /\ use.connects \subseteq Conns
  /\ phase \in Phases /\ loop \in Loops /\ call \in [Callers -> Calls]

(* A server is Created until its loop starts, and a session starts after   *)
(* its connection was accepted.                                            *)
NotStarted ==
  /\ loop = "none" => phase \in {"Created", "Closed"} /\ \A c \in Conns : sess[c].at = "none"
  /\ phase = "Created" => loop = "none"
  /\ loop = "got" => accepted \in Conns /\ sess[accepted].at = "none"

(* Closing stands while a child lives, and callers of close know.          *)
Drains ==
  /\ phase = "Closed" => Live = {}
  /\ phase = "Closing" => Live # {}
  /\ \A k \in Callers : /\ call[k] = "waiting" => phase \in {"Closing", "Closed"}
                        /\ call[k] \in {"ready", "returned"} => phase = "Closed"

(* The inductive invariant. *)
IInv == TypeInv /\ NotStarted /\ ChildCountExact /\ Drains

(* Every session is where it was, or goes on without starting or ending. *)
Goes(c) == sess'[c].at = sess[c].at \/ (Alive(sess[c]) /\ Alive(sess'[c]))
AllGo == \A c \in Conns : Goes(c)

-----------------------------------------------------------------------------
(* The steps of CloseBarrier in terms of the server.                       *)

(* A step that changes nothing of what the barrier sees stutters. *)
LEMMA BarrierStutters ==
  ASSUME UNCHANGED <<Stage, Live, Asked, Returned>>
  PROVE  UNCHANGED Barrier!vars
  BY DEF Barrier!vars, Stage, Asked, Returned

(* A child that starts while the server is open. *)
LEMMA BarrierStarts ==
  ASSUME phase' \in Phases, phase \in Phases,
         Stage = "open", Stage' = "open",
         NEW w \in Conns \cup {"loop"}, w \notin Live, Live' = Live \cup {w},
         Asked' = Asked, Returned' = Returned
  PROVE  Barrier!Next
  BY DEF Barrier!Next, Barrier!Start, Stage, Asked, Returned

(* A child that ends; the last one of a closing server closes it. *)
LEMMA BarrierEnds ==
  ASSUME Stage' = IF Stage = "closing" THEN IF Live' = {} THEN "closed" ELSE "closing" ELSE Stage,
         NEW w \in Live, Live' = Live \ {w}, Asked' = Asked, Returned' = Returned
  PROVE  Barrier!Next
  BY DEF Barrier!Next, Barrier!End, Barrier!Settled, Stage, Asked, Returned

(* An open server that starts to close. *)
LEMMA BarrierShuts ==
  ASSUME Stage = "open", Stage' = IF Live' = {} THEN "closed" ELSE "closing",
         Live' \subseteq Live, Asked' = Asked, Returned' = Returned
  PROVE  Barrier!Next
  BY DEF Barrier!Next, Barrier!Shut, Barrier!Settled, Stage, Asked, Returned

(* A caller that asks for the close. *)
LEMMA BarrierAsks ==
  ASSUME NEW k \in Callers, k \notin Asked, Asked' = Asked \cup {k},
         IF Stage = "open" THEN Live' = Live /\ Stage' = IF Live' = {} THEN "closed" ELSE "closing"
         ELSE Live' = Live /\ Stage' = Stage,
         Returned' = IF Stage' = "closed" THEN Returned \cup {k} ELSE Returned
  PROVE  Barrier!Next
  BY DEF Barrier!Next, Barrier!Ask, Barrier!Settled, Stage, Asked, Returned

(* A caller that returns from a close. *)
LEMMA BarrierReturns ==
  ASSUME NEW k \in Asked \ Returned, Stage = "closed", Returned' = Returned \cup {k},
         Stage' = Stage, Live' = Live, Asked' = Asked
  PROVE  Barrier!Next
  BY DEF Barrier!Next, Barrier!Return, Stage, Asked, Returned
-----------------------------------------------------------------------------

(* Finitely many children live. *)
LEMMA LiveFinite == IsFiniteSet(Live)
<1>1. IsFiniteSet({c \in Conns : Alive(sess[c])})
  BY ServerConstantsOK, FS_Subset
<1>2. IsFiniteSet(IF loop \in {"none", "done"} THEN {} ELSE {"loop"})
  BY FS_EmptySet, FS_Singleton
<1>3. QED
  BY <1>1, <1>2, FS_Union DEF Live

(* The counter is zero when nothing lives. *)
LEMMA LiveCount ==
  /\ Cardinality(Live) \in Nat
  /\ Cardinality(Live) = 0 <=> Live = {}
  BY LiveFinite, FS_CardinalityType, FS_EmptySet

(* A child more. *)
LEMMA OneMore ==
  ASSUME ChildCountExact, NEW w, w \notin Live, Live' = Live \cup {w}, children' = children + 1
  PROVE  ChildCountExact'
  BY LiveFinite, FS_AddElement DEF ChildCountExact

(* A child less, of which the last one leaves zero. *)
LEMMA OneLess ==
  ASSUME ChildCountExact, NEW w \in Live, Live' = Live \ {w}, children' = children - 1
  PROVE  /\ ChildCountExact'
         /\ children' = 0 <=> Live' = {}
<1>1. Cardinality(Live') = children - 1
  BY LiveFinite, FS_RemoveElement DEF ChildCountExact
<1>2. QED
  BY <1>1, LiveCount, LiveFinite, FS_RemoveElement, FS_EmptySet DEF ChildCountExact

(* Sessions that go on, with a loop that does, leave the live ones alone. *)
LEMMA SameLive ==
  ASSUME AllGo, loop' \in {"none", "done"} <=> loop \in {"none", "done"}
  PROVE  Live' = Live
<1>1. \A c \in Conns : Alive(sess'[c]) <=> Alive(sess[c])
  BY DEF AllGo, Goes, Alive
<1>2. Live' = {c \in Conns : Alive(sess'[c])} \cup (IF loop' \in {"none", "done"} THEN {} ELSE {"loop"})
  BY DEF Live
<1>3. QED
  BY <1>1, <1>2, Zenon DEF Live

(* One session is written. *)
LEMMA OneSession ==
  ASSUME Shape, NEW c \in Conns, NEW s, sess' = [sess EXCEPT ![c] = s], "at" \in DOMAIN s
  PROVE  /\ Shape' /\ sess'[c] = s
         /\ \A d \in Conns \ {c} : sess'[d] = sess[d]
  BY DEF Shape

Step == IInv' /\ [Barrier!Next]_(Barrier!vars)

-----------------------------------------------------------------------------
(* What the loop and the sessions do while they go on. *)
LEMMA Quiet ==
  ASSUME IInv, Shape', AllGo, loop' \in Loops,
         loop' \in {"none", "done"} <=> loop \in {"none", "done"},
         loop' = "none" <=> loop = "none",
         loop' = "got" => accepted' \in Conns /\ sess'[accepted'].at = "none",
         UNCHANGED <<phase, children, call, use>>
  PROVE  Step
<1>1. Live' = Live
  BY SameLive
<1>2. TypeInv'
  BY DEF IInv, TypeInv
<1>3. NotStarted'
  BY DEF IInv, NotStarted, AllGo, Goes, Alive
<1>4. ChildCountExact' /\ Drains'
  BY <1>1 DEF IInv, ChildCountExact, Drains
<1>5. UNCHANGED Barrier!vars
  BY <1>1, BarrierStutters DEF Stage, Asked, Returned
<1>6. QED
  BY <1>2, <1>3, <1>4, <1>5 DEF Step, IInv

(* Who is woken asked before, and has not returned yet. *)
LEMMA WokenKeeps ==
  ASSUME NEW n, call' = Woken(n), call \in [Callers -> Calls]
  PROVE  /\ call' \in [Callers -> Calls] /\ Asked' = Asked /\ Returned' = Returned
         /\ \A k \in Callers : /\ call'[k] = "waiting" => call[k] = "waiting"
                               /\ call'[k] = "ready" => call[k] = "ready" \/ (n = 0 /\ call[k] = "waiting")
                               /\ call'[k] = "returned" <=> call[k] = "returned"
<1>1. call' \in [Callers -> Calls]
  BY DEF Woken, Calls
<1>2. \A k \in Callers : call'[k] = IF call[k] = "waiting" /\ n = 0 THEN "ready" ELSE call[k]
  BY DEF Woken
<1>3. Asked' = Asked /\ Returned' = Returned
  BY <1>2 DEF Asked, Returned
<1>4. QED
  BY <1>1, <1>2, <1>3

(* A child ends; with the loop, the server may start to close. *)
LEMMA ChildEnds ==
  ASSUME IInv, Shape', use' = use, loop' \in Loops, NotStarted',
         NEW w \in Live, Live' = Live \ {w},
         children' = children - 1, call' = Woken(children - 1),
         \/ phase' = Finalized(phase, children - 1)
         \/ phase = "Listening" /\ phase' = Finalized("Closing", children - 1)
  PROVE  Step
<1>1. /\ ChildCountExact'
      /\ children' = 0 <=> Live' = {}
  BY OneLess DEF IInv
<1>2. phase \in {"Created", "Listening", "Closing"}
  BY DEF IInv, TypeInv, Drains, Phases
<1>3. phase' \in Phases
  BY <1>2 DEF Finalized, Phases
<1>4. TypeInv'
  BY <1>3, WokenKeeps DEF IInv, TypeInv
<1>5. Drains'
  BY <1>1, <1>2, WokenKeeps DEF IInv, TypeInv, Drains, Finalized
<1>6. Barrier!Next
  <2>1. Asked' = Asked /\ Returned' = Returned
    BY WokenKeeps DEF IInv, TypeInv
  <2>2. CASE phase' = Finalized(phase, children - 1)
    <3>1. Stage' = IF Stage = "closing" THEN IF Live' = {} THEN "closed" ELSE "closing" ELSE Stage
      BY <1>1, <1>2, <2>2 DEF Stage, Finalized
    <3>2. QED
      BY <3>1, <2>1, BarrierEnds
  <2>3. CASE phase = "Listening" /\ phase' = Finalized("Closing", children - 1)
    <3>1. Stage = "open" /\ Stage' = IF Live' = {} THEN "closed" ELSE "closing"
      BY <1>1, <2>3 DEF Stage, Finalized
    <3>2. QED
      BY <3>1, <2>1, BarrierShuts
  <2>4. QED
    BY <2>2, <2>3
<1>7. QED
  BY <1>1, <1>4, <1>5, <1>6 DEF Step, IInv

-----------------------------------------------------------------------------
(* Session::cancel ends no session: one that reads has read. *)
LEMMA CancelGoes ==
  ASSUME NEW s, "at" \in DOMAIN s
  PROVE  /\ "at" \in DOMAIN Cancelled(s)
         /\ Cancelled(s).at = s.at \/ (Alive(s) /\ Alive(Cancelled(s)))
<1>1. CASE ~Alive(s) \/ s.cancelled
  BY <1>1 DEF Cancelled
<1>2. CASE Alive(s) /\ ~s.cancelled
  <2> DEFINE t == [s EXCEPT !.cancelled = TRUE, !.told = @ \/ s.at = "handling",
                            !.at = IF @ = "reading" THEN "read" ELSE @,
                            !.got = IF s.at = "reading" THEN "aborted" ELSE @]
  <2>1. Cancelled(s) = t
    BY <1>2 DEF Cancelled
  <2>2. "at" \in DOMAIN t /\ t.at = IF s.at = "reading" THEN "read" ELSE s.at
    OBVIOUS
  <2>3. QED
    BY <1>2, <2>1, <2>2 DEF Alive
<1>3. QED
  BY <1>1, <1>2

(* begin_close, which stops the sessions of a server that listened. *)
LEMMA CloseGoes ==
  ASSUME Shape, NEW n, BeginClose(n)
  PROVE  Shape' /\ AllGo
<1>1. CASE sess' = [c \in Conns |-> Cancelled(sess[c])]
  BY <1>1, CancelGoes DEF Shape, AllGo, Goes
<1>2. CASE sess' = sess
  BY <1>2 DEF Shape, AllGo, Goes
<1>3. QED
  BY <1>1, <1>2 DEF BeginClose

(* A session that leaves its loop is a child that ends. *)
LEMMA LeaveSteps ==
  ASSUME IInv, NEW c \in Conns, Alive(sess[c]), NEW s, "at" \in DOMAIN s, Leave(c, s),
         UNCHANGED <<loop, accepted, use>>
  PROVE  Step
<1> DEFINE t == [s EXCEPT !.at = "done"]
<1>1. "at" \in DOMAIN t /\ t.at = "done"
  OBVIOUS
<1>2. sess' = [sess EXCEPT ![c] = t]
  BY DEF Leave
<1> HIDE DEF t
<1>3. Shape' /\ sess'[c] = t /\ \A d \in Conns \ {c} : sess'[d] = sess[d]
  BY <1>1, <1>2, OneSession DEF IInv, TypeInv
<1>4. c \in Live /\ Live' = Live \ {c}
  BY <1>1, <1>3, ServerConstantsOK DEF Live, Alive
<1>5. NotStarted'
  <2>1. loop # "none"
    BY DEF IInv, NotStarted, Alive
  <2>2. phase' # "Created"
    BY <2>1 DEF IInv, NotStarted, Leave, Finalized
  <2>3. loop = "got" => accepted # c
    BY DEF IInv, NotStarted, Alive
  <2>4. QED
    BY <1>3, <2>1, <2>2, <2>3 DEF IInv, NotStarted
<1>6. loop' \in Loops
  BY DEF IInv, TypeInv
<1>7. QED
  BY <1>3, <1>4, <1>5, <1>6, ChildEnds DEF Leave

(* One that stays goes on. *)
LEMMA StaySteps ==
  ASSUME IInv, NEW c \in Conns, Alive(sess[c]), NEW s, "at" \in DOMAIN s, Alive(s), Stay(c, s),
         UNCHANGED <<loop, accepted, use>>
  PROVE  Step
<1>1. Shape' /\ sess'[c] = s /\ \A d \in Conns \ {c} : sess'[d] = sess[d]
  BY OneSession DEF IInv, TypeInv, Stay
<1>2. AllGo
  BY <1>1 DEF AllGo, Goes
<1>3. loop = "got" => accepted \in Conns /\ sess'[accepted].at = "none"
  BY <1>1 DEF IInv, NotStarted, Alive
<1>4. QED
  BY <1>1, <1>2, <1>3, Quiet DEF IInv, TypeInv, Stay

(* The loop of a session goes round, or is left. *)
LEMMA LoopSteps ==
  ASSUME IInv, NEW c \in Conns, Alive(sess[c]), NEW s, "at" \in DOMAIN s, Loop(c, s),
         UNCHANGED <<loop, accepted, use>>
  PROVE  Step
<1> DEFINE t == [s EXCEPT !.at = "reading"]
<1>1. "at" \in DOMAIN t /\ Alive(t)
  BY DEF Alive
<1>2. CASE Stay(c, t)
  <2> HIDE DEF t
  <2> QED BY <1>1, <1>2, StaySteps
<1>3. CASE Leave(c, s)
  BY <1>3, LeaveSteps
<1>4. QED
  BY <1>2, <1>3 DEF Loop

(* A session writes a response. *)
LEMMA WriteSteps ==
  ASSUME IInv, NEW c \in Conns, Alive(sess[c]), NEW s, "at" \in DOMAIN s,
         NEW status, NEW force, Write(c, s, status, force),
         UNCHANGED <<loop, accepted, use>>
  PROVE  Step
<1> DEFINE t == [s EXCEPT !.at = "writing", !.status = status, !.open = ~s.cancelled,
                          !.keep = s.got = "keep" /\ ~force /\ ~StopRequested(s)]
<1>1. "at" \in DOMAIN t /\ Alive(t)
  BY DEF Alive
<1>2. Stay(c, t)
  BY DEF Write
<1> HIDE DEF t
<1>3. QED
  BY <1>1, <1>2, StaySteps

-----------------------------------------------------------------------------
(* The coroutine of a session. *)
LEMMA SessionSteps ==
  ASSUME IInv, NEW c \in Conns, SessionRuns(c)
  PROVE  Step
<1>0. "at" \in DOMAIN sess[c]
  BY DEF IInv, TypeInv, Shape
<1>1. CASE SessionStarts(c)
  BY <1>0, <1>1, LoopSteps DEF SessionStarts, Alive
<1>2. CASE ReadCompletes(c)
  <2>1. PICK got : sess' = [sess EXCEPT ![c] = [sess[c] EXCEPT !.at = "read", !.got = got]]
    BY <1>2 DEF ReadCompletes
  <2> DEFINE t == [sess[c] EXCEPT !.at = "read", !.got = got]
  <2>2. "at" \in DOMAIN t /\ Alive(t) /\ Alive(sess[c])
    BY <1>0, <1>2 DEF ReadCompletes, Alive
  <2>3. Stay(c, t)
    BY <1>2, <2>1 DEF ReadCompletes, Stay, server
  <2> HIDE DEF t
  <2>4. QED
    BY <1>2, <2>2, <2>3, StaySteps DEF ReadCompletes, server
<1>3. CASE ReadDone(c)
  <2> DEFINE s == [sess[c] EXCEPT !.n = IF sess[c].got \in Kinds THEN @ + 1 ELSE @]
  <2>1. "at" \in DOMAIN s /\ Alive(sess[c]) /\ UNCHANGED <<loop, accepted, use>>
    BY <1>0, <1>3 DEF ReadDone, Alive
  <2>2. \/ \E status : Write(c, s, status, TRUE)
        \/ Stay(c, Spawned(s))
        \/ Leave(c, s)
    BY <1>3 DEF ReadDone
  <2>3. "at" \in DOMAIN Spawned(s) /\ Alive(Spawned(s))
    BY <2>1 DEF Spawned, Alive
  <2> HIDE DEF s
  <2>4. CASE Stay(c, Spawned(s))
    BY <2>1, <2>3, <2>4, StaySteps
  <2>5. CASE \E status : Write(c, s, status, TRUE)
    BY <2>1, <2>5, WriteSteps
  <2>6. CASE Leave(c, s)
    BY <2>1, <2>6, LeaveSteps
  <2>7. QED
    BY <2>2, <2>4, <2>5, <2>6
<1>4. CASE Handled(c)
  <2> DEFINE s == [sess[c] EXCEPT !.timer = "off", !.run = "none", !.told = FALSE]
  <2>1. "at" \in DOMAIN s /\ Alive(sess[c]) /\ UNCHANGED <<loop, accepted, use>>
    BY <1>0, <1>4 DEF Handled, Alive
  <2>2. Leave(c, s) \/ \E force : Write(c, s, Outcome(s), force)
    BY <1>4 DEF Handled
  <2> HIDE DEF s
  <2>3. QED
    BY <2>1, <2>2, LeaveSteps, WriteSteps
<1>5. CASE WriteCompletes(c)
  <2>1. Alive(sess[c]) /\ UNCHANGED <<loop, accepted, use>>
    BY <1>5 DEF WriteCompletes, Alive
  <2>2. Loop(c, sess[c]) \/ Leave(c, sess[c])
    BY <1>5 DEF WriteCompletes
  <2>3. QED
    BY <1>0, <2>1, <2>2, LoopSteps, LeaveSteps
<1>6. QED
  BY <1>1, <1>2, <1>3, <1>4, <1>5 DEF SessionRuns

(* The handler of a request and its deadline leave the session where it is. *)
LEMMA HandlerSteps ==
  ASSUME IInv, NEW c \in Conns,
         HandlerRuns(c) \/ HandlerSettles(c) \/ DeadlineExpires(c) \/ DeadlineFires(c)
  PROVE  Step
<1>0. "at" \in DOMAIN sess[c] /\ c \in DOMAIN sess
  BY DEF IInv, TypeInv, Shape
<1>1. UNCHANGED <<server, call, use>>
  BY DEF HandlerRuns, HandlerStarts, HandlerCancelled, HandlerSettles, DeadlineExpires, DeadlineFires
<1>2. PICK t : sess' = [sess EXCEPT ![c] = t] /\ "at" \in DOMAIN t /\ t.at = sess[c].at
  <2>1. CASE HandlerStarts(c)
    BY <1>0, <2>1 DEF HandlerStarts
  <2>2. CASE HandlerCancelled(c)
    <3>1. sess' = [sess EXCEPT ![c] = [sess[c] EXCEPT !.run = "done", !.out = 0]]
      BY <1>0, <2>2 DEF HandlerCancelled
    <3>2. /\ "at" \in DOMAIN [sess[c] EXCEPT !.run = "done", !.out = 0]
          /\ [sess[c] EXCEPT !.run = "done", !.out = 0].at = sess[c].at
      BY <1>0
    <3>3. QED
      BY <3>1, <3>2
  <2>3. CASE HandlerSettles(c)
    <3>1. CASE sess' = sess
      <4>1. sess' = [sess EXCEPT ![c] = sess[c]]
        BY <1>0, <3>1 DEF IInv, TypeInv, Shape
      <4>2. QED
        BY <1>0, <4>1
    <3>2. CASE \E out : sess' = [sess EXCEPT ![c].run = "done", ![c].out = out]
      <4>1. PICK out : sess' = [sess EXCEPT ![c].run = "done", ![c].out = out]
        BY <3>2
      <4>2. sess' = [sess EXCEPT ![c] = [sess[c] EXCEPT !.run = "done", !.out = out]]
        BY <4>1
      <4>3. /\ "at" \in DOMAIN [sess[c] EXCEPT !.run = "done", !.out = out]
            /\ [sess[c] EXCEPT !.run = "done", !.out = out].at = sess[c].at
        BY <1>0
      <4>4. QED
        BY <4>2, <4>3
    <3>3. QED
      BY <2>3, <3>1, <3>2 DEF HandlerSettles
  <2>4. CASE DeadlineExpires(c)
    <3>1. sess' = [sess EXCEPT ![c] = [sess[c] EXCEPT !.timer = "due"]]
      BY <1>0, <2>4 DEF DeadlineExpires
    <3>2. /\ "at" \in DOMAIN [sess[c] EXCEPT !.timer = "due"]
          /\ [sess[c] EXCEPT !.timer = "due"].at = sess[c].at
      BY <1>0
    <3>3. QED
      BY <3>1, <3>2
  <2>5. CASE DeadlineFires(c)
    <3>1. PICK x, y : sess' = [sess EXCEPT ![c] = [sess[c] EXCEPT !.timer = "off", !.late = x, !.told = y]]
      <4> DEFINE fires == sess[c].run # "done"
                 late == sess[c].late \/ fires
                 told == sess[c].told \/ fires
      <4>1. sess' = [sess EXCEPT ![c].timer = "off", ![c].late = late, ![c].told = told]
        BY <2>5 DEF DeadlineFires
      <4> HIDE DEF late, told
      <4>2. sess' = [sess EXCEPT ![c] = [sess[c] EXCEPT !.timer = "off", !.late = late, !.told = told]]
        BY <4>1
      <4>3. QED
        BY <4>2
    <3>2. /\ "at" \in DOMAIN [sess[c] EXCEPT !.timer = "off", !.late = x, !.told = y]
          /\ [sess[c] EXCEPT !.timer = "off", !.late = x, !.told = y].at = sess[c].at
      BY <1>0
    <3>3. QED
      BY <3>1, <3>2
  <2>6. QED
    BY <2>1, <2>2, <2>3, <2>4, <2>5 DEF HandlerRuns
<1>3. Shape' /\ sess'[c] = t /\ \A d \in Conns \ {c} : sess'[d] = sess[d]
  BY <1>2, OneSession DEF IInv, TypeInv
<1>4. AllGo
  BY <1>2, <1>3 DEF AllGo, Goes
<1>5. loop = "got" => accepted \in Conns /\ sess'[accepted].at = "none"
  BY <1>2, <1>3 DEF IInv, NotStarted
<1>6. QED
  BY <1>1, <1>3, <1>4, <1>5, Quiet DEF IInv, TypeInv, server

-----------------------------------------------------------------------------
(* The accept loop ends; a server that listened closes. *)
LEMMA LoopEndSteps ==
  ASSUME IInv, loop \notin {"none", "done"}, LoopEnds, use' = use
  PROVE  Step
<1>1. Shape' /\ AllGo
  <2>1. CASE phase = "Listening"
    BY <2>1, CloseGoes DEF IInv, TypeInv, LoopEnds
  <2>2. CASE phase # "Listening"
    BY <2>2 DEF IInv, TypeInv, Shape, LoopEnds, AllGo, Goes
  <2>3. QED
    BY <2>1, <2>2
<1>2. "loop" \in Live /\ Live' = Live \ {"loop"}
  <2>1. \A c \in Conns : Alive(sess'[c]) <=> Alive(sess[c])
    BY <1>1 DEF AllGo, Goes, Alive
  <2>2. loop' = "done"
    BY DEF LoopEnds
  <2>3. Live' = {c \in Conns : Alive(sess'[c])}
    BY <2>2 DEF Live
  <2>4. QED
    BY <2>1, <2>3, ServerConstantsOK, Zenon DEF Live
<1>3. \/ phase' = Finalized(phase, children - 1)
      \/ phase = "Listening" /\ phase' = Finalized("Closing", children - 1)
  BY DEF LoopEnds, BeginClose
<1>4. NotStarted'
  <2>1. loop' = "done" /\ phase # "Created"
    BY DEF IInv, NotStarted, LoopEnds
  <2>2. phase' # "Created"
    BY <1>3, <2>1 DEF Finalized
  <2>3. QED
    BY <2>1, <2>2 DEF NotStarted
<1>5. children' = children - 1 /\ call' = Woken(children - 1) /\ loop' \in Loops
  BY DEF LoopEnds, Loops
<1>6. QED
  BY <1>1, <1>2, <1>3, <1>4, <1>5, ChildEnds

(* The server listens, and its loop is a child. *)
LEMMA ListenSteps ==
  ASSUME IInv, Listen
  PROVE  Step
<1>1. loop = "none" /\ \A c \in Conns : sess[c].at = "none"
  BY DEF IInv, NotStarted, Listen
<1>2. Live = {} /\ Live' = {"loop"}
  BY <1>1 DEF Listen, Live, Alive
<1>3. Live' = Live \cup {"loop"} /\ "loop" \notin Live
  BY <1>2
<1>4. TypeInv' /\ NotStarted'
  BY DEF IInv, TypeInv, NotStarted, Shape, Listen, Phases, Loops
<1>5. ChildCountExact'
  BY <1>3, OneMore DEF IInv, Listen
<1>6. Drains'
  BY DEF IInv, Drains, Listen
<1>7. Stage = "open" /\ Stage' = "open" /\ phase \in Phases /\ phase' \in Phases
  BY DEF Listen, Stage, Phases
<1>8. Asked' = Asked /\ Returned' = Returned
  BY DEF Listen, Asked, Returned
<1>9. QED
  BY <1>3, <1>4, <1>5, <1>6, <1>7, <1>8, BarrierStarts DEF Step, IInv

(* A session starts, and is a child. *)
LEMMA SpawnSteps ==
  ASSUME IInv, Accepts, loop = "got", phase = "Listening"
  PROVE  Step
<1> DEFINE t == [sess[accepted] EXCEPT !.at = "start"]
<1>1. accepted \in Conns /\ sess[accepted].at = "none"
  BY DEF IInv, NotStarted
<1>2. "at" \in DOMAIN t /\ t.at = "start"
  BY <1>1 DEF IInv, TypeInv, Shape
<1>3. sess' = [sess EXCEPT ![accepted] = t]
  BY DEF Accepts
<1> HIDE DEF t
<1>4. Shape' /\ sess'[accepted] = t /\ \A d \in Conns \ {accepted} : sess'[d] = sess[d]
  BY <1>1, <1>2, <1>3, OneSession DEF IInv, TypeInv
<1>5. loop' = "accepting" /\ children' = children + 1 /\ UNCHANGED <<phase, call, use>>
  BY DEF Accepts
<1>6. accepted \notin Live /\ Live' = Live \cup {accepted}
  BY <1>1, <1>2, <1>4, <1>5, ServerConstantsOK DEF Live, Alive
<1>7. TypeInv' /\ NotStarted' /\ Drains'
  BY <1>4, <1>5 DEF IInv, TypeInv, NotStarted, Drains, Loops
<1>8. ChildCountExact'
  BY <1>5, <1>6, OneMore DEF IInv
<1>9. Barrier!Next
  <2>1. Stage = "open" /\ Stage' = "open" /\ phase \in Phases /\ phase' \in Phases
    BY <1>5 DEF Stage, Phases
  <2>2. Asked' = Asked /\ Returned' = Returned
    BY <1>5 DEF Asked, Returned
  <2>3. QED
    BY <1>1, <1>6, <2>1, <2>2, BarrierStarts
<1>10. QED
  BY <1>7, <1>8, <1>9 DEF Step, IInv

(* The coroutine of the accept loop. *)
LEMMA AcceptSteps ==
  ASSUME IInv, LoopStarts \/ AcceptCompletes \/ Accepts
  PROVE  Step
<1>1. CASE LoopStarts /\ phase = "Listening"
  BY <1>1, Quiet DEF LoopStarts, IInv, TypeInv, Shape, AllGo, Goes, Loops
<1>2. CASE LoopStarts /\ phase # "Listening"
  BY <1>2, LoopEndSteps DEF LoopStarts
<1>3. CASE AcceptCompletes
  <2>1. Shape' /\ AllGo /\ loop' \in {"got", "failed"}
    BY <1>3 DEF AcceptCompletes, IInv, TypeInv, Shape, AllGo, Goes
  <2>2. loop' = "got" => accepted' \in Conns /\ sess'[accepted'].at = "none"
    BY <1>3 DEF AcceptCompletes, IInv, TypeInv
  <2>3. UNCHANGED <<phase, children, call, use>> /\ loop = "accepting"
    BY <1>3 DEF AcceptCompletes
  <2>4. QED
    BY <2>1, <2>2, <2>3, Quiet DEF Loops
<1>4. CASE Accepts /\ loop = "got" /\ phase = "Listening"
  BY <1>4, SpawnSteps
<1>5. CASE Accepts /\ ~(loop = "got" /\ phase = "Listening")
  BY <1>5, LoopEndSteps DEF Accepts
<1>6. QED
  BY <1>1, <1>2, <1>3, <1>4, <1>5

-----------------------------------------------------------------------------
(* begin_close with every child still alive. *)
LEMMA BeginCloseSteps ==
  ASSUME IInv, BeginClose(children), UNCHANGED <<loop, accepted, children, use>>
  PROVE  /\ Shape' /\ AllGo /\ Live' = Live /\ NotStarted' /\ ChildCountExact'
         /\ phase' \in Phases \ {"Created", "Listening"}
         /\ phase' = "Closed" => Live' = {}
         /\ phase' = "Closing" => Live' # {}
         /\ IF Stage = "open" THEN Stage' = IF Live' = {} THEN "closed" ELSE "closing"
            ELSE Stage' = Stage
         /\ phase = "Closed" => phase' = "Closed"
<1>1. Shape' /\ AllGo
  BY CloseGoes DEF IInv, TypeInv
<1>2. Live' = Live
  BY <1>1, SameLive
<1>3. children = 0 <=> Live = {}
  BY LiveCount DEF IInv, ChildCountExact
<1>4. phase = "Created" => Live = {}
  BY DEF IInv, NotStarted, Live, Alive
<1>5. phase \in Phases
  BY DEF IInv, TypeInv
<1>6. /\ phase = "Created" => phase' = "Closed"
      /\ phase \in {"Listening", "Closing"} => phase' = IF children = 0 THEN "Closed" ELSE "Closing"
      /\ phase = "Closed" => phase' = "Closed"
  BY <1>5 DEF BeginClose, Finalized, Phases
<1>7. phase' \in Phases \ {"Created", "Listening"}
  BY <1>5, <1>6 DEF Phases
<1>8. phase' = "Closed" => Live' = {}
  BY <1>2, <1>3, <1>4, <1>5, <1>6 DEF IInv, Drains, Phases
<1>9. phase' = "Closing" => Live' # {}
  BY <1>2, <1>3, <1>5, <1>6 DEF Phases
<1>10. NotStarted'
  <2>1. loop = "none" => phase' = "Closed"
    BY <1>6 DEF IInv, NotStarted
  <2>2. \A c \in Conns : sess[c].at = "none" => sess'[c].at = "none"
    BY <1>1 DEF AllGo, Goes, Alive
  <2>3. QED
    BY <1>7, <2>1, <2>2 DEF IInv, NotStarted
<1>11. ChildCountExact'
  BY <1>2 DEF IInv, ChildCountExact
<1>12. IF Stage = "open" THEN Stage' = IF Live' = {} THEN "closed" ELSE "closing" ELSE Stage' = Stage
  BY <1>2, <1>3, <1>4, <1>5, <1>6 DEF Stage, Phases, IInv, Drains
<1>13. QED
  BY <1>1, <1>2, <1>6, <1>7, <1>8, <1>9, <1>10, <1>11, <1>12

(* A call of close joins the barrier, or finds it passed. *)
LEMMA CloseCalledSteps ==
  ASSUME IInv, NEW k \in Callers, CloseCalled(k)
  PROVE  Step
<1>1. BeginClose(children) /\ UNCHANGED <<loop, accepted, children, use>>
  BY DEF CloseCalled
<1>2. call[k] = "free"
      /\ call' = [call EXCEPT ![k] = IF phase' = "Closed" THEN "returned" ELSE "waiting"]
  BY DEF CloseCalled
<1>3. call \in [Callers -> Calls]
  BY DEF IInv, TypeInv
<1>4. /\ call' \in [Callers -> Calls]
      /\ call'[k] = IF phase' = "Closed" THEN "returned" ELSE "waiting"
      /\ \A l \in Callers \ {k} : call'[l] = call[l]
  BY <1>2, <1>3 DEF Calls
<1>5. phase' \in {"Closing", "Closed"} /\ (phase = "Closed" => phase' = "Closed")
  BY <1>1, BeginCloseSteps DEF Phases
<1>6. TypeInv'
  BY <1>1, <1>4, BeginCloseSteps DEF IInv, TypeInv
<1>7. Drains'
  BY <1>1, <1>4, <1>5, BeginCloseSteps DEF IInv, Drains
<1>8. Barrier!Next
  <2>1. k \notin Asked /\ Asked' = Asked \cup {k}
    BY <1>2, <1>4 DEF Asked
  <2>2. Stage' = "closed" <=> phase' = "Closed"
    BY <1>5 DEF Stage
  <2>3. Returned' = IF Stage' = "closed" THEN Returned \cup {k} ELSE Returned
    BY <1>2, <1>4, <2>2 DEF Returned
  <2>4. QED
    BY <1>1, <2>1, <2>3, BeginCloseSteps, BarrierAsks
<1>9. QED
  BY <1>1, <1>6, <1>7, <1>8, BeginCloseSteps DEF Step, IInv

(* A caller that was woken returns: the server is closed. *)
LEMMA CloseResumesSteps ==
  ASSUME IInv, NEW k \in Callers, CloseResumes(k)
  PROVE  Step
<1>1. phase = "Closed" /\ phase' = "Closed" /\ call[k] = "ready"
  BY DEF IInv, Drains, CloseResumes, Finalized
<1>2. UNCHANGED <<loop, accepted, children, sess, use>>
  BY DEF CloseResumes
<1>3. call' = [call EXCEPT ![k] = "returned"]
  BY <1>1 DEF CloseResumes
<1>4. /\ call' \in [Callers -> Calls] /\ call'[k] = "returned"
      /\ \A l \in Callers \ {k} : call'[l] = call[l]
  BY <1>3 DEF IInv, TypeInv, Calls
<1>5. Live' = Live
  BY <1>2 DEF Live
<1>6. TypeInv' /\ NotStarted' /\ ChildCountExact'
  BY <1>1, <1>2, <1>4, <1>5 DEF IInv, TypeInv, Shape, NotStarted, ChildCountExact
<1>7. Drains'
  BY <1>1, <1>4, <1>5 DEF IInv, Drains
<1>8. Barrier!Next
  <2>1. k \in Asked \ Returned /\ Asked' = Asked /\ Returned' = Returned \cup {k}
    BY <1>1, <1>4 DEF Asked, Returned
  <2>2. Stage = "closed" /\ Stage' = Stage
    BY <1>1 DEF Stage
  <2>3. QED
    BY <1>5, <2>1, <2>2, BarrierReturns
<1>9. QED
  BY <1>6, <1>7, <1>8 DEF Step, IInv

(* Disposal closes a server that nobody holds any more. *)
LEMMA DisposeSteps ==
  ASSUME IInv, DisposeRuns
  PROVE  Step
<1>1. BeginClose(children) /\ UNCHANGED <<loop, accepted, children, call, use>>
  BY DEF DisposeRuns
<1>2. phase' \in {"Closing", "Closed"} /\ (phase = "Closed" => phase' = "Closed")
  BY <1>1, BeginCloseSteps DEF Phases
<1>3. TypeInv'
  BY <1>1, BeginCloseSteps DEF IInv, TypeInv
<1>4. Drains'
  BY <1>1, <1>2, BeginCloseSteps DEF IInv, Drains
<1>5. [Barrier!Next]_(Barrier!vars)
  <2>1. Asked' = Asked /\ Returned' = Returned
    BY <1>1 DEF Asked, Returned
  <2>2. CASE Stage = "open"
    BY <1>1, <2>1, <2>2, BeginCloseSteps, BarrierShuts
  <2>3. CASE Stage # "open"
    BY <1>1, <2>1, <2>3, BeginCloseSteps, BarrierStutters
  <2>4. QED
    BY <2>2, <2>3
<1>6. QED
  BY <1>1, <1>3, <1>4, <1>5, BeginCloseSteps DEF Step, IInv

(* The clients and the finalizer change nothing of this. *)
LEMMA OtherSteps ==
  ASSUME IInv, UNCHANGED <<server, sess, call, use>>
  PROVE  Step
<1>1. Shape' /\ AllGo
  BY DEF IInv, TypeInv, Shape, AllGo, Goes
<1>2. QED
  BY <1>1, Quiet DEF server, IInv, TypeInv, NotStarted

(* Every step of the server keeps the invariant and is one of the barrier. *)
LEMMA NextSteps ==
  ASSUME IInv, [Next]_vars
  PROVE  Step
<1>1. CASE Listen
  BY <1>1, ListenSteps
<1>2. CASE LoopStarts \/ AcceptCompletes \/ Accepts
  BY <1>2, AcceptSteps
<1>3. CASE \E c \in Conns : SessionRuns(c)
  BY <1>3, SessionSteps
<1>4. CASE \E c \in Conns : HandlerRuns(c) \/ HandlerSettles(c) \/ DeadlineExpires(c) \/ DeadlineFires(c)
  BY <1>4, HandlerSteps
<1>5. CASE \E c \in Conns : Sends(c) \/ Disconnects(c)
  BY <1>5, OtherSteps DEF Sends, Disconnects
<1>6. CASE \E k \in Callers : CloseCalled(k)
  BY <1>6, CloseCalledSteps
<1>7. CASE \E k \in Callers : CloseResumes(k)
  BY <1>7, CloseResumesSteps
<1>8. CASE Finalize \/ Dispose \/ UNCHANGED vars
  BY <1>8, OtherSteps DEF Finalize, Dispose, vars
<1>9. CASE DisposeRuns
  BY <1>9, DisposeSteps
<1>10. QED
  BY <1>1, <1>2, <1>3, <1>4, <1>5, <1>6, <1>7, <1>8, <1>9 DEF Next

(* So it is at the beginning. *)
LEMMA InitHolds ==
  ASSUME Init
  PROVE  IInv /\ Barrier!Init
<1>1. Live = {}
  BY DEF Init, NoSession, Live, Alive
<1>2. TypeInv
  BY ServerConstantsOK DEF Init, TypeInv, Shape, NoSession, Phases, Loops, Calls, Use
<1>3. NotStarted /\ Drains
  BY DEF Init, NotStarted, Drains, NoSession
<1>4. ChildCountExact
  BY <1>1, FS_EmptySet DEF Init, ChildCountExact
<1>5. Barrier!Init
  BY <1>1 DEF Init, Barrier!Init
<1>6. QED
  BY <1>2, <1>3, <1>4, <1>5 DEF IInv

-----------------------------------------------------------------------------
(* child_count is the number of the loop and the sessions that live, on    *)
(* every path that ends one of them.                                       *)
THEOREM ChildrenCounted == Spec => []ChildCountExact
<1>1. IInv /\ [Next]_vars => IInv'
  BY NextSteps DEF Step
<1>2. IInv => ChildCountExact
  BY DEF IInv
<1>3. QED
  BY InitHolds, <1>1, <1>2, PTL DEF Spec

(* The server is a resource with a close barrier: it closes when its loop  *)
(* and all its sessions have ended, no call of close returns before, and   *)
(* nothing starts after.                                                   *)
THEOREM ServerImplementsBarrier == Spec => JoinsBarrier
<1>1. Init => IInv /\ Barrier!Init
  BY InitHolds
<1>2. IInv /\ [Next]_vars => IInv' /\ [Barrier!Next]_(Barrier!vars)
  BY NextSteps DEF Step
<1>3. QED
  BY <1>1, <1>2, PTL DEF Spec, JoinsBarrier, Barrier!Safety
-----------------------------------------------------------------------------
(* The responses of a connection match its requests.                       *)
(*                                                                         *)
(* RepliesMatch alone is not inductive: it says nothing of where a session *)
(* is when it reads or answers.  Placed does: a session that waits for a   *)
(* request has answered all of them with answers of its handler, one that  *)
(* handles or writes owes exactly one, and one that will go on after its   *)
(* write does not write an error.                                          *)

Fields == DOMAIN NoSession
Between == {"none", "start", "reading", "read"}
Owing == {"handling", "writing"}

(* What every session is. *)
Formed(s) ==
  /\ DOMAIN s = Fields /\ s.at \in Between \cup Owing \cup {"done"}
  /\ s.n \in Nat /\ s.status \in Nat /\ s.out \in Nat \ Errors

(* Each reply answers the request of its place, and is the handler's own. *)
Clean(r) == \A i \in DOMAIN r : r[i][1] = i /\ r[i][2] \notin Errors

(* RepliesMatch of one connection that has read n requests. *)
Match(n, r) ==
  /\ \A i \in DOMAIN r : r[i][1] = i /\ (i < n => r[i][2] \notin Errors)
  /\ Len(r) <= n /\ n <= Len(r) + 1

Placed(s, r) ==
  /\ s.at \in Between => Clean(r) /\ s.n = Len(r)
  /\ s.at \in Owing => Clean(r) /\ s.n = Len(r) + 1
  /\ s.at = "writing" /\ s.keep => s.status \notin Errors
  /\ s.at = "done" => Match(s.n, r)

Fits(s, r) == Formed(s) /\ r \in Seq(Nat \X Nat) /\ Placed(s, r)

(* The inductive invariant, beside IInv. *)
Matched ==
  /\ DOMAIN sess = Conns /\ sess = [c \in Conns |-> sess[c]]
  /\ DOMAIN net = Conns /\ net = [c \in Conns |-> net[c]]
  /\ \A c \in Conns : "reply" \in DOMAIN net[c] /\ Fits(sess[c], net[c].reply)

-----------------------------------------------------------------------------
(* One session and one client                                              *)

(* A clean session that owes at most one answer matches. *)
LEMMA CleanMatches ==
  ASSUME NEW r \in Seq(Nat \X Nat), Clean(r), NEW n \in Nat, n = Len(r) \/ n = Len(r) + 1
  PROVE  Match(n, r)
  BY DEF Clean, Match

(* What fits matches. *)
LEMMA FitMatches ==
  ASSUME NEW s, NEW r, Fits(s, r)
  PROVE  Match(s.n, r)
  BY CleanMatches DEF Fits, Formed, Placed

(* A session that leaves its loop matches as it did. *)
LEMMA LeftFits ==
  ASSUME NEW s, Formed(s), NEW r \in Seq(Nat \X Nat), Match(s.n, r)
  PROVE  Fits([s EXCEPT !.at = "done"], r)
<1> DEFINE t == [s EXCEPT !.at = "done"]
<1>1. DOMAIN t = DOMAIN s /\ t.at = "done" /\ t.n = s.n /\ t.status = s.status /\ t.out = s.out
  BY DEF Formed, Fields, NoSession
<1> HIDE DEF t
<1>2. Formed(t) /\ Placed(t, r)
  BY <1>1 DEF Formed, Placed, Between, Owing
<1>3. Fits(t, r)
  BY <1>2 DEF Fits
<1>4. QED
  BY <1>3 DEF t

(* A session that reads again has answered all it read. *)
LEMMA RoundFits ==
  ASSUME NEW s, Formed(s), NEW r \in Seq(Nat \X Nat), Clean(r), s.n = Len(r)
  PROVE  Fits([s EXCEPT !.at = "reading"], r)
<1> DEFINE t == [s EXCEPT !.at = "reading"]
<1>1. DOMAIN t = DOMAIN s /\ t.at = "reading" /\ t.n = s.n /\ t.status = s.status /\ t.out = s.out
  BY DEF Formed, Fields, NoSession
<1> HIDE DEF t
<1>2. Formed(t) /\ Placed(t, r)
  BY <1>1 DEF Formed, Placed, Between, Owing
<1>3. Fits(t, r)
  BY <1>2 DEF Fits
<1>4. QED
  BY <1>3 DEF t

(* A response that goes out to a client who is owed one. *)
LEMMA WrittenFits ==
  ASSUME NEW s, Formed(s), NEW r \in Seq(Nat \X Nat), Clean(r), s.n = Len(r) + 1,
         NEW status \in Nat, NEW open, NEW keep, keep => status \notin Errors
  PROVE  Fits([s EXCEPT !.at = "writing", !.status = status, !.open = open, !.keep = keep], r)
<1> DEFINE t == [s EXCEPT !.at = "writing", !.status = status, !.open = open, !.keep = keep]
<1>1. /\ DOMAIN t = DOMAIN s /\ t.at = "writing" /\ t.n = s.n /\ t.status = status
      /\ t.out = s.out /\ t.keep = keep
  BY DEF Formed, Fields, NoSession
<1> HIDE DEF t
<1>2. Formed(t)
  BY <1>1 DEF Formed, Owing
<1>3. Placed(t, r)
  BY <1>1 DEF Placed, Between, Owing
<1>4. Fits(t, r)
  BY <1>2, <1>3 DEF Fits
<1>5. QED
  BY <1>4 DEF t

(* Session::cancel reads nothing and answers nothing. *)
LEMMA CancelledFits ==
  ASSUME NEW s, NEW r, Fits(s, r)
  PROVE  Fits(Cancelled(s), r)
<1>1. CASE ~Alive(s) \/ s.cancelled
  BY <1>1 DEF Cancelled
<1>2. CASE Alive(s) /\ ~s.cancelled
  <2> DEFINE t == [s EXCEPT !.cancelled = TRUE, !.told = @ \/ s.at = "handling",
                            !.at = IF @ = "reading" THEN "read" ELSE @,
                            !.got = IF s.at = "reading" THEN "aborted" ELSE @]
  <2>1. Cancelled(s) = t
    BY <1>2 DEF Cancelled
  <2>2. /\ DOMAIN t = DOMAIN s /\ t.at = IF s.at = "reading" THEN "read" ELSE s.at
        /\ t.n = s.n /\ t.status = s.status /\ t.out = s.out /\ t.keep = s.keep
    BY DEF Fits, Formed, Fields, NoSession
  <2> HIDE DEF t
  <2>3. Formed(t) /\ Placed(t, r)
    BY <2>2 DEF Fits, Formed, Placed, Between, Owing
  <2>4. QED
    BY <2>1, <2>3 DEF Fits
<1>3. QED
  BY <1>1, <1>2

-----------------------------------------------------------------------------
(* One session among all                                                   *)

(* Every client keeps the replies it has. *)
SameReplies ==
  /\ DOMAIN net' = Conns /\ net' = [c \in Conns |-> net'[c]]
  /\ \A c \in Conns : "reply" \in DOMAIN net'[c] /\ net'[c].reply = net[c].reply

(* The client of c has the replies r, every other those it had. *)
RepliesAre(c, r) ==
  /\ DOMAIN net' = Conns /\ net' = [d \in Conns |-> net'[d]]
  /\ \A d \in Conns : "reply" \in DOMAIN net'[d] /\ net'[d].reply = IF d = c THEN r ELSE net[d].reply

LEMMA SameAre ==
  ASSUME Matched, SameReplies, NEW c \in Conns
  PROVE  RepliesAre(c, net[c].reply) /\ net[c].reply \in Seq(Nat \X Nat)
  BY DEF Matched, Fits, SameReplies, RepliesAre

(* Nothing else than the session of c is written. *)
LEMMA OneFits ==
  ASSUME Matched, NEW c \in Conns, NEW r, RepliesAre(c, r), NEW s, Fits(s, r),
         sess' = [sess EXCEPT ![c] = s]
  PROVE  Matched'
<1>1. DOMAIN sess' = Conns /\ sess' = [d \in Conns |-> sess'[d]]
  BY DEF Matched
<1>2. \A d \in Conns : sess'[d] = IF d = c THEN s ELSE sess[d]
  BY DEF Matched
<1>3. \A d \in Conns : Fits(sess'[d], net'[d].reply)
  BY <1>2 DEF Matched, RepliesAre
<1>4. QED
  BY <1>1, <1>3 DEF Matched, RepliesAre

(* No session is written. *)
LEMMA NoneFits ==
  ASSUME Matched, SameReplies, sess' = sess
  PROVE  Matched'
<1>1. \A d \in Conns : Fits(sess'[d], net'[d].reply)
  BY DEF Matched, SameReplies
<1>2. QED
  BY <1>1 DEF Matched, SameReplies

(* begin_close cancels every session, or none. *)
LEMMA CloseFits ==
  ASSUME Matched, NEW k, BeginClose(k), net' = net
  PROVE  Matched'
<1>1. SameReplies
  BY DEF Matched, SameReplies
<1>2. CASE sess' = sess
  BY <1>1, <1>2, NoneFits
<1>3. CASE sess' = [c \in Conns |-> Cancelled(sess[c])]
  <2>1. \A c \in Conns : Fits(sess'[c], net'[c].reply)
    BY <1>3, CancelledFits DEF Matched
  <2>2. DOMAIN sess' = Conns /\ sess' = [d \in Conns |-> sess'[d]]
    BY <1>3
  <2>3. QED
    BY <2>1, <2>2 DEF Matched
<1>4. QED
  BY <1>2, <1>3 DEF BeginClose

(* What the session of c needs to leave its loop. *)
LEMMA LeaveFits ==
  ASSUME Matched, NEW c \in Conns, NEW r \in Seq(Nat \X Nat), RepliesAre(c, r),
         NEW s, Formed(s), Match(s.n, r), Leave(c, s)
  PROVE  Matched'
<1>1. Fits([s EXCEPT !.at = "done"], r)
  BY LeftFits
<1>2. sess' = [sess EXCEPT ![c] = [s EXCEPT !.at = "done"]]
  BY DEF Leave
<1>3. QED
  BY <1>1, <1>2, OneFits

(* What it needs to write a response. *)
LEMMA WriteFits ==
  ASSUME Matched, net' = net, NEW c \in Conns, NEW s, Formed(s),
         Clean(net[c].reply), s.n = Len(net[c].reply) + 1,
         NEW status \in Nat, NEW force \in BOOLEAN, ~force => status \notin Errors,
         Write(c, s, status, force)
  PROVE  Matched'
<1> DEFINE open == ~s.cancelled
           keep == s.got = "keep" /\ ~force /\ ~StopRequested(s)
<1>1. net[c].reply \in Seq(Nat \X Nat) /\ SameReplies
  BY DEF Matched, Fits, SameReplies
<1>2. sess' = [sess EXCEPT ![c] =
                 [s EXCEPT !.at = "writing", !.status = status, !.open = open, !.keep = keep]]
  BY DEF Write, Stay
<1>3. keep => status \notin Errors
  OBVIOUS
<1> HIDE DEF open, keep
<1>4. Fits([s EXCEPT !.at = "writing", !.status = status, !.open = open, !.keep = keep],
           net[c].reply)
  BY <1>1, <1>3, WrittenFits
<1>5. QED
  BY <1>1, <1>2, <1>4, SameAre, OneFits

-----------------------------------------------------------------------------
(* The steps                                                               *)

LEMMA InitFits == Init => Matched
<1> SUFFICES ASSUME Init PROVE Matched
  OBVIOUS
<1>1. /\ \A c \in Conns : sess[c] = NoSession /\ net[c].reply = <<>> /\ "reply" \in DOMAIN net[c]
      /\ DOMAIN sess = Conns /\ sess = [c \in Conns |-> sess[c]]
      /\ DOMAIN net = Conns /\ net = [c \in Conns |-> net[c]]
  BY DEF Init
<1>2. Formed(NoSession)
  BY DEF Formed, Fields, NoSession, Errors, Between
<1>3. Placed(NoSession, <<>>)
  BY DEF Placed, NoSession, Clean, Between, Owing
<1>4. \A c \in Conns : Fits(sess[c], net[c].reply)
  <2>1. Fits(NoSession, <<>>)
    BY <1>2, <1>3 DEF Fits
  <2>2. QED
    BY <1>1, <2>1
<1>5. QED
  BY <1>1, <1>4 DEF Matched

(* The accept loop. *)
LEMMA LoopEndsFits == ASSUME Matched, LoopEnds, net' = net PROVE Matched'
<1>1. SameReplies
  BY DEF Matched, SameReplies
<1>2. QED
  BY <1>1, CloseFits, NoneFits DEF LoopEnds

LEMMA AcceptFits ==
  ASSUME Matched, IInv, LoopStarts \/ AcceptCompletes \/ Accepts
  PROVE  Matched'
<1>0. SameReplies /\ net' = net
  BY DEF Matched, SameReplies, LoopStarts, AcceptCompletes, Accepts
<1>1. CASE LoopEnds
  BY <1>0, <1>1, LoopEndsFits
<1>2. CASE sess' = sess
  BY <1>0, <1>2, NoneFits
<1>3. CASE loop = "got" /\ sess' = [sess EXCEPT ![accepted].at = "start"]
  <2>1. accepted \in Conns /\ sess[accepted].at = "none"
    BY <1>3 DEF IInv, NotStarted
  <2> DEFINE t == [sess[accepted] EXCEPT !.at = "start"]
  <2>2. sess' = [sess EXCEPT ![accepted] = t]
    BY <1>3
  <2>3. Fits(sess[accepted], net[accepted].reply)
    BY <2>1 DEF Matched
  <2>4. /\ DOMAIN t = DOMAIN sess[accepted] /\ t.at = "start" /\ t.n = sess[accepted].n
        /\ t.status = sess[accepted].status /\ t.out = sess[accepted].out
    BY <2>3 DEF Fits, Formed, Fields, NoSession
  <2> HIDE DEF t
  <2>5. Fits(t, net[accepted].reply)
    BY <2>1, <2>3, <2>4 DEF Fits, Formed, Placed, Between, Owing
  <2>6. QED
    BY <1>0, <2>1, <2>2, <2>5, SameAre, OneFits
<1>4. QED
  BY <1>1, <1>2, <1>3 DEF LoopStarts, AcceptCompletes, Accepts

(* A session at its loop reads again or ends. *)
LEMMA LoopFits ==
  ASSUME Matched, NEW c \in Conns, NEW r \in Seq(Nat \X Nat), RepliesAre(c, r),
         NEW s, Formed(s), Clean(r), s.n = Len(r), Loop(c, s)
  PROVE  Matched'
<1>1. CASE Leave(c, s)
  <2>1. Match(s.n, r)
    BY CleanMatches DEF Formed
  <2>2. QED
    BY <1>1, <2>1, LeaveFits
<1>2. CASE Stay(c, [s EXCEPT !.at = "reading"])
  <2>1. Fits([s EXCEPT !.at = "reading"], r)
    BY RoundFits
  <2>2. sess' = [sess EXCEPT ![c] = [s EXCEPT !.at = "reading"]]
    BY <1>2 DEF Stay
  <2>3. QED
    BY <2>1, <2>2, OneFits
<1>3. QED
  BY <1>1, <1>2 DEF Loop

LEMMA SessionStartFits ==
  ASSUME Matched, NEW c \in Conns, SessionStarts(c)
  PROVE  Matched'
<1>1. SameReplies
  BY DEF Matched, SameReplies, SessionStarts
<1>2. Formed(sess[c]) /\ Clean(net[c].reply) /\ sess[c].n = Len(net[c].reply)
  BY DEF Matched, Fits, Placed, Between, SessionStarts
<1>3. QED
  BY <1>1, <1>2, SameAre, LoopFits DEF SessionStarts

(* A client's queue changes without its replies. *)
LEMMA Requeued ==
  ASSUME Matched, NEW c \in Conns, NEW m, net' = [net EXCEPT ![c] = m],
         "reply" \in DOMAIN m, m.reply = net[c].reply
  PROVE  SameReplies
  BY DEF Matched, SameReplies

LEMMA ReadFits ==
  ASSUME Matched, NEW c \in Conns, ReadCompletes(c)
  PROVE  Matched'
<1>1. PICK got : sess' = [sess EXCEPT ![c] = [sess[c] EXCEPT !.at = "read", !.got = got]]
  BY DEF ReadCompletes
<1> DEFINE t == [sess[c] EXCEPT !.at = "read", !.got = got]
<1>2. Fits(sess[c], net[c].reply) /\ sess[c].at = "reading" /\ "reply" \in DOMAIN net[c]
  BY DEF Matched, ReadCompletes
<1>3. /\ DOMAIN t = DOMAIN sess[c] /\ t.at = "read" /\ t.n = sess[c].n
      /\ t.status = sess[c].status /\ t.out = sess[c].out
  BY <1>2 DEF Fits, Formed, Fields, NoSession
<1>4. sess' = [sess EXCEPT ![c] = t]
  BY <1>1
<1> HIDE DEF t
<1>5. Fits(t, net[c].reply)
  BY <1>2, <1>3 DEF Fits, Formed, Placed, Between, Owing
<1>6. SameReplies
  <2>1. CASE net' = net
    BY <2>1 DEF Matched, SameReplies
  <2>2. CASE net' = [net EXCEPT ![c].sent = Tail(@)]
    <3> DEFINE m == [net[c] EXCEPT !.sent = Tail(@)]
    <3>1. "reply" \in DOMAIN m /\ m.reply = net[c].reply
      BY <1>2
    <3>2. net' = [net EXCEPT ![c] = m]
      BY <2>2
    <3> HIDE DEF m
    <3>3. QED
      BY <3>1, <3>2, Requeued
  <2>3. QED
    BY <2>1, <2>2 DEF ReadCompletes
<1>7. QED
  BY <1>4, <1>5, <1>6, SameAre, OneFits

(* The client sends or goes away. *)
LEMMA ClientFits ==
  ASSUME Matched, NEW c \in Conns, Sends(c) \/ Disconnects(c)
  PROVE  Matched'
<1>0. "reply" \in DOMAIN net[c]
  BY DEF Matched
<1>1. CASE Sends(c)
  <2> DEFINE m == [net[c] EXCEPT !.sent = Append(@, use.sends[c][net[c].asked + 1]),
                                 !.asked = @ + 1]
  <2>1. "reply" \in DOMAIN m /\ m.reply = net[c].reply
    BY <1>0
  <2>2. net' = [net EXCEPT ![c] = m]
    BY <1>1 DEF Sends
  <2> HIDE DEF m
  <2>3. QED
    BY <1>1, <2>1, <2>2, Requeued, NoneFits DEF Sends
<1>2. CASE Disconnects(c)
  <2> DEFINE m == [net[c] EXCEPT !.open = FALSE]
  <2>1. "reply" \in DOMAIN m /\ m.reply = net[c].reply
    BY <1>0
  <2>2. net' = [net EXCEPT ![c] = m]
    BY <1>2 DEF Disconnects
  <2> HIDE DEF m
  <2>3. QED
    BY <1>2, <2>1, <2>2, Requeued, NoneFits DEF Disconnects
<1>3. QED
  BY <1>1, <1>2

(* What was read is counted, and answered, handled, or ends the session. *)
LEMMA ReadDoneFits ==
  ASSUME Matched, NEW c \in Conns, ReadDone(c)
  PROVE  Matched'
<1> DEFINE r == net[c].reply
           s == [sess[c] EXCEPT !.n = IF sess[c].got \in Kinds THEN @ + 1 ELSE @]
<1>1. /\ Formed(sess[c]) /\ r \in Seq(Nat \X Nat) /\ Clean(r) /\ sess[c].n = Len(r)
      /\ net' = net /\ SameReplies
  BY DEF Matched, Fits, Placed, Between, ReadDone, SameReplies
<1>2. /\ DOMAIN s = DOMAIN sess[c] /\ s.at = sess[c].at /\ s.got = sess[c].got
      /\ s.status = sess[c].status /\ s.out = sess[c].out
      /\ s.n = IF sess[c].got \in Kinds THEN sess[c].n + 1 ELSE sess[c].n
  BY <1>1 DEF Formed, Fields, NoSession
<1>3. \/ s.got \in Kinds /\ (Write(c, s, 413, TRUE) \/ Write(c, s, 400, TRUE) \/ Stay(c, Spawned(s)))
      \/ Leave(c, s)
  BY <1>2 DEF ReadDone, Kinds
<1> HIDE DEF s
<1>4. Formed(s) /\ (s.n = Len(r) \/ s.n = Len(r) + 1) /\ (s.got \in Kinds => s.n = Len(r) + 1)
  BY <1>1, <1>2 DEF Formed
<1>5. CASE Leave(c, s)
  BY <1>1, <1>4, <1>5, SameAre, CleanMatches, LeaveFits DEF Formed
<1>6. CASE s.got \in Kinds /\ (Write(c, s, 413, TRUE) \/ Write(c, s, 400, TRUE))
  <2>0. 413 \in Nat /\ 400 \in Nat
    OBVIOUS
  <2>1. PICK status \in Nat : Write(c, s, status, TRUE)
    BY <1>6, <2>0, Zenon
  <2> DEFINE force == TRUE
  <2>2. force \in BOOLEAN /\ (~force => status \notin Errors) /\ Write(c, s, status, force)
    BY <2>1
  <2> HIDE DEF force
  <2>3. QED
    BY <1>1, <1>4, <1>6, <2>2, WriteFits
<1>7. CASE s.got \in Kinds /\ Stay(c, Spawned(s))
  <2>1. /\ DOMAIN Spawned(s) = DOMAIN s /\ Spawned(s).at = "handling" /\ Spawned(s).n = s.n
        /\ Spawned(s).status = s.status /\ Spawned(s).out = 0
    BY <1>4 DEF Spawned, Formed, Fields, NoSession
  <2>2. Fits(Spawned(s), r)
    BY <1>1, <1>4, <1>7, <2>1 DEF Fits, Formed, Placed, Between, Owing, Errors
  <2>3. sess' = [sess EXCEPT ![c] = Spawned(s)]
    BY <1>7 DEF Stay
  <2>4. QED
    BY <1>1, <2>2, <2>3, SameAre, OneFits
<1>8. QED
  BY <1>3, <1>5, <1>6, <1>7

(* The handler is done: its answer goes out, or an error that ends the     *)
(* connection, unless the server closes.                                   *)
LEMMA HandledFits ==
  ASSUME Matched, NEW c \in Conns, Handled(c)
  PROVE  Matched'
<1> DEFINE r == net[c].reply
           s == [sess[c] EXCEPT !.timer = "off", !.run = "none", !.told = FALSE]
<1>1. /\ Formed(sess[c]) /\ r \in Seq(Nat \X Nat) /\ Clean(r) /\ sess[c].n = Len(r) + 1
      /\ net' = net /\ SameReplies
  BY DEF Matched, Fits, Placed, Owing, Handled, SameReplies
<1>2. /\ DOMAIN s = DOMAIN sess[c] /\ s.at = sess[c].at /\ s.n = sess[c].n
      /\ s.status = sess[c].status /\ s.out = sess[c].out
  BY <1>1 DEF Formed, Fields, NoSession
<1>3. Leave(c, s) \/ Write(c, s, Outcome(s), s.late \/ s.out = 0)
  BY DEF Handled
<1> HIDE DEF s
<1>4. Formed(s) /\ s.n = Len(r) + 1
  BY <1>1, <1>2 DEF Formed
<1>5. CASE Leave(c, s)
  BY <1>1, <1>4, <1>5, SameAre, CleanMatches, LeaveFits DEF Formed
<1>6. CASE Write(c, s, Outcome(s), s.late \/ s.out = 0)
  <2>1. Outcome(s) \in Nat /\ (~(s.late \/ s.out = 0) => Outcome(s) \notin Errors)
    BY <1>4 DEF Outcome, Formed
  <2> DEFINE force == s.late \/ s.out = 0
  <2>2. force \in BOOLEAN
    OBVIOUS
  <2>3. Write(c, s, Outcome(s), force) /\ (~force => Outcome(s) \notin Errors)
    BY <1>6, <2>1
  <2> HIDE DEF force
  <2>4. QED
    BY <1>1, <1>4, <2>1, <2>2, <2>3, WriteFits
<1>7. QED
  BY <1>3, <1>5, <1>6

(* The client takes the response: it has one more reply, the one it owed.  *)
LEMMA ReplyTaken ==
  ASSUME Matched, NEW c \in Conns, net' = [net EXCEPT ![c].reply = Append(@, <<sess[c].n, sess[c].status>>)],
         sess[c].at = "writing"
  PROVE  LET r == Append(net[c].reply, <<sess[c].n, sess[c].status>>) IN
         /\ r \in Seq(Nat \X Nat) /\ RepliesAre(c, r) /\ sess[c].n = Len(r) /\ Match(sess[c].n, r)
         /\ sess[c].keep => Clean(r)
<1> DEFINE q == net[c].reply
           e == <<sess[c].n, sess[c].status>>
           r == Append(q, e)
<1>1. /\ Formed(sess[c]) /\ q \in Seq(Nat \X Nat) /\ Clean(q) /\ sess[c].n = Len(q) + 1
      /\ sess[c].keep => sess[c].status \notin Errors
  BY DEF Matched, Fits, Placed, Owing
<1>2. e \in Nat \X Nat /\ e[1] = sess[c].n /\ e[2] = sess[c].status
  BY <1>1 DEF Formed
<1>3. RepliesAre(c, r)
  BY DEF Matched, RepliesAre
<1> HIDE DEF q, e
<1>4. /\ r \in Seq(Nat \X Nat) /\ Len(r) = Len(q) + 1 /\ r[Len(q) + 1] = e
      /\ \A i \in 1..Len(q) : r[i] = q[i]
      /\ DOMAIN r = 1..(Len(q) + 1) /\ DOMAIN q = 1..Len(q) /\ Len(q) \in Nat
  BY <1>1, <1>2
<1> HIDE DEF r
<1>5. \A i \in DOMAIN r : r[i][1] = i /\ (i < Len(q) + 1 => r[i][2] \notin Errors)
  <2> SUFFICES ASSUME NEW i \in DOMAIN r
               PROVE  r[i][1] = i /\ (i < Len(q) + 1 => r[i][2] \notin Errors)
    OBVIOUS
  <2>1. CASE i \in 1..Len(q)
    <3>1. r[i] = q[i] /\ i \in DOMAIN q
      BY <1>4, <2>1
    <3>2. QED
      BY <1>1, <3>1 DEF Clean
  <2>2. CASE i = Len(q) + 1
    BY <1>1, <1>2, <1>4, <2>2
  <2>3. QED
    BY <1>4, <2>1, <2>2
<1>6. sess[c].n = Len(r) /\ Match(sess[c].n, r)
  BY <1>1, <1>4, <1>5 DEF Match
<1>7. sess[c].keep => Clean(r)
  BY <1>1, <1>2, <1>4, <1>5 DEF Clean
<1>8. QED
  BY <1>3, <1>4, <1>6, <1>7 DEF r, q, e

(* The write completes: a session goes on only after an answer of its      *)
(* handler.                                                                *)
LEMMA WriteDoneFits ==
  ASSUME Matched, NEW c \in Conns, WriteCompletes(c)
  PROVE  Matched'
<1> DEFINE r == Append(net[c].reply, <<sess[c].n, sess[c].status>>)
<1>1. Formed(sess[c]) /\ Match(sess[c].n, net[c].reply)
  BY FitMatches DEF Matched, Fits
<1>2. CASE net' = net /\ Leave(c, sess[c])
  <2>1. SameReplies
    BY <1>2 DEF Matched, SameReplies
  <2>2. QED
    BY <1>1, <1>2, <2>1, SameAre, LeaveFits
<1>3. CASE /\ net' = [net EXCEPT ![c].reply = Append(@, <<sess[c].n, sess[c].status>>)]
           /\ IF sess[c].keep THEN Loop(c, sess[c]) ELSE Leave(c, sess[c])
  <2>1. /\ r \in Seq(Nat \X Nat) /\ RepliesAre(c, r) /\ sess[c].n = Len(r) /\ Match(sess[c].n, r)
        /\ sess[c].keep => Clean(r)
    BY <1>3, ReplyTaken DEF WriteCompletes
  <2> HIDE DEF r
  <2>2. CASE sess[c].keep /\ Loop(c, sess[c])
    BY <1>1, <2>1, <2>2, LoopFits
  <2>3. CASE Leave(c, sess[c])
    BY <1>1, <2>1, <2>3, LeaveFits
  <2>4. QED
    BY <1>3, <2>2, <2>3
<1>4. QED
  BY <1>2, <1>3 DEF WriteCompletes

(* The handler and its deadline: what it answers is never an error. *)
LEMMA HandlerFits ==
  ASSUME Matched, NEW c \in Conns,
         HandlerRuns(c) \/ HandlerSettles(c) \/ DeadlineExpires(c) \/ DeadlineFires(c)
  PROVE  Matched'
<1> DEFINE s == sess[c]
<1>1. SameReplies
  BY DEF Matched, SameReplies, HandlerRuns, HandlerStarts, HandlerCancelled, HandlerSettles,
         DeadlineExpires, DeadlineFires
<1>2. Fits(s, net[c].reply) /\ DOMAIN s = Fields
  BY DEF Matched, Fits, Formed
<1>3. ASSUME NEW t, sess' = [sess EXCEPT ![c] = t], DOMAIN t = Fields,
             t.at = s.at, t.n = s.n, t.status = s.status, t.keep = s.keep, t.out \in Nat \ Errors
      PROVE  Matched'
  <2>1. Fits(t, net[c].reply)
    BY <1>2, <1>3 DEF Fits, Formed, Placed
  <2>2. QED
    BY <1>1, <1>3, <2>1, SameAre, OneFits
<1>4. s.out \in Nat \ Errors /\ 0 \in Nat \ Errors
  BY <1>2 DEF Fits, Formed, Errors
<1>5. ASSUME NEW run, NEW out \in Nat \ Errors,
             sess' = [sess EXCEPT ![c] = [s EXCEPT !.run = run, !.out = out]]
      PROVE  Matched'
  <2> DEFINE t == [s EXCEPT !.run = run, !.out = out]
  <2>1. /\ DOMAIN t = Fields /\ t.at = s.at /\ t.n = s.n /\ t.status = s.status
        /\ t.keep = s.keep /\ t.out = out
    BY <1>2 DEF Fields, NoSession
  <2>2. sess' = [sess EXCEPT ![c] = t]
    BY <1>5
  <2> HIDE DEF t
  <2>3. QED
    BY <1>3, <2>1, <2>2
<1>6. CASE HandlerStarts(c)
  <2>1. \/ sess' = [sess EXCEPT ![c] = [s EXCEPT !.run = "awaiting"]]
        \/ sess' = [sess EXCEPT ![c] = [s EXCEPT !.run = "done", !.out = 0]]
    BY <1>6 DEF HandlerStarts, Matched
  <2> DEFINE t == [s EXCEPT !.run = "awaiting"]
  <2>2. DOMAIN t = Fields /\ t.at = s.at /\ t.n = s.n /\ t.status = s.status /\ t.keep = s.keep /\ t.out = s.out
    BY <1>2 DEF Fields, NoSession
  <2>3. CASE sess' = [sess EXCEPT ![c] = t]
    <3> HIDE DEF t
    <3>1. QED
      BY <1>3, <1>4, <2>2, <2>3
  <2>4. CASE sess' = [sess EXCEPT ![c] = [s EXCEPT !.run = "done", !.out = 0]]
    BY <1>4, <1>5, <2>4
  <2>5. QED
    BY <2>1, <2>3, <2>4
<1>7. CASE HandlerCancelled(c)
  <2>1. sess' = [sess EXCEPT ![c] = [s EXCEPT !.run = "done", !.out = 0]]
    BY <1>7 DEF HandlerCancelled, Matched
  <2>2. QED
    BY <1>4, <1>5, <2>1
<1>8. CASE HandlerSettles(c)
  <2>1. CASE sess' = sess
    BY <1>1, <2>1, NoneFits
  <2>2. CASE \E out \in {IF Valid(r) THEN r.status ELSE 0 : r \in Responses} \cup {0} :
               sess' = [sess EXCEPT ![c].run = "done", ![c].out = out]
    <3>1. PICK out \in {IF Valid(r) THEN r.status ELSE 0 : r \in Responses} \cup {0} :
               sess' = [sess EXCEPT ![c].run = "done", ![c].out = out]
      BY <2>2
    <3>2. out \in Nat \ Errors
      BY <1>4, ServerConstantsOK
    <3>3. sess' = [sess EXCEPT ![c] = [s EXCEPT !.run = "done", !.out = out]]
      BY <3>1 DEF Matched
    <3>4. QED
      BY <1>5, <3>2, <3>3
  <2>3. QED
    BY <1>8, <2>1, <2>2 DEF HandlerSettles
<1>9. CASE DeadlineExpires(c)
  <2> DEFINE t == [s EXCEPT !.timer = "due"]
  <2>1. DOMAIN t = Fields /\ t.at = s.at /\ t.n = s.n /\ t.status = s.status /\ t.keep = s.keep /\ t.out = s.out
    BY <1>2 DEF Fields, NoSession
  <2>2. sess' = [sess EXCEPT ![c] = t]
    BY <1>9 DEF DeadlineExpires
  <2> HIDE DEF t
  <2>3. QED
    BY <1>3, <1>4, <2>1, <2>2
<1>10. CASE DeadlineFires(c)
  <2> DEFINE fires == s.run # "done"
             t == [s EXCEPT !.timer = "off", !.late = @ \/ fires, !.told = @ \/ fires]
  <2>1. DOMAIN t = Fields /\ t.at = s.at /\ t.n = s.n /\ t.status = s.status /\ t.keep = s.keep /\ t.out = s.out
    BY <1>2 DEF Fields, NoSession
  <2>2. sess' = [sess EXCEPT ![c] = t]
    BY <1>10 DEF DeadlineFires, Matched
  <2> HIDE DEF t
  <2>3. QED
    BY <1>3, <1>4, <2>1, <2>2
<1>11. QED
  BY <1>6, <1>7, <1>8, <1>9, <1>10 DEF HandlerRuns

(* Every step keeps the invariant. *)
LEMMA NextFits ==
  ASSUME IInv, Matched, [Next]_vars
  PROVE  Matched'
<1>0. net' = net => SameReplies
  BY DEF Matched, SameReplies
<1>1. CASE LoopStarts \/ AcceptCompletes \/ Accepts
  BY <1>1, AcceptFits
<1>2. CASE \E c \in Conns : SessionRuns(c)
  BY <1>2, SessionStartFits, ReadFits, ReadDoneFits, HandledFits, WriteDoneFits DEF SessionRuns
<1>3. CASE \E c \in Conns : HandlerRuns(c) \/ HandlerSettles(c) \/ DeadlineExpires(c) \/ DeadlineFires(c)
  BY <1>3, HandlerFits
<1>4. CASE \E c \in Conns : Sends(c) \/ Disconnects(c)
  BY <1>4, ClientFits
<1>5. CASE DisposeRuns \/ \E k \in Callers : CloseCalled(k)
  BY <1>5, CloseFits DEF DisposeRuns, CloseCalled
<1>6. CASE sess' = sess /\ net' = net
  BY <1>0, <1>6, NoneFits
<1>7. CASE Listen \/ Finalize \/ Dispose \/ UNCHANGED vars \/ \E k \in Callers : CloseResumes(k)
  BY <1>6, <1>7 DEF Listen, Finalize, Dispose, CloseResumes, vars
<1>8. QED
  BY <1>1, <1>2, <1>3, <1>4, <1>5, <1>7 DEF Next

-----------------------------------------------------------------------------
(* A connection gets one response per request read, in the order of the    *)
(* requests, and none after an error response.                             *)
THEOREM RepliesInOrder == Spec => []RepliesMatch
<1>1. Init => IInv /\ Matched
  BY InitHolds, InitFits
<1>2. IInv /\ Matched /\ [Next]_vars => IInv' /\ Matched'
  BY NextSteps, NextFits DEF Step
<1>3. Matched => RepliesMatch
  BY FitMatches DEF Matched, Match, RepliesMatch
<1>4. QED
  BY <1>1, <1>2, <1>3, PTL DEF Spec
=============================================================================
