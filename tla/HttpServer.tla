----------------------------- MODULE HttpServer -----------------------------
(***************************************************************************)
(* The inbound HTTP/1 server of vacps:http (src/http/server.cpp,           *)
(* src/modules/http.cpp): listen, the accept loop, one session coroutine   *)
(* per connection, the handler of each request with its deadline, and the  *)
(* callers of close, which join a barrier over accept loop and sessions.   *)
(*                                                                         *)
(* Everything runs on the owner executor: an action is one handler, or the *)
(* stretch of a coroutine between two co_awaits.  A cancelled operation    *)
(* whose completion is already queued completes: an accepted socket, a     *)
(* request that was read.                                                  *)
(***************************************************************************)
EXTENDS Integers, Sequences, FiniteSets

CONSTANTS
  Conns, Closers, None,
  Responses,   \* what handlers answer: [status, size, header]
  MaxResponse, \* max_response_bytes
  Uses         \* what clients and handlers do: see Use

(* How a request is read: one that asks for keep-alive or for close, one   *)
(* that does not parse, one over the body limit.                           *)
Kinds == {"keep", "close", "bad", "big"}
(* The fixed responses of the transport; a handler of Responses never answers with one. *)
Errors == {400, 413, 500, 504}
(* The requests each client sends, in order, if it connects; the clients   *)
(* that may disconnect; the connections whose handler itself awaits        *)
(* server.close(); the calls of close; whether the JS object may be lost.  *)
Use == [sends : [Conns -> Seq(Kinds)], connects : SUBSET Conns, leaves : SUBSET Conns,
        selfClosing : SUBSET Conns, closers : SUBSET Closers, lost : BOOLEAN]

ASSUME ServerConstantsOK ==
  /\ IsFiniteSet(Conns) /\ None \notin Conns /\ "loop" \notin Conns
  /\ MaxResponse \in Nat
  /\ Responses \subseteq [status : Nat, size : Nat, header : {"plain", "owned", "malformed"}]
  /\ \A r \in Responses : r.status \notin Errors
  /\ Closers \cap Conns = {} /\ Uses \subseteq Use

VARIABLES
  phase,     \* Server::Phase
  loop,      \* the accept loop
  accepted,  \* the connection whose accept completed, or None
  children,  \* child_count
  stopped,   \* stop_source
  sess,      \* the sessions, with the Box of the handler they wait for
  call,      \* the calls of close
  rooted,    \* on_request holds the callback
  disposal,  \* the JS object and its native: "held", "finalized", "posted", "run"
  net,       \* the clients: requests in flight, replies received
  js,        \* onRequest: called and not settled yet
  use        \* the member of Uses that this behaviour follows

server == <<phase, loop, accepted, children, stopped>>
vars == <<server, sess, call, rooted, disposal, net, js, use>>

Callers == Closers \cup Conns

NoSession == [at |-> "none", got |-> "none", n |-> 0, cancelled |-> FALSE,
              run |-> "none", told |-> FALSE, late |-> FALSE, timer |-> "off",
              out |-> 0, keep |-> FALSE, status |-> 0, open |-> TRUE]

Init ==
  /\ phase = "Created" /\ loop = "none" /\ accepted = None /\ children = 0
  /\ stopped = FALSE /\ sess = [c \in Conns |-> NoSession]
  /\ call = [k \in Callers |-> "free"] /\ rooted = TRUE /\ disposal = "held"
  /\ net = [c \in Conns |-> [sent |-> <<>>, asked |-> 0, open |-> TRUE, reply |-> <<>>]]
  /\ use \in Uses
  /\ js = [c \in Conns |-> FALSE]

-----------------------------------------------------------------------------
(* Mutant: closing does not look at the children. *)
FinalizedAtOnce(ph, n) == IF ph = "Closing" THEN "Closed" ELSE ph

(* try_finalize_close, after a change of phase or of the number of children *)
Finalized(ph, n) == IF ph = "Closing" /\ n = 0 THEN "Closed" ELSE ph

Alive(s) == s.at \notin {"none", "done"}

(* Session::cancel, with the stop callbacks of a handler in progress. *)
Cancelled(s) ==
  IF ~Alive(s) \/ s.cancelled THEN s
  ELSE [s EXCEPT !.cancelled = TRUE,
                 !.told = @ \/ s.at = "handling",
                 !.at = IF @ = "reading" THEN "read" ELSE @,
                 !.got = IF s.at = "reading" THEN "aborted" ELSE @]

(* begin_close, with n children left. *)
BeginClose(n) ==
  /\ phase' = CASE phase = "Created" -> "Closed"
                [] phase \in {"Listening", "Closing"} -> Finalized("Closing", n)
                [] OTHER -> phase
  /\ IF phase \in {"Listening", "Closing"}
     THEN stopped' = TRUE /\ sess' = [c \in Conns |-> Cancelled(sess[c])]
     ELSE UNCHANGED <<stopped, sess>>

(* child_dec wakes the callers of close when it was the last child. *)
Woken(n) == [k \in Callers |-> IF call[k] = "waiting" /\ n = 0 THEN "ready" ELSE call[k]]

-----------------------------------------------------------------------------
(* async_listen.  A failing bind leaves the server Created, for a retry. *)
Listen ==
  /\ phase = "Created" /\ disposal = "held"
  /\ phase' = "Listening" /\ loop' = "start" /\ children' = children + 1
  /\ UNCHANGED <<accepted, stopped, sess, call, rooted, disposal, net, js, use>>

(* The accept loop ends, and closes a server that still listens. *)
LoopEnds ==
  /\ loop' = "done" /\ accepted' = None /\ children' = children - 1
  /\ call' = Woken(children - 1)
  /\ IF phase = "Listening" THEN BeginClose(children - 1)
     ELSE phase' = Finalized(phase, children - 1) /\ UNCHANGED <<stopped, sess>>

LoopStarts ==
  /\ loop = "start"
  /\ IF phase = "Listening"
     THEN loop' = "accepting" /\ UNCHANGED <<phase, accepted, children, stopped, sess, call>>
     ELSE LoopEnds
  /\ UNCHANGED <<rooted, disposal, net, js, use>>

(* The pending accept completes: with a connection, or with an error. *)
AcceptCompletes ==
  /\ loop = "accepting"
  /\ \/ \E c \in use.connects : /\ sess[c].at = "none" /\ loop' = "got" /\ accepted' = c
     \/ loop' = "failed" /\ accepted' = None
  /\ UNCHANGED <<phase, children, stopped, sess, call, rooted, disposal, net, js, use>>

Accepts ==
  /\ loop \in {"got", "failed"}
  /\ IF loop = "got" /\ phase = "Listening"
     THEN /\ sess' = [sess EXCEPT ![accepted].at = "start"]
          /\ children' = children + 1 /\ loop' = "accepting" /\ accepted' = None
          /\ UNCHANGED <<phase, stopped, call>>
     ELSE LoopEnds
  /\ UNCHANGED <<rooted, disposal, net, js, use>>
-----------------------------------------------------------------------------
(* Session::run.  A session that leaves its loop closes its socket and is  *)
(* no child any more.                                                      *)

StopRequested(s) == s.cancelled \/ stopped

Stay(c, s) == sess' = [sess EXCEPT ![c] = s] /\ UNCHANGED <<phase, children, call>>

Leave(c, s) ==
  /\ sess' = [sess EXCEPT ![c] = [s EXCEPT !.at = "done"]]
  /\ children' = children - 1 /\ phase' = Finalized(phase, children - 1)
  /\ call' = Woken(children - 1)

Loop(c, s) ==
  IF StopRequested(s) \/ phase # "Listening" THEN Leave(c, s)
  ELSE Stay(c, [s EXCEPT !.at = "reading"])

(* validate_response *)
Valid(r) ==
  /\ r.status \in 200..599 /\ r.size <= MaxResponse /\ r.header = "plain"
  /\ r.status \in {204, 205, 304} => r.size = 0

(* write_response, up to its completion; a closed socket takes nothing. *)
Write(c, s, status, force) ==
  Stay(c, [s EXCEPT !.at = "writing", !.status = status, !.open = ~s.cancelled,
                    !.keep = s.got = "keep" /\ ~force /\ ~StopRequested(s)])

SessionStarts(c) ==
  /\ sess[c].at = "start" /\ Loop(c, sess[c])
  /\ UNCHANGED <<loop, accepted, stopped, rooted, disposal, net, js, use>>

(* A request, the end of the stream, or io_timeout. *)
ReadCompletes(c) ==
  LET s == sess[c]
      m == net[c]
      reads(got) == sess' = [sess EXCEPT ![c] = [s EXCEPT !.at = "read", !.got = got]]
  IN /\ s.at = "reading"
     /\ \/ m.sent # <<>> /\ reads(Head(m.sent)) /\ net' = [net EXCEPT ![c].sent = Tail(@)]
        \/ m.sent = <<>> /\ ~m.open /\ reads("eof") /\ net' = net
        \/ m.sent = <<>> /\ reads("timeout") /\ net' = net
     /\ UNCHANGED <<server, call, rooted, disposal, js, use>>

(* run_handler, up to its wait: the stop callbacks of a server or session  *)
(* that is already stopping run at once.                                   *)
Spawned(s) == [s EXCEPT !.at = "handling", !.run = "spawned", !.late = FALSE,
                        !.timer = "armed", !.out = 0, !.told = StopRequested(s)]

(* A request is dispatched though a stop came after its read completed. *)
ReadDone(c) ==
  LET s == [sess[c] EXCEPT !.n = IF sess[c].got \in Kinds THEN @ + 1 ELSE @]
  IN /\ sess[c].at = "read"
     /\ CASE s.got = "big" -> Write(c, s, 413, TRUE)
          [] s.got = "bad" /\ ~StopRequested(s) -> Write(c, s, 400, TRUE)
          [] s.got \in {"keep", "close"} ->
               Stay(c, Spawned(s))
          [] OTHER -> Leave(c, s)
     /\ UNCHANGED <<loop, accepted, stopped, rooted, disposal, net, js, use>>

(* The handler coroutine of modules/http.cpp: JS_Call, then await_value.   *)
HandlerStarts(c) ==
  /\ sess[c].run = "spawned"
  /\ \/ /\ rooted /\ sess' = [sess EXCEPT ![c].run = "awaiting"] /\ js' = [js EXCEPT ![c] = TRUE]
     \/ /\ sess' = [sess EXCEPT ![c].run = "done", ![c].out = 0] /\ js' = js
  /\ UNCHANGED <<server, call, rooted, disposal, net, use>>

(* The promise of onRequest settles, awaited or not: with a response, or   *)
(* it rejects.                                                             *)
HandlerSettles(c) ==
  /\ js[c] /\ js' = [js EXCEPT ![c] = FALSE]
  /\ c \in use.selfClosing => call[c] = "returned"
  /\ IF sess[c].run # "awaiting" THEN sess' = sess
     ELSE \E out \in {IF Valid(r) THEN r.status ELSE 0 : r \in Responses} \cup {0} :
            sess' = [sess EXCEPT ![c].run = "done", ![c].out = out]
  /\ UNCHANGED <<server, call, rooted, disposal, net, use>>

(* The stop token ends the await; the promise lives on. *)
HandlerCancelled(c) ==
  /\ sess[c].run = "awaiting" /\ sess[c].told
  /\ sess' = [sess EXCEPT ![c].run = "done", ![c].out = 0]
  /\ UNCHANGED <<server, call, rooted, disposal, net, js, use>>

(* The deadline of one handler. *)
DeadlineExpires(c) ==
  /\ sess[c].timer = "armed" /\ sess' = [sess EXCEPT ![c].timer = "due"]
  /\ UNCHANGED <<server, call, rooted, disposal, net, js, use>>

DeadlineFires(c) ==
  LET fires == sess[c].run # "done"
  IN /\ sess[c].timer = "due"
     /\ sess' = [sess EXCEPT ![c].timer = "off", ![c].late = @ \/ fires, ![c].told = @ \/ fires]
     /\ UNCHANGED <<server, call, rooted, disposal, net, js, use>>

(* What run_handler returns, and the response made of it.  The handler's   *)
(* own answer does not count once the deadline has fired.                  *)
Outcome(s) == IF s.late THEN 504 ELSE IF s.out = 0 THEN 500 ELSE s.out

(* Mutant: an error response keeps the connection. *)
HandledKeeps(c) ==
  LET s == [sess[c] EXCEPT !.timer = "off", !.run = "none", !.told = FALSE]
  IN /\ s.at = "handling" /\ sess[c].run = "done"
     /\ IF StopRequested(s) \/ phase # "Listening" THEN Leave(c, s)
        ELSE Write(c, s, Outcome(s), FALSE)
     /\ UNCHANGED <<loop, accepted, stopped, rooted, disposal, net, js, use>>

(* The session resumes, and writes the response unless the server closes. *)
Handled(c) ==
  LET s == [sess[c] EXCEPT !.timer = "off", !.run = "none", !.told = FALSE]
  IN /\ s.at = "handling" /\ sess[c].run = "done"
     /\ IF StopRequested(s) \/ phase # "Listening" THEN Leave(c, s)
        ELSE Write(c, s, Outcome(s), s.late \/ s.out = 0)
     /\ UNCHANGED <<loop, accepted, stopped, rooted, disposal, net, js, use>>

WriteCompletes(c) ==
  LET s == sess[c]
  IN /\ s.at = "writing"
     /\ \/ /\ s.open /\ net[c].open
           /\ net' = [net EXCEPT ![c].reply = Append(@, <<s.n, s.status>>)]
           /\ IF s.keep THEN Loop(c, s) ELSE Leave(c, s)
        \/ net' = net /\ Leave(c, s)
     /\ UNCHANGED <<loop, accepted, stopped, rooted, disposal, js, use>>

-----------------------------------------------------------------------------
(* The clients. *)
Sends(c) ==
  /\ net[c].open /\ net[c].asked < Len(use.sends[c])
  /\ net' = [net EXCEPT ![c].sent = Append(@, use.sends[c][net[c].asked + 1]),
                        ![c].asked = @ + 1]
  /\ UNCHANGED <<server, sess, call, rooted, disposal, js, use>>

Disconnects(c) ==
  /\ c \in use.leaves /\ net[c].open /\ net' = [net EXCEPT ![c].open = FALSE]
  /\ UNCHANGED <<server, sess, call, rooted, disposal, js, use>>

-----------------------------------------------------------------------------
(* close of modules/http.cpp: async_close, then drop_on_request. *)
CloseCalled(k) ==
  /\ call[k] = "free" /\ disposal = "held" 
  /\ k \in use.closers \/ (k \in use.selfClosing /\ js[k])
  /\ BeginClose(children)
  /\ loop' = loop /\ accepted' = accepted /\ children' = children
  /\ call' = [call EXCEPT ![k] = IF phase' = "Closed" THEN "returned" ELSE "waiting"]
  /\ rooted' = (rooted /\ phase' # "Closed")
  /\ UNCHANGED <<disposal, net, js, use>>

CloseResumes(k) ==
  /\ call[k] = "ready"
  /\ phase' = Finalized(phase, children)
  /\ call' = [call EXCEPT ![k] = IF phase' = "Closed" THEN "returned" ELSE "waiting"]
  /\ rooted' = (rooted /\ phase' # "Closed")
  /\ UNCHANGED <<loop, accepted, children, stopped, sess, disposal, net, js, use>>

(* The JS object is collected: the finalizer releases on_request.  Without *)
(* a frame that shares it the native dies too, and posts dispose.          *)
Finalize ==
  /\ use.lost /\ disposal = "held" /\ disposal' = "finalized" /\ rooted' = FALSE
  /\ UNCHANGED <<server, sess, call, net, js, use>>

Dispose ==
  /\ disposal = "finalized" /\ disposal' = "posted"
  /\ \A k \in Callers : call[k] \notin {"waiting", "ready"}
  /\ \A c \in Conns : sess[c].run # "awaiting"
  /\ UNCHANGED <<server, sess, call, rooted, net, js, use>>

DisposeRuns ==
  /\ disposal = "posted" /\ disposal' = "run"
  /\ BeginClose(children)
  /\ UNCHANGED <<loop, accepted, children, call, rooted, net, js, use>>

-----------------------------------------------------------------------------
LoopRuns == LoopStarts \/ (stopped /\ AcceptCompletes) \/ Accepts
SessionRuns(c) ==
  SessionStarts(c) \/ ReadCompletes(c) \/ ReadDone(c) \/ Handled(c) \/ WriteCompletes(c)
HandlerRuns(c) == HandlerStarts(c) \/ HandlerCancelled(c)

Next ==
  \/ Listen \/ LoopStarts \/ AcceptCompletes \/ Accepts
  \/ \E c \in Conns :
       \/ SessionRuns(c) \/ HandlerRuns(c) \/ HandlerSettles(c)
       \/ DeadlineExpires(c) \/ DeadlineFires(c) \/ Sends(c) \/ Disconnects(c)
  \/ \E k \in Callers : CloseCalled(k) \/ CloseResumes(k)
  \/ Finalize \/ Dispose \/ DisposeRuns

(* The executor runs what is queued, reads and writes have a timeout; no   *)
(* promise of JS need ever settle, no client need ever send or read.       *)
Fairness ==
  /\ WF_vars(LoopRuns) /\ WF_vars(Dispose) /\ WF_vars(DisposeRuns)
  /\ \A c \in Conns : /\ WF_vars(SessionRuns(c)) /\ WF_vars(HandlerRuns(c))
                      /\ WF_vars(DeadlineFires(c))
  /\ \A k \in Callers : WF_vars(CloseResumes(k))

Spec == Init /\ [][Next]_vars /\ Fairness

-----------------------------------------------------------------------------
Live == {c \in Conns : Alive(sess[c])} \cup (IF loop \in {"none", "done"} THEN {} ELSE {"loop"})

(* child_count is the accept loop and the sessions: nothing is counted     *)
(* twice or given back twice, on any path that ends one of them.           *)
ChildCountExact == children = Cardinality(Live)

(* A connection gets at most one response per request read, in the order   *)
(* of the requests, and nothing after one that is not the handler's own:   *)
(* a request whose handler ran late or whose response is invalid leaves    *)
(* the session no way to go on.                                            *)
RepliesMatch ==
  \A c \in Conns : LET r == net[c].reply IN
    /\ \A i \in DOMAIN r : r[i][1] = i /\ (i < sess[c].n => r[i][2] \notin Errors)
    /\ Len(r) <= sess[c].n /\ sess[c].n <= Len(r) + 1

Barrier == INSTANCE CloseBarrier WITH
  Work <- Conns \cup {"loop"},
  phase <- CASE phase \in {"Created", "Listening"} -> "open"
             [] phase = "Closing" -> "closing" [] OTHER -> "closed",
  live <- Live,
  asked <- {k \in Callers : call[k] # "free"},
  done <- {k \in Callers : call[k] = "returned"}

(* server.hpp: "Concurrent callers join the same drain barrier.  Does not  *)
(* return until the accept loop has exited and all sessions (including     *)
(* pending handlers) have drained and phase is Closed": the server is a    *)
(* resource with a close barrier over its loop and its sessions.           *)
JoinsBarrier == Barrier!Safety

(* Every close returns, also to a handler that awaits the close of its own *)
(* server, and although no promise of JS need ever settle.                 *)
CloseEnds == Barrier!Liveness

=============================================================================
