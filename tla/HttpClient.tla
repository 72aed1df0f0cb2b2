----------------------------- MODULE HttpClient -----------------------------
(***************************************************************************)
(* request() of vacps:http (src/http/client.cpp): a pooled HTTP client on  *)
(* one executor.  A request goes through its phases one after the other;   *)
(* each phase is one asynchronous operation bound to one cancellation      *)
(* signal, which a deadline timer and the stop of the runtime emit.  The   *)
(* signal is an edge: what finds no operation in progress is lost, so stop *)
(* and deadline are looked at before each operation.  A message is written *)
(* and read in parts, and an edge between two of them is lost as well:     *)
(* the operations of Beast do not look at the signal before the next part. *)
(*                                                                         *)
(* A connection has the number of the request that opened it, a response   *)
(* that of the request it answers.  Servers answer what they were sent, in *)
(* order, or not at all.                                                   *)
(***************************************************************************)
EXTENDS Integers, Sequences, FiniteSets, SequencesExt

CONSTANTS
  Origins,     \* OriginKey: scheme, host and port
  Global,      \* the gate of all requests
  MaxIdle,     \* Client::Options::max_idle_connections
  MaxRequests, \* bound: requests of a script
  ClientUses   \* what the script and the servers do: see ClientUse

(* A request goes to an origin; what is wrong with it: an unknown method   *)
(* or a header the client owns, or its URL.                                *)
Ask == [origin : Origins, fault : {"none", "options", "url"}]
(* Responses are final and keep the connection, close it, exceed           *)
(* maxResponseBytes, or are informational.                                 *)
ResponseKinds == {"keep", "close", "big", "info"}
(* perOrigin and active: max_connections_per_origin, max_active_connections. *)
(* tls: the origins with https.  ca: is there a CA bundle.  parts: do      *)
(* messages take more than one operation of the socket.                    *)
ClientUse == [asks : Seq(Ask), answers : SUBSET ResponseKinds, breaks : BOOLEAN, stops : BOOLEAN,
              ages : BOOLEAN, parts : BOOLEAN, tls : SUBSET Origins, ca : BOOLEAN, perOrigin : Nat, active : Nat]

(* What the constants are assumed to be ("Options fields are positive").   *)
ClientConstantsOK ==
  /\ Global \notin Origins /\ MaxIdle \in Nat \ {0} /\ MaxRequests \in Nat
  /\ ClientUses \subseteq ClientUse
  /\ \A u \in ClientUses : Len(u.asks) <= MaxRequests /\ u.perOrigin > 0 /\ u.active > 0

VARIABLES
  req,     \* the requests: phase, event of its operation, the phase in which it has
           \* missed an edge, permits, connection, response
  edges,   \* emissions of the signal that are still to come
  late,    \* requests whose deadline has passed
  gate,    \* the permits taken and the requests that wait for one
  pools,   \* requests that use the pool of an origin, or NoPool
  idle,    \* the idle connections of all pools, idle_connections_, and the clock:
           \* idle_since, now, and the last idle_since that is past idle_timeout
  conns,   \* the connections
  clientStop, clientUse

clientVars == <<req, edges, late, gate, pools, idle, conns, clientStop, clientUse>>

Requests == 1 .. Len(clientUse.asks)
Gates == Origins \cup {Global}
Origin(r) == clientUse.asks[r].origin
NoPool == -1
NoConn == 0
Capacity(g) == IF g = Global THEN clientUse.active ELSE clientUse.perOrigin

ClientInit ==
  /\ clientUse \in ClientUses
  /\ req = [r \in Requests |-> [at |-> "free", ev |-> "none", missed |-> "none", holds |-> {},
              conn |-> NoConn, got |-> [req |-> 0, kind |-> "none"], out |-> "none"]]
  /\ edges = [r \in Requests |-> {}] /\ late = {}
  /\ gate = [g \in Gates |-> [taken |-> 0, queue |-> <<>>]]
  /\ pools = [o \in Origins |-> NoPool]
  /\ idle = [kept |-> {}, count |-> 0, since |-> [r \in Requests |-> 0], now |-> 0, past |-> 0]
  /\ conns = [r \in Requests |-> [sent |-> <<>>, back |-> <<>>, told |-> FALSE, open |-> FALSE]]
  /\ clientStop = FALSE

Active(r) == req[r].at \notin {"free", "done"}

-----------------------------------------------------------------------------
(* A gate is a channel: async_send takes a permit or waits, try_receive    *)
(* gives it back, and with it lets in who waits longest.                   *)
Takes(r, g, r0) ==
  IF gate[g].taken < Capacity(g)
  THEN /\ gate' = [gate EXCEPT ![g].taken = @ + 1]
       /\ req' = [req EXCEPT ![r] = [r0 EXCEPT !.ev = "ok", !.holds = @ \cup {g}]]
  ELSE /\ gate' = [gate EXCEPT ![g].queue = Append(@, r)]
       /\ req' = [req EXCEPT ![r] = [r0 EXCEPT !.ev = "pending"]]

GivenBack(gs) ==
  [g \in Gates |->
     IF g \notin gs THEN gate[g]
     ELSE IF gate[g].queue = <<>> THEN [gate[g] EXCEPT !.taken = @ - 1]
     ELSE [gate[g] EXCEPT !.queue = Tail(@)]]
LetIn(x, gs) ==
  LET won == {g \in gs : gate[g].queue # <<>> /\ Head(gate[g].queue) = x}
  IN  IF won = {} THEN req[x] ELSE [req[x] EXCEPT !.ev = "ok", !.holds = @ \cup won]

(* Who waits no more leaves the queue. *)
Without(queue, r) ==
  IF \E k \in DOMAIN queue : queue[k] = r
  THEN RemoveAt(queue, CHOOSE k \in DOMAIN queue : queue[k] = r)
  ELSE queue

-----------------------------------------------------------------------------
(* An idle connection expires once it was released too long ago. *)
OfPool(o) == {c \in idle.kept : Origin(c) = o}
Fresh(c) == idle.since[c] > idle.past
Newest(S) == CHOOSE c \in S : \A d \in S : idle.since[d] <= idle.since[c]
Oldest(S) == CHOOSE c \in S : \A d \in S : idle.since[c] <= idle.since[d]

(* take_idle: the connection the pool got last; those that expired go.     *)
Taken(o) ==
  LET newest == Newest(OfPool(o))
      found == OfPool(o) # {} /\ Fresh(newest)
      gone == IF found THEN {newest} ELSE OfPool(o)
  IN  [conn |-> IF found THEN newest ELSE NoConn,
       store |-> [idle EXCEPT !.kept = @ \ gone, !.count = @ - Cardinality(gone)]]

(* Mutant: a full client drops its oldest connection and counts it on. *)
ForgetsCount(c) ==
  LET pruned == IF idle.count < MaxIdle THEN idle.kept ELSE {d \in idle.kept : Fresh(d)}
      left == idle.count - Cardinality(idle.kept \ pruned)
      room == IF left < MaxIdle THEN pruned ELSE pruned \ {Oldest(pruned)}
  IN  [idle EXCEPT !.kept = room \cup {c}, !.count = left + 1,
                   !.since[c] = idle.now + 1, !.now = @ + 1]

(* release: prune_expired_idle, then evict_oldest_idle, make room. *)
Released(c) ==
  LET pruned == IF idle.count < MaxIdle THEN idle.kept ELSE {d \in idle.kept : Fresh(d)}
      left == idle.count - Cardinality(idle.kept \ pruned)
      room == IF left < MaxIdle THEN pruned ELSE pruned \ {Oldest(pruned)}
  IN  [idle EXCEPT !.kept = room \cup {c}, !.count = left - Cardinality(pruned \ room) + 1,
                   !.since[c] = idle.now + 1, !.now = @ + 1]

(* A connection that nobody keeps is closed. *)
Closed(gone) ==
  [c \in Requests |-> IF c \in gone THEN [conns[c] EXCEPT !.open = FALSE] ELSE conns[c]]

(* Pools that nobody uses and that keep no connection are erased. *)
Swept(users, kept) ==
  [o \in Origins |-> IF users[o] \in {0, NoPool} /\ \A c \in kept : Origin(c) # o
                     THEN NoPool ELSE users[o]]

(* The frame of a request ends: the leases give back connection, permits   *)
(* and pool; timer and stop callback go.                                   *)
RequestEnds(r, r0, store, out) ==
  /\ idle' = store /\ conns' = Closed((idle.kept \cup {r0.conn}) \ store.kept)
  /\ gate' = GivenBack(r0.holds)
  /\ pools' = Swept([pools EXCEPT ![Origin(r)] = @ - 1], store.kept)
  /\ req' = [x \in Requests |->
               IF x = r THEN [r0 EXCEPT !.at = "done", !.ev = "none", !.holds = {}, !.out = out]
               ELSE LetIn(x, r0.holds)]
  /\ edges' = [edges EXCEPT ![r] = {}]

(* phase_error for an operation that the signal ended, else io_error. *)
Reason(r) == IF clientStop THEN "cancelled" ELSE IF r \in late THEN "timeout" ELSE "cancelled"

(* Mutant: operations start without a look at stop and deadline. *)
NeverStopped(r) == FALSE

(* stop_before_operation *)
Stopped(r) == clientStop \/ r \in late

(* The next operation of a request begins, or the request ends before it.  *)
PhaseBegins(r, phase, r0, store) ==
  IF Stopped(r) THEN RequestEnds(r, r0, store, Reason(r))
  ELSE /\ idle' = store /\ conns' = Closed(idle.kept \ (store.kept \cup {r0.conn}))
       /\ UNCHANGED <<edges, pools>>
       /\ IF phase \in {"origin", "global"}
          THEN Takes(r, IF phase = "global" THEN Global ELSE Origin(r), [r0 EXCEPT !.at = phase])
          ELSE /\ req' = [req EXCEPT ![r] = [r0 EXCEPT !.at = phase, !.ev = "pending"]]
               /\ UNCHANGED gate

-----------------------------------------------------------------------------
(* The checks of Client::request on method and headers, of parse_url, of   *)
(* ensure_tls_context and resolve_ca_bundle.                               *)
OptionsRefused(r) == clientUse.asks[r].fault = "options"
UrlRefused(r) == clientUse.asks[r].fault = "url"
CaMissing == ~clientUse.ca
TlsRefused(r) == Origin(r) \in clientUse.tls /\ CaMissing

(* Client::request: its checks, the pool of the origin, the timer, the     *)
(* stop callback, and the first gate.                                      *)
RequestCalled(r) ==
  /\ req[r].at = "free" /\ \A q \in 1 .. r - 1 : req[q].at # "free"
  /\ IF OptionsRefused(r) \/ clientStop \/ UrlRefused(r)
     THEN /\ req' = [req EXCEPT ![r].at = "done",
                                ![r].out = IF clientStop /\ ~OptionsRefused(r) THEN "cancelled" ELSE "refused"]
          /\ UNCHANGED <<edges, gate, pools>>
     ELSE /\ pools' = [pools EXCEPT ![Origin(r)] = IF @ = NoPool THEN 1 ELSE @ + 1]
          /\ edges' = [edges EXCEPT ![r] = {"deadline"}]
          /\ Takes(r, Origin(r), [req[r] EXCEPT !.at = "origin"])
  /\ UNCHANGED <<late, idle, conns, clientStop, clientUse>>

Unmoved == UNCHANGED <<late, clientStop, clientUse>>
PhaseDone(r, phase) == req[r].at = phase /\ req[r].ev = "ok" /\ Unmoved

(* Mutant: the connection of an operation that was cancelled goes back. *)
KeepsCancelled(r) ==
  /\ Active(r) /\ req[r].ev \in {"aborted", "failed"} /\ Unmoved
  /\ RequestEnds(r, req[r], IF req[r].at = "read" THEN Released(req[r].conn) ELSE idle,
                 IF req[r].ev = "aborted" THEN Reason(r) ELSE "failed")

OperationFailed(r) ==
  /\ Active(r) /\ req[r].ev \in {"aborted", "failed"} /\ Unmoved
  /\ RequestEnds(r, req[r], idle, IF req[r].ev = "aborted" THEN Reason(r) ELSE "failed")

HasOrigin(r) == PhaseDone(r, "origin") /\ PhaseBegins(r, "global", req[r], idle)

(* Both permits are held: an idle connection, or a new one. *)
HasGlobal(r) ==
  /\ PhaseDone(r, "global")
  /\ LET t == Taken(Origin(r)) IN
     IF t.conn = NoConn /\ TlsRefused(r) THEN RequestEnds(r, req[r], t.store, "failed")
     ELSE PhaseBegins(r, IF t.conn = NoConn THEN "resolve" ELSE "write",
                      [req[r] EXCEPT !.conn = t.conn], t.store)

(* Client::connect: resolve, connect, and for https the handshake. *)
IsResolved(r) == PhaseDone(r, "resolve") /\ PhaseBegins(r, "connect", [req[r] EXCEPT !.conn = r], idle)
IsConnected(r) ==
  PhaseDone(r, "connect") /\ PhaseBegins(r, IF Origin(r) \in clientUse.tls THEN "tls" ELSE "write", req[r], idle)
IsSecured(r) == PhaseDone(r, "tls") /\ PhaseBegins(r, "write", req[r], idle)

(* Client::exchange, exchange_stream *)
IsWritten(r) == PhaseDone(r, "write") /\ PhaseBegins(r, "read", req[r], idle)

(* A response that is informational is skipped, one that is too large is   *)
(* an error; a final one ends the request and may keep the connection.     *)
IsRead(r) ==
  /\ PhaseDone(r, "read")
  /\ LET kind == req[r].got.kind IN
     \/ kind = "info" /\ PhaseBegins(r, "read", req[r], idle)
     \/ kind = "big" /\ RequestEnds(r, req[r], idle, "failed")
     \/ kind = "close" /\ RequestEnds(r, req[r], idle, "ok")
     \/ kind = "keep" /\ RequestEnds(r, req[r], Released(req[r].conn), "ok")

-----------------------------------------------------------------------------
(* The deadline passes; its timer runs, or the callback of the stop: the   *)
(* edge ends the operation in progress, but not a lookup of a name, which  *)
(* nothing cancels, nor a message of which a part has completed while its  *)
(* handler, which begins the next part, is queued (between).               *)
DeadlinePasses(r) ==
  /\ Active(r) /\ r \notin late /\ late' = late \cup {r}
  /\ UNCHANGED <<req, edges, gate, pools, idle, conns, clientStop, clientUse>>

Emits(r, e) ==
  /\ e \in edges[r] /\ (e = "deadline" => r \in late)
  /\ edges' = [edges EXCEPT ![r] = @ \ {e}]
  /\ IF req[r].ev = "pending" /\ req[r].at # "resolve"
     THEN /\ req' = [req EXCEPT ![r].ev = "aborted"]
          /\ gate' = [g \in Gates |-> [gate[g] EXCEPT !.queue = Without(@, r)]]
     ELSE /\ req' = IF req[r].ev = "between" THEN [req EXCEPT ![r].missed = req[r].at] ELSE req
          /\ UNCHANGED gate
  /\ UNCHANGED <<late, pools, idle, conns, clientStop, clientUse>>

ClientStops ==
  /\ clientUse.stops /\ ~clientStop /\ clientStop' = TRUE
  /\ edges' = [r \in Requests |-> IF Active(r) THEN edges[r] \cup {"stop"} ELSE edges[r]]
  /\ UNCHANGED <<req, late, gate, pools, idle, conns, clientUse>>

(* A lookup, a connect, a handshake completes. *)
OperationCompletes(r) ==
  /\ req[r].at \in {"resolve", "connect", "tls"} /\ req[r].ev = "pending"
  /\ \/ /\ req' = [req EXCEPT ![r].ev = "ok"]
        /\ conns' = IF req[r].at = "connect" THEN [conns EXCEPT ![r].open = TRUE] ELSE conns
     \/ clientUse.breaks /\ req' = [req EXCEPT ![r].ev = "failed"] /\ UNCHANGED conns
  /\ UNCHANGED <<edges, late, gate, pools, idle, clientStop, clientUse>>

(* A part of a message is written or read, and the next one begins. *)
PartCompletes(r) ==
  /\ clientUse.parts /\ req[r].at \in {"write", "read"} /\ req[r].ev = "pending"
  /\ LET c == conns[req[r].conn] IN c.open \/ c.back # <<>>
  /\ req' = [req EXCEPT ![r].ev = "between"]
  /\ UNCHANGED <<edges, late, gate, pools, idle, conns, clientStop, clientUse>>
PartResumes(r) ==
  /\ req[r].ev = "between" /\ req' = [req EXCEPT ![r].ev = "pending"]
  /\ UNCHANGED <<edges, late, gate, pools, idle, conns, clientStop, clientUse>>

WriteCompletes(r) ==
  /\ req[r].at = "write" /\ req[r].ev = "pending"
  /\ IF conns[req[r].conn].open
     THEN req' = [req EXCEPT ![r].ev = "ok"] /\ conns' = [conns EXCEPT ![req[r].conn].sent = Append(@, r)]
     ELSE req' = [req EXCEPT ![r].ev = "failed"] /\ UNCHANGED conns
  /\ UNCHANGED <<edges, late, gate, pools, idle, clientStop, clientUse>>

ReadCompletes(r) ==
  /\ req[r].at = "read" /\ req[r].ev = "pending"
  /\ LET c == req[r].conn IN
     IF conns[c].back # <<>>
     THEN /\ req' = [req EXCEPT ![r].ev = "ok", ![r].got = Head(conns[c].back)]
          /\ conns' = [conns EXCEPT ![c].back = Tail(@)]
     ELSE ~conns[c].open /\ req' = [req EXCEPT ![r].ev = "failed"] /\ UNCHANGED conns
  /\ UNCHANGED <<edges, late, gate, pools, idle, clientStop, clientUse>>

(* A server answers the oldest request it was sent, or hangs up. *)
ServerAnswers(c) ==
  /\ conns[c].open /\ conns[c].sent # <<>>
  /\ \E kind \in clientUse.answers :
       /\ kind = "info" => ~conns[c].told
       /\ conns' = [conns EXCEPT ![c].back = Append(@, [req |-> Head(conns[c].sent), kind |-> kind]),
                               ![c].sent = IF kind = "info" THEN @ ELSE Tail(@),
                               ![c].told = kind = "info", ![c].open = kind # "close"]
  /\ UNCHANGED <<req, edges, late, gate, pools, idle, clientStop, clientUse>>

ServerHangsUp(c) ==
  /\ clientUse.breaks /\ conns[c].open /\ conns' = [conns EXCEPT ![c].open = FALSE]
  /\ UNCHANGED <<req, edges, late, gate, pools, idle, clientStop, clientUse>>

(* The oldest idle connection that was fresh outlives idle_timeout. *)
GoesStale ==
  /\ clientUse.ages
  /\ LET fresh == {c \in idle.kept : Fresh(c)} IN
       fresh # {} /\ idle' = [idle EXCEPT !.past = idle.since[Oldest(fresh)]]
  /\ UNCHANGED <<req, edges, late, gate, pools, conns, clientStop, clientUse>>

RequestResumes(r) ==
  \/ OperationFailed(r) \/ HasOrigin(r) \/ HasGlobal(r) \/ IsResolved(r)
  \/ IsConnected(r) \/ IsSecured(r) \/ PartResumes(r) \/ IsWritten(r) \/ IsRead(r)

ClientNext ==
  \/ \E r \in Requests :
       \/ RequestCalled(r) \/ RequestResumes(r) \/ DeadlinePasses(r)
       \/ (\E e \in {"deadline", "stop"} : Emits(r, e))
       \/ OperationCompletes(r) \/ PartCompletes(r) \/ WriteCompletes(r) \/ ReadCompletes(r)
       \/ ServerAnswers(r) \/ ServerHangsUp(r)
  \/ ClientStops \/ GoesStale

(* The executor runs, time passes, and a lookup ends some time; no server  *)
(* need ever answer.                                                       *)
ClientFairness ==
  \A r \in 1 .. MaxRequests :
    /\ WF_clientVars(r \in Requests /\ RequestResumes(r)) /\ WF_clientVars(r \in Requests /\ DeadlinePasses(r))
    /\ WF_clientVars(r \in Requests /\ \E e \in {"deadline", "stop"} : Emits(r, e))
    /\ WF_clientVars(r \in Requests /\ req[r].at = "resolve" /\ OperationCompletes(r))

ClientSpec == ClientInit /\ [][ClientNext]_clientVars /\ ClientFairness

-----------------------------------------------------------------------------
(* client.hpp: "One physical connection serves at most one request at a    *)
(* time.  Each origin and the client as a whole have fixed active-         *)
(* connection limits; retained idle descriptors also have a global bound." *)
(* No permit is lost or given twice on any path that ends a request, none  *)
(* is free while a request waits for it, idle_connections_ is exact, and a *)
(* pool is there exactly while it is used or keeps a connection.           *)
LimitsHold ==
  /\ \A g \in Gates :
       /\ gate[g].taken = Cardinality({r \in Requests : g \in req[r].holds})
       /\ gate[g].taken <= Capacity(g) /\ (gate[g].queue # <<>> => gate[g].taken = Capacity(g))
       /\ \A k \in DOMAIN gate[g].queue : req[gate[g].queue[k]].ev = "pending"
  /\ idle.count = Cardinality(idle.kept) /\ idle.count <= MaxIdle
  /\ \A r \in Requests : Active(r) /\ req[r].conn # NoConn =>
       /\ \A q \in Requests \ {r} : Active(q) => req[q].conn # req[r].conn
       /\ req[r].conn \notin idle.kept /\ Origin(req[r].conn) = Origin(r)
  /\ \A o \in Origins :
       LET users == Cardinality({r \in Requests : Active(r) /\ Origin(r) = o})
       IN  pools[o] = IF users = 0 /\ OfPool(o) = {} THEN NoPool ELSE users

(* A request gets the answer to itself and to no other, although answers   *)
(* to cancelled requests may still come; it times out only after its       *)
(* deadline and is cancelled only by a stop.                               *)
OutcomesTrue ==
  \A r \in Requests :
    /\ req[r].out = "ok" => req[r].got.req = r /\ req[r].got.kind # "info"
    /\ req[r].out = "timeout" => r \in late
    /\ req[r].out = "cancelled" => clientStop

(* "One absolute wall budget for pool wait and every I/O phase": a request *)
(* ends whatever the server does, once a lookup it waits for has ended,    *)
(* but for one whose deadline or stop has come between two parts of the    *)
(* message it is still writing or reading: that edge is lost, and then the *)
(* end is up to the server.                                                *)
Missed(r) == req[r].missed = req[r].at
RequestsEnd == <>[](\A r \in Requests : ~Active(r) \/ Missed(r))
=============================================================================
