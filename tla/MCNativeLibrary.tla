--------------------------- MODULE MCNativeLibrary ---------------------------
(***************************************************************************)
(* Finite instances of UrlSearch, Store, NativeHost, HttpClient,           *)
(* FileHandle, TextDecoder and SqlValues for TLC, explored side by side in *)
(* one run: `part' names the component that moves in a behaviour, the      *)
(* others stay in one of their initial states.                             *)
(***************************************************************************)
EXTENDS Store, SqlValues, UrlSearch, HttpClient, NativeHost, FileHandle, TLC

CONSTANTS Parts, a, b, h1, h2, k1, k2, s1

VARIABLES
  part,
  bom, remainder, fed, out, failed, ended, used, n, dUse          \* TextDecoder

decoder == <<bom, remainder, fed, out, failed, ended, used, n, dUse>>

-----------------------------------------------------------------------------
(* What the script and the servers do with the HTTP client. *)
To(o) == [origin |-> o, fault |-> "none"]
Fetched(asks, answers, breaks, stops, ages) ==
  [asks |-> asks, answers |-> answers, breaks |-> breaks, stops |-> stops, ages |-> ages, parts |-> FALSE,
   tls |-> {}, ca |-> TRUE, perOrigin |-> 1, active |-> 1]

(* Two requests to one origin share its only permit; messages come in      *)
(* parts.                                                                  *)
Shared == [Fetched(<<To(a), To(a)>>, {"keep", "info"}, TRUE, FALSE, FALSE) EXCEPT !.parts = TRUE]
(* More origins than idle connections may be kept. *)
Full == Fetched(<<To(a), To(b), To(a)>>, {"keep"}, FALSE, FALSE, TRUE)
(* Every kind of answer, in parts as well, a handshake and a stop. *)
Kind == [Fetched(<<To(a), To(b)>>, {"close", "big", "keep"}, FALSE, TRUE, FALSE)
           EXCEPT !.tls = {a}, !.parts = TRUE]
(* Requests that are refused, at their call or once they hold their permits. *)
Faulty(fault) == [origin |-> b, fault |-> fault]
Faulted == [Fetched(<<To(b), Faulty("options"), Faulty("url")>>, {"keep"}, FALSE, TRUE, FALSE)
              EXCEPT !.tls = {b}, !.ca = FALSE]
(* Two at a time to one origin, while a third waits for the client. *)
Parallel == [Fetched(<<To(a), To(a), To(b)>>, {"keep"}, FALSE, FALSE, FALSE)
               EXCEPT !.perOrigin = 2, !.active = 2]

FetchUses == {Shared, Full, Kind, Faulted, Parallel}

ASSUME ClientConstantsOK

-----------------------------------------------------------------------------
(* What scripts do with a file. *)
Do(method, at, size) == [op |-> method, at |-> at, n |-> size]
OnFile(asio, mode, size, calledFor) ==
  [asio |-> asio, mode |-> mode, size |-> size, calls |-> calledFor, openFaults |-> {},
   ioFaults |-> FALSE, outside |-> 0, stops |-> TRUE]

(* Writes and reads of one stream, with a truncate or a writeAt in between. *)
Streams == {<<Do("write", 0, 2), Do("read", 0, 1), Do("writeAt", 0, 1), Do("read", 0, 1)>>,
            <<Do("read", 0, 1), Do("truncate", 0, 0), Do("write", 0, 1), Do("close", 0, 0)>>,
            <<Do("read", 0, Default), Do("close", 0, 0), Do("read", 0, 1), Do("close", 0, 0)>>}
(* The edges of a file: at the largest offset, nothing to move, too much asked for. *)
Edges == {<<Do("writeAt", 3, 1), Do("readAt", 3, 2), Do("truncate", 4, 0), Do("flush", 0, 0)>>,
          <<Do("read", 0, 4), Do("write", 0, 0), Do("stat", 0, 0), Do("write", 0, 3)>>}

StreamUses(asio) == {[OnFile(asio, "read-write", 2, s) EXCEPT !.ioFaults = TRUE] : s \in Streams}
EdgeUses(asio) == {OnFile(asio, "read-write", 1, s) : s \in Edges}
OpenUses(asio) ==
  {[OnFile(asio, mode, size, <<Do("write", 0, 1), Do("read", 0, 1)>>)
      EXCEPT !.openFaults = {"dup", "state", "assign", "alloc"}] :
     mode \in Modes, size \in {Default, 1}}
AppendUses(asio) ==
  {[OnFile(asio, "append-read", 1, <<Do("write", 0, 1), Do("writeAt", 0, 1), Do("read", 0, 1)>>)
      EXCEPT !.outside = 1]}
OnDisk ==
  UNION {StreamUses(asio) \cup EdgeUses(asio) \cup OpenUses(asio) \cup AppendUses(asio) : asio \in BOOLEAN}

ASSUME FileConstantsOK

-----------------------------------------------------------------------------
(* What scripts, other processes and the system do with a store. *)
Always == [rel |-> "any", n |-> 0]
Want(rel, size) == [rel |-> rel, n |-> size]
Stmt(kind, key) == [kind |-> kind, key |-> key, n |-> 0, want |-> Always]
Finds(size, max) == [kind |-> "read", key |-> k1, n |-> size, want |-> Want("atMost", max)]
Expects(s, rel, size) == [s EXCEPT !.want = Want(rel, size)]
On(h, method, stmts) == [handle |-> h, op |-> method, steps |-> stmts]
Stored(asks) == [calls |-> asks, busy |-> TRUE, stops |-> TRUE, crashes |-> TRUE, opens |-> FALSE]

Both == <<Stmt("put", k1), Stmt("put", k2)>>
(* Two handles on one file, each with a transaction, and a script between. *)
Rivals == Stored(<<On(h1, "transaction", Both), On(h2, "transaction", Both),
                   On(h1, "exec", Both), On(h2, "close", <<>>)>>)
(* A writer waits as long as it takes for a transaction that may fail. *)
Waits == {[Stored(<<On(h1, "transaction", <<Stmt("put", k1), last>>), On(h2, "run", <<Stmt("put", k1)>>),
                    On(h2, "query", <<Finds(2, 1)>>), On(h2, "run", <<Stmt("miss", k1)>>)>>)
            EXCEPT !.busy = FALSE, !.crashes = FALSE] : last \in {Stmt("put", k2), Stmt("fail", k2)}}
(* A claim that expects to change one row, in its several outcomes. *)
Claims == {Stored(<<On(h1, "transaction", <<Stmt("put", k1), last>>), On(h1, "transaction", <<last, Stmt("put", k2)>>),
                    On(h2, "run", <<Stmt("put", k2)>>)>>) :
             last \in {Expects(Stmt("put", k2), "exactly", 1), Expects(Stmt("miss", k2), "exactly", 1),
                       Expects(Stmt("miss", k2), "atLeast", 1), Expects(Stmt("put", k1), "atMost", 0),
                       Expects(Stmt("other", k1), "exactly", 1),
                       Stmt("fail", k2), Stmt("defer", k2), Finds(1, 1), Finds(2, 1)}}
Closes == [Stored(<<On(h1, "exec", <<Stmt("put", k1), Stmt("fail", k1), Stmt("put", k2)>>), On(h1, "close", <<>>),
                    On(h1, "run", <<Stmt("put", k2)>>), On(h1, "close", <<>>)>>) EXCEPT !.opens = TRUE]

StoreUses == {Rivals, Closes} \cup Waits \cup Claims

ASSUME StoreConstantsOK

-----------------------------------------------------------------------------
(* Decoders of each encoding, fatal and not; bytes that begin, continue and *)
(* break characters, and those of the byte order marks.                    *)
Made(encoding, fatal, ignoreBOM) == [encoding |-> encoding, fatal |-> fatal, ignoreBOM |-> ignoreBOM]
DecoderUses == {Made("utf-8", FALSE, FALSE), Made("utf-8", TRUE, TRUE),
                Made("utf-16le", FALSE, FALSE), Made("utf-16be", TRUE, FALSE)}
BytesOf == [e \in {"utf-8", "utf-16le", "utf-16be"} |->
              IF e = "utf-8" THEN {187, 191, 195, 239, 240} ELSE {65, 216, 220, 254, 255}]

Decoder == INSTANCE TextDecoder WITH
  Bytes <- BytesOf, MaxBytes <- 5, MaxChunk <- 3, MaxMessages <- 2, Uses <- DecoderUses, use <- dUse

-----------------------------------------------------------------------------
(* How the module of the agent and its exports end, and what they start. *)
Agent(e, i, s, c, o) ==
  [ends |-> [evaluation |-> e, initialize |-> i, shutdown |-> s, callback |-> c], ops |-> o, opens |-> TRUE]
AgentUses ==
  { Agent("soon", "soon", "ops", "never", {"sleep", "job"}),
    Agent("soon", "value", "never", "soon", {"job"}),
    Agent("soon", "ops", "soon", "throws", {"sleep"}),
    Agent("soon", "rejects", "soon", "value", {"sleep"}),
    Agent("soon", "never", "value", "ops", {"job"}),
    Agent("soon", "value", "value", "soon", {}),
    Agent("soon", "throws", "soon", "soon", {}),
    Agent("soon", "soon", "throws", "throws", {}),
    Agent("throws", "soon", "soon", "soon", {}),
    Agent("soon", "called", "called", "strands", {"sleep"}),
    Agent("soon", "called", "strands", "value", {}),
    Agent("soon", "strands", "soon", "soon", {"job"}),
    [Agent("soon", "soon", "soon", "soon", {}) EXCEPT !.opens = FALSE] }

ASSUME HostConstantsOK

-----------------------------------------------------------------------------
(* What scripts give to transaction(steps).  Doubles: beyond SafeMax + 1   *)
(* only the even integers are numbers.                                     *)
Wide == -(2 * IntMax + 4) .. 2 * IntMax + 4
Doubles == {i \in Wide : i \in -(SafeMax + 1) .. SafeMax + 1 \/ i % 2 = 0}
Offered ==
  {Js("number", i) : i \in Doubles} \cup {Js("bigint", i) : i \in Wide}
  \cup {Js("fraction", i) : i \in {-1, 0, 2}}
  \cup {Js(t, 0) : t \in {"undefined", "null", "boolean", "object", "nan", "infinite"}}
  \cup {Js(t, i) : t \in {"string", "bytes"}, i \in 0 .. 1}
One == Js("number", 1)
Sizes == {Js("undefined", 0), Js("fraction", 0)} \cup {Js("number", i) : i \in {-1, 1, SafeMax + 1}}

Texts == "insert" :> <<"a", "b">> @@ "join" :> <<"a", "a">>
SqlStep(text, type, params, expects, limits) ==
  [sql |-> text, type |-> type, params |-> params, expects |-> expects, limits |-> limits]
Simple(text, params) == SqlStep(text, "absent", params, {}, <<>>)

ValueSteps == {Simple(s, <<v>>) : s \in DOMAIN Texts, v \in Offered}
ShortSteps == {Simple(s, p) : s \in DOMAIN Texts \cup {"none"},
                 p \in {<<>>, <<One, One>>, <<One, Js("null", 0)>>, <<One, One, One>>}}
FieldSteps ==
  {SqlStep("insert", t, <<>>, e, l) : t \in {"absent", "run", "query", "other"},
     e \in {{}, {<<>>}} \cup {{"exactly" :> v} : v \in Sizes}
           \cup {{"exactly" :> One @@ "atMost" :> v} : v \in Sizes},
     l \in {<<>>} \cup {"maxRows" :> v : v \in Sizes} \cup {"maxBytes" :> v : v \in Sizes}}
SomeSteps == ValueSteps \cup ShortSteps
AllScripts ==
  {<<>>} \cup {<<s>> : s \in FieldSteps} \cup {<<s, t>> : s \in SomeSteps, t \in SomeSteps}

ASSUME SqlConstantsOK

-----------------------------------------------------------------------------
(* Whoever does not move starts in one state: a use for it is taken first. *)
MCInit ==
  /\ part \in Parts
  /\ IF part = "client" THEN TRUE ELSE clientUse = CHOOSE u \in ClientUses : TRUE
  /\ IF part = "files" THEN TRUE ELSE fileUse = CHOOSE u \in FileUses : TRUE
  /\ IF part = "store" THEN TRUE ELSE use = CHOOSE u \in StoreUses : TRUE
  /\ IF part = "decoder" THEN TRUE ELSE dUse = CHOOSE u \in DecoderUses : TRUE
  /\ IF part = "host" THEN TRUE ELSE hostUse = CHOOSE u \in AgentUses : TRUE
  /\ IF part = "sql" THEN TRUE ELSE asked = <<>>
  /\ UrlInit /\ Init /\ ClientInit /\ FileInit /\ Decoder!Init /\ HostInit /\ SqlInit

MCNext ==
  \/ part = "url" /\ UrlNext /\ UNCHANGED <<part, clientVars, fileVars, vars, decoder, hostVars, sqlVars>>
  \/ part = "client" /\ ClientNext /\ UNCHANGED <<part, urlVars, fileVars, vars, decoder, hostVars, sqlVars>>
  \/ part = "files" /\ FileNext /\ UNCHANGED <<part, urlVars, clientVars, vars, decoder, hostVars, sqlVars>>
  \/ part = "store" /\ Next /\ UNCHANGED <<part, urlVars, clientVars, fileVars, decoder, hostVars, sqlVars>>
  \/ part = "decoder" /\ Decoder!Next /\ UNCHANGED <<part, urlVars, clientVars, fileVars, vars, hostVars, sqlVars>>
  \/ part = "host" /\ HostNext /\ UNCHANGED <<part, urlVars, clientVars, fileVars, vars, decoder, sqlVars>>
  \/ part = "sql" /\ SqlNext /\ UNCHANGED <<part, urlVars, clientVars, fileVars, vars, decoder, hostVars>>

(* The fairness of each component, of which only the one that moves needs  *)
(* any: an idle host could start, the others are disabled when idle.       *)
Clients == part = "client"
FetchFairness ==
  \A r \in 1 .. MaxRequests :
    /\ WF_clientVars(Clients /\ r \in Requests /\ RequestResumes(r))
    /\ WF_clientVars(Clients /\ r \in Requests /\ DeadlinePasses(r))
    /\ WF_clientVars(Clients /\ r \in Requests /\ \E e \in {"deadline", "stop"} : Emits(r, e))
    /\ WF_clientVars(Clients /\ r \in Requests /\ req[r].at = "resolve" /\ OperationCompletes(r))

OnFiles == part = "files"
DiskFairness ==
  /\ WF_fileVars(OnFiles /\ OpenWorks) /\ WF_fileVars(OnFiles /\ OpenResumes)
  /\ \A i \in 1 .. 4 :
       /\ WF_fileVars(OnFiles /\ i \in FileCalls /\ CancelWaiter(i))
       /\ WF_fileVars(OnFiles /\ i \in FileCalls /\ Starts(i))
       /\ WF_fileVars(OnFiles /\ i \in FileCalls /\ (FileWorkerTakes(i) \/ WorkerControls(i)))
       /\ WF_fileVars(OnFiles /\ i \in FileCalls /\ (Transfers(i) \/ FileWorkerEnds(i) \/ IoEnds(i)))
       /\ WF_fileVars(OnFiles /\ i \in FileCalls /\ (ResumesAfterWork(i) \/ ResumesAfterIo(i)))

OnStore == part = "store"
StoreFairness ==
  /\ \A h \in {h1, h2} : WF_vars(OnStore /\ JobStarts(h)) /\ SF_vars(OnStore /\ Works(h))
  /\ \A c \in 1 .. 4 : WF_vars(OnStore /\ c \in Calls /\ Resumes(c))

Hosts == part = "host"
AgentFairness ==
  /\ WF_hostVars(Hosts /\ (Initialize \/ InitializeFails \/ Run))
  /\ WF_hostVars(Hosts /\ Executor) /\ WF_hostVars(Hosts /\ Return)
  /\ \A c \in {"evaluation", "initialize", "shutdown", "callback"} : WF_hostVars(Hosts /\ Expire(c))
  /\ WF_hostVars(Hosts /\ Elapse) /\ WF_hostVars(Hosts /\ Worker) /\ WF_hostVars(Hosts /\ Fire)
  /\ WF_hostVars(Hosts /\ StopPosts(s1))

MCSpec ==
  /\ MCInit /\ [][MCNext]_<<part, urlVars, clientVars, fileVars, vars, decoder, hostVars, sqlVars>>
  /\ FetchFairness /\ DiskFairness /\ StoreFairness /\ AgentFairness

-----------------------------------------------------------------------------
(* However a message is cut into chunks, decode gives its text (decoder).  *)
ChunkingFree == Decoder!ChunkingFree
(* The mark of every message is dropped, as WHATWG has it (decoder).       *)
MarksSkipped == Decoder!MarksSkipped

(* Every request, file operation and call of a store ends, unless the      *)
(* process dies, and a host that was asked to stop returns.                *)
EveryCallEnds ==
  RequestsEnd /\ CallsEnd /\ CallsAnswered /\ (Hosts => HostEnds)
=============================================================================
