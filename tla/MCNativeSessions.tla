--------------------------- MODULE MCNativeSessions ---------------------------
(***************************************************************************)
(* Finite instances of HttpServer, NativeProcess and Terminal for TLC,     *)
(* explored side by side in one run: `part' names the component that moves *)
(* in a behaviour, the other two stay in one of their initial states.      *)
(***************************************************************************)
EXTENDS HttpServer, NativeProcess, Terminal, TLC

CONSTANTS Parts,
          c1, c2, k1, k2, p1, p2, d1, d2, d3, w1, w2, x1, r1

VARIABLE part

ASSUME ProcessConstantsOK /\ TerminalConstantsOK

-----------------------------------------------------------------------------
(* What clients and handlers do with the server. *)
Served(s1, s2, connects, leaves, self, callers, lost) ==
  [sends |-> c1 :> s1 @@ c2 :> s2, connects |-> connects, leaves |-> leaves,
   selfClosing |-> self, closers |-> callers, lost |-> lost]

(* Requests pipelined on one connection while two callers close. *)
Pipelined == Served(<<"keep", "keep">>, <<>>, {c1}, {c1}, {}, {k1, k2}, FALSE)
(* Requests that end a connection. *)
Refused(kind) == Served(<<kind, "keep">>, <<>>, {c1}, {}, {}, {k1}, FALSE)
(* An idle connection, and a handler that closes its own server. *)
Parallel == Served(<<"keep">>, <<>>, {c1, c2}, {c2}, {c1}, {k1}, FALSE)
(* A server nobody holds any more. *)
Unheld == Served(<<"close">>, <<"keep">>, {c1, c2}, {}, {}, {}, TRUE)
UnheldBusy == Served(<<"keep">>, <<>>, {c1}, {c1}, {c1}, {k1}, TRUE)

SomeResponses == {[status |-> 200, size |-> 1, header |-> "plain"],
            [status |-> 204, size |-> 1, header |-> "plain"],
            [status |-> 200, size |-> 1, header |-> "owned"]}

ServerUses == {Pipelined, Parallel, Unheld, UnheldBusy} \cup {Refused(k) : k \in {"bad", "big", "close"}}

-----------------------------------------------------------------------------
(* What clients and children do with the processes. *)
Wants(u1, u2, u3) == d1 :> u1 \X {p1} @@ d2 :> u2 \X {p1} @@ d3 :> u3 \X {p1}
Traits(t1, t2)    == p1 :> (t1 \cup {"start"}) @@ p2 :> t2
Output(o, e, q)   == p1 :> [s \in {"out", "err"} |-> IF s = "out" THEN o ELSE e]
                  @@ p2 :> [s \in {"out", "err"} |-> IF s = "out" THEN q ELSE 0]
Ran(wants, traits, bytes) == [wants |-> wants, traits |-> traits, bytes |-> bytes]

(* Writers and a closer on one stdin. *)
Stdin  == Ran(Wants({"write", "writeClose"}, {"write"}, {"write", "close"}),
              Traits({"dispose"}, {}), Output(0, 0, 0))
(* A reader of both streams while the process ends, is waited for, closed. *)
Read   == Ran(Wants({}, {"wait"}, {"close"}), Traits({"read"}, {}), Output(2, 1, 0))
(* A child with a descendant that is terminated or runs out of time. *)
Group  == Ran(Wants({"wait", "waitForExit"}, {"close"}, {}),
              Traits({"terminate", "timeout", "forks"}, {}), Output(1, 0, 0))
(* Two processes that share the budget. *)
Shared == Ran(Wants({"wait"}, {"close"}, {}), Traits({}, {"start", "dispose"}), Output(2, 1, 1))
(* A child whose descendant leaves the group and holds its pipes. *)
Escaped == Ran(Wants({"wait"}, {"close"}, {}), Traits({"escapes", "read"}, {}), Output(1, 1, 0))
(* Timeouts alone, on a child that leaves a descendant behind. *)
TimedOut == Ran(Wants({"wait"}, {}, {}), Traits({"timeout", "forks"}, {}), Output(1, 1, 0))

SomeProcesses == {Stdin, Read, Group, Shared, Escaped}
OneTimed == {TimedOut}

-----------------------------------------------------------------------------
(* What scripts and the groups on the PTY do with a terminal. *)
Opened(calls, groups, deaf, timeout, rooms, bytes) ==
  [calls |-> calls, groups |-> groups, deaf |-> deaf, timeout |-> timeout,
   stops |-> FALSE, lost |-> FALSE, fails |-> FALSE, rooms |-> rooms, bytes |-> bytes]

(* A reader that falls behind, with more and less room in the budget. *)
Reading == Opened({r1, k1}, {}, {}, FALSE, {0, 1, 3}, 4)
(* Writers and a waiter on a session that is closed or that times out,     *)
(* with a group in the background that keeps the PTY.                      *)
Writing == [Opened({w1, w2, k1}, {"back"}, {"leader"}, TRUE, {3}, 1) EXCEPT !.stops = TRUE]
Ending == Opened({x1, k1, k2}, {"front", "back"}, {"leader", "back"}, TRUE, {3}, 0)
Lost == [Opened({w1, k1}, {"back"}, {}, TRUE, {1}, 1) EXCEPT !.lost = TRUE, !.fails = TRUE]

SomeTerminals == {Reading, Writing, Ending, Lost}

-----------------------------------------------------------------------------
(* Whoever does not move starts in one state: a use for it is taken first. *)
MCInit ==
  /\ part \in Parts
  /\ IF part = "server" THEN TRUE ELSE use = CHOOSE u \in Uses : TRUE
  /\ IF part = "process" THEN TRUE ELSE pUse = CHOOSE u \in ProcessUses : TRUE
  /\ IF part = "terminal" THEN TRUE ELSE tUse = CHOOSE u \in TerminalUses : TRUE
  /\ Init /\ ProcessInit /\ TerminalInit

MCNext ==
  \/ part = "server" /\ Next /\ UNCHANGED <<part, processVars, terminalVars>>
  \/ part = "process" /\ ProcessNext /\ UNCHANGED <<part, vars, terminalVars>>
  \/ part = "terminal" /\ TerminalNext /\ UNCHANGED <<part, vars, processVars>>

(* No action with fairness is enabled in the initial states of the idle. *)
MCFairness == Fairness /\ ProcessFairness /\ TerminalFairness

MCSpec == MCInit /\ [][MCNext]_<<part, vars, processVars, terminalVars>> /\ MCFairness

-----------------------------------------------------------------------------
(* Every close of a server returns, and every close of a process but for a *)
(* descendant out of its group; a process that was sent SIGTERM is reaped; *)
(* a timeout ends a terminal's session; its reads, writes and waits return *)
(* after the end, and its slot comes back.                                 *)
EveryCallEnds ==
  /\ CloseEnds /\ ProcessClosesEnd /\ TerminateEnds
  /\ TerminalClosesEnd /\ TimeoutBounds /\ CallsEnd
=============================================================================
