--------------------------- MODULE MCAgentTaskQueue ---------------------------
(***************************************************************************)
(* Finite instances of AgentTaskQueue for TLC.                             *)
(***************************************************************************)
EXTENDS AgentTaskQueue, FiniteSets, TLC

CONSTANTS t1, t2, t3, h1, h2, h3, k1

(* The dispatches t1 and t2 carry the same Idempotency-Key, t3 carries none. *)
SharedKey == [t \in Tasks |-> IF t = t3 THEN None ELSE k1]
(* Only the dispatches of t1, the first and its retransmissions, carry one. *)
FirstKeyed == [t \in Tasks |-> IF t = t1 THEN k1 ELSE None]
NoKeys    == [t \in Tasks |-> None]
(* Requests in flight are interchangeable. *)
HandlerSymmetry == Permutations(Handlers)

(* For progress: the interchangeable handlers are taken in turn, and        *)
(* requests for the second task come once the first is stored, before a    *)
(* stop.  Arrivals are not fair, so what is fair stays possible.           *)
InTurn ==
  /\ pc[h2] # "idle" => pc[h1] # "idle"
  /\ (\E h \in Handlers : arg[h] = t2) => stops = 0 /\ status[t1] # "none"
ProgressNext ==
  \/ Progress \/ WorkerAwait \/ ChildExits \/ DescendantEnds \/ FailureClosed \/ MainAwait \/ Restart
  \/ \E a \in Handlers \cup {Main} : Terminated(a)
  \/ Arrive /\ InTurn'
  \/ StopRequested \/ Tick \/ Crash
  \/ \E a \in Actors : StoreFault(a)
ProgressSpec == Init /\ [][ProgressNext]_vars /\ Fairness
=============================================================================
