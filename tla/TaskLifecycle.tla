--------------------------- MODULE TaskLifecycle ---------------------------
(***************************************************************************)
(* What the agent promises about a task, whatever its handlers, its worker *)
(* and its restarts do: a task is queued once, at most one task runs at a  *)
(* time, and the verdict a task has reached is never taken back.           *)
(***************************************************************************)
CONSTANT Tasks                  \* task ids

VARIABLE status                 \* status[t]: the row a client can observe

Terminal == {"succeeded", "failed", "cancelled", "timed_out"}
Status   == {"none", "queued", "running"} \cup Terminal

Become(t, s) == status' = [status EXCEPT ![t] = s]

Init == status = [t \in Tasks |-> "none"]

(* A new row always starts in the queue. *)
Accept(t) == status[t] = "none" /\ Become(t, "queued")

(* A queued task is cancelled without ever having run. *)
Withdraw(t) == status[t] = "queued" /\ Become(t, "cancelled")

(* Single flight: nothing else may be running. *)
Run(t) == /\ status[t] = "queued"
          /\ \A u \in Tasks : status[u] # "running"
          /\ Become(t, "running")

(* One verdict per task, reached from a run. *)
Conclude(t) == /\ status[t] = "running"
               /\ \E s \in Terminal : Become(t, s)

Next == \E t \in Tasks : Accept(t) \/ Withdraw(t) \/ Run(t) \/ Conclude(t)

Spec == Init /\ [][Next]_status
=============================================================================
