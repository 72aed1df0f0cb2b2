---------------------------- MODULE MCScheduleSync ----------------------------
(***************************************************************************)
(* Finite instances of ScheduleSync for TLC.                               *)
(***************************************************************************)
EXTENDS ScheduleSync, TLC

CONSTANTS r1, r2, a1

(* The default policy; the same one disabled; a backlog policy; and one    *)
(* that the control plane accepts and the agent answers with 409.          *)
Nightly  == [cron |-> {1, 2, 3, 4}, enabled |-> TRUE, concurrency |-> "forbid",
             misfire |-> "run_once", max |-> 1]
Paused   == [Nightly EXCEPT !.enabled = FALSE]
Backlog  == [Nightly EXCEPT !.concurrency = "queue", !.misfire = "catch_up"]
Refused  == [Nightly EXCEPT !.misfire = "catch_up"]

Policies == {Nightly, Backlog}
Toggles  == {Nightly, Paused}
Mixed    == {Nightly, Paused, Refused}
=============================================================================
