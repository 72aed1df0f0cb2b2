-------------------------- MODULE MCScheduleProgress --------------------------
(***************************************************************************)
(* Two finite instances of ScheduleSync in one run.  In Sync two clients,  *)
(* failed syncs, overtaking PUTs, a crash or an eviction; in Late one      *)
(* client, a supported catch-up policy, and a clock that gets so far ahead *)
(* of the agent that one claim does not clear what it missed.  A behaviour *)
(* is Late if it begins with more crashes than may happen.                 *)
(***************************************************************************)
EXTENDS MCScheduleSync

Backlogs == INSTANCE ScheduleSync WITH
  Confs <- {Nightly, Backlog, Paused}, MaxTime <- 3, MaxNet <- 1

Sync == crashes <= MaxCrashes
Late == crashes > MaxCrashes

(* Init, whatever the count of crashes. *)
Uncounted == INSTANCE ScheduleSync WITH crashes <- 0

MCInit == crashes \in {0, MaxCrashes + 1} /\ Uncounted!Init
MCNext == \/ AgentCrash \/ \E c \in Calls : Evicted(c)
          \/ Sync /\ Next /\ UNCHANGED crashes
          \/ Late /\ Backlogs!Next /\ call'[r2] = Idle

(* Fairness of ScheduleSync, whose actions differ only in what they may    *)
(* send; r2 is idle in Late, where nothing that is fair is its.            *)
MCFairness ==
  /\ WF_vars((Sync /\ Reconcile) \/ (Late /\ Backlogs!Reconcile))
  /\ WF_vars(ListDue) /\ WF_vars(Claim) /\ SF_vars(Claim /\ ClaimHolds(pump.row))
  /\ \A c \in Calls : WF_vars((Sync /\ CallStep(c)) \/ (Late /\ Backlogs!CallStep(c)))
  /\ SF_vars(\E m \in net : PutRead(m))
  /\ WF_vars(\E m \in net : PutWrite(m) \/ DeleteArrives(m))

MCSpec == MCInit /\ [][MCNext]_vars /\ MCFairness
=============================================================================
