---------------------------- MODULE CloseBarrier ----------------------------
(***************************************************************************)
(* What the native resources of vacps promise of close() (server.hpp,      *)
(* terminal.hpp, file.hpp: "concurrent callers join the same barrier").    *)
(* Work starts only while the resource is open, the resource is closed     *)
(* when it closes and no work is left, and a call of close returns only    *)
(* once it is closed, which it finally is.                                 *)
(***************************************************************************)
EXTENDS FiniteSets

CONSTANTS Work, Callers

VARIABLES
  phase,  \* "open", "closing", "closed"
  live,   \* the work in progress
  asked,  \* the callers that called close
  done    \* those whose call returned

vars == <<phase, live, asked, done>>

Init == phase = "open" /\ live = {} /\ asked = {} /\ done = {}

(* A resource that closes, with the work w left, is closed without work. *)
Settled(w) == IF w = {} THEN "closed" ELSE "closing"

Start == /\ phase = "open"
         /\ \E w \in Work \ live : live' = live \cup {w}
         /\ UNCHANGED <<phase, asked, done>>

End == /\ \E w \in live : live' = live \ {w}
       /\ phase' = IF phase = "closing" THEN Settled(live') ELSE phase
       /\ UNCHANGED <<asked, done>>

(* The resource closes, of itself or asked to; some work may end with it. *)
Shut == /\ phase = "open" /\ live' \in SUBSET live /\ phase' = Settled(live')
        /\ UNCHANGED <<asked, done>>

Ask(k) == /\ k \notin asked /\ asked' = asked \cup {k}
          /\ IF phase = "open" THEN live' \in SUBSET live /\ phase' = Settled(live')
             ELSE UNCHANGED <<phase, live>>
          /\ done' = IF phase' = "closed" THEN done \cup {k} ELSE done

Return(k) == /\ k \in asked \ done /\ phase = "closed" /\ done' = done \cup {k}
             /\ UNCHANGED <<phase, live, asked>>

Next == Start \/ End \/ Shut \/ \E k \in Callers : Ask(k) \/ Return(k)

(* Whoever closes gets there, whatever else happens. *)
Liveness == <>[](phase # "closing" /\ asked \subseteq done)

Safety == Init /\ [][Next]_vars
Spec == Safety /\ Liveness
=============================================================================
