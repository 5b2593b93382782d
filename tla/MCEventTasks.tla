---------------------------- MODULE MCEventTasks ----------------------------
(* Instances of EventTasks for TLC. *)
EXTENDS EventTasks, TLC

CONSTANTS d1, d2, d3

\* Two pushes.
TwoPushes == (d1 :> 1) @@ (d2 :> 2)

\* Two pushes, the second of which takes back the first's successor.
Return == (d1 :> 1) @@ (d2 :> 2) @@ (d3 :> 1)

=============================================================================
