--------------------------- MODULE ReviewContract ---------------------------
(***************************************************************************)
(* What a workspace is promised about the reviews of a pull request, with  *)
(* no word of transactions, tasks or queues.  A generation is started by a *)
(* delivery or a request, which may supersede others; it is indexed, then  *)
(* reviewed; it ends once; a completed review is paid for as it completes  *)
(* and only completed reviews are reconciled.                              *)
(***************************************************************************)
EXTENDS Naturals

CONSTANTS
    Generations,  \* everything that may be started
    Limit         \* completed reviews a workspace pays for

VARIABLES
    stage,        \* how far the generation is
    paid,         \* credits used
    settled       \* reviews handed to reconciliation

contractVars == <<stage, paid, settled>>

InFlight == {g \in Generations : stage[g] \in {"indexing", "reviewing"}}
Fresh    == {g \in Generations : stage[g] = "none"}

ContractInit ==
    /\ stage = [g \in Generations |-> "none"]
    /\ paid = 0
    /\ settled = {}

\* One atomic step of a delivery: superseded takes the place of what was in
\* flight, and at most one generation starts.
Deliver(S, new) ==
    /\ S \subseteq InFlight
    /\ new \subseteq Fresh
    /\ \A f, g \in new : f = g
    /\ stage' = [g \in Generations |-> IF g \in S THEN "superseded"
                                       ELSE IF g \in new THEN "indexing" ELSE stage[g]]
    /\ UNCHANGED <<paid, settled>>

Move(g, from, to) ==
    /\ stage[g] \in from
    /\ stage' = [stage EXCEPT ![g] = to]

Index(g)  == Move(g, {"indexing"}, "indexed") /\ UNCHANGED <<paid, settled>>
Review(g) == Move(g, {"indexing", "none"}, "reviewing") /\ UNCHANGED <<paid, settled>>

\* The error handlers write without looking: they may replace superseded.
Fail(g) == Move(g, {"indexing", "reviewing", "superseded"}, "failed") /\ UNCHANGED <<paid, settled>>

Complete(g) ==
    /\ Move(g, {"reviewing"}, "completed")
    /\ paid' = IF paid < Limit THEN paid + 1 ELSE paid
    /\ UNCHANGED settled

Settle(g) ==
    /\ stage[g] = "completed"
    /\ settled' = settled \cup {g}
    /\ UNCHANGED <<stage, paid>>

ContractNext ==
    \/ \E S, new \in SUBSET Generations : Deliver(S, new)
    \/ \E g \in Generations : Index(g) \/ Review(g) \/ Fail(g) \/ Complete(g) \/ Settle(g)

Contract == ContractInit /\ [][ContractNext]_contractVars

=============================================================================
