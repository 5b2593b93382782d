----------------------- MODULE MCGenerationLifecycle -----------------------
(* Instances of GenerationLifecycle for TLC.                               *)
EXTENDS GenerationLifecycle, TLC

\* Transactions of the github_events queue are alike.
HookSymmetry == Permutations(Hooks)

=============================================================================
