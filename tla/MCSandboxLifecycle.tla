-------------------------- MODULE MCSandboxLifecycle --------------------------
(* Small instances of SandboxLifecycle for TLC.                               *)
EXTENDS SandboxLifecycle, TLC

CONSTANTS r1, r2

\* The runs are alike: no action and no invariant tells one from the other.
AlikeRuns == Permutations(Runs)
=============================================================================
