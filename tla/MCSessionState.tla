----------------------------- MODULE MCSessionState -----------------------------
(* Small instances of SessionState for TLC. *)
EXTENDS SessionState, TLC

CONSTANTS p1, p2, s1, f1, f2
Symmetry == Permutations({p1, p2}) \cup Permutations({f1, f2})
================================================================================
