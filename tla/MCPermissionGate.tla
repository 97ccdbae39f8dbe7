--------------------------- MODULE MCPermissionGate ---------------------------
(* Small instances of PermissionGate for TLC.                                  *)
EXTENDS PermissionGate, TLC

CONSTANTS a1, a2, b1, ka, kb

\* Two calls with the same key and one with another.
TwoAlike == a1 :> ka @@ a2 :> ka @@ b1 :> kb

\* The two calls with the same key are alike.
Alike == Permutations({a1, a2})
=============================================================================
