--------------------------- MODULE MCLocalInference ---------------------------
(* Small instances of LocalInference for TLC.                                  *)
EXTENDS LocalInference
=============================================================================
