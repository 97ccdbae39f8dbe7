------------------------ MODULE MCServiceSupervisor ------------------------
(* Small instances of ServiceSupervisor for TLC.                             *)
EXTENDS ServiceSupervisor
=============================================================================
