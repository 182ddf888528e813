------------------------------ MODULE MCIpcHost ------------------------------
(* TLC instances of IpcHost. *)
EXTENDS IpcHost, TLC
=============================================================================
