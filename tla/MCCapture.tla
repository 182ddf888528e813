----------------------------- MODULE MCCapture -----------------------------
(* Instances of CaptureLoop for TLC. *)
EXTENDS CaptureLoop
=============================================================================
