-------------------------- MODULE MCClipboardLease --------------------------
(* Small instances of ClipboardLease.                                      *)
EXTENDS ClipboardLease

=============================================================================
