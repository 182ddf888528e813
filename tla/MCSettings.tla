---------------------------- MODULE MCSettings -----------------------------
(* TLC instances of Settings. *)
EXTENDS Settings, TLC

\* Local callers are interchangeable, and so are remote ones.
Symmetric ==
  Permutations(Remote) \cup Permutations(Callers \ Remote)
=============================================================================
