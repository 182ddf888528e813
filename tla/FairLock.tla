------------------------------ MODULE FairLock ------------------------------
(***************************************************************************)
(* What the clipboard lease (nagori-daemon runtime/clipboard.rs) promises  *)
(* its requests, whatever they use it for: they stand in one line in the   *)
(* order they asked, only the first may be inside, that is, have a call to *)
(* the operating system under way, and who gives up its place, from the    *)
(* head of the line or from the middle of it, is not inside any more.      *)
(***************************************************************************)
EXTENDS Sequences, Integers

CONSTANT Clients

VARIABLES
  line,     \* the clients in the order in which they asked
  inside    \* the clients with a call under way

lockVars == <<line, inside>>

LockInit == line = <<>> /\ inside = {}

\* A request asks for the lease, and stands in line until it has given it back.
Join(c) ==
  /\ \A i \in DOMAIN line : line[i] # c
  /\ line' = Append(line, c) /\ UNCHANGED inside

\* The holder starts a call to the operating system.
Enter(c) ==
  /\ line # <<>> /\ Head(line) = c
  /\ inside' = inside \cup {c} /\ UNCHANGED line

\* The call has returned.
Exit(c) == inside' = inside \ {c} /\ UNCHANGED line

\* A request is done, refused or dropped; what it had under way has returned.
Quit(c) ==
  /\ \E i \in DOMAIN line :
       line[i] = c /\ line' = SubSeq(line, 1, i - 1) \o SubSeq(line, i + 1, Len(line))
  /\ inside' = inside \ {c}

LockNext == \E c \in Clients : Join(c) \/ Enter(c) \/ Exit(c) \/ Quit(c)

LockSpec == LockInit /\ [][LockNext]_lockVars
=============================================================================
