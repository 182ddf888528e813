--------------------------- MODULE ClipboardLease ---------------------------
(***************************************************************************)
(* Copies and pastes: the clipboard lease of the runtime                   *)
(* (nagori-daemon runtime/clipboard.rs, runtime/entries.rs) under the      *)
(* requests that take it.  IPC requests may be dropped at any await; the   *)
(* palette's requests (desktop commands/paste_commands.rs) also hide the   *)
(* palette and give the focus back, while the user goes on working: shows  *)
(* and dismisses the palette (state/window_focus.rs), changes the focused  *)
(* window and copies in other applications.                                *)
(*                                                                         *)
(* Values that the code only compares are kept as the outcome of the       *)
(* comparison: the clipboard is whoever wrote it last, the operating       *)
(* system's sequence is whether the SelfWriteTracker has it, a ticket is   *)
(* whether the palette was shown since, a publish's generation is whether  *)
(* it is the newest.  The focus may move at any time, so it is chosen where *)
(* it matters.  A keystroke is read by its target during                   *)
(* PASTE_CONSUMPTION_GRACE or it is not followed: nothing acknowledges the *)
(* read.                                                                   *)
(***************************************************************************)
EXTENDS SequencesExt

CONSTANTS
  Requests,
  None,
  Foreign,    \* every clipboard writer that is not this process
  Kinds,      \* the kinds of request made
  Platforms   \* the platforms tried

ASSUME LeaseAssumption ==
  /\ {None, Foreign} \cap Requests = {} /\ None # Foreign
  /\ Kinds \subseteq {"paste", "pasteEntry", "copy", "keep", "ipcPaste", "ipcCopy"}
  /\ Platforms \subseteq {"macos", "windows", "wayland"}

VARIABLES
  platform,
  req,       \* per request: its next step and what it knows
  queue,     \* the lease's waiters in order; the first one holds it
  newest,    \* PublishLedger: the request that published last
  clip,      \* who wrote the clipboard last
  ours,      \* the clipboard's sequence is the one the tracker recorded
  session    \* PaletteSession, and whether the palette is on screen

vars == <<platform, req, queue, newest, clip, ours, session>>

Palette == {"paste", "pasteEntry", "copy", "keep"}
Pastes == {"paste", "pasteEntry", "ipcPaste"}
Checked == {"paste", "copy", "keep"}   \* the publish check is for these
Guarded == {"write", "record", "probe", "checks", "key", "grace"}
Steps == {"idle", "queued", "prepare", "wrote", "copied", "hide", "restore", "paste"} \cup Guarded

\* A request that is not there.  Of the fields, `caller' says that the future
\* that made it still waits, `since' that the palette it came from was shown
\* after it was made, `old' that a paste's write may lie before a sleep.  The
\* last five record what happened: the window that got its keys, the clip they
\* typed, a foreign write where a paste cannot see it, one after the palette of
\* a checked copy was dismissed, and the palette on screen where its paste does
\* not look.
Idle == [pc |-> "idle", kind |-> None, caller |-> TRUE, since |-> FALSE, old |-> FALSE,
         target |-> None, restored |-> FALSE,
         landed |-> None, typed |-> None, blind |-> FALSE, newer |-> FALSE, exposed |-> FALSE]

Init ==
  /\ platform \in Platforms
  /\ req = [r \in Requests |-> Idle] /\ queue = <<>> /\ newest = None
  /\ clip = Foreign /\ ours = FALSE
  /\ session = [open |-> FALSE, target |-> None, shown |-> FALSE]

-----------------------------------------------------------------------------

At(r, l) == req[r].pc = l
Is(r, kinds) == req[r].kind \in kinds
Holds(r) == queue # <<>> /\ Head(queue) = r
Current(r) == session.open /\ ~req[r].since
TargetExpected == platform # "wayland"
Tracked == platform # "wayland"
Focusable == {"app", "other"} \cup (IF session.shown THEN {"palette"} ELSE {})

Goto(r, l) == req' = [req EXCEPT ![r].pc = l] /\ UNCHANGED queue

\* The queue without r, which is in it at most once.
Without(r) ==
  IF \E i \in DOMAIN queue : queue[i] = r
  THEN RemoveAt(queue, CHOOSE i \in DOMAIN queue : queue[i] = r) ELSE queue

\* The request ends and its lease, or its place in the queue, goes with it.
Leave(r) == req' = [req EXCEPT ![r] = Idle] /\ queue' = Without(r)

\* The showing ends on behalf of r, which takes the target and will hide.
FinishToHide(r) ==
  /\ req' = [req EXCEPT ![r].pc = "hide", ![r].target = session.target]
  /\ session' = [session EXCEPT !.open = FALSE, !.target = None]
  /\ UNCHANGED queue

\* A request arrives; one of the palette needs a showing to belong to.
Request(r) ==
  /\ At(r, "idle")
  /\ \E k \in Kinds : 
       /\ k \in Palette => session.open
       /\ req' = [req EXCEPT ![r].pc = "queued", ![r].kind = k]
  /\ queue' = Append(queue, r)
  /\ UNCHANGED <<platform, newest, clip, ours, session>>

\* The lease is ours: look again whether the palette that asked is still up.
Acquired(r) ==
  /\ At(r, "queued") /\ Holds(r)
  /\ \/ Is(r, {"paste", "copy", "pasteEntry"}) /\ ~Current(r) /\ Leave(r) /\ UNCHANGED session
     \/ Is(r, {"pasteEntry"}) /\ Current(r) /\ FinishToHide(r)
     \/ (Is(r, {"paste", "copy"}) => Current(r)) /\ ~Is(r, {"pasteEntry"})
        /\ Goto(r, "prepare") /\ UNCHANGED session
  /\ UNCHANGED <<platform, newest, clip, ours>>

\* Reading the settings or the entry fails, or preparing the write.
PrepareFails(r) == At(r, "prepare") /\ Leave(r) /\ UNCHANGED <<platform, newest, clip, ours, session>>

\* Seeded fault: a palette copy is not asked again right before its write.
MayPublishAnyway(r) == req[r].caller

\* The publish check of the palette's copies.
MayPublish(r) == Is(r, Checked) => Current(r)

\* The write is ready and may go ahead; from here on a task owns the lease.
Prepared(r) ==
  /\ At(r, "prepare")
  /\ IF MayPublish(r) THEN Goto(r, "write") ELSE Leave(r)
  /\ UNCHANGED <<platform, newest, clip, ours, session>>

Write(r) ==
  /\ At(r, "write") /\ Goto(r, "record")
  /\ clip' = r /\ ours' = FALSE
  /\ UNCHANGED <<platform, newest, session>>

\* The adapter fails, before or after the clipboard changed.
WriteFails(r) ==
  /\ At(r, "write") /\ Leave(r)
  /\ \/ UNCHANGED <<clip, ours>>
     \/ clip' = r /\ ours' = FALSE
  /\ UNCHANGED <<platform, newest, session>>

\* The adapter records the sequence it finds after its write.
Record(r) ==
  /\ At(r, "record") /\ ours' = Tracked
  /\ IF req[r].caller THEN Goto(r, "wrote") ELSE Leave(r)
  /\ UNCHANGED <<platform, newest, clip, session>>

\* Seeded fault: a paste gives the lease back after its copy.
WroteReleases(r) ==
  /\ At(r, "wrote") /\ newest' = r
  /\ \/ Is(r, {"ipcPaste", "pasteEntry"}) /\ req' = [req EXCEPT ![r].pc = "paste"]
        /\ queue' = Without(r)
     \/ Leave(r)
  /\ UNCHANGED <<platform, clip, ours, session>>

\* What a request does once its clip is on the clipboard.  It may also end
\* here: auto-paste is off, or recording the reuse failed.
Wrote(r) ==
  /\ At(r, "wrote") /\ newest' = r
  /\ \/ Is(r, {"ipcPaste", "pasteEntry"}) /\ Goto(r, "paste") /\ UNCHANGED session
     \/ Is(r, {"paste"}) /\ Current(r) /\ FinishToHide(r)
     \/ Is(r, {"copy"}) /\ req' = [req EXCEPT ![r].pc = "copied"] /\ queue' = Without(r)
        /\ UNCHANGED session
     \/ Leave(r) /\ UNCHANGED session
  /\ UNCHANGED <<platform, clip, ours>>

\* A copy gave the lease back before it hides the palette.
Copied(r) ==
  /\ At(r, "copied")
  /\ IF Current(r) THEN FinishToHide(r) ELSE Leave(r) /\ UNCHANGED session
  /\ UNCHANGED <<platform, newest, clip, ours>>

Hide(r) ==
  /\ At(r, "hide") /\ session' = [session EXCEPT !.shown = FALSE]
  /\ IF Is(r, {"copy"}) THEN Leave(r) ELSE Goto(r, "restore")
  /\ UNCHANGED <<platform, newest, clip, ours>>

\* The palette cannot be hidden: only paste_entry goes on.
HideFails(r) ==
  /\ At(r, "hide")
  /\ IF Is(r, {"pasteEntry"})
     THEN req' = [req EXCEPT ![r].pc = "restore", ![r].exposed = TRUE] /\ UNCHANGED queue
     ELSE Leave(r)
  /\ UNCHANGED <<platform, newest, clip, ours, session>>

\* restore_focus; paste_entry copies whether it succeeds or not.
Restore(r) ==
  /\ At(r, "restore")
  /\ \E ok \in IF ~TargetExpected THEN {TRUE}
               ELSE IF req[r].target = None THEN {FALSE} ELSE BOOLEAN :
       IF Is(r, {"pasteEntry"})
       THEN req' = [req EXCEPT ![r].pc = "prepare", ![r].restored = ok] /\ UNCHANGED queue
       ELSE IF ok
       THEN req' = [req EXCEPT ![r].pc = "paste", ![r].restored = TRUE] /\ UNCHANGED queue
       ELSE Leave(r)
  /\ UNCHANGED <<platform, newest, clip, ours, session>>

\* The paste proper: the newest publish only, and with the focus handed back.
Paste(r) ==
  /\ At(r, "paste")
  /\ IF newest = r /\ (Is(r, Palette) => req[r].restored) THEN Goto(r, "probe") ELSE Leave(r)
  /\ UNCHANGED <<platform, newest, clip, ours, session>>

\* verify_own_publish reads the sequence, or fails to.
Probe(r) ==
  /\ At(r, "probe")
  /\ \/ (Tracked => ours) /\ Goto(r, "checks")
     \/ Tracked /\ Leave(r)
  /\ UNCHANGED <<platform, newest, clip, ours, session>>

\* Seeded fault: the palette is not asked before the keys.
MayTypeReopened(r) == (platform = "macos" => ~req[r].old) /\ req[r].caller

\* The verdicts after the probe's await: the publish's age, the caller and the
\* palette.
MayType(r) ==
  /\ platform = "macos" => ~req[r].old
  /\ req[r].caller
  /\ Is(r, Palette) => ~req[r].since

Checks(r) ==
  /\ At(r, "checks")
  /\ IF MayType(r) THEN Goto(r, "key") ELSE Leave(r)
  /\ UNCHANGED <<platform, newest, clip, ours, session>>

\* The platform posts the keys to the focused window unless the target has lost
\* the focus.  The lease is kept for the grace whatever the outcome.
Key(r) ==
  /\ At(r, "key")
  /\ \E w \in Focusable \cup {None} :
       /\ (TargetExpected /\ Is(r, Palette)) => w \in {req[r].target, None}
       /\ req' = [req EXCEPT ![r].pc = "grace", ![r].landed = w]
  /\ UNCHANGED <<platform, queue, newest, clip, ours, session>>

\* The window that got the keys reads the clipboard.
Consume(r) ==
  /\ At(r, "grace") /\ req[r].landed # None /\ req[r].typed = None
  /\ req' = [req EXCEPT ![r].typed = clip]
  /\ UNCHANGED <<platform, queue, newest, clip, ours, session>>

\* Seeded fault: the lease is only given back to a caller that still waits.
GraceEndsWaited(r) ==
  At(r, "grace") /\ req[r].caller /\ Leave(r) /\ UNCHANGED <<platform, newest, clip, ours, session>>

GraceEnds(r) == At(r, "grace") /\ Leave(r) /\ UNCHANGED <<platform, newest, clip, ours, session>>

-----------------------------------------------------------------------------

\* Seeded fault: the lease goes with the handler, not with its task.
DropReleases(r) ==
  /\ Is(r, {"ipcPaste", "ipcCopy"}) /\ req[r].caller
  /\ IF req[r].pc \in Guarded
     THEN req' = [req EXCEPT ![r].caller = FALSE] /\ queue' = Without(r) ELSE Leave(r)
  /\ UNCHANGED <<platform, newest, clip, ours, session>>

\* An IPC handler is dropped.  A task that owns the lease runs on.
Drop(r) ==
  /\ Is(r, {"ipcPaste", "ipcCopy"}) /\ req[r].caller
  /\ IF req[r].pc \in Guarded
     THEN req' = [req EXCEPT ![r].caller = FALSE] /\ UNCHANGED queue ELSE Leave(r)
  /\ UNCHANGED <<platform, newest, clip, ours, session>>

\* A guarded task panics: the lease is free and its request fails.
TaskDies(r) ==
  /\ req[r].pc \in Guarded /\ Leave(r)
  /\ UNCHANGED <<platform, newest, clip, ours, session>>

\* Someone else copies.
Copy ==
  /\ clip' = Foreign /\ ours' = FALSE
  /\ req' = [r \in Requests |-> [req[r] EXCEPT
               !.blind = @ \/ (Is(r, Pastes) /\ req[r].pc \in {"record", "checks", "key", "grace"}),
               !.newer = @ \/ (Is(r, Checked) /\ req[r].pc \in {"queued", "prepare"} /\ ~Current(r))]]
  /\ UNCHANGED <<platform, queue, newest, session>>

\* The Mac sleeps, or its clock is set back.  A clip that arrives meanwhile may
\* be given a change count that was used before.
Sleep ==
  /\ platform = "macos"
  /\ req' = [r \in Requests |-> [req[r] EXCEPT
               !.old = @ \/ (Is(r, Pastes) /\ req[r].pc \notin {"queued", "prepare"}),
               !.blind = @ \/ req[r].pc \in {"key", "grace"}]]
  /\ \/ UNCHANGED <<clip, ours>>
     \/ clip' = Foreign /\ ours' \in BOOLEAN
  /\ UNCHANGED <<platform, queue, newest, session>>

\* The palette is shown, or shown again over itself.
Show ==
  /\ \E w \in IF TargetExpected THEN Focusable \ {"other"} ELSE {None} :
       session' = [open |-> TRUE, shown |-> TRUE, target |-> w]
  /\ req' = [r \in Requests |-> [req[r] EXCEPT
               !.since = @ \/ Is(r, Palette),
               !.exposed = @ \/ (Is(r, Palette) /\ req[r].pc = "key")]]
  /\ UNCHANGED <<platform, queue, newest, clip, ours>>

Dismiss ==
  /\ session.shown /\ session' = [open |-> FALSE, target |-> None, shown |-> FALSE]
  /\ UNCHANGED <<platform, req, queue, newest, clip, ours>>

Own(r) ==
  \/ Acquired(r) \/ PrepareFails(r) \/ Prepared(r)
  \/ Write(r) \/ WriteFails(r) \/ Record(r) \/ Wrote(r) \/ Copied(r)
  \/ Hide(r) \/ HideFails(r) \/ Restore(r)
  \/ Paste(r) \/ Probe(r) \/ Checks(r) \/ Key(r) \/ GraceEnds(r)

Next ==
  \/ \E r \in Requests : Request(r) \/ Own(r) \/ Consume(r) \/ Drop(r) \/ TaskDies(r)
  \/ Copy \/ Sleep \/ Show \/ Dismiss

Spec == Init /\ [][Next]_vars

\* Every read, adapter call, probe and timer of a request ends.
FairSpec == Spec /\ \A r \in Requests : WF_vars(Own(r))

-----------------------------------------------------------------------------

\* The types, and that a request with an operating-system call in flight holds
\* the lease, also when nobody waits for its answer any more; so there is never
\* a second one (runtime/clipboard.rs).
TypeOK ==
  /\ platform \in Platforms
  /\ req \in [Requests ->
       [pc : Steps, kind : Kinds \cup {None}, caller : BOOLEAN, since : BOOLEAN, old : BOOLEAN,
        target : {"app", "palette", None}, restored : BOOLEAN,
        landed : {"app", "other", "palette", None}, typed : Requests \cup {Foreign, None},
        blind : BOOLEAN, newer : BOOLEAN, exposed : BOOLEAN]]
  /\ queue \in Seq(Requests) /\ newest \in Requests \cup {None}
  /\ clip \in Requests \cup {Foreign} /\ ours \in BOOLEAN
  /\ session \in [open : BOOLEAN, target : {"app", "palette", None}, shown : BOOLEAN]
  /\ \A r \in Requests : req[r].pc \in Guarded => Holds(r)

\* The keys of a paste type its own clip: whatever is dropped, panics or waits,
\* no other publish lands between a write and the keystroke that goes with it,
\* and where the platform can tell, a foreign one gets typed only if it was
\* copied where the lease cannot look: between the write and the tracker's
\* record, or after the last probe.  A sleep is noticed up to the keystroke.
KeysTypeTheRightClip ==
  \A r \in Requests :
    \/ req[r].typed \in {None, r}
    \/ req[r].typed = Foreign /\ (req[r].blind \/ ~Tracked)

\* A copy of the palette that waits or prepares while the user dismisses the
\* palette and copies something else does not overwrite it.
OverwritesNothingNewer ==
  \A r \in Requests : req[r].newer => req[r].pc \in {"queued", "prepare"}

\* The keys of a palette paste go to the window the palette was opened over.
\* Where no target is known they never go to a palette that was already up
\* again when the paste last looked, unless it could not be hidden.
KeysReachTheTarget ==
  \A r \in Requests :
    Is(r, Palette) /\ req[r].landed # None =>
      IF TargetExpected THEN req[r].landed = req[r].target
      ELSE req[r].landed = "palette" => req[r].exposed

\* Every request that queues for the lease ends.
RequestsEnd == \A r \in Requests : At(r, "queued") ~> At(r, "idle")
=============================================================================
