------------------------------ MODULE Settings ------------------------------
(***************************************************************************)
(* The settings of nagori-daemon (runtime/settings.rs): one row of the     *)
(* store with a revision (nagori-storage sqlite/settings.rs), the watch    *)
(* channel every worker reads them from, and the lock that writers and     *)
(* refreshes take.  A settings value is the set of its flags that are on   *)
(* and of its onboarding markers that are stamped.  Every await is a point *)
(* where others may step, and where an IPC handler whose client hung up is *)
(* dropped, its transaction still running on the blocking pool             *)
(* (nagori-ipc server/connection.rs).                                      *)
(***************************************************************************)
EXTENDS Integers

CONSTANTS
  Callers,       \* concurrent callers of the runtime
  Remote,        \* those that are IPC handlers
  None,          \* nobody holds the lock
  Flags,         \* the fields of AppSettings, each on or off
  Markers,       \* the fields of OnboardingSettings
  Sticky,        \* those stamped once (accessibility_first_granted_at)
  Default,       \* AppSettings::default()
  MaxRevision,   \* bound: writes to the store
  MaxRestarts    \* bound: restarts of the daemon

ASSUME CallersAssumption == Remote \subseteq Callers /\ None \notin Callers
ASSUME FieldsAssumption == 
  Flags \cap Markers = {} /\ Default \subseteq Flags /\ Sticky \subseteq Markers
ASSUME SettingsBounds == MaxRevision \in Nat /\ MaxRestarts \in Nat

VARIABLES
  value,      \* the settings row, or the default before there is one
  revision,   \* its revision
  watch,      \* the watch channel's value
  seeded,     \* settings_seeded: something was published
  holder,     \* who holds settings_write_lock
  job,        \* per caller: its call in progress
  restarts,   \* restarts so far
  stray       \* history: the latest revision committed without a publish, or 0

vars == <<value, revision, watch, seeded, holder, job, restarts, stray>>

NoJob == [pc |-> "idle", op |-> "refresh", field |-> None, on |-> FALSE,
          body |-> {}, base |-> 0, seen |-> 0]

Init ==
  /\ value = Default /\ revision = 0
  /\ watch = Default /\ seeded = FALSE
  /\ holder = None /\ job = [c \in Callers |-> NoJob]
  /\ restarts = 0 /\ stray = 0

-----------------------------------------------------------------------------

\* v with the flag or marker f set or cleared.
With(v, f, on) == IF on THEN v \cup {f} ELSE v \ {f}

\* The runtime owns the markers: whatever the caller sent is replaced.
Merge(v, persisted) == (v \cap Flags) \cup (persisted \cap Markers)

Moved(c, pc) == job' = [job EXCEPT ![c] = [@ EXCEPT !.pc = pc]]
Returned(c) == job' = [job EXCEPT ![c] = NoJob]

-----------------------------------------------------------------------------
(* The calls. *)

\* A start-up task, or a search that finds the watch not seeded.
StartRefresh(c) ==
  /\ job[c].pc = "idle" /\ (c \in Remote => ~seeded)
  /\ job' = [job EXCEPT ![c] = [@ EXCEPT !.pc = "lock", !.op = "refresh"]]
  /\ UNCHANGED <<value, revision, watch, seeded, holder, restarts, stray>>

\* set_capture_enabled, set_confirm_clear_history.
StartToggle(c) ==
  /\ job[c].pc = "idle" /\ c \notin Remote
  /\ \E f \in Flags, on \in BOOLEAN :
       job' = [job EXCEPT ![c] = [@ EXCEPT !.pc = "lock", !.op = "mutate",
                                           !.field = f, !.on = on]]
  /\ UNCHANGED <<value, revision, watch, seeded, holder, restarts, stray>>

\* request_accessibility, and stamp_first_grant_if_observed, which has nothing to
\* stamp if the watch shows the marker.
StartMark(c) ==
  /\ job[c].pc = "idle" /\ c \notin Remote
  /\ \E f \in Markers :
       /\ f \in Sticky => f \notin watch
       /\ job' = [job EXCEPT ![c] = [@ EXCEPT !.pc = "lock", !.op = "mutate",
                                              !.field = f, !.on = TRUE]]
  /\ UNCHANGED <<value, revision, watch, seeded, holder, restarts, stray>>

\* get_settings_with_revision: a client's snapshot ...
LoadSettings(c) ==
  /\ job[c].pc = "idle"
  /\ job' = [job EXCEPT ![c] = [@ EXCEPT !.pc = "loaded", !.body = value,
                                         !.base = revision]]
  /\ UNCHANGED <<value, revision, watch, seeded, holder, restarts, stray>>

\* ... and the blob it sends back some time later, with one field edited.
StartSave(c) ==
  /\ job[c].pc = "loaded"
  /\ \E op \in {"save", "checked"}, f \in Flags, on \in BOOLEAN :
       job' = [job EXCEPT ![c] = [@ EXCEPT !.pc = "lock", !.op = op, !.field = f,
                                           !.on = on, !.body = With(job[c].body, f, on)]]
  /\ UNCHANGED <<value, revision, watch, seeded, holder, restarts, stray>>

-----------------------------------------------------------------------------
(* The critical section. *)

\* A seeded fault: nobody waits for the lock.
NeverHeld == TRUE

Free == holder = None

Lock(c) ==
  /\ job[c].pc = "lock" /\ Free
  /\ holder' = c
  /\ Moved(c, "read")
  /\ UNCHANGED <<value, revision, watch, seeded, restarts, stray>>

\* What a call goes on with, of the row it has read.
Prepared(j) ==
  CASE j.op = "refresh" -> value
    [] j.op = "mutate"  -> With(value, j.field, j.on)
    [] OTHER            -> Merge(j.body, value)

\* store.get_settings.
Read(c) ==
  /\ job[c].pc = "read"
  /\ job' = [job EXCEPT ![c] =
               [@ EXCEPT !.pc = IF job[c].op = "refresh" THEN "publish" ELSE "write",
                         !.body = Prepared(job[c]), !.seen = revision]]
  /\ UNCHANGED <<value, revision, watch, seeded, holder, restarts, stray>>

\* A seeded fault: the revision is not compared.
AnyRevision(j) == TRUE

\* The compare of the compare-and-swap.
Matches(j) == j.op = "checked" => j.base = revision

\* A write transaction commits.
Saved(j) ==
  /\ revision < MaxRevision
  /\ Matches(j)
  /\ value' = j.body
  /\ revision' = revision + 1

Commit(c) ==
  /\ job[c].pc = "write"
  /\ Saved(job[c])
  /\ job' = [job EXCEPT ![c] = [NoJob EXCEPT !.pc = "publish", !.op = job[c].op,
                                             !.body = job[c].body]]
  /\ UNCHANGED <<watch, seeded, holder, restarts, stray>>

\* The read or the write fails, or the revision has moved (AppError::Conflict).
Fails(c) ==
  /\ job[c].pc \in {"read", "write"}
  /\ holder' = None
  /\ Returned(c)
  /\ UNCHANGED <<value, revision, watch, seeded, restarts, stray>>

\* publish_settings, and the return. (What it does to the pause counter is in module
\* CaptureLoop.)
Publish(c) ==
  /\ job[c].pc = "publish"
  /\ watch' = job[c].body /\ seeded' = TRUE
  /\ holder' = None
  /\ Returned(c)
  /\ UNCHANGED <<value, revision, restarts, stray>>

-----------------------------------------------------------------------------
(* Dropped handlers, and restarts. *)

InSection == {"read", "write", "publish"}

\* The client hangs up, or the handler's deadline passes: the lock is released, and
\* a transaction it has started goes on without it.
Drop(c) ==
  /\ c \in Remote /\ job[c].pc \in {"lock"} \cup InSection
  /\ holder' = IF job[c].pc \in InSection THEN None ELSE holder
  /\ IF job[c].pc = "write" THEN Moved(c, "detached") ELSE Returned(c)
  /\ stray' = IF job[c].pc = "publish" /\ job[c].op # "refresh" THEN revision ELSE stray
  /\ UNCHANGED <<value, revision, watch, seeded, restarts>>

DetachedCommit(c) ==
  /\ job[c].pc = "detached"
  /\ Saved(job[c])
  /\ Returned(c)
  /\ stray' = revision + 1
  /\ UNCHANGED <<watch, seeded, holder, restarts>>

DetachedFails(c) ==
  /\ job[c].pc = "detached"
  /\ Returned(c)
  /\ UNCHANGED <<value, revision, watch, seeded, holder, restarts, stray>>

\* The daemon dies and comes back; the clients of its IPC keep their snapshots.
Restart ==
  /\ restarts < MaxRestarts
  /\ restarts' = restarts + 1
  /\ watch' = Default /\ seeded' = FALSE
  /\ holder' = None
  /\ job' = [c \in Callers |->
               IF c \in Remote /\ job[c].pc = "loaded" THEN job[c] ELSE NoJob]
  /\ UNCHANGED <<value, revision, stray>>

Step(c) ==
  \/ StartRefresh(c) \/ StartToggle(c) \/ StartMark(c) \/ LoadSettings(c) \/ StartSave(c)
  \/ Lock(c) \/ Read(c) \/ Commit(c) \/ Fails(c) \/ Publish(c)
  \/ Drop(c) \/ DetachedCommit(c) \/ DetachedFails(c)

Next == (\E c \in Callers : Step(c)) \/ Restart

Spec == Init /\ [][Next]_vars

-----------------------------------------------------------------------------
(* Properties. *)

Values == SUBSET (Flags \cup Markers)

Jobs ==
  [pc : {"idle", "loaded", "lock", "read", "write", "publish", "detached"},
   op : {"refresh", "mutate", "save", "checked"},
   field : Flags \cup Markers \cup {None}, on : BOOLEAN,
   body : Values, base : Nat, seen : Nat]

\* Every variable has its type, and the caller inside the critical section, if any,
\* is the one that holds the lock: no path leaves it held, none enters without it.
TypeOK ==
  /\ value \in Values /\ watch \in Values
  /\ revision \in Nat /\ restarts \in Nat /\ stray \in Nat
  /\ seeded \in BOOLEAN
  /\ holder \in Callers \cup {None}
  /\ job \in [Callers -> Jobs]
  /\ \A c \in Callers : job[c].pc \in InSection <=> holder = c

\* What the refresh promises of the watch channel: whichever publish lands last
\* matches the store, so once the lock is free a seeded watch shows the row, whatever
\* refreshes, saves, failures and restarts have raced. The exception is a row
\* committed by a handler that was dropped before it published.
WatchFollowsStore ==
  (holder = None /\ seeded /\ (stray = 0 \/ revision # stray)) => watch = value

\* The same, as the comment of refresh_settings_from_store has it.
WatchMatchesStore == (holder = None /\ seeded) => watch = value

\* The fields a call means to change.
Owned(j) == IF j.op = "save" THEN Flags ELSE {j.field}

\* No update is lost: a commit changes the one field its caller meant to change (a
\* save without a revision: any flag) and never clears a marker, however old the
\* snapshot it started from and whatever committed since. Only the compare-and-swap
\* keeps that promise when a dropped handler's transaction commits in between, and
\* when its own handler was dropped.
KeepsOtherFields ==
  [][\A c \in Callers :
       \/ Commit(c) /\ (job[c].op = "checked" \/ job[c].seen >= stray)
       \/ DetachedCommit(c) /\ job[c].op = "checked"
       => /\ \A f \in Flags \cup Markers : (f \in value) # (f \in value') => f \in Owned(job[c])
          /\ value \cap Markers \subseteq value']_vars
=============================================================================
