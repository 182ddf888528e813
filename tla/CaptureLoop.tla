---------------------------- MODULE CaptureLoop ----------------------------
(***************************************************************************)
(* The clipboard capture loop of nagori-daemon                             *)
(* (src/crates/nagori-daemon/src/capture_loop/mod.rs), together with what  *)
(* it runs against: the operating system's clipboard, which other programs *)
(* and nagori's own copy-backs write; the settings runtime, which          *)
(* publishes pauses through a watch channel and a pause counter; and the   *)
(* host, which may sleep and lap the clipboard's change counter.           *)
(*                                                                         *)
(* A tick (capture_once_at) is split at its awaits, so that a copy, a      *)
(* publish or a sleep may fall between any two of its steps.               *)
(***************************************************************************)
EXTENDS Integers, Sequences, FiniteSets

CONSTANTS
  Contents,         \* distinguishable clipboard bodies, one dedupe hash each
  Unreadable,       \* bodies the bounded read refuses: oversized, or excluded
                    \* by an owner marker
  Denied,           \* bodies the admission gates drop on purpose
  None,             \* the absent sequence, hash or clip
  CaptureInitial,   \* capture_initial_clipboard_on_launch
  FailClosed,       \* secure_focus_fail_closed_enabled
  FailThreshold,    \* SECURE_FOCUS_FAIL_CLOSED_THRESHOLD
  MaxClips,         \* bound: clips ever put on the clipboard
  MaxPauses,        \* bound: pauses ever published
  MaxSleeps,        \* bound: host sleeps
  MaxRestarts,      \* bound: supervisor restarts of the loop
  SelfWrites        \* whether copy-backs happen

ASSUME BodiesAssumption == Unreadable \subseteq Contents /\ Denied \subseteq Contents
ASSUME NoneAssumption == None \notin Nat /\ None \notin Contents
ASSUME FlagsAssumption ==
  CaptureInitial \in BOOLEAN /\ FailClosed \in BOOLEAN /\ SelfWrites \in BOOLEAN
ASSUME BoundsAssumption ==
  /\ FailThreshold \in Nat \ {0}
  /\ MaxClips \in Nat \ {0}
  /\ MaxPauses \in Nat /\ MaxSleeps \in Nat /\ MaxRestarts \in Nat

VARIABLES
  (* The clipboard and the host. *)
  clips,       \* every clip ever written, in order; the last is on the clipboard
  landed,      \* FALSE between a writer's clear and its write
  tracker,     \* the clip whose sequence SelfWriteTracker.last holds
  selfOpen,    \* a copy-back has landed and is not recorded yet
  gap,         \* the host slept since the last tick began
  sleeps,      \* sleeps so far (bounded by MaxSleeps)
  (* The settings runtime. *)
  pubEnabled,  \* capture_enabled of the latest value sent on the watch channel
  epoch,       \* CapturePauseEpoch
  noted,       \* a pause is counted and not sent yet
  unseen,      \* the loop's receiver has not seen the latest value
  (* The loop. *)
  enabled,     \* settings.capture_enabled of the loop's snapshot
  seenEpoch,   \* the pause count the loop last acted on
  dedup,       \* DedupState
  axFails,     \* consecutive_secure_ax_failures, saturating at FailThreshold
  recovery,    \* secure_recovery
  pc,          \* where the tick in progress stands
  tick,        \* its locals
  restarts,    \* restarts so far (bounded by MaxRestarts)
  (* History, read by the properties only. *)
  stored,      \* the clips inserted, each with the clip whose source it carries
  settled,     \* clips the loop decided not to record
  secured,     \* clips skipped because a secure field positively had focus
  swallowed    \* pauses a baseline read could not cover: it ran during the pause,
               \* under a stale "enabled" snapshot, or found the clip unwritten

envVars   == <<clips, landed, tracker, selfOpen, gap, sleeps>>
pubVars   == <<pubEnabled, epoch, noted, unseen>>
loopVars  == <<enabled, seenEpoch, dedup, axFails, recovery, pc, tick, restarts>>
ghostVars == <<stored, settled, secured, swallowed>>
vars      == <<envVars, pubVars, loopVars, ghostVars>>

-----------------------------------------------------------------------------
(* The clipboard. *)

Cur    == Len(clips)              \* the clip on the clipboard
CurSeq == clips[Cur].seq          \* its change count
Seqs   == 1..MaxClips             \* change counts
Hash(c) == clips[c].content       \* effective_dedupe_hash

Clip(c, s, own) ==
  [content |-> c, seq |-> s, own |-> own,
   pause |-> IF pubEnabled THEN None ELSE epoch]

NextSeq == CurSeq + 1             \* a counter, until the host sleeps

\* SelfWriteTracker::matches
MatchesSelfWrite(s) == tracker # None /\ clips[tracker].seq = s

Blank == [retry |-> FALSE, force |-> FALSE, seq |-> None, probed |-> None,
          sample |-> None, body |-> FALSE, saved |-> None, source |-> None]

NewDedup(reseed) ==
  [last_sequence |-> None, last_content_hash |-> None,
   force_content_check |-> FALSE, secure_skipped_sequence |-> None,
   pristine |-> TRUE, reseed_on_resume |-> reseed]

Init ==
  /\ pubEnabled \in BOOLEAN
  /\ epoch = IF pubEnabled THEN 0 ELSE 1     \* the start-up refresh publishes too
  /\ noted = FALSE /\ unseen = FALSE
  /\ \E c \in Contents : clips = <<Clip(c, 1, FALSE)>>
  /\ landed = TRUE
  /\ tracker = None /\ selfOpen = FALSE
  /\ gap = FALSE /\ sleeps = 0
  /\ enabled = pubEnabled
  /\ seenEpoch = 0
  /\ dedup = NewDedup(~pubEnabled)
  /\ axFails = 0
  /\ recovery = None
  /\ pc = "idle" /\ tick = Blank
  /\ restarts = 0
  /\ stored = {} /\ settled = {} /\ secured = {} /\ swallowed = {}

-----------------------------------------------------------------------------
(* The environment. *)

\* Another program copies: the clear bumps the change count, the body lands later.
BeginCopy(c) ==
  /\ Cur < MaxClips
  /\ clips' = Append(clips, Clip(c, NextSeq, FALSE))
  /\ landed' = FALSE
  /\ UNCHANGED <<tracker, selfOpen, gap, sleeps, pubVars, loopVars, ghostVars>>

Land ==
  /\ ~landed
  /\ landed' = TRUE
  /\ UNCHANGED <<clips, tracker, selfOpen, gap, sleeps, pubVars, loopVars, ghostVars>>

\* nagori copies a history entry back, then records the sequence it samples.
SelfWrite ==
  /\ SelfWrites /\ ~selfOpen /\ Cur < MaxClips
  /\ \E s \in stored :
       clips' = Append(clips, Clip(clips[s.clip].content, NextSeq, TRUE))
  /\ landed' = TRUE
  /\ selfOpen' = TRUE
  /\ UNCHANGED <<tracker, gap, sleeps, pubVars, loopVars, ghostVars>>

RecordSelfWrite ==
  /\ selfOpen
  /\ tracker' = Cur
  /\ selfOpen' = FALSE
  /\ UNCHANGED <<clips, landed, gap, sleeps, pubVars, loopVars, ghostVars>>

\* The host sleeps for at least RESYNC_GAP_THRESHOLD; on waking, the change
\* count may be lapped and a new clip carry a number that was used before.
Sleep ==
  /\ sleeps < MaxSleeps
  /\ gap' = TRUE
  /\ sleeps' = sleeps + 1
  /\ \/ UNCHANGED <<clips, landed>>
     \/ /\ Cur < MaxClips
        /\ \E c \in Contents, i \in 1..Cur :
             clips' = Append(clips, Clip(c, clips[i].seq, FALSE))
        /\ landed' = TRUE
  /\ UNCHANGED <<tracker, selfOpen, pubVars, loopVars, ghostVars>>

\* publish_settings: a pause is counted before it is sent, and again when a
\* paused value is published once more.
NotePause ==
  /\ ~noted /\ epoch < MaxPauses
  /\ epoch' = epoch + 1
  /\ noted' = TRUE
  /\ UNCHANGED <<pubEnabled, unseen, envVars, loopVars, ghostVars>>

SendPause ==
  /\ noted
  /\ pubEnabled' = FALSE
  /\ noted' = FALSE
  /\ unseen' = TRUE
  /\ UNCHANGED <<epoch, envVars, loopVars, ghostVars>>

SendResume ==
  /\ ~pubEnabled /\ ~noted
  /\ pubEnabled' = TRUE
  /\ unseen' = TRUE
  /\ UNCHANGED <<epoch, noted, envVars, loopVars, ghostVars>>

-----------------------------------------------------------------------------
(* DedupState's operations. *)

\* anchor_decided: a secure-skip marker of another clip is retired.
AnchorDecided(d, s) ==
  [d EXCEPT !.last_sequence = s,
            !.secure_skipped_sequence = IF @ = s THEN @ ELSE None]

Decide(d, s) ==
  [AnchorDecided(d, s) EXCEPT !.force_content_check = FALSE, !.pristine = FALSE]

BeginClip(d, s) ==
  [d EXCEPT !.last_sequence = s, !.force_content_check = FALSE,
            !.pristine = FALSE, !.secure_skipped_sequence = None]

SavedBy(d, force) ==
  [sequence |-> d.last_sequence, content_hash |-> d.last_content_hash,
   force_content_check |-> force,
   secure_skipped_sequence |-> d.secure_skipped_sequence]

\* A seeded fault: a rollback that leaves the sequence anchored.
RollbackKeepsAnchor(d, saved) ==
  [d EXCEPT !.last_content_hash = saved.content_hash,
            !.force_content_check = saved.force_content_check,
            !.secure_skipped_sequence = saved.secure_skipped_sequence]

Rollback(d, saved) ==
  [d EXCEPT !.last_sequence = saved.sequence,
            !.last_content_hash = saved.content_hash,
            !.force_content_check = saved.force_content_check,
            !.secure_skipped_sequence = saved.secure_skipped_sequence]

\* A seeded fault: a wake gap re-reads the secure-skipped clip.
NeverSecureSkipped(d, s) == FALSE

IsSecureSkipped(d, s) ==
  d.secure_skipped_sequence = s /\ d.last_sequence = s

-----------------------------------------------------------------------------
(* The tick. *)

\* Back in run_polling_with_settings' select!: a value published during the tick
\* is ready before the new sleep can be.
EndTick == pc' = (IF unseen THEN "apply" ELSE "idle") /\ tick' = Blank

\* The arm that applies a settings update; one that arrives while the loop waits
\* may lose to a timer that fires at the same time.
UpdateSettings ==
  /\ pc \in {"idle", "apply"} /\ unseen
  /\ pc' = "idle"
  /\ unseen' = FALSE
  /\ enabled' = pubEnabled
  /\ dedup' = IF pubEnabled THEN dedup ELSE [dedup EXCEPT !.reseed_on_resume = TRUE]
  /\ UNCHANGED <<pubEnabled, epoch, noted, seenEpoch, axFails, recovery, tick,
                 restarts, envVars, ghostVars>>

\* capture_once_at up to the pause gate: detect_wake_gap arms the content
\* check, and a recovery source survives only a retry armed before that.
ArmWakeGap(d) == [d EXCEPT !.force_content_check = @ \/ gap]

\* A seeded fault: the recovery source outlives its clip when a wake gap arms the check.
KeptAcrossWake(armedAtStart) == IF armedAtStart \/ gap THEN recovery ELSE None

KeptRecovery(armedAtStart) == IF armedAtStart THEN recovery ELSE None

BeginTick ==
  /\ pc = "idle"
  /\ dedup' = ArmWakeGap(dedup)
  /\ recovery' = KeptRecovery(dedup.force_content_check)
  /\ gap' = FALSE
  /\ pc' = "hold"
  /\ tick' = [tick EXCEPT !.retry = dedup.force_content_check]
  /\ UNCHANGED <<clips, landed, tracker, selfOpen, sleeps, enabled, seenEpoch,
                 axFails, restarts, pubVars, ghostVars>>

\* A seeded fault: the pause counter is not consulted.
PauseUnobserved == FALSE

\* observe_pause_epoch: a pause was published since the loop last looked.
Paused == epoch # seenEpoch

\* hold_for_pause, up to the seed read.
HoldForPause ==
  /\ pc = "hold"
  /\ seenEpoch' = epoch
  /\ dedup' = IF Paused \/ ~enabled
              THEN [dedup EXCEPT !.reseed_on_resume = TRUE] ELSE dedup
  /\ \/ ~enabled /\ EndTick
     \/ enabled /\ dedup'.reseed_on_resume /\ pc' = "resumeSeed" /\ UNCHANGED tick
     \/ enabled /\ ~dedup'.reseed_on_resume /\ pc' = "probe" /\ UNCHANGED tick
  /\ UNCHANGED <<enabled, axFails, recovery, restarts, envVars, pubVars, ghostVars>>

\* seed_baseline: the adapter samples the clipboard ...
SeedSample ==
  /\ pc \in {"resumeSeed", "launchSeed"}
  /\ tick' = [tick EXCEPT !.sample = Cur, !.body = landed]
  /\ pc' = IF pc = "resumeSeed" THEN "resumeAnchor" ELSE "launchAnchor"
  /\ swallowed' = swallowed
       \cup {p \in {epoch} : seenEpoch = p /\ (noted \/ ~pubEnabled)}
       \cup {p \in {clips[Cur].pause} : ~landed /\ p # None}
  /\ UNCHANGED <<enabled, seenEpoch, dedup, axFails, recovery, restarts,
                 stored, settled, secured, envVars, pubVars>>

\* A seeded fault: the baseline anchors the sequence and forgets the hash.
SeededUnhashed(d, c, body) ==
  [AnchorDecided(d, clips[c].seq) EXCEPT !.pristine = FALSE]

\* ... and the loop anchors what it read, hashing a body it can.
Seeded(d, c, body) ==
  [AnchorDecided(d, clips[c].seq) EXCEPT
     !.last_content_hash =
        IF body /\ Hash(c) \notin Unreadable THEN Hash(c) ELSE None,
     !.pristine = FALSE]

SeedAnchor ==
  /\ \/ /\ pc = "resumeAnchor"
        /\ dedup' = [Seeded(dedup, tick.sample, tick.body) EXCEPT
                       !.force_content_check = FALSE, !.reseed_on_resume = FALSE]
     \/ /\ pc = "launchAnchor"
        /\ dedup' = Seeded(dedup, tick.sample, tick.body)
  /\ settled' = settled \cup {tick.sample}
  /\ EndTick
  /\ UNCHANGED <<enabled, seenEpoch, axFails, recovery, restarts,
                 stored, secured, swallowed, envVars, pubVars>>

\* current_sequence_with_max, then skip_by_sequence and the launch baseline.
ProbeUnchanged ==
  /\ ~dedup.force_content_check /\ dedup.last_sequence = CurSeq
  /\ UNCHANGED <<dedup, settled>>
  /\ EndTick

ProbeSelfWrite ==
  /\ ~dedup.force_content_check /\ dedup.last_sequence # CurSeq
  /\ MatchesSelfWrite(CurSeq)
  /\ dedup' = [AnchorDecided(dedup, CurSeq) EXCEPT !.pristine = FALSE]
  /\ settled' = settled \cup {Cur}
  /\ EndTick

ProbeSecureResync ==
  /\ dedup.force_content_check /\ IsSecureSkipped(dedup, CurSeq)
  /\ dedup' = [dedup EXCEPT !.force_content_check = FALSE]
  /\ settled' = settled \cup {Cur}
  /\ EndTick

DecidedBySequence(d, s) ==
  IF d.force_content_check THEN IsSecureSkipped(d, s)
                           ELSE d.last_sequence = s \/ MatchesSelfWrite(s)

ProbeUndecided ==
  /\ ~DecidedBySequence(dedup, CurSeq)
  /\ IF dedup.pristine /\ ~CaptureInitial
     THEN pc' = "launchSeed" /\ UNCHANGED tick
     ELSE /\ pc' = "focus"
          /\ tick' = [tick EXCEPT !.seq = CurSeq, !.probed = Cur,
                                  !.force = dedup.force_content_check]
  /\ UNCHANGED <<dedup, settled>>

ProbeSequence ==
  /\ pc = "probe"
  /\ \/ ProbeUnchanged
     \/ ProbeSelfWrite
     \/ ProbeSecureResync
     \/ ProbeUndecided
  /\ UNCHANGED <<enabled, seenEpoch, axFails, recovery, restarts,
                 stored, secured, swallowed, envVars, pubVars>>

\* resolve_secure_focus and skip_for_secure_focus.
Secure(ax) == ax \in {"secure", "override"}

\* A seeded fault: the failure count passes its ceiling.
FailuresOverrun(ax) == IF ax \in {"secure", "open"} THEN 0 ELSE axFails + 1

Failures(ax) == IF ax \in {"secure", "open"} THEN 0
                ELSE IF axFails < FailThreshold THEN axFails + 1 ELSE FailThreshold

VisibilityLost(ax) == ax = "error" /\ FailClosed /\ Failures(ax) = FailThreshold

SkipSecure ==
  /\ dedup' = [dedup EXCEPT !.last_sequence = tick.seq,
                            !.secure_skipped_sequence = tick.seq,
                            !.force_content_check = FALSE, !.pristine = FALSE]
  /\ recovery' = None
  /\ secured' = secured \cup ({tick.probed} \ {s.clip : s \in stored})
  /\ settled' = settled \cup {tick.probed}
  /\ EndTick

SkipBlind ==
  /\ dedup' = [dedup EXCEPT !.force_content_check = TRUE, !.pristine = FALSE]
  /\ recovery' = IF recovery # None /\ recovery.sequence = tick.seq THEN recovery
                 ELSE [sequence |-> tick.seq, source |-> tick.probed]
  /\ EndTick
  /\ UNCHANGED <<secured, settled>>

ResolveFocus ==
  /\ pc = "focus"
  /\ \E ax \in {"secure", "override", "open", "error"} :
       /\ axFails' = Failures(ax)
       /\ \/ Secure(ax) /\ SkipSecure
          \/ VisibilityLost(ax) /\ SkipBlind
          \/ /\ ~Secure(ax) /\ ~VisibilityLost(ax)
             /\ pc' = "read"
             /\ UNCHANGED <<dedup, recovery, tick, secured, settled>>
  /\ UNCHANGED <<enabled, seenEpoch, restarts, stored, swallowed, envVars, pubVars>>

\* current_snapshot_with_max: the adapter samples; the clip may be newer than
\* the one probed.
ReadSnapshot ==
  /\ pc = "read"
  /\ tick' = [tick EXCEPT !.sample = Cur, !.body = landed]
  /\ pc' = "admit"
  /\ UNCHANGED <<enabled, seenEpoch, dedup, axFails, recovery, restarts,
                 envVars, pubVars, ghostVars>>

\* The rest of capture_once_at, up to the insert.
SampleSeq == clips[tick.sample].seq
SampleHash == Hash(tick.sample)

\* recovered_capture_source
Source == IF recovery # None /\ recovery.sequence = SampleSeq
          THEN recovery.source ELSE tick.sample

DropUnreadable ==
  /\ tick.body /\ SampleHash \in Unreadable
  /\ dedup' = Decide(dedup, SampleSeq)
  /\ settled' = settled \cup {tick.sample}
  /\ EndTick

\* A seeded fault: an empty snapshot decides the clip.
EmptyIsDecided ==
  /\ ~tick.body
  /\ dedup' = BeginClip(dedup, SampleSeq)
  /\ UNCHANGED settled
  /\ EndTick

\* An empty snapshot: the writer has cleared and not written yet.
RetryEmpty ==
  /\ ~tick.body
  /\ dedup' = [BeginClip(dedup, SampleSeq) EXCEPT !.force_content_check = TRUE]
  /\ UNCHANGED settled
  /\ EndTick

IsDuplicate == tick.force /\ dedup.last_content_hash = SampleHash

DropDuplicate ==
  /\ tick.body /\ SampleHash \notin Unreadable /\ IsDuplicate
  /\ dedup' = BeginClip(dedup, SampleSeq)
  /\ UNCHANGED settled
  /\ EndTick

Accepted(d) == [BeginClip(d, SampleSeq) EXCEPT !.last_content_hash = SampleHash]

DropDenied ==
  /\ SampleHash \in Denied
  /\ dedup' = Accepted(dedup)
  /\ settled' = settled \cup {tick.sample}
  /\ EndTick

\* A denylist pattern that does not compile: the clip is handed back.
AdmissionFails ==
  /\ dedup' = Rollback(Accepted(dedup), SavedBy(dedup, tick.force))
  /\ UNCHANGED settled
  /\ EndTick

AdmissionReady ==
  /\ SampleHash \notin Denied
  /\ dedup' = Accepted(dedup)
  /\ tick' = [tick EXCEPT !.saved = SavedBy(dedup, tick.force), !.source = Source]
  /\ pc' = "persist"
  /\ UNCHANGED settled

AdmitClip ==
  /\ pc = "admit"
  /\ \/ DropUnreadable
     \/ RetryEmpty
     \/ DropDuplicate
     \/ /\ tick.body /\ SampleHash \notin Unreadable /\ ~IsDuplicate
        /\ DropDenied \/ AdmissionFails \/ AdmissionReady
  /\ UNCHANGED <<enabled, seenEpoch, axFails, recovery, restarts,
                 stored, secured, swallowed, envVars, pubVars>>

\* persist_entry: a pause published since the gate drops the clip.
CheckPause ==
  /\ pc = "persist"
  /\ seenEpoch' = epoch
  /\ \/ /\ Paused
        /\ dedup' = [dedup EXCEPT !.reseed_on_resume = TRUE]
        /\ settled' = settled \cup {tick.sample}
        /\ EndTick
     \/ /\ ~Paused
        /\ pc' = "insert"
        /\ UNCHANGED <<dedup, settled, tick>>
  /\ UNCHANGED <<enabled, axFails, recovery, restarts,
                 stored, secured, swallowed, envVars, pubVars>>

InsertEntry ==
  /\ pc = "insert"
  /\ stored' = stored \cup {[clip |-> tick.sample, source |-> tick.source]}
  /\ EndTick
  /\ UNCHANGED <<enabled, seenEpoch, dedup, axFails, recovery, restarts,
                 settled, secured, swallowed, envVars, pubVars>>

InsertFails ==
  /\ pc = "insert"
  /\ dedup' = Rollback(dedup, tick.saved)
  /\ EndTick
  /\ UNCHANGED <<enabled, seenEpoch, axFails, recovery, restarts,
                 envVars, pubVars, ghostVars>>

\* A sequence or body read fails: the tick ends with the error.
ReadFails ==
  /\ pc \in {"resumeSeed", "launchSeed", "probe", "read"}
  /\ EndTick
  /\ UNCHANGED <<enabled, seenEpoch, dedup, axFails, recovery, restarts,
                 envVars, pubVars, ghostVars>>

\* The loop panics and its supervisor builds a new one over the same adapter.
Restart ==
  /\ restarts < MaxRestarts
  /\ restarts' = restarts + 1
  /\ enabled' = pubEnabled
  /\ unseen' = TRUE                    \* its receiver is cloned from the first one
  /\ seenEpoch' = 0
  /\ dedup' = NewDedup(~pubEnabled)
  /\ axFails' = 0
  /\ recovery' = None
  /\ gap' = FALSE
  /\ pc' = "apply" /\ tick' = Blank
  /\ UNCHANGED <<clips, landed, tracker, selfOpen, sleeps, pubEnabled, epoch, noted,
                 ghostVars>>

Environment ==
  \/ \E c \in Contents : BeginCopy(c)
  \/ Land
  \/ SelfWrite \/ RecordSelfWrite
  \/ Sleep
  \/ NotePause \/ SendPause \/ SendResume

LoopStep ==
  \/ UpdateSettings \/ BeginTick \/ HoldForPause
  \/ SeedSample \/ SeedAnchor
  \/ ProbeSequence \/ ResolveFocus \/ ReadSnapshot
  \/ AdmitClip \/ CheckPause
  \/ InsertEntry \/ InsertFails \/ ReadFails

Next == Environment \/ LoopStep \/ Restart

Spec == Init /\ [][Next]_vars

-----------------------------------------------------------------------------
(* Properties. *)

Opt(S) == S \cup {None}
ClipIds == 1..MaxClips

Dedups ==
  [last_sequence : Opt(Seqs), last_content_hash : Opt(Contents),
   force_content_check : BOOLEAN, secure_skipped_sequence : Opt(Seqs),
   pristine : BOOLEAN, reseed_on_resume : BOOLEAN]

Saves ==
  [sequence : Opt(Seqs), content_hash : Opt(Contents),
   force_content_check : BOOLEAN, secure_skipped_sequence : Opt(Seqs)]

Ticks ==
  [retry : BOOLEAN, force : BOOLEAN, seq : Opt(Seqs), probed : Opt(ClipIds),
   sample : Opt(ClipIds), body : BOOLEAN, saved : Opt(Saves),
   source : Opt(ClipIds)]

Stages == {"idle", "apply", "hold", "resumeSeed", "resumeAnchor", "probe", "launchSeed",
           "launchAnchor", "focus", "read", "admit", "persist", "insert"}

\* Every variable has its type.
TypeOK ==
  /\ clips \in Seq([content : Contents, seq : Seqs, own : BOOLEAN,
                    pause : Opt(Nat)])
  /\ Len(clips) \in ClipIds
  /\ landed \in BOOLEAN /\ tracker \in Opt(ClipIds) /\ selfOpen \in BOOLEAN
  /\ gap \in BOOLEAN /\ sleeps \in 0..MaxSleeps
  /\ pubEnabled \in BOOLEAN /\ epoch \in Nat /\ noted \in BOOLEAN /\ unseen \in BOOLEAN
  /\ enabled \in BOOLEAN /\ seenEpoch \in Nat
  /\ dedup \in Dedups /\ axFails \in 0..FailThreshold
  /\ recovery \in Opt([sequence : Seqs, source : ClipIds])
  /\ pc \in Stages /\ tick \in Ticks /\ restarts \in 0..MaxRestarts
  /\ stored \subseteq [clip : ClipIds, source : ClipIds]
  /\ settled \subseteq ClipIds /\ secured \subseteq ClipIds /\ swallowed \subseteq Nat

InHistory == {s.clip : s \in stored}

\* The body of clip c is in history, or the loop decided not to record it.
Decided(c) == \E e \in 1..Cur : Hash(e) = Hash(c) /\ e \in InHistory \cup settled

\* No clip is stranded: between ticks, when the next tick would skip the clip on
\* the clipboard by its sequence, that clip has been recorded or decided. A
\* failed read, admission or insert, a body read between a writer's clear and
\* its write, a lapped change count and an Accessibility outage all leave the
\* loop able to see the clip again (begin_clip / rollback, the one-shot
\* force_content_check, the unanchored fail-closed skip).
NoStrandedClip ==
  (pc \in {"idle", "apply"} /\ ~gap /\ landed /\ ~dedup.force_content_check
     /\ dedup.last_sequence = CurSeq) => Decided(Cur)

\* A clip skipped because a secure field positively had focus is not recorded by
\* any later step: not once focus has left the field, not after a wake gap
\* re-reads it, a pause, a failed tick or a blind spell (skip_for_secure_focus,
\* is_secure_skipped).
SecureClipStaysOut ==
  [][\A c \in secured : c \in InHistory' => c \in InHistory]_vars

\* With capture_initial_clipboard_on_launch off, the clip that was on the
\* clipboard at launch is never recorded, whatever reads fail and however the
\* host sleeps (seed_baseline).
LaunchClipStaysOut == ~CaptureInitial => 1 \notin InHistory

\* A clip copied during a pause is recorded only if a baseline read could not
\* cover that pause: a tick under a stale "enabled" snapshot read during the pause
\* and so consumed the counter's mark, or the read fell between the clip's clear
\* and its write (and a wake gap had it read again). Every other interleaving of a
\* pause, a resume, a sleep, a restart and a tick keeps it out
\* (CapturePauseEpoch, hold_for_pause, update_settings, persist_entry).
PausedClipStaysOut ==
  [][\A c \in InHistory' \ InHistory : clips[c].pause \in swallowed \cup {None}]_vars

\* A source remembered from an Accessibility outage is given to another clip
\* only while the outage's re-read was still pending when the tick began; one
\* left behind by a decided clip is dropped, even by a wake-gap tick
\* (SecureRecovery, the retry_armed_at_tick_start gate).
StaleSourceIsDropped ==
  [][\A s \in stored' \ stored : s.source # s.clip => tick.retry]_vars

\* What ARCHITECTURE.md says of a copy-back: a clip the app wrote, whose sequence
\* the adapter has recorded, is not captured again (outside a wake-gap re-read;
\* the copy-backs already on the clipboard when the tick probed it are left out,
\* for the window between a write and its record is documented).
SelfWriteNotRecaptured ==
  [][\A c \in InHistory' \ InHistory :
       ~(clips[c].own /\ tracker = c /\ tick.probed # c /\ ~tick.force)]_vars

\* What ARCHITECTURE.md says of a lapped change count: a clip another program wrote
\* is hash-checked, not dropped as the app's own because its number collides with
\* an old self-write (a tick the sleep overtook is left out: the next one re-reads).
CollidingClipNotSuppressed ==
  [][(pc = "probe" /\ ~dedup.force_content_check /\ ~gap /\ Cur \in settled' \ settled)
       => clips[Cur].own \/ tracker = Cur]_vars

\* What ARCHITECTURE.md says of a pause: once the loop has seen the resume, a clip
\* copied during the pause is not recorded, not even when the pause and the resume
\* coalesced on the watch channel while a tick was running.
PausedClipNotRecordedOnResume ==
  [][\A c \in InHistory' \ InHistory :
       (pubEnabled /\ ~unseen) => clips[c].pause = None]_vars

-----------------------------------------------------------------------------
(* Liveness. *)

FocusIsOpen == ResolveFocus /\ axFails' = 0 /\ pc' = "read"

\* The polling loop keeps ticking and select! takes a ready settings update
\* sooner or later; reads, the Accessibility query, admission and the insert may
\* fail, but not forever; a writer that cleared the clipboard finishes.
Fairness ==
  /\ WF_vars(Land) /\ WF_vars(RecordSelfWrite) /\ WF_vars(SendPause)
  /\ WF_vars(BeginTick) /\ WF_vars(HoldForPause) /\ WF_vars(SeedAnchor)
  /\ WF_vars(AdmitClip) /\ WF_vars(CheckPause)
  /\ SF_vars(UpdateSettings) /\ SF_vars(SeedSample) /\ SF_vars(ProbeSequence)
  /\ SF_vars(FocusIsOpen) /\ SF_vars(ReadSnapshot)
  /\ SF_vars(AdmitClip /\ pc' = "persist") /\ SF_vars(InsertEntry)

FairSpec == Spec /\ Fairness

\* While capture is on, the clip on the clipboard is recorded or decided in the
\* end, through failed ticks, a mid-write read, an Accessibility outage, a pause
\* and a lapped change count.
ClipIsDecided == []<>(Decided(Cur) \/ ~landed \/ ~pubEnabled)
=============================================================================
