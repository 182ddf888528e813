------------------------- MODULE CaptureLoopProofs -------------------------
(***************************************************************************)
(* Theorems about CaptureLoop, for any bodies, thresholds and bounds.      *)
(***************************************************************************)
EXTENDS CaptureLoop, TLAPS

ClipRecords == [content : Contents, seq : Seqs, own : BOOLEAN, pause : Opt(Nat)]
Recoveries == [sequence : Seqs, source : ClipIds]

\* The stages in which the tick has sampled the clipboard.
Sampled == {"resumeAnchor", "launchAnchor", "admit", "persist", "insert"}

\* What the loop keeps from one tick to the next has its type, ...
Memory ==
  /\ enabled \in BOOLEAN /\ seenEpoch \in Nat /\ restarts \in 0..MaxRestarts
  /\ dedup \in Dedups /\ axFails \in 0..FailThreshold
  /\ recovery \in Opt(Recoveries)
  /\ recovery # None => recovery.source \in 1..Cur

\* ... at each stage of a tick the locals it goes on with have been set, and name
\* clips that exist, ...
Locals ==
  /\ pc \in Stages /\ tick \in Ticks
  /\ pc = "focus" => tick.seq \in Seqs /\ tick.probed \in 1..Cur
  /\ pc \in Sampled => tick.sample \in 1..Cur
  /\ pc \in {"persist", "insert"} => tick.saved \in Saves /\ tick.source \in 1..Cur

\* ... the history is of clips that exist, ...
History ==
  /\ stored \subseteq [clip : 1..Cur, source : 1..Cur]
  /\ settled \subseteq ClipIds /\ secured \subseteq ClipIds /\ swallowed \subseteq Nat

\* ... and no clip's number exceeds its place in the order.
Staged ==
  /\ \A i \in 1..Cur : clips[i].seq <= i
  /\ tracker \in Opt(1..Cur)
  /\ Memory /\ Locals /\ History

-----------------------------------------------------------------------------
(* The operations on DedupState. *)

LEMMA DedupOperations ==
  ASSUME NEW d \in Dedups, NEW s \in Seqs
  PROVE  /\ AnchorDecided(d, s) \in Dedups
         /\ Decide(d, s) \in Dedups
         /\ BeginClip(d, s) \in Dedups
<1>1. AnchorDecided(d, s) \in Dedups
  BY DEF AnchorDecided, Dedups, Opt
<1>2. Decide(d, s) \in Dedups
  BY <1>1 DEF Decide, Dedups
<1>3. BeginClip(d, s) \in Dedups
  BY DEF BeginClip, Dedups, Opt
<1> QED
  BY <1>1, <1>2, <1>3

LEMMA SavedState ==
  ASSUME NEW d \in Dedups, NEW force \in BOOLEAN
  PROVE  SavedBy(d, force) \in Saves
  BY DEF SavedBy, Saves, Dedups

LEMMA RolledBack ==
  ASSUME NEW d \in Dedups, NEW saved \in Saves
  PROVE  Rollback(d, saved) \in Dedups
  BY DEF Rollback, Saves, Dedups

LEMMA NewState ==
  /\ Blank \in Ticks
  /\ \A reseed \in BOOLEAN : NewDedup(reseed) \in Dedups
  BY DEF Blank, Ticks, NewDedup, Dedups, Opt

LEMMA TickSampled ==
  ASSUME NEW t \in Ticks, NEW c \in ClipIds, NEW b \in BOOLEAN
  PROVE  /\ [t EXCEPT !.sample = c, !.body = b] \in Ticks
         /\ [t EXCEPT !.sample = c, !.body = b].sample = c
  BY DEF Ticks, Opt

\* The clips that exist, and the one on the clipboard.
LEMMA ClipFacts ==
  ASSUME TypeOK
  PROVE  /\ Cur \in 1..MaxClips /\ Cur \in Nat /\ 1..Cur \subseteq ClipIds
         /\ \A i \in 1..Cur : /\ clips[i] \in ClipRecords
                              /\ clips[i].seq \in Seqs /\ Hash(i) \in Contents
         /\ CurSeq \in Seqs
<1>1. Cur \in 1..MaxClips /\ Cur \in Nat /\ 1..Cur \subseteq ClipIds
  BY BoundsAssumption DEF TypeOK, Cur, ClipIds
<1>2. \A i \in 1..Cur : clips[i] \in ClipRecords
  <2>1. clips \in Seq(ClipRecords)
    BY DEF TypeOK, ClipRecords
  <2> QED
    BY <2>1 DEF Cur
<1> QED
  BY <1>1, <1>2 DEF ClipRecords, Hash, CurSeq

-----------------------------------------------------------------------------
(* The environment's steps. *)

\* A clip added to the others.
LEMMA ClipsGrow ==
  ASSUME TypeOK, Staged, Cur < MaxClips, NEW x \in ClipRecords, x.seq <= Cur + 1,
         clips' = Append(clips, x)
  PROVE  /\ clips' \in Seq(ClipRecords) /\ Cur' = Cur + 1 /\ Len(clips') \in ClipIds
         /\ \A i \in 1..Cur : clips'[i] = clips[i]
         /\ clips'[Cur + 1] = x
         /\ \A i \in 1..Cur' : clips'[i].seq <= i
<1>1. clips \in Seq(ClipRecords) /\ Cur \in Nat /\ MaxClips \in Nat
  BY BoundsAssumption, ClipFacts DEF TypeOK, ClipRecords
<1>2. /\ clips' \in Seq(ClipRecords) /\ Len(clips') = Cur + 1
      /\ \A i \in 1..Cur : clips'[i] = clips[i]
      /\ clips'[Cur + 1] = x
  BY <1>1 DEF Cur
<1>3. Cur' = Cur + 1 /\ Len(clips') \in ClipIds
  BY <1>1, <1>2 DEF Cur, ClipIds
<1>4. \A i \in 1..Cur' : clips'[i].seq <= i
  BY <1>1, <1>2, <1>3 DEF Staged
<1> QED
  BY <1>2, <1>3, <1>4

LEMMA NewClip ==
  ASSUME TypeOK, NEW c \in Contents, NEW s \in Seqs, NEW own \in BOOLEAN
  PROVE  Clip(c, s, own) \in ClipRecords /\ Clip(c, s, own).seq = s
         /\ Clip(c, s, own).content = c
  BY DEF Clip, ClipRecords, TypeOK, Opt

\* Whatever the environment does to the clipboard, the clips that were there stay.
LEMMA EnvironmentGrows ==
  ASSUME TypeOK, Staged, Environment
  PROVE  /\ clips' \in Seq(ClipRecords) /\ Len(clips') \in ClipIds
         /\ Cur' \in Nat /\ Cur <= Cur' /\ \A i \in 1..Cur : clips'[i] = clips[i]
         /\ \A i \in 1..Cur' : clips'[i].seq <= i
         /\ tracker' \in Opt(1..Cur')
<1>0. /\ Cur \in Nat /\ clips \in Seq(ClipRecords) /\ Len(clips) \in ClipIds
      /\ \A i \in 1..Cur : clips[i].seq <= i /\ clips[i].seq \in Seqs
      /\ Cur \in 1..Cur /\ tracker \in Opt(1..Cur) /\ MaxClips \in Nat
  BY ClipFacts, BoundsAssumption DEF TypeOK, Staged, ClipRecords
<1>1. CASE clips' = clips /\ tracker' \in {tracker, Cur}
  <2>1. Cur' = Cur
    BY <1>1 DEF Cur
  <2>2. tracker' \in Opt(1..Cur)
    BY <1>0, <1>1 DEF Opt
  <2> QED
    BY <1>0, <1>1, <2>1, <2>2
<1>2. ASSUME NEW x \in ClipRecords, Cur < MaxClips, x.seq <= Cur + 1,
             clips' = Append(clips, x), tracker' = tracker
      PROVE  /\ clips' \in Seq(ClipRecords) /\ Len(clips') \in ClipIds
             /\ Cur' \in Nat /\ Cur <= Cur' /\ \A i \in 1..Cur : clips'[i] = clips[i]
             /\ \A i \in 1..Cur' : clips'[i].seq <= i
             /\ tracker' \in Opt(1..Cur')
  <2>1. /\ clips' \in Seq(ClipRecords) /\ Cur' = Cur + 1 /\ Len(clips') \in ClipIds
        /\ \A i \in 1..Cur : clips'[i] = clips[i]
        /\ \A i \in 1..Cur' : clips'[i].seq <= i
    BY <1>2, ClipsGrow
  <2>2. Cur' \in Nat /\ Cur <= Cur' /\ 1..Cur \subseteq 1..Cur'
    BY <1>0, <2>1
  <2>3. tracker' \in Opt(1..Cur')
    BY <1>0, <1>2, <2>2 DEF Opt
  <2> QED
    BY <2>1, <2>2, <2>3
<1>3. Cur < MaxClips => NextSeq \in Seqs /\ NextSeq <= Cur + 1
  BY <1>0 DEF NextSeq, CurSeq, Seqs
<1>4. ASSUME NEW c \in Contents, BeginCopy(c)
      PROVE  \E x \in ClipRecords : /\ Cur < MaxClips /\ x.seq <= Cur + 1
                                    /\ clips' = Append(clips, x) /\ tracker' = tracker
  BY <1>3, <1>4, NewClip DEF BeginCopy
<1>5. CASE SelfWrite
  <2>1. PICK s \in stored : clips' = Append(clips, Clip(clips[s.clip].content, NextSeq, TRUE))
    BY <1>5 DEF SelfWrite
  <2>2. clips[s.clip].content \in Contents
    BY ClipFacts, <1>5 DEF Staged, History, SelfWrite, ClipRecords
  <2>3. \E x \in ClipRecords : /\ Cur < MaxClips /\ x.seq <= Cur + 1
                               /\ clips' = Append(clips, x) /\ tracker' = tracker
    BY <1>3, <1>5, <2>1, <2>2, NewClip DEF SelfWrite
  <2> QED
    BY <1>2, <2>3
<1>6. CASE Sleep
  <2>1. CASE UNCHANGED clips
    BY <1>1, <1>6, <2>1 DEF Sleep
  <2>2. CASE \E c \in Contents, i \in 1..Cur :
               clips' = Append(clips, Clip(c, clips[i].seq, FALSE)) /\ Cur < MaxClips
    <3>1. PICK c \in Contents, i \in 1..Cur :
             clips' = Append(clips, Clip(c, clips[i].seq, FALSE)) /\ Cur < MaxClips
      BY <2>2
    <3>2. clips[i].seq \in Seqs /\ clips[i].seq <= Cur + 1
      BY <1>0 DEF Seqs
    <3>3. PICK x \in ClipRecords : x = Clip(c, clips[i].seq, FALSE) /\ x.seq = clips[i].seq
      <4>1. FALSE \in BOOLEAN
        OBVIOUS
      <4>2. /\ Clip(c, clips[i].seq, FALSE) \in ClipRecords
            /\ Clip(c, clips[i].seq, FALSE).seq = clips[i].seq
        BY <3>2, <4>1, NewClip
      <4> QED
        BY <4>2
    <3>4. tracker' = tracker
      BY <1>6 DEF Sleep
    <3> QED
      BY <1>2, <3>1, <3>2, <3>3, <3>4
  <2> QED
    BY <1>6, <2>1, <2>2 DEF Sleep
<1>7. CASE Land \/ NotePause \/ SendPause \/ SendResume \/ RecordSelfWrite
  BY <1>1, <1>7 DEF Land, NotePause, SendPause, SendResume, RecordSelfWrite, envVars
<1> QED
  BY <1>2, <1>4, <1>5, <1>6, <1>7 DEF Environment

LEMMA EnvironmentTyped ==
  ASSUME TypeOK, Staged, Environment
  PROVE  TypeOK' /\ Staged'
<1>1. /\ clips' \in Seq(ClipRecords) /\ Len(clips') \in ClipIds
      /\ Cur' \in Nat /\ Cur <= Cur' /\ \A i \in 1..Cur : clips'[i] = clips[i]
      /\ \A i \in 1..Cur' : clips'[i].seq <= i
      /\ tracker' \in Opt(1..Cur')
  BY EnvironmentGrows
<1>2. UNCHANGED <<loopVars, ghostVars>>
  BY DEF Environment, BeginCopy, Land, SelfWrite, RecordSelfWrite, Sleep, NotePause,
         SendPause, SendResume
<1>3. tracker' \in Opt(ClipIds)
  <2>1. 1..Cur' \subseteq ClipIds
    BY <1>1, BoundsAssumption DEF ClipIds, Cur
  <2> QED
    BY <1>1, <2>1 DEF Opt
<1>4. /\ landed' \in BOOLEAN /\ selfOpen' \in BOOLEAN /\ gap' \in BOOLEAN
      /\ sleeps' \in 0..MaxSleeps
      /\ pubEnabled' \in BOOLEAN /\ epoch' \in Nat /\ noted' \in BOOLEAN /\ unseen' \in BOOLEAN
  <2>0. /\ landed \in BOOLEAN /\ selfOpen \in BOOLEAN /\ gap \in BOOLEAN
        /\ sleeps \in 0..MaxSleeps /\ MaxSleeps \in Nat
        /\ pubEnabled \in BOOLEAN /\ epoch \in Nat /\ noted \in BOOLEAN /\ unseen \in BOOLEAN
    BY BoundsAssumption DEF TypeOK
  <2>1. CASE \E c \in Contents : BeginCopy(c)
    BY <2>0, <2>1 DEF BeginCopy, pubVars
  <2>2. CASE Land \/ SelfWrite \/ RecordSelfWrite
    BY <2>0, <2>2 DEF Land, SelfWrite, RecordSelfWrite, pubVars
  <2>3. CASE Sleep
    <3>1. sleeps' \in 0..MaxSleeps
      BY <2>0, <2>3 DEF Sleep
    <3>2. landed' \in BOOLEAN
      BY <2>0, <2>3, Zenon DEF Sleep
    <3> QED
      BY <2>0, <2>3, <3>1, <3>2, Zenon DEF Sleep, pubVars
  <2>4. CASE NotePause
    <3>1. epoch' \in Nat
      BY <2>0, <2>4 DEF NotePause
    <3> QED
      BY <2>0, <2>4, <3>1, Zenon DEF NotePause, envVars
  <2>5. CASE SendPause \/ SendResume
    BY <2>0, <2>5, Zenon DEF SendPause, SendResume, envVars
  <2> QED
    BY <2>1, <2>2, <2>3, <2>4, <2>5 DEF Environment
<1>5. TypeOK'
  BY <1>1, <1>2, <1>3, <1>4 DEF TypeOK, ClipRecords, loopVars, ghostVars
<1>6. Staged'
  <2>1. Cur \in Nat /\ 1..Cur \subseteq 1..Cur'
    BY <1>1, ClipFacts
  <2> QED
    BY <1>1, <1>2, <2>1 DEF Staged, Memory, Locals, History, loopVars, ghostVars
<1> QED
  BY <1>5, <1>6

-----------------------------------------------------------------------------
(* The loop's steps. *)

LEMMA LoopTypes ==
  ASSUME TypeOK, Staged, UNCHANGED envVars, UNCHANGED <<epoch, noted, pubEnabled>>,
         unseen' \in BOOLEAN, Memory', Locals', History'
  PROVE  TypeOK' /\ Staged'
<1>1. Cur' = Cur /\ 1..Cur \subseteq ClipIds
  BY ClipFacts DEF envVars, Cur
<1>2. stored' \subseteq [clip : ClipIds, source : ClipIds]
  BY <1>1 DEF History
<1>3. TypeOK'
  BY <1>1, <1>2 DEF TypeOK, Memory, Locals, History, Recoveries, envVars
<1>4. Staged'
  BY <1>1 DEF Staged, envVars
<1> QED
  BY <1>3, <1>4

\* A tick that ends has no locals left.
LEMMA EndTickTypes ==
  ASSUME EndTick
  PROVE  Locals'
  BY NewState DEF EndTick, Locals, Stages, Sampled

LEMMA UpdateSettingsTyped ==
  ASSUME TypeOK, Staged, UpdateSettings
  PROVE  TypeOK' /\ Staged'
<1>1. Cur' = Cur /\ UNCHANGED envVars
  BY DEF UpdateSettings, envVars, Cur
<1>2. dedup' \in Dedups
  BY DEF UpdateSettings, TypeOK, Dedups
<1>3. Memory'
  BY <1>1, <1>2 DEF UpdateSettings, Staged, Memory, TypeOK
<1>4. Locals'
  BY <1>1 DEF UpdateSettings, Staged, Locals, Stages, Sampled
<1>5. History'
  BY <1>1 DEF UpdateSettings, Staged, History, ghostVars
<1> QED
  BY <1>1, <1>3, <1>4, <1>5, LoopTypes DEF UpdateSettings

LEMMA BeginTickTyped ==
  ASSUME TypeOK, Staged, BeginTick
  PROVE  TypeOK' /\ Staged'
<1>1. Cur' = Cur /\ UNCHANGED <<clips, landed, tracker, selfOpen, sleeps>> /\ gap' = FALSE
  BY DEF BeginTick, Cur
<1>2. dedup' \in Dedups
  BY DEF BeginTick, ArmWakeGap, TypeOK, Dedups
<1>3. recovery' \in {recovery, None}
  BY DEF BeginTick, KeptRecovery
<1>4. tick' \in Ticks
  BY DEF BeginTick, TypeOK, Ticks, Dedups
<1>5. Memory'
  BY <1>1, <1>2, <1>3 DEF BeginTick, Staged, Memory, Opt
<1>6. Locals'
  BY <1>1, <1>4 DEF BeginTick, Staged, Locals, Stages, Sampled
<1>7. History'
  BY <1>1 DEF BeginTick, Staged, History, ghostVars
<1>8. Staged'
  BY <1>1, <1>5, <1>6, <1>7 DEF Staged
<1>9. TypeOK'
  <2>1. stored' \subseteq [clip : ClipIds, source : ClipIds]
    BY <1>1, <1>7, ClipFacts DEF History
  <2> QED
    BY <1>1, <1>5, <1>6, <1>7, <2>1
       DEF BeginTick, pubVars, TypeOK, Memory, Locals, History, Recoveries
<1> QED
  BY <1>8, <1>9

LEMMA HoldForPauseTyped ==
  ASSUME TypeOK, Staged, HoldForPause
  PROVE  TypeOK' /\ Staged'
<1>1. Cur' = Cur /\ UNCHANGED <<envVars, pubVars, ghostVars>>
  BY DEF HoldForPause, envVars, Cur
<1>2. dedup' \in Dedups
  BY DEF HoldForPause, TypeOK, Dedups
<1>3. Memory'
  BY <1>1, <1>2 DEF HoldForPause, Staged, Memory, TypeOK
<1>4. Locals'
  BY <1>1, EndTickTypes DEF HoldForPause, Staged, Locals, Stages, Sampled
<1>5. History'
  BY <1>1 DEF Staged, History, ghostVars
<1> QED
  BY <1>1, <1>3, <1>4, <1>5, LoopTypes DEF pubVars, TypeOK

LEMMA SeedTyped ==
  ASSUME TypeOK, Staged, SeedSample \/ SeedAnchor
  PROVE  TypeOK' /\ Staged'
<1>1. Cur' = Cur /\ UNCHANGED <<envVars, pubVars>>
  BY DEF SeedSample, SeedAnchor, envVars, Cur
<1>2. CASE SeedSample
  <2>1. tick' \in Ticks /\ tick'.sample = Cur
    <3>1. tick \in Ticks /\ landed \in BOOLEAN /\ Cur \in ClipIds
      BY ClipFacts DEF TypeOK, ClipIds
    <3>2. tick' = [tick EXCEPT !.sample = Cur, !.body = landed]
      BY <1>2 DEF SeedSample
    <3> QED
      BY <3>1, <3>2, TickSampled
  <2>2. Locals'
    BY <1>1, <1>2, <2>1, ClipFacts DEF SeedSample, Locals, Stages, Sampled
  <2>3. swallowed' \subseteq Nat
    <3>1. clips[Cur].pause \in Opt(Nat)
      BY ClipFacts DEF ClipRecords
    <3> QED
      BY <1>2, <3>1 DEF SeedSample, TypeOK, Opt
  <2>4. Memory' /\ History'
    BY <1>1, <1>2, <2>3 DEF SeedSample, Staged, Memory, History
  <2> QED
    BY <1>1, <2>2, <2>4, LoopTypes DEF pubVars, TypeOK
<1>3. CASE SeedAnchor
  <2>1. tick.sample \in 1..Cur
    BY <1>3 DEF SeedAnchor, Staged, Locals, Sampled
  <2>2. /\ clips[tick.sample].seq \in Seqs /\ Hash(tick.sample) \in Contents
        /\ tick.sample \in ClipIds
    BY <2>1, ClipFacts
  <2>3. Seeded(dedup, tick.sample, tick.body) \in Dedups
    <3>1. PICK d \in Dedups : d = AnchorDecided(dedup, clips[tick.sample].seq)
      BY <2>2, DedupOperations DEF TypeOK
    <3>2. PICK h \in Opt(Contents) :
            Seeded(dedup, tick.sample, tick.body) = [d EXCEPT !.last_content_hash = h, !.pristine = FALSE]
      BY <2>2, <3>1 DEF Seeded, Opt
    <3> QED
      BY <3>2 DEF Dedups
  <2>4. dedup' \in Dedups
    BY <1>3, <2>3 DEF SeedAnchor, Dedups
  <2>5. Memory' /\ History'
    BY <1>1, <1>3, <2>2, <2>4 DEF SeedAnchor, Staged, Memory, History
  <2> QED
    BY <1>1, <1>3, <2>5, EndTickTypes, LoopTypes DEF SeedAnchor, pubVars, TypeOK
<1> QED
  BY <1>2, <1>3

LEMMA ProbeTyped ==
  ASSUME TypeOK, Staged, ProbeSequence
  PROVE  TypeOK' /\ Staged'
<1>1. Cur' = Cur /\ UNCHANGED <<envVars, pubVars>>
  BY DEF ProbeSequence, envVars, Cur
<1>2. CurSeq \in Seqs /\ Cur \in ClipIds /\ Cur \in 1..Cur
  BY ClipFacts
<1>3. dedup' \in Dedups
  <2>1. [AnchorDecided(dedup, CurSeq) EXCEPT !.pristine = FALSE] \in Dedups
    BY <1>2, DedupOperations DEF TypeOK, Dedups
  <2>2. [dedup EXCEPT !.force_content_check = FALSE] \in Dedups
    BY DEF TypeOK, Dedups
  <2> QED
    BY <2>1, <2>2 DEF ProbeSequence, ProbeUnchanged, ProbeSelfWrite, ProbeSecureResync,
                      ProbeUndecided, TypeOK
<1>4. settled' \subseteq ClipIds
  BY <1>2 DEF ProbeSequence, ProbeUnchanged, ProbeSelfWrite, ProbeSecureResync,
              ProbeUndecided, TypeOK
<1>5. Locals'
  <2>1. CASE EndTick
    BY <2>1, EndTickTypes
  <2>2. CASE pc' = "launchSeed" /\ UNCHANGED tick
    BY <1>1, <2>2 DEF Staged, Locals, Stages, Sampled
  <2>3. CASE pc' = "focus" /\ tick' = [tick EXCEPT !.seq = CurSeq, !.probed = Cur,
                                                  !.force = dedup.force_content_check]
    <3>1. dedup.force_content_check \in BOOLEAN
      BY DEF TypeOK, Dedups
    <3>2. tick' \in Ticks /\ tick'.seq = CurSeq /\ tick'.probed = Cur
      BY <1>2, <2>3, <3>1 DEF TypeOK, Ticks, Opt
    <3> QED
      BY <1>1, <1>2, <2>3, <3>2 DEF Locals, Stages, Sampled
  <2> QED
    BY <2>1, <2>2, <2>3 DEF ProbeSequence, ProbeUnchanged, ProbeSelfWrite,
                            ProbeSecureResync, ProbeUndecided
<1>6. Memory' /\ History'
  BY <1>1, <1>3, <1>4 DEF ProbeSequence, Staged, Memory, History
<1> QED
  BY <1>1, <1>5, <1>6, LoopTypes DEF pubVars, TypeOK

LEMMA ResolveFocusTyped ==
  ASSUME TypeOK, Staged, ResolveFocus
  PROVE  TypeOK' /\ Staged'
<1>1. Cur' = Cur /\ UNCHANGED <<envVars, pubVars, enabled, seenEpoch, restarts, stored, swallowed>>
  BY DEF ResolveFocus, envVars, Cur
<1>2. tick.seq \in Seqs /\ tick.probed \in 1..Cur /\ tick.probed \in ClipIds
  BY ClipFacts DEF ResolveFocus, Staged, Locals
<1>3. axFails' \in 0..FailThreshold
  BY BoundsAssumption DEF ResolveFocus, Failures, TypeOK
<1>4. CASE SkipSecure
  <2>1. dedup' \in Dedups
    BY <1>2, <1>4 DEF SkipSecure, TypeOK, Dedups, Opt
  <2>2. Memory' /\ History'
    BY <1>1, <1>2, <1>3, <1>4, <2>1 DEF SkipSecure, Staged, Memory, History, Opt
  <2> QED
    BY <1>1, <1>4, <2>2, EndTickTypes, LoopTypes DEF SkipSecure, pubVars, TypeOK
<1>5. CASE SkipBlind
  <2>1. dedup' \in Dedups
    BY <1>5 DEF SkipBlind, TypeOK, Dedups
  <2>2. recovery' \in Opt(Recoveries) /\ (recovery' # None => recovery'.source \in 1..Cur)
    BY <1>2, <1>5 DEF SkipBlind, Staged, Memory, Opt, Recoveries
  <2>3. Memory' /\ History'
    BY <1>1, <1>2, <1>3, <1>5, <2>1, <2>2 DEF SkipBlind, Staged, Memory, History
  <2> QED
    BY <1>1, <1>5, <2>3, EndTickTypes, LoopTypes DEF SkipBlind, pubVars, TypeOK
<1>6. CASE pc' = "read" /\ UNCHANGED <<dedup, recovery, tick, secured, settled>>
  <2>1. Memory' /\ History' /\ Locals'
    BY <1>1, <1>3, <1>6 DEF Staged, Memory, History, Locals, Stages, Sampled
  <2> QED
    BY <1>1, <2>1, LoopTypes DEF pubVars, TypeOK
<1> QED
  BY <1>4, <1>5, <1>6 DEF ResolveFocus

LEMMA ReadSnapshotTyped ==
  ASSUME TypeOK, Staged, ReadSnapshot
  PROVE  TypeOK' /\ Staged'
<1>1. Cur' = Cur /\ UNCHANGED <<envVars, pubVars, ghostVars>>
  BY DEF ReadSnapshot, envVars, Cur
<1>2. tick' \in Ticks /\ tick'.sample = Cur
  <2>1. tick \in Ticks /\ landed \in BOOLEAN /\ Cur \in ClipIds
    BY ClipFacts DEF TypeOK, ClipIds
  <2>2. tick' = [tick EXCEPT !.sample = Cur, !.body = landed]
    BY DEF ReadSnapshot
  <2> QED
    BY <2>1, <2>2, TickSampled
<1>3. Locals'
  BY <1>1, <1>2, ClipFacts DEF ReadSnapshot, Locals, Stages, Sampled
<1>4. Memory' /\ History'
  BY <1>1 DEF ReadSnapshot, Staged, Memory, History, ghostVars
<1> QED
  BY <1>1, <1>3, <1>4, LoopTypes DEF pubVars, TypeOK

LEMMA AdmitClipTyped ==
  ASSUME TypeOK, Staged, AdmitClip
  PROVE  TypeOK' /\ Staged'
<1>1. Cur' = Cur /\ UNCHANGED <<envVars, pubVars>>
  BY DEF AdmitClip, envVars, Cur
<1>2. /\ tick.sample \in 1..Cur /\ tick.sample \in ClipIds
      /\ SampleSeq \in Seqs /\ SampleHash \in Contents /\ tick.force \in BOOLEAN
  BY ClipFacts DEF AdmitClip, Staged, Locals, Sampled, SampleSeq, SampleHash, Ticks
<1>3. BeginClip(dedup, SampleSeq) \in Dedups /\ Decide(dedup, SampleSeq) \in Dedups
  BY <1>2, DedupOperations DEF TypeOK
<1>4. Accepted(dedup) \in Dedups /\ SavedBy(dedup, tick.force) \in Saves
  <2>1. Accepted(dedup) \in Dedups
    BY <1>2, <1>3 DEF Accepted, Dedups, Opt
  <2> QED
    BY <1>2, <2>1, SavedState DEF TypeOK
<1>5. Rollback(Accepted(dedup), SavedBy(dedup, tick.force)) \in Dedups
  BY <1>4, RolledBack
<1>6. dedup' \in Dedups
  <2>1. [BeginClip(dedup, SampleSeq) EXCEPT !.force_content_check = TRUE] \in Dedups
    BY <1>3 DEF Dedups
  <2> QED
    BY <1>3, <1>4, <1>5, <2>1 DEF AdmitClip, DropUnreadable, RetryEmpty, DropDuplicate,
                                  DropDenied, AdmissionFails, AdmissionReady
<1>7. settled' \subseteq ClipIds
  BY <1>2 DEF AdmitClip, DropUnreadable, RetryEmpty, DropDuplicate, DropDenied,
              AdmissionFails, AdmissionReady, TypeOK
<1>8. Source \in 1..Cur
  BY <1>2 DEF Source, Staged, Memory
<1>9. Locals'
  <2>1. CASE EndTick
    BY <2>1, EndTickTypes
  <2>2. CASE AdmissionReady
    <3>1. /\ tick' \in Ticks /\ tick'.saved = SavedBy(dedup, tick.force)
          /\ tick'.source = Source /\ tick'.sample = tick.sample
      BY <1>4, <1>8, <2>2, ClipFacts DEF AdmissionReady, TypeOK, Ticks, Opt
    <3> QED
      BY <1>1, <1>2, <1>4, <1>8, <2>2, <3>1 DEF AdmissionReady, Locals, Stages, Sampled
  <2> QED
    BY <2>1, <2>2 DEF AdmitClip, DropUnreadable, RetryEmpty, DropDuplicate, DropDenied,
                      AdmissionFails
<1>10. Memory' /\ History'
  BY <1>1, <1>6, <1>7 DEF AdmitClip, Staged, Memory, History
<1> QED
  BY <1>1, <1>9, <1>10, LoopTypes DEF pubVars, TypeOK

LEMMA PersistTyped ==
  ASSUME TypeOK, Staged, CheckPause \/ InsertEntry \/ InsertFails
  PROVE  TypeOK' /\ Staged'
<1>1. Cur' = Cur /\ UNCHANGED <<envVars, pubVars>>
  BY DEF CheckPause, InsertEntry, InsertFails, envVars, Cur
<1>2. /\ tick.sample \in 1..Cur /\ tick.sample \in ClipIds
      /\ tick.saved \in Saves /\ tick.source \in 1..Cur
  BY ClipFacts DEF CheckPause, InsertEntry, InsertFails, Staged, Locals, Sampled
<1>3. CASE CheckPause
  <2>1. dedup' \in Dedups
    BY <1>3 DEF CheckPause, TypeOK, Dedups
  <2>2. Memory' /\ History'
    BY <1>1, <1>2, <1>3, <2>1 DEF CheckPause, Staged, Memory, History, TypeOK
  <2>3. Locals'
    BY <1>1, <1>2, <1>3, EndTickTypes DEF CheckPause, Staged, Locals, Stages, Sampled
  <2> QED
    BY <1>1, <2>2, <2>3, LoopTypes DEF pubVars, TypeOK
<1>4. CASE InsertEntry
  <2>1. Memory' /\ History'
    BY <1>1, <1>2, <1>4 DEF InsertEntry, Staged, Memory, History
  <2> QED
    BY <1>1, <1>4, <2>1, EndTickTypes, LoopTypes DEF InsertEntry, pubVars, TypeOK
<1>5. CASE InsertFails
  <2>1. dedup' \in Dedups
    BY <1>2, <1>5, RolledBack DEF InsertFails, TypeOK, Blank
  <2>2. Memory' /\ History'
    BY <1>1, <1>5, <2>1 DEF InsertFails, Staged, Memory, History, ghostVars
  <2> QED
    BY <1>1, <1>5, <2>2, EndTickTypes, LoopTypes DEF InsertFails, pubVars, TypeOK
<1> QED
  BY <1>3, <1>4, <1>5

LEMMA ReadFailsTyped ==
  ASSUME TypeOK, Staged, ReadFails
  PROVE  TypeOK' /\ Staged'
<1>1. Cur' = Cur /\ UNCHANGED <<envVars, pubVars, ghostVars>> /\ EndTick
  BY DEF ReadFails, envVars, Cur
<1>2. Memory' /\ History'
  BY <1>1 DEF ReadFails, Staged, Memory, History, ghostVars
<1> QED
  BY <1>1, <1>2, EndTickTypes, LoopTypes DEF pubVars, TypeOK

LEMMA RestartTyped ==
  ASSUME TypeOK, Staged, Restart
  PROVE  TypeOK' /\ Staged'
<1>1. /\ Cur' = Cur /\ UNCHANGED <<clips, landed, tracker, selfOpen, sleeps, ghostVars>>
      /\ gap' = FALSE /\ unseen' = TRUE /\ UNCHANGED <<pubEnabled, epoch, noted>>
  BY DEF Restart, Cur
<1>2. dedup' \in Dedups
  BY NewState DEF Restart, TypeOK
<1>3. restarts' \in 0..MaxRestarts /\ axFails' \in 0..FailThreshold /\ seenEpoch' \in Nat
  BY BoundsAssumption DEF Restart, TypeOK
<1>4. Memory'
  BY <1>1, <1>2, <1>3 DEF Restart, Memory, Opt, TypeOK
<1>5. Locals' /\ History'
  BY <1>1, NewState DEF Restart, Staged, Locals, Stages, Sampled, History, ghostVars
<1>6. Staged'
  BY <1>1, <1>4, <1>5 DEF Staged
<1>7. TypeOK'
  <2>1. stored' \subseteq [clip : ClipIds, source : ClipIds]
    BY <1>1 DEF TypeOK, ghostVars
  <2> QED
    BY <1>1, <1>4, <1>5, <2>1 DEF TypeOK, Memory, Locals, History, Recoveries
<1> QED
  BY <1>6, <1>7

LEMMA NextTyped ==
  ASSUME TypeOK, Staged, [Next]_vars
  PROVE  TypeOK' /\ Staged'
<1>1. CASE Environment
  BY <1>1, EnvironmentTyped
<1>2. CASE LoopStep
  BY <1>2, UpdateSettingsTyped, BeginTickTyped, HoldForPauseTyped, SeedTyped, ProbeTyped,
     ResolveFocusTyped, ReadSnapshotTyped, AdmitClipTyped, PersistTyped, ReadFailsTyped
     DEF LoopStep
<1>3. CASE Restart
  BY <1>3, RestartTyped
<1>4. CASE UNCHANGED vars
  <2>1. UNCHANGED <<envVars, pubVars, loopVars, ghostVars>> /\ Cur' = Cur
    BY <1>4 DEF vars, Cur, envVars
  <2>2. Memory' /\ Locals' /\ History'
    BY <2>1 DEF Staged, Memory, Locals, History, loopVars, ghostVars
  <2> QED
    BY <2>1, <2>2, LoopTypes DEF pubVars, TypeOK
<1> QED
  BY <1>1, <1>2, <1>3, <1>4 DEF Next

LEMMA InitTyped ==
  ASSUME Init
  PROVE  TypeOK /\ Staged
<1>1. PICK c \in Contents : clips = <<Clip(c, 1, FALSE)>>
  BY DEF Init
<1> DEFINE x == Clip(c, 1, FALSE)
<1>2. x \in ClipRecords /\ x.seq = 1 /\ clips = <<x>>
  <2>1. 1 \in Seqs /\ pubEnabled \in BOOLEAN /\ epoch \in Nat
    BY BoundsAssumption DEF Init, Seqs
  <2>2. (IF pubEnabled THEN None ELSE epoch) \in Opt(Nat)
    BY <2>1 DEF Opt
  <2> QED
    BY <1>1, <2>1, <2>2 DEF Clip, ClipRecords
<1> HIDE DEF x
<1>3. clips \in Seq(ClipRecords) /\ Cur = 1 /\ clips[1].seq = 1 /\ 1 \in ClipIds
  <2>1. Len(clips) = 1 /\ clips[1] = x /\ clips \in Seq(ClipRecords)
    BY <1>2
  <2> QED
    BY <1>2, <2>1, BoundsAssumption DEF Cur, ClipIds
<1>4. dedup \in Dedups /\ tick \in Ticks
  BY NewState DEF Init
<1>5. /\ enabled \in BOOLEAN /\ seenEpoch \in Nat /\ restarts \in 0..MaxRestarts
      /\ axFails \in 0..FailThreshold /\ sleeps \in 0..MaxSleeps /\ epoch \in Nat
  BY BoundsAssumption DEF Init
<1>6. Memory /\ Locals /\ History
  BY <1>4, <1>5 DEF Init, Memory, Locals, History, Stages, Sampled, Opt
<1>7. Staged
  <2>1. \A i \in 1..Cur : clips[i].seq <= i
    BY <1>3
  <2>2. tracker \in Opt(1..Cur)
    BY DEF Init, Opt
  <2> QED
    BY <1>6, <2>1, <2>2 DEF Staged
<1>8. TypeOK
  BY <1>3, <1>5, <1>6
     DEF Init, TypeOK, Memory, Locals, History, ClipRecords, Recoveries, Cur, Opt
<1> QED
  BY <1>7, <1>8

LEMMA StagedAlways == Spec => [](TypeOK /\ Staged)
  BY InitTyped, NextTyped, PTL DEF Spec

\* The loop's state stays well-typed, whatever the clipboard, the settings, the host
\* and the failures of its steps do in between: in particular the tick never goes on
\* with a local it has not set.
THEOREM LoopTyped == Spec => []TypeOK
  BY StagedAlways, PTL

-----------------------------------------------------------------------------
(* A source remembered from an Accessibility outage.                        *)

\* A tick that began with no content check pending remembers no source, and so
\* gives the clip the source it was read with.
SourceIsCurrent ==
  /\ pc \notin {"idle", "apply"} /\ ~tick.retry => recovery = None
  /\ pc \in {"persist", "insert"} /\ ~tick.retry => tick.source = tick.sample

LEMMA EndTickSource ==
  ASSUME EndTick
  PROVE  SourceIsCurrent'
  BY DEF EndTick, SourceIsCurrent

LEMMA SourceStep ==
  ASSUME TypeOK, Staged, SourceIsCurrent, [Next]_vars
  PROVE  SourceIsCurrent'
<1>0. USE DEF SourceIsCurrent
<1>1. CASE Environment \/ UNCHANGED vars
  <2>1. UNCHANGED <<pc, tick, recovery>>
    BY <1>1 DEF Environment, BeginCopy, Land, SelfWrite, RecordSelfWrite, Sleep, NotePause,
                SendPause, SendResume, loopVars, vars
  <2> QED
    BY <2>1
<1>2. CASE UpdateSettings \/ Restart
  BY <1>2 DEF UpdateSettings, Restart
<1>3. CASE BeginTick
  <2>1. /\ pc' = "hold" /\ tick' = [tick EXCEPT !.retry = dedup.force_content_check]
        /\ recovery' = KeptRecovery(dedup.force_content_check) /\ tick \in Ticks
    BY <1>3 DEF BeginTick, TypeOK
  <2>2. tick'.retry = dedup.force_content_check
    BY <2>1 DEF Ticks
  <2> QED
    BY <2>1, <2>2 DEF KeptRecovery
<1>4. CASE HoldForPause \/ ReadFails
  BY <1>4, EndTickSource DEF HoldForPause, ReadFails
<1>5. CASE SeedSample \/ ReadSnapshot
  <2>1. /\ tick' = [tick EXCEPT !.sample = Cur, !.body = landed] /\ recovery' = recovery
        /\ pc \notin {"idle", "apply"} /\ pc' \notin {"persist", "insert"}
    BY <1>5 DEF SeedSample, ReadSnapshot
  <2>2. tick'.retry = tick.retry
    BY <2>1 DEF TypeOK, Ticks
  <2> QED
    BY <2>1, <2>2
<1>6. CASE SeedAnchor
  BY <1>6, EndTickSource DEF SeedAnchor
<1>7. CASE ProbeSequence
  <2>1. recovery' = recovery /\ pc = "probe"
    BY <1>7 DEF ProbeSequence
  <2>2. CASE EndTick
    BY <2>2, EndTickSource
  <2>3. CASE pc' = "launchSeed" /\ UNCHANGED tick
    BY <2>1, <2>3
  <2>4. CASE pc' = "focus" /\ tick' = [tick EXCEPT !.seq = CurSeq, !.probed = Cur,
                                                  !.force = dedup.force_content_check]
    <3>1. tick'.retry = tick.retry
      BY <2>4 DEF TypeOK, Ticks
    <3> QED
      BY <2>1, <2>4, <3>1
  <2> QED
    BY <1>7, <2>2, <2>3, <2>4 DEF ProbeSequence, ProbeUnchanged, ProbeSelfWrite,
                                  ProbeSecureResync, ProbeUndecided
<1>8. CASE ResolveFocus
  BY <1>8, EndTickSource DEF ResolveFocus, SkipSecure, SkipBlind
<1>9. CASE AdmitClip
  <2>1. recovery' = recovery /\ pc = "admit"
    BY <1>9 DEF AdmitClip
  <2>2. CASE EndTick
    BY <2>2, EndTickSource
  <2>3. CASE AdmissionReady
    <3>1. /\ tick'.retry = tick.retry /\ tick'.source = Source
          /\ tick'.sample = tick.sample
      BY <2>3 DEF AdmissionReady, TypeOK, Ticks
    <3> QED
      BY <2>1, <3>1 DEF Source
  <2> QED
    BY <1>9, <2>2, <2>3 DEF AdmitClip, DropUnreadable, RetryEmpty, DropDuplicate,
                            DropDenied, AdmissionFails
<1>10. CASE CheckPause
  BY <1>10, EndTickSource DEF CheckPause
<1>11. CASE InsertEntry \/ InsertFails
  BY <1>11, EndTickSource DEF InsertEntry, InsertFails
<1> QED
  BY <1>1, <1>2, <1>3, <1>4, <1>5, <1>6, <1>7, <1>8, <1>9, <1>10, <1>11
     DEF Next, LoopStep

\* A source remembered from an Accessibility outage reaches another clip only if the
\* outage's re-read was still pending when the tick began.
THEOREM StaleSourceDropped == Spec => StaleSourceIsDropped
<1>1. Init => SourceIsCurrent
  BY DEF Init, SourceIsCurrent
<1>2. TypeOK /\ Staged /\ SourceIsCurrent /\ [Next]_vars => SourceIsCurrent'
  BY SourceStep
<1>3. SourceIsCurrent /\ [Next]_vars
        => [\A s \in stored' \ stored : s.source # s.clip => tick.retry]_vars
  <2> SUFFICES ASSUME SourceIsCurrent, [Next]_vars, NEW s \in stored' \ stored,
                      s.source # s.clip
               PROVE  tick.retry
    OBVIOUS
  <2>1. CASE InsertEntry
    <3>1. s = [clip |-> tick.sample, source |-> tick.source] /\ pc = "insert"
      BY <2>1 DEF InsertEntry
    <3> QED
      BY <3>1 DEF SourceIsCurrent
  <2>2. CASE ~InsertEntry
    <3>1. stored' = stored
      BY <2>2 DEF Next, Environment, LoopStep, Restart, BeginCopy, Land, SelfWrite,
                  RecordSelfWrite, Sleep, NotePause, SendPause, SendResume, UpdateSettings,
                  BeginTick, HoldForPause, SeedSample, SeedAnchor, ProbeSequence,
                  ResolveFocus, ReadSnapshot, AdmitClip, CheckPause, InsertFails, ReadFails,
                  ghostVars, vars
    <3> QED
      BY <3>1
  <2> QED
    BY <2>1, <2>2
<1> QED
  BY <1>1, <1>2, <1>3, StagedAlways, PTL DEF Spec, StaleSourceIsDropped

-----------------------------------------------------------------------------
(* The clip that was on the clipboard at launch.                            *)

\* What a baseline read leaves as the hash of the launch clip.
LaunchHash == IF Hash(1) \in Unreadable THEN None ELSE Hash(1)

\* While the launch clip is on the clipboard, nothing but a baseline has been written
\* to the dedup state: the sequence and the hash are the launch clip's, so a tick gets
\* past the probe only with a content check, which its hash then fails. And a tick
\* that has sampled it never gets as far as the insert.
LaunchIsHeld ==
  /\ 1 \notin InHistory
  /\ Cur = 1 => landed /\ tracker = None /\ ~selfOpen
  /\ dedup.pristine => pc \notin {"focus", "read", "admit", "persist", "insert"}
  /\ pc \in {"persist", "insert"} => tick.sample # 1
  /\ Cur = 1 /\ ~dedup.pristine =>
       dedup.last_sequence = clips[1].seq /\ dedup.last_content_hash = LaunchHash
  /\ Cur = 1 /\ pc \in {"focus", "read"} => tick.force
  /\ Cur = 1 /\ pc = "focus" => tick.seq = clips[1].seq
  /\ pc \in {"resumeAnchor", "launchAnchor", "admit"} /\ tick.sample = 1 => tick.body
  /\ pc = "admit" /\ tick.sample = 1 =>
       tick.force /\ dedup.last_content_hash = LaunchHash

LEMMA LaunchEnvironment ==
  ASSUME TypeOK, Staged, LaunchIsHeld, Environment
  PROVE  LaunchIsHeld'
<1>1. UNCHANGED <<loopVars, ghostVars>>
  BY DEF Environment, BeginCopy, Land, SelfWrite, RecordSelfWrite, Sleep, NotePause,
         SendPause, SendResume
<1>2. Cur \in Nat /\ 1 \in 1..Cur /\ Cur' \in Nat /\ Cur <= Cur' /\ clips'[1] = clips[1]
  BY EnvironmentGrows, ClipFacts
<1>3. LaunchHash' = LaunchHash /\ InHistory' = InHistory
  BY <1>1, <1>2 DEF LaunchHash, Hash, InHistory, ghostVars
<1>4. CASE \E x : clips' = Append(clips, x)
  <2>1. Cur' = Cur + 1
    BY <1>4 DEF Cur, TypeOK
  <2>2. Cur' # 1
    BY <1>2, <2>1
  <2> QED
    BY <1>1, <1>2, <1>3, <2>2 DEF LaunchIsHeld, loopVars
<1>5. CASE /\ UNCHANGED clips /\ (landed => landed')
           /\ tracker' = tracker \/ selfOpen
           /\ selfOpen' => selfOpen
  <2>1. Cur' = Cur
    BY <1>5 DEF Cur
  <2> QED
    BY <1>1, <1>2, <1>3, <1>5, <2>1 DEF LaunchIsHeld, loopVars
<1>6. CASE (\E c \in Contents : BeginCopy(c)) \/ SelfWrite
  BY <1>4, <1>6 DEF BeginCopy, SelfWrite
<1>7. CASE Sleep
  <2>1. CASE UNCHANGED <<clips, landed>>
    BY <1>5, <1>7, <2>1 DEF Sleep
  <2>2. CASE \E c \in Contents, i \in 1..Cur :
               clips' = Append(clips, Clip(c, clips[i].seq, FALSE))
    BY <1>4, <2>2
  <2> QED
    BY <1>7, <2>1, <2>2 DEF Sleep
<1>8. CASE Land \/ RecordSelfWrite \/ NotePause \/ SendPause \/ SendResume
  BY <1>5, <1>8 DEF Land, RecordSelfWrite, NotePause, SendPause, SendResume, envVars
<1> QED
  BY <1>6, <1>7, <1>8 DEF Environment

\* A step of the loop that leaves the clipboard, the history and what the loop
\* remembers of the launch clip as they are, and ends the tick.
LEMMA LaunchTickEnds ==
  ASSUME LaunchIsHeld, EndTick, UNCHANGED envVars, InHistory' = InHistory,
         dedup'.pristine => dedup.pristine,
         Cur = 1 /\ ~dedup'.pristine =>
           /\ dedup'.last_sequence = clips[1].seq
           /\ dedup'.last_content_hash = LaunchHash
  PROVE  LaunchIsHeld'
<1>1. Cur' = Cur /\ LaunchHash' = LaunchHash
  BY DEF envVars, Cur, LaunchHash, Hash
<1>2. pc' \in {"idle", "apply"}
  BY DEF EndTick
<1> QED
  BY <1>1, <1>2 DEF LaunchIsHeld, envVars

LEMMA LaunchLoop ==
  ASSUME TypeOK, Staged, LaunchIsHeld, ~CaptureInitial, LoopStep
  PROVE  LaunchIsHeld'
<1>1. /\ Cur' = Cur /\ Cur \in Nat /\ LaunchHash' = LaunchHash
      /\ UNCHANGED <<clips, landed, tracker, selfOpen>>
  <2>1. UNCHANGED <<clips, landed, tracker, selfOpen>>
    BY DEF LoopStep, UpdateSettings, BeginTick, HoldForPause, SeedSample, SeedAnchor,
           ProbeSequence, ResolveFocus, ReadSnapshot, AdmitClip, CheckPause, InsertEntry,
           InsertFails, ReadFails, envVars
  <2> QED
    BY <2>1, ClipFacts DEF Cur, LaunchHash, Hash
<1>2. dedup \in Dedups /\ tick \in Ticks
  BY DEF TypeOK
<1>3. CASE UpdateSettings
  <2>1. /\ dedup'.pristine = dedup.pristine /\ dedup'.last_sequence = dedup.last_sequence
        /\ dedup'.last_content_hash = dedup.last_content_hash
        /\ pc' = "idle" /\ UNCHANGED stored
    BY <1>2, <1>3 DEF UpdateSettings, Dedups, ghostVars
  <2> QED
    BY <1>1, <2>1 DEF LaunchIsHeld, InHistory
<1>4. CASE BeginTick
  <2>1. /\ dedup'.pristine = dedup.pristine /\ dedup'.last_sequence = dedup.last_sequence
        /\ dedup'.last_content_hash = dedup.last_content_hash
        /\ pc' = "hold" /\ UNCHANGED stored
    BY <1>2, <1>4 DEF BeginTick, ArmWakeGap, Dedups, ghostVars
  <2> QED
    BY <1>1, <2>1 DEF LaunchIsHeld, InHistory
<1>5. CASE HoldForPause
  <2>1. /\ dedup'.pristine = dedup.pristine /\ dedup'.last_sequence = dedup.last_sequence
        /\ dedup'.last_content_hash = dedup.last_content_hash
        /\ pc' \in {"idle", "apply", "resumeSeed", "probe"} /\ UNCHANGED stored
    BY <1>2, <1>5 DEF HoldForPause, EndTick, Dedups, ghostVars
  <2> QED
    BY <1>1, <2>1 DEF LaunchIsHeld, InHistory
<1>6. CASE SeedSample
  <2>1. /\ UNCHANGED <<dedup, stored>> /\ pc' \in {"resumeAnchor", "launchAnchor"}
        /\ tick'.sample = Cur /\ tick'.body = landed
    BY <1>2, <1>6 DEF SeedSample, Ticks
  <2> QED
    BY <1>1, <2>1 DEF LaunchIsHeld, InHistory
<1>7. CASE SeedAnchor
  <2>1. /\ dedup'.pristine = FALSE /\ UNCHANGED <<stored, envVars>> /\ EndTick
        /\ dedup'.last_sequence = clips[tick.sample].seq
        /\ dedup'.last_content_hash =
             IF tick.body /\ Hash(tick.sample) \notin Unreadable
             THEN Hash(tick.sample) ELSE None
    BY <1>2, <1>7 DEF SeedAnchor, Seeded, AnchorDecided, Dedups
  <2>2. Cur = 1 => tick.sample = 1 /\ tick.body
    BY <1>1, <1>7 DEF SeedAnchor, LaunchIsHeld, Staged, Locals, Sampled
  <2> QED
    BY <2>1, <2>2, LaunchTickEnds DEF LaunchHash, InHistory
<1>8. CASE ProbeSequence
  <2>1. UNCHANGED <<stored, envVars>> /\ pc = "probe"
    BY <1>8 DEF ProbeSequence
  <2>2. CASE ProbeUnchanged
    BY <2>1, <2>2, LaunchTickEnds DEF ProbeUnchanged, LaunchIsHeld, InHistory
  <2>3. CASE ProbeSelfWrite
    <3>1. Cur # 1
      BY <2>3 DEF ProbeSelfWrite, MatchesSelfWrite, LaunchIsHeld
    <3>2. dedup'.pristine = FALSE /\ EndTick
      BY <1>2, <2>3 DEF ProbeSelfWrite, AnchorDecided, Dedups
    <3> QED
      BY <2>1, <3>1, <3>2, LaunchTickEnds DEF InHistory
  <2>4. CASE ProbeSecureResync
    <3>1. /\ dedup'.pristine = dedup.pristine /\ EndTick
          /\ dedup'.last_sequence = dedup.last_sequence
          /\ dedup'.last_content_hash = dedup.last_content_hash
      BY <1>2, <2>4 DEF ProbeSecureResync, Dedups
    <3> QED
      BY <2>1, <3>1, LaunchTickEnds DEF InHistory, LaunchIsHeld
  <2>5. CASE ProbeUndecided
    <3>1. CASE dedup.pristine
      BY <1>1, <2>1, <2>5, <3>1 DEF ProbeUndecided, LaunchIsHeld, InHistory
    <3>2. CASE ~dedup.pristine
      <4>1. /\ pc' = "focus" /\ UNCHANGED dedup
            /\ tick'.seq = CurSeq /\ tick'.force = dedup.force_content_check
        BY <1>2, <2>5, <3>2 DEF ProbeUndecided, Ticks
      <4>2. Cur = 1 => dedup.force_content_check
        BY <2>5, <3>2 DEF ProbeUndecided, DecidedBySequence, LaunchIsHeld, CurSeq
      <4> QED
        BY <1>1, <2>1, <3>2, <4>1, <4>2 DEF LaunchIsHeld, InHistory, CurSeq
    <3> QED
      BY <3>1, <3>2
  <2> QED
    BY <1>8, <2>2, <2>3, <2>4, <2>5 DEF ProbeSequence
<1>9. CASE ResolveFocus
  <2>1. UNCHANGED <<stored, envVars>> /\ pc = "focus" /\ ~dedup.pristine
    BY <1>9 DEF ResolveFocus, LaunchIsHeld
  <2>2. CASE SkipSecure
    <3>1. /\ dedup'.pristine = FALSE /\ dedup'.last_sequence = tick.seq
          /\ dedup'.last_content_hash = dedup.last_content_hash /\ EndTick
      BY <1>2, <2>2 DEF SkipSecure, Dedups
    <3> QED
      BY <2>1, <3>1, LaunchTickEnds DEF InHistory, LaunchIsHeld
  <2>3. CASE SkipBlind
    <3>1. /\ dedup'.pristine = FALSE /\ dedup'.last_sequence = dedup.last_sequence
          /\ dedup'.last_content_hash = dedup.last_content_hash /\ EndTick
      BY <1>2, <2>3 DEF SkipBlind, Dedups
    <3> QED
      BY <2>1, <3>1, LaunchTickEnds DEF InHistory, LaunchIsHeld
  <2>4. CASE pc' = "read" /\ UNCHANGED <<dedup, tick>>
    BY <1>1, <2>1, <2>4 DEF LaunchIsHeld, InHistory
  <2> QED
    BY <1>9, <2>2, <2>3, <2>4 DEF ResolveFocus
<1>10. CASE ReadSnapshot
  <2>1. /\ UNCHANGED <<dedup, stored>> /\ pc = "read" /\ pc' = "admit"
        /\ tick'.sample = Cur /\ tick'.body = landed /\ tick'.force = tick.force
    BY <1>2, <1>10 DEF ReadSnapshot, Ticks, ghostVars
  <2> QED
    BY <1>1, <2>1 DEF LaunchIsHeld, InHistory
<1>11. CASE AdmitClip
  <2>1. UNCHANGED <<stored, envVars>> /\ pc = "admit" /\ ~dedup.pristine
    BY <1>11 DEF AdmitClip, LaunchIsHeld
  <2>2. /\ Cur = 1 => tick.sample = 1
        /\ tick.sample = 1 => /\ tick.body /\ tick.force
                              /\ dedup.last_content_hash = LaunchHash
    BY <1>1, <2>1 DEF LaunchIsHeld, Staged, Locals, Sampled
  <2>3. tick.sample = 1 => SampleSeq = clips[1].seq /\ SampleHash = Hash(1)
    BY DEF SampleSeq, SampleHash
  <2>4. CASE DropUnreadable
    <3>1. /\ dedup'.pristine = FALSE /\ dedup'.last_sequence = SampleSeq
          /\ dedup'.last_content_hash = dedup.last_content_hash /\ EndTick
      BY <1>2, <2>4 DEF DropUnreadable, Decide, AnchorDecided, Dedups
    <3> QED
      BY <2>1, <2>2, <2>3, <3>1, LaunchTickEnds DEF InHistory
  <2>5. CASE RetryEmpty
    <3>1. dedup'.pristine = FALSE /\ EndTick /\ ~tick.body
      BY <1>2, <2>5 DEF RetryEmpty, BeginClip, Dedups
    <3> QED
      BY <2>1, <2>2, <3>1, LaunchTickEnds DEF InHistory
  <2>6. CASE DropDuplicate
    <3>1. /\ dedup'.pristine = FALSE /\ dedup'.last_sequence = SampleSeq
          /\ dedup'.last_content_hash = dedup.last_content_hash /\ EndTick
      BY <1>2, <2>6 DEF DropDuplicate, BeginClip, Dedups
    <3> QED
      BY <2>1, <2>2, <2>3, <3>1, LaunchTickEnds DEF InHistory
  <2>7. CASE /\ SampleHash \notin Unreadable /\ ~IsDuplicate
             /\ DropDenied \/ AdmissionFails \/ AdmissionReady
    <3>1. tick.sample # 1 /\ Cur # 1
      BY <2>2, <2>3, <2>7 DEF IsDuplicate, LaunchHash
    <3>2. /\ Accepted(dedup).pristine = FALSE
          /\ Rollback(Accepted(dedup), SavedBy(dedup, tick.force)).pristine = FALSE
      BY <1>2 DEF Accepted, BeginClip, Rollback, Dedups
    <3>3. CASE DropDenied \/ AdmissionFails
      BY <2>1, <3>1, <3>2, <3>3, LaunchTickEnds DEF DropDenied, AdmissionFails, InHistory
    <3>4. CASE AdmissionReady
      <4>1. pc' = "persist" /\ tick'.sample = tick.sample /\ dedup'.pristine = FALSE
        BY <1>2, <3>2, <3>4 DEF AdmissionReady, Ticks
      <4> QED
        BY <1>1, <2>1, <3>1, <4>1 DEF LaunchIsHeld, InHistory
    <3> QED
      BY <2>7, <3>3, <3>4
  <2> QED
    BY <1>11, <2>4, <2>5, <2>6, <2>7 DEF AdmitClip
<1>12. CASE CheckPause \/ InsertEntry \/ InsertFails
  <2>1. /\ UNCHANGED envVars /\ pc \in {"persist", "insert"}
        /\ ~dedup.pristine /\ tick.sample # 1 /\ Cur # 1
    BY <1>1, <1>12
       DEF CheckPause, InsertEntry, InsertFails, LaunchIsHeld, Staged, Locals, Sampled
  <2>2. CASE CheckPause
    <3>1. dedup'.pristine = dedup.pristine /\ UNCHANGED stored
      BY <1>2, <2>2 DEF CheckPause, Dedups
    <3>2. CASE EndTick
      BY <2>1, <3>1, <3>2, LaunchTickEnds DEF InHistory
    <3>3. CASE pc' = "insert" /\ UNCHANGED tick
      BY <1>1, <2>1, <3>1, <3>3 DEF LaunchIsHeld, InHistory
    <3> QED
      BY <2>2, <3>2, <3>3 DEF CheckPause
  <2>3. CASE InsertEntry
    <3>1. 1 \notin InHistory' /\ UNCHANGED dedup /\ pc' \in {"idle", "apply"}
      BY <2>1, <2>3 DEF InsertEntry, EndTick, InHistory, LaunchIsHeld
    <3> QED
      BY <1>1, <2>1, <3>1 DEF LaunchIsHeld
  <2>4. CASE InsertFails
    <3>1. dedup'.pristine = dedup.pristine /\ UNCHANGED stored /\ EndTick
      BY <1>2, <2>4 DEF InsertFails, Rollback, Dedups, ghostVars
    <3> QED
      BY <2>1, <3>1, LaunchTickEnds DEF InHistory
  <2> QED
    BY <1>12, <2>2, <2>3, <2>4
<1>13. CASE ReadFails
  BY <1>13, LaunchTickEnds DEF ReadFails, ghostVars, LaunchIsHeld, InHistory
<1> QED
  BY <1>3, <1>4, <1>5, <1>6, <1>7, <1>8, <1>9, <1>10, <1>11, <1>12, <1>13 DEF LoopStep

LEMMA LaunchStep ==
  ASSUME TypeOK, Staged, LaunchIsHeld, ~CaptureInitial, [Next]_vars
  PROVE  LaunchIsHeld'
<1>1. CASE Restart
  <2>1. /\ UNCHANGED <<clips, landed, tracker, selfOpen, stored>>
        /\ pc' = "apply" /\ dedup'.pristine = TRUE
    BY <1>1 DEF Restart, NewDedup, ghostVars
  <2>2. Cur' = Cur /\ InHistory' = InHistory
    BY <2>1 DEF Cur, InHistory
  <2> QED
    BY <2>1, <2>2 DEF LaunchIsHeld
<1>2. CASE UNCHANGED vars
  <2>1. Cur' = Cur /\ InHistory' = InHistory /\ LaunchHash' = LaunchHash
    BY <1>2 DEF vars, envVars, ghostVars, Cur, InHistory, LaunchHash, Hash
  <2> QED
    BY <1>2, <2>1 DEF LaunchIsHeld, vars, envVars, loopVars
<1> QED
  BY <1>1, <1>2, LaunchEnvironment, LaunchLoop DEF Next

\* With capture_initial_clipboard_on_launch off, the clip that was on the clipboard at
\* launch is never recorded, however reads fail, the host sleeps and the loop restarts.
THEOREM LaunchClipHeld == Spec => []LaunchClipStaysOut
<1>1. CASE CaptureInitial
  <2>1. LaunchClipStaysOut
    BY <1>1 DEF LaunchClipStaysOut
  <2> QED
    BY <2>1, PTL
<1>2. CASE ~CaptureInitial
  <2>1. Init => LaunchIsHeld
    BY NewState DEF Init, LaunchIsHeld, InHistory, NewDedup
  <2>2. TypeOK /\ Staged /\ LaunchIsHeld /\ [Next]_vars => LaunchIsHeld'
    BY <1>2, LaunchStep
  <2>3. LaunchIsHeld => LaunchClipStaysOut
    BY DEF LaunchIsHeld, LaunchClipStaysOut
  <2> QED
    BY <2>1, <2>2, <2>3, StagedAlways, PTL DEF Spec
<1> QED
  BY <1>1, <1>2

-----------------------------------------------------------------------------
(* What a step leaves alone.                                                *)

\* A step of the loop moves neither the clipboard nor what is published.
LEMMA LoopFrame ==
  ASSUME LoopStep
  PROVE  /\ UNCHANGED <<clips, landed, tracker, selfOpen, pubEnabled, epoch, noted>>
         /\ Cur' = Cur /\ CurSeq' = CurSeq /\ \A c : Hash(c)' = Hash(c)
         /\ gap' = gap \/ BeginTick
<1>1. UNCHANGED <<clips, landed, tracker, selfOpen, pubEnabled, epoch, noted>>
  BY DEF LoopStep, UpdateSettings, BeginTick, HoldForPause, SeedSample, SeedAnchor,
         ProbeSequence, ResolveFocus, ReadSnapshot, AdmitClip, CheckPause, InsertEntry,
         InsertFails, ReadFails, envVars, pubVars
<1>2. gap' = gap \/ BeginTick
  BY DEF LoopStep, UpdateSettings, HoldForPause, SeedSample, SeedAnchor,
         ProbeSequence, ResolveFocus, ReadSnapshot, AdmitClip, CheckPause, InsertEntry,
         InsertFails, ReadFails, envVars
<1>3. Cur' = Cur /\ CurSeq' = CurSeq
  BY <1>1 DEF Cur, CurSeq
<1>4. \A c : Hash(c)' = Hash(c)
  BY <1>1 DEF Hash
<1> QED
  BY <1>1, <1>2, <1>3, <1>4

\* The environment either leaves the clips as they are or adds one, numbered next to
\* the one before it unless the host slept.
LEMMA EnvironmentFrame ==
  ASSUME TypeOK, Staged, Environment
  PROVE  /\ UNCHANGED <<loopVars, ghostVars>> /\ (gap => gap')
         /\ \/ /\ UNCHANGED clips /\ Cur' = Cur /\ (landed => landed')
            \/ /\ Cur' = Cur + 1 /\ Cur' \in Nat /\ UNCHANGED pubVars
               /\ clips'[Cur'].pause = IF pubEnabled THEN None ELSE epoch
               /\ ~gap' => clips'[Cur'].seq = CurSeq + 1
<1>1. UNCHANGED <<loopVars, ghostVars>> /\ (gap => gap')
  <2>1. UNCHANGED <<loopVars, ghostVars>>
    BY DEF Environment, BeginCopy, Land, SelfWrite, RecordSelfWrite, Sleep, NotePause,
           SendPause, SendResume
  <2>2. gap' = gap \/ gap' = TRUE
    BY DEF Environment, BeginCopy, Land, SelfWrite, RecordSelfWrite, Sleep, NotePause,
           SendPause, SendResume, envVars
  <2> QED
    BY <2>1, <2>2
<1>2. Cur \in Nat /\ clips \in Seq(ClipRecords)
  BY ClipFacts DEF TypeOK, ClipRecords
<1>3. ASSUME NEW c, NEW s, NEW own, clips' = Append(clips, Clip(c, s, own)),
             Cur < MaxClips, UNCHANGED pubVars, gap' \/ s = CurSeq + 1
      PROVE  /\ Cur' = Cur + 1 /\ Cur' \in Nat /\ UNCHANGED pubVars
             /\ clips'[Cur'].pause = IF pubEnabled THEN None ELSE epoch
             /\ ~gap' => clips'[Cur'].seq = CurSeq + 1
  <2>1. Cur' = Cur + 1 /\ Cur' \in Nat /\ clips'[Cur'] = Clip(c, s, own)
    <3> DEFINE x == Clip(c, s, own)
    <3>1. clips' = Append(clips, x)
      BY <1>3
    <3> HIDE DEF x
    <3>2. clips \in Seq(ClipRecords \cup {x}) /\ Len(clips) \in Nat
      BY <1>2 DEF Cur
    <3>3. Len(clips') = Len(clips) + 1 /\ clips'[Len(clips) + 1] = x
      BY <3>1, <3>2
    <3> QED
      BY <3>2, <3>3 DEF Cur, x
  <2>2. Clip(c, s, own).pause = (IF pubEnabled THEN None ELSE epoch) /\ Clip(c, s, own).seq = s
    BY DEF Clip
  <2> QED
    BY <1>3, <2>1, <2>2
<1>4. CASE \E c \in Contents : BeginCopy(c)
  <2>1. PICK c \in Contents : BeginCopy(c)
    BY <1>4
  <2> QED
    BY <1>1, <1>3, <2>1 DEF BeginCopy, NextSeq
<1>5. CASE SelfWrite
  <2>1. PICK s \in stored : clips' = Append(clips, Clip(clips[s.clip].content, NextSeq, TRUE))
    BY <1>5 DEF SelfWrite
  <2> QED
    BY <1>1, <1>3, <1>5, <2>1 DEF SelfWrite, NextSeq
<1>6. CASE Sleep
  <2>1. CASE UNCHANGED <<clips, landed>>
    BY <1>1, <2>1 DEF Cur
  <2>2. CASE ~ UNCHANGED <<clips, landed>>
    <3>1. PICK c \in Contents, i \in 1..Cur :
             clips' = Append(clips, Clip(c, clips[i].seq, FALSE)) /\ Cur < MaxClips
      BY <1>6, <2>2 DEF Sleep
    <3> QED
      BY <1>1, <1>3, <1>6, <3>1 DEF Sleep
  <2> QED
    BY <2>1, <2>2
<1>7. CASE Land \/ NotePause \/ SendPause \/ SendResume \/ RecordSelfWrite
  BY <1>1, <1>7 DEF Land, NotePause, SendPause, SendResume, RecordSelfWrite, envVars, Cur
<1> QED
  BY <1>4, <1>5, <1>6, <1>7 DEF Environment

\* The history grows at the insert only.
LEMMA OnlyInsertRecords ==
  ASSUME [Next]_vars, ~InsertEntry
  PROVE  UNCHANGED stored
  BY DEF Next, Environment, LoopStep, Restart, BeginCopy, Land, SelfWrite,
         RecordSelfWrite, Sleep, NotePause, SendPause, SendResume, UpdateSettings,
         BeginTick, HoldForPause, SeedSample, SeedAnchor, ProbeSequence,
         ResolveFocus, ReadSnapshot, AdmitClip, CheckPause, InsertFails, ReadFails,
         ghostVars, vars

-----------------------------------------------------------------------------
(* A clip skipped for a secure field.                                       *)

\* A clip skipped for a secure field, not one of S, and not in history is never the
\* sample of a tick that can still insert; and while it is on the clipboard, the marker
\* and the anchor name it, so that no tick gets past the probe.
SecureIsHeld(S) ==
  /\ secured \subseteq 1..Cur
  /\ pc = "focus" => tick.seq = clips[tick.probed].seq
  /\ \A c \in secured \ (InHistory \cup S) :
       /\ pc \in {"admit", "persist", "insert"} => tick.sample # c
       /\ c = Cur => /\ dedup.last_sequence = CurSeq
                     /\ dedup.secure_skipped_sequence = CurSeq
                     /\ pc \notin {"focus", "read", "admit", "persist", "insert"}
                     /\ pc \in {"resumeAnchor", "launchAnchor"} => tick.sample = Cur

LEMMA SecureEnvironment ==
  ASSUME NEW S, TypeOK, Staged, SecureIsHeld(S), Environment
  PROVE  SecureIsHeld(S)'
<1>1. UNCHANGED <<pc, tick, dedup, secured, stored>>
  BY EnvironmentFrame DEF loopVars, ghostVars
<1>2. InHistory' = InHistory
  BY <1>1 DEF InHistory
<1>3. /\ Cur \in Nat /\ Cur' \in Nat /\ Cur <= Cur'
      /\ \A i \in 1..Cur : clips'[i] = clips[i]
  BY EnvironmentGrows, ClipFacts
<1>4. secured \subseteq 1..Cur'
  BY <1>3 DEF SecureIsHeld
<1>5. pc = "focus" => tick.seq = clips'[tick.probed].seq
  BY <1>3 DEF SecureIsHeld, Staged, Locals
<1>6. CASE Cur' = Cur
  <2>1. CurSeq' = CurSeq
    BY <1>3, <1>6, ClipFacts DEF CurSeq
  <2> QED
    BY <1>1, <1>2, <1>4, <1>5, <1>6, <2>1 DEF SecureIsHeld
<1>7. CASE Cur' > Cur
  <2>1. \A c \in secured : c # Cur'
    BY <1>3, <1>7 DEF SecureIsHeld
  <2> QED
    BY <1>1, <1>2, <1>4, <1>5, <2>1 DEF SecureIsHeld
<1> QED
  BY <1>3, <1>6, <1>7

\* A step that ends the tick and leaves the anchor and the marker, if the clip on the
\* clipboard was skipped.
LEMMA SecureTickEnds ==
  ASSUME NEW S, SecureIsHeld(S), EndTick, Cur' = Cur, CurSeq' = CurSeq, UNCHANGED stored,
         secured' \subseteq 1..Cur,
         Cur \in secured' \ (InHistory \cup S) =>
           dedup'.last_sequence = CurSeq /\ dedup'.secure_skipped_sequence = CurSeq
  PROVE  SecureIsHeld(S)'
<1>1. pc' \in {"idle", "apply"} /\ InHistory' = InHistory
  BY DEF EndTick, InHistory
<1> QED
  BY <1>1 DEF SecureIsHeld

LEMMA SecureLoop ==
  ASSUME NEW S, TypeOK, Staged, SecureIsHeld(S), LoopStep
  PROVE  SecureIsHeld(S)'
<1>1. Cur' = Cur /\ CurSeq' = CurSeq /\ UNCHANGED clips
  BY LoopFrame
<1>0. UNCHANGED stored => InHistory' = InHistory
  BY DEF InHistory
<1>2. dedup \in Dedups /\ tick \in Ticks /\ secured \subseteq 1..Cur
  BY DEF TypeOK, SecureIsHeld
<1>3. CASE UpdateSettings \/ BeginTick \/ HoldForPause
  <2>1. /\ dedup'.last_sequence = dedup.last_sequence
        /\ dedup'.secure_skipped_sequence = dedup.secure_skipped_sequence
        /\ pc' \in {"idle", "apply", "hold", "resumeSeed", "probe"}
        /\ UNCHANGED <<stored, secured>>
    BY <1>2, <1>3 DEF UpdateSettings, BeginTick, ArmWakeGap, HoldForPause, EndTick, Dedups,
                      ghostVars
  <2> QED
    BY <1>0, <1>1, <2>1 DEF SecureIsHeld
<1>4. CASE SeedSample
  <2>1. /\ UNCHANGED <<dedup, stored, secured>> /\ pc' \in {"resumeAnchor", "launchAnchor"}
        /\ tick'.sample = Cur
    BY <1>2, <1>4 DEF SeedSample, Ticks
  <2> QED
    BY <1>0, <1>1, <2>1 DEF SecureIsHeld
<1>5. CASE SeedAnchor
  <2>1. /\ dedup'.last_sequence = clips[tick.sample].seq
        /\ dedup'.secure_skipped_sequence =
             IF dedup.secure_skipped_sequence = clips[tick.sample].seq
             THEN dedup.secure_skipped_sequence ELSE None
        /\ UNCHANGED <<stored, secured>> /\ EndTick
        /\ pc \in {"resumeAnchor", "launchAnchor"}
    BY <1>2, <1>5 DEF SeedAnchor, Seeded, AnchorDecided, Dedups
  <2>2. Cur \in secured \ (InHistory \cup S) => tick.sample = Cur /\ dedup.secure_skipped_sequence = CurSeq
    BY <2>1 DEF SecureIsHeld
  <2> QED
    BY <1>1, <1>2, <2>1, <2>2, SecureTickEnds DEF CurSeq
<1>6. CASE ProbeSequence
  <2>1. UNCHANGED <<stored, secured>> /\ pc = "probe"
    BY <1>6 DEF ProbeSequence
  <2>2. CASE ProbeUnchanged \/ ProbeSecureResync
    <3>1. /\ dedup'.last_sequence = dedup.last_sequence /\ EndTick
          /\ dedup'.secure_skipped_sequence = dedup.secure_skipped_sequence
      BY <1>2, <2>2 DEF ProbeUnchanged, ProbeSecureResync, Dedups
    <3> QED
      BY <1>1, <1>2, <2>1, <3>1, SecureTickEnds DEF SecureIsHeld
  <2>3. CASE ProbeSelfWrite \/ ProbeUndecided
    <3>1. Cur \notin secured \ (InHistory \cup S)
      BY <2>3 DEF ProbeSelfWrite, ProbeUndecided, DecidedBySequence, IsSecureSkipped,
                  SecureIsHeld
    <3>2. CASE ProbeSelfWrite
      BY <1>1, <1>2, <2>1, <3>1, <3>2, SecureTickEnds DEF ProbeSelfWrite
    <3>3. CASE pc' = "launchSeed" /\ UNCHANGED <<tick, dedup>>
      BY <1>0, <1>1, <2>1, <3>1, <3>3 DEF SecureIsHeld
    <3>4. CASE /\ pc' = "focus" /\ UNCHANGED dedup
               /\ tick' = [tick EXCEPT !.seq = CurSeq, !.probed = Cur,
                                       !.force = dedup.force_content_check]
      <4>1. tick'.seq = CurSeq /\ tick'.probed = Cur
        BY <1>2, <3>4 DEF Ticks
      <4> QED
        BY <1>0, <1>1, <2>1, <3>1, <3>4, <4>1 DEF SecureIsHeld, CurSeq
    <3> QED
      BY <2>3, <3>2, <3>3, <3>4 DEF ProbeUndecided
  <2> QED
    BY <1>6, <2>2, <2>3 DEF ProbeSequence
<1>7. CASE ResolveFocus
  <2>1. /\ UNCHANGED stored /\ pc = "focus" /\ tick.seq = clips[tick.probed].seq
        /\ Cur \notin secured \ (InHistory \cup S)
    BY <1>7 DEF ResolveFocus, SecureIsHeld
  <2>2. CASE SkipSecure
    <3>1. /\ dedup'.last_sequence = tick.seq /\ dedup'.secure_skipped_sequence = tick.seq
          /\ secured' = secured \cup ({tick.probed} \ InHistory) /\ EndTick
      BY <1>2, <2>2 DEF SkipSecure, Dedups, InHistory
    <3>2. tick.probed \in 1..Cur
      BY <2>1 DEF Staged, Locals
    <3>3. Cur \in secured' \ (InHistory \cup S) => tick.probed = Cur
      BY <2>1, <3>1
    <3> QED
      BY <1>1, <1>2, <2>1, <3>1, <3>2, <3>3, SecureTickEnds DEF CurSeq
  <2>3. CASE SkipBlind
    BY <1>1, <1>2, <2>1, <2>3, SecureTickEnds DEF SkipBlind
  <2>4. CASE pc' = "read" /\ UNCHANGED <<dedup, tick, secured>>
    BY <1>0, <1>1, <2>1, <2>4 DEF SecureIsHeld
  <2> QED
    BY <1>7, <2>2, <2>3, <2>4 DEF ResolveFocus
<1>8. CASE ReadSnapshot
  <2>1. /\ UNCHANGED <<dedup, stored, secured>> /\ pc = "read" /\ pc' = "admit"
        /\ tick'.sample = Cur
    BY <1>2, <1>8 DEF ReadSnapshot, Ticks, ghostVars
  <2> QED
    BY <1>0, <1>1, <2>1 DEF SecureIsHeld
<1>9. CASE AdmitClip \/ CheckPause \/ InsertFails
  <2>1. /\ UNCHANGED <<stored, secured>> /\ pc \in {"admit", "persist", "insert"}
        /\ Cur \notin secured \ (InHistory \cup S)
    BY <1>9 DEF AdmitClip, CheckPause, InsertFails, ghostVars, SecureIsHeld
  <2>2. CASE EndTick
    BY <1>1, <1>2, <2>1, <2>2, SecureTickEnds
  <2>3. CASE pc' \in {"persist", "insert"} /\ tick'.sample = tick.sample
    BY <1>0, <1>1, <2>1, <2>3 DEF SecureIsHeld
  <2>4. EndTick \/ (pc' \in {"persist", "insert"} /\ tick'.sample = tick.sample)
    BY <1>2, <1>9 DEF AdmitClip, DropUnreadable, RetryEmpty, DropDuplicate, DropDenied,
                      AdmissionFails, AdmissionReady, CheckPause, InsertFails, Ticks
  <2> QED
    BY <2>2, <2>3, <2>4
<1>10. CASE InsertEntry
  <2>1. /\ UNCHANGED <<dedup, secured>> /\ pc = "insert" /\ pc' \in {"idle", "apply"}
        /\ InHistory \subseteq InHistory'
    BY <1>10 DEF InsertEntry, EndTick, InHistory
  <2> QED
    BY <1>1, <2>1 DEF SecureIsHeld
<1>11. CASE ReadFails
  BY <1>1, <1>2, <1>11, SecureTickEnds DEF ReadFails, ghostVars, SecureIsHeld
<1> QED
  BY <1>3, <1>4, <1>5, <1>6, <1>7, <1>8, <1>9, <1>10, <1>11 DEF LoopStep

\* No loop but the one that starts anew forgets what it skipped.
LEMMA SecureStep ==
  ASSUME NEW S, TypeOK, Staged, SecureIsHeld(S), [Next]_vars, ~Restart
  PROVE  SecureIsHeld(S)'
<1>1. CASE UNCHANGED vars
  <2>1. UNCHANGED <<pc, tick, dedup, secured, stored, clips>>
    BY <1>1 DEF vars, envVars, loopVars, ghostVars
  <2>2. Cur' = Cur /\ CurSeq' = CurSeq /\ InHistory' = InHistory
    BY <2>1 DEF Cur, CurSeq, InHistory
  <2> QED
    BY <2>1, <2>2 DEF SecureIsHeld
<1> QED
  BY <1>1, SecureEnvironment, SecureLoop DEF Next

\* What is held is not recorded.
LEMMA SecureNotRecorded ==
  ASSUME NEW S, SecureIsHeld(S), [Next]_vars, NEW c \in secured \ S, c \in InHistory'
  PROVE  c \in InHistory
<1>1. CASE InsertEntry
  <2>1. pc = "insert" /\ stored' = stored \cup {[clip |-> tick.sample, source |-> tick.source]}
    BY <1>1 DEF InsertEntry
  <2>2. c \in InHistory \/ c = tick.sample
    BY <2>1 DEF InHistory
  <2> QED
    BY <2>1, <2>2 DEF SecureIsHeld
<1>2. CASE ~InsertEntry
  BY <1>2, OnlyInsertRecords DEF InHistory
<1> QED
  BY <1>1, <1>2

\* A clip skipped because a secure field had focus is not recorded by any later step of
\* the same loop (its supervisor does not restart it: the marker is the loop's own).
THEOREM SecureClipHeld ==
  ASSUME MaxRestarts = 0
  PROVE  Spec => SecureClipStaysOut
<1>1. Init => SecureIsHeld({})
  BY DEF Init, SecureIsHeld
<1>2. TypeOK /\ Staged /\ SecureIsHeld({}) /\ [Next]_vars => SecureIsHeld({})'
  <2>1. ASSUME TypeOK, [Next]_vars PROVE ~Restart
    <3>1. restarts \in 0..0
      BY <2>1 DEF TypeOK
    <3> QED
      BY <3>1 DEF Restart
  <2> QED
    BY <2>1, SecureStep
<1>3. SecureIsHeld({}) /\ [Next]_vars
        => [\A c \in secured : c \in InHistory' => c \in InHistory]_vars
  <2>1. ASSUME SecureIsHeld({}), [Next]_vars, NEW c \in secured, c \in InHistory'
        PROVE  c \in InHistory
    BY <2>1, SecureNotRecorded
  <2> QED
    BY <2>1
<1> QED
  BY <1>1, <1>2, <1>3, StagedAlways, PTL DEF Spec, SecureClipStaysOut

\* As long as the loop has been rebuilt n times and no more, a clip that is skipped for a
\* secure field and is not one of S is not recorded from then on.
HeldByLoop(n, S) ==
  [][restarts' = n => \A c \in secured \ S : c \in InHistory' => c \in InHistory]_vars

\* What holds of any loop: a tick that resolves the focus has the number of the clip it
\* probed.
Probed == secured \subseteq 1..Cur /\ (pc = "focus" => tick.seq = clips[tick.probed].seq)

LEMMA ProbedAlways == Spec => []Probed
<1>1. Init => SecureIsHeld(Int)
  BY DEF Init, SecureIsHeld
<1>2. TypeOK /\ Staged /\ SecureIsHeld(Int) /\ [Next]_vars => SecureIsHeld(Int)'
  <2> SUFFICES ASSUME TypeOK, Staged, SecureIsHeld(Int), [Next]_vars PROVE SecureIsHeld(Int)'
    OBVIOUS
  <2>1. CASE Restart
    <3>1. pc' # "focus" /\ UNCHANGED <<clips, secured>>
      BY <2>1 DEF Restart, ghostVars, envVars
    <3>2. Cur' = Cur /\ Cur \in Nat
      BY <3>1, ClipFacts DEF Cur
    <3>3. secured' \ (InHistory' \cup Int) = {}
      BY <3>1, <3>2 DEF SecureIsHeld
    <3> QED
      BY <3>1, <3>2, <3>3 DEF SecureIsHeld
  <2> QED
    BY <2>1, SecureStep
<1>3. SecureIsHeld(Int) => Probed
  BY DEF SecureIsHeld, Probed
<1> QED
  BY <1>1, <1>2, <1>3, StagedAlways, PTL DEF Spec

\* Only a restart counts as one.
LEMMA RestartsCount ==
  ASSUME TypeOK, Staged, [Next]_vars
  PROVE  restarts' = restarts + 1 \/ (restarts' = restarts /\ ~Restart)
<1>1. restarts \in Nat /\ (Restart => restarts' = restarts + 1)
  BY DEF TypeOK, Restart
<1>2. LoopStep => UNCHANGED restarts
  BY DEF LoopStep, UpdateSettings, BeginTick, HoldForPause, SeedSample, SeedAnchor,
         ProbeSequence, ResolveFocus, ReadSnapshot, AdmitClip, CheckPause, InsertEntry,
         InsertFails, ReadFails
<1>3. Environment \/ UNCHANGED vars => UNCHANGED restarts
  BY EnvironmentFrame DEF loopVars, vars
<1> QED
  BY <1>1, <1>2, <1>3 DEF Next

\* The same for every loop a supervisor built, however often it rebuilds it: what this loop
\* skips for a secure field, this loop does not record.  S are the clips that were skipped
\* before, by loops whose markers are gone.
THEOREM SecureClipHeldByEachLoop ==
  ASSUME NEW n \in Nat, NEW S
  PROVE  Spec => [](restarts = n /\ secured = S => HeldByLoop(n, S))
<1> DEFINE J == restarts > n \/ (restarts = n /\ SecureIsHeld(S))
           Held == [restarts' = n => \A c \in secured \ S : c \in InHistory' => c \in InHistory]_vars
<1>1. Probed /\ restarts = n /\ secured = S => J
  BY DEF Probed, SecureIsHeld
<1>2. ASSUME TypeOK, Staged, [Next]_vars
      PROVE  restarts' = restarts + 1 \/ (restarts' = restarts /\ ~Restart)
  BY <1>2, RestartsCount
<1>3. TypeOK /\ Staged /\ J /\ [Next]_vars => J'
  <2>1. ASSUME TypeOK PROVE restarts \in Nat
    BY <2>1 DEF TypeOK
  <2> QED
    BY <1>2, <2>1, SecureStep
<1>4. TypeOK /\ Staged /\ J /\ [Next]_vars => Held
  <2> SUFFICES ASSUME TypeOK, Staged, J, [Next]_vars, restarts' = n,
                      NEW c \in secured \ S, c \in InHistory'
               PROVE  c \in InHistory
    OBVIOUS
  <2>1. restarts \in Nat
    BY DEF TypeOK
  <2>2. SecureIsHeld(S)
    BY <1>2, <2>1
  <2> QED
    BY <2>2, SecureNotRecorded
<1> HIDE DEF J
<1> QED
  BY <1>1, <1>3, <1>4, ProbedAlways, StagedAlways, PTL DEF Spec, HeldByLoop

-----------------------------------------------------------------------------
(* The clip on the clipboard is not passed over.                            *)

\* Some clip with hash h was recorded or decided.
Known(h) == \E e \in 1..Cur : Hash(e) = h /\ e \in InHistory \cup settled

\* A dedup state may pass over the clip on the clipboard: its hash is of a clip dealt
\* with, its number is of no later clip, and of the one on the clipboard only when that
\* one is decided.
Sound(hash, force, s) ==
  /\ hash # None => Known(hash)
  /\ ~gap /\ ~force => /\ s # None => s <= CurSeq
                       /\ s = CurSeq => Known(Hash(Cur))

\* The dedup state may; while an admitted clip is on its way to the store, the one to
\* which a failed insert falls back may. And the numbers the tick holds are of the clips
\* it probed and sampled, until the host sleeps.
NothingStranded ==
  /\ pc \notin {"persist", "insert"} =>
       Sound(dedup.last_content_hash, dedup.force_content_check, dedup.last_sequence)
  /\ pc \in {"persist", "insert"} =>
       /\ Sound(tick.saved.content_hash, tick.saved.force_content_check, tick.saved.sequence)
       /\ dedup.last_sequence = SampleSeq /\ dedup.last_content_hash = SampleHash
       /\ ~dedup.force_content_check
  /\ pc \in {"focus", "read", "admit"} => tick.force = dedup.force_content_check
  /\ ~gap /\ pc = "focus" =>
       tick.seq <= CurSeq /\ (tick.seq = CurSeq => tick.probed = Cur)
  /\ ~gap /\ pc \in Sampled =>
       SampleSeq <= CurSeq /\ (SampleSeq = CurSeq => tick.sample = Cur)

\* What is known stays known.
LEMMA KnownGrows ==
  ASSUME Cur \in Nat, Cur' \in Nat, Cur <= Cur', \A i \in 1..Cur : clips'[i] = clips[i],
         InHistory \subseteq InHistory', settled \subseteq settled'
  PROVE  \A h : Known(h) => Known(h)'
<1> SUFFICES ASSUME NEW h, Known(h)
             PROVE  Known(h)'
  OBVIOUS
<1>1. PICK e \in 1..Cur : Hash(e) = h /\ e \in InHistory \cup settled
  BY DEF Known
<1>2. e \in 1..Cur' /\ clips'[e].content = h /\ e \in InHistory' \cup settled'
  BY <1>1 DEF Hash
<1> QED
  BY <1>2 DEF Known, Hash

LEMMA StrandEnvironment ==
  ASSUME TypeOK, Staged, NothingStranded, Environment
  PROVE  NothingStranded'
<1>1. UNCHANGED <<pc, tick, dedup, settled, stored>> /\ (gap => gap')
  BY EnvironmentFrame DEF loopVars, ghostVars
<1>2. /\ Cur \in Nat /\ Cur \in 1..Cur /\ Cur' \in Nat /\ Cur <= Cur'
      /\ \A i \in 1..Cur : clips'[i] = clips[i]
      /\ CurSeq \in Nat
  BY EnvironmentGrows, ClipFacts DEF Seqs
<1>3. \A h : Known(h) => Known(h)'
  BY <1>1, <1>2, KnownGrows DEF InHistory
<1>4. pc \in Sampled => SampleSeq' = SampleSeq /\ SampleHash' = SampleHash
  BY <1>1, <1>2 DEF Staged, Locals, SampleSeq, SampleHash, Hash
<1>5. \/ CurSeq' = CurSeq /\ Cur' = Cur /\ Hash(Cur)' = Hash(Cur)
      \/ ~gap' => CurSeq' = CurSeq + 1
  <2>1. CASE Cur' = Cur
    BY <1>2, <2>1 DEF CurSeq, Hash
  <2>2. CASE Cur' = Cur + 1 /\ (~gap' => clips'[Cur'].seq = CurSeq + 1)
    BY <2>2 DEF CurSeq
  <2> QED
    BY <2>1, <2>2, EnvironmentFrame
<1>6. \A hash, force : \A s \in Opt(Seqs) : Sound(hash, force, s) => Sound(hash, force, s)'
  <2> SUFFICES ASSUME NEW hash, NEW force, NEW s \in Opt(Seqs), Sound(hash, force, s)
               PROVE  Sound(hash, force, s)'
    OBVIOUS
  <2>1. hash # None => Known(hash)'
    BY <1>3 DEF Sound
  <2>2. ASSUME ~gap', ~force
        PROVE  (s # None => s <= CurSeq') /\ (s = CurSeq' => Known(Hash(Cur))')
    <3>1. s # None => s \in Nat /\ s <= CurSeq
      BY <1>1, <2>2 DEF Sound, Opt, Seqs
    <3>2. CASE CurSeq' = CurSeq + 1
      BY <1>2, <3>1, <3>2, NoneAssumption
    <3>3. CASE CurSeq' = CurSeq /\ Cur' = Cur /\ Hash(Cur)' = Hash(Cur)
      <4>1. s = CurSeq => Known(Hash(Cur))
        BY <1>1, <2>2 DEF Sound
      <4>2. Known(Hash(Cur)) => Known(Hash(Cur))'
        BY <1>3, <3>3 DEF Known
      <4> QED
        BY <3>1, <3>3, <4>1, <4>2
    <3> QED
      BY <1>5, <2>2, <3>2, <3>3
  <2> QED
    BY <2>1, <2>2 DEF Sound
<1>7. /\ dedup.last_sequence \in Opt(Seqs)
      /\ pc \in {"persist", "insert"} => tick.saved.sequence \in Opt(Seqs)
  BY DEF TypeOK, Staged, Locals, Dedups, Saves
<1>8. ~gap' /\ pc = "focus" => tick.seq <= CurSeq' /\ (tick.seq = CurSeq' => tick.probed = Cur')
  BY <1>1, <1>2, <1>5 DEF NothingStranded, Staged, Locals, Seqs
<1>9. ~gap' /\ pc \in Sampled => SampleSeq <= CurSeq' /\ (SampleSeq = CurSeq' => tick.sample = Cur')
  <2>1. pc \in Sampled => SampleSeq \in Nat
    BY ClipFacts DEF Staged, Locals, SampleSeq, Seqs
  <2> QED
    BY <1>1, <1>2, <1>5, <2>1 DEF NothingStranded
<1>10. pc \in {"persist", "insert"} => pc \in Sampled
  BY DEF Sampled
<1> QED
  BY <1>1, <1>4, <1>6, <1>7, <1>8, <1>9, <1>10 DEF NothingStranded

\* The end of a tick.
LEMMA StrandTickEnds ==
  ASSUME EndTick,
         Sound(dedup.last_content_hash, dedup.force_content_check, dedup.last_sequence)'
  PROVE  NothingStranded'
  BY DEF EndTick, NothingStranded, Sampled

LEMMA StrandLoop ==
  ASSUME TypeOK, Staged, NothingStranded, LoopStep
  PROVE  NothingStranded'
<1>1. /\ Cur' = Cur /\ CurSeq' = CurSeq /\ UNCHANGED clips /\ \A c : Hash(c)' = Hash(c)
      /\ Cur \in Nat /\ Cur \in 1..Cur /\ CurSeq \in Nat
      /\ \A c \in 1..Cur : Hash(c) \in Contents
  BY LoopFrame, ClipFacts DEF Seqs
<1>2. dedup \in Dedups /\ tick \in Ticks
  BY DEF TypeOK
<1>3. stored \subseteq stored' /\ settled \subseteq settled'
  BY DEF LoopStep, UpdateSettings, BeginTick, HoldForPause, SeedSample, SeedAnchor,
         ProbeSequence, ProbeUnchanged, ProbeSelfWrite, ProbeSecureResync, ProbeUndecided,
         ResolveFocus, SkipSecure, SkipBlind, ReadSnapshot, AdmitClip, DropUnreadable,
         RetryEmpty, DropDuplicate, DropDenied, AdmissionFails, AdmissionReady, CheckPause,
         InsertEntry, InsertFails, ReadFails, ghostVars
<1>4. \A h : Known(h) => Known(h)'
  BY <1>1, <1>3, KnownGrows DEF InHistory
<1>5. \A c \in 1..Cur : c \in InHistory' \cup settled' => Known(Hash(c))'
  BY <1>1 DEF Known
<1>6. ASSUME NEW hash, NEW force, NEW s, Sound(hash, force, s), gap => gap' \/ force
      PROVE  Sound(hash, force, s)'
  BY <1>1, <1>4, <1>6 DEF Sound
\* A clip the loop has dealt with is anchored.
<1>7. ASSUME NEW hash, NEW force, NEW s, NEW c \in 1..Cur, c \in InHistory' \cup settled',
             ~gap' => s <= CurSeq /\ (s = CurSeq => c = Cur),
             hash # None => hash = Hash(c) \/ Known(hash)
      PROVE  Sound(hash, force, s)'
  BY <1>1, <1>4, <1>5, <1>7 DEF Sound
<1>8. CASE UpdateSettings \/ HoldForPause \/ ReadFails
  <2>1. /\ dedup'.last_sequence = dedup.last_sequence /\ gap' = gap
        /\ dedup'.last_content_hash = dedup.last_content_hash
        /\ dedup'.force_content_check = dedup.force_content_check
        /\ pc \notin {"persist", "insert"} /\ pc' \in {"idle", "apply", "resumeSeed", "probe"}
    BY <1>2, <1>8 DEF UpdateSettings, HoldForPause, ReadFails, EndTick, Dedups, envVars
  <2> QED
    BY <1>6, <2>1 DEF NothingStranded, Sampled
<1>9. CASE BeginTick
  <2>1. /\ dedup'.last_sequence = dedup.last_sequence
        /\ dedup'.last_content_hash = dedup.last_content_hash
        /\ dedup'.force_content_check = (dedup.force_content_check \/ gap)
        /\ pc = "idle" /\ pc' = "hold"
    BY <1>2, <1>9 DEF BeginTick, ArmWakeGap, Dedups
  <2>2. Sound(dedup.last_content_hash, dedup.force_content_check \/ gap, dedup.last_sequence)
    BY <2>1 DEF NothingStranded, Sound
  <2> QED
    BY <1>6, <2>1, <2>2 DEF NothingStranded, Sampled
<1>10. CASE SeedSample \/ ReadSnapshot
  <2>1. /\ UNCHANGED <<dedup, gap>> /\ tick'.sample = Cur /\ tick'.force = tick.force
        /\ pc \in {"resumeSeed", "launchSeed", "read"}
        /\ pc' \in {"resumeAnchor", "launchAnchor", "admit"}
        /\ pc' = "admit" => pc = "read"
    BY <1>2, <1>10 DEF SeedSample, ReadSnapshot, Ticks, envVars
  <2>2. SampleSeq' = CurSeq
    BY <1>1, <2>1 DEF SampleSeq, CurSeq
  <2> QED
    BY <1>1, <1>6, <2>1, <2>2 DEF NothingStranded
<1>11. CASE SeedAnchor
  <2>1. /\ dedup'.last_sequence = SampleSeq /\ pc \in Sampled /\ gap' = gap
        /\ dedup'.last_content_hash \in {Hash(tick.sample), None}
        /\ tick.sample \in settled' /\ tick.sample \in 1..Cur /\ EndTick
    BY <1>2, <1>11 DEF SeedAnchor, Seeded, AnchorDecided, Dedups, SampleSeq, Sampled, Staged,
                       Locals, envVars
  <2> QED
    BY <1>7, <2>1, StrandTickEnds DEF NothingStranded
<1>12. CASE ProbeSequence
  <2>1. gap' = gap /\ pc = "probe"
    BY <1>12 DEF ProbeSequence, envVars
  <2>2. CASE ProbeUnchanged
    BY <1>6, <2>1, <2>2, StrandTickEnds DEF ProbeUnchanged, NothingStranded
  <2>3. CASE ProbeSelfWrite \/ ProbeSecureResync
    <3>1. /\ dedup'.last_sequence = CurSeq /\ Cur \in settled' /\ EndTick
          /\ dedup'.last_content_hash = dedup.last_content_hash
      BY <1>2, <2>3 DEF ProbeSelfWrite, ProbeSecureResync, IsSecureSkipped, AnchorDecided,
                        Dedups
    <3>2. dedup.last_content_hash # None => Known(dedup.last_content_hash)
      BY <2>1 DEF NothingStranded, Sound
    <3>3. CurSeq <= CurSeq
      BY <1>1
    <3> QED
      BY <1>1, <1>7, <3>1, <3>2, <3>3, StrandTickEnds
  <2>4. CASE ProbeUndecided
    <3>1. CASE pc' = "launchSeed" /\ UNCHANGED <<tick, dedup>>
      BY <1>6, <2>1, <3>1 DEF NothingStranded, Sampled
    <3>2. CASE /\ pc' = "focus" /\ UNCHANGED dedup
               /\ tick' = [tick EXCEPT !.seq = CurSeq, !.probed = Cur,
                                       !.force = dedup.force_content_check]
      <4>1. /\ tick'.seq = CurSeq /\ tick'.probed = Cur
            /\ tick'.force = dedup.force_content_check
        BY <1>2, <3>2 DEF Ticks
      <4> QED
        BY <1>1, <1>6, <2>1, <3>2, <4>1 DEF NothingStranded, Sampled
    <3> QED
      BY <2>4, <3>1, <3>2 DEF ProbeUndecided
  <2> QED
    BY <1>12, <2>2, <2>3, <2>4 DEF ProbeSequence
<1>13. CASE ResolveFocus
  <2>1. gap' = gap /\ pc = "focus" /\ tick.probed \in 1..Cur
    BY <1>13 DEF ResolveFocus, envVars, Staged, Locals
  <2>2. CASE SkipSecure
    <3>1. /\ dedup'.last_sequence = tick.seq /\ tick.probed \in settled' /\ EndTick
          /\ dedup'.last_content_hash = dedup.last_content_hash
      BY <1>2, <2>2 DEF SkipSecure, Dedups
    <3>2. dedup'.last_content_hash # None => Known(dedup.last_content_hash)'
      BY <1>4, <2>1, <3>1 DEF NothingStranded, Sound
    <3>3. ~gap => tick.seq <= CurSeq /\ (tick.seq = CurSeq => Known(Hash(Cur))')
      BY <1>1, <1>5, <2>1, <3>1 DEF NothingStranded
    <3>4. Sound(dedup.last_content_hash, dedup.force_content_check, dedup.last_sequence)'
      BY <1>1, <2>1, <3>1, <3>2, <3>3 DEF Sound
    <3> QED
      BY <3>1, <3>4, StrandTickEnds
  <2>3. CASE SkipBlind
    <3>1. /\ dedup'.last_sequence = dedup.last_sequence /\ dedup'.force_content_check /\ EndTick
          /\ dedup'.last_content_hash = dedup.last_content_hash
      BY <1>2, <2>3 DEF SkipBlind, Dedups
    <3> QED
      BY <1>4, <2>1, <3>1, StrandTickEnds DEF NothingStranded, Sound
  <2>4. CASE pc' = "read" /\ UNCHANGED <<dedup, tick>>
    BY <1>6, <2>1, <2>4 DEF NothingStranded, Sampled
  <2> QED
    BY <1>13, <2>2, <2>3, <2>4 DEF ResolveFocus
<1>14. CASE AdmitClip
  <2>1. /\ gap' = gap /\ pc = "admit" /\ tick.sample \in 1..Cur /\ tick.force \in BOOLEAN
        /\ tick.force = dedup.force_content_check
        /\ Sound(dedup.last_content_hash, dedup.force_content_check, dedup.last_sequence)
        /\ ~gap => SampleSeq <= CurSeq /\ (SampleSeq = CurSeq => tick.sample = Cur)
    BY <1>2, <1>14 DEF AdmitClip, envVars, Staged, Locals, Sampled, Ticks, NothingStranded
  <2>2. SampleHash = Hash(tick.sample)
    BY DEF SampleHash
  <2>3. Hash(tick.sample) \in Contents /\ Hash(tick.sample) # None
    BY <2>1, ClipFacts, NoneAssumption
  <2>4. CASE DropUnreadable \/ DropDenied
    <3>1. /\ dedup'.last_sequence = SampleSeq /\ tick.sample \in settled' /\ EndTick
          /\ dedup'.last_content_hash \in {dedup.last_content_hash, SampleHash}
      BY <1>2, <2>4 DEF DropUnreadable, DropDenied, Decide, AnchorDecided, Accepted, BeginClip,
                        Dedups
    <3>2. dedup'.last_content_hash # None =>
            dedup'.last_content_hash = Hash(tick.sample) \/ Known(dedup'.last_content_hash)
      BY <2>1, <2>2, <3>1 DEF Sound
    <3> QED
      BY <1>7, <2>1, <2>2, <3>1, <3>2, StrandTickEnds
  <2>5. CASE RetryEmpty
    <3>1. /\ dedup'.force_content_check /\ EndTick
          /\ dedup'.last_content_hash = dedup.last_content_hash
      BY <1>2, <2>5 DEF RetryEmpty, BeginClip, Dedups
    <3> QED
      BY <1>4, <2>1, <3>1, StrandTickEnds DEF Sound
  <2>6. CASE DropDuplicate
    <3>1. /\ dedup'.last_sequence = SampleSeq /\ EndTick
          /\ dedup'.last_content_hash = dedup.last_content_hash
          /\ dedup.last_content_hash = Hash(tick.sample)
      BY <1>2, <2>2, <2>6 DEF DropDuplicate, IsDuplicate, BeginClip, Dedups
    <3>2. Known(dedup.last_content_hash)
      BY <2>1, <2>3, <3>1 DEF Sound
    <3>3. \A h : h = Hash(tick.sample) => Known(h)'
      BY <1>4, <3>1, <3>2
    <3>4. ~gap => SampleSeq <= CurSeq /\ (SampleSeq = CurSeq => Known(Hash(Cur))')
      BY <1>1, <2>1, <3>3
    <3>5. Known(dedup.last_content_hash)'
      BY <3>1, <3>3
    <3>6. Sound(dedup.last_content_hash, dedup.force_content_check, dedup.last_sequence)'
      BY <1>1, <2>1, <3>1, <3>4, <3>5 DEF Sound
    <3> QED
      BY <3>1, <3>6, StrandTickEnds
  <2>7. CASE AdmissionFails
    <3>1. /\ dedup'.last_sequence = dedup.last_sequence /\ EndTick
          /\ dedup'.last_content_hash = dedup.last_content_hash
          /\ dedup'.force_content_check = dedup.force_content_check
      BY <1>2, <2>1, <2>7 DEF AdmissionFails, Accepted, BeginClip, Rollback, SavedBy, Dedups
    <3> QED
      BY <1>6, <2>1, <3>1, StrandTickEnds
  <2>8. CASE AdmissionReady
    <3>1. /\ tick'.saved.content_hash = dedup.last_content_hash
          /\ tick'.saved.force_content_check = dedup.force_content_check
          /\ tick'.saved.sequence = dedup.last_sequence
          /\ tick'.sample = tick.sample /\ pc' = "persist"
      BY <1>2, <2>1, <2>8 DEF AdmissionReady, SavedBy, Ticks
    <3>2. /\ dedup'.last_sequence = SampleSeq /\ dedup'.last_content_hash = SampleHash
          /\ ~dedup'.force_content_check
      BY <1>2, <2>8 DEF AdmissionReady, Accepted, BeginClip, Dedups
    <3>3. SampleSeq' = SampleSeq /\ SampleHash' = SampleHash
      BY <1>1, <3>1 DEF SampleSeq, SampleHash
    <3> QED
      BY <1>1, <1>6, <2>1, <3>1, <3>2, <3>3 DEF NothingStranded
  <2> QED
    BY <1>14, <2>4, <2>5, <2>6, <2>7, <2>8 DEF AdmitClip
<1>15. CASE CheckPause \/ InsertEntry \/ InsertFails
  <2>1. /\ gap' = gap /\ pc \in {"persist", "insert"} /\ tick.sample \in 1..Cur
        /\ dedup.last_sequence = SampleSeq /\ dedup.last_content_hash = SampleHash
        /\ Sound(tick.saved.content_hash, tick.saved.force_content_check, tick.saved.sequence)
        /\ ~gap => SampleSeq <= CurSeq /\ (SampleSeq = CurSeq => tick.sample = Cur)
        /\ ~dedup.force_content_check
    BY <1>15 DEF CheckPause, InsertEntry, InsertFails, envVars, Staged, Locals, Sampled,
                 NothingStranded
  <2>2. SampleHash = Hash(tick.sample)
    BY DEF SampleHash
  <2>3. CASE /\ EndTick /\ tick.sample \in InHistory' \cup settled'
             /\ dedup'.last_sequence = SampleSeq /\ dedup'.last_content_hash = SampleHash
    BY <1>7, <2>1, <2>2, <2>3, StrandTickEnds
  <2>4. CASE CheckPause
    <3>1. CASE Paused
      <4>1. /\ dedup'.last_sequence = SampleSeq /\ dedup'.last_content_hash = SampleHash
            /\ EndTick /\ tick.sample \in settled'
        BY <1>2, <2>1, <2>4, <3>1 DEF CheckPause, Dedups
      <4> QED
        BY <2>3, <4>1
    <3>2. CASE ~Paused
      <4>1. pc' = "insert" /\ UNCHANGED <<dedup, tick>>
        BY <2>4, <3>2 DEF CheckPause
      <4>2. SampleSeq' = SampleSeq /\ SampleHash' = SampleHash
        BY <1>1, <4>1 DEF SampleSeq, SampleHash
      <4> QED
        BY <1>1, <1>6, <2>1, <4>1, <4>2 DEF NothingStranded
    <3> QED
      BY <3>1, <3>2
  <2>5. CASE InsertEntry
    <3>1. stored' = stored \cup {[clip |-> tick.sample, source |-> tick.source]}
      BY <2>5 DEF InsertEntry
    <3> DEFINE r == [clip |-> tick.sample, source |-> tick.source]
    <3>2. r \in stored' /\ r.clip = tick.sample
      BY <3>1
    <3> HIDE DEF r
    <3>3. tick.sample \in InHistory'
      BY <3>2 DEF InHistory
    <3> QED
      BY <2>1, <2>3, <2>5, <3>3 DEF InsertEntry
  <2>6. CASE InsertFails
    <3>1. /\ dedup'.last_sequence = tick.saved.sequence /\ EndTick
          /\ dedup'.last_content_hash = tick.saved.content_hash
          /\ dedup'.force_content_check = tick.saved.force_content_check
      BY <1>2, <2>6 DEF InsertFails, Rollback, Dedups
    <3> QED
      BY <1>6, <2>1, <3>1, StrandTickEnds
  <2> QED
    BY <1>15, <2>4, <2>5, <2>6
<1> QED
  BY <1>8, <1>9, <1>10, <1>11, <1>12, <1>13, <1>14, <1>15 DEF LoopStep

\* No clip is stranded, whatever fails, wakes or collides: between ticks, the clip whose
\* number the loop would skip has been recorded or decided.
THEOREM NoClipIsStranded == Spec => []NoStrandedClip
<1>1. Init => NothingStranded
  <2> SUFFICES ASSUME Init
               PROVE  NothingStranded
    OBVIOUS
  <2>1. CurSeq # None
    BY InitTyped, ClipFacts, NoneAssumption DEF Seqs
  <2> QED
    BY <2>1 DEF Init, NothingStranded, NewDedup, Sound, Sampled
<1>2. TypeOK /\ Staged /\ NothingStranded /\ [Next]_vars => NothingStranded'
  <2> SUFFICES ASSUME TypeOK, Staged, NothingStranded, [Next]_vars
               PROVE  NothingStranded'
    OBVIOUS
  <2>1. CASE Restart
    <3>1. /\ pc' = "apply" /\ dedup'.last_sequence = None /\ dedup'.last_content_hash = None
          /\ UNCHANGED clips
      BY <2>1 DEF Restart, NewDedup
    <3>2. CurSeq' \in Nat /\ CurSeq' # None
      BY <3>1, ClipFacts, NoneAssumption DEF CurSeq, Cur, Seqs
    <3> QED
      BY <3>1, <3>2 DEF NothingStranded, Sound, Sampled
  <2>2. CASE UNCHANGED vars
    <3>1. UNCHANGED <<pc, tick, dedup, settled, stored, clips, gap>>
      BY <2>2 DEF vars, envVars, loopVars, ghostVars
    <3>2. /\ Cur' = Cur /\ CurSeq' = CurSeq /\ InHistory' = InHistory
          /\ SampleSeq' = SampleSeq /\ SampleHash' = SampleHash /\ \A c : Hash(c)' = Hash(c)
      BY <3>1 DEF Cur, CurSeq, InHistory, SampleSeq, SampleHash, Hash
    <3>3. \A h : Known(h)' <=> Known(h)
      BY <3>1, <3>2 DEF Known
    <3>4. \A hash, force, s : Sound(hash, force, s)' <=> Sound(hash, force, s)
      BY <3>1, <3>2, <3>3 DEF Sound
    <3> QED
      BY <3>1, <3>2, <3>4 DEF NothingStranded
  <2> QED
    BY <2>1, <2>2, StrandEnvironment, StrandLoop DEF Next
<1>3. NothingStranded => NoStrandedClip
  BY DEF NothingStranded, Sound, Known, NoStrandedClip, Decided
<1> QED
  BY <1>1, <1>2, <1>3, StagedAlways, PTL DEF Spec

-----------------------------------------------------------------------------
(* A clip copied during a pause.                                            *)

\* A clip copied during a pause that no baseline read saw going on.
Uncovered(c) == clips[c].pause \notin swallowed \cup {None}

Pausing == noted \/ ~pubEnabled

\* A content check drops clip c, which the last baseline read and hashed.
Baselined(c) == dedup.last_content_hash = Hash(c) \/ Hash(c) \in Unreadable

\* The clip on the clipboard is baselined, and the tick in progress sees it so.
CurBaselined ==
  /\ landed /\ dedup.last_sequence = CurSeq /\ Baselined(Cur)
  /\ pc \notin {"persist", "insert"}
  /\ pc \in {"focus", "read", "admit"} => tick.force
  /\ pc = "focus" => tick.seq = CurSeq
  /\ pc \in {"resumeAnchor", "launchAnchor", "admit"} => tick.sample = Cur /\ tick.body

Reseeds ==
  /\ dedup.reseed_on_resume
  /\ pc = "resumeAnchor" => tick.sample = Cur /\ tick.body /\ landed

PauseIsHeld ==
  /\ seenEpoch <= epoch
  /\ \A c \in 1..Cur : clips[c].pause # None => clips[c].pause \in 1..epoch
  /\ epoch = 0 => ~Pausing
  /\ dedup.reseed_on_resume => pc \in {"idle", "apply", "hold", "resumeSeed", "resumeAnchor"}
  /\ ~enabled => dedup.reseed_on_resume /\ pc \in {"idle", "apply", "hold"}
  /\ pc \in {"resumeSeed", "resumeAnchor"} => dedup.reseed_on_resume
  /\ Pausing /\ seenEpoch = epoch =>
       \/ epoch \in swallowed
       \/ dedup.reseed_on_resume /\ pc # "resumeAnchor"
  /\ Uncovered(Cur) => seenEpoch # epoch \/ Reseeds \/ CurBaselined
  /\ pc = "admit" /\ Uncovered(tick.sample) =>
       seenEpoch # epoch \/ (tick.force /\ tick.body /\ Baselined(tick.sample))
  /\ pc = "persist" /\ Uncovered(tick.sample) => seenEpoch # epoch
  /\ pc = "insert" => ~Uncovered(tick.sample)

LEMMA PauseEnvironment ==
  ASSUME TypeOK, Staged, PauseIsHeld, Environment
  PROVE  PauseIsHeld'
<1>1. UNCHANGED <<pc, tick, dedup, swallowed, enabled, seenEpoch>>
  BY EnvironmentFrame DEF loopVars, ghostVars
<1>2. /\ Cur \in Nat /\ Cur \in 1..Cur /\ Cur' \in Nat /\ Cur <= Cur'
      /\ \A i \in 1..Cur : clips'[i] = clips[i]
      /\ epoch \in Nat /\ seenEpoch \in Nat /\ seenEpoch <= epoch
  BY EnvironmentGrows, ClipFacts DEF TypeOK, PauseIsHeld
<1>3. \A i \in 1..Cur : /\ Uncovered(i)' <=> Uncovered(i)
                        /\ Baselined(i)' <=> Baselined(i)
  BY <1>1, <1>2 DEF Uncovered, Baselined, Hash
<1>4. pc \in {"admit", "persist", "insert"} => tick.sample \in 1..Cur
  BY DEF Staged, Locals, Sampled
<1>5. CASE Cur' = Cur + 1 /\ UNCHANGED pubVars
           /\ clips'[Cur'].pause = IF pubEnabled THEN None ELSE epoch
  <2>1. UNCHANGED <<epoch, noted, pubEnabled>> /\ (Pausing' <=> Pausing)
    BY <1>5 DEF pubVars, Pausing
  <2>2. clips'[Cur'].pause # None => Pausing /\ clips'[Cur'].pause = epoch /\ epoch \in 1..epoch
    BY <1>2, <1>5 DEF Pausing, PauseIsHeld
  <2>3. \A c \in 1..Cur' : clips'[c].pause # None => clips'[c].pause \in 1..epoch
    BY <1>2, <1>5, <2>2 DEF PauseIsHeld
  <2>4. Uncovered(Cur)' => seenEpoch # epoch \/ (dedup.reseed_on_resume /\ pc # "resumeAnchor")
    BY <1>1, <2>2 DEF Uncovered, PauseIsHeld
  <2> QED
    BY <1>1, <1>2, <1>3, <1>4, <2>1, <2>3, <2>4 DEF PauseIsHeld, Reseeds
<1>6. CASE UNCHANGED clips /\ Cur' = Cur
  <2>1. CurSeq' = CurSeq
    BY <1>6 DEF CurSeq
  <2>2. CASE NotePause
    <3>1. epoch' = epoch + 1
      BY <2>2 DEF NotePause
    <3>2. \A c \in 1..Cur : clips[c].pause # None => clips[c].pause \in 1..epoch'
      BY <1>2, <3>1 DEF PauseIsHeld
    <3>3. seenEpoch <= epoch' /\ seenEpoch # epoch' /\ epoch' # 0
      BY <1>2, <3>1
    <3> QED
      BY <1>1, <1>2, <1>3, <1>4, <1>6, <3>2, <3>3 DEF PauseIsHeld
  <2>3. CASE epoch' = epoch /\ (Pausing' => Pausing) /\ (landed => landed')
    <3>1. CurBaselined => CurBaselined'
      BY <1>1, <1>2, <1>3, <1>6, <2>1, <2>3 DEF CurBaselined
    <3>2. Reseeds => Reseeds'
      BY <1>1, <1>6, <2>3 DEF Reseeds
    <3> QED
      BY <1>1, <1>2, <1>3, <1>4, <1>6, <2>3, <3>1, <3>2 DEF PauseIsHeld
  <2>4. NotePause \/ (epoch' = epoch /\ (Pausing' => Pausing) /\ (landed => landed'))
    <3>1. CASE Land \/ RecordSelfWrite \/ Sleep
      BY <3>1 DEF Land, RecordSelfWrite, Sleep, pubVars, Pausing
    <3>2. CASE SendPause \/ SendResume
      BY <3>2 DEF SendPause, SendResume, envVars, Pausing
    <3>3. CASE (\E c \in Contents : BeginCopy(c)) \/ SelfWrite
      <4>1. UNCHANGED pubVars
        BY <3>3 DEF BeginCopy, SelfWrite
      <4>2. \E x : clips' = Append(clips, x)
        BY <3>3 DEF BeginCopy, SelfWrite
      <4>3. Len(clips') = Len(clips) + 1
        BY <4>2 DEF TypeOK
      <4> QED
        BY <1>2, <1>6, <4>3 DEF Cur
    <3> QED
      BY <3>1, <3>2, <3>3 DEF Environment
  <2> QED
    BY <2>2, <2>3, <2>4
<1> QED
  BY <1>5, <1>6, EnvironmentFrame

\* The end of a tick.
LEMMA PauseTickEnds ==
  ASSUME TypeOK, Staged, PauseIsHeld, LoopStep, EndTick,
         UNCHANGED enabled, seenEpoch' \in {seenEpoch, epoch},
         ~enabled => dedup'.reseed_on_resume,
         Pausing /\ seenEpoch' = epoch => epoch \in swallowed' \/ dedup'.reseed_on_resume,
         Uncovered(Cur)' => \/ seenEpoch' # epoch \/ dedup'.reseed_on_resume
                            \/ landed /\ dedup'.last_sequence = CurSeq /\ Baselined(Cur)'
  PROVE  PauseIsHeld'
<1>1. /\ UNCHANGED <<clips, landed, pubEnabled, epoch, noted>>
      /\ Cur' = Cur /\ CurSeq' = CurSeq /\ epoch \in Nat
  BY LoopFrame DEF TypeOK
<1>2. pc' \in {"idle", "apply"}
  BY DEF EndTick
<1>3. Pausing' <=> Pausing
  BY <1>1 DEF Pausing
<1> QED
  BY <1>1, <1>2, <1>3 DEF PauseIsHeld, Reseeds, CurBaselined

LEMMA PauseLoop ==
  ASSUME TypeOK, Staged, PauseIsHeld, LoopStep
  PROVE  PauseIsHeld'
<1>1. /\ UNCHANGED <<clips, landed, pubEnabled, epoch, noted>>
      /\ Cur' = Cur /\ CurSeq' = CurSeq /\ \A c : Hash(c)' = Hash(c)
      /\ epoch \in Nat /\ seenEpoch \in Nat /\ seenEpoch <= epoch
  BY LoopFrame DEF TypeOK, PauseIsHeld
<1>2. dedup \in Dedups /\ tick \in Ticks /\ (Pausing' <=> Pausing)
  BY <1>1 DEF TypeOK, Pausing
<1>3. ASSUME swallowed' = swallowed
      PROVE  \A c : Uncovered(c)' <=> Uncovered(c)
  BY <1>1, <1>3 DEF Uncovered
<1>4. ASSUME dedup'.last_content_hash = dedup.last_content_hash
      PROVE  \A c : Baselined(c)' <=> Baselined(c)
  BY <1>1, <1>4 DEF Baselined
<1>5. CASE UpdateSettings \/ BeginTick
  <2>1. /\ dedup'.last_sequence = dedup.last_sequence
        /\ dedup'.last_content_hash = dedup.last_content_hash
        /\ dedup'.reseed_on_resume = (dedup.reseed_on_resume \/ (UpdateSettings /\ ~pubEnabled))
        /\ pc \in {"idle", "apply"} /\ pc' \in {"idle", "hold"}
        /\ UNCHANGED <<swallowed, seenEpoch>>
        /\ enabled' = (IF UpdateSettings THEN pubEnabled ELSE enabled)
    BY <1>2, <1>5 DEF UpdateSettings, BeginTick, ArmWakeGap, Dedups, ghostVars
  <2>2. CurBaselined => CurBaselined'
    BY <1>1, <1>4, <2>1 DEF CurBaselined
  <2>3. ~enabled' => dedup'.reseed_on_resume
    BY <2>1 DEF PauseIsHeld
  <2> QED
    BY <1>1, <1>2, <1>3, <2>1, <2>2, <2>3 DEF PauseIsHeld, Reseeds
<1>6. CASE HoldForPause
  <2>1. /\ dedup'.last_sequence = dedup.last_sequence
        /\ dedup'.last_content_hash = dedup.last_content_hash
        /\ dedup'.reseed_on_resume = (dedup.reseed_on_resume \/ Paused \/ ~enabled)
        /\ pc = "hold" /\ UNCHANGED <<swallowed, enabled>> /\ seenEpoch' = epoch
    BY <1>2, <1>6 DEF HoldForPause, Dedups, ghostVars
  <2>2. CASE dedup'.reseed_on_resume
    <3>1. pc' \in {"idle", "apply", "resumeSeed"} /\ (~enabled => pc' \in {"idle", "apply"})
      BY <1>6, <2>2 DEF HoldForPause, EndTick
    <3> QED
      BY <1>1, <1>2, <1>3, <2>1, <2>2, <3>1 DEF PauseIsHeld, Reseeds
  <2>3. CASE ~dedup'.reseed_on_resume
    <3>1. pc' = "probe" /\ enabled /\ seenEpoch' = seenEpoch /\ ~dedup.reseed_on_resume
      BY <1>6, <2>1, <2>3 DEF HoldForPause, Paused
    <3>2. CurBaselined => CurBaselined'
      BY <1>1, <1>4, <2>1, <3>1 DEF CurBaselined
    <3> QED
      BY <1>1, <1>2, <1>3, <2>1, <2>3, <3>1, <3>2 DEF PauseIsHeld, Reseeds
  <2> QED
    BY <2>2, <2>3
<1>7. CASE SeedSample
  <2>1. /\ UNCHANGED <<dedup, enabled, seenEpoch>>
        /\ tick'.sample = Cur /\ tick'.body = landed
        /\ \/ pc = "resumeSeed" /\ pc' = "resumeAnchor"
           \/ pc = "launchSeed" /\ pc' = "launchAnchor"
        /\ swallowed \subseteq swallowed'
        /\ Pausing /\ seenEpoch = epoch => epoch \in swallowed'
        /\ ~landed => clips[Cur].pause \in swallowed' \cup {None}
    BY <1>2, <1>7 DEF SeedSample, Ticks, Pausing
  <2>2. Uncovered(Cur)' => landed /\ Uncovered(Cur)
    BY <1>1, <2>1 DEF Uncovered
  <2>3. CurBaselined => CurBaselined'
    BY <1>1, <1>4, <2>1 DEF CurBaselined
  <2> QED
    BY <1>1, <1>2, <2>1, <2>2, <2>3 DEF PauseIsHeld, Reseeds
<1>8. CASE SeedAnchor
  <2>1. /\ UNCHANGED <<enabled, seenEpoch, swallowed>> /\ EndTick
        /\ \/ pc = "resumeAnchor"
           \/ pc = "launchAnchor" /\ dedup'.reseed_on_resume = dedup.reseed_on_resume
        /\ dedup'.last_sequence = clips[tick.sample].seq
        /\ dedup'.last_content_hash =
             IF tick.body /\ Hash(tick.sample) \notin Unreadable
             THEN Hash(tick.sample) ELSE None
    BY <1>2, <1>8 DEF SeedAnchor, Seeded, AnchorDecided, Dedups
  <2>2. enabled
    BY <2>1 DEF PauseIsHeld
  <2>3. Pausing /\ seenEpoch = epoch => epoch \in swallowed
    BY <2>1 DEF PauseIsHeld
  <2>4. Uncovered(Cur) => seenEpoch # epoch \/ (tick.sample = Cur /\ tick.body /\ landed)
    BY <2>1 DEF PauseIsHeld, Reseeds, CurBaselined
  <2> QED
    BY <1>1, <1>2, <1>3, <2>1, <2>2, <2>3, <2>4, PauseTickEnds DEF Baselined, CurSeq
<1>9. CASE ReadFails
  <2>1. /\ UNCHANGED <<dedup, enabled, seenEpoch, swallowed>> /\ EndTick
        /\ pc \in {"resumeSeed", "launchSeed", "probe", "read"}
    BY <1>9 DEF ReadFails, ghostVars
  <2> QED
    BY <1>1, <1>3, <1>4, <2>1, PauseTickEnds DEF PauseIsHeld, Reseeds, CurBaselined
<1>10. CASE ProbeSequence
  <2>1. /\ UNCHANGED <<enabled, seenEpoch, swallowed>> /\ pc = "probe" /\ enabled
        /\ ~dedup.reseed_on_resume
        /\ Pausing /\ seenEpoch = epoch => epoch \in swallowed
        /\ Uncovered(Cur) => seenEpoch # epoch \/ CurBaselined
    BY <1>10 DEF ProbeSequence, PauseIsHeld, Reseeds
  <2>2. CASE ~ProbeUndecided
    <3>1. EndTick /\ dedup'.last_content_hash = dedup.last_content_hash
      BY <1>2, <1>10, <2>2 DEF ProbeSequence, ProbeUnchanged, ProbeSelfWrite, ProbeSecureResync,
                               AnchorDecided, Dedups
    <3>2. dedup.last_sequence = CurSeq => dedup'.last_sequence = CurSeq
      BY <1>2, <1>10, <2>2 DEF ProbeSequence, ProbeUnchanged, ProbeSelfWrite, ProbeSecureResync,
                               AnchorDecided, Dedups
    <3> QED
      BY <1>1, <1>3, <1>4, <2>1, <3>1, <3>2, PauseTickEnds DEF CurBaselined
  <2>3. CASE ProbeUndecided
    <3>1. CurBaselined => dedup.force_content_check
      BY <2>3 DEF ProbeUndecided, DecidedBySequence, CurBaselined
    <3>2. CASE pc' = "launchSeed" /\ UNCHANGED <<tick, dedup>>
      <4>1. CurBaselined => CurBaselined'
        BY <1>1, <1>4, <3>2 DEF CurBaselined
      <4> QED
        BY <1>1, <1>2, <1>3, <2>1, <3>2, <4>1 DEF PauseIsHeld
    <3>3. CASE /\ pc' = "focus" /\ UNCHANGED dedup
               /\ tick' = [tick EXCEPT !.seq = CurSeq, !.probed = Cur,
                                       !.force = dedup.force_content_check]
      <4>1. tick'.seq = CurSeq /\ tick'.force = dedup.force_content_check
        BY <1>2, <3>3 DEF Ticks
      <4>2. CurBaselined => CurBaselined'
        BY <1>1, <1>4, <3>1, <3>3, <4>1 DEF CurBaselined
      <4> QED
        BY <1>1, <1>2, <1>3, <2>1, <3>3, <4>2 DEF PauseIsHeld
    <3> QED
      BY <2>3, <3>2, <3>3 DEF ProbeUndecided
  <2> QED
    BY <2>2, <2>3
<1>11. CASE ResolveFocus
  <2>1. /\ UNCHANGED <<enabled, seenEpoch, swallowed>> /\ pc = "focus" /\ enabled
        /\ ~dedup.reseed_on_resume
        /\ Pausing /\ seenEpoch = epoch => epoch \in swallowed
        /\ Uncovered(Cur) => seenEpoch # epoch \/ CurBaselined
    BY <1>11 DEF ResolveFocus, PauseIsHeld, Reseeds
  <2>2. CASE SkipSecure \/ SkipBlind
    <3>1. /\ EndTick /\ dedup'.last_content_hash = dedup.last_content_hash
          /\ dedup'.last_sequence \in {dedup.last_sequence, tick.seq}
      BY <1>2, <2>2 DEF SkipSecure, SkipBlind, Dedups
    <3> QED
      BY <1>1, <1>3, <1>4, <2>1, <3>1, PauseTickEnds DEF CurBaselined
  <2>3. CASE pc' = "read" /\ UNCHANGED <<dedup, tick>>
    <3>1. CurBaselined => CurBaselined'
      BY <1>1, <1>4, <2>1, <2>3 DEF CurBaselined
    <3> QED
      BY <1>1, <1>2, <1>3, <2>1, <2>3, <3>1 DEF PauseIsHeld
  <2> QED
    BY <1>11, <2>2, <2>3 DEF ResolveFocus
<1>12. CASE ReadSnapshot
  <2>1. /\ UNCHANGED <<dedup, enabled, seenEpoch, swallowed>> /\ pc = "read" /\ pc' = "admit"
        /\ tick'.sample = Cur /\ tick'.body = landed /\ tick'.force = tick.force
    BY <1>2, <1>12 DEF ReadSnapshot, Ticks, ghostVars
  <2>2. /\ enabled /\ ~dedup.reseed_on_resume
        /\ Pausing /\ seenEpoch = epoch => epoch \in swallowed
        /\ Uncovered(Cur) => seenEpoch # epoch \/ CurBaselined
    BY <2>1 DEF PauseIsHeld, Reseeds
  <2>3. CurBaselined => CurBaselined' /\ tick'.force /\ tick'.body /\ Baselined(Cur)
    BY <1>1, <1>4, <2>1 DEF CurBaselined
  <2>4. Uncovered(tick.sample)' =>
          seenEpoch # epoch \/ (tick'.force /\ tick'.body /\ Baselined(Cur))
    BY <1>1, <1>3, <2>1, <2>2, <2>3
  <2>5. Baselined(Cur) => Baselined(tick.sample)'
    BY <1>1, <1>4, <2>1
  <2> QED
    BY <1>1, <1>2, <1>3, <2>1, <2>2, <2>3, <2>4, <2>5 DEF PauseIsHeld
<1>13. CASE AdmitClip
  <2>1. /\ UNCHANGED <<enabled, seenEpoch, swallowed>> /\ pc = "admit" /\ enabled
        /\ ~dedup.reseed_on_resume
        /\ Pausing /\ seenEpoch = epoch => epoch \in swallowed
        /\ Uncovered(Cur) => seenEpoch # epoch \/ CurBaselined
        /\ Uncovered(tick.sample) =>
             seenEpoch # epoch \/ (tick.force /\ tick.body /\ Baselined(tick.sample))
    BY <1>13 DEF AdmitClip, PauseIsHeld, Reseeds
  <2>2. SampleSeq = clips[tick.sample].seq /\ SampleHash = Hash(tick.sample)
    BY DEF SampleSeq, SampleHash
  <2>3. CASE DropUnreadable \/ RetryEmpty \/ DropDuplicate
    <3>1. /\ EndTick /\ dedup'.last_content_hash = dedup.last_content_hash
          /\ dedup'.last_sequence = SampleSeq
      BY <1>2, <2>3 DEF DropUnreadable, RetryEmpty, DropDuplicate, Decide, AnchorDecided,
                        BeginClip, Dedups
    <3>2. CurBaselined => landed /\ SampleSeq = CurSeq /\ Baselined(Cur)
      BY <2>1, <2>2 DEF CurBaselined, CurSeq
    <3> QED
      BY <1>1, <1>3, <1>4, <2>1, <3>1, <3>2, PauseTickEnds
  <2>4. CASE /\ tick.body /\ SampleHash \notin Unreadable /\ ~IsDuplicate
             /\ DropDenied \/ AdmissionFails \/ AdmissionReady
    <3>1. ~(tick.force /\ tick.body /\ Baselined(tick.sample))
      BY <2>2, <2>4 DEF IsDuplicate, Baselined
    <3>2. /\ Uncovered(tick.sample) => seenEpoch # epoch
          /\ Uncovered(Cur) => seenEpoch # epoch
      BY <2>1, <3>1 DEF CurBaselined
    <3>3. CASE DropDenied \/ AdmissionFails
      <4>1. EndTick
        BY <3>3 DEF DropDenied, AdmissionFails
      <4> QED
        BY <1>1, <1>3, <2>1, <3>2, <4>1, PauseTickEnds
    <3>4. CASE AdmissionReady
      <4>1. /\ pc' = "persist" /\ tick'.sample = tick.sample
            /\ dedup'.reseed_on_resume = dedup.reseed_on_resume
        BY <1>2, <3>4 DEF AdmissionReady, Accepted, BeginClip, Ticks, Dedups
      <4> QED
        BY <1>1, <1>2, <1>3, <2>1, <3>2, <4>1 DEF PauseIsHeld
    <3> QED
      BY <2>4, <3>3, <3>4
  <2> QED
    BY <1>13, <2>3, <2>4 DEF AdmitClip
<1>14. CASE CheckPause
  <2>1. /\ UNCHANGED <<enabled, swallowed>> /\ pc = "persist" /\ enabled /\ seenEpoch' = epoch
        /\ ~dedup.reseed_on_resume
        /\ Pausing /\ seenEpoch = epoch => epoch \in swallowed
        /\ Uncovered(Cur) => seenEpoch # epoch
        /\ Uncovered(tick.sample) => seenEpoch # epoch
    BY <1>14 DEF CheckPause, PauseIsHeld, Reseeds, CurBaselined
  <2>2. CASE Paused
    <3>1. dedup'.reseed_on_resume /\ EndTick
      BY <1>2, <1>14, <2>2 DEF CheckPause, Dedups
    <3> QED
      BY <1>1, <2>1, <3>1, PauseTickEnds
  <2>3. CASE ~Paused
    <3>1. /\ pc' = "insert" /\ UNCHANGED <<dedup, tick>> /\ seenEpoch = epoch
      BY <1>14, <2>3 DEF CheckPause, Paused
    <3> QED
      BY <1>1, <1>2, <1>3, <2>1, <3>1 DEF PauseIsHeld
  <2> QED
    BY <2>2, <2>3
<1>15. CASE InsertEntry \/ InsertFails
  <2>1. /\ UNCHANGED <<enabled, seenEpoch, swallowed>> /\ pc = "insert" /\ enabled /\ EndTick
        /\ ~dedup.reseed_on_resume
        /\ Pausing /\ seenEpoch = epoch => epoch \in swallowed
        /\ Uncovered(Cur) => seenEpoch # epoch
    BY <1>15 DEF InsertEntry, InsertFails, PauseIsHeld, Reseeds, CurBaselined, ghostVars
  <2> QED
    BY <1>1, <1>3, <2>1, PauseTickEnds
<1> QED
  BY <1>5, <1>6, <1>7, <1>8, <1>9, <1>10, <1>11, <1>12, <1>13, <1>14, <1>15 DEF LoopStep

\* A clip copied during a pause is recorded only if a baseline read ran while that pause
\* was on and the loop had used up its mark, or met the clip unwritten.
THEOREM PausedClipHeld == Spec => PausedClipStaysOut
<1>1. Init => PauseIsHeld
  <2> SUFFICES ASSUME Init
               PROVE  PauseIsHeld
    OBVIOUS
  <2>1. Cur = 1 /\ clips[1].pause = IF pubEnabled THEN None ELSE epoch
    <3>1. PICK c \in Contents : clips = <<Clip(c, 1, FALSE)>>
      BY DEF Init
    <3> DEFINE x == Clip(c, 1, FALSE)
    <3>2. clips = <<x>> /\ x.pause = IF pubEnabled THEN None ELSE epoch
      BY <3>1 DEF Clip
    <3> HIDE DEF x
    <3> QED
      BY <3>2 DEF Cur
  <2>2. CASE pubEnabled
    <3>1. /\ epoch = 0 /\ seenEpoch = 0 /\ enabled /\ ~noted /\ pc = "idle"
          /\ swallowed = {} /\ clips[1].pause = None
      BY <2>1, <2>2 DEF Init
    <3>2. ~Pausing /\ ~Uncovered(Cur)
      BY <2>1, <2>2, <3>1 DEF Pausing, Uncovered
    <3>3. \A c \in 1..Cur : clips[c].pause = None
      BY <2>1, <3>1
    <3> QED
      BY <3>1, <3>2, <3>3 DEF PauseIsHeld
  <2>3. CASE ~pubEnabled
    <3>1. epoch = 1 /\ 1 \in 1..1 /\ seenEpoch = 0 /\ pc = "idle"
      BY <2>3 DEF Init
    <3>2. dedup.reseed_on_resume = ~pubEnabled
      BY DEF Init, NewDedup
    <3>3. dedup.reseed_on_resume
      BY <2>3, <3>2, Zenon
    <3> QED
      BY <2>1, <2>3, <3>1, <3>3 DEF PauseIsHeld
  <2> QED
    BY <2>2, <2>3
<1>2. TypeOK /\ Staged /\ PauseIsHeld /\ [Next]_vars => PauseIsHeld'
  <2> SUFFICES ASSUME TypeOK, Staged, PauseIsHeld, [Next]_vars
               PROVE  PauseIsHeld'
    OBVIOUS
  <2>1. CASE Restart
    <3>1. /\ pc' = "apply" /\ seenEpoch' = 0 /\ enabled' = pubEnabled
          /\ (~pubEnabled => dedup'.reseed_on_resume)
          /\ UNCHANGED <<clips, pubEnabled, epoch, noted, swallowed>>
      BY <2>1 DEF Restart, NewDedup, ghostVars
    <3>2. /\ Cur' = Cur /\ Cur \in 1..Cur /\ epoch \in Nat /\ (Pausing' <=> Pausing)
          /\ Uncovered(Cur)' <=> Uncovered(Cur)
      BY <3>1, ClipFacts DEF Cur, TypeOK, Pausing, Uncovered
    <3>3. Uncovered(Cur) => epoch # 0
      BY <3>2 DEF Uncovered, PauseIsHeld
    <3> QED
      BY <3>1, <3>2, <3>3 DEF PauseIsHeld, Reseeds, CurBaselined
  <2>2. CASE UNCHANGED vars
    <3>1. UNCHANGED <<pc, tick, dedup, enabled, seenEpoch, swallowed, clips, landed, pubEnabled,
                      epoch, noted>>
      BY <2>2 DEF vars, envVars, pubVars, loopVars, ghostVars
    <3>2. /\ Cur' = Cur /\ CurSeq' = CurSeq /\ (Pausing' <=> Pausing)
          /\ \A c : (Uncovered(c)' <=> Uncovered(c)) /\ (Baselined(c)' <=> Baselined(c))
      BY <3>1 DEF Cur, CurSeq, Pausing, Uncovered, Baselined, Hash
    <3> QED
      BY <3>1, <3>2 DEF PauseIsHeld, Reseeds, CurBaselined
  <2> QED
    BY <2>1, <2>2, PauseEnvironment, PauseLoop DEF Next
<1>3. PauseIsHeld /\ [Next]_vars
        => [\A c \in InHistory' \ InHistory : clips[c].pause \in swallowed \cup {None}]_vars
  <2> SUFFICES ASSUME PauseIsHeld, [Next]_vars, NEW c \in InHistory' \ InHistory
               PROVE  clips[c].pause \in swallowed \cup {None}
    OBVIOUS
  <2>1. CASE InsertEntry
    <3>1. pc = "insert" /\ stored' = stored \cup {[clip |-> tick.sample, source |-> tick.source]}
      BY <2>1 DEF InsertEntry
    <3>2. c = tick.sample
      BY <3>1 DEF InHistory
    <3> QED
      BY <3>1, <3>2 DEF PauseIsHeld, Uncovered
  <2>2. CASE ~InsertEntry
    BY <2>2, OnlyInsertRecords DEF InHistory
  <2> QED
    BY <2>1, <2>2
<1> QED
  BY <1>1, <1>2, <1>3, StagedAlways, PTL DEF Spec, PausedClipStaysOut

-----------------------------------------------------------------------------
(* The order of the history.                                                *)

\* Whatever a tick probed or sampled is no older than what is recorded, and neither is
\* the clip it samples than the source it will be given; a body was read only after it
\* was written.
Ordered ==
  /\ pc \in {"focus", "read"} => tick.probed \in 1..Cur /\ InHistory \subseteq 1..tick.probed
  /\ pc \in Sampled => /\ InHistory \subseteq 1..tick.sample
                       /\ tick.body /\ tick.sample = Cur => landed
  /\ pc \in {"admit", "persist", "insert"} /\ recovery # None => recovery.source <= tick.sample
  /\ pc \in {"persist", "insert"} => tick.body /\ tick.source <= tick.sample

LEMMA OrderedEnds ==
  ASSUME pc' \notin {"focus", "read"} \cup Sampled
  PROVE  Ordered'
  BY DEF Ordered, Sampled

LEMMA OrderedLoop ==
  ASSUME TypeOK, Staged, Ordered, LoopStep
  PROVE  Ordered'
<1>1. Cur' = Cur /\ Cur \in Nat /\ InHistory \subseteq 1..Cur /\ landed' = landed
      /\ tick \in Ticks /\ Cur \in 1..Cur
  BY LoopFrame, ClipFacts DEF Staged, History, Locals, InHistory
<1>2. UNCHANGED stored => InHistory' = InHistory
  BY DEF InHistory
<1>3. CASE UpdateSettings \/ BeginTick \/ HoldForPause \/ SeedAnchor \/ InsertEntry
           \/ InsertFails \/ ReadFails
  <2>1. pc' \notin {"focus", "read"} \cup Sampled
    BY <1>3 DEF UpdateSettings, BeginTick, HoldForPause, SeedAnchor, InsertEntry, InsertFails,
                ReadFails, EndTick, Sampled
  <2> QED
    BY <2>1, OrderedEnds
<1>4. CASE SeedSample \/ ReadSnapshot
  <2>1. /\ UNCHANGED <<recovery, stored>> /\ tick' = [tick EXCEPT !.sample = Cur, !.body = landed]
        /\ pc' \in {"resumeAnchor", "launchAnchor", "admit"}
    BY <1>4 DEF SeedSample, ReadSnapshot, ghostVars
  <2>2. tick'.sample = Cur /\ tick'.body = landed
    BY <1>1, <2>1 DEF Ticks
  <2>3. recovery # None => recovery.source <= Cur
    BY <1>1 DEF Staged, Memory
  <2> QED
    BY <1>1, <1>2, <2>1, <2>2, <2>3 DEF Ordered, Sampled
<1>5. CASE ProbeSequence
  <2>1. CASE pc' \notin {"focus", "read"} \cup Sampled
    BY <2>1, OrderedEnds
  <2>2. CASE /\ pc' = "focus" /\ UNCHANGED stored
             /\ tick' = [tick EXCEPT !.seq = CurSeq, !.probed = Cur,
                                     !.force = dedup.force_content_check]
    <3>1. tick'.probed = Cur
      BY <1>1, <2>2 DEF Ticks
    <3> QED
      BY <1>1, <1>2, <2>2, <3>1 DEF Ordered, Sampled
  <2> QED
    BY <1>5, <2>1, <2>2 DEF ProbeSequence, ProbeUnchanged, ProbeSelfWrite, ProbeSecureResync,
                            ProbeUndecided, EndTick, Sampled
<1>6. CASE ResolveFocus
  <2>1. CASE EndTick
    BY <2>1, OrderedEnds DEF EndTick, Sampled
  <2>2. CASE pc' = "read" /\ UNCHANGED tick
    BY <1>1, <1>2, <1>6, <2>2 DEF ResolveFocus, Ordered, Sampled
  <2> QED
    BY <1>6, <2>1, <2>2 DEF ResolveFocus, SkipSecure, SkipBlind
<1>7. CASE AdmitClip
  <2>1. CASE EndTick
    BY <2>1, OrderedEnds DEF EndTick, Sampled
  <2>2. CASE tick.body /\ AdmissionReady
    <3>1. /\ pc = "admit" /\ pc' = "persist" /\ UNCHANGED <<recovery, stored>>
          /\ tick' = [tick EXCEPT !.saved = SavedBy(dedup, tick.force), !.source = Source]
      BY <1>7, <2>2 DEF AdmitClip, AdmissionReady
    <3>2. tick'.sample = tick.sample /\ tick'.body = tick.body /\ tick'.source = Source
      BY <1>1, <3>1 DEF Ticks
    <3>3. tick.sample \in 1..Cur /\ Source <= tick.sample
      BY <1>1, <3>1 DEF Source, Ordered, Staged, Locals, Sampled
    <3> QED
      BY <1>1, <1>2, <2>2, <3>1, <3>2, <3>3 DEF Ordered, Sampled
  <2> QED
    BY <1>7, <2>1, <2>2 DEF AdmitClip, DropUnreadable, RetryEmpty, DropDuplicate, DropDenied,
                            AdmissionFails
<1>8. CASE CheckPause
  <2>1. CASE EndTick
    BY <2>1, OrderedEnds DEF EndTick, Sampled
  <2>2. CASE pc' = "insert" /\ UNCHANGED tick
    BY <1>1, <1>2, <1>8, <2>2 DEF CheckPause, Ordered, Sampled
  <2> QED
    BY <1>8, <2>1, <2>2 DEF CheckPause
<1> QED
  BY <1>3, <1>4, <1>5, <1>6, <1>7, <1>8 DEF LoopStep

LEMMA OrderedAlways == Spec => []Ordered
<1>1. Init => Ordered
  BY DEF Init, Ordered, Sampled
<1>2. TypeOK /\ Staged /\ Ordered /\ [Next]_vars => Ordered'
  <2> SUFFICES ASSUME TypeOK, Staged, Ordered, [Next]_vars PROVE Ordered'
    OBVIOUS
  <2>1. CASE Environment
    <3>1. UNCHANGED <<pc, tick, recovery, stored>>
      BY <2>1, EnvironmentFrame DEF loopVars, ghostVars
    <3>2. /\ Cur \in Nat /\ Cur' \in Nat /\ Cur <= Cur' /\ InHistory' = InHistory
          /\ pc \in Sampled => tick.sample \in 1..Cur
      BY <2>1, <3>1, ClipFacts, EnvironmentGrows DEF InHistory, Staged, Locals
    <3>3. Cur' # Cur \/ (landed => landed')
      BY <2>1, EnvironmentFrame
    <3>4. pc \in Sampled /\ tick.sample = Cur' => Cur' = Cur
      BY <3>2
    <3> QED
      BY <3>1, <3>2, <3>3, <3>4 DEF Ordered
  <2>2. CASE Restart
    <3>1. pc' = "apply"
      BY <2>2 DEF Restart
    <3> QED
      BY <3>1, OrderedEnds DEF Sampled
  <2>3. CASE UNCHANGED vars
    <3>1. UNCHANGED <<pc, tick, recovery, stored, clips, landed>>
      BY <2>3 DEF vars, envVars, loopVars, ghostVars
    <3> QED
      BY <3>1 DEF Ordered, InHistory, Cur
  <2> QED
    BY <2>1, <2>2, <2>3, OrderedLoop DEF Next
<1> QED
  BY <1>1, <1>2, StagedAlways, PTL DEF Spec

\* The history is written in the order of the clipboard: no clip is recorded after a clip
\* that was copied later, and a source that outlived an Accessibility outage is that of a
\* clip copied before the one it is given to.
HistoryFollowsClipboard ==
  [][\A s \in stored' \ stored : s.source <= s.clip /\ \A t \in stored : t.clip <= s.clip]_vars

\* However ticks fail, sleeps re-read, pauses seed and loops are rebuilt, the history is
\* written in the order of the clipboard.
THEOREM RecordsInOrder == Spec => HistoryFollowsClipboard
<1>1. TypeOK /\ Staged /\ Ordered /\ [Next]_vars
        => [\A s \in stored' \ stored :
              s.source <= s.clip /\ \A t \in stored : t.clip <= s.clip]_vars
  <2> SUFFICES ASSUME TypeOK, Staged, Ordered, [Next]_vars, NEW s \in stored' \ stored
               PROVE  s.source <= s.clip /\ \A t \in stored : t.clip <= s.clip
    OBVIOUS
  <2>1. CASE InsertEntry
    <3>1. s = [clip |-> tick.sample, source |-> tick.source] /\ pc = "insert"
      BY <2>1 DEF InsertEntry
    <3>2. tick.source <= tick.sample /\ InHistory \subseteq 1..tick.sample
      BY <3>1 DEF Ordered, Sampled
    <3>3. s.clip = tick.sample /\ s.source = tick.source
      BY <3>1
    <3>4. \A t \in stored : t.clip \in 1..tick.sample
      BY <3>2 DEF InHistory
    <3> HIDE <3>1
    <3> QED
      BY <3>2, <3>3, <3>4
  <2>2. CASE ~InsertEntry
    BY <2>2, OnlyInsertRecords
  <2> QED
    BY <2>1, <2>2
<1> QED
  BY <1>1, StagedAlways, OrderedAlways, PTL DEF Spec, HistoryFollowsClipboard

-----------------------------------------------------------------------------
(* A clip is recorded once.                                                 *)

\* A loop remembers the body of what it recorded, S being what other loops did: while
\* such a clip is on the clipboard its number is anchored or the tick compares bodies,
\* and no tick gets it past that comparison.
Remembered(S) ==
  /\ \A c \in InHistory : Hash(c) \notin Unreadable
  /\ pc \in {"persist", "insert"} =>
       /\ tick.sample \notin InHistory \ S /\ Hash(tick.sample) \notin Unreadable
       /\ dedup.last_content_hash = Hash(tick.sample)
       /\ dedup.last_sequence = clips[tick.sample].seq
  /\ pc = "admit" /\ tick.sample \in InHistory \ S =>
       tick.body /\ tick.force /\ dedup.last_content_hash = Hash(tick.sample)
  /\ Cur \in InHistory \ S =>
       /\ landed /\ dedup.last_content_hash = Hash(Cur)
       /\ dedup.force_content_check \/ dedup.last_sequence = CurSeq
       /\ pc \in {"focus", "read"} => tick.force
       /\ pc \in {"resumeAnchor", "launchAnchor"} => tick.body

\* A step that ends the tick and leaves what was recorded.
LEMMA RememberedEnds ==
  ASSUME NEW S, Remembered(S), LoopStep, UNCHANGED stored,
         pc' \notin {"focus", "read"} \cup Sampled,
         Cur \in InHistory \ S =>
           /\ dedup'.last_content_hash = Hash(Cur)
           /\ dedup'.force_content_check \/ dedup'.last_sequence = CurSeq
  PROVE  Remembered(S)'
<1>1. /\ InHistory' = InHistory /\ Cur' = Cur /\ CurSeq' = CurSeq /\ landed' = landed
      /\ \A c : Hash(c)' = Hash(c)
  BY LoopFrame DEF InHistory
<1>2. Hash(Cur)' = Hash(Cur)
  BY <1>1 DEF Hash
<1> QED
  BY <1>1, <1>2 DEF Remembered, Sampled

LEMMA RememberedLoop ==
  ASSUME NEW S, TypeOK, Staged, Probed, Ordered, Remembered(S), LoopStep
  PROVE  Remembered(S)'
<1>1. /\ Cur' = Cur /\ CurSeq' = CurSeq /\ UNCHANGED <<clips, landed>>
      /\ Cur \in Nat /\ InHistory \subseteq 1..Cur /\ Cur \in 1..Cur
  BY LoopFrame, ClipFacts DEF Staged, History, InHistory
<1>2. dedup \in Dedups /\ tick \in Ticks /\ Hash(Cur)' = Hash(Cur)
  BY <1>1 DEF TypeOK, Hash
<1>3. UNCHANGED stored => InHistory' = InHistory
  BY DEF InHistory
<1>4. \A c : Hash(c)' = Hash(c)
  BY <1>1 DEF Hash
<1>5. Cur \in InHistory => /\ pc \in {"focus", "read"} => tick.probed = Cur
                           /\ pc \in Sampled => tick.sample = Cur
  <2>1. pc \in Sampled => tick.sample \in 1..Cur
    BY DEF Staged, Locals
  <2> QED
    BY <1>1, <2>1 DEF Ordered
<1>6. CASE UpdateSettings \/ BeginTick \/ HoldForPause \/ ReadFails
  <2>1. /\ UNCHANGED stored /\ pc' \notin {"focus", "read"} \cup Sampled
        /\ dedup'.last_content_hash = dedup.last_content_hash
        /\ dedup'.last_sequence = dedup.last_sequence
        /\ dedup.force_content_check => dedup'.force_content_check
    BY <1>2, <1>6 DEF UpdateSettings, BeginTick, ArmWakeGap, HoldForPause, ReadFails, EndTick,
                      Sampled, Dedups, ghostVars
  <2> QED
    BY <2>1, RememberedEnds DEF Remembered
<1>7. CASE SeedSample \/ ReadSnapshot
  <2>1. /\ UNCHANGED <<dedup, stored>> /\ tick' = [tick EXCEPT !.sample = Cur, !.body = landed]
        /\ \/ pc' \in {"resumeAnchor", "launchAnchor"}
           \/ pc = "read" /\ pc' = "admit"
    BY <1>7 DEF SeedSample, ReadSnapshot, ghostVars
  <2>2. tick'.sample = Cur /\ tick'.body = landed /\ tick'.force = tick.force
    BY <1>2, <2>1 DEF Ticks
  <2> QED
    BY <1>1, <1>2, <1>3, <1>4, <2>1, <2>2 DEF Remembered
<1>8. CASE SeedAnchor
  <2> DEFINE d == Seeded(dedup, tick.sample, tick.body)
  <2>1. /\ d.last_sequence = clips[tick.sample].seq
        /\ d.force_content_check = dedup.force_content_check
        /\ d.last_content_hash = IF tick.body /\ Hash(tick.sample) \notin Unreadable
                                 THEN Hash(tick.sample) ELSE None
        /\ d \in Dedups
    <3> DEFINE a == AnchorDecided(dedup, clips[tick.sample].seq)
    <3>1. clips[tick.sample].seq \in Seqs /\ Hash(tick.sample) \in Contents
      BY <1>8, ClipFacts DEF SeedAnchor, Staged, Locals, Sampled
    <3>2. a \in Dedups
      BY <1>2, <3>1, DedupOperations
    <3>5. /\ a.last_sequence = clips[tick.sample].seq
          /\ a.force_content_check = dedup.force_content_check
      BY <1>2 DEF AnchorDecided, Dedups
    <3> HIDE DEF a
    <3>3. d = [a EXCEPT !.last_content_hash = IF tick.body /\ Hash(tick.sample) \notin Unreadable
                                              THEN Hash(tick.sample) ELSE None,
                        !.pristine = FALSE]
      BY DEF Seeded, a
    <3>4. (IF tick.body /\ Hash(tick.sample) \notin Unreadable THEN Hash(tick.sample) ELSE None)
            \in Opt(Contents)
      BY <3>1 DEF Opt
    <3> HIDE DEF d
    <3> QED
      BY <3>2, <3>3, <3>4, <3>5 DEF Dedups
  <2> HIDE DEF d
  <2>2. /\ dedup'.last_sequence = d.last_sequence
        /\ dedup'.last_content_hash = d.last_content_hash
    BY <1>8, <2>1 DEF SeedAnchor, d, Dedups
  <2>3. UNCHANGED stored /\ pc \in {"resumeAnchor", "launchAnchor"} /\ EndTick
    BY <1>8 DEF SeedAnchor
  <2>4. Cur \in InHistory \ S =>
          tick.sample = Cur /\ tick.body /\ Hash(Cur) \notin Unreadable
    BY <1>5, <2>3 DEF Remembered, Sampled
  <2> QED
    BY <2>1, <2>2, <2>3, <2>4, RememberedEnds DEF EndTick, Sampled, CurSeq
<1>9. CASE ProbeSequence
  <2>1. UNCHANGED stored /\ pc = "probe"
    BY <1>9 DEF ProbeSequence
  <2>2. CASE ProbeUnchanged \/ ProbeSecureResync
    <3>1. /\ dedup'.last_sequence = dedup.last_sequence /\ dedup.last_sequence = CurSeq
          /\ dedup'.last_content_hash = dedup.last_content_hash /\ EndTick
      BY <1>2, <2>2 DEF ProbeUnchanged, ProbeSecureResync, IsSecureSkipped, Dedups
    <3> QED
      BY <2>1, <3>1, RememberedEnds DEF Remembered, EndTick, Sampled
  <2>3. CASE ProbeSelfWrite
    <3>1. Cur \notin InHistory \ S /\ EndTick
      BY <2>3 DEF ProbeSelfWrite, Remembered
    <3> QED
      BY <2>1, <3>1, RememberedEnds DEF EndTick, Sampled
  <2>4. CASE ProbeUndecided /\ pc' = "launchSeed"
    <3>1. UNCHANGED dedup
      BY <2>4 DEF ProbeUndecided
    <3> QED
      BY <2>1, <2>4, <3>1, RememberedEnds DEF Remembered, Sampled
  <2>5. CASE ProbeUndecided /\ pc' = "focus"
    <3>1. /\ UNCHANGED dedup
          /\ tick' = [tick EXCEPT !.seq = CurSeq, !.probed = Cur,
                                  !.force = dedup.force_content_check]
      BY <2>5 DEF ProbeUndecided
    <3>2. tick'.force = dedup.force_content_check
      BY <1>2, <3>1 DEF Ticks
    <3>3. Cur \in InHistory \ S => dedup.force_content_check
      BY <2>5 DEF ProbeUndecided, DecidedBySequence, Remembered
    <3> QED
      BY <1>1, <1>2, <1>3, <1>4, <2>1, <2>5, <3>1, <3>2, <3>3 DEF Remembered
  <2> QED
    BY <1>9, <2>2, <2>3, <2>4, <2>5 DEF ProbeSequence, ProbeUndecided
<1>10. CASE ResolveFocus
  <2>1. UNCHANGED stored /\ pc = "focus"
    BY <1>10 DEF ResolveFocus
  <2>2. CASE SkipSecure
    <3>1. /\ dedup'.last_sequence = tick.seq /\ EndTick
          /\ dedup'.last_content_hash = dedup.last_content_hash
      BY <1>2, <2>2 DEF SkipSecure, Dedups
    <3>2. Cur \in InHistory \ S => tick.seq = CurSeq
      BY <1>5, <2>1 DEF Probed, CurSeq
    <3> QED
      BY <2>1, <3>1, <3>2, RememberedEnds DEF Remembered, EndTick, Sampled
  <2>3. CASE SkipBlind
    <3>1. /\ dedup'.force_content_check /\ EndTick
          /\ dedup'.last_content_hash = dedup.last_content_hash
      BY <1>2, <2>3 DEF SkipBlind, Dedups
    <3> QED
      BY <2>1, <3>1, RememberedEnds DEF Remembered, EndTick, Sampled
  <2>4. CASE pc' = "read" /\ UNCHANGED <<dedup, tick>>
    BY <1>1, <1>2, <1>3, <1>4, <2>1, <2>4 DEF Remembered
  <2> QED
    BY <1>10, <2>2, <2>3, <2>4 DEF ResolveFocus
<1>11. CASE AdmitClip
  <2>1. /\ UNCHANGED stored /\ pc = "admit" /\ tick.sample \in 1..Cur
        /\ SampleSeq \in Seqs /\ SampleHash \in Contents
    BY <1>11, ClipFacts DEF AdmitClip, Staged, Locals, Sampled, SampleSeq, SampleHash
  <2>2. Cur \in InHistory \ S => /\ tick.sample = Cur /\ tick.body /\ IsDuplicate
                                 /\ SampleHash \notin Unreadable
    BY <1>5, <2>1 DEF Remembered, Sampled, IsDuplicate, SampleHash
  <2>3. CASE DropDuplicate
    <3>1. /\ dedup'.last_sequence = SampleSeq /\ EndTick
          /\ dedup'.last_content_hash = dedup.last_content_hash
      BY <1>2, <2>1, <2>3 DEF DropDuplicate, BeginClip, Dedups
    <3> QED
      BY <2>1, <2>2, <3>1, RememberedEnds DEF Remembered, EndTick, Sampled, SampleSeq, CurSeq
  <2>4. CASE DropUnreadable \/ RetryEmpty
    <3>1. Cur \notin InHistory \ S /\ EndTick
      BY <2>2, <2>4 DEF DropUnreadable, RetryEmpty
    <3> QED
      BY <2>1, <3>1, RememberedEnds DEF EndTick, Sampled
  <2>5. CASE tick.body /\ SampleHash \notin Unreadable /\ ~IsDuplicate
             /\ (DropDenied \/ AdmissionFails)
    <3>1. Cur \notin InHistory \ S /\ EndTick
      BY <2>2, <2>5 DEF DropDenied, AdmissionFails
    <3> QED
      BY <2>1, <3>1, RememberedEnds DEF EndTick, Sampled
  <2>6. CASE tick.body /\ SampleHash \notin Unreadable /\ ~IsDuplicate /\ AdmissionReady
    <3>1. /\ dedup' = Accepted(dedup) /\ pc' = "persist"
          /\ tick' = [tick EXCEPT !.saved = SavedBy(dedup, tick.force), !.source = Source]
      BY <2>6 DEF AdmissionReady
    <3>2. tick'.sample = tick.sample
      BY <1>2, <3>1 DEF Ticks
    <3>3. BeginClip(dedup, SampleSeq) \in Dedups
      BY <1>2, <2>1, DedupOperations
    <3>7. BeginClip(dedup, SampleSeq).last_sequence = SampleSeq
      BY <1>2 DEF BeginClip, Dedups
    <3>4. dedup'.last_content_hash = SampleHash /\ dedup'.last_sequence = SampleSeq
      BY <2>1, <3>1, <3>3, <3>7 DEF Accepted, Dedups
    <3>5. tick.sample \notin InHistory \ S
      BY <2>1, <2>6 DEF Remembered, IsDuplicate, SampleHash
    <3>6. Cur \notin InHistory \ S
      BY <2>2, <2>6
    <3> QED
      BY <1>1, <1>3, <1>4, <2>1, <2>6, <3>1, <3>2, <3>4, <3>5, <3>6
         DEF Remembered, SampleHash, SampleSeq
  <2> QED
    BY <1>11, <2>3, <2>4, <2>5, <2>6 DEF AdmitClip
<1>12. CASE CheckPause
  <2>1. UNCHANGED stored /\ pc = "persist" /\ Cur \notin InHistory \ S
    BY <1>5, <1>12 DEF CheckPause, Remembered, Sampled
  <2>2. CASE EndTick
    BY <2>1, <2>2, RememberedEnds DEF EndTick, Sampled
  <2>3. CASE pc' = "insert" /\ UNCHANGED <<dedup, tick>>
    BY <1>1, <1>3, <1>4, <2>1, <2>3 DEF Remembered
  <2> QED
    BY <1>12, <2>2, <2>3 DEF CheckPause
<1>13. CASE InsertEntry
  <2>1. /\ pc = "insert" /\ UNCHANGED dedup /\ EndTick
        /\ stored' = stored \cup {[clip |-> tick.sample, source |-> tick.source]}
    BY <1>13 DEF InsertEntry
  <2>2. InHistory' = InHistory \cup {tick.sample}
    <3> DEFINE x == [clip |-> tick.sample, source |-> tick.source]
    <3>1. x.clip = tick.sample /\ stored' = stored \cup {x}
      BY <2>1
    <3> HIDE DEF x
    <3>2. {s.clip : s \in stored \cup {x}} = {s.clip : s \in stored} \cup {x.clip}
      OBVIOUS
    <3> QED
      BY <3>1, <3>2 DEF InHistory
  <2>3. Cur \notin InHistory \ S /\ tick.body
    BY <1>5, <2>1 DEF Remembered, Sampled, Ordered
  <2>4. tick.sample = Cur => landed
    BY <2>1, <2>3 DEF Ordered, Sampled
  <2> QED
    BY <1>1, <1>2, <1>4, <2>1, <2>2, <2>3, <2>4 DEF Remembered, EndTick, CurSeq
<1>14. CASE InsertFails
  <2>1. UNCHANGED stored /\ pc = "insert" /\ Cur \notin InHistory \ S /\ EndTick
    BY <1>5, <1>14 DEF InsertFails, Remembered, Sampled, ghostVars
  <2> QED
    BY <2>1, RememberedEnds DEF EndTick, Sampled
<1> QED
  BY <1>6, <1>7, <1>8, <1>9, <1>10, <1>11, <1>12, <1>13, <1>14 DEF LoopStep

\* As long as the loop has been rebuilt n times and no more, a clip recorded from now on,
\* S being those recorded before, is not recorded again.
RecordsOnce(n, S) == [][restarts' = n /\ InsertEntry => tick.sample \notin InHistory \ S]_vars

LEMMA RememberedStep ==
  ASSUME NEW S, TypeOK, Staged, Probed, Ordered, Remembered(S), [Next]_vars, ~Restart
  PROVE  Remembered(S)'
<1>1. CASE Environment
  <2>1. UNCHANGED <<pc, tick, dedup, stored>> /\ InHistory' = InHistory
    BY <1>1, EnvironmentFrame DEF loopVars, ghostVars, InHistory
  <2>2. /\ Cur \in Nat /\ Cur' \in Nat /\ Cur <= Cur' /\ InHistory \subseteq 1..Cur
        /\ \A i \in 1..Cur : clips'[i] = clips[i] /\ Hash(i)' = Hash(i)
        /\ pc \in Sampled => tick.sample \in 1..Cur
    BY <1>1, ClipFacts, EnvironmentGrows DEF Staged, Locals, History, InHistory, Hash
  <2>3. CASE Cur' # Cur
    <3>1. Cur' \notin InHistory'
      BY <2>1, <2>2, <2>3
    <3> QED
      BY <2>1, <2>2, <3>1 DEF Remembered, Sampled
  <2>4. CASE Cur' = Cur
    <3>1. (landed => landed') /\ UNCHANGED clips
      BY <1>1, <2>2, <2>4, EnvironmentFrame
    <3>2. CurSeq' = CurSeq /\ Hash(Cur)' = Hash(Cur)
      BY <2>4, <3>1 DEF CurSeq, Hash
    <3> QED
      BY <2>1, <2>2, <2>4, <3>1, <3>2 DEF Remembered, Sampled
  <2> QED
    BY <2>3, <2>4
<1>2. CASE UNCHANGED vars
  <2>1. UNCHANGED <<pc, tick, dedup, stored, clips, landed>>
    BY <1>2 DEF vars, envVars, loopVars, ghostVars
  <2>2. Cur' = Cur /\ CurSeq' = CurSeq /\ InHistory' = InHistory /\ \A c : Hash(c)' = Hash(c)
    BY <2>1 DEF Cur, CurSeq, InHistory, Hash
  <2>3. Hash(Cur)' = Hash(Cur)
    BY <2>1, <2>2 DEF Hash
  <2> QED
    BY <2>1, <2>2, <2>3 DEF Remembered
<1> QED
  BY <1>1, <1>2, RememberedLoop DEF Next

\* A body that cannot be read is never recorded, by any loop.
LEMMA ReadableAlways == Spec => []Remembered(Int)
<1>1. Init => Remembered(Int)
  BY DEF Init, Remembered, InHistory, NewDedup
<1>2. TypeOK /\ Staged /\ Probed /\ Ordered /\ Remembered(Int) /\ [Next]_vars => Remembered(Int)'
  <2> SUFFICES ASSUME TypeOK, Staged, Probed, Ordered, Remembered(Int), [Next]_vars
               PROVE  Remembered(Int)'
    OBVIOUS
  <2>1. CASE Restart
    <3>1. pc' = "apply" /\ UNCHANGED <<stored, clips>>
      BY <2>1 DEF Restart, ghostVars
    <3>2. InHistory' = InHistory /\ Cur' = Cur /\ Cur \in Nat /\ \A c : Hash(c)' = Hash(c)
      BY <3>1, ClipFacts DEF InHistory, Cur, Hash
    <3> QED
      BY <3>1, <3>2 DEF Remembered
  <2> QED
    BY <2>1, RememberedStep
<1> QED
  BY <1>1, <1>2, StagedAlways, ProbedAlways, OrderedAlways, PTL DEF Spec

\* No clip is recorded twice by the same loop, not after a failed insert was rolled back,
\* a wake gap had it read again, a pause seeded it, the application copied it back or an
\* Accessibility outage forced another look; whatever loops came before it.
THEOREM EachLoopRecordsOnce ==
  ASSUME NEW n \in Nat, NEW S
  PROVE  Spec => [](restarts = n /\ InHistory = S => RecordsOnce(n, S))
<1> DEFINE J == restarts > n \/ (restarts = n /\ Remembered(S))
           Once == [restarts' = n /\ InsertEntry => tick.sample \notin InHistory \ S]_vars
<1>1. Remembered(Int) /\ restarts = n /\ InHistory = S => J
  BY DEF Remembered
<1>2. ASSUME TypeOK, Staged, [Next]_vars
      PROVE  restarts' = restarts + 1 \/ (restarts' = restarts /\ ~Restart)
  BY <1>2, RestartsCount
<1>3. TypeOK /\ Staged /\ Probed /\ Ordered /\ J /\ [Next]_vars => J'
  <2>1. ASSUME TypeOK PROVE restarts \in Nat
    BY <2>1 DEF TypeOK
  <2> QED
    BY <1>2, <2>1, RememberedStep
<1>4. TypeOK /\ Staged /\ J /\ [Next]_vars => Once
  <2> SUFFICES ASSUME TypeOK, Staged, J, [Next]_vars, restarts' = n, InsertEntry
               PROVE  tick.sample \notin InHistory \ S
    OBVIOUS
  <2>1. restarts \in Nat
    BY DEF TypeOK
  <2>2. Remembered(S)
    BY <1>2, <2>1
  <2> QED
    BY <2>2 DEF Remembered, InsertEntry
<1> HIDE DEF J
<1> QED
  BY <1>1, <1>3, <1>4, ReadableAlways, OrderedAlways, ProbedAlways, StagedAlways, PTL
     DEF Spec, RecordsOnce
=============================================================================
