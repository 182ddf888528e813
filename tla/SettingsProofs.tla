--------------------------- MODULE SettingsProofs ---------------------------
(***************************************************************************)
(* Theorems about the settings, for every number of local and remote       *)
(* callers, every set of fields and any number of writes and restarts.     *)
(***************************************************************************)
EXTENDS Settings, TLAPS

-----------------------------------------------------------------------------
(* The inductive invariant. *)

\* The last commit is one that nobody published.
Astray == stray > 0 /\ revision = stray

\* What is true of one call, whatever the others do: its snapshot and its revision
\* agree as long as the revision is current; what it is about to write is its edit of
\* the current row, unless a dropped handler's transaction has come in between; what
\* it is about to publish is the current row, with the same exception.
Sound(j) ==
  /\ j.base <= revision /\ j.seen <= revision
  /\ j.pc = "loaded" /\ j.base = revision => j.body = value
  /\ j.pc \in {"write", "detached"} => j.op # "refresh"
  /\ j.op = "checked" /\ j.pc \in {"lock", "read", "write", "detached"} =>
       /\ j.field \in Flags
       /\ j.base = revision => j.body = With(value, j.field, j.on)
  /\ j.op = "mutate" /\ j.pc \in {"lock", "read", "write"} =>
       /\ j.field \in Flags \cup Markers
       /\ j.field \in Markers => j.on
  /\ j.pc = "write" =>
       \/ j.seen < stray
       \/ /\ j.op = "mutate" => j.body = With(value, j.field, j.on)
          /\ j.op = "save" => j.body \cap Markers = value \cap Markers
  /\ j.pc = "publish" =>
       /\ j.op # "refresh" => revision > 0
       /\ Astray \/ j.body = value

CallsAreSound == \A c \in Callers : Sound(job[c])

\* A commit that its holder has still to publish.
Publishing(j) == j.pc = "publish" /\ j.op # "refresh"

\* The watch shows the row, except until the holder publishes what it committed.
WatchIsSettled ==
  (seeded /\ ~Astray /\ \A c \in Callers : ~Publishing(job[c])) => watch = value

IInv == TypeOK /\ CallsAreSound /\ WatchIsSettled

-----------------------------------------------------------------------------
(* Lemmas. *)

LEMMA Editing ==
  ASSUME NEW v \in Values, NEW f \in Flags \cup Markers, NEW on \in BOOLEAN
  PROVE  /\ With(v, f, on) \in Values
         /\ \A g \in Flags \cup Markers :
              (g \in v) # (g \in With(v, f, on)) => g = f
         /\ (f \in Flags \/ on) => v \cap Markers \subseteq With(v, f, on)
<1>1. CASE on
  BY <1>1 DEF With, Values
<1>2. CASE ~on
  BY <1>2, FieldsAssumption DEF With, Values
<1> QED
  BY <1>1, <1>2

\* A merge takes the flags from one side and the markers from the other; merging
\* an edit of the current flags is that edit of the current row.
LEMMA Merging ==
  ASSUME NEW v \in Values, NEW p \in Values
  PROVE  /\ Merge(v, p) \in Values
         /\ Merge(v, p) \cap Markers = p \cap Markers
         /\ \A f \in Flags, on \in BOOLEAN :
              v = With(p, f, on) => Merge(v, p) = With(p, f, on)
<1>1. Merge(v, p) \in Values /\ Merge(v, p) \cap Markers = p \cap Markers
  BY FieldsAssumption DEF Merge, Values
<1>2. ASSUME NEW f \in Flags, NEW on \in BOOLEAN, v = With(p, f, on)
      PROVE  Merge(v, p) = With(p, f, on)
  <2>1. CASE on
    BY <1>2, <2>1, FieldsAssumption DEF Merge, With, Values
  <2>2. CASE ~on
    BY <1>2, <2>2, FieldsAssumption DEF Merge, With, Values
  <2> QED
    BY <2>1, <2>2
<1> QED
  BY <1>1, <1>2

LEMMA IdleIsSound ==
  /\ NoJob \in Jobs
  /\ TypeOK => Sound(NoJob)
<1>1. NoJob \in Jobs
  BY DEF NoJob, Jobs, Values
<1>2. TypeOK => Sound(NoJob)
  BY DEF NoJob, Sound, TypeOK
<1> QED
  BY <1>1, <1>2

\* A step of one call leaves the others sound, if it leaves the row alone and moves
\* stray only while it is inside the critical section.
LEMMA OthersStaySound ==
  ASSUME TypeOK, CallsAreSound, NEW c \in Callers,
         job' = [job EXCEPT ![c] = job'[c]],
         UNCHANGED <<value, revision>>, stray' = stray \/ job[c].pc \in InSection,
         Sound(job[c])'
  PROVE  CallsAreSound'
<1> SUFFICES ASSUME NEW d \in Callers, d # c PROVE Sound(job[d])'
  BY DEF CallsAreSound
<1>1. job'[d] = job[d] /\ Sound(job[d]) /\ job \in [Callers -> Jobs]
  BY DEF TypeOK, CallsAreSound
<1>2. CASE stray' = stray
  BY <1>1, <1>2 DEF Sound, Astray, With
<1>3. CASE job[c].pc \in InSection
  <2>1. job[d].pc \notin InSection
    BY <1>3 DEF TypeOK
  <2> QED
    BY <1>1, <2>1 DEF Sound, With, InSection
<1> QED
  BY <1>2, <1>3

\* A step that publishes nothing and commits nothing leaves the watch settled.
LEMMA StaysSettled ==
  ASSUME TypeOK, WatchIsSettled, NEW c \in Callers,
         job' = [job EXCEPT ![c] = job'[c]], ~Publishing(job[c]),
         UNCHANGED <<value, revision, stray, watch, seeded>>
  PROVE  WatchIsSettled'
<1>1. \A d \in Callers : d # c => job'[d] = job[d]
  BY DEF TypeOK
<1>2. (\A d \in Callers : ~Publishing(job'[d])) => \A d \in Callers : ~Publishing(job[d])
  BY <1>1
<1> QED
  BY <1>2 DEF WatchIsSettled, Astray

-----------------------------------------------------------------------------
(* The steps. *)

LEMMA StartInv ==
  ASSUME IInv, NEW c \in Callers,
         \/ StartRefresh(c) \/ StartToggle(c) \/ StartMark(c)
         \/ LoadSettings(c) \/ StartSave(c)
  PROVE  IInv'
<1> DEFINE j == job[c]
<1>0. /\ TypeOK /\ CallsAreSound /\ WatchIsSettled
      /\ job \in [Callers -> Jobs] /\ j \in Jobs /\ Sound(j)
      /\ value \in Values /\ revision \in Nat
  BY DEF IInv, TypeOK, CallsAreSound
<1>1. /\ UNCHANGED <<value, revision, watch, seeded, holder, restarts, stray>>
      /\ j.pc \in {"idle", "loaded"}
  BY DEF StartRefresh, StartToggle, StartMark, LoadSettings, StartSave
<1>2. SUFFICES \E x \in Jobs : /\ job' = [job EXCEPT ![c] = x]
                               /\ x.pc \in {"loaded", "lock"} /\ Sound(x)
  <2>1. PICK x \in Jobs : /\ job' = [job EXCEPT ![c] = x]
                          /\ x.pc \in {"loaded", "lock"} /\ Sound(x)
    BY <1>2
  <2>2. job'[c] = x /\ job' = [job EXCEPT ![c] = job'[c]]
    BY <1>0, <2>1
  <2>3. TypeOK'
    BY <1>0, <1>1, <2>1, <2>2 DEF TypeOK, InSection
  <2>4. Sound(job[c])'
    BY <1>1, <2>1, <2>2 DEF Sound, With
  <2>5. CallsAreSound'
    BY <1>0, <1>1, <2>2, <2>4, OthersStaySound
  <2>6. WatchIsSettled'
    BY <1>0, <1>1, <2>2, StaysSettled DEF Publishing
  <2> QED
    BY <2>3, <2>5, <2>6 DEF IInv
<1>3. CASE StartRefresh(c)
  <2> DEFINE x == [j EXCEPT !.pc = "lock", !.op = "refresh"]
  <2>1. x \in Jobs /\ x.pc = "lock" /\ Sound(x)
    BY <1>0 DEF Jobs, Sound
  <2> QED
    BY <1>3, <2>1 DEF StartRefresh
<1>4. CASE StartToggle(c) \/ StartMark(c)
  <2>1. PICK f \in Flags \cup Markers, on \in BOOLEAN :
          /\ job' = [job EXCEPT ![c] = [j EXCEPT !.pc = "lock", !.op = "mutate",
                                                 !.field = f, !.on = on]]
          /\ f \in Markers => on
    BY <1>4, FieldsAssumption DEF StartToggle, StartMark
  <2> DEFINE x == [j EXCEPT !.pc = "lock", !.op = "mutate", !.field = f, !.on = on]
  <2>2. x \in Jobs /\ x.pc = "lock" /\ Sound(x)
    BY <1>0, <2>1 DEF Jobs, Sound
  <2> QED
    BY <2>1, <2>2
<1>5. CASE LoadSettings(c)
  <2> DEFINE x == [j EXCEPT !.pc = "loaded", !.body = value, !.base = revision]
  <2>1. /\ x \in Jobs /\ x.pc = "loaded" /\ x.body = value /\ x.base = revision
        /\ x.seen = j.seen
    BY <1>0 DEF Jobs
  <2>2. Sound(x)
    BY <1>0, <2>1 DEF Sound
  <2> QED
    BY <1>5, <2>1, <2>2 DEF LoadSettings
<1>6. CASE StartSave(c)
  <2>1. PICK op \in {"save", "checked"}, f \in Flags, on \in BOOLEAN :
          job' = [job EXCEPT ![c] = [j EXCEPT !.pc = "lock", !.op = op, !.field = f,
                                              !.on = on, !.body = With(j.body, f, on)]]
    BY <1>6 DEF StartSave
  <2> DEFINE b == With(j.body, f, on)
             x == [j EXCEPT !.pc = "lock", !.op = op, !.field = f, !.on = on, !.body = b]
  <2>2. b \in Values /\ j.pc = "loaded"
    BY <1>0, <1>6, Editing DEF Jobs, StartSave
  <2>3. j.base = revision => b = With(value, f, on)
    BY <1>0, <2>2 DEF Sound
  <2> HIDE DEF b
  <2>4. x \in Jobs /\ x.pc = "lock"
    BY <1>0, <2>2 DEF Jobs
  <2>5. Sound(x)
    BY <1>0, <2>3 DEF Jobs, Sound
  <2> QED
    BY <2>1, <2>4, <2>5 DEF b
<1> QED
  BY <1>3, <1>4, <1>5, <1>6

LEMMA SectionInv ==
  ASSUME IInv, NEW c \in Callers, Lock(c) \/ Read(c) \/ Fails(c) \/ DetachedFails(c)
  PROVE  IInv'
<1> DEFINE j == job[c]
<1>0. /\ TypeOK /\ CallsAreSound /\ WatchIsSettled
      /\ job \in [Callers -> Jobs] /\ j \in Jobs /\ Sound(j)
      /\ value \in Values /\ revision \in Nat
      /\ \A d \in Callers : job[d].pc \in InSection <=> holder = d
  BY DEF IInv, TypeOK, CallsAreSound
<1>1. UNCHANGED <<value, revision, watch, seeded, restarts, stray>>
  BY DEF Lock, Read, Fails, DetachedFails
<1>2. SUFFICES \E x \in Jobs :
                 /\ job' = [job EXCEPT ![c] = x] /\ Sound(x) /\ ~Publishing(j)
                 /\ \/ x.pc \in InSection /\ holder' = c /\ holder \in {c, None}
                    \/ x.pc \notin InSection /\ holder = c /\ holder' = None
                    \/ x.pc \notin InSection /\ holder # c /\ holder' = holder
  <2>1. PICK x \in Jobs :
          /\ job' = [job EXCEPT ![c] = x] /\ Sound(x) /\ ~Publishing(j)
          /\ \/ x.pc \in InSection /\ holder' = c /\ holder \in {c, None}
             \/ x.pc \notin InSection /\ holder = c /\ holder' = None
             \/ x.pc \notin InSection /\ holder # c /\ holder' = holder
    BY <1>2
  <2>2. job'[c] = x /\ job' = [job EXCEPT ![c] = job'[c]]
    BY <1>0, <2>1
  <2>3. \A d \in Callers : job'[d].pc \in InSection <=> holder' = d
    BY <1>0, <2>1, CallersAssumption
  <2>4. TypeOK'
    BY <1>0, <1>1, <2>1, <2>3 DEF TypeOK
  <2>5. Sound(job[c])'
    BY <1>1, <2>1, <2>2 DEF Sound, With, Astray
  <2>6. CallsAreSound'
    BY <1>0, <1>1, <2>2, <2>5, OthersStaySound
  <2>7. WatchIsSettled'
    BY <1>0, <1>1, <2>1, <2>2, StaysSettled
  <2> QED
    BY <2>4, <2>6, <2>7 DEF IInv
<1>3. CASE Lock(c)
  <2> DEFINE x == [j EXCEPT !.pc = "read"]
  <2>1. x \in Jobs /\ x.pc = "read" /\ Sound(x)
    BY <1>0, <1>3 DEF Jobs, Sound, Lock
  <2> QED
    BY <1>3, <2>1 DEF Lock, Moved, Free, InSection, Publishing
<1>4. CASE Read(c)
  <2> DEFINE b == Prepared(j)
             pc == IF j.op = "refresh" THEN "publish" ELSE "write"
             x == [j EXCEPT !.pc = pc, !.body = b, !.seen = revision]
  <2>1. j.pc = "read" /\ job' = [job EXCEPT ![c] = x]
    BY <1>4 DEF Read
  <2>2. /\ j.op = "refresh" => b = value
        /\ j.op = "mutate" => b = With(value, j.field, j.on)
        /\ j.op \in {"save", "checked"} => b = Merge(j.body, value)
    BY DEF Prepared
  <2>3. j.on \in BOOLEAN /\ j.body \in Values /\ j.op \in {"refresh", "mutate", "save", "checked"}
    BY <1>0 DEF Jobs
  <2>4. b \in Values
    BY <1>0, <2>1, <2>2, <2>3, Editing, Merging DEF Sound
  <2>5. j.op = "save" => b \cap Markers = value \cap Markers
    BY <1>0, <2>2, <2>3, Merging
  <2>6. j.op = "checked" =>
          j.field \in Flags /\ (j.base = revision => b = With(value, j.field, j.on))
    BY <1>0, <2>1, <2>2, <2>3, Merging DEF Sound
  <2>7. pc \in {"publish", "write"} /\ (pc = "publish" <=> j.op = "refresh")
    OBVIOUS
  <2> HIDE DEF b, pc
  <2>8. /\ x \in Jobs /\ x.pc = pc /\ x.op = j.op /\ x.body = b /\ x.seen = revision
        /\ x.base = j.base /\ x.field = j.field /\ x.on = j.on
    BY <1>0, <2>4, <2>7 DEF Jobs
  <2>9. Sound(x)
    BY <1>0, <2>1, <2>2, <2>5, <2>6, <2>7, <2>8 DEF Sound
  <2>10. x.pc \in InSection /\ holder = c /\ holder' = c /\ ~Publishing(j)
    BY <1>0, <1>4, <2>1, <2>7, <2>8 DEF InSection, Publishing, Read
  <2> QED
    BY <2>1, <2>8, <2>9, <2>10
<1>5. CASE Fails(c)
  <2>1. job' = [job EXCEPT ![c] = NoJob] /\ holder = c /\ holder' = None /\ ~Publishing(j)
    BY <1>0, <1>5 DEF Fails, Returned, InSection, Publishing
  <2> QED
    BY <1>0, <2>1, IdleIsSound DEF NoJob, InSection
<1>6. CASE DetachedFails(c)
  <2>1. /\ job' = [job EXCEPT ![c] = NoJob] /\ holder # c /\ holder' = holder
        /\ ~Publishing(j)
    BY <1>0, <1>6 DEF DetachedFails, Returned, InSection, Publishing
  <2> QED
    BY <1>0, <2>1, IdleIsSound DEF NoJob, InSection
<1> QED
  BY <1>3, <1>4, <1>5, <1>6

\* A commit moves the revision past every snapshot, and past what a dropped
\* handler's transaction compared with.
LEMMA CommitInv ==
  ASSUME IInv, NEW c \in Callers, Commit(c)
  PROVE  IInv'
<1> DEFINE j == job[c]
           x == [NoJob EXCEPT !.pc = "publish", !.op = j.op, !.body = j.body]
<1>0. /\ TypeOK /\ CallsAreSound
      /\ job \in [Callers -> Jobs] /\ j \in Jobs /\ Sound(j)
      /\ revision \in Nat /\ stray \in Nat
      /\ \A d \in Callers : job[d].pc \in InSection <=> holder = d
  BY DEF IInv, TypeOK, CallsAreSound
<1>1. /\ j.pc = "write" /\ value' = j.body /\ revision' = revision + 1
      /\ job' = [job EXCEPT ![c] = x]
      /\ UNCHANGED <<watch, seeded, holder, restarts, stray>>
  BY DEF Commit, Saved
<1>2. /\ x \in Jobs /\ x.pc = "publish" /\ x.op = j.op /\ x.body = j.body
      /\ x.base = 0 /\ x.seen = 0
  BY <1>0 DEF NoJob, Jobs, Values
<1>3. job'[c] = x /\ \A d \in Callers : d # c => job'[d] = job[d]
  BY <1>0, <1>1
<1> HIDE DEF x
<1>4. value' \in Values /\ j.op # "refresh" /\ holder = c
  BY <1>0, <1>1 DEF Jobs, Sound, InSection
<1>5. TypeOK'
  BY <1>0, <1>1, <1>2, <1>3, <1>4 DEF TypeOK, InSection
<1>6. CallsAreSound'
  <2> SUFFICES ASSUME NEW d \in Callers PROVE Sound(job[d])'
    BY DEF CallsAreSound
  <2>1. CASE d = c
    BY <1>0, <1>1, <1>2, <1>3, <2>1 DEF Sound
  <2>2. CASE d # c
    <3>1. job[d].pc \notin InSection /\ job[d] \in Jobs /\ Sound(job[d])
      BY <1>0, <1>4, <2>2 DEF CallsAreSound
    <3>2. /\ job[d].base \in Nat /\ job[d].seen \in Nat
          /\ job[d].base # revision' /\ job[d].base <= revision' /\ job[d].seen <= revision'
      BY <1>0, <1>1, <3>1 DEF Sound, Jobs
    <3> QED
      BY <1>3, <2>2, <3>1, <3>2 DEF Sound, InSection
  <2> QED
    BY <2>1, <2>2
<1>7. Publishing(job[c])'
  BY <1>2, <1>3, <1>4 DEF Publishing
<1> QED
  BY <1>5, <1>6, <1>7 DEF IInv, WatchIsSettled

LEMMA PublishInv ==
  ASSUME IInv, NEW c \in Callers, Publish(c)
  PROVE  IInv'
<1> DEFINE j == job[c]
<1>0. /\ TypeOK /\ CallsAreSound
      /\ job \in [Callers -> Jobs] /\ j \in Jobs /\ Sound(j)
      /\ \A d \in Callers : job[d].pc \in InSection <=> holder = d
  BY DEF IInv, TypeOK, CallsAreSound
<1>1. /\ j.pc = "publish" /\ watch' = j.body /\ seeded' = TRUE /\ holder' = None
      /\ job' = [job EXCEPT ![c] = NoJob] /\ UNCHANGED <<value, revision, restarts, stray>>
  BY DEF Publish, Returned
<1>2. job'[c] = NoJob /\ \A d \in Callers : d # c => job'[d] = job[d]
  BY <1>0, <1>1
<1>3. watch' \in Values /\ (Astray \/ watch' = value)
  BY <1>0, <1>1 DEF Jobs, Sound
<1>4. TypeOK'
  <2>1. holder = c
    BY <1>0, <1>1 DEF InSection
  <2>2. \A d \in Callers : job'[d].pc \in InSection <=> holder' = d
    BY <1>0, <1>1, <1>2, <2>1, CallersAssumption DEF NoJob, InSection
  <2> QED
    BY <1>0, <1>1, <1>3, <2>2, IdleIsSound DEF TypeOK
<1>5. CallsAreSound'
  <2>1. Sound(job[c])'
    BY <1>0, <1>1, <1>2 DEF Sound, NoJob, TypeOK
  <2> QED
    BY <1>0, <1>1, <1>2, <2>1, OthersStaySound
<1>6. WatchIsSettled'
  BY <1>1, <1>3 DEF WatchIsSettled, Astray
<1> QED
  BY <1>4, <1>5, <1>6 DEF IInv

LEMMA DropInv ==
  ASSUME IInv, NEW c \in Callers, Drop(c)
  PROVE  IInv'
<1> DEFINE j == job[c]
<1>0. /\ TypeOK /\ CallsAreSound /\ WatchIsSettled
      /\ job \in [Callers -> Jobs] /\ j \in Jobs /\ Sound(j)
      /\ revision \in Nat /\ stray \in Nat
      /\ \A d \in Callers : job[d].pc \in InSection <=> holder = d
  BY DEF IInv, TypeOK, CallsAreSound
<1>1. /\ UNCHANGED <<value, revision, watch, seeded, restarts>>
      /\ j.pc \in InSection => holder' = None
      /\ j.pc \notin InSection => holder' = holder
      /\ Publishing(j) => stray' = revision
      /\ ~Publishing(j) => stray' = stray
  BY DEF Drop, Publishing
<1>2. PICK x \in Jobs : job' = [job EXCEPT ![c] = x] /\ Sound(x) /\ x.pc \in {"detached", "idle"}
  <2>1. CASE j.pc = "write"
    <3> DEFINE x == [j EXCEPT !.pc = "detached"]
    <3>1. /\ x \in Jobs /\ x.pc = "detached" /\ x.op = j.op /\ x.body = j.body
          /\ x.base = j.base /\ x.seen = j.seen /\ x.field = j.field /\ x.on = j.on
      BY <1>0 DEF Jobs
    <3>2. Sound(x)
      BY <1>0, <2>1, <3>1 DEF Sound
    <3> QED
      BY <2>1, <3>1, <3>2 DEF Drop, Moved
  <2>2. CASE j.pc # "write"
    BY <1>0, <2>2, IdleIsSound DEF Drop, Returned, NoJob
  <2> QED
    BY <2>1, <2>2
<1>3. /\ job'[c] = x /\ job' = [job EXCEPT ![c] = job'[c]]
      /\ \A d \in Callers : d # c => job'[d] = job[d]
  BY <1>0, <1>2
<1>4. TypeOK'
  <2>1. \A d \in Callers : job'[d].pc \in InSection <=> holder' = d
    BY <1>0, <1>1, <1>2, <1>3, CallersAssumption DEF InSection
  <2>2. stray' \in Nat /\ holder' \in Callers \cup {None}
    BY <1>0, <1>1 DEF TypeOK
  <2> QED
    BY <1>0, <1>1, <1>2, <2>1, <2>2 DEF TypeOK
<1>5. CallsAreSound'
  <2>1. Sound(job[c])'
    BY <1>1, <1>2, <1>3 DEF Sound, With
  <2>2. stray' = stray \/ j.pc \in InSection
    BY <1>1 DEF Publishing, InSection
  <2> QED
    BY <1>0, <1>1, <1>3, <2>1, <2>2, OthersStaySound
<1>6. WatchIsSettled'
  <2>1. CASE Publishing(j)
    <3>1. revision' = stray' /\ stray' > 0
      BY <1>0, <1>1, <2>1 DEF Publishing, Sound
    <3> QED
      BY <3>1 DEF WatchIsSettled, Astray
  <2>2. CASE ~Publishing(j)
    BY <1>0, <1>1, <1>3, <2>2, StaysSettled
  <2> QED
    BY <2>1, <2>2
<1> QED
  BY <1>4, <1>5, <1>6 DEF IInv

LEMMA DetachedCommitInv ==
  ASSUME IInv, NEW c \in Callers, DetachedCommit(c)
  PROVE  IInv'
<1> DEFINE j == job[c]
<1>0. /\ TypeOK /\ CallsAreSound
      /\ job \in [Callers -> Jobs] /\ j \in Jobs
      /\ revision \in Nat
      /\ \A d \in Callers : job[d].pc \in InSection <=> holder = d
  BY DEF IInv, TypeOK, CallsAreSound
<1>1. /\ j.pc = "detached" /\ value' = j.body /\ revision' = revision + 1
      /\ stray' = revision + 1 /\ job' = [job EXCEPT ![c] = NoJob]
      /\ UNCHANGED <<watch, seeded, holder, restarts>>
  BY DEF DetachedCommit, Saved, Returned
<1>2. job'[c] = NoJob /\ \A d \in Callers : d # c => job'[d] = job[d]
  BY <1>0, <1>1
<1>3. Astray' /\ revision' \in Nat /\ value' \in Values
  BY <1>0, <1>1 DEF Astray, Jobs
<1>4. TypeOK'
  <2>1. \A d \in Callers : job'[d].pc \in InSection <=> holder' = d
    BY <1>0, <1>1, <1>2 DEF InSection, NoJob
  <2> QED
    BY <1>0, <1>1, <1>3, <2>1, IdleIsSound DEF TypeOK
<1>5. CallsAreSound'
  <2> SUFFICES ASSUME NEW d \in Callers PROVE Sound(job[d])'
    BY DEF CallsAreSound
  <2>1. CASE d = c
    BY <1>2, <1>3, <2>1 DEF Sound, NoJob
  <2>2. CASE d # c
    <3>1. job[d] \in Jobs /\ Sound(job[d])
      BY <1>0 DEF CallsAreSound
    <3>2. /\ job[d].base # revision' /\ job[d].base <= revision'
          /\ job[d].seen <= revision' /\ job[d].seen < stray' /\ revision' > 0
      BY <1>0, <1>1, <3>1 DEF Sound, Jobs
    <3> QED
      BY <1>2, <1>3, <2>2, <3>1, <3>2 DEF Sound
  <2> QED
    BY <2>1, <2>2
<1> QED
  BY <1>3, <1>4, <1>5 DEF IInv, WatchIsSettled

LEMMA RestartInv ==
  ASSUME IInv, Restart
  PROVE  IInv'
<1>0. /\ TypeOK /\ CallsAreSound
      /\ UNCHANGED <<value, revision, stray>> /\ seeded' = FALSE /\ holder' = None
      /\ watch' = Default /\ restarts' = restarts + 1
  BY DEF IInv, Restart
<1>1. \A d \in Callers : \/ job'[d] = NoJob
                         \/ job'[d] = job[d] /\ job[d].pc = "loaded"
  BY DEF Restart
<1>2. job' \in [Callers -> Jobs]
  BY <1>0, IdleIsSound DEF Restart, TypeOK
<1>3. TypeOK'
  <2>1. \A d \in Callers : job'[d].pc \notin InSection
    BY <1>1 DEF NoJob, InSection
  <2>2. Default \in Values
    BY FieldsAssumption DEF Values
  <2>3. /\ value' \in Values /\ watch' \in Values /\ revision' \in Nat
        /\ restarts' \in Nat /\ stray' \in Nat
    BY <1>0, <2>2 DEF TypeOK
  <2>4. seeded' \in BOOLEAN /\ holder' \in Callers \cup {None}
    BY <1>0
  <2>5. \A d \in Callers : job'[d].pc \in InSection <=> holder' = d
    BY <1>0, <2>1, CallersAssumption
  <2> QED
    BY <1>2, <2>3, <2>4, <2>5 DEF TypeOK
<1>4. CallsAreSound'
  <2> SUFFICES ASSUME NEW d \in Callers PROVE Sound(job[d])'
    BY DEF CallsAreSound
  <2>1. CASE job'[d] = NoJob
    BY <1>0, <2>1 DEF Sound, NoJob, TypeOK
  <2>2. CASE job'[d] = job[d] /\ job[d].pc = "loaded"
    BY <1>0, <2>2 DEF CallsAreSound, Sound
  <2> QED
    BY <1>1, <2>1, <2>2
<1> QED
  BY <1>0, <1>3, <1>4 DEF IInv, WatchIsSettled

-----------------------------------------------------------------------------
(* The theorems. *)

LEMMA SettingsInv == Spec => []IInv
<1>1. Init => IInv
  <2> SUFFICES ASSUME Init PROVE IInv
    OBVIOUS
  <2>1. TypeOK
    BY IdleIsSound, FieldsAssumption, CallersAssumption
       DEF Init, TypeOK, Values, InSection, NoJob
  <2>2. CallsAreSound
    BY <2>1, IdleIsSound DEF Init, CallsAreSound
  <2> QED
    BY <2>1, <2>2 DEF Init, IInv, WatchIsSettled
<1>2. IInv /\ [Next]_vars => IInv'
  <2> SUFFICES ASSUME IInv, [Next]_vars PROVE IInv'
    OBVIOUS
  <2>1. ASSUME NEW c \in Callers, Step(c) PROVE IInv'
    BY <2>1, StartInv, SectionInv, CommitInv, PublishInv, DropInv, DetachedCommitInv DEF Step
  <2>2. CASE Restart
    BY <2>2, RestartInv
  <2>3. CASE UNCHANGED vars
    BY <2>3 DEF vars, IInv, TypeOK, CallsAreSound, Sound, With, WatchIsSettled, Astray,
                Publishing
  <2> QED
    BY <2>1, <2>2, <2>3 DEF Next
<1> QED
  BY <1>1, <1>2, PTL DEF Spec

\* Every variable has its type, and the lock is held exactly by the caller inside
\* the critical section.
THEOREM SettingsTyped == Spec => []TypeOK
<1>1. IInv => TypeOK
  BY DEF IInv
<1> QED
  BY <1>1, SettingsInv, PTL

\* Whatever refreshes, saves, failures, drops and restarts race, a seeded watch
\* shows the row once the lock is free, unless the row was committed by a dropped
\* handler.
THEOREM WatchFollows == Spec => []WatchFollowsStore
<1>1. IInv => WatchFollowsStore
  <2> SUFFICES ASSUME IInv, holder = None, seeded, stray = 0 \/ revision # stray
               PROVE  watch = value
    BY DEF WatchFollowsStore
  <2>1. \A c \in Callers : ~Publishing(job[c])
    BY CallersAssumption DEF IInv, TypeOK, Publishing, InSection
  <2> QED
    BY <2>1 DEF IInv, TypeOK, WatchIsSettled, Astray
<1> QED
  BY <1>1, SettingsInv, PTL

\* No commit loses another caller's update or a marker, unless a dropped handler's
\* transaction slipped in before it; and one that compares revisions never does.
THEOREM NoLostUpdate == Spec => KeepsOtherFields
<1>1. ASSUME IInv, NEW c \in Callers,
             \/ Commit(c) /\ (job[c].op = "checked" \/ job[c].seen >= stray)
             \/ DetachedCommit(c) /\ job[c].op = "checked"
      PROVE  /\ \A f \in Flags \cup Markers :
                  (f \in value) # (f \in value') => f \in Owned(job[c])
             /\ value \cap Markers \subseteq value'
  <2> DEFINE j == job[c]
  <2>0. /\ j \in Jobs /\ Sound(j) /\ value \in Values /\ stray \in Nat
        /\ j.field \in Flags \cup Markers \cup {None} /\ j.on \in BOOLEAN
        /\ j.seen \in Nat
    <3>1. j \in Jobs /\ Sound(j) /\ value \in Values /\ stray \in Nat
      BY <1>1 DEF IInv, TypeOK, CallsAreSound
    <3> QED
      BY <3>1 DEF Jobs
  <2>1. value' = j.body /\ (j.op = "checked" => j.base = revision)
    BY <1>1 DEF Commit, DetachedCommit, Saved, Matches
  <2>2. CASE j.op = "save"
    <3>1. j.body \cap Markers = value \cap Markers
      BY <1>1, <2>0, <2>2 DEF Sound, Commit
    <3> QED
      BY <2>1, <2>2, <3>1 DEF Owned
  <2>3. CASE j.op \in {"mutate", "checked"}
    <3>1. j.body = With(value, j.field, j.on) /\ j.field \in Flags \cup Markers
      BY <1>1, <2>0, <2>1, <2>3 DEF Sound, Commit, DetachedCommit
    <3>2. j.field \in Flags \/ j.on
      BY <1>1, <2>0, <2>3, <3>1 DEF Sound, Commit, DetachedCommit
    <3>3. Owned(j) = {j.field}
      BY <2>3 DEF Owned
    <3> QED
      BY <2>0, <2>1, <3>1, <3>2, <3>3, Editing
  <2>4. j.op \in {"save", "mutate", "checked"}
    BY <1>1, <2>0 DEF Sound, Jobs, Commit, DetachedCommit
  <2> QED
    BY <2>2, <2>3, <2>4
<1>2. IInv => [\A c \in Callers :
                 \/ Commit(c) /\ (job[c].op = "checked" \/ job[c].seen >= stray)
                 \/ DetachedCommit(c) /\ job[c].op = "checked"
                 => /\ \A f \in Flags \cup Markers :
                         (f \in value) # (f \in value') => f \in Owned(job[c])
                    /\ value \cap Markers \subseteq value']_vars
  BY <1>1
<1> QED
  BY <1>2, SettingsInv, PTL DEF KeepsOtherFields
=============================================================================
