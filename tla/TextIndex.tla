------------------------------ MODULE TextIndex ------------------------------
(***************************************************************************)
(* What is derived from the history, and the rules it was derived under:   *)
(* the vectors of the semantic index (nagori-daemon semantic_index.rs,     *)
(* nagori-storage sqlite/semantic.rs), the text recognized in images       *)
(* (text_recognition.rs, sqlite/ocr.rs) and their thumbnails               *)
(* (thumbnails.rs, sqlite/thumbnail.rs), while entries are captured again, *)
(* edited and deleted (sqlite/entry.rs, label.rs, maintenance.rs) and the  *)
(* settings are changed (sqlite/settings.rs).                              *)
(*                                                                         *)
(* A store operation is one step, as its transaction is; a worker reads,   *)
(* works and writes in different steps, and anything may happen between.   *)
(* Two content policies stand for the one before an edit of the rules and  *)
(* the one after it.  A body stands for the text of an entry, or for the   *)
(* text an image shows.                                                    *)
(***************************************************************************)
EXTENDS Naturals

CONSTANTS
  None,
  Texts,        \* the text entries
  Images,       \* the image entries
  Bodies,       \* what they hold
  PrivateBodies, SecretBodies,   \* what the strict policy classifies so
  MaxEvents     \* bounds the saves, edits, rebuild requests and failures of a behaviour

ASSUME TextIndexAssumption ==
  /\ Texts \cap Images = {} /\ PrivateBodies \cup SecretBodies \subseteq Bodies
  /\ None \notin Bodies \cup {"loose", "strict"}
  /\ None \notin [policy : {"loose", "strict"}, text : {"raw", "redacted", "failed"}]
  /\ MaxEvents \in Nat

VARIABLES
  row, watch, saving,   \* the settings: committed, published, and a save between the two
  entry,                \* the entries, each with its search document
  vec, excl, meta,      \* entry_embeddings, semantic_exclusions, semantic_index_meta
  rec,                  \* entry_text_recognition
  thumb, drawing,       \* entry_thumbnails, and the images being reduced
  rebuild,              \* SemanticState.rebuild_requested
  sem, ocr, ext,        \* the two workers, and the extraction on request
  kept,                 \* history: the rows the last clearing left, while its settings last
  used                  \* how many events there have been

settings == <<row, watch, saving>>
index == <<vec, excl, meta>>
images == <<rec, thumb, drawing>>
workers == <<sem, ocr, ext>>
vars == <<settings, entry, index, images, rebuild, workers, kept, used>>

Entries == Texts \cup Images
Policies == {"loose", "strict"}
Settings == [policy : Policies, semantic : BOOLEAN, imageText : BOOLEAN]

\* What a classifier built under p makes of a body: 0 public, 1 private, 2 secret.
Level(p, b) ==
  IF p = "loose" THEN 0 ELSE IF b \in SecretBodies THEN 2 ELSE IF b \in PrivateBodies THEN 1 ELSE 0

Max(m, n) == IF m > n THEN m ELSE n

Absent == [state |-> "absent", body |-> None, level |-> 0, doc |-> "none"]
Purged == [Absent EXCEPT !.state = "purged"]

SemIdle(unseen) == [pc |-> "idle", policy |-> None, unseen |-> unseen, asked |-> FALSE, batch |-> {}]
OcrIdle == [pc |-> "idle", policy |-> None, on |-> FALSE, item |-> None, text |-> "none"]
ExtIdle == [pc |-> "idle", item |-> None, policy |-> None, store |-> FALSE]

Init ==
  /\ row \in [policy : Policies, semantic : {TRUE}, imageText : {TRUE}] /\ watch = row /\ saving = FALSE
  /\ entry = [e \in Entries |-> Absent]
  /\ vec = [e \in Entries |-> None] /\ excl = [e \in Entries |-> None] /\ meta = None
  /\ rec = [i \in Images |-> None] /\ thumb = {} /\ drawing = {} /\ rebuild = FALSE
  /\ sem = SemIdle(FALSE) /\ ocr = OcrIdle /\ ext = ExtIdle
  /\ kept = "any" /\ used = 0

\* Saves, edits, rebuild requests and failures are bounded together.
Event == used < MaxEvents /\ used' = used + 1

Live(e) == entry[e].state = "live"

\* READABLE_IMAGE_SQL: live and not masked.
Readable(i) == Live(i) /\ entry[i].level = 0

-----------------------------------------------------------------------------

\* Everything derived from e goes with its row.
Cascade(e) ==
  /\ vec' = [vec EXCEPT ![e] = None] /\ excl' = [excl EXCEPT ![e] = None] /\ UNCHANGED meta
  /\ rec' = [i \in Images |-> IF i = e THEN None ELSE rec[i]]
  /\ thumb' = thumb \ {e} /\ UNCHANGED drawing

\* A first copy, classified under the published settings.  One that would be
\* secret is stored redacted, as another body.
Capture(e) ==
  /\ entry[e].state = "absent"
  /\ \E b \in Bodies :
       /\ \A f \in Entries \ {e} : Live(f) => entry[f].body # b
       /\ e \in Texts => Level(watch.policy, b) < 2
       /\ entry' = [entry EXCEPT ![e] =
            [state |-> "live", body |-> b,
             level |-> IF e \in Texts THEN Level(watch.policy, b) ELSE 0,
             doc |-> IF e \in Texts THEN "raw" ELSE "empty"]]
  /\ UNCHANGED <<settings, index, images, rebuild, workers, kept, used>>

\* The class of a later copy of the same bytes, and the document it brings.
Again(e) == IF e \in Texts THEN Level(watch.policy, entry[e].body) ELSE 0

\* The classes are merged upwards; the document is left when it is the
\* better protected one, or neither was ever redacted.
Recapture(e) ==
  /\ Live(e) /\ Again(e) < 2
  /\ LET skip == Again(e) < entry[e].level \/ (Again(e) = entry[e].level /\ Again(e) = 0)
     IN entry' = [entry EXCEPT ![e].level = Max(@, Again(e)),
          ![e].doc = IF skip THEN @ ELSE IF e \in Texts THEN "raw" ELSE "empty"]
  /\ UNCHANGED <<settings, index, images, rebuild, workers, kept, used>>

\* replace_content: what was derived from the old body is dropped with it; a
\* tombstone stays, for the hash it names.
Edit(e) ==
  /\ e \in Texts /\ Live(e) /\ entry[e].level = 0 /\ Event
  /\ \E b \in Bodies :
       /\ \A f \in Entries : Live(f) => entry[f].body # b
       /\ Level(row.policy, b) < 2
       /\ entry' = [entry EXCEPT ![e].body = b, ![e].level = Level(row.policy, b), ![e].doc = "raw"]
  /\ vec' = [vec EXCEPT ![e] = None]
  /\ UNCHANGED <<settings, excl, meta, images, rebuild, workers, kept>>

\* mark_deleted: a secret one is purged at once, others wait for the sweep.
Delete(e) ==
  /\ Live(e)
  /\ IF entry[e].level = 2
     THEN entry' = [entry EXCEPT ![e] = Purged] /\ Cascade(e)
     ELSE /\ entry' = [entry EXCEPT ![e].state = "deleted", ![e].doc = "none"]
          /\ UNCHANGED <<index, images>>
  /\ UNCHANGED <<settings, rebuild, workers, kept, used>>

Purge(e) ==
  /\ entry[e].state = "deleted"
  /\ entry' = [entry EXCEPT ![e] = Purged] /\ Cascade(e)
  /\ UNCHANGED <<settings, rebuild, workers, kept, used>>

-----------------------------------------------------------------------------

Erase == vec' = [e \in Entries |-> None] /\ excl' = [e \in Entries |-> None]

Changed(f) == [row EXCEPT !.policy = IF f = "policy" THEN CHOOSE p \in Policies : p # @ ELSE @,
                          !.semantic = IF f = "semantic" THEN ~@ ELSE @,
                          !.imageText = IF f = "imageText" THEN ~@ ELSE @]

\* The row, and with another policy the semantic index, in one transaction.
Save ==
  /\ ~saving /\ Event
  /\ \E f \in {"policy", "semantic", "imageText"} :
       /\ row' = Changed(f)
       /\ IF f = "policy" THEN Erase /\ meta' = None ELSE UNCHANGED index
  /\ saving' = TRUE
  /\ UNCHANGED <<watch, entry, images, rebuild, workers, kept>>

\* What a clearing left is only left as long as its settings last.
Publish ==
  /\ saving /\ saving' = FALSE /\ watch' = row
  /\ sem' = [sem EXCEPT !.unseen = TRUE]
  /\ kept' = IF <<row.policy, row.imageText>> = <<watch.policy, watch.imageText>> THEN kept ELSE "any"
  /\ UNCHANGED <<row, entry, index, images, rebuild, ocr, ext, used>>

RequestRebuild ==
  /\ ~rebuild /\ rebuild' = TRUE /\ Event
  /\ UNCHANGED <<settings, entry, index, images, workers, kept>>

-----------------------------------------------------------------------------

Sem(pc) == sem.pc = pc
SemGoto(pc) == sem' = [sem EXCEPT !.pc = pc]

\* The worker's pass is over: done, disabled, stale or failed.
SemEnd == sem' = SemIdle(sem.unseen)

\* A settings change, a capture, a rebuild request or the idle tick.
SemWake ==
  /\ Sem("idle")
  /\ \E seen \in {FALSE, sem.unseen} : sem' = [sem EXCEPT !.pc = "begin", !.unseen = seen]
  /\ UNCHANGED <<settings, entry, index, images, rebuild, ocr, ext, kept, used>>

\* An index of other rules is purged before anything else is looked at.
SemBegin ==
  /\ Sem("begin")
  /\ IF meta \in {None, watch.policy} THEN UNCHANGED index ELSE Erase /\ meta' = None
  /\ IF watch.semantic THEN sem' = [sem EXCEPT !.pc = "reconcile", !.policy = watch.policy] ELSE SemEnd
  /\ UNCHANGED <<settings, entry, images, rebuild, ocr, ext, kept, used>>

\* Seeded fault: an index that has no metadata counts as compatible.
ReconcileIfOther ==
  /\ Sem("reconcile")
  /\ sem' = [sem EXCEPT !.asked = rebuild,
                        !.pc = IF rebuild \/ meta \notin {None, sem.policy} THEN "restart" ELSE "loop"]
  /\ UNCHANGED <<settings, entry, index, images, rebuild, ocr, ext, kept, used>>

\* A rebuild is asked for, or there is no index of these rules.
SemReconcile ==
  /\ Sem("reconcile")
  /\ sem' = [sem EXCEPT !.asked = rebuild,
                        !.pc = IF rebuild \/ meta # sem.policy THEN "restart" ELSE "loop"]
  /\ UNCHANGED <<settings, entry, index, images, rebuild, ocr, ext, kept, used>>

\* semantic_rebuild_index_meta: only under the committed policy.
SemRestart ==
  /\ Sem("restart")
  /\ IF row.policy = sem.policy
     THEN Erase /\ meta' = sem.policy /\ SemGoto(IF sem.asked THEN "unflag" ELSE "loop")
     ELSE UNCHANGED index /\ SemEnd
  /\ UNCHANGED <<settings, entry, images, rebuild, ocr, ext, kept, used>>

SemUnflag ==
  /\ Sem("unflag") /\ rebuild' = FALSE /\ SemGoto("loop")
  /\ UNCHANGED <<settings, entry, index, images, ocr, ext, kept, used>>

\* Seeded fault: secret entries are offered as well.
PendingSecrets(e) ==
  /\ Live(e) /\ entry[e].doc \in {"raw", "redacted"}
  /\ vec[e] = None \/ vec[e].body # entry[e].body
  /\ excl[e] # entry[e].body

\* semantic_pending: no vector and no tombstone of the present body.
Pending(e) ==
  /\ Live(e) /\ entry[e].level < 2 /\ entry[e].doc \in {"raw", "redacted"}
  /\ vec[e] = None \/ vec[e].body # entry[e].body
  /\ excl[e] # entry[e].body

SemRead ==
  /\ Sem("loop")
  /\ LET pending == {e \in Entries : Pending(e)}
     IN IF sem.unseen \/ pending = {} THEN SemEnd
        ELSE sem' = [sem EXCEPT !.pc = "refuse",
               !.batch = {[of |-> e, row |-> [body |-> entry[e].body, level |-> entry[e].level, doc |-> entry[e].doc]]
                            : e \in pending}]
  /\ UNCHANGED <<settings, entry, index, images, rebuild, ocr, ext, kept, used>>

\* most_restrictive of the class at capture and a fresh look at every text.
Assess(b) ==
  Max(b.row.level,
      IF b.of \in Images /\ b.row.doc = "redacted" THEN 0 ELSE Level(sem.policy, b.row.body))

Refused == {b \in sem.batch : Assess(b) = 2}
Accepted == sem.batch \ Refused

\* The refused entries get a tombstone, if the policy still stands and none of
\* their rows is gone.
SemRefuse ==
  /\ Sem("refuse")
  /\ IF Refused # {} /\ (meta # sem.policy \/ \E b \in Refused : entry[b.of].state = "purged")
     THEN SemEnd /\ UNCHANGED index
     ELSE /\ excl' = [e \in Entries |->
               IF \E b \in Refused : b.of = e THEN (CHOOSE b \in Refused : b.of = e).row.body ELSE excl[e]]
          /\ vec' = [e \in Entries |-> IF \E b \in Refused : b.of = e THEN None ELSE vec[e]]
          /\ sem' = IF Accepted = {} THEN [sem EXCEPT !.pc = "loop", !.batch = {}]
                    ELSE [sem EXCEPT !.pc = "store", !.batch = Accepted]
          /\ UNCHANGED meta
  /\ UNCHANGED <<settings, entry, images, rebuild, ocr, ext, kept, used>>

\* What is embedded of an accepted entry.
Input(b) == IF b.row.doc = "redacted" \/ Assess(b) = 1 THEN "redacted" ELSE "raw"

\* The vectors written: of rows that still hold the body they were made of.
Upsert ==
  LET fits(e) == {b \in sem.batch : b.of = e /\ b.row.body = entry[e].body}
  IN vec' = [e \in Entries |->
       IF fits(e) = {} THEN vec[e]
       ELSE LET b == CHOOSE b \in fits(e) : TRUE IN [body |-> b.row.body, text |-> Input(b)]]

\* Seeded fault: only the watch is looked at before the vectors are stored.
StoreUnguarded ==
  /\ Sem("store")
  /\ IF sem.unseen THEN SemEnd /\ UNCHANGED index
     ELSE Upsert /\ UNCHANGED <<excl, meta>> /\ sem' = [sem EXCEPT !.pc = "loop", !.batch = {}]
  /\ UNCHANGED <<settings, entry, images, rebuild, ocr, ext, kept, used>>

\* The model has answered, any time later: the watch is looked at, and the
\* policy again within the transaction.
SemStore ==
  /\ Sem("store")
  /\ IF sem.unseen \/ meta # sem.policy THEN SemEnd /\ UNCHANGED index
     ELSE Upsert /\ UNCHANGED <<excl, meta>> /\ sem' = [sem EXCEPT !.pc = "loop", !.batch = {}]
  /\ UNCHANGED <<settings, entry, images, rebuild, ocr, ext, kept, used>>

\* The model, its power or the database is not there; a batch that may be
\* tried again is read again.
SemFails ==
  /\ sem.pc \notin {"idle", "begin"} /\ Event
  /\ SemEnd \/ (Sem("store") /\ sem' = [sem EXCEPT !.pc = "loop", !.batch = {}])
  /\ UNCHANGED <<settings, entry, index, images, rebuild, ocr, ext, kept>>

-----------------------------------------------------------------------------

\* shape_recognized_text: the text that may be stored.
Shape(p, b) == IF Level(p, b) = 0 THEN "raw" ELSE "redacted"

\* raise_image_sensitivity: upwards only, and the thumbnail goes.
Raised(i, level) ==
  /\ entry' = [entry EXCEPT ![i].level = Max(@, level)]
  /\ thumb' = IF level > entry[i].level THEN thumb \ {i} ELSE thumb

\* Seeded fault: the raised image keeps its thumbnail.
RecordKeepsThumb(i, p, text) ==
  IF ~Readable(i) \/ (text = "failed" /\ rec[i] # None /\ rec[i].policy = p /\ rec[i].text # "failed")
  THEN UNCHANGED <<entry, rec, thumb>>
  ELSE /\ rec' = [rec EXCEPT ![i] = [policy |-> p, text |-> text]]
       /\ entry' = [entry EXCEPT ![i].doc = IF text = "failed" THEN "empty" ELSE text,
                      ![i].level = IF text = "failed" THEN @ ELSE Max(@, Level(p, entry[i].body))]
       /\ UNCHANGED thumb

\* record_text_recognition: the row, the document and the class, while the
\* image may be read; a failure replaces no reading of the same policy.
Record(i, p, text) ==
  IF ~Readable(i) \/ (text = "failed" /\ rec[i] # None /\ rec[i].policy = p /\ rec[i].text # "failed")
  THEN UNCHANGED <<entry, rec, thumb>>
  ELSE LET level == IF text = "failed" THEN 0 ELSE Level(p, entry[i].body)
       IN /\ rec' = [rec EXCEPT ![i] = [policy |-> p, text |-> text]]
          /\ entry' = [entry EXCEPT ![i].doc = IF text = "failed" THEN "empty" ELSE text,
                                    ![i].level = Max(@, level)]
          /\ thumb' = IF level > entry[i].level THEN thumb \ {i} ELSE thumb

Ocr(pc) == ocr.pc = pc

OcrWake ==
  /\ Ocr("idle") /\ ocr' = [ocr EXCEPT !.pc = "clear", !.policy = watch.policy, !.on = watch.imageText]
  /\ UNCHANGED <<settings, entry, index, images, rebuild, sem, ext, kept, used>>

\* The rows another policy shaped, or with the setting off all of them.
Outdated == {i \in Images : rec[i] # None /\ (ocr.on => rec[i].policy # ocr.policy)}

\* What this clearing promises, if the settings have not moved meanwhile.
Promise ==
  IF watch.imageText # ocr.on THEN "any"
  ELSE IF ~watch.imageText THEN "nothing"
  ELSE IF watch.policy = ocr.policy THEN watch.policy ELSE "any"

Cleared ==
  /\ rec' = [i \in Images |-> IF i \in Outdated THEN None ELSE rec[i]]
  /\ entry' = [e \in Entries |->
       IF e \in Outdated /\ entry[e].doc # "none" THEN [entry[e] EXCEPT !.doc = "empty"] ELSE entry[e]]
  /\ kept' = Promise
  /\ ocr' = IF ocr.on THEN [ocr EXCEPT !.pc = "loop"] ELSE OcrIdle

\* Seeded fault: the clearing does not wait for a store under the gate.
ClearUngated ==
  /\ Ocr("clear") /\ Cleared
  /\ UNCHANGED <<settings, index, thumb, drawing, rebuild, sem, ext, used>>

\* The gate's writer: no store is under way.
OcrClear ==
  /\ Ocr("clear") /\ ext.pc # "record" /\ Cleared
  /\ UNCHANGED <<settings, index, thumb, drawing, rebuild, sem, ext, used>>

\* The database fails: a clearing is skipped and the pass goes on, anything
\* else ends it.
OcrFails ==
  /\ ocr.pc \in {"clear", "loop", "record"} /\ (Ocr("clear") => ext.pc # "record") /\ Event
  /\ ocr' = IF Ocr("clear") /\ ocr.on THEN [ocr EXCEPT !.pc = "loop"] ELSE OcrIdle
  /\ UNCHANGED <<settings, entry, index, images, rebuild, sem, ext, kept>>

\* text_recognition_still_current.
StillCurrent == watch.imageText /\ watch.policy = ocr.policy

Unread(i) == Readable(i) /\ (rec[i] # None => rec[i].policy # ocr.policy)

\* One of the pending images is read, and shaped under the pass's policy.
OcrRead ==
  /\ Ocr("loop") /\ StillCurrent
  /\ \E i \in Images :
       /\ Unread(i)
       /\ \/ UNCHANGED used
             /\ ocr' = [ocr EXCEPT !.pc = "check", !.item = i, !.text = Shape(ocr.policy, entry[i].body)]
          \/ Event /\ ocr' = [ocr EXCEPT !.pc = "check", !.item = i, !.text = "failed"]
  /\ UNCHANGED <<settings, entry, index, images, rebuild, sem, ext, kept>>

OcrEnd ==
  /\ Ocr("loop") /\ (~StillCurrent \/ \A i \in Images : ~Unread(i)) /\ ocr' = OcrIdle
  /\ UNCHANGED <<settings, entry, index, images, rebuild, sem, ext, kept, used>>

\* Under the gate the settings are looked at again, then the outcome stored.
OcrCheck ==
  /\ Ocr("check") /\ ocr' = IF StillCurrent THEN [ocr EXCEPT !.pc = "record"] ELSE OcrIdle
  /\ UNCHANGED <<settings, entry, index, images, rebuild, sem, ext, kept, used>>

OcrRecord ==
  /\ Ocr("record") /\ Record(ocr.item, ocr.policy, ocr.text)
  /\ ocr' = [ocr EXCEPT !.pc = "loop", !.item = None, !.text = "none"]
  /\ UNCHANGED <<settings, index, drawing, rebuild, sem, ext, kept, used>>

\* recognize_entry_text: an image not yet read under the present policy.
ExtRead ==
  /\ ext.pc = "idle"
  /\ \E i \in Images :
       /\ Readable(i)
       /\ rec[i] # None => rec[i].policy # watch.policy \/ rec[i].text = "failed"
       /\ ext' = [ext EXCEPT !.pc = "check", !.item = i, !.policy = watch.policy]
  /\ UNCHANGED <<settings, entry, index, images, rebuild, sem, ocr, kept, used>>

\* Under the gate, which a waiting clearing has before it.
ExtCheck ==
  /\ ext.pc = "check" /\ ~Ocr("clear")
  /\ ext' = [ext EXCEPT !.pc = "record", !.store = watch.imageText /\ watch.policy = ext.policy]
  /\ UNCHANGED <<settings, entry, index, images, rebuild, sem, ocr, kept, used>>

\* Stored, or else only masked when its text calls for it.
ExtRecord ==
  /\ ext.pc = "record"
  /\ IF ext.store THEN Record(ext.item, ext.policy, Shape(ext.policy, entry[ext.item].body))
     ELSE /\ UNCHANGED rec
          /\ IF Readable(ext.item) THEN Raised(ext.item, Level(ext.policy, entry[ext.item].body))
             ELSE UNCHANGED <<entry, thumb>>
  /\ ext' = ExtIdle
  /\ UNCHANGED <<settings, index, drawing, rebuild, sem, ocr, kept, used>>

\* The recognizer or the database fails the request.
ExtFails ==
  /\ ext.pc # "idle" /\ Event /\ ext' = ExtIdle
  /\ UNCHANGED <<settings, entry, index, images, rebuild, sem, ocr, kept>>

\* generate_thumbnail: the row is read, the picture reduced, the row looked at
\* again as the thumbnail is put.
Draw(i) ==
  /\ i \notin drawing /\ i \notin thumb /\ Readable(i) /\ drawing' = drawing \cup {i}
  /\ UNCHANGED <<settings, entry, index, rec, thumb, rebuild, workers, kept, used>>

PutThumbnail(i) ==
  /\ i \in drawing /\ drawing' = drawing \ {i}
  /\ thumb' = IF Readable(i) THEN thumb \cup {i} ELSE thumb
  /\ UNCHANGED <<settings, entry, index, rec, rebuild, workers, kept, used>>

-----------------------------------------------------------------------------

SemStep == SemBegin \/ SemReconcile \/ SemRestart \/ SemUnflag \/ SemRead \/ SemRefuse \/ SemStore
OcrStep == OcrWake \/ OcrClear \/ OcrRead \/ OcrEnd \/ OcrCheck \/ OcrRecord
ExtStep == ExtCheck \/ ExtRecord

Next ==
  \/ \E e \in Entries : Capture(e) \/ Recapture(e) \/ Edit(e) \/ Delete(e) \/ Purge(e)
  \/ \E i \in Images : Draw(i) \/ PutThumbnail(i)
  \/ Save \/ Publish \/ RequestRebuild
  \/ SemWake \/ SemStep \/ SemFails \/ OcrStep \/ OcrFails \/ ExtRead \/ ExtStep \/ ExtFails

Spec == Init /\ [][Next]_vars

\* The workers are woken at least by their idle tick; a settings change that
\* waits is picked at some wake of the semantic one, whose select is fair;
\* whoever has begun goes on.
FairSpec ==
  /\ Spec
  /\ WF_vars(Publish) /\ SF_vars(SemWake /\ ~sem'.unseen) /\ WF_vars(SemStep)
  /\ WF_vars(OcrStep) /\ WF_vars(ExtStep)

-----------------------------------------------------------------------------

TypeOK ==
  /\ row \in Settings /\ watch \in Settings /\ saving \in BOOLEAN /\ (~saving => watch = row)
  /\ entry \in [Entries -> [state : {"absent", "live", "deleted", "purged"}, body : Bodies \cup {None},
                            level : 0..2, doc : {"none", "empty", "raw", "redacted"}]]
  /\ vec \in [Entries -> [body : Bodies, text : {"raw", "redacted"}] \cup {None}]
  /\ excl \in [Entries -> Bodies \cup {None}] /\ meta \in Policies \cup {None}
  /\ rec \in [Images -> [policy : Policies, text : {"raw", "redacted", "failed"}] \cup {None}]
  /\ thumb \subseteq Images /\ drawing \subseteq Images /\ rebuild \in BOOLEAN
  /\ kept \in Policies \cup {"any", "nothing"}
  /\ sem.batch \subseteq [of : Entries, row : [body : Bodies, level : 0..1, doc : {"raw", "redacted"}]]
  /\ ocr.item \in Images \cup {None} /\ ext.item \in Images \cup {None}

\* Whatever worker was how far when the rules were edited, an entry replaced
\* or its row purged: what the index holds, the committed rules would have
\* made of what the entry holds now, and no purged entry has left anything
\* (semantic_index.rs embed_and_store, sqlite/settings.rs).
IndexObeysPolicy ==
  /\ meta \in {None, row.policy}
  /\ \A e \in Entries :
       /\ vec[e] # None =>
            /\ meta # None /\ entry[e].state \in {"live", "deleted"} /\ vec[e].body = entry[e].body
            /\ vec[e].text = "raw" => Level(row.policy, vec[e].body) = 0
       /\ excl[e] # None => meta # None /\ Level(row.policy, excl[e]) = 2

\* Recognized text that was erased, because the setting was turned off or the
\* rules were edited, is not written back by a reading that began before, as
\* long as the settings last (text_recognition_gate).
ErasedStaysErased ==
  \A i \in Images :
    /\ kept = "nothing" => rec[i] = None /\ entry[i].doc \notin {"raw", "redacted"}
    /\ kept \in Policies /\ rec[i] # None => rec[i].policy = kept

\* An image is found by the text its row says was read in it and by no other,
\* through later copies, clearings and failed readings; and one whose text was
\* private is masked, with no thumbnail left or put back (sqlite/ocr.rs).
ImagesMatchRecognition ==
  \A i \in Images : Live(i) =>
    /\ entry[i].doc = IF rec[i] = None \/ rec[i].text = "failed" THEN "empty" ELSE rec[i].text
    /\ entry[i].doc = "redacted" => entry[i].level > 0
    /\ entry[i].level > 0 => i \notin thumb

\* What each entry the rules allow is owed: its vector, and no tombstone that
\* hides it for ever.
Indexed(e) ==
  Live(e) /\ entry[e].level < 2 /\ entry[e].doc \in {"raw", "redacted"}
      /\ (e \in Texts \/ entry[e].doc = "raw" => Level(row.policy, entry[e].body) < 2)
    => vec[e] # None

\* What each image is owed: a reading under the present rules, or with the
\* setting off that no recognized text is left.
Settled(i) ==
  IF row.imageText THEN Readable(i) => rec[i] # None /\ rec[i].policy = row.policy
  ELSE rec[i] = None /\ entry[i].doc \notin {"raw", "redacted"}

\* Both workers' backlogs are worked off again and again, so once nothing more
\* happens to the rules and the entries they stay so: no pass given up, no
\* change missed and no failure leaves anything behind
\* (run_semantic_indexer, run_text_recognition_indexer).
BacklogsAreWorkedOff ==
  []<>((row.semantic => \A e \in Entries : Indexed(e)) /\ \A i \in Images : Settled(i))

\* docs/privacy.md: turning image text search off "erases every recognized
\* text from the database and the search index".
ErasedTextIsUnranked == kept = "nothing" => \A i \in Images : vec[i] = None

=============================================================================
