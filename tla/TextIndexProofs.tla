-------------------------- MODULE TextIndexProofs --------------------------
(***************************************************************************)
(* Theorems about what is derived from the history, for any entries,       *)
(* bodies, classifications, and bounds on the events of a behaviour.       *)
(***************************************************************************)
EXTENDS TextIndex, TLAPS

EntryState ==
  [state : {"absent", "live", "deleted", "purged"}, body : Bodies \cup {None}, level : 0..2,
   doc : {"none", "empty", "raw", "redacted"}]
Vectors == [body : Bodies, text : {"raw", "redacted"}]
Readings == [policy : Policies, text : {"raw", "redacted", "failed"}]
Offers == [of : Entries, row : [body : Bodies, level : 0..1, doc : {"raw", "redacted"}]]
SemStates ==
  [pc : {"idle", "begin", "reconcile", "restart", "unflag", "loop", "refuse", "store"},
   policy : Policies \cup {None}, unseen : BOOLEAN, asked : BOOLEAN, batch : SUBSET Offers]
OcrStates ==
  [pc : {"idle", "clear", "loop", "check", "record"}, policy : Policies \cup {None}, on : BOOLEAN,
   item : Images \cup {None}, text : {"none", "raw", "redacted", "failed"}]
ExtStates ==
  [pc : {"idle", "check", "record"}, item : Images \cup {None}, policy : Policies \cup {None}, store : BOOLEAN]

StoreTypes ==
  /\ entry \in [Entries -> EntryState] /\ vec \in [Entries -> Vectors \cup {None}]
  /\ excl \in [Entries -> Bodies \cup {None}] /\ meta \in Policies \cup {None}
  /\ rec \in [Images -> Readings \cup {None}] /\ thumb \subseteq Images /\ drawing \subseteq Images

RuleTypes ==
  /\ row \in Settings /\ watch \in Settings /\ saving \in BOOLEAN /\ (~saving => watch = row)
  /\ rebuild \in BOOLEAN /\ kept \in Policies \cup {"any", "nothing"}

\* A body is there from the capture to the purge, a document while the entry lives,
\* and nothing is recorded of an image that is not there.
Present(e) ==
  /\ entry[e].state \in {"absent", "purged"} => entry[e].body = None
  /\ Live(e) => entry[e].body \in Bodies
  /\ ~Live(e) => entry[e].doc = "none"
  /\ e \in Images /\ rec[e] # None => entry[e].state \in {"live", "deleted"}

\* What the index may hold of e under the committed rules.
Obeys(e) ==
  /\ vec[e] # None =>
       /\ meta # None /\ entry[e].state \in {"live", "deleted"} /\ vec[e].body = entry[e].body
       /\ vec[e].text = "raw" => Level(row.policy, vec[e].body) = 0
  /\ excl[e] # None => meta # None /\ Level(row.policy, excl[e]) = 2

\* What an image's row and document say of each other, and of its mask.
Matches(i) ==
  Live(i) =>
    /\ entry[i].doc = IF rec[i] = None \/ rec[i].text = "failed" THEN "empty" ELSE rec[i].text
    /\ entry[i].doc = "redacted" => entry[i].level > 0
    /\ entry[i].level > 0 => i \notin thumb

\* What the last clearing promised of i.
Erased(i) ==
  /\ kept = "nothing" => rec[i] = None /\ entry[i].doc \notin {"raw", "redacted"}
  /\ kept \in Policies /\ rec[i] # None => rec[i].policy = kept

\* A promise is about the settings that are published.
Promised ==
  /\ kept = "nothing" => ~watch.imageText
  /\ kept \in Policies => watch.imageText /\ watch.policy = kept

\* The offers a pass is about to store have been looked at under its policy.
Assessed ==
  /\ sem \in SemStates
  /\ sem.pc \notin {"idle", "begin"} => sem.policy \in Policies
  /\ sem.pc = "store" => \A b \in sem.batch : Assess(b) # 2

\* A store under the gate either fits the settings published, or no promise stands.
Gated(p) == kept = "any" \/ (watch.imageText /\ watch.policy = p)

\* What the recognition has in hand is what its policy makes of the image's text.
Reads ==
  /\ ocr \in OcrStates
  /\ ocr.pc # "idle" => ocr.policy \in Policies
  /\ ocr.pc \in {"check", "record"} =>
       /\ ocr.item \in Images /\ ocr.text # "none" /\ entry[ocr.item].state # "absent"
       /\ ocr.text # "failed" /\ Live(ocr.item) => ocr.text = Shape(ocr.policy, entry[ocr.item].body)
  /\ ocr.pc = "record" => Gated(ocr.policy)

Extracts ==
  /\ ext \in ExtStates
  /\ ext.pc # "idle" => ext.item \in Images /\ ext.policy \in Policies
  /\ ext.pc = "record" /\ ext.store => Gated(ext.policy)

IInv ==
  /\ StoreTypes /\ RuleTypes
  /\ meta \in {None, row.policy} /\ Promised
  /\ \A e \in Entries : Present(e) /\ Obeys(e)
  /\ \A i \in Images : Matches(i) /\ Erased(i)
  /\ Assessed /\ Reads /\ Extracts

-----------------------------------------------------------------------------
(* The entries and their images. *)

\* Classes are three, and the greater of two is one of them.
LEMMA Levels ==
  /\ \A p, b : Level(p, b) \in 0..2
  /\ \A m, n \in 0..2 : Max(m, n) \in 0..2 /\ Max(m, n) >= m /\ Max(m, n) >= n /\ Max(m, n) \in {m, n}
BY DEF Level, Max

\* A step that moves one entry, with what is derived from it, keeps the invariant if
\* it keeps it for that entry, and the body of an image that was there.
LEMMA EntryStep ==
  ASSUME IInv, NEW e \in Entries, StoreTypes', UNCHANGED <<settings, rebuild, meta, kept, sem>>,
         \A g \in Entries \ {e} : entry'[g] = entry[g] /\ vec'[g] = vec[g] /\ excl'[g] = excl[g],
         \A i \in Images \ {e} : rec'[i] = rec[i] /\ (i \in thumb' => i \in thumb),
         Present(e)', Obeys(e)', e \in Images => Matches(e)' /\ Erased(e)',
         e \in Images /\ Live(e)' /\ entry[e].state # "absent" => Live(e) /\ entry'[e].body = entry[e].body,
         entry[e].state # "absent" => entry'[e].state # "absent",
         ocr' = ocr \/ Reads', ext' = ext \/ Extracts'
  PROVE  IInv'
<1>1. UNCHANGED <<row, watch, saving, rebuild, meta, kept, sem>>
  BY DEF settings
<1>2. RuleTypes' /\ (meta \in {None, row.policy})' /\ Promised' /\ Assessed'
  BY <1>1 DEF IInv, RuleTypes, Promised, Assessed, Assess
<1>3. ASSUME NEW g \in Entries PROVE Present(g)' /\ Obeys(g)'
  <2>1. CASE g = e
    BY <2>1
  <2>2. CASE g # e
    <3>1. entry'[g] = entry[g] /\ vec'[g] = vec[g] /\ excl'[g] = excl[g] /\ (g \in Images => rec'[g] = rec[g])
      BY <2>2
    <3> QED
      BY <1>1, <3>1 DEF IInv, Present, Obeys, Live
  <2> QED
    BY <2>1, <2>2
<1>4. ASSUME NEW i \in Images PROVE Matches(i)' /\ Erased(i)'
  <2>1. CASE i = e
    BY <2>1
  <2>2. CASE i # e
    <3>1. entry'[i] = entry[i] /\ rec'[i] = rec[i] /\ (i \in thumb' => i \in thumb)
      BY <2>2 DEF Entries
    <3> QED
      BY <1>1, <3>1 DEF IInv, Matches, Erased, Live
  <2> QED
    BY <2>1, <2>2
<1>5. Reads'
  <2>1. CASE ocr' = ocr
    <3>1. ASSUME ocr.pc \in {"check", "record"}
          PROVE  /\ entry'[ocr.item].state # "absent"
                 /\ Live(ocr.item)' => Live(ocr.item) /\ entry'[ocr.item].body = entry[ocr.item].body
      <4>1. ocr.item \in Images /\ ocr.item \in Entries /\ entry[ocr.item].state # "absent"
        BY <3>1 DEF IInv, Reads, Entries
      <4>2. CASE ocr.item = e
        BY <2>1, <4>1, <4>2 DEF Live
      <4>3. CASE ocr.item # e
        <5>1. entry'[ocr.item] = entry[ocr.item]
          BY <4>1, <4>3
        <5> QED
          BY <2>1, <4>1, <5>1 DEF Live
      <4> QED
        BY <4>2, <4>3
    <3> QED
      BY <1>1, <2>1, <3>1 DEF IInv, Reads, Gated
  <2> QED
    BY <2>1
<1>6. Extracts'
  BY <1>1 DEF IInv, Extracts, Gated
<1> QED
  BY <1>2, <1>3, <1>4, <1>5, <1>6 DEF IInv

\* What a classifier offers, and what is known of an entry.
LEMMA EntryKnown ==
  ASSUME IInv, NEW e \in Entries
  PROVE  /\ entry[e] \in EntryState /\ Present(e) /\ Obeys(e)
         /\ e \in Images => Matches(e) /\ Erased(e)
         /\ Level(watch.policy, entry[e].body) \in 0..2
BY Levels DEF IInv, StoreTypes

\* A first copy brings nothing derived with it.
LEMMA CaptureKeeps == ASSUME IInv, NEW e \in Entries, Capture(e) PROVE IInv'
<1>1. /\ entry[e].state = "absent" /\ UNCHANGED <<settings, index, images, rebuild, workers, kept>>
      /\ entry[e] \in EntryState /\ Present(e) /\ Obeys(e)
  BY EntryKnown DEF Capture
<1>2. PICK b \in Bodies :
        /\ e \in Texts => Level(watch.policy, b) < 2
        /\ entry' = [entry EXCEPT ![e] =
             [state |-> "live", body |-> b,
              level |-> IF e \in Texts THEN Level(watch.policy, b) ELSE 0,
              doc |-> IF e \in Texts THEN "raw" ELSE "empty"]]
  BY DEF Capture
<1>3. /\ entry'[e].state = "live" /\ entry'[e].body = b /\ entry'[e] \in EntryState
      /\ e \in Images => entry'[e].level = 0 /\ entry'[e].doc = "empty"
      /\ \A g \in Entries \ {e} : entry'[g] = entry[g]
  BY <1>2, Levels, TextIndexAssumption DEF IInv, StoreTypes, EntryState
<1>4. entry' = [entry EXCEPT ![e] = entry'[e]]
  BY <1>2, <1>3 DEF IInv, StoreTypes
<1>5. StoreTypes'
  BY <1>1, <1>3, <1>4 DEF IInv, StoreTypes, index, images
<1>6. vec[e] = None /\ excl[e] = excl'[e] /\ vec'[e] = None /\ (e \in Images => rec[e] = None /\ rec'[e] = None)
  BY <1>1 DEF Present, Obeys, index, images
<1>7. Present(e)' /\ Obeys(e)'
  BY <1>1, <1>3, <1>6 DEF Present, Obeys, Live, settings, index
<1>8. e \in Images => Matches(e)' /\ Erased(e)'
  BY <1>1, <1>3, <1>6 DEF Matches, Erased, Live
<1> QED
  BY <1>1, <1>3, <1>5, <1>7, <1>8, EntryStep DEF index, images, workers

\* A later copy raises the class and leaves the body; an image keeps its document.
LEMMA RecaptureKeeps == ASSUME IInv, NEW e \in Entries, Recapture(e) PROVE IInv'
<1>1. /\ Live(e) /\ UNCHANGED <<settings, index, images, rebuild, workers, kept>>
      /\ entry[e] \in EntryState /\ Present(e) /\ Obeys(e)
      /\ e \in Images => Matches(e) /\ Erased(e)
  BY EntryKnown DEF Recapture
<1> DEFINE doc == IF Again(e) < entry[e].level \/ (Again(e) = entry[e].level /\ Again(e) = 0) THEN entry[e].doc
                  ELSE IF e \in Texts THEN "raw" ELSE "empty"
<1>2. /\ Again(e) \in 0..2 /\ Max(entry[e].level, Again(e)) \in 0..2
      /\ e \in Images => Again(e) = 0 /\ Max(entry[e].level, Again(e)) = entry[e].level
  BY <1>1, Levels, TextIndexAssumption DEF Again, EntryState, Max
<1>3. doc \in {"none", "empty", "raw", "redacted"} /\ (e \in Images => doc = entry[e].doc)
  BY <1>1, <1>2 DEF EntryState
<1>4. entry' = [entry EXCEPT ![e].level = Max(@, Again(e)), ![e].doc = doc]
  BY DEF Recapture
<1> HIDE DEF doc
<1>5. /\ entry'[e] = [entry[e] EXCEPT !.level = Max(@, Again(e)), !.doc = doc]
      /\ \A g \in Entries \ {e} : entry'[g] = entry[g]
      /\ entry' = [entry EXCEPT ![e] = entry'[e]]
  BY <1>4 DEF IInv, StoreTypes
<1>6. /\ entry'[e] \in EntryState /\ entry'[e].state = "live" /\ entry'[e].body = entry[e].body
      /\ e \in Images => entry'[e].level = entry[e].level /\ entry'[e].doc = entry[e].doc
  BY <1>1, <1>2, <1>3, <1>5 DEF EntryState, Live
<1>7. StoreTypes'
  BY <1>1, <1>5, <1>6 DEF IInv, StoreTypes, index, images
<1>8. Present(e)' /\ Obeys(e)'
  BY <1>1, <1>6 DEF Present, Obeys, Live, settings, index, images
<1>9. e \in Images => Matches(e)' /\ Erased(e)'
  BY <1>1, <1>6 DEF Matches, Erased, Live, images
<1> QED
  BY <1>1, <1>5, <1>6, <1>7, <1>8, <1>9, EntryStep DEF index, images, workers, Live

\* What was made of the old body goes with it.
LEMMA EditKeeps == ASSUME IInv, NEW e \in Entries, Edit(e) PROVE IInv'
<1>1. /\ e \in Texts /\ e \notin Images /\ Live(e) /\ UNCHANGED <<settings, excl, meta, images, rebuild, workers, kept>>
      /\ vec' = [vec EXCEPT ![e] = None]
      /\ entry[e] \in EntryState /\ Present(e) /\ Obeys(e)
  BY EntryKnown, TextIndexAssumption DEF Edit
<1>2. PICK b \in Bodies :
        entry' = [entry EXCEPT ![e].body = b, ![e].level = Level(row.policy, b), ![e].doc = "raw"]
  BY DEF Edit
<1>3. /\ entry'[e] = [entry[e] EXCEPT !.body = b, !.level = Level(row.policy, b), !.doc = "raw"]
      /\ \A g \in Entries \ {e} : entry'[g] = entry[g]
      /\ entry' = [entry EXCEPT ![e] = entry'[e]]
  BY <1>2 DEF IInv, StoreTypes
<1>4. Level(row.policy, b) \in 0..2
  BY Levels
<1>5. entry'[e] \in EntryState /\ entry'[e].state = "live" /\ entry'[e].body = b
  BY <1>1, <1>3, <1>4 DEF EntryState, Live
<1>6. StoreTypes' /\ vec'[e] = None
  BY <1>1, <1>3, <1>5 DEF IInv, StoreTypes, images
<1>7. Present(e)' /\ Obeys(e)'
  BY <1>1, <1>5, <1>6 DEF Present, Obeys, Live, settings
<1>8. \A g \in Entries \ {e} : vec'[g] = vec[g] /\ excl'[g] = excl[g]
  BY <1>1 DEF IInv, StoreTypes
<1> QED
  BY <1>1, <1>3, <1>5, <1>6, <1>7, <1>8, EntryStep DEF images, workers

\* Nothing derived outlives its row.
LEMMA PurgedKeeps ==
  ASSUME IInv, NEW e \in Entries, entry' = [entry EXCEPT ![e] = Purged], Cascade(e),
         UNCHANGED <<settings, rebuild, workers, kept>>
  PROVE  IInv'
<1>1. /\ entry'[e] = Purged /\ \A g \in Entries \ {e} : entry'[g] = entry[g]
      /\ Purged \in EntryState /\ Purged.state = "purged" /\ Purged.body = None /\ Purged.doc = "none"
  BY DEF IInv, StoreTypes, Purged, Absent, EntryState
<1>2. /\ vec'[e] = None /\ excl'[e] = None /\ meta' = meta
      /\ \A g \in Entries \ {e} : vec'[g] = vec[g] /\ excl'[g] = excl[g]
      /\ \A i \in Images : rec'[i] = IF i = e THEN None ELSE rec[i]
      /\ \A i \in Images \ {e} : rec'[i] = rec[i] /\ (i \in thumb' => i \in thumb)
  BY DEF Cascade, IInv, StoreTypes
<1>3. StoreTypes'
  BY <1>1 DEF Cascade, IInv, StoreTypes
<1>4. Present(e)' /\ Obeys(e)'
  BY <1>1, <1>2 DEF Present, Obeys, Live
<1>5. e \in Images => Matches(e)' /\ Erased(e)'
  BY <1>1, <1>2 DEF Matches, Erased, Live
<1> QED
  BY <1>1, <1>2, <1>3, <1>4, <1>5, EntryStep DEF workers, Live

\* An entry goes, at once or with the next sweep.
LEMMA DeleteKeeps == ASSUME IInv, NEW e \in Entries, Delete(e) \/ Purge(e) PROVE IInv'
<1>1. UNCHANGED <<settings, rebuild, workers, kept>>
  BY DEF Delete, Purge
<1>2. CASE entry' = [entry EXCEPT ![e] = Purged] /\ Cascade(e)
  BY <1>1, <1>2, PurgedKeeps
<1>3. CASE Live(e) /\ entry' = [entry EXCEPT ![e].state = "deleted", ![e].doc = "none"] /\ UNCHANGED <<index, images>>
  <2>1. entry[e] \in EntryState /\ Present(e) /\ Obeys(e) /\ (e \in Images => Erased(e))
    BY EntryKnown
  <2>2. /\ entry'[e] = [entry[e] EXCEPT !.state = "deleted", !.doc = "none"]
        /\ \A g \in Entries \ {e} : entry'[g] = entry[g]
        /\ entry' = [entry EXCEPT ![e] = entry'[e]]
    BY <1>3 DEF IInv, StoreTypes
  <2>3. /\ entry'[e] \in EntryState /\ entry'[e].state = "deleted" /\ entry'[e].doc = "none"
        /\ entry'[e].body = entry[e].body
    BY <2>1, <2>2 DEF EntryState
  <2>4. StoreTypes'
    BY <1>3, <2>2, <2>3 DEF IInv, StoreTypes, index, images
  <2>5. Present(e)' /\ Obeys(e)'
    BY <1>1, <1>3, <2>1, <2>3 DEF Present, Obeys, Live, settings, index, images
  <2>6. e \in Images => Matches(e)' /\ Erased(e)'
    BY <1>1, <1>3, <2>1, <2>3 DEF Matches, Erased, Live, images
  <2> QED
    BY <1>1, <1>3, <2>2, <2>3, <2>4, <2>5, <2>6, EntryStep DEF workers, index, images, Live
<1> QED
  BY <1>2, <1>3 DEF Delete, Purge

-----------------------------------------------------------------------------
(* The settings and the semantic index. *)

\* A step that moves only the workers keeps it, if it keeps what they go by.
LEMMA WorkersStep ==
  ASSUME IInv, UNCHANGED <<settings, entry, index, rec, thumb, kept>>, drawing' \subseteq Images,
         rebuild' \in BOOLEAN, Assessed', ocr' = ocr \/ Reads', ext' = ext \/ Extracts'
  PROVE  IInv'
<1>1. UNCHANGED <<row, watch, saving, vec, excl, meta>>
  BY DEF settings, index
<1>2. StoreTypes' /\ RuleTypes' /\ (meta \in {None, row.policy})' /\ Promised'
  BY <1>1 DEF IInv, StoreTypes, RuleTypes, Promised
<1>3. ASSUME NEW e \in Entries PROVE Present(e)' /\ Obeys(e)'
  BY <1>1 DEF IInv, Present, Obeys, Live
<1>4. ASSUME NEW i \in Images PROVE Matches(i)' /\ Erased(i)'
  BY <1>1 DEF IInv, Matches, Erased, Live
<1>5. Reads' /\ Extracts'
  BY <1>1 DEF IInv, Reads, Extracts, Gated, Live
<1> QED
  BY <1>2, <1>3, <1>4, <1>5 DEF IInv

\* A step that moves the index and its worker keeps it, if the index still obeys.
LEMMA IndexStep ==
  ASSUME IInv, UNCHANGED <<settings, entry, images, rebuild, ocr, ext, kept>>,
         vec' \in [Entries -> Vectors \cup {None}], excl' \in [Entries -> Bodies \cup {None}],
         meta' \in {None, row.policy}, \A e \in Entries : Obeys(e)', Assessed'
  PROVE  IInv'
<1>1. UNCHANGED <<row, watch, saving, rec, thumb, drawing>>
  BY DEF settings, images
<1>2. meta' \in Policies \cup {None}
  BY DEF IInv, RuleTypes, Settings
<1>3. StoreTypes' /\ RuleTypes' /\ (meta \in {None, row.policy})' /\ Promised'
  BY <1>1, <1>2 DEF IInv, StoreTypes, RuleTypes, Promised
<1>4. ASSUME NEW e \in Entries PROVE Present(e)'
  BY <1>1 DEF IInv, Present, Live
<1>5. ASSUME NEW i \in Images PROVE Matches(i)' /\ Erased(i)'
  BY <1>1 DEF IInv, Matches, Erased, Live
<1>6. Reads' /\ Extracts'
  BY <1>1 DEF IInv, Reads, Extracts, Gated, Live
<1> QED
  BY <1>3, <1>4, <1>5, <1>6 DEF IInv

\* An index that is erased obeys any rules.
LEMMA Erasing ==
  ASSUME Erase
  PROVE  /\ vec' \in [Entries -> Vectors \cup {None}] /\ excl' \in [Entries -> Bodies \cup {None}]
         /\ \A e \in Entries : Obeys(e)'
BY DEF Erase, Obeys

\* The rules are committed, and with others the index they made is gone.
LEMMA SaveKeeps == ASSUME IInv, Save PROVE IInv'
<1>1. PICK f \in {"policy", "semantic", "imageText"} :
        row' = Changed(f) /\ IF f = "policy" THEN Erase /\ meta' = None ELSE UNCHANGED index
  BY DEF Save
<1>2. saving' = TRUE /\ UNCHANGED <<watch, entry, images, rebuild, workers, kept>>
  BY DEF Save
<1>3. row \in Settings
  BY DEF IInv, RuleTypes
<1>4. (CHOOSE p \in Policies : p # row.policy) \in Policies
  <2>1. \E p \in Policies : p # row.policy
    BY DEF Policies
  <2> QED
    BY <2>1
<1>5. row' \in Settings /\ (f # "policy" => row'.policy = row.policy)
  BY <1>1, <1>3, <1>4 DEF Changed, Settings
<1>6. RuleTypes' /\ Promised'
  BY <1>2, <1>5 DEF IInv, RuleTypes, Promised
<1>7. StoreTypes' /\ (meta \in {None, row.policy})'
  BY <1>1, <1>2, <1>5, Erasing DEF IInv, StoreTypes, index, images
<1>8. ASSUME NEW e \in Entries PROVE Present(e)'
  BY <1>2 DEF IInv, Present, Live, images
<1>9. ASSUME NEW e \in Entries PROVE Obeys(e)'
  BY <1>1, <1>2, <1>5, Erasing DEF IInv, Obeys, index
<1>10. ASSUME NEW i \in Images PROVE Matches(i)' /\ Erased(i)'
  BY <1>2 DEF IInv, Matches, Erased, Live, images
<1>11. Assessed' /\ Reads' /\ Extracts'
  BY <1>2 DEF IInv, Assessed, Assess, Reads, Extracts, Gated, Live, workers
<1> QED
  BY <1>6, <1>7, <1>8, <1>9, <1>10, <1>11 DEF IInv

\* They are published: a promise outlives only what it was not about.
LEMMA PublishKeeps == ASSUME IInv, Publish PROVE IInv'
<1>1. /\ saving' = FALSE /\ watch' = row /\ UNCHANGED <<row, entry, index, images, rebuild, ocr, ext>>
      /\ sem' = [sem EXCEPT !.unseen = TRUE]
      /\ kept' \in {kept, "any"}
      /\ kept' # "any" => row.policy = watch.policy /\ row.imageText = watch.imageText
  BY DEF Publish
<1>2. "any" \notin Policies /\ "any" # "nothing"
  BY DEF Policies
<1>3. RuleTypes' /\ Promised'
  BY <1>1, <1>2 DEF IInv, RuleTypes, Promised
<1>4. StoreTypes' /\ (meta \in {None, row.policy})'
  BY <1>1 DEF IInv, StoreTypes, index, images
<1>5. ASSUME NEW e \in Entries PROVE Present(e)' /\ Obeys(e)'
  BY <1>1 DEF IInv, Present, Obeys, Live, index, images
<1>6. ASSUME NEW i \in Images PROVE Matches(i)' /\ Erased(i)'
  BY <1>1, <1>2 DEF IInv, Matches, Erased, Live, images
<1>7. Assessed'
  <2>1. /\ sem' \in SemStates /\ sem'.pc = sem.pc /\ sem'.policy = sem.policy /\ sem'.batch = sem.batch
    BY <1>1 DEF IInv, Assessed, SemStates
  <2> QED
    BY <2>1 DEF IInv, Assessed, Assess
<1>8. Reads' /\ Extracts'
  BY <1>1 DEF IInv, Reads, Extracts, Gated, Live
<1> QED
  BY <1>3, <1>4, <1>5, <1>6, <1>7, <1>8 DEF IInv

\* The pass is over, or goes on with what it has.
LEMMA SemMoves ==
  ASSUME Assessed, sem' = SemIdle(sem.unseen) \/ (\E l \in {"restart", "unflag", "loop"} : SemGoto(l)
                          /\ sem.pc \notin {"idle", "begin"})
  PROVE  Assessed'
<1>1. CASE sem' = SemIdle(sem.unseen)
  BY <1>1 DEF SemIdle, Assessed, SemStates
<1>2. ASSUME NEW l \in {"restart", "unflag", "loop"}, SemGoto(l), sem.pc \notin {"idle", "begin"} PROVE Assessed'
  <2>1. sem' \in SemStates /\ sem'.pc = l /\ sem'.policy = sem.policy
    BY <1>2 DEF SemGoto, Assessed, SemStates
  <2> QED
    BY <1>2, <2>1 DEF Assessed
<1> QED
  BY <1>1, <1>2

\* The steps of a pass that leave the index alone.
LEMMA SemKeeps ==
  ASSUME IInv, SemWake \/ SemReconcile \/ SemUnflag \/ SemRead \/ SemFails \/ RequestRebuild PROVE IInv'
<1>1. /\ UNCHANGED <<settings, entry, index, images, ocr, ext, kept>> /\ rebuild' \in BOOLEAN /\ Assessed
  BY DEF SemWake, SemReconcile, SemUnflag, SemRead, SemFails, RequestRebuild, IInv, RuleTypes, workers
<1>2. Assessed'
  <2>1. CASE SemWake
    <3>1. PICK seen \in {FALSE, sem.unseen} : sem' = [sem EXCEPT !.pc = "begin", !.unseen = seen]
      BY <2>1 DEF SemWake
    <3>2. sem' \in SemStates /\ sem'.pc = "begin"
      BY <1>1, <3>1 DEF Assessed, SemStates
    <3> QED
      BY <3>2 DEF Assessed
  <2>2. CASE SemReconcile
    <3>1. /\ sem' \in SemStates /\ sem'.pc \in {"restart", "loop"} /\ sem'.policy = sem.policy
          /\ sem.pc = "reconcile"
      BY <1>1, <2>2 DEF SemReconcile, Sem, Assessed, SemStates, IInv, RuleTypes
    <3> QED
      BY <1>1, <3>1 DEF Assessed
  <2>3. CASE SemUnflag
    BY <1>1, <2>3, SemMoves DEF SemUnflag, Sem
  <2>4. CASE SemRead
    <3>1. CASE SemEnd
      BY <1>1, <3>1, SemMoves DEF SemEnd
    <3>2. CASE sem' = [sem EXCEPT !.pc = "refuse",
               !.batch = {[of |-> e, row |-> [body |-> entry[e].body, level |-> entry[e].level, doc |-> entry[e].doc]]
                            : e \in {g \in Entries : Pending(g)}}]
      <4> DEFINE B == {[of |-> e, row |-> [body |-> entry[e].body, level |-> entry[e].level, doc |-> entry[e].doc]]
                            : e \in {g \in Entries : Pending(g)}}
      <4>1. ASSUME NEW e \in Entries, Pending(e)
            PROVE  [of |-> e, row |-> [body |-> entry[e].body, level |-> entry[e].level, doc |-> entry[e].doc]]
                     \in Offers
        <5>1. entry[e] \in EntryState /\ Present(e) /\ Live(e) /\ entry[e].level < 2
              /\ entry[e].doc \in {"raw", "redacted"}
          BY <4>1, EntryKnown DEF Pending
        <5>2. entry[e].body \in Bodies /\ entry[e].level \in 0..1
          BY <5>1 DEF Present, EntryState
        <5> QED
          BY <5>1, <5>2 DEF Offers
      <4>2. B \subseteq Offers
        BY <4>1
      <4>3. sem' = [sem EXCEPT !.pc = "refuse", !.batch = B] /\ sem.pc = "loop"
        BY <2>4, <3>2 DEF SemRead, Sem
      <4> HIDE DEF B
      <4>4. sem' \in SemStates /\ sem'.pc = "refuse" /\ sem'.policy = sem.policy
        BY <1>1, <4>2, <4>3 DEF Assessed, SemStates
      <4> QED
        BY <1>1, <4>3, <4>4 DEF Assessed
    <3> QED
      BY <2>4, <3>1, <3>2 DEF SemRead
  <2>5. CASE SemFails
    <3>1. CASE SemEnd
      BY <1>1, <3>1, SemMoves DEF SemEnd
    <3>2. CASE Sem("store") /\ sem' = [sem EXCEPT !.pc = "loop", !.batch = {}]
      <4>1. sem' \in SemStates /\ sem'.pc = "loop" /\ sem'.policy = sem.policy
        BY <1>1, <3>2 DEF Assessed, SemStates
      <4> QED
        BY <1>1, <3>2, <4>1 DEF Assessed, Sem
    <3> QED
      BY <2>5, <3>1, <3>2 DEF SemFails
  <2>6. CASE RequestRebuild
    BY <1>1, <2>6 DEF RequestRebuild, workers, Assessed, Assess
  <2> QED
    BY <2>1, <2>2, <2>3, <2>4, <2>5, <2>6
<1>3. drawing' \subseteq Images
  BY <1>1 DEF images, IInv, StoreTypes
<1> QED
  BY <1>1, <1>2, <1>3, WorkersStep DEF images

\* An index of other rules goes, and one of the committed rules is begun.
LEMMA SemBeginsIndex == ASSUME IInv, SemBegin \/ SemRestart PROVE IInv'
<1>1. /\ UNCHANGED <<settings, entry, images, rebuild, ocr, ext, kept>> /\ Assessed
      /\ vec \in [Entries -> Vectors \cup {None}] /\ excl \in [Entries -> Bodies \cup {None}]
      /\ meta \in {None, row.policy} /\ \A e \in Entries : Obeys(e)
      /\ watch \in Settings
  BY DEF SemBegin, SemRestart, IInv, StoreTypes, RuleTypes
<1>2. Assessed'
  <2>1. CASE SemBegin /\ sem' = [sem EXCEPT !.pc = "reconcile", !.policy = watch.policy]
    <3>1. watch.policy \in Policies
      BY <1>1 DEF Settings
    <3>2. sem' \in SemStates /\ sem'.pc = "reconcile" /\ sem'.policy = watch.policy
      BY <1>1, <2>1, <3>1 DEF Assessed, SemStates
    <3> QED
      BY <3>1, <3>2 DEF Assessed
  <2>2. CASE SemEnd
    BY <1>1, <2>2, SemMoves DEF SemEnd
  <2>3. CASE SemRestart /\ SemGoto(IF sem.asked THEN "unflag" ELSE "loop")
    BY <1>1, <2>3, SemMoves DEF SemRestart, Sem
  <2> QED
    BY <2>1, <2>2, <2>3 DEF SemBegin, SemRestart
<1>3. CASE UNCHANGED index
  <2>1. \A e \in Entries : Obeys(e)'
    BY <1>1, <1>3 DEF Obeys, Live, settings, index
  <2> QED
    BY <1>1, <1>2, <1>3, <2>1, IndexStep DEF index
<1>4. CASE Erase /\ meta' \in {None, row.policy}
  BY <1>1, <1>2, <1>4, Erasing, IndexStep
<1> QED
  BY <1>3, <1>4 DEF SemBegin, SemRestart

\* What a pass makes of an offer, by its policy.
LEMMA Assessments ==
  ASSUME Assessed, NEW b \in Offers
  PROVE  /\ Assess(b) = 2 => Level(sem.policy, b.row.body) = 2
         /\ Assess(b) # 2 /\ Input(b) = "raw" => Level(sem.policy, b.row.body) = 0
         /\ Input(b) \in {"raw", "redacted"}
<1>1. /\ b.row.level \in 0..1 /\ b.row.doc \in {"raw", "redacted"}
      /\ Level(sem.policy, b.row.body) \in 0..2
  BY Levels DEF Offers
<1> QED
  BY <1>1 DEF Assess, Input, Max

\* A tombstone is of a body the committed rules call secret.
LEMMA SemRefuseKeeps == ASSUME IInv, SemRefuse PROVE IInv'
<1>1. /\ UNCHANGED <<settings, entry, images, rebuild, ocr, ext, kept>> /\ Assessed /\ Sem("refuse")
      /\ vec \in [Entries -> Vectors \cup {None}] /\ excl \in [Entries -> Bodies \cup {None}]
      /\ meta \in {None, row.policy} /\ \A e \in Entries : Obeys(e)
      /\ sem.batch \subseteq Offers /\ sem.policy \in Policies
  BY DEF SemRefuse, IInv, StoreTypes, Assessed, SemStates, Sem
<1>2. CASE SemEnd /\ UNCHANGED index
  <2>1. Assessed'
    BY <1>1, <1>2, SemMoves DEF SemEnd
  <2>2. \A e \in Entries : Obeys(e)'
    BY <1>1, <1>2 DEF Obeys, Live, settings, index
  <2> QED
    BY <1>1, <1>2, <2>1, <2>2, IndexStep DEF index
<1>3. CASE /\ Refused # {} => meta = sem.policy
           /\ excl' = [e \in Entries |->
               IF \E b \in Refused : b.of = e THEN (CHOOSE b \in Refused : b.of = e).row.body ELSE excl[e]]
           /\ vec' = [e \in Entries |-> IF \E b \in Refused : b.of = e THEN None ELSE vec[e]]
           /\ sem' = IF Accepted = {} THEN [sem EXCEPT !.pc = "loop", !.batch = {}]
                      ELSE [sem EXCEPT !.pc = "store", !.batch = Accepted]
           /\ UNCHANGED meta
  <2>1. Refused \subseteq Offers /\ Accepted \subseteq Offers /\ \A b \in Accepted : Assess(b) # 2
    BY <1>1 DEF Refused, Accepted
  <2>2. ASSUME NEW e \in Entries, \E b \in Refused : b.of = e
        PROVE  /\ excl'[e] \in Bodies /\ Level(row.policy, excl'[e]) = 2 /\ meta # None /\ vec'[e] = None
    <3> DEFINE c == CHOOSE b \in Refused : b.of = e
    <3>1. c \in Refused
      BY <2>2
    <3>2. excl'[e] = c.row.body /\ vec'[e] = None
      BY <1>3, <2>2
    <3> HIDE DEF c
    <3>3. c \in Offers /\ Assess(c) = 2
      BY <2>1, <3>1 DEF Refused
    <3>4. meta = sem.policy /\ meta # None /\ row.policy = sem.policy
      BY <1>1, <1>3, <3>1, TextIndexAssumption DEF Policies
    <3>5. Level(sem.policy, c.row.body) = 2
      <4>1. PICK d \in Offers : d = c
        BY <3>3
      <4> QED
        BY <1>1, <3>3, <4>1, Assessments
    <3> QED
      BY <3>2, <3>3, <3>4, <3>5 DEF Offers
  <2>3. ASSUME NEW e \in Entries, ~\E b \in Refused : b.of = e PROVE excl'[e] = excl[e] /\ vec'[e] = vec[e]
    BY <1>3, <2>3
  <2>4. vec' \in [Entries -> Vectors \cup {None}]
    BY <1>1, <1>3
  <2>5. excl' \in [Entries -> Bodies \cup {None}]
    <3>1. \A e \in Entries : excl'[e] \in Bodies \cup {None}
      BY <1>1, <2>2, <2>3
    <3> QED
      BY <1>3, <3>1
  <2>6. ASSUME NEW e \in Entries PROVE Obeys(e)'
    <3>1. row' = row /\ entry' = entry /\ meta' = meta
      BY <1>1, <1>3 DEF settings
    <3>2. CASE \E b \in Refused : b.of = e
      BY <2>2, <3>1, <3>2 DEF Obeys
    <3>3. CASE ~\E b \in Refused : b.of = e
      BY <1>1, <2>3, <3>1, <3>3 DEF Obeys, Live
    <3> QED
      BY <3>2, <3>3
  <2>7. Assessed'
    <3>1. /\ sem' \in SemStates /\ sem'.policy = sem.policy /\ sem'.pc \in {"loop", "store"}
          /\ sem'.pc = "store" => sem'.batch = Accepted
      BY <1>1, <1>3, <2>1 DEF Assessed, SemStates
    <3>2. ASSUME NEW b \in Accepted PROVE b \in Offers /\ Assess(b)' = Assess(b)
      BY <2>1, <3>1 DEF Assess
    <3> QED
      BY <1>1, <2>1, <3>1, <3>2 DEF Assessed
  <2> QED
    BY <1>1, <1>3, <2>4, <2>5, <2>6, <2>7, IndexStep
<1> QED
  BY <1>2, <1>3 DEF SemRefuse

\* A vector is of what the entry holds still, made as the committed rules have it.
LEMMA SemStoreKeeps == ASSUME IInv, SemStore PROVE IInv'
<1>1. /\ UNCHANGED <<settings, entry, images, rebuild, ocr, ext, kept>> /\ Assessed /\ Sem("store")
      /\ vec \in [Entries -> Vectors \cup {None}] /\ excl \in [Entries -> Bodies \cup {None}]
      /\ meta \in {None, row.policy} /\ \A e \in Entries : Obeys(e) /\ Present(e) /\ entry[e] \in EntryState
      /\ sem.batch \subseteq Offers /\ sem.policy \in Policies /\ \A b \in sem.batch : Assess(b) # 2
  BY DEF SemStore, IInv, StoreTypes, Assessed, SemStates, Sem
<1>2. CASE SemEnd /\ UNCHANGED index
  <2>1. Assessed'
    BY <1>1, <1>2, SemMoves DEF SemEnd
  <2>2. \A e \in Entries : Obeys(e)'
    BY <1>1, <1>2 DEF Obeys, Live, settings, index
  <2> QED
    BY <1>1, <1>2, <2>1, <2>2, IndexStep DEF index
<1>3. CASE meta = sem.policy /\ Upsert /\ UNCHANGED <<excl, meta>> /\ sem' = [sem EXCEPT !.pc = "loop", !.batch = {}]
  <2>1. meta # None /\ row.policy = sem.policy /\ row' = row /\ entry' = entry
    BY <1>1, <1>3, TextIndexAssumption DEF Policies, settings
  <2> DEFINE fits(e) == {b \in sem.batch : b.of = e /\ b.row.body = entry[e].body}
             made(b) == [body |-> b.row.body, text |-> Input(b)]
  <2>2. vec' = [e \in Entries |-> IF fits(e) = {} THEN vec[e] ELSE made(CHOOSE b \in fits(e) : TRUE)]
    BY <1>3 DEF Upsert
  <2>3. ASSUME NEW e \in Entries, fits(e) # {}
        PROVE  /\ vec'[e] \in Vectors /\ entry[e].state \in {"live", "deleted"}
               /\ vec'[e].body = entry[e].body
               /\ vec'[e].text = "raw" => Level(row.policy, vec'[e].body) = 0
    <3>1. PICK c \in fits(e) : vec'[e] = made(c)
      BY <2>2, <2>3
    <3>2. c \in Offers /\ Assess(c) # 2 /\ c.row.body = entry[e].body
      BY <1>1, <3>1
    <3>3. PICK d \in Offers : d = c
      BY <3>2
    <3>4. /\ Input(d) \in {"raw", "redacted"}
          /\ Input(d) = "raw" => Level(sem.policy, d.row.body) = 0
      BY <1>1, <3>2, <3>3, Assessments
    <3>5. vec'[e] = [body |-> d.row.body, text |-> Input(d)] /\ d.row.body = entry[e].body /\ d.row.body \in Bodies
      BY <3>1, <3>2, <3>3 DEF Offers
    <3>6. entry[e].state \in {"live", "deleted"}
      <4>1. entry[e].body # None
        BY <3>5, TextIndexAssumption
      <4> QED
        BY <1>1, <4>1 DEF Present, EntryState
    <3> QED
      BY <2>1, <3>4, <3>5, <3>6 DEF Vectors
  <2>4. ASSUME NEW e \in Entries, fits(e) = {} PROVE vec'[e] = vec[e]
    BY <2>2, <2>4
  <2> HIDE DEF fits, made
  <2>5. vec' \in [Entries -> Vectors \cup {None}]
    <3>1. \A e \in Entries : vec'[e] \in Vectors \cup {None}
      BY <1>1, <2>3, <2>4
    <3> QED
      BY <2>2, <3>1
  <2>6. ASSUME NEW e \in Entries PROVE Obeys(e)'
    <3>1. Obeys(e) /\ excl' = excl /\ meta' = meta
      BY <1>1, <1>3
    <3>2. CASE fits(e) # {}
      BY <2>1, <2>3, <3>1, <3>2 DEF Obeys
    <3>3. CASE fits(e) = {}
      BY <2>1, <2>4, <3>1, <3>3 DEF Obeys
    <3> QED
      BY <3>2, <3>3
  <2>7. Assessed'
    <3>1. sem' \in SemStates /\ sem'.policy = sem.policy /\ sem'.pc = "loop"
      BY <1>1, <1>3 DEF Assessed, SemStates
    <3> QED
      BY <1>1, <3>1 DEF Assessed
  <2> QED
    BY <1>1, <1>3, <2>5, <2>6, <2>7, IndexStep
<1> QED
  BY <1>2, <1>3 DEF SemStore

-----------------------------------------------------------------------------
(* The text read in images, and their thumbnails. *)

\* An outcome stored under the gate fits the row, the mask and the promise.
LEMMA RecordKeeps ==
  ASSUME IInv, NEW i \in Images, NEW p \in Policies, NEW text \in {"raw", "redacted", "failed"},
         text # "failed" /\ Readable(i) => text = Shape(p, entry[i].body), Gated(p), Record(i, p, text),
         UNCHANGED <<settings, index, drawing, rebuild, sem, kept>>,
         ocr' = ocr \/ Reads', ext' = ext \/ Extracts'
  PROVE  IInv'
<1>1. CASE UNCHANGED <<entry, rec, thumb>>
  <2>1. drawing' \subseteq Images /\ rebuild' \in BOOLEAN /\ Assessed'
    BY DEF IInv, StoreTypes, RuleTypes, Assessed, Assess
  <2> QED
    BY <1>1, <2>1, WorkersStep
<1>2. CASE ~UNCHANGED <<entry, rec, thumb>>
  <2> DEFINE level == IF text = "failed" THEN 0 ELSE Level(p, entry[i].body)
  <2>1. /\ Live(i) /\ entry[i].level = 0
        /\ rec' = [rec EXCEPT ![i] = [policy |-> p, text |-> text]]
        /\ entry' = [entry EXCEPT ![i].doc = IF text = "failed" THEN "empty" ELSE text,
                                  ![i].level = Max(@, level)]
        /\ thumb' = IF level > entry[i].level THEN thumb \ {i} ELSE thumb
    BY <1>2 DEF Record, Readable
  <2>2. /\ i \in Entries /\ entry[i] \in EntryState /\ Present(i) /\ Obeys(i) /\ Matches(i) /\ Erased(i)
        /\ rec[i] \in Readings \cup {None}
    BY EntryKnown DEF Entries, IInv, StoreTypes
  <2>3. level \in 0..2 /\ Max(entry[i].level, level) = level
    BY <2>1, Levels DEF Max
  <2>4. text = "redacted" => level > 0
    BY <2>1, <2>3 DEF Shape, Readable
  <2> HIDE DEF level
  <2>5. /\ entry'[i] = [entry[i] EXCEPT !.doc = IF text = "failed" THEN "empty" ELSE text, !.level = level]
        /\ \A g \in Entries \ {i} : entry'[g] = entry[g]
        /\ entry' = [entry EXCEPT ![i] = entry'[i]]
    BY <2>1, <2>2, <2>3 DEF IInv, StoreTypes
  <2>6. /\ entry'[i] \in EntryState /\ entry'[i].state = "live" /\ entry'[i].body = entry[i].body
        /\ entry'[i].level = level /\ entry'[i].doc = IF text = "failed" THEN "empty" ELSE text
    <3>1. PICK d \in {"none", "empty", "raw", "redacted"} : d = IF text = "failed" THEN "empty" ELSE text
      OBVIOUS
    <3>2. entry'[i] = [entry[i] EXCEPT !.doc = d, !.level = level]
      BY <2>5, <3>1
    <3>3. entry'[i] \in EntryState /\ entry'[i].state = entry[i].state /\ entry'[i].body = entry[i].body
          /\ entry'[i].level = level /\ entry'[i].doc = d
      BY <2>2, <2>3, <3>2 DEF EntryState
    <3> QED
      BY <2>1, <3>1, <3>3 DEF Live
  <2>7. /\ rec'[i] = [policy |-> p, text |-> text] /\ rec'[i] \in Readings
        /\ \A g \in Images \ {i} : rec'[g] = rec[g]
    BY <2>1 DEF IInv, StoreTypes, Readings
  <2>8. rec'[i] # None
    BY <2>7, TextIndexAssumption DEF Readings, Policies
  <2>9. StoreTypes'
    BY <2>1, <2>5, <2>6, <2>7 DEF IInv, StoreTypes, index
  <2>10. Present(i)' /\ Obeys(i)'
    BY <2>1, <2>2, <2>6 DEF Present, Obeys, Live, settings, index
  <2>11. i \in thumb' => level = 0
    BY <2>1, <2>3
  <2>12. Matches(i)'
    BY <2>3, <2>4, <2>6, <2>7, <2>8, <2>11 DEF Matches
  <2>13. Erased(i)'
    <3>1. kept' = kept /\ (kept \in Policies => kept = p) /\ kept # "nothing"
      BY DEF IInv, Promised, Gated, Policies
    <3> QED
      BY <2>7, <3>1 DEF Erased
  <2>14. /\ \A g \in Entries \ {i} : entry'[g] = entry[g] /\ vec'[g] = vec[g] /\ excl'[g] = excl[g]
         /\ \A g \in Images \ {i} : rec'[g] = rec[g] /\ (g \in thumb' => g \in thumb)
         /\ UNCHANGED meta
    BY <2>1, <2>5, <2>7 DEF index
  <2> QED
    BY <2>1, <2>2, <2>6, <2>9, <2>10, <2>12, <2>13, <2>14, EntryStep
<1> QED
  BY <1>1, <1>2

\* What recognition does beside storing.
LEMMA OcrKeeps ==
  ASSUME IInv, OcrWake \/ OcrFails \/ OcrRead \/ OcrEnd \/ OcrCheck PROVE IInv'
<1>1. /\ UNCHANGED <<settings, entry, index, images, rebuild, sem, ext, kept>>
      /\ Reads /\ watch \in Settings /\ Assessed /\ OcrIdle \in OcrStates /\ OcrIdle.pc = "idle"
  BY DEF OcrWake, OcrFails, OcrRead, OcrEnd, OcrCheck, IInv, RuleTypes, OcrIdle, OcrStates
<1>2. UNCHANGED <<watch, rec, thumb, drawing>>
  BY <1>1 DEF settings, images
<1>3. Reads'
  <2>1. CASE ocr' = OcrIdle
    BY <1>1, <2>1 DEF Reads
  <2>2. CASE OcrWake
    <3>1. /\ ocr' \in OcrStates /\ ocr'.pc = "clear" /\ ocr'.policy \in Policies
      BY <1>1, <2>2 DEF OcrWake, Reads, OcrStates, Settings
    <3> QED
      BY <3>1 DEF Reads
  <2>3. CASE ocr' = [ocr EXCEPT !.pc = "loop"] /\ ocr.pc # "idle"
    <3>1. ocr' \in OcrStates /\ ocr'.pc = "loop" /\ ocr'.policy \in Policies
      BY <1>1, <2>3 DEF Reads, OcrStates
    <3> QED
      BY <3>1 DEF Reads
  <2>4. CASE OcrRead
    <3>1. PICK i \in Images :
            /\ Unread(i)
            /\ \/ ocr' = [ocr EXCEPT !.pc = "check", !.item = i, !.text = Shape(ocr.policy, entry[i].body)]
               \/ ocr' = [ocr EXCEPT !.pc = "check", !.item = i, !.text = "failed"]
      BY <2>4 DEF OcrRead
    <3>2. PICK text \in {"raw", "redacted", "failed"} :
            /\ ocr' = [ocr EXCEPT !.pc = "check", !.item = i, !.text = text]
            /\ text # "failed" => text = Shape(ocr.policy, entry[i].body)
      BY <3>1 DEF Shape
    <3>3. /\ ocr' \in OcrStates /\ ocr'.pc = "check" /\ ocr'.policy = ocr.policy /\ ocr'.item = i
          /\ ocr'.text = text /\ ocr.policy \in Policies
      BY <1>1, <2>4, <3>2 DEF OcrRead, Ocr, Reads, OcrStates
    <3>4. entry'[i] = entry[i] /\ entry[i].state = "live"
      BY <1>1, <3>1 DEF Unread, Readable, Live
    <3> QED
      BY <3>2, <3>3, <3>4 DEF Reads
  <2>5. CASE OcrCheck /\ StillCurrent /\ ocr' = [ocr EXCEPT !.pc = "record"]
    <3>1. /\ ocr' \in OcrStates /\ ocr'.pc = "record" /\ ocr'.policy = ocr.policy /\ ocr'.item = ocr.item
          /\ ocr'.text = ocr.text /\ ocr.policy \in Policies /\ ocr.pc = "check"
      BY <1>1, <2>5 DEF OcrCheck, Ocr, Reads, OcrStates
    <3>2. entry' = entry /\ Gated(ocr.policy)'
      BY <1>1, <1>2, <2>5, <3>1 DEF StillCurrent, Gated
    <3> QED
      BY <1>1, <3>1, <3>2 DEF Reads, Live, Gated
  <2> QED
    BY <2>1, <2>2, <2>3, <2>4, <2>5 DEF OcrFails, OcrWake, OcrEnd, OcrCheck, Ocr
<1>4. Assessed' /\ drawing' \subseteq Images /\ rebuild' \in BOOLEAN
  BY <1>1, <1>2 DEF Assessed, Assess, IInv, StoreTypes, RuleTypes
<1> QED
  BY <1>1, <1>2, <1>3, <1>4, WorkersStep

\* What is read is stored, and the recognition goes on.
LEMMA OcrRecordKeeps == ASSUME IInv, OcrRecord PROVE IInv'
<1>1. /\ Ocr("record") /\ Reads /\ UNCHANGED <<settings, index, drawing, rebuild, sem, ext, kept>>
      /\ ocr' = [ocr EXCEPT !.pc = "loop", !.item = None, !.text = "none"]
  BY DEF OcrRecord, IInv
<1>2. Reads'
  <2>1. ocr' \in OcrStates /\ ocr'.pc = "loop" /\ ocr'.policy \in Policies
    BY <1>1 DEF Reads, OcrStates, Ocr
  <2> QED
    BY <2>1 DEF Reads
<1>3. PICK i \in Images, p \in Policies, text \in {"raw", "redacted", "failed"} :
        i = ocr.item /\ p = ocr.policy /\ text = ocr.text
  BY <1>1 DEF Reads, OcrStates, Ocr
<1>4. Record(i, p, text)
  BY <1>3 DEF OcrRecord
<1>5. Gated(p) /\ (text # "failed" /\ Readable(i) => text = Shape(p, entry[i].body))
  BY <1>1, <1>3 DEF Reads, Ocr, Readable
<1> QED
  BY <1>1, <1>2, <1>4, <1>5, RecordKeeps

\* An extraction on request begins, asks for the gate, or fails.
LEMMA ExtKeeps == ASSUME IInv, ExtRead \/ ExtCheck \/ ExtFails PROVE IInv'
<1>1. /\ UNCHANGED <<settings, entry, index, images, rebuild, sem, ocr, kept>>
      /\ Extracts /\ watch \in Settings /\ ExtIdle \in ExtStates /\ ExtIdle.pc = "idle"
  BY DEF ExtRead, ExtCheck, ExtFails, IInv, RuleTypes, ExtIdle, ExtStates
<1>2. UNCHANGED <<watch, rec, thumb, drawing>>
  BY <1>1 DEF settings, images
<1>3. Extracts'
  <2>1. CASE ExtFails
    BY <1>1, <2>1 DEF ExtFails, Extracts
  <2>2. CASE ExtRead
    <3>1. PICK i \in Images : ext' = [ext EXCEPT !.pc = "check", !.item = i, !.policy = watch.policy]
      BY <2>2 DEF ExtRead
    <3>2. ext' \in ExtStates /\ ext'.pc = "check" /\ ext'.item = i /\ ext'.policy \in Policies
      BY <1>1, <3>1 DEF Extracts, ExtStates, Settings
    <3> QED
      BY <3>2 DEF Extracts
  <2>3. CASE ExtCheck
    <3>1. (watch.imageText /\ watch.policy = ext.policy) \in BOOLEAN /\ ext.pc = "check"
      BY <2>3 DEF ExtCheck
    <3>2. /\ ext' \in ExtStates /\ ext'.pc = "record" /\ ext'.item = ext.item /\ ext'.policy = ext.policy
          /\ ext'.store = (watch.imageText /\ watch.policy = ext.policy)
      BY <1>1, <2>3, <3>1 DEF ExtCheck, Extracts, ExtStates
    <3> QED
      BY <1>1, <1>2, <3>1, <3>2 DEF Extracts, Gated
  <2> QED
    BY <2>1, <2>2, <2>3
<1>4. Assessed' /\ drawing' \subseteq Images /\ rebuild' \in BOOLEAN
  BY <1>1, <1>2 DEF Assessed, Assess, IInv, StoreTypes, RuleTypes
<1> QED
  BY <1>1, <1>2, <1>3, <1>4, WorkersStep

\* What was extracted is stored under the gate, or only masks its image.
LEMMA ExtRecordKeeps == ASSUME IInv, ExtRecord PROVE IInv'
<1>1. /\ ext.pc = "record" /\ Extracts /\ UNCHANGED <<settings, index, drawing, rebuild, sem, ocr, kept>>
      /\ ext' = ExtIdle /\ ExtIdle \in ExtStates /\ ExtIdle.pc = "idle"
  BY DEF ExtRecord, IInv, ExtIdle, ExtStates
<1>2. Extracts'
  BY <1>1 DEF Extracts
<1>3. PICK i \in Images, p \in Policies : i = ext.item /\ p = ext.policy
  BY <1>1 DEF Extracts
<1>4. CASE ext.store
  <2>1. PICK text \in {"raw", "redacted"} : text = Shape(p, entry[i].body)
    BY DEF Shape
  <2>2. Record(i, p, text)
    BY <1>3, <1>4, <2>1 DEF ExtRecord
  <2>3. Gated(p)
    BY <1>1, <1>3, <1>4 DEF Extracts
  <2> QED
    BY <1>1, <1>2, <2>1, <2>2, <2>3, RecordKeeps
<1>5. CASE ~ext.store /\ ~Readable(i)
  <2>1. UNCHANGED <<entry, rec, thumb>>
    BY <1>3, <1>5 DEF ExtRecord
  <2>2. drawing' \subseteq Images /\ rebuild' \in BOOLEAN /\ Assessed'
    BY <1>1 DEF IInv, StoreTypes, RuleTypes, Assessed, Assess
  <2> QED
    BY <1>1, <1>2, <2>1, <2>2, WorkersStep
<1>6. CASE ~ext.store /\ Readable(i)
  <2> DEFINE level == Level(p, entry[i].body)
  <2>1. /\ rec' = rec /\ Live(i) /\ entry[i].level = 0
        /\ entry' = [entry EXCEPT ![i].level = Max(@, level)]
        /\ thumb' = IF level > entry[i].level THEN thumb \ {i} ELSE thumb
    BY <1>3, <1>6 DEF ExtRecord, Raised, Readable
  <2>2. i \in Entries /\ entry[i] \in EntryState /\ Present(i) /\ Obeys(i) /\ Matches(i) /\ Erased(i)
    BY EntryKnown DEF Entries
  <2>3. level \in 0..2 /\ Max(entry[i].level, level) = level
    BY <2>1, Levels DEF Max
  <2> HIDE DEF level
  <2>4. /\ entry'[i] = [entry[i] EXCEPT !.level = level]
        /\ \A g \in Entries \ {i} : entry'[g] = entry[g]
        /\ entry' = [entry EXCEPT ![i] = entry'[i]]
    BY <2>1, <2>2, <2>3 DEF IInv, StoreTypes
  <2>5. /\ entry'[i] \in EntryState /\ entry'[i].state = "live" /\ entry'[i].body = entry[i].body
        /\ entry'[i].level = level /\ entry'[i].doc = entry[i].doc
    BY <2>1, <2>2, <2>3, <2>4 DEF EntryState, Live
  <2>6. StoreTypes'
    BY <1>1, <2>1, <2>4, <2>5 DEF IInv, StoreTypes, index
  <2>7. Present(i)' /\ Obeys(i)'
    BY <1>1, <2>1, <2>2, <2>5 DEF Present, Obeys, Live, settings, index
  <2>8. Matches(i)' /\ Erased(i)'
    <3>1. (i \in thumb' => level = 0) /\ (level = 0 => entry[i].level = 0)
      BY <2>1, <2>3
    <3> QED
      BY <1>1, <2>1, <2>2, <2>3, <2>5, <3>1 DEF Matches, Erased, Live
  <2>9. /\ \A g \in Entries \ {i} : vec'[g] = vec[g] /\ excl'[g] = excl[g]
        /\ \A g \in Images \ {i} : rec'[g] = rec[g] /\ (g \in thumb' => g \in thumb)
        /\ UNCHANGED meta
    BY <1>1, <2>1 DEF index
  <2> QED
    BY <1>1, <1>2, <2>1, <2>2, <2>4, <2>5, <2>6, <2>7, <2>8, <2>9, EntryStep
<1> QED
  BY <1>4, <1>5, <1>6

\* A clearing leaves what the present settings allow, and nothing is being stored.
LEMMA OcrClearKeeps == ASSUME IInv, OcrClear PROVE IInv'
<1>1. /\ Ocr("clear") /\ ext.pc # "record" /\ kept' = Promise
      /\ UNCHANGED <<settings, index, thumb, drawing, rebuild, sem, ext>>
      /\ rec' = [i \in Images |-> IF i \in Outdated THEN None ELSE rec[i]]
      /\ entry' = [e \in Entries |->
           IF e \in Outdated /\ entry[e].doc # "none" THEN [entry[e] EXCEPT !.doc = "empty"] ELSE entry[e]]
      /\ ocr' = IF ocr.on THEN [ocr EXCEPT !.pc = "loop"] ELSE OcrIdle
  BY DEF OcrClear, Cleared
<1>2. UNCHANGED <<row, watch, saving, vec, excl, meta>>
  BY <1>1 DEF settings, index
<1>3. ASSUME NEW e \in Entries
      PROVE  /\ entry'[e] \in EntryState /\ entry'[e].state = entry[e].state /\ entry'[e].body = entry[e].body
             /\ entry'[e].level = entry[e].level
             /\ entry'[e].doc = IF e \in Outdated /\ entry[e].doc # "none" THEN "empty" ELSE entry[e].doc
  BY <1>1, EntryKnown DEF EntryState
<1>4. StoreTypes'
  BY <1>1, <1>2, <1>3 DEF IInv, StoreTypes
<1>5. /\ Promise \in Policies \cup {"any", "nothing"}
      /\ Promise = "nothing" => ~watch.imageText /\ ~ocr.on
      /\ Promise \in Policies => watch.imageText /\ watch.policy = Promise /\ ocr.on /\ ocr.policy = Promise
  BY DEF Promise, IInv, RuleTypes, Settings, Policies, Reads, OcrStates
<1>6. RuleTypes' /\ Promised' /\ (meta \in {None, row.policy})'
  BY <1>1, <1>2, <1>5 DEF IInv, RuleTypes, Promised
<1>7. ASSUME NEW e \in Entries PROVE Present(e)' /\ Obeys(e)'
  BY <1>1, <1>2, <1>3 DEF IInv, Present, Obeys, Live
<1>8. ASSUME NEW i \in Images PROVE Matches(i)'
  <2>1. i \in Entries
    BY DEF Entries
  <2>2. Matches(i) /\ (Live(i) => entry[i].doc # "none")
    BY DEF IInv, Matches, StoreTypes, Readings
  <2>3. rec'[i] = IF i \in Outdated THEN None ELSE rec[i]
    BY <1>1
  <2> QED
    BY <1>1, <1>3, <2>1, <2>2, <2>3 DEF Matches, Live
<1>9. ASSUME NEW i \in Images PROVE Erased(i)'
  <2>1. i \in Entries /\ Present(i) /\ Matches(i)
    BY DEF Entries, IInv
  <2>2. rec'[i] = IF i \in Outdated THEN None ELSE rec[i]
    BY <1>1
  <2>3. Promise = "nothing" => rec'[i] = None
    BY <1>5, <2>2 DEF Outdated
  <2>4. rec'[i] = None => entry'[i].doc \notin {"raw", "redacted"}
    BY <1>3, <2>1, <2>2 DEF Present, Matches
  <2>5. Promise \in Policies /\ rec'[i] # None => rec'[i].policy = Promise
    BY <1>5, <2>2 DEF Outdated
  <2> QED
    BY <1>1, <2>3, <2>4, <2>5 DEF Erased
<1>10. Reads'
  <2>1. ocr' \in OcrStates /\ ocr'.pc \in {"loop", "idle"} /\ (ocr'.pc # "idle" => ocr'.policy \in Policies)
    BY <1>1 DEF IInv, Reads, OcrStates, OcrIdle, Ocr
  <2> QED
    BY <2>1 DEF Reads
<1>11. Assessed' /\ Extracts'
  BY <1>1 DEF IInv, Assessed, Assess, Extracts
<1> QED
  BY <1>4, <1>6, <1>7, <1>8, <1>9, <1>10, <1>11 DEF IInv

\* A thumbnail is put of what may be seen when it is put.
LEMMA ThumbnailKeeps == ASSUME IInv, NEW i \in Images, Draw(i) \/ PutThumbnail(i) PROVE IInv'
<1>1. /\ UNCHANGED <<settings, entry, index, rec, rebuild, sem, ocr, ext, kept>>
      /\ drawing' \subseteq Images /\ rebuild' \in BOOLEAN /\ Assessed'
  BY DEF Draw, PutThumbnail, workers, IInv, StoreTypes, RuleTypes, Assessed, Assess
<1>2. CASE UNCHANGED thumb
  BY <1>1, <1>2, WorkersStep
<1>3. CASE PutThumbnail(i) /\ ~UNCHANGED thumb
  <2>1. thumb' = thumb \cup {i} /\ entry[i].level = 0
    BY <1>3 DEF PutThumbnail, Readable
  <2>2. i \in Entries /\ Present(i) /\ Obeys(i) /\ Matches(i) /\ Erased(i)
    BY EntryKnown DEF Entries
  <2>3. StoreTypes' /\ UNCHANGED <<vec, excl, meta, row>>
    BY <1>1, <2>1 DEF IInv, StoreTypes, index, settings
  <2>4. Present(i)' /\ Obeys(i)' /\ Erased(i)'
    BY <1>1, <2>2, <2>3 DEF Present, Obeys, Erased, Live
  <2>5. Matches(i)'
    BY <1>1, <2>1, <2>2 DEF Matches, Live
  <2> QED
    BY <1>1, <2>1, <2>2, <2>3, <2>4, <2>5, EntryStep DEF Live
<1> QED
  BY <1>2, <1>3 DEF Draw, PutThumbnail

-----------------------------------------------------------------------------

\* Nothing is stored yet.
LEMMA Starts == Init => IInv
<1> SUFFICES ASSUME Init PROVE IInv
  OBVIOUS
<1>1. /\ Absent \in EntryState /\ Absent.state = "absent" /\ Absent.body = None /\ Absent.doc = "none"
      /\ SemIdle(FALSE) \in SemStates /\ SemIdle(FALSE).pc = "idle"
      /\ OcrIdle \in OcrStates /\ OcrIdle.pc = "idle" /\ ExtIdle \in ExtStates /\ ExtIdle.pc = "idle"
  BY DEF Absent, EntryState, SemIdle, SemStates, OcrIdle, OcrStates, ExtIdle, ExtStates
<1>2. StoreTypes
  BY <1>1 DEF Init, StoreTypes
<1>3. RuleTypes /\ Promised
  BY DEF Init, RuleTypes, Promised, Settings, Policies
<1>4. \A e \in Entries : Present(e) /\ Obeys(e)
  BY <1>1 DEF Init, Present, Obeys, Live
<1>5. \A i \in Images : Matches(i) /\ Erased(i)
  BY <1>1 DEF Init, Matches, Erased, Live, Entries
<1>6. Assessed /\ Reads /\ Extracts
  BY <1>1 DEF Init, Assessed, Reads, Extracts
<1> QED
  BY <1>2, <1>3, <1>4, <1>5, <1>6 DEF IInv, Init

\* Every step keeps the invariant.
LEMMA StepsKeep == IInv /\ [Next]_vars => IInv'
<1> SUFFICES ASSUME IInv, [Next]_vars PROVE IInv'
  OBVIOUS
<1>1. ASSUME NEW e \in Entries, Capture(e) \/ Recapture(e) \/ Edit(e) \/ Delete(e) \/ Purge(e) PROVE IInv'
  BY <1>1, CaptureKeeps, RecaptureKeeps, EditKeeps, DeleteKeeps
<1>2. ASSUME NEW i \in Images, Draw(i) \/ PutThumbnail(i) PROVE IInv'
  BY <1>2, ThumbnailKeeps
<1>3. CASE Save \/ Publish \/ RequestRebuild
  BY <1>3, SaveKeeps, PublishKeeps, SemKeeps
<1>4. CASE SemWake \/ SemStep \/ SemFails
  BY <1>4, SemKeeps, SemBeginsIndex, SemRefuseKeeps, SemStoreKeeps DEF SemStep
<1>5. CASE OcrStep \/ OcrFails
  BY <1>5, OcrKeeps, OcrClearKeeps, OcrRecordKeeps DEF OcrStep
<1>6. CASE ExtRead \/ ExtStep \/ ExtFails
  BY <1>6, ExtKeeps, ExtRecordKeeps DEF ExtStep
<1>7. CASE UNCHANGED vars
  <2>1. /\ UNCHANGED <<settings, entry, index, rec, thumb, kept, sem, ocr, ext, drawing, rebuild>>
    BY <1>7 DEF vars, images, workers
  <2>2. drawing' \subseteq Images /\ rebuild' \in BOOLEAN /\ Assessed'
    BY <2>1 DEF IInv, StoreTypes, RuleTypes, Assessed, Assess
  <2> QED
    BY <2>1, <2>2, WorkersStep
<1> QED
  BY <1>1, <1>2, <1>3, <1>4, <1>5, <1>6, <1>7 DEF Next

\* It holds in every state that can be reached.
LEMMA Inductive == Spec => []IInv
BY Starts, StepsKeep, PTL DEF Spec

\* The types, and that nothing secret is ever offered to the model.
THEOREM HistoryTyped == Spec => []TypeOK
<1>1. ASSUME IInv PROVE TypeOK
  <2>1. sem.batch \subseteq Offers /\ ocr.item \in Images \cup {None} /\ ext.item \in Images \cup {None}
    BY <1>1 DEF IInv, Assessed, SemStates, Reads, OcrStates, Extracts, ExtStates
  <2> QED
    BY <1>1, <2>1 DEF IInv, StoreTypes, RuleTypes, TypeOK, EntryState, Vectors, Readings, Offers
<1> QED
  BY <1>1, Inductive, PTL

\* Whatever worker was how far when the rules were edited or an entry replaced, the
\* index holds only what the committed rules make of the history.
THEOREM IndexFollowsRules == Spec => []IndexObeysPolicy
<1>1. IInv => IndexObeysPolicy
  BY DEF IInv, Obeys, IndexObeysPolicy
<1> QED
  BY <1>1, Inductive, PTL

\* Text that was erased stays so while the settings that erased it last.
THEOREM NothingIsWrittenBack == Spec => []ErasedStaysErased
<1>1. IInv => ErasedStaysErased
  BY DEF IInv, Erased, ErasedStaysErased
<1> QED
  BY <1>1, Inductive, PTL

\* An image is found by what was read in it only, and hidden when that is private.
THEOREM ImagesAreFoundByTheirText == Spec => []ImagesMatchRecognition
<1>1. IInv => ImagesMatchRecognition
  BY DEF IInv, Matches, ImagesMatchRecognition
<1> QED
  BY <1>1, Inductive, PTL

-----------------------------------------------------------------------------
(* What a purge leaves. *)

\* What the index's invariant does not say: no tombstone and no thumbnail of an entry
\* that is not there, and no offer of one that never was.
Clean(e) == entry[e].state \in {"absent", "purged"} => excl[e] = None /\ e \notin thumb
Offered == \A b \in sem.batch : entry[b.of].state # "absent"
Clear == Offered /\ \A e \in Entries : Clean(e)

\* A step that moves no entry from one state to another, and only takes tombstones,
\* thumbnails and offers away.
LEMMA ClearStays ==
  ASSUME IInv, Clear, \A e \in Entries : entry'[e].state = entry[e].state /\ excl'[e] \in {None, excl[e]},
         thumb' \subseteq thumb, sem'.batch \subseteq sem.batch
  PROVE  Clear'
<1>1. \A b \in sem.batch : b.of \in Entries
  BY DEF IInv, Assessed, SemStates, Offers
<1> QED
  BY <1>1 DEF Clear, Offered, Clean

\* The entries: a capture finds nothing, a purge leaves nothing.
LEMMA ClearEntries ==
  ASSUME IInv, Clear, NEW e \in Entries
  PROVE  Capture(e) \/ Recapture(e) \/ Edit(e) \/ Delete(e) \/ Purge(e) => Clear'
<1>1. /\ entry \in [Entries -> EntryState] /\ excl \in [Entries -> Bodies \cup {None}]
      /\ \A b \in sem.batch : b.of \in Entries
  BY DEF IInv, StoreTypes, Assessed, SemStates, Offers
<1>2. Purged.state = "purged"
  BY DEF Purged, Absent
<1>3. CASE Recapture(e)
  <2>1. \A g \in Entries : entry'[g].state = entry[g].state
    BY <1>1, <1>3 DEF Recapture, EntryState
  <2>2. UNCHANGED <<excl, thumb, sem>>
    BY <1>3 DEF Recapture, index, images, workers
  <2> QED
    BY <2>1, <2>2, ClearStays
<1>6. CASE Edit(e)
  <2>1. PICK b \in Bodies :
          entry' = [entry EXCEPT ![e].body = b, ![e].level = Level(row.policy, b), ![e].doc = "raw"]
    BY <1>6, Zenon DEF Edit
  <2>2. \A g \in Entries : entry'[g].state = entry[g].state
    BY <1>1, <2>1 DEF EntryState
  <2>3. UNCHANGED <<excl, thumb, sem>>
    BY <1>6 DEF Edit, images, workers
  <2> QED
    BY <2>2, <2>3, ClearStays
<1>4. CASE Capture(e)
  <2>1. /\ entry'[e].state = "live" /\ \A g \in Entries \ {e} : entry'[g] = entry[g]
        /\ UNCHANGED <<excl, thumb, sem>>
    BY <1>1, <1>4 DEF Capture, index, images, workers
  <2> QED
    BY <1>1, <2>1 DEF Clear, Offered, Clean
<1>5. CASE Delete(e) \/ Purge(e)
  <2>1. CASE entry' = [entry EXCEPT ![e] = Purged] /\ Cascade(e)
    <3>1. /\ entry'[e].state = "purged" /\ \A g \in Entries \ {e} : entry'[g] = entry[g] /\ excl'[g] = excl[g]
          /\ excl'[e] = None /\ e \notin thumb' /\ thumb' \subseteq thumb /\ sem' = sem
      BY <1>1, <1>2, <1>5, <2>1 DEF Cascade, Delete, Purge, workers
    <3> QED
      BY <1>1, <3>1 DEF Clear, Offered, Clean
  <2>2. CASE Delete(e) /\ entry' = [entry EXCEPT ![e].state = "deleted", ![e].doc = "none"]
                       /\ UNCHANGED <<index, images>>
    <3>1. /\ entry'[e].state = "deleted" /\ \A g \in Entries \ {e} : entry'[g] = entry[g]
          /\ UNCHANGED <<excl, thumb, sem>>
      BY <1>1, <2>2 DEF Delete, index, images, workers, EntryState
    <3> QED
      BY <1>1, <3>1 DEF Clear, Offered, Clean
  <2> QED
    BY <1>5, <2>1, <2>2 DEF Delete, Purge
<1> QED
  BY <1>3, <1>4, <1>5, <1>6

\* The settings and the two workers of images.
LEMMA ClearImages ==
  ASSUME IInv, Clear
  PROVE  \/ Save \/ Publish \/ RequestRebuild \/ OcrStep \/ OcrFails \/ ExtRead \/ ExtStep \/ ExtFails
         \/ \E i \in Images : Draw(i) \/ PutThumbnail(i)
         => Clear'
<1>1. entry \in [Entries -> EntryState] /\ excl \in [Entries -> Bodies \cup {None}] /\ ocr.item \in Images \cup {None}
  BY DEF IInv, StoreTypes, Reads, OcrStates
<1>2. CASE Save \/ Publish \/ RequestRebuild
  <2>1. \A g \in Entries : entry'[g].state = entry[g].state /\ excl'[g] \in {None, excl[g]}
    BY <1>2 DEF Save, Erase, Publish, RequestRebuild, index
  <2>2. thumb' \subseteq thumb /\ sem'.batch \subseteq sem.batch
    <3>1. CASE Publish
      BY <3>1 DEF Publish, images, IInv, Assessed, SemStates
    <3> QED
      BY <1>2, <3>1 DEF Save, RequestRebuild, images, workers
  <2> QED
    BY <2>1, <2>2, ClearStays
<1>3. CASE OcrWake \/ OcrRead \/ OcrEnd \/ OcrCheck \/ OcrFails \/ ExtRead \/ ExtCheck \/ ExtFails
  <2>1. CASE OcrWake \/ OcrRead \/ OcrEnd \/ OcrCheck \/ OcrFails
    <3>1. UNCHANGED <<entry, index, images, sem>>
      BY <2>1, Zenon DEF OcrWake, OcrRead, OcrEnd, OcrCheck, OcrFails
    <3> QED
      BY <3>1, ClearStays DEF index, images
  <2>2. CASE ExtRead \/ ExtCheck \/ ExtFails
    <3>1. UNCHANGED <<entry, index, images, sem>>
      BY <2>2, Zenon DEF ExtRead, ExtCheck, ExtFails
    <3> QED
      BY <3>1, ClearStays DEF index, images
  <2> QED
    BY <1>3, <2>1, <2>2
<1>4. CASE OcrClear
  <2>1. \A g \in Entries : entry'[g].state = entry[g].state
    BY <1>1, <1>4 DEF OcrClear, Cleared, EntryState
  <2> QED
    BY <1>4, <2>1, ClearStays DEF OcrClear, index
<1>5. ASSUME NEW i, NEW p, NEW text, Record(i, p, text)
      PROVE  thumb' \subseteq thumb /\ \A g \in Entries : entry'[g].state = entry[g].state
  BY <1>1, <1>5 DEF Record, EntryState
<1>6. CASE OcrRecord
  BY <1>5, <1>6, ClearStays DEF OcrRecord, index
<1>7. CASE ExtRecord
  <2>1. thumb' \subseteq thumb /\ \A g \in Entries : entry'[g].state = entry[g].state
    <3>1. CASE ext.store
      BY <1>5, <1>7, <3>1 DEF ExtRecord
    <3>2. CASE ~ext.store
      BY <1>1, <1>7, <3>2 DEF ExtRecord, Raised, EntryState
    <3> QED
      BY <3>1, <3>2
  <2> QED
    BY <1>7, <2>1, ClearStays DEF ExtRecord, index
<1>8. ASSUME NEW i \in Images, Draw(i) \/ PutThumbnail(i) PROVE Clear'
  <2>1. UNCHANGED <<entry, excl, sem>> /\ (thumb' = thumb \/ (thumb' = thumb \cup {i} /\ Live(i)))
    BY <1>8 DEF Draw, PutThumbnail, Readable, index, workers
  <2> QED
    BY <2>1 DEF Clear, Offered, Clean, Live
<1> QED
  BY <1>2, <1>3, <1>4, <1>6, <1>7, <1>8 DEF OcrStep, ExtStep

\* The semantic worker offers what it has read to be there, and refuses, any time
\* later, nothing whose row is gone.
LEMMA ClearSem ==
  ASSUME IInv, Clear
  PROVE  SemWake \/ SemStep \/ SemFails => Clear'
<1>1. /\ sem \in SemStates /\ entry \in [Entries -> EntryState] /\ excl \in [Entries -> Bodies \cup {None}]
      /\ \A b \in sem.batch : b.of \in Entries
  BY DEF IInv, StoreTypes, Assessed, SemStates, Offers
<1>2. SemWake \/ SemStep \/ SemFails => UNCHANGED <<entry, thumb>>
  <2>1. SemWake \/ SemStep \/ SemFails => UNCHANGED <<entry, images>>
    BY ZenonT(30) DEF SemWake, SemStep, SemFails, SemBegin, SemReconcile, SemRestart, SemUnflag, SemRead, SemRefuse, SemStore
  <2> QED
    BY <2>1 DEF images
<1>3. \A u : SemIdle(u).batch = {}
  BY DEF SemIdle
<1>4. CASE SemWake \/ SemReconcile \/ SemUnflag \/ SemFails \/ SemStore
  <2>1. CASE SemWake \/ SemReconcile \/ SemUnflag
    <3>1. excl' = excl /\ sem'.batch = sem.batch
      BY <1>1, <2>1 DEF SemWake, SemReconcile, SemUnflag, SemGoto, SemStates, index
    <3> QED
      BY <1>2, <2>1, <3>1, ClearStays DEF SemStep
  <2>2. CASE SemFails \/ SemStore
    <3>1. excl' = excl
      BY <2>2 DEF SemFails, SemStore, index
    <3>2. sem' = SemIdle(sem.unseen) \/ sem' = [sem EXCEPT !.pc = "loop", !.batch = {}]
      BY <2>2 DEF SemFails, SemStore, SemEnd
    <3>3. sem'.batch = {}
      BY <1>1, <1>3, <3>2 DEF SemStates
    <3> QED
      BY <1>2, <2>2, <3>1, <3>3, ClearStays DEF SemStep
  <2> QED
    BY <1>4, <2>1, <2>2
<1>5. CASE SemBegin \/ SemRestart
  <2>1. \A g \in Entries : excl'[g] \in {None, excl[g]}
    <3>1. excl' = excl \/ excl' = [e \in Entries |-> None]
      BY <1>5 DEF SemBegin, SemRestart, Erase, index
    <3> QED
      BY <3>1
  <2>2. sem'.batch \subseteq sem.batch
    <3>1. \/ sem' = SemIdle(sem.unseen)
          \/ sem' = [sem EXCEPT !.pc = "reconcile", !.policy = watch.policy]
          \/ \E pc \in {"unflag", "loop"} : sem' = [sem EXCEPT !.pc = pc]
      BY <1>5 DEF SemBegin, SemRestart, SemEnd, SemGoto
    <3> QED
      BY <1>1, <1>3, <3>1 DEF SemStates
  <2> QED
    BY <1>2, <1>5, <2>1, <2>2, ClearStays DEF SemStep
<1>6. CASE SemRead
  <2>1. excl' = excl
    BY <1>6 DEF SemRead, index
  <2>2. \A b \in sem'.batch : Live(b.of)
    <3> DEFINE offer(g) == [of |-> g, row |-> [body |-> entry[g].body, level |-> entry[g].level, doc |-> entry[g].doc]]
               offers == {offer(g) : g \in {g \in Entries : Pending(g)}}
    <3>1. \A b \in offers : Live(b.of)
      BY DEF Pending
    <3>2. sem' = SemIdle(sem.unseen) \/ sem' = [sem EXCEPT !.pc = "refuse", !.batch = offers]
      BY <1>6 DEF SemRead, SemEnd
    <3> HIDE DEF offers
    <3>3. sem'.batch = {} \/ sem'.batch = offers
      BY <1>1, <1>3, <3>2 DEF SemStates
    <3> QED
      BY <3>1, <3>3
  <2> QED
    BY <1>2, <1>6, <2>1, <2>2 DEF Clear, Offered, Clean, Live, SemStep
<1>7. CASE SemRefuse
  <2>1. sem'.batch \subseteq sem.batch
    <3>1. \/ sem' = SemIdle(sem.unseen)
          \/ sem' = [sem EXCEPT !.pc = "loop", !.batch = {}]
          \/ sem' = [sem EXCEPT !.pc = "store", !.batch = Accepted]
      BY <1>7, Zenon DEF SemRefuse, SemEnd
    <3>2. sem'.batch \in {{}, Accepted}
      BY <1>1, <1>3, <3>1 DEF SemStates
    <3> QED
      BY <3>2 DEF Accepted
  <2>2. ASSUME NEW g \in Entries, excl'[g] # excl[g]
        PROVE  entry[g].state \notin {"absent", "purged"}
    <3>1. PICK b \in Refused : b.of = g
      BY <1>7, <2>2 DEF SemRefuse, index
    <3>2. entry[b.of].state # "purged"
      BY <1>7, <2>2, <3>1 DEF SemRefuse, index
    <3>3. entry[b.of].state # "absent"
      BY <3>1 DEF Clear, Offered, Refused
    <3> QED
      BY <3>1, <3>2, <3>3
  <2> QED
    BY <1>1, <1>2, <1>7, <2>1, <2>2 DEF SemStep, Clear, Offered, Clean
<1> QED
  BY <1>4, <1>5, <1>6, <1>7 DEF SemStep

\* An entry that is not there, never captured or purged, has neither a vector nor a
\* tombstone, neither recognized text nor a thumbnail.
PurgedLeavesNothing ==
  \A e \in Entries : entry[e].state \in {"absent", "purged"} =>
    /\ vec[e] = None /\ excl[e] = None
    /\ e \in Images => rec[e] = None /\ e \notin thumb

\* A worker that read an entry before it was purged, the semantic one, the
\* recognition, an extraction or a thumbnail, writes nothing of it afterwards
\* (sqlite/semantic.rs, ocr.rs and thumbnail.rs look at the row again).
THEOREM NothingOutlivesItsEntry == Spec => []PurgedLeavesNothing
<1>1. Init => Clear
  <2>1. SemIdle(FALSE).batch = {}
    BY DEF SemIdle
  <2> QED
    BY <2>1 DEF Init, Clear, Offered, Clean
<1>2. IInv /\ Clear /\ [Next]_vars => Clear'
  <2> SUFFICES ASSUME IInv, Clear, [Next]_vars PROVE Clear'
    OBVIOUS
  <2>1. CASE UNCHANGED vars
    BY <2>1 DEF vars, index, images, workers, Clear, Offered, Clean
  <2> QED
    BY <2>1, ClearEntries, ClearImages, ClearSem DEF Next
<1>3. IInv /\ Clear => PurgedLeavesNothing
  <2> SUFFICES ASSUME IInv, Clear, NEW e \in Entries, entry[e].state \in {"absent", "purged"}
               PROVE  /\ vec[e] = None /\ excl[e] = None
                      /\ e \in Images => rec[e] = None /\ e \notin thumb
    BY DEF PurgedLeavesNothing
  <2>1. Present(e) /\ Obeys(e) /\ Clean(e)
    BY DEF IInv, Clear
  <2> QED
    BY <2>1 DEF Present, Obeys, Clean
<1> QED
  BY <1>1, <1>2, <1>3, Inductive, PTL DEF Spec
=============================================================================
