------------------------ MODULE PaletteSearchProofs ------------------------
(***************************************************************************)
(* Theorems about the palette's search box, for every set of queries, of   *)
(* filters and of actions, and any number of events.                       *)
(***************************************************************************)
EXTENDS PaletteSearch, TLAPS

-----------------------------------------------------------------------------
(* The inductive invariant. *)

\* A cancel of the newest search, on its way, held or delivered, has a request
\* waiting behind that search.
CancelsAreStale ==
  /\ inflight > 0
  /\ token => call = "searching"
  /\ token \/ call = "cancelled" \/ early = inflight \/ inflight \in cancels => queued # None

\* The question asked last, with nothing queued behind it, is one for the chips
\* on screen and for the scope they are widened to; so is the queued request.
QuestionsAreCurrent ==
  /\ latest => ~searchRunning /\ queued = None /\ shown = asked
  /\ (latest \/ searchRunning) /\ queued = None =>
       asked.filters = filters /\ asked.wide = (widened = <<asked.query, filters>>)
  /\ queued # None =>
       searchRunning /\ queued.wide = (widened = <<queued.query, filters>>)

\* An action that waits and was not dismissed sees the showing it began in.
WaitersAreUp == \A a \in Actions : act[a].pc = "flush" /\ ~act[a].dismissed => up

IInv == TypeOK /\ CancelsAreStale /\ QuestionsAreCurrent /\ WaitersAreUp

-----------------------------------------------------------------------------
(* Lemmas. *)

\* Actions as runQuery is given them: one of them may wait for what is `asked'.
Asking == [pc : {"idle", "flush", "acts"}, on : {"free", "queued", "running", "asked"},
           dismissed : BOOLEAN]

\* After Moved, nobody waits for `from', and everyone else is as before.
LEMMA Moving ==
  ASSUME NEW acts \in [Actions -> Asking], NEW m, 
         NEW from \in {"asked", "queued", "running"}, NEW to \in {"free", "queued", "running"},
         m = Moved(acts, from, to)
  PROVE  /\ m \in [Actions -> Asking]
         /\ \A a \in Actions :
              /\ m[a].pc = acts[a].pc /\ m[a].dismissed = acts[a].dismissed
              /\ m[a].pc # "flush" => m[a].on = acts[a].on
              /\ m[a].pc = "flush" => m[a].on = IF acts[a].on = from THEN to ELSE acts[a].on
BY DEF Moved, Asking

-----------------------------------------------------------------------------
(* The steps. *)

\* A query asked for under the chips then on screen, by someone who may wait for it.
LEMMA RunQueryInv ==
  ASSUME IInv, NEW q \in Queries, NEW f \in Filters, NEW scope \in Scopes,
         NEW acts \in [Actions -> Asking],
         \A a \in Actions : acts[a].pc = "flush" =>
           /\ acts[a].on = "queued" => queued # None
           /\ acts[a].on = "running" => searchRunning
           /\ ~acts[a].dismissed => up',
         \A a \in Actions : acts[a].on = "asked" => acts[a].pc = "flush",
         runQuery(q, f, scope, acts), filters' = f, UNCHANGED slotVars,
         up' \in BOOLEAN, events' \in 0..MaxEvents
  PROVE  IInv'
<1> DEFINE wide == scope = <<q, f>>
<1> USE DEF IInv, TypeOK, slotVars
<1>1. /\ box' = q /\ timer' = FALSE /\ lost' = FALSE
      /\ widened' = IF wide THEN scope ELSE None
      /\ widened' \in Scopes /\ wide = (widened' = <<q, f>>)
  <2>1. box' = q /\ timer' = FALSE /\ lost' = FALSE
    BY DEF runQuery, executeSearch
  <2>2. widened' = IF wide THEN scope ELSE None
    BY DEF runQuery, executeSearch
  <2>3. <<q, f>> # None
    BY PaletteAssumption
  <2> QED
    BY <2>1, <2>2, <2>3 DEF Scopes
<1>2. CASE searchRunning
  <2> DEFINE m == Moved(acts, "queued", "free")
  <2>1. /\ queued' = [query |-> q, wide |-> wide] /\ queued' # None
        /\ act' = Moved(m, "asked", "queued") /\ cancels' = cancels \cup {inflight}
        /\ UNCHANGED <<inflight, asked, call, listVars>> /\ searchRunning'
    <3>1. /\ queued' = [query |-> q, wide |-> wide]
          /\ act' = Moved(m, "asked", "queued") /\ cancels' = cancels \cup {inflight}
          /\ UNCHANGED <<inflight, asked, call, listVars>>
      BY <1>2 DEF runQuery
    <3>2. [query |-> q, wide |-> wide] # None
      <4>1. wide \in BOOLEAN
        OBVIOUS
      <4> HIDE DEF wide
      <4>2. [query |-> q, wide |-> wide] \in [query : Queries, wide : BOOLEAN]
        BY <4>1
      <4> QED
        BY <4>2, PaletteAssumption
    <3> QED
      BY <3>1, <3>2, <1>2 DEF searchRunning
  <2>2. /\ m \in [Actions -> Asking]
        /\ \A a \in Actions :
              /\ m[a].pc = acts[a].pc /\ m[a].dismissed = acts[a].dismissed
              /\ m[a].pc # "flush" => m[a].on = acts[a].on
              /\ m[a].pc = "flush" => m[a].on = IF acts[a].on = "queued" THEN "free" ELSE acts[a].on
    BY Moving
  <2>3. /\ act' \in [Actions -> Asking]
        /\ \A a \in Actions :
              /\ act'[a].pc = m[a].pc /\ act'[a].dismissed = m[a].dismissed
              /\ act'[a].pc # "flush" => act'[a].on = m[a].on
              /\ act'[a].pc = "flush" => act'[a].on = IF m[a].on = "asked" THEN "queued" ELSE m[a].on
    <3> HIDE DEF m
    <3> QED
      BY <2>1, <2>2, Moving
  <2>4. TypeOK'
    <3>1. act' \in [Actions -> Acts]
      BY <2>2, <2>3 DEF Asking, Acts
    <3>2. \A a \in Actions : act'[a].pc = "flush" =>
            (act'[a].on = "queued" => queued' # None) /\ (act'[a].on = "running" => searchRunning')
      BY <2>1
    <3> QED
      <4>1. queued' \in [query : Queries, wide : BOOLEAN]
        BY <2>1
      <4>2. cancels' \subseteq 1..inflight'
        BY <2>1 DEF CancelsAreStale
      <4> QED
        BY <1>1, <1>2, <2>1, <3>1, <3>2, <4>1, <4>2 DEF listVars
  <2>5. CancelsAreStale' /\ QuestionsAreCurrent'
    BY <1>1, <1>2, <2>1 DEF CancelsAreStale, QuestionsAreCurrent, searchRunning, listVars
  <2>6. WaitersAreUp'
    BY <2>2, <2>3 DEF WaitersAreUp
  <2> QED
    BY <2>4, <2>5, <2>6
<1>3. CASE ~searchRunning
  <2>1. /\ inflight' = inflight + 1 /\ asked' = Question(q, f, wide) /\ call' = "sent"
        /\ error' = FALSE /\ latest' = FALSE /\ act' = Moved(acts, "asked", "running")
        /\ UNCHANGED <<shown, queued, cancels>> /\ queued = None
    BY <1>3 DEF runQuery, executeSearch, QuestionsAreCurrent
  <2>2. /\ act' \in [Actions -> Asking]
        /\ \A a \in Actions :
              /\ act'[a].pc = acts[a].pc /\ act'[a].dismissed = acts[a].dismissed
              /\ act'[a].pc # "flush" => act'[a].on = acts[a].on
              /\ act'[a].pc = "flush" => act'[a].on = IF acts[a].on = "asked" THEN "running" ELSE acts[a].on
    BY <2>1, Moving
  <2>4. TypeOK'
    <3>1. act' \in [Actions -> Acts]
      BY <2>2 DEF Asking, Acts
    <3>2. \A a \in Actions : act'[a].pc = "flush" =>
            (act'[a].on = "queued" => queued' # None) /\ (act'[a].on = "running" => searchRunning')
      BY <2>1, <2>2 DEF searchRunning
    <3>3. asked' \in Questions
      BY <2>1 DEF Question, Questions
    <3> QED
      <4>1. inflight' \in Nat /\ early' \in 0..inflight' /\ cancels' \subseteq 1..inflight'
        BY <2>1
      <4> QED
        BY <1>1, <2>1, <3>1, <3>2, <3>3, <4>1
  <2>5. CancelsAreStale' /\ QuestionsAreCurrent'
    BY <1>1, <1>3, <2>1 DEF CancelsAreStale, QuestionsAreCurrent, searchRunning, Question
  <2>6. WaitersAreUp'
    BY <2>2 DEF WaitersAreUp
  <2> QED
    BY <2>4, <2>5, <2>6
<1> QED
  BY <1>2, <1>3

\* A query by nobody in particular: the actions that wait go on waiting.
LEMMA QueryInv ==
  ASSUME IInv, NEW q \in Queries, NEW f \in Filters, NEW scope \in Scopes,
         runQuery(q, f, scope, act), filters' = f, UNCHANGED slotVars,
         up' \in BOOLEAN, up => up', events' \in 0..MaxEvents
  PROVE  IInv'
<1>1. act \in [Actions -> Asking] /\ \A a \in Actions : act[a].on # "asked"
  BY DEF IInv, TypeOK, Acts, Asking
<1>2. \A a \in Actions : act[a].pc = "flush" =>
           /\ act[a].on = "queued" => queued # None
           /\ act[a].on = "running" => searchRunning
           /\ ~act[a].dismissed => up'
  BY DEF IInv, TypeOK, WaitersAreUp
<1> QED
  BY <1>1, <1>2, RunQueryInv

LEMMA UserInv ==
  ASSUME IInv,
         \/ \E q \in Queries : Type(q)
         \/ \E f \in Filters : SetFilters(f)
         \/ ClearSearch \/ Refresh \/ Widen \/ Hide \/ ShowFresh \/ ShowResumed \/ TimerFires
  PROVE  IInv'
<1> USE DEF IInv
<1>0. /\ box \in Queries /\ filters \in Filters /\ widened \in Scopes /\ up \in BOOLEAN
      /\ events \in 0..MaxEvents /\ (Event => events' \in 0..MaxEvents)
  BY PaletteAssumption DEF TypeOK, Event
<1>1. ASSUME NEW q \in Queries, Type(q) PROVE IInv'
  BY <1>1, <1>0 DEF Type, TypeOK, listVars, queueVars, slotVars, searchRunning,
     CancelsAreStale, QuestionsAreCurrent, WaitersAreUp
<1>2. ASSUME NEW f \in Filters, SetFilters(f) PROVE IInv'
  BY <1>2, <1>0, QueryInv DEF SetFilters
<1>3. CASE ClearSearch
  BY <1>3, <1>0, QueryInv, PaletteAssumption DEF ClearSearch
<1>4. CASE Refresh
  BY <1>4, <1>0, QueryInv DEF Refresh
<1>5. CASE Widen
  <2>1. <<shown.query, shown.filters>> \in Scopes
    BY DEF TypeOK, Questions, Scopes
  <2> QED
    BY <1>5, <1>0, <2>1, QueryInv DEF Widen
<1>6. CASE Hide
  <2>1. act' = Dismissed /\ \A a \in Actions :
          /\ act'[a].pc = act[a].pc /\ act'[a].on = act[a].on /\ act'[a].dismissed /\ act'[a] \in Acts
    BY <1>6 DEF Hide, Dismissed, TypeOK, Acts
  <2>2. act' \in [Actions -> Acts]
    BY <2>1 DEF Dismissed
  <2> QED
    BY <1>6, <1>0, <2>1, <2>2 DEF Hide, TypeOK, listVars, queueVars, slotVars, searchRunning,
       CancelsAreStale, QuestionsAreCurrent, WaitersAreUp
<1>7. CASE ShowFresh
  BY <1>7, <1>0, QueryInv, PaletteAssumption DEF ShowFresh
<1>8. CASE ShowResumed
  <2>1. CASE resultsSettled
    <3>1. /\ UNCHANGED <<box, timer, listVars, widened, queueVars, act, call, cancels, lost>>
          /\ UNCHANGED <<filters, slotVars>> /\ up' = TRUE /\ events' \in 0..MaxEvents
      BY <1>8, <1>0, <2>1 DEF ShowResumed
    <3>2. TypeOK'
      BY <3>1 DEF TypeOK, listVars, queueVars, slotVars, searchRunning
    <3>3. CancelsAreStale' /\ QuestionsAreCurrent' /\ WaitersAreUp'
      BY <3>1 DEF listVars, queueVars, slotVars, searchRunning,
         CancelsAreStale, QuestionsAreCurrent, WaitersAreUp
    <3> QED
      BY <3>2, <3>3
  <2>2. CASE ~resultsSettled
    BY <1>8, <1>0, <2>2, QueryInv DEF ShowResumed
  <2> QED
    BY <2>1, <2>2
<1>9. CASE TimerFires
  BY <1>9, <1>0, QueryInv DEF TimerFires
<1> QED
  BY <1>1, <1>2, <1>3, <1>4, <1>5, <1>6, <1>7, <1>8, <1>9

LEMMA ActionInv ==
  ASSUME IInv, NEW a \in Actions, Start(a) \/ StartById(a) \/ Waits(a)
  PROVE  IInv'
<1> USE DEF IInv
<1>0. /\ box \in Queries /\ filters \in Filters /\ widened \in Scopes /\ up \in BOOLEAN
      /\ events \in 0..MaxEvents /\ (Event => events' \in 0..MaxEvents)
      /\ act \in [Actions -> Acts] /\ Idle \in Acts
  BY PaletteAssumption DEF TypeOK, Event, Idle, Acts
<1>1. CASE Start(a)
  <2>1. CASE resultsSettled
    <3>1. /\ up /\ UNCHANGED <<box, timer, listVars, widened, queueVars, call, cancels, lost>>
          /\ UNCHANGED <<filters, up, slotVars>> /\ events' \in 0..MaxEvents
      BY <1>1, <1>0, <2>1 DEF Start
    <3>2. /\ act' \in [Actions -> Acts] /\ act'[a].on = "free"
          /\ \A b \in Actions : b # a => act'[b] = act[b]
      <4> DEFINE waits == [Idle EXCEPT !.pc = "flush"]
      <4>1. act' = [act EXCEPT ![a] = waits]
        BY <1>1, <2>1 DEF Start
      <4>2. waits \in Acts /\ waits.on = "free"
        BY DEF Idle, Acts
      <4> HIDE DEF waits
      <4> QED
        BY <1>0, <4>1, <4>2
    <3>3. TypeOK'
      BY <3>1, <3>2 DEF TypeOK, listVars, queueVars, slotVars, searchRunning
    <3>4. CancelsAreStale' /\ QuestionsAreCurrent'
      BY <3>1 DEF listVars, queueVars, slotVars, searchRunning, CancelsAreStale, QuestionsAreCurrent
    <3>5. WaitersAreUp'
      BY <3>1, <3>2 DEF WaitersAreUp
    <3> QED
      BY <3>3, <3>4, <3>5
  <2>2. CASE ~resultsSettled
    <3> DEFINE asks == [Idle EXCEPT !.pc = "flush", !.on = "asked"]
               acts == [act EXCEPT ![a] = asks]
    <3>1. runQuery(box, filters, widened, acts) /\ UNCHANGED <<filters, slotVars>>
      BY <1>1, <2>2 DEF Start
    <3>2. asks \in Asking /\ asks.pc = "flush" /\ asks.on = "asked" /\ ~asks.dismissed
      BY DEF Idle, Asking
    <3>3. acts \in [Actions -> Asking] /\ \A b \in Actions : acts[b] = IF b = a THEN asks ELSE act[b]
      BY <1>0, <3>2 DEF Asking, Acts
    <3>4. up /\ up'
      BY <1>1 DEF Start
    <3> HIDE DEF asks, acts
    <3>5. \A b \in Actions : acts[b].pc = "flush" =>
           /\ acts[b].on = "queued" => queued # None
           /\ acts[b].on = "running" => searchRunning
           /\ ~acts[b].dismissed => up'
      BY <3>2, <3>3, <3>4 DEF TypeOK
    <3>6. \A b \in Actions : acts[b].on = "asked" => acts[b].pc = "flush"
      BY <3>2, <3>3, <1>0 DEF Acts
    <3> QED
      BY <1>0, <1>1, <3>1, <3>3, <3>4, <3>5, <3>6, RunQueryInv DEF Start
  <2> QED
    BY <2>1, <2>2
<1>2. CASE StartById(a)
  <2>1. /\ act' = [act EXCEPT ![a] = [Idle EXCEPT !.pc = "acts"]]
        /\ [Idle EXCEPT !.pc = "acts"] \in Acts
    BY <1>2 DEF StartById, Idle, Acts
  <2> QED
    BY <1>2, <1>0, <2>1 DEF StartById, TypeOK, listVars, queueVars, slotVars, searchRunning,
       CancelsAreStale, QuestionsAreCurrent, WaitersAreUp, Idle
<1>3. CASE Resume(a)
  <2>1. PICK x : /\ x = IF MayAct(a) THEN [act[a] EXCEPT !.pc = "acts"] ELSE Idle
                 /\ act' = [act EXCEPT ![a] = x]
    BY <1>3 DEF Resume
  <2>2. x \in Acts /\ x.pc # "flush"
    BY <1>0, <2>1 DEF Idle, Acts
  <2>3. /\ act' \in [Actions -> Acts] /\ act'[a].pc # "flush"
        /\ \A b \in Actions : b # a => act'[b] = act[b]
    BY <1>0, <2>1, <2>2
  <2>4. /\ UNCHANGED <<box, filters, timer, listVars, widened, up, queueVars, call, slotVars, cancels, lost>>
        /\ UNCHANGED events
    BY <1>3 DEF Resume
  <2>5. TypeOK'
    BY <1>0, <2>3, <2>4 DEF TypeOK, listVars, queueVars, slotVars, searchRunning
  <2>6. CancelsAreStale' /\ QuestionsAreCurrent'
    BY <2>4 DEF CancelsAreStale, QuestionsAreCurrent, listVars, queueVars, slotVars, searchRunning
  <2>7. WaitersAreUp'
    BY <2>3, <2>4 DEF WaitersAreUp
  <2> QED
    BY <2>5, <2>6, <2>7
<1>4. CASE ActFails(a)
  <2>1. Idle \in Acts /\ Idle.pc # "flush"
    BY DEF Idle, Acts
  <2>2. /\ act' \in [Actions -> Acts] /\ act'[a].pc # "flush"
        /\ \A b \in Actions : b # a => act'[b] = act[b]
    BY <1>4, <1>0, <2>1 DEF ActFails
  <2>3. /\ error' \in BOOLEAN
        /\ UNCHANGED <<box, filters, timer, shown, latest, widened, up, queueVars, call, slotVars, cancels>>
        /\ UNCHANGED <<lost, events>>
    BY <1>4 DEF ActFails, TypeOK
  <2>4. TypeOK'
    BY <1>0, <2>2, <2>3 DEF TypeOK, queueVars, slotVars, searchRunning
  <2>5. CancelsAreStale' /\ QuestionsAreCurrent'
    BY <2>3 DEF CancelsAreStale, QuestionsAreCurrent, queueVars, slotVars, searchRunning
  <2>6. WaitersAreUp'
    BY <2>2, <2>3 DEF WaitersAreUp
  <2> QED
    BY <2>4, <2>5, <2>6
<1>5. CASE ActHides(a)
  <2>1. act' = [Dismissed EXCEPT ![a] = Idle]
    BY <1>5 DEF ActHides
  <2>2. /\ Dismissed \in [Actions -> Acts]
        /\ \A b \in Actions : /\ Dismissed[b].pc = act[b].pc /\ Dismissed[b].on = act[b].on
                             /\ Dismissed[b].dismissed
    BY <1>0 DEF Dismissed, Acts
  <2>3. Idle \in Acts /\ Idle.pc # "flush"
    BY DEF Idle, Acts
  <2>4. /\ act' \in [Actions -> Acts] /\ act'[a].pc # "flush"
        /\ \A b \in Actions : b # a =>
             act'[b].pc = act[b].pc /\ act'[b].on = act[b].on /\ act'[b].dismissed
    BY <2>1, <2>2, <2>3
  <2>5. /\ up' = FALSE /\ timer' = FALSE
        /\ UNCHANGED <<box, filters, listVars, widened, queueVars, call, slotVars, cancels, lost, events>>
    BY <1>5 DEF ActHides
  <2>6. TypeOK'
    BY <1>0, <2>4, <2>5 DEF TypeOK, listVars, queueVars, slotVars, searchRunning
  <2>7. CancelsAreStale' /\ QuestionsAreCurrent'
    BY <2>5 DEF CancelsAreStale, QuestionsAreCurrent, listVars, queueVars, slotVars, searchRunning
  <2>8. WaitersAreUp'
    BY <2>4, <2>5 DEF WaitersAreUp
  <2> QED
    BY <2>6, <2>7, <2>8
<1>6. CASE ActRefreshes(a)
  <2> DEFINE acts == [act EXCEPT ![a] = Idle]
  <2>1. acts \in [Actions -> Asking] /\ \A b \in Actions : acts[b] = IF b = a THEN Idle ELSE act[b]
    BY <1>0 DEF Asking, Acts
  <2>2. runQuery(box, filters, widened, acts) /\ UNCHANGED <<filters, up, slotVars, events>>
    BY <1>6 DEF ActRefreshes
  <2> HIDE DEF acts
  <2>3. \A b \in Actions : acts[b].pc = "flush" =>
         /\ acts[b].on = "queued" => queued # None
         /\ acts[b].on = "running" => searchRunning
         /\ ~acts[b].dismissed => up'
    BY <2>1, <2>2 DEF TypeOK, WaitersAreUp, Idle
  <2>4. \A b \in Actions : acts[b].on = "asked" => acts[b].pc = "flush"
    BY <2>1, <1>0 DEF Acts
  <2> QED
    BY <1>0, <2>1, <2>2, <2>3, <2>4, RunQueryInv
<1> QED
  BY <1>1, <1>2, <1>3, <1>4, <1>5, <1>6 DEF Waits

LEMMA BackendInv ==
  ASSUME IInv, Register \/ SearchEnds \/ (\E t \in cancels : Cancel(t)) \/ Answer
  PROVE  IInv'
<1> USE DEF IInv
<1>1. CASE Register
  BY <1>1 DEF Register, TypeOK, listVars, queueVars, searchRunning,
     CancelsAreStale, QuestionsAreCurrent, WaitersAreUp
<1>2. CASE SearchEnds
  BY <1>2 DEF SearchEnds, TypeOK, listVars, queueVars, searchRunning,
     CancelsAreStale, QuestionsAreCurrent, WaitersAreUp
<1>3. ASSUME NEW t \in cancels, Cancel(t) PROVE IInv'
  <2>1. /\ t \in 1..inflight /\ cancels' = cancels \ {t} /\ (t = inflight => queued # None)
        /\ UNCHANGED <<box, filters, timer, listVars, widened, up, queueVars, act, call, lost, events>>
    BY <1>3 DEF Cancel, TypeOK, CancelsAreStale
  <2>2. CASE call = "searching" /\ t = inflight
    BY <1>3, <2>1, <2>2 DEF Cancel, TypeOK, listVars, queueVars, searchRunning,
       CancelsAreStale, QuestionsAreCurrent, WaitersAreUp
  <2>3. CASE ~(call = "searching" /\ t = inflight)
    <3>1. early' = (IF t > early THEN t ELSE early) /\ UNCHANGED token
      BY <1>3, <2>3 DEF Cancel
    <3>2. early' \in 0..inflight /\ early' \in {t, early}
      BY <2>1, <3>1 DEF TypeOK
    <3> QED
      BY <2>1, <3>1, <3>2 DEF TypeOK, listVars, queueVars, searchRunning,
         CancelsAreStale, QuestionsAreCurrent, WaitersAreUp
  <2> QED
    BY <2>2, <2>3
<1>4. CASE Answer
  <2> DEFINE m == Moved(act, "running", "free")
  <2>1. act \in [Actions -> Asking] /\ \A a \in Actions : act[a].on # "asked"
    BY DEF TypeOK, Acts, Asking
  <2>2. /\ m \in [Actions -> Asking]
        /\ \A a \in Actions :
              /\ m[a].pc = act[a].pc /\ m[a].dismissed = act[a].dismissed
              /\ m[a].pc # "flush" => m[a].on = act[a].on
              /\ m[a].pc = "flush" => m[a].on = IF act[a].on = "running" THEN "free" ELSE act[a].on
    BY <2>1, Moving
  <2>3. /\ act' \in [Actions -> Asking]
        /\ \A a \in Actions :
              /\ act'[a].pc = m[a].pc /\ act'[a].dismissed = m[a].dismissed
              /\ act'[a].pc # "flush" => act'[a].on = m[a].on
              /\ act'[a].pc = "flush" => act'[a].on = IF m[a].on = "queued" THEN "running" ELSE m[a].on
    <3>1. act' = Moved(m, "queued", "running")
      BY <1>4 DEF Answer
    <3> HIDE DEF m
    <3> QED
      BY <2>2, <3>1, Moving
  <2>4. act' \in [Actions -> Acts]
    BY <2>1, <2>2, <2>3 DEF Asking, Acts
  <2>5. searchRunning /\ queued' = None
    BY <1>4 DEF Answer, searchRunning
  <2>6. \A a \in Actions : act'[a].pc = "flush" =>
          act'[a].on # "queued" /\ (act'[a].on = "running" => queued # None)
    BY <2>2, <2>3 DEF TypeOK
  <2>7. WaitersAreUp'
    BY <1>4, <2>2, <2>3 DEF Answer, WaitersAreUp
  <2> HIDE DEF m
  <2>8. CASE queued = None
    <3>1. /\ call' = "none" /\ UNCHANGED <<inflight, asked>> /\ ~latest
          /\ UNCHANGED <<box, filters, timer, widened, up, slotVars, cancels, lost, events>>
          /\ shown' \in {shown, asked} /\ latest' \in BOOLEAN /\ error' \in BOOLEAN
          /\ latest' => shown' = asked
      BY <1>4, <2>8, <2>5 DEF Answer, TypeOK, QuestionsAreCurrent
    <3> QED
      BY <2>4, <2>5, <2>6, <2>7, <2>8, <3>1 DEF TypeOK, slotVars, searchRunning,
         CancelsAreStale, QuestionsAreCurrent
  <2>9. CASE queued # None
    <3>1. /\ call' = "sent" /\ inflight' = inflight + 1
          /\ asked' = Question(queued.query, filters, queued.wide)
          /\ UNCHANGED <<box, filters, timer, widened, up, slotVars, cancels, lost, events>>
          /\ shown' \in {shown, asked} /\ latest' = FALSE /\ error' = FALSE
          /\ call \in {"answered", "failed", "cancelled"}
      BY <1>4, <2>9 DEF Answer
    <3>2. asked' \in Questions
      BY <3>1, <2>9 DEF TypeOK, Question, Questions
    <3> QED
      <4>0. CancelsAreStale'
        BY <2>5, <2>9, <3>1 DEF TypeOK, slotVars, CancelsAreStale
      <4>1. QuestionsAreCurrent'
        BY <2>5, <2>9, <3>1 DEF QuestionsAreCurrent, Question
      <4>2. inflight' \in Nat /\ early' \in 0..inflight' /\ cancels' \subseteq 1..inflight'
        BY <3>1 DEF TypeOK, slotVars
      <4>3. TypeOK'
        BY <2>4, <2>5, <2>6, <3>1, <3>2, <4>2 DEF TypeOK, slotVars, searchRunning
      <4> QED
        BY <2>7, <4>0, <4>1, <4>3
  <2> QED
    BY <2>8, <2>9
<1> QED
  BY <1>1, <1>2, <1>3, <1>4

LEMMA StepInv == IInv /\ [Next]_vars => IInv'
<1> SUFFICES ASSUME IInv, [Next]_vars PROVE IInv'
  OBVIOUS
<1>1. CASE UNCHANGED vars
  BY <1>1 DEF IInv, TypeOK, vars, listVars, queueVars, slotVars, searchRunning,
     CancelsAreStale, QuestionsAreCurrent, WaitersAreUp
<1>2. CASE Next
  BY <1>2, UserInv, ActionInv, BackendInv DEF Next, User
<1> QED
  BY <1>1, <1>2

LEMMA InitInv == Init => IInv
<1> SUFFICES ASSUME Init PROVE IInv
  OBVIOUS
<1>1. /\ shown \in Questions /\ asked \in Questions /\ act \in [Actions -> Acts]
      /\ \A a \in Actions : act[a].pc = "idle"
  BY PaletteAssumption DEF Init, Question, Questions, Idle, Acts
<1>2. TypeOK
  <2>1. inflight \in Nat /\ early \in 0..inflight /\ cancels \subseteq 1..inflight /\ events \in 0..MaxEvents
    BY PaletteAssumption DEF Init
  <2>2. box \in Queries /\ filters \in Filters /\ widened \in Scopes
    BY PaletteAssumption DEF Init, Scopes
  <2> QED
    BY <1>1, <2>1, <2>2 DEF Init, TypeOK
<1>3. <<Blank, NoFilter>> # None
  BY PaletteAssumption
<1>4. CancelsAreStale /\ WaitersAreUp
  BY <1>1 DEF Init, CancelsAreStale, WaitersAreUp
<1>5. QuestionsAreCurrent
  BY <1>3 DEF Init, QuestionsAreCurrent, Question, searchRunning
<1> QED
  BY <1>2, <1>4, <1>5 DEF IInv

LEMMA Invariance == Spec => []IInv
BY InitInv, StepInv, PTL DEF Spec

\* A query moves no action on.
LEMMA QueryKeepsSteps ==
  ASSUME NEW acts \in [Actions -> Asking], NEW q, NEW f, NEW scope, runQuery(q, f, scope, acts)
  PROVE  \A a \in Actions : act'[a].pc = acts[a].pc
<1> DEFINE m == Moved(acts, "queued", "free")
<1>1. m \in [Actions -> Asking] /\ \A a \in Actions : m[a].pc = acts[a].pc
  BY Moving
<1>2. CASE searchRunning
  <2>1. act' = Moved(m, "asked", "queued")
    BY <1>2 DEF runQuery
  <2> HIDE DEF m
  <2> QED
    BY <1>1, <2>1, Moving
<1>3. CASE ~searchRunning
  <2>1. act' = Moved(acts, "asked", "running")
    BY <1>3 DEF runQuery, executeSearch
  <2> QED
    BY <2>1, Moving
<1> QED
  BY <1>2, <1>3

\* Only its resumption takes a waiting action on.
LEMMA OnlyResumeActs ==
  ASSUME IInv, [Next]_vars, NEW a \in Actions, act[a].pc = "flush", act'[a].pc = "acts"
  PROVE  Resume(a) /\ MayAct(a)
<1>0. act \in [Actions -> Acts] /\ act \in [Actions -> Asking]
  BY DEF IInv, TypeOK, Acts, Asking
<1>1. ~UNCHANGED act
  OBVIOUS
<1>2. \A q, f, scope : ~runQuery(q, f, scope, act)
  BY <1>0, QueryKeepsSteps
<1>3. ~\E q \in Queries : Type(q)
  BY <1>1 DEF Type
<1>4. ~\E f \in Filters : SetFilters(f)
  BY <1>2 DEF SetFilters
<1>5. ~ClearSearch /\ ~Refresh /\ ~Widen /\ ~ShowFresh /\ ~TimerFires
  BY <1>2 DEF ClearSearch, Refresh, Widen, ShowFresh, TimerFires
<1>6. ~ShowResumed
  BY <1>1, <1>2 DEF ShowResumed
<1>7. ~Hide
  BY <1>0 DEF Hide, Dismissed, Acts
<1>8. ~Register /\ ~SearchEnds /\ ~\E t \in cancels : Cancel(t)
  BY <1>1 DEF Register, SearchEnds, Cancel
<1>9. ~Answer
  <2> DEFINE m == Moved(act, "running", "free")
  <2> SUFFICES ASSUME Answer PROVE FALSE
    OBVIOUS
  <2>1. m \in [Actions -> Asking] /\ m[a].pc = "flush"
    BY <1>0, Moving
  <2>2. act' = Moved(m, "queued", "running")
    BY DEF Answer
  <2> HIDE DEF m
  <2> QED
    BY <2>1, <2>2, Moving
<1>10. ASSUME NEW b \in Actions, Start(b) \/ StartById(b) \/ ActFails(b) \/ ActHides(b) \/ ActRefreshes(b)
       PROVE  FALSE
  <2>1. CASE b # a
    <3>1. CASE Start(b)
      <4> DEFINE acts == [act EXCEPT ![b] = [Idle EXCEPT !.pc = "flush", !.on = "asked"]]
      <4>1. acts \in [Actions -> Asking] /\ acts[a] = act[a]
        BY <1>0, <2>1 DEF Idle, Asking
      <4>2. ~runQuery(box, filters, widened, acts)
        BY <4>1, QueryKeepsSteps
      <4> QED
        BY <1>0, <2>1, <3>1, <4>2 DEF Start
    <3>2. CASE ActRefreshes(b)
      <4>1. [act EXCEPT ![b] = Idle] \in [Actions -> Asking] /\ [act EXCEPT ![b] = Idle][a] = act[a]
        BY <1>0, <2>1 DEF Idle, Asking
      <4> QED
        BY <3>2, <4>1, QueryKeepsSteps DEF ActRefreshes
    <3>3. CASE StartById(b) \/ ActFails(b)
      BY <1>0, <2>1, <3>3 DEF StartById, ActFails
    <3>4. CASE ActHides(b)
      BY <1>0, <2>1, <3>4 DEF ActHides, Dismissed, Acts
    <3> QED
      BY <1>10, <3>1, <3>2, <3>3, <3>4
  <2>2. CASE b = a
    BY <1>10, <2>2 DEF Start, StartById, ActFails, ActHides, ActRefreshes
  <2> QED
    BY <2>1, <2>2
<1>11. \A b \in Actions : Resume(b) => b = a /\ MayAct(b)
  BY <1>0 DEF Resume, Idle, Acts
<1> QED
  BY <1>1, <1>3, <1>4, <1>5, <1>6, <1>7, <1>8, <1>9, <1>10, <1>11 DEF Next, User, Waits, vars

-----------------------------------------------------------------------------
(* The theorems. *)

\* The state of the palette's queue and of the backend's slot stays well-typed, and
\* an action waits only for a search that runs or is queued (runSearch).
THEOREM PaletteTyped == Spec => []TypeOK
BY Invariance, PTL DEF IInv

\* A cancel that overtakes its search, or comes after the next one has taken the
\* slot, never stops the search the user waits for (InflightSearch).
THEOREM CancelsOnlyStale == Spec => []OnlyStaleIsCancelled
<1>1. IInv => OnlyStaleIsCancelled
  BY DEF IInv, CancelsAreStale, OnlyStaleIsCancelled
<1> QED
  BY <1>1, Invariance, PTL

\* A waiting action goes on only on the list of what is typed and of the chips set,
\* in the showing it was pressed in (settleForAction).
THEOREM ActionsSeeWhatIsTyped == Spec => ActsOnWhatIsTyped
<1>1. ASSUME IInv, [Next]_vars, NEW a \in Actions, act[a].pc = "flush", act'[a].pc = "acts"
      PROVE  /\ shown = Question(box, filters, widened = <<box, filters>>)
             /\ ~timer /\ up
  <2>1. Resume(a) /\ MayAct(a)
    BY <1>1, OnlyResumeActs
  <2>2. ~timer /\ ~searchRunning /\ queued = None /\ latest /\ shown.query = box /\ up
    BY <1>1, <2>1 DEF MayAct, resultsSettled, IInv, WaitersAreUp
  <2>3. shown \in Questions /\ shown = asked
    BY <1>1, <2>2 DEF IInv, TypeOK, QuestionsAreCurrent
  <2>4. shown.filters = filters /\ shown.wide = (widened = <<box, filters>>)
    BY <1>1, <2>2, <2>3 DEF IInv, QuestionsAreCurrent
  <2> QED
    BY <2>2, <2>3, <2>4 DEF Question, Questions
<1>2. IInv /\ [Next]_vars =>
        [\A a \in Actions : act[a].pc = "flush" /\ act'[a].pc = "acts" =>
          /\ shown = Question(box, filters, widened = <<box, filters>>)
          /\ ~timer /\ up]_vars
  BY <1>1
<1> QED
  BY <1>2, Invariance, PTL DEF Spec, ActsOnWhatIsTyped

\* The list a palette takes for settled answers the box, the chips and the scope on screen:
\* for the actions, and for a palette that is shown again and looks whether it must search.
SettledIsCurrent == resultsSettled => shown = Question(box, filters, widened = <<box, filters>>)

\* No answer that came late, was dropped or was for other chips or another scope is ever
\* taken for the settled one (searchQuery.svelte.ts, resultsSettled).
THEOREM SettledListIsTheAnswer == Spec => []SettledIsCurrent
<1>1. IInv => SettledIsCurrent
  <2> SUFFICES ASSUME IInv, resultsSettled
               PROVE  shown = Question(box, filters, widened = <<box, filters>>)
    BY DEF SettledIsCurrent
  <2>1. ~searchRunning /\ queued = None /\ latest /\ shown.query = box
    BY DEF resultsSettled
  <2>2. shown \in Questions /\ shown = asked
    BY <2>1 DEF IInv, TypeOK, QuestionsAreCurrent
  <2>3. shown.filters = filters /\ shown.wide = (widened = <<box, filters>>)
    BY <2>1, <2>2 DEF IInv, QuestionsAreCurrent
  <2> QED
    BY <2>1, <2>2, <2>3 DEF Question, Questions
<1> QED
  BY <1>1, Invariance, PTL
=============================================================================
