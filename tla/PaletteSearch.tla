--------------------------- MODULE PaletteSearch ---------------------------
(***************************************************************************)
(* The palette's search box: the latest-only queue of the web view         *)
(* (searchQuery.svelte.ts), the actions that wait for its results          *)
(* (searchActions.ts), and the cancellation slot of the backend            *)
(* (state/search_cancel.rs) that a separate call reaches.  The web view is *)
(* one thread: what a handler does up to its first await is one step.  The *)
(* search and the cancel calls travel and are handled in any order.        *)
(*                                                                         *)
(* A list is the question it answers: its query, its filters, and whether  *)
(* it was widened past the first page or to the whole history.  A ticket   *)
(* that is compared with the newest is kept as the outcome, `latest'; the  *)
(* numbers themselves are what the cancel calls carry.                     *)
(***************************************************************************)
EXTENDS Naturals

CONSTANTS
  Queries,    \* what may be in the box
  Blank,      \* the empty query, whose list is the recent entries
  Filters,    \* the filter sets
  NoFilter,
  Actions,    \* actions under way in the web view
  None,
  MaxEvents   \* bound on what the user and the capture do

ASSUME PaletteAssumption ==
  /\ Blank \in Queries /\ NoFilter \in Filters /\ MaxEvents \in Nat
  /\ None \notin (Queries \X Filters) \cup [query : Queries, wide : BOOLEAN]

VARIABLES
  box, filters,   \* what the user sees: the typed query and the chips
  timer,          \* a debounced search is armed; it would search for the box
  shown,          \* the question the list on screen answers
  error,          \* an error is on screen
  latest,         \* appliedTicket === inflight
  widened,        \* the scope of expandedLimit and fullHistoryScope
  up,             \* the palette is on screen
  inflight,       \* the ticket of the newest search sent
  asked,          \* the question of that search
  queued,         \* queuedSearch
  act,            \* per action: its step, what it waits for, its showing
  call,           \* the search call: where it is
  token,          \* its token is cancelled
  early,          \* Slot::cancelled_early; 0 is none
  cancels,        \* the tickets of the cancel calls on their way
  lost,           \* history: an action on a remembered entry dropped a debounced search
  events

listVars == <<shown, error, latest>>
queueVars == <<inflight, asked, queued>>
slotVars == <<token, early>>
vars == <<box, filters, timer, listVars, widened, up, queueVars, act, call, slotVars, cancels, lost, events>>

Question(q, f, w) == [query |-> q, filters |-> f, wide |-> w]
Idle == [pc |-> "idle", on |-> "free", dismissed |-> FALSE]

\* The palette mounts and asks for the recent entries.
Init ==
  /\ box = Blank /\ filters = NoFilter /\ timer = FALSE
  /\ shown = Question(None, NoFilter, FALSE) /\ error = FALSE /\ latest = FALSE
  /\ widened = None /\ up = TRUE
  /\ inflight = 1 /\ asked = Question(Blank, NoFilter, FALSE) /\ queued = None
  /\ act = [a \in Actions |-> Idle]
  /\ call = "sent" /\ token = FALSE /\ early = 0 /\ cancels = {} /\ lost = FALSE /\ events = 0

-----------------------------------------------------------------------------

searchRunning == call # "none"

\* Nothing is debounced, running or queued, the latest search applied, and it
\* was one for the query in the box.
resultsSettled == ~timer /\ ~searchRunning /\ queued = None /\ latest /\ shown.query = box

\* Of the actions that wait, those for `from' go on to wait for `to'.
Moved(acts, from, to) ==
  [a \in Actions |-> IF acts[a].pc = "flush" /\ acts[a].on = from
                       THEN [acts[a] EXCEPT !.on = to] ELSE acts[a]]

\* executeSearch up to its await: the filters are the ones of that moment.
executeSearch(q, w, fs) ==
  /\ inflight' = inflight + 1 /\ asked' = Question(q, fs, w) /\ call' = "sent"
  /\ error' = FALSE /\ latest' = FALSE /\ UNCHANGED shown

\* runQuery and runSearch: the search runs, or it takes the place of the queued
\* one and the running one is cancelled.  A widened scope is kept for the
\* question it was widened for.  Whoever waits for the search is in `acts',
\* waiting for what was `asked'.
runQuery(q, fs, scope, acts) ==
  LET wide == scope = <<q, fs>> IN
  /\ box' = q /\ timer' = FALSE /\ lost' = FALSE
  /\ widened' = IF wide THEN scope ELSE None
  /\ IF searchRunning
       THEN /\ queued' = [query |-> q, wide |-> wide]
            /\ act' = Moved(Moved(acts, "queued", "free"), "asked", "queued")
            /\ cancels' = cancels \cup {inflight}
            /\ UNCHANGED <<inflight, asked, call, listVars>>
       ELSE /\ executeSearch(q, wide, fs)
            /\ act' = Moved(acts, "asked", "running")
            /\ UNCHANGED <<queued, cancels>>

Event == events < MaxEvents /\ events' = events + 1

-----------------------------------------------------------------------------
(* The user, and captures that refresh the list. *)

\* scheduleQuery
Type(q) ==
  /\ up /\ Event /\ box' = q /\ timer' = TRUE
  /\ UNCHANGED <<filters, listVars, widened, up, queueVars, act, call, slotVars, cancels, lost>>

\* The debounce is over.
TimerFires ==
  /\ timer /\ runQuery(box, filters, widened, act)
  /\ UNCHANGED <<filters, up, slotVars, events>>

\* A chip is changed, or everything is cleared.
SetFilters(f) ==
  /\ up /\ Event /\ filters' = f /\ runQuery(box, f, widened, act)
  /\ UNCHANGED <<up, slotVars>>

ClearSearch ==
  /\ up /\ Event /\ filters' = NoFilter /\ runQuery(Blank, NoFilter, widened, act)
  /\ UNCHANGED <<up, slotVars>>

\* A capture, a change of another window's, a retry: also while hidden.
Refresh ==
  /\ Event /\ runQuery(box, filters, widened, act)
  /\ UNCHANGED <<filters, up, slotVars>>

\* loadMoreResults and searchFullHistory widen the question on screen.
Widen ==
  /\ up /\ Event /\ ~shown.wide /\ ~timer /\ ~searchRunning /\ latest
  /\ runQuery(box, filters, <<shown.query, shown.filters>>, act)
  /\ UNCHANGED <<filters, up, slotVars>>

\* Escape, a click elsewhere, or an action that hides the palette.
Dismissed == [a \in Actions |-> [act[a] EXCEPT !.dismissed = TRUE]]

Hide ==
  /\ up /\ Event /\ up' = FALSE /\ timer' = FALSE /\ act' = Dismissed
  /\ UNCHANGED <<box, filters, listVars, widened, queueVars, call, slotVars, cancels, lost>>

\* handleShown: a fresh session, or the last one resumed.
ShowFresh ==
  /\ ~up /\ Event /\ up' = TRUE /\ filters' = NoFilter /\ runQuery(Blank, NoFilter, widened, act)
  /\ UNCHANGED slotVars

\* Seeded fault: a resumed palette trusts the list it finds.
ShowTrusting ==
  /\ ~up /\ Event /\ up' = TRUE
  /\ UNCHANGED <<box, filters, timer, listVars, widened, queueVars, act, call, slotVars, cancels, lost>>

ShowResumed ==
  /\ ~up /\ Event /\ up' = TRUE
  /\ IF resultsSettled
       THEN UNCHANGED <<box, timer, listVars, widened, queueVars, act, call, cancels, lost>>
       ELSE runQuery(box, filters, widened, act)
  /\ UNCHANGED <<filters, slotVars>>

-----------------------------------------------------------------------------
(* Actions on the selection. *)

\* settleForAction, flushPendingQuery up to its await.
Start(a) ==
  /\ up /\ act[a].pc = "idle" /\ Event
  /\ IF resultsSettled
       THEN /\ act' = [act EXCEPT ![a] = [Idle EXCEPT !.pc = "flush"]]
            /\ UNCHANGED <<box, timer, listVars, widened, queueVars, call, cancels, lost>>
       ELSE runQuery(box, filters, widened,
                     [act EXCEPT ![a] = [Idle EXCEPT !.pc = "flush", !.on = "asked"]])
  /\ UNCHANGED <<filters, up, slotVars>>

\* Seeded fault: the list is for the typed query, and that is enough.
MayActOnQuery(a) == shown.query = box /\ ~act[a].dismissed

\* After the wait: the list is settled, in the showing the action began in.
MayAct(a) == resultsSettled /\ ~act[a].dismissed

Resume(a) ==
  /\ act[a].pc = "flush" /\ act[a].on = "free"
  /\ act' = [act EXCEPT ![a] = IF MayAct(a) THEN [@ EXCEPT !.pc = "acts"] ELSE Idle]
  /\ UNCHANGED <<box, filters, timer, listVars, widened, up, queueVars, call, slotVars, cancels, lost, events>>

\* An action on an entry the menu remembered, whatever list is on screen.
StartById(a) ==
  /\ up /\ act[a].pc = "idle" /\ Event
  /\ timer' = FALSE /\ lost' = (lost \/ timer)
  /\ act' = [act EXCEPT ![a] = [Idle EXCEPT !.pc = "acts"]]
  /\ UNCHANGED <<box, filters, listVars, widened, up, queueVars, call, slotVars, cancels>>

\* Its command comes back: with a failure to show, or one of a palette that is
\* gone; a paste or a copy hides the palette; any other change refreshes it.
ActFails(a) ==
  /\ act[a].pc = "acts" /\ act' = [act EXCEPT ![a] = Idle]
  /\ \/ error' = TRUE
     \/ act[a].dismissed /\ UNCHANGED error
  /\ UNCHANGED <<box, filters, timer, shown, latest, widened, up, queueVars, call, slotVars, cancels, lost, events>>

ActHides(a) ==
  /\ act[a].pc = "acts" /\ act' = [Dismissed EXCEPT ![a] = Idle]
  /\ up' = FALSE /\ timer' = FALSE
  /\ UNCHANGED <<box, filters, listVars, widened, queueVars, call, slotVars, cancels, lost, events>>

ActRefreshes(a) ==
  /\ act[a].pc = "acts" /\ runQuery(box, filters, widened, [act EXCEPT ![a] = Idle])
  /\ UNCHANGED <<filters, up, slotVars, events>>

-----------------------------------------------------------------------------
(* The backend: search_clipboard, cancel_search and their slot. *)

\* register takes the held cancel, its own or an older one.
Register ==
  /\ call = "sent" /\ call' = "searching"
  /\ token' = (early = inflight) /\ early' = 0
  /\ UNCHANGED <<box, filters, timer, listVars, widened, up, queueVars, act, cancels, lost, events>>

\* The search ends; its guard gives the slot back.
SearchEnds ==
  /\ call = "searching" /\ token' = FALSE
  /\ call' \in IF token THEN {"cancelled"} ELSE {"answered", "failed"}
  /\ UNCHANGED <<box, filters, timer, listVars, widened, up, queueVars, act, early, cancels, lost, events>>

\* Seeded fault: a cancel stops whatever search is running.
CancelsAny(t) ==
  /\ t \in cancels /\ cancels' = cancels \ {t}
  /\ token' = (call = "searching") /\ UNCHANGED early
  /\ UNCHANGED <<box, filters, timer, listVars, widened, up, queueVars, act, call, lost, events>>

\* A cancel reaches its search, or it is held.
Cancel(t) ==
  /\ t \in cancels /\ cancels' = cancels \ {t}
  /\ IF call = "searching" /\ t = inflight
       THEN token' = TRUE /\ UNCHANGED early
       ELSE early' = (IF t > early THEN t ELSE early) /\ UNCHANGED token
  /\ UNCHANGED <<box, filters, timer, listVars, widened, up, queueVars, act, call, lost, events>>

isFreshest == queued = None

\* The answer reaches the web view: it is shown, or its failure is, if nothing
\* newer waits; then the queued request runs.
Answer ==
  /\ call \in {"answered", "failed", "cancelled"}
  /\ LET applies == call = "answered" /\ isFreshest IN
     /\ shown' = IF applies THEN asked ELSE shown
     /\ IF queued # None
          THEN /\ inflight' = inflight + 1 /\ call' = "sent"
               /\ asked' = Question(queued.query, filters, queued.wide)
               /\ latest' = FALSE /\ error' = FALSE
          ELSE /\ UNCHANGED <<inflight, asked>> /\ call' = "none"
               /\ latest' = (latest \/ applies) /\ error' = (error \/ ~applies)
  /\ queued' = None
  /\ act' = Moved(Moved(act, "running", "free"), "queued", "running")
  /\ UNCHANGED <<box, filters, timer, widened, up, slotVars, cancels, lost, events>>

-----------------------------------------------------------------------------

Waits(a) == Resume(a) \/ ActFails(a) \/ ActHides(a) \/ ActRefreshes(a)

User ==
  \/ \E q \in Queries : Type(q)
  \/ \E f \in Filters : SetFilters(f)
  \/ ClearSearch \/ Refresh \/ Widen \/ Hide \/ ShowFresh \/ ShowResumed
  \/ \E a \in Actions : Start(a) \/ StartById(a)

Next ==
  \/ User \/ TimerFires \/ \E a \in Actions : Waits(a)
  \/ Register \/ SearchEnds \/ (\E t \in cancels : Cancel(t)) \/ Answer

Spec == Init /\ [][Next]_vars

\* The debounce ends, calls are delivered, and searches and commands return.
FairSpec ==
  /\ Spec
  /\ WF_vars(TimerFires) /\ WF_vars(Register) /\ WF_vars(SearchEnds) /\ WF_vars(Answer)
  /\ \A a \in Actions : WF_vars(Waits(a))

-----------------------------------------------------------------------------

Questions == [query : Queries \cup {None}, filters : Filters, wide : BOOLEAN]
Scopes == {None} \cup (Queries \cup {None}) \X Filters
Acts == [pc : {"idle", "flush", "acts"}, on : {"free", "queued", "running"}, dismissed : BOOLEAN]

\* The types, and that whoever waits for a search waits for one that will end.
TypeOK ==
  /\ box \in Queries /\ filters \in Filters /\ timer \in BOOLEAN /\ up \in BOOLEAN
  /\ shown \in Questions /\ asked \in Questions /\ error \in BOOLEAN /\ latest \in BOOLEAN
  /\ widened \in Scopes /\ queued \in {None} \cup [query : Queries, wide : BOOLEAN]
  /\ inflight \in Nat /\ early \in 0..inflight /\ cancels \subseteq 1..inflight
  /\ call \in {"none", "sent", "searching", "answered", "failed", "cancelled"}
  /\ act \in [Actions -> Acts]
  /\ \A a \in Actions : act[a].pc = "flush" =>
       (act[a].on = "queued" => queued # None) /\ (act[a].on = "running" => searchRunning)
  /\ token \in BOOLEAN /\ lost \in BOOLEAN /\ events \in 0..MaxEvents

\* Enter, delete and pin act on a list that answers the box and the chips the
\* user sees, in the showing they were pressed in: not on the list of an older
\* query, of older filters, of a search that failed or was overtaken while the
\* action waited (flushPendingQuery, settleForAction).
ActsOnWhatIsTyped ==
  [][\A a \in Actions : act[a].pc = "flush" /\ act'[a].pc = "acts" =>
       /\ shown = Question(box, filters, widened = <<box, filters>>)
       /\ ~timer /\ up]_vars

\* The backend stops a search only if a newer request waits behind it, whichever
\* order the calls of the palette arrive in: a cancel that comes late or early
\* never stops the search the user waits for (InflightSearch).
OnlyStaleIsCancelled == token \/ call = "cancelled" => queued # None

\* A palette that is left alone comes to show the answer to what is in the box
\* and to the chips, or an error (searchQuery.svelte.ts).
BoxIsAnswered ==
  []<>(\/ error \/ ~up \/ lost
       \/ shown = Question(box, filters, widened = <<box, filters>>) /\ resultsSettled)

=============================================================================
