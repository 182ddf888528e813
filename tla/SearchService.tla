--------------------------- MODULE SearchService ---------------------------
(***************************************************************************)
(* What nagori-daemon's cached search promises its callers                 *)
(* (NagoriRuntime::search), with no cache in sight: the history goes       *)
(* through numbered versions; a search is answered with the rows of some   *)
(* version no older than the last mutation acknowledged before the search  *)
(* was asked, and no newer than the history itself.                        *)
(***************************************************************************)
EXTENDS Integers

CONSTANT Searchers    \* concurrent callers of search

VARIABLES
  corpus,             \* the number of the history's latest version
  acked,              \* the latest version whose mutation has returned
  pending,            \* searchers whose search is running
  floor,              \* per searcher: acked when its running search was asked
  rows                \* per searcher: the version its last search was answered
                      \* with, or 0: none yet, or it failed

serviceVars == <<corpus, acked, pending, floor, rows>>

ServiceInit ==
  /\ corpus = 1 /\ acked = 1
  /\ pending = {}
  /\ floor = [s \in Searchers |-> 0]
  /\ rows = [s \in Searchers |-> 0]

Change ==
  /\ corpus' = corpus + 1
  /\ UNCHANGED <<acked, pending, floor, rows>>

Acknowledge ==
  /\ acked' \in acked..corpus
  /\ UNCHANGED <<corpus, pending, floor, rows>>

Ask(s) ==
  /\ s \notin pending
  /\ pending' = pending \cup {s}
  /\ floor' = [floor EXCEPT ![s] = acked]
  /\ rows' = [rows EXCEPT ![s] = 0]
  /\ UNCHANGED <<corpus, acked>>

Answer(s) ==
  /\ s \in pending
  /\ pending' = pending \ {s}
  /\ \E v \in floor[s]..corpus : rows' = [rows EXCEPT ![s] = v]
  /\ floor' = [floor EXCEPT ![s] = 0]
  /\ UNCHANGED <<corpus, acked>>

\* The store, or the daemon's task, may fail.
GiveUp(s) ==
  /\ s \in pending
  /\ pending' = pending \ {s}
  /\ floor' = [floor EXCEPT ![s] = 0]
  /\ UNCHANGED <<corpus, acked, rows>>

ServiceNext ==
  \/ Change \/ Acknowledge
  \/ \E s \in Searchers : Ask(s) \/ Answer(s) \/ GiveUp(s)

ServiceSpec == ServiceInit /\ [][ServiceNext]_serviceVars
=============================================================================
