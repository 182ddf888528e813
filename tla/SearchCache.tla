---------------------------- MODULE SearchCache ----------------------------
(***************************************************************************)
(* The recent-search cache of nagori-daemon (search_cache.rs), the search  *)
(* that fills it (runtime/search.rs), and the mutations of the history     *)
(* that must invalidate it (runtime/entries.rs, runtime/clipboard.rs,      *)
(* ipc_handler.rs, maintenance.rs, text_recognition.rs, persist_entry of   *)
(* the capture loop).  Rows are abstracted to the version of the history   *)
(* they were read from.  One action per critical section or transaction:   *)
(* every await between two of them is a point where others may step, and   *)
(* where an IPC handler whose client hung up is dropped, its transaction   *)
(* still running on the blocking pool (nagori-ipc server/connection.rs).   *)
(***************************************************************************)
EXTENDS Integers, Sequences, SequencesExt

CONSTANTS
  Searchers,      \* concurrent callers of search
  Mutators,       \* concurrent mutations
  Keys,           \* cache keys
  None,           \* no key
  Eligible,       \* the keys short enough to be cached (CACHEABLE_QUERY_LEN)
  Capacity,       \* DEFAULT_CACHE_CAPACITY
  Kinds,          \* the kinds of mutation that run
  MaxCommits,     \* bound: commits to the history
  MaxEpoch        \* bound: no mutation starts, no poisoned lock is taken past it

AllKinds ==
  {"write",        \* one transaction: insert, replace, delete, pin, clear, reuse,
                   \* recognized text stored on request
   "label",        \* set_entry_label: the name, then the pin
   "sweep",        \* clear --older-than-days: hard deletes in batches
   "maintenance",  \* MaintenanceService::run: three batched retention steps
   "recognition",  \* the indexer recording or clearing recognized text
   "mask",         \* store_extracted_text raising an image's sensitivity
   "rebuild"}      \* run_ngram_rebuild: re-indexing in batches

ASSUME KeysAssumption == Eligible \subseteq Keys /\ None \notin Keys
ASSUME KindsAssumption == Kinds \subseteq AllKinds
ASSUME CapacityAssumption == Capacity \in Nat \ {0}
ASSUME BoundAssumption == MaxCommits \in Nat /\ MaxEpoch \in Nat

VARIABLES
  corpus,     \* the number of the history's latest version
  cache,      \* RecentSearchCache.entries, least recently used first
  epoch,      \* RecentSearchCache.epoch
  poisoned,   \* a holder panicked inside the cache mutex
  search,     \* per searcher: its search in progress, or its last one
  job,        \* per mutator: its mutation in progress
  acked,      \* history: the latest version whose mutation has returned
  owed        \* history: a mutation that committed ended by a path with no closing
              \* invalidation, and no other has come since

vars == <<corpus, cache, epoch, poisoned, search, job, acked, owed>>

Begun(k) == [pc |-> "write", kind |-> k, step |-> 1, dirty |-> FALSE, version |-> 0]
NoJob == [pc |-> "idle", kind |-> "write", step |-> 1, dirty |-> FALSE, version |-> 0]

\* A search that has been answered with the rows of version v, or with none (0).
Answered(v) == [pc |-> "idle", key |-> None, floor |-> 0, epoch |-> 0, rows |-> v]

Init ==
  /\ corpus = 1 /\ acked = 1 /\ owed = FALSE
  /\ cache = <<>> /\ epoch = 0 /\ poisoned = FALSE
  /\ search = [s \in Searchers |-> Answered(0)]
  /\ job = [m \in Mutators |-> NoJob]

-----------------------------------------------------------------------------
(* The cache, under its mutex. *)

\* lock_or_recover: a poisoned cache is emptied and its epoch bumped first.
Held == IF poisoned THEN <<>> ELSE cache
HeldEpoch == IF poisoned THEN epoch + 1 ELSE epoch
WithinBound == poisoned => epoch < MaxEpoch

Entry(k, v) == [key |-> k, rows |-> v]
Caches(c, k) == \E i \in DOMAIN c : c[i].key = k

\* get's hit: the entry moves to the most recently used end.
Touched(c, i) == Append(RemoveAt(c, i), c[i])

\* A seeded fault: the oldest entry is not evicted from a full cache.
PutUnbounded(c, k, v) ==
  IF Caches(c, k)
  THEN {Append(RemoveAt(c, i), Entry(k, v)) : i \in {j \in DOMAIN c : c[j].key = k}}
  ELSE {Append(c, Entry(k, v))}

\* put: replace the key's entry, or evict the oldest from a full cache.
Put(c, k, v) ==
  IF Caches(c, k)
  THEN {Append(RemoveAt(c, i), Entry(k, v)) : i \in {j \in DOMAIN c : c[j].key = k}}
  ELSE {Append(IF Len(c) = Capacity THEN Tail(c) ELSE c, Entry(k, v))}

\* A seeded fault: rows are put whatever happened since the lookup.
AcceptAny(e) == TRUE

\* put_if_epoch's guard.
Accepts(e) == e = HeldEpoch

Invalidate ==
  /\ cache' = <<>>
  /\ epoch' = HeldEpoch + 1
  /\ owed' = FALSE

-----------------------------------------------------------------------------
(* NagoriRuntime::search. *)

Ask(s) ==
  /\ search[s].pc = "idle"
  /\ \E k \in Keys :
       search' = [search EXCEPT ![s] = [@ EXCEPT !.pc = "lookup", !.key = k,
                                                 !.floor = acked, !.rows = 0]]
  /\ UNCHANGED <<corpus, cache, epoch, poisoned, job, acked, owed>>

Hit(s) ==
  /\ search[s].pc = "lookup" /\ search[s].key \in Eligible /\ WithinBound
  /\ \E i \in DOMAIN Held :
       /\ Held[i].key = search[s].key
       /\ cache' = Touched(Held, i)
       /\ search' = [search EXCEPT ![s] = Answered(Held[i].rows)]
  /\ epoch' = HeldEpoch
  /\ UNCHANGED <<corpus, poisoned, job, acked, owed>>

Miss(s) ==
  /\ search[s].pc = "lookup" /\ search[s].key \in Eligible /\ WithinBound
  /\ ~Caches(Held, search[s].key)
  /\ cache' = Held /\ epoch' = HeldEpoch
  /\ search' = [search EXCEPT ![s] = [@ EXCEPT !.pc = "read", !.epoch = HeldEpoch]]
  /\ UNCHANGED <<corpus, poisoned, job, acked, owed>>

\* A query too long to be cached goes straight to the store.
Bypass(s) ==
  /\ search[s].pc = "lookup" /\ search[s].key \notin Eligible
  /\ search' = [search EXCEPT ![s] = [@ EXCEPT !.pc = "read"]]
  /\ UNCHANGED <<corpus, cache, epoch, poisoned, job, acked, owed>>

\* store.search: a snapshot of the history.
ReadStore(s) ==
  /\ search[s].pc = "read"
  /\ search' = [search EXCEPT ![s] =
                  IF search[s].key \in Eligible
                  THEN [@ EXCEPT !.pc = "put", !.rows = corpus, !.floor = 0]
                  ELSE Answered(corpus)]
  /\ UNCHANGED <<corpus, cache, epoch, poisoned, job, acked, owed>>

SearchFails(s) ==
  /\ search[s].pc \in {"lookup", "read"}
  /\ search' = [search EXCEPT ![s] = Answered(@.rows)]
  /\ UNCHANGED <<corpus, cache, epoch, poisoned, job, acked, owed>>

\* put_if_epoch, then the answer.
Publish(s) ==
  /\ search[s].pc = "put" /\ WithinBound
  /\ IF Accepts(search[s].epoch)
     THEN cache' \in Put(Held, search[s].key, search[s].rows)
     ELSE cache' = Held
  /\ epoch' = HeldEpoch
  /\ search' = [search EXCEPT ![s] = Answered(@.rows)]
  /\ UNCHANGED <<corpus, poisoned, job, acked, owed>>

-----------------------------------------------------------------------------
(* The mutations. *)

\* The kinds that invalidate before they write, ...
InvalidatesBefore(k) == k \notin {"mask", "rebuild"}

\* A seeded fault: a maintenance run that fails part-way leaves without invalidating.
InvalidatesUnlessFailed(k) == k = "recognition"

\* ... the kinds whose closing invalidation runs on the error path too, ...
InvalidatesOnError(k) == k \in {"maintenance", "recognition"}

\* ... the kinds an IPC request can start, ...
Droppable(k) == k \in {"write", "sweep"}

\* ... the kinds that commit in batches, ...
Batched(k) == k \in {"sweep", "maintenance", "rebuild"}

\* A seeded fault: one step too many for a maintenance run.
StepsOffByOne(k) == CASE k = "maintenance" -> 4 [] k = "label" -> 2 [] OTHER -> 1

\* ... and the number of steps each takes.
Steps(k) == CASE k = "maintenance" -> 3 [] k = "label" -> 2 [] OTHER -> 1

\* What a failure leaves behind: commits made before it, by a mutation whose error
\* path returns there and then.
LeavesPartial(j) == j.dirty /\ j.kind \in {"label", "sweep", "rebuild"}

BeginMutation(m) ==
  /\ job[m].pc = "idle" /\ epoch < MaxEpoch
  /\ \E k \in Kinds :
       /\ job' = [job EXCEPT ![m] = Begun(k)]
       /\ IF InvalidatesBefore(k) THEN Invalidate ELSE UNCHANGED <<cache, epoch, owed>>
  /\ UNCHANGED <<corpus, poisoned, search, acked>>

\* Where a transaction leaves its mutation; naming an entry pins it too, unnaming
\* does not.
NextStages(j) ==
  IF Batched(j.kind) THEN {"write"}
  ELSE IF j.step < Steps(j.kind) THEN {"write", "post"} ELSE {"post"}

Committed(j, pc) ==
  [j EXCEPT !.pc = pc, !.dirty = TRUE, !.version = corpus + 1,
            !.step = IF pc = "write" /\ ~Batched(j.kind) THEN j.step + 1 ELSE j.step]

\* A transaction that changes rows.
Commit(m) ==
  /\ job[m].pc = "write" /\ corpus <= MaxCommits
  /\ corpus' = corpus + 1
  /\ \E pc \in NextStages(job[m]) :
       job' = [job EXCEPT ![m] = Committed(job[m], pc)]
  /\ UNCHANGED <<cache, epoch, poisoned, search, acked, owed>>

\* A step finds nothing (more) to change; a retention step that deleted rows
\* invalidates, and a mask that changed nothing does not.
EndStep(m) ==
  /\ job[m].pc = "write"
  /\ LET j == job[m]
         flushes == j.kind = "maintenance" /\ j.dirty
     IN /\ job' = [job EXCEPT ![m] =
                     IF j.step < Steps(j.kind)
                     THEN [j EXCEPT !.step = @ + 1, !.dirty = @ /\ ~flushes]
                     ELSE IF j.kind = "mask" THEN NoJob
                     ELSE [j EXCEPT !.pc = "post", !.dirty = @ /\ ~flushes]]
        /\ IF flushes THEN Invalidate ELSE UNCHANGED <<cache, epoch, owed>>
  /\ UNCHANGED <<corpus, poisoned, search, acked>>

\* A transaction fails (or a shutdown interrupts the rebuild): most mutations
\* return there and then.
MutationFails(m) ==
  /\ job[m].pc = "write"
  /\ job' = [job EXCEPT ![m] =
               IF InvalidatesOnError(@.kind) THEN [@ EXCEPT !.pc = "post"] ELSE NoJob]
  /\ owed' = (owed \/ LeavesPartial(job[m]))
  /\ UNCHANGED <<corpus, cache, epoch, poisoned, search, acked>>

\* The client of an IPC handler hangs up (or gives up after 15 s): the handler is
\* dropped at its await, and the transaction it started is left to itself.
DropMutation(m) ==
  /\ job[m].pc = "write" /\ Droppable(job[m].kind)
  /\ job' = [job EXCEPT ![m] = [@ EXCEPT !.pc = "detached", !.dirty = FALSE]]
  /\ owed' = (owed \/ job[m].dirty)
  /\ UNCHANGED <<corpus, cache, epoch, poisoned, search, acked>>

DetachedCommit(m) ==
  /\ job[m].pc = "detached" /\ corpus <= MaxCommits
  /\ corpus' = corpus + 1
  /\ job' = [job EXCEPT ![m] = IF Batched(@.kind) THEN @ ELSE NoJob]
  /\ owed' = TRUE
  /\ UNCHANGED <<cache, epoch, poisoned, search, acked>>

DetachedEnd(m) ==
  /\ job[m].pc = "detached"
  /\ job' = [job EXCEPT ![m] = NoJob]
  /\ UNCHANGED <<corpus, cache, epoch, poisoned, search, acked, owed>>

\* The closing invalidation, and the return to the caller.
EndMutation(m) ==
  /\ job[m].pc = "post"
  /\ Invalidate
  /\ acked' = IF job[m].version > acked THEN job[m].version ELSE acked
  /\ job' = [job EXCEPT ![m] = NoJob]
  /\ UNCHANGED <<corpus, poisoned, search>>

-----------------------------------------------------------------------------
(* A holder of the mutex panics, half-way: get has removed the entry and not *)
(* pushed it back, invalidate has cleared the entries and not bumped the     *)
(* epoch.                                                                    *)

PanicInGet(s) ==
  /\ search[s].pc = "lookup" /\ search[s].key \in Eligible /\ WithinBound
  /\ \E i \in DOMAIN Held :
       /\ Held[i].key = search[s].key
       /\ cache' = RemoveAt(Held, i)
  /\ epoch' = HeldEpoch
  /\ poisoned' = TRUE
  /\ search' = [search EXCEPT ![s] = Answered(@.rows)]
  /\ UNCHANGED <<corpus, job, acked, owed>>

PanicInInvalidate(m) ==
  /\ job[m].pc = "post"
  /\ cache' = <<>> /\ epoch' = HeldEpoch
  /\ poisoned' = TRUE
  /\ job' = [job EXCEPT ![m] = NoJob]
  /\ UNCHANGED <<corpus, search, acked, owed>>

SearchStep(s) ==
  \/ Ask(s) \/ Hit(s) \/ Miss(s) \/ Bypass(s)
  \/ ReadStore(s) \/ SearchFails(s) \/ Publish(s) \/ PanicInGet(s)

MutationStep(m) ==
  \/ BeginMutation(m) \/ Commit(m) \/ EndStep(m) \/ MutationFails(m)
  \/ DropMutation(m) \/ DetachedCommit(m) \/ DetachedEnd(m)
  \/ EndMutation(m) \/ PanicInInvalidate(m)

Next == (\E s \in Searchers : SearchStep(s)) \/ (\E m \in Mutators : MutationStep(m))

Spec == Init /\ [][Next]_vars

-----------------------------------------------------------------------------
(* Properties. *)

Searches ==
  [pc : {"idle", "lookup", "read", "put"}, key : Keys \cup {None},
   floor : Nat, epoch : Nat, rows : Nat]

Jobs ==
  [pc : {"idle", "write", "post", "detached"}, kind : AllKinds, step : 1..3,
   dirty : BOOLEAN, version : Nat]

Entries == [key : Keys, rows : Nat]

\* Every variable has its type.
TypeOK ==
  /\ corpus \in Nat /\ acked \in Nat /\ epoch \in Nat /\ poisoned \in BOOLEAN
  /\ owed \in BOOLEAN
  /\ cache \in Seq(Entries)
  /\ search \in [Searchers -> Searches]
  /\ job \in [Mutators -> Jobs]

\* The cache stays a bounded map: never more than Capacity entries, never two for
\* one key (put after a concurrent put of the same key), and no entry for a query
\* too long to be cached.
BoundedMap ==
  /\ Len(cache) <= Capacity
  /\ \A i, j \in DOMAIN cache : cache[i].key = cache[j].key => i = j
  /\ \A i \in DOMAIN cache : cache[i].key \in Eligible

\* What search promises (module SearchService): a caller that was told its
\* mutation is done never gets older rows from a search it asks afterwards.
Service == INSTANCE SearchService WITH
  pending <- {s \in Searchers : search[s].pc \in {"lookup", "read"}},
  floor   <- [s \in Searchers |-> search[s].floor],
  rows    <- [s \in Searchers |-> search[s].rows]

ImplementsService == Service!ServiceSpec

\* Once no mutation is in flight, whatever the next lookup can hit is current: the
\* closing invalidation, put_if_epoch and lock_or_recover leave no row behind that
\* later searches would keep serving. The exceptions, until the next invalidation,
\* are the ends with no closing one: a dropped handler, and a set_entry_label, a
\* clear --older-than-days or an n-gram rebuild that fails after a commit.
QuietCacheIsCurrent ==
  (~owed /\ \A m \in Mutators : job[m].pc = "idle")
     => \A i \in DOMAIN Held : Held[i].rows = corpus

\* What search_cache.rs says of any mutation: its invalidation keeps stale hits
\* from papering over the change, once it has ended.
NoStaleHitOnceQuiet ==
  (\A m \in Mutators : job[m].pc = "idle") => \A i \in DOMAIN Held : Held[i].rows = corpus

\* What runtime/entries.rs says of the invalidation before a write: no search is
\* served pre-commit rows from the cache between the commit and the closing
\* invalidation.
NoPreCommitHit ==
  [][\A s \in Searchers : Hit(s) => search'[s].rows = corpus]_vars
=============================================================================
