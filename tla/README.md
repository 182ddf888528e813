# Nagori in TLA+

Nagori is a local clipboard-history program: a daemon (`crates/nagori-daemon`)
that watches the operating system's clipboard, an SQLite history
(`crates/nagori-storage`), a socket protocol for a command line
(`crates/nagori-ipc`, `crates/nagori-cli`) and a Tauri/Svelte desktop palette
(`apps/desktop`) that runs the same daemon in-process.

This directory holds TLA+ models of its concurrent parts, the TLC runs that
check them on small instances, and TLAPS proofs of theorems about them for every
instance. `PROJECT.json` lists, machine-readably, the components, the runs, a
seeded fault per checked property, the source lines every definition
translates, the findings, the hazards and the theorems.

    cd tla
    tlc -config cache.cfg MCSearchCache.tla      # a run
    tlapm SearchCacheProofs.tla                  # a proof

## 1. Inventory

### What is modelled

| component | state | operations | interacts with |
|---|---|---|---|
| capture loop, `capture_loop/mod.rs` | `DedupState` (last sequence, last hash, one-shot content check, secure-skip marker, pristine, reseed-on-resume), Accessibility failure count, secure recovery, last pause count seen | a polling tick: wake gap, pause gate, baseline read, sequence probe, secure-focus query, body read, admission, insert; `update_settings`; restart by its supervisor | reads the clipboard; receives settings through a `watch` channel and `CapturePauseEpoch`; inserts into the history; invalidates the search cache |
| self-write tracker, `nagori-platform/src/clipboard.rs` | the sequence of the last copy-back | `record`, `matches` | written by copy-backs, read by the capture loop |
| recent-search cache, `search_cache.rs` | an LRU list, an epoch, the mutex's poison flag | `get`, `lookup`, `put`, `put_if_epoch`, `invalidate`, `lock_or_recover` | filled by `search`, emptied by every mutation |
| search and mutations, `runtime/{search,entries}.rs`, `ipc_handler.rs`, `maintenance.rs`, `text_recognition.rs` | calls in progress | `search`; the mutations, of seven kinds | the store, the cache, IPC handlers that may be dropped |
| settings runtime, `runtime/settings.rs`, `sqlite/settings.rs` | the row and its revision, the watch value, `settings_write_lock` | refresh, toggle, stamp, save, checked save | the store, every subscriber of the watch channel, IPC handlers |
| IPC host, `serve/ipc.rs`, `nagori-ipc/src/server` | per process: the supervisor's server, restart timer and settings; the accept loop, its permits and heartbeat; connections; the endpoint lock, the socket and the token file | the five arms of the supervisor's `select!`, start, stop, reap, wedge probe; accept, permit wait, back-off, drain; read, run, write of a request | settings watch, shutdown handle, other processes on the same endpoint, clients |
| clipboard lease and pastes, `runtime/clipboard.rs`, `commands/paste_commands.rs`, `state/window_focus.rs` | the lease's queue, the newest publish, the self-write tracker, the palette's session and its focus target | copy, copy and keep open, paste, paste entry, IPC copy and paste; show and dismiss | the clipboard, focus and keyboard of the operating system, other applications |
| ownership of the store, `serve/lifecycle.rs`, `clear_on_quit.rs`, `process_lock.rs`, `restart_handoff.rs`, `nagori-cli` | `nagori.lock`, the clear-on-quit marker, the restart marker, the history; per process its phase, its worker and the blocking threads it leaves | start, finish a pending purge, serve, stop, drain, clear, exit, restart into an heir; direct reads and writes | other processes on the same data directory |
| text index, `semantic_index.rs`, `text_recognition.rs`, `thumbnails.rs` with `sqlite/{semantic,ocr,thumbnail,entry}.rs` | settings row and watch, entries with their search document, vectors, tombstones and index metadata, recognized text, thumbnails | capture, repeated copy, edit, delete, purge; the passes of both indexers, extraction on request, thumbnails | settings, the recognition gate, the embedder and the recognizer |
| palette search, `searchQuery.svelte.ts`, `searchActions.ts`, `search_cancel.rs` | the box and its filters, the debounce, the list shown and the question it answers, the queue of one, the backend's slot | type, filter, widen, refresh, hide, show; debounce, search, cancel, answer; actions that wait for a settled list | search and cancel calls, each its own message |

Hard behaviours and what makes each correct:

* **Capture loop.** Five awaits per tick, at each of which the clipboard, the
  settings and the host may change; two kinds of sequence numbers, one of which
  may lap across a sleep; every step may fail. Correct when no clip is skipped
  that was neither recorded nor deliberately refused, and when a clip the user
  meant to keep out (copied during a pause, present at launch, typed into a
  secure field) stays out.
* **Search cache.** Look-up, store read and put are three critical sections with
  awaits between them; a mutation is an invalidation, a commit and an
  invalidation, any of which may be the last. Correct when a search never shows
  less than what was acknowledged before it was asked.
* **Settings.** Read-modify-write of one row by a tray, a palette, start-up tasks
  and remote clients that edit stale copies. Correct when no field is lost and
  the watch channel converges on the row.
* **IPC host.** A settings change, the exit of the accept loop, a wedge probe, the
  restart timer and the shutdown race in one `select!`; each start and stop moves
  a lock and two files another process may own by then. Correct when the endpoint
  that can be reached is whole, when a disable is final, and when neither permits
  nor wedges nor a failed start keep it from being served or from being stopped.
* **Clipboard lease.** A copy or paste is a chain of awaits, some of which run in
  a task that outlives the caller, and the user copies, switches windows and
  reopens the palette between any two. Correct when the keys of a paste type its
  own clip into the window meant.
* **Ownership.** A purge promised at quit is finished by whoever opens the store
  next, threads outlive the drain that gave up on them, a restarting app hands its
  lock to an heir that races everyone else. Correct when what was cleared is gone
  for everyone who opens the store later, and nothing recorded later goes with it.
* **Text index.** Both indexers read, work for seconds and write; the rules they
  worked under, the row and its class may have changed meanwhile. Correct when
  everything derived is what the present rules make of the present row, and when
  nothing is skipped for good.
* **Palette.** Searches, cancels and answers are separate messages and the user
  does not wait. Correct when an action acts on the list of what is typed, and
  the box is answered in the end.

### Not modelled

| component | why |
|---|---|
| settings validation, classification, formatting, limits (`nagori-core`) | pure functions over text and images: a model would repeat them. What a policy makes of a body is a function `Level` of `TextIndex` |
| ranking and normalisation (`nagori-search`) | floating-point scores and Unicode tables, outside of what TLC computes |
| capture failure policy and health counters | a clamp and a saturating product over one counter; no property reads the pace |
| connection pool (`sqlite/pool.rs`) | one mutex, one condition variable, interchangeable connections: the model is the code |
| AI registry, engine and Apple bridge | only `nagori ai` starts an AI request, one per process, with no watchdog beside it: nothing at this commit reaches the races the registry guards against; the bridge is I/O |
| search's SQL, pins, representations, the audit log, vacuum | read-only, or single statements no property here distinguishes |
| semantic search of a query | reads the index `TextIndex` maintains; its result is a ranking |
| thumbnail single-flight table and eviction | which thumbnail is evicted is a budget, not a correctness question |
| updater, tray, hotkeys, settings windows, previews, cursor and multi-selection of the palette | glue over Tauri and presentation |
| platform adapters (`nagori-platform-*`) | calls into an operating system; what they can do to the daemon is the environment of `CaptureLoop` and `ClipboardLease` |

## 2. The modules

    SearchService      what a search promises            (abstract)
      ^ implements
    SearchCache        cache + search + mutations        MCSearchCache, SearchCacheProofs
    CaptureLoop        clipboard + pauses + loop         MCCapture, CaptureLoopProofs
    Settings           row + lock + watch + callers      MCSettings, SettingsProofs
    IpcHost            supervisor + accept + handlers    MCIpcHost, IpcHostProofs
    FairLock           what the lease promises           (abstract)
      ^ implements
    ClipboardLease     lease + pastes + palette + OS     MCClipboardLease, ClipboardLeaseProofs
    Ownership          processes + lock + purge + heir   MCOwnership, OwnershipProofs
    TextIndex          entries + indexers + settings     MCTextIndex, TextIndexProofs
    PaletteSearch      box + queue + cancel slot         MCPaletteSearch, PaletteSearchProofs

Several of them are compositions: `IpcHost` runs supervisor, accept loop and
handlers of two processes against one lock and one pair of files; `Ownership`
composes the start and the quit of four kinds of process over one directory; `TextIndex` both
indexers, the extraction command and thumbnails over the same rows and settings;
`ClipboardLease` the palette, IPC handlers and the runtime; `PaletteSearch` the
web view and the backend.

### CaptureLoop

One action per part of `capture_once_at` between two awaits; `pc` names the next
part.

| action | code (`capture_loop/mod.rs` unless named) |
|---|---|
| `BeginTick` | `detect_wake_gap`, the `retry_armed_at_tick_start` gate |
| `HoldForPause` | `observe_pause_epoch`, `hold_for_pause` |
| `SeedSample`, `SeedAnchor` | `seed_baseline`, at launch and on resume: the read, then the anchor |
| `ProbeSequence` | the sequence read with `skip_by_sequence` and the launch baseline test |
| `ResolveFocus` | `resolve_secure_focus`, `skip_for_secure_focus` |
| `ReadSnapshot` | `current_snapshot_with_max` |
| `AdmitClip` | oversized, excluded, empty, duplicate, `begin_clip`, `admit_entry`, rollback |
| `CheckPause`, `InsertEntry`, `InsertFails` | `persist_entry` |
| `ReadFails` | the `?` of every platform read |
| `UpdateSettings` | the settings arm of `run_polling_with_settings` |
| `NotePause`, `SendPause`, `SendResume` | `publish_settings` (`runtime/settings.rs`): the counter is bumped *before* the send, again when a paused value is published once more |
| `BeginCopy`, `Land` | another program clears, then writes |
| `SelfWrite`, `RecordSelfWrite` | a copy-back, then `SelfWriteTracker::record` |
| `Sleep` | a host sleep past `RESYNC_GAP_THRESHOLD`, which may lap the change count |
| `Restart` | `supervise_worker` builds a new loop |

`clips` is every clip ever on the clipboard, in order, so a clip is a number and
two clips may share a body (`content`) or, after a sleep, a change count (`seq`).
A body stands for its dedupe hash: hash collisions are outside the model. The
admission gates are the set `Denied`, the bounded read's refusals the set
`Unreadable`. A lapped count is modelled on the sleep itself and for numbers that
were used before: that is the case in which a number lies. The last four
variables are history. The model lets a sleep before a loop's first tick arm the
content check, where the code has no earlier tick to measure from
(`last_tick_at` is `None`): it allows more than the code does.

### SearchCache and SearchService

Rows are the version of the history they were read from (`corpus`). `SearchService`
says what `NagoriRuntime::search` promises with no cache in sight: an answer lies
between the last version acknowledged when it was asked and the latest version
(versions count from 1; a search that failed shows 0).
`SearchCache` has one action per critical section or transaction. Mutations differ
in what their code does around the commit, so they come in `Kinds`, each named in
the module with the functions it stands for; `InvalidatesBefore`,
`InvalidatesOnError`, `Droppable`, `Batched`, `Steps` and `LeavesPartial` are that
table. A dropped IPC handler (`DropMutation`) leaves its transaction `detached` on
the blocking pool. `PanicInGet` and `PanicInInvalidate` leave the mutex poisoned
half-way through the operation; the poison flag is never cleared, as in the code,
so from then on every holder empties the cache first. Panics at other points of
the critical sections leave states these two already reach.

The search's answer is taken, in the refinement, at the store's snapshot
(`ReadStore`) or at the hit: `Publish` only puts and returns, which is a stutter of
the service.

### Settings

A value is the set of flags that are on and markers that are stamped. Each call
goes `lock`, `read`, `write`, `publish`, the four awaits under
`settings_write_lock`; a client of IPC first takes a snapshot (`LoadSettings`) and
sends the whole blob back later (`StartSave`, with a revision or without). `Drop`
is a handler whose client hung up: the lock is released at once and a started
write becomes `detached`. `Restart` keeps the row and the clients' snapshots.

### IpcHost

Two kinds of process share one endpoint: `Daemons` (`nagori daemon run`, which
gives up when it cannot bind) and desktops (which arm the restart timer). Each arm
of `supervise_ipc_server`'s `select!` is an action: `Shutdown`, `Disable` and
`Enable`, `Reap`, `Tick` with `Sample`, `RestartOk` with `RestartFails`; an arm of
lower priority is enabled only while the ones before it are not, as the `biased`
select has it. `BeginStop` and `FinishStop` are `stop_ipc_server` before and after
the drain; `AbortStuck` and `AbortSupervisor` the timeouts around it. The accept
loop is `Accept`, `PermitGranted`, `AcceptTransient` with `AcceptRetry`,
`AcceptFatal`, `StopAccepting`, `Drained` and `Wedge`; a handler `ReadRequest`,
`RunRequest`, `PeerGone`, `WriteBack`, `HandlerPanics`. A probe is a connection
named after its host, to whichever server owns the socket, as in the code.

The socket and the token are identified by the host that wrote them. Time is the
number of probe intervals since the last accept; a probe ticks when the loop has
done all it can (`Quiet`), for a running loop answers in far less. An abort lands
where the loop next awaits. A failing rename while staging, framing and the
contents of tokens are left out; Windows' next pipe instance is part of accept.

### ClipboardLease

A request goes `queued`, `prepare`, `write`, `record`, `wrote`, and a paste on to
`probe`, `checks`, `key`, `grace`; the palette's take the showing (`FinishToHide`),
`hide` and `restore` the focus before the paste, `paste_entry` before its copy. `Guarded`
steps run in a task that owns the lease: `Drop` of an IPC handler in one of them
leaves the task, `TaskDies` is its panic. The environment is `Copy` (a foreign
write), `Sleep` (which may lap a Mac's change count), `Show` and `Dismiss`. Numbers
that the code only compares are outcomes: the publish ledger is the newest
publisher, the tracker whether it has the present sequence (`ours`), a ticket
whether the palette was shown since. A keystroke is read by its target while the
lease is kept for it, or not followed. The focus is chosen where it is looked at.
`copy_entries_combined`'s retry and `last_pasted` are folded away, and settings
are read in `prepare`. `macos` has a sequence that may lap, `wayland` none.

### Ownership

Processes are numbered as they are launched and take a role: daemon, desktop, a
direct write or a direct read of the command line. Opening is `Held`, `Refused`,
`Acquire`, `GiveUp` (the lock, with the restart marker), `Look`, `Claim`,
`Recheck`, `FinishPurge`, `FinishUnmarks` (a purge left pending); serving `Start`,
`Bound`, the worker's `Tick`, `JobLands`, `WorkerExits`, `Respawn`; quitting `Stop`
or `Restart`, `WorkerStops` or `Overdue`, `Drained`, `MarkPending`, `Purge` or
`PurgeTimesOut`, `QuitUnmarks`, `SpawnHeir`, `Exit`. Every file or database
operation may fail, the removal of the restart marker too (`Clears`, which then
leaves it), and every process may be killed anywhere. What outlives its
process's hold on the lock is in the record: `job`, the blocking thread that
stores an entry, and `sweep`, a purge nobody waits for. The five workers are one,
an entry is who stored it and whether that was before or after its host asked for
the clearing, and `clear_on_quit` is read at the quit as a choice. Writes
routed over IPC and the updater's install gate are not modelled; the fallback
window of a refused desktop counts as ended.

### TextIndex

Transactions are steps, workers read, work and write in different ones. The
semantic indexer is `SemWake`, `SemBegin` (an index of other rules is purged),
`SemReconcile`, `SemRestart`, `SemUnflag`, `SemRead`, `SemRefuse`, `SemStore`; the
recognition indexer `OcrWake`, `OcrClear`, `OcrRead`, `OcrCheck`, `OcrRecord`; the
request `ExtRead`, `ExtCheck`, `ExtRecord`; a thumbnail `Draw`, `PutThumbnail`.
Entries are captured, copied again, edited, deleted and purged (`Cascade` is the
foreign keys), settings saved and then published. Two policies, `loose` and
`strict`, stand for the rules before and after an edit; a body is public, private
or secret under them. The indexing model and the index version are fixed, a batch
is all that is pending, images are public when captured, secret text is stored
redacted as another body, and an edit is one step under the committed settings.
`PutThumbnail` is the conditional `INSERT` of `sqlite/thumbnail.rs`, which is what
closes the window that the comment on `generate_thumbnail`
(`thumbnails.rs:214`) still describes as open.

### PaletteSearch

A list is the question it answers (query, filters, widened or not). The web view
is one thread, so a handler runs to its first `await` in one step; `runQuery` is
the queue of one, `executeSearch` the call; `call` and `cancels` are the messages
to the backend, taken in any order by `Register` and `Cancel` (`InflightSearch`'s
slot), `Answer` is the continuation. `Start` and `Resume` are `flushPendingQuery`
with `settleForAction` around Enter, delete and pin. An action on a remembered
entry drops a debounced keystroke, and if its command fails the list stays stale
with no error: the variable `lost` marks it and `BoxIsAnswered` excludes it. The
alternate-format paste drops one too, after the await of `listPasteOptions`
(`offerAlternateFormat`); it has no action of its own and is covered by that case
only.
Cursor, previews, multi-selection, reopening on the last query, and a reload of
the web view are left out; captures refresh the list as an event.

## 3. The runs

| run | checks | instance |
|---|---|---|
| `capture_wake` | `TypeOK`, `NoStrandedClip`, `SecureClipStaysOut`, `StaleSourceIsDropped` | 3 clips over 3 bodies (plain, denied, unreadable), 1 sleep, fail-closed after 2 failures |
| `capture_pause` | `LaunchClipStaysOut`, `PausedClipStaysOut` | 3 clips, 2 pauses, 1 sleep, 1 restart, launch capture off |
| `capture_live` | `ClipIsDecided` under `FairSpec` | 2 clips, 1 pause, 1 sleep, fail-closed after 1 failure |
| `cache` | `TypeOK`, `BoundedMap`, `QuietCacheIsCurrent`, `ImplementsService` | 2 searchers, 2 mutators, 3 keys (2 cacheable) over 1 slot, all 7 kinds of mutation, 2 commits |
| `settings` | `TypeOK`, `WatchFollowsStore`, `KeepsOtherFields` | 1 local and 1 remote caller, 2 flags, 2 markers, 3 writes, 1 restart |
| `ipc` | `TypeOK`, `EndpointIsWhole`, `DisabledStaysDown`, `BusyIsNotWedged`, `StopLeavesNoFiles` | a daemon, a desktop, 1 client, 1 permit, a wedge after 2 probes, 1 settings change, 2 faults |
| `ipc_live` | `ShutdownEnds`, `ConnectionEnds`, `EndpointServed` under `FairSpec` | the same with a wedge after 1 probe, no settings change, 1 fault |
| `lease` | `TypeOK`, `KeysTypeTheRightClip`, `OverwritesNothingNewer`, `KeysReachTheTarget`, `RequestsEnd` under `FairSpec` | 2 requests of all 6 kinds, again and again, with and without a tracked sequence |
| `ownership` | `TypeOK`, `ClearedStaysCleared`, `NewHistorySurvives`, `HeirWaits`, `StopReleases` under `FairSpec` | 2 processes, 1 crash, 2 failed operations |
| `history` | `TypeOK`, `IndexObeysPolicy`, `ErasedStaysErased`, `ImagesMatchRecognition`, `BacklogsAreWorkedOff` under `FairSpec` | 1 text, 1 image, a private and a secret body, 1 save, edit, rebuild or failure |
| `palette` | `OnlyStaleIsCancelled`, `ActsOnWhatIsTyped`, `BoxIsAnswered` under `FairSpec` | 2 queries, 2 filters, 2 actions, 4 events of the user |
| `settings_dropped` | `WatchMatchesStore`, violated | as `settings` |

`ownership3.cfg` is the safety part of `ownership` with three processes, one
crash and one failure (1.9 million states), `history2.cfg` that of `history` with
two events (9 million); both finish with no error.

### Known divergences

Places where the code does not do what its documents or comments say. The last
column names a configuration whose run ends in the counterexample;
`settings_dropped` is the one among the runs of `PROJECT.json`.

| claim | what the trace shows | run |
|---|---|---|
| with the lock, the last publish matches the store (`runtime/settings.rs:46`) | a save whose IPC client hung up commits after its lock is gone and is never published | `settings_dropped.cfg MCSettings` |
| any mutation's invalidation keeps stale hits out (`search_cache.rs:85`) | the same cause: a dropped handler's commit lands after its last invalidation; `set_entry_label`, `clear --older-than-days` and `run_ngram_rebuild` leave the same state when a later step fails | `cache_dropped.cfg MCSearchCache` |
| the opening invalidation closes the pre-commit hit window (`runtime/entries.rs:19`, `runtime/search.rs:20`) | a search that misses after it refills the cache before the commit; nobody told of the commit sees those rows (`ImplementsService`) | `cache_prehit.cfg MCSearchCache` |
| a clip copied during a pause is not recorded on resume (`ARCHITECTURE.md:405`) | a tick under a stale "enabled" snapshot runs the resume baseline *during* the pause and so uses up the counter's mark; a clip copied later in the pause is recorded | `capture_pause_race.cfg MCCapture` |
| a copy-back is not captured (`ARCHITECTURE.md:285`) | it is, if it lands between the sequence probe and the body read | `capture_self_write.cfg MCCapture` |
| a clip whose lapped count collides with a self-write is hash-checked (`ARCHITECTURE.md:297`) | only by the first tick after the wake; later the collision drops it | `capture_collision.cfg MCCapture` |
| "Every worker has drained, so nothing is captured behind the purge" (`serve/lifecycle.rs:586`) | an aborted worker's blocking thread stores its entry after the purge; the entry stays in the cleared history | `ownership_behind.cfg MCOwnership` |
| turning image text search off "erases every recognized text from the database and the search index" (`docs/privacy.md:443`) | `clear_text_recognition` leaves the image's vector in `entry_embeddings`, made of that text | `history_unranked.cfg MCTextIndex` |

The positive properties state what does hold in each of these places, with the
exception spelled out: `PausedClipStaysOut` excuses only pauses whose baseline read
ran early or met a half-written clip (`swallowed`), `QuietCacheIsCurrent` only
mutations that ended with no closing invalidation (`owed`), `WatchFollowsStore` and
`KeepsOtherFields` only rows a dropped handler left behind (`stray`);
`NewHistorySurvives` and `ClearedStaysCleared` speak of entries asked to be
cleared, which a late one is not; `ErasedStaysErased` of the recognition and the
search document. A restarted capture loop forgets its secure-skip marker, so
`SecureClipStaysOut` is checked with `MaxRestarts = 0`: after a panic the clip of
a secure field still on the clipboard is judged by the focus of that moment. The
proofs say the same of each loop, whatever loops came before it
(`SecureClipHeldByEachLoop`).

### Bounds

Every bound is a constant and appears in a guard. Clips: three are one under the
loop's anchor, one that arrives inside a tick and one after it, and two of them may
share a body or a number. Pauses: two, so that one may be seen and another
missed. Sleeps: one, since a second meets the same one-shot flag. `Failures`
saturates at its threshold as in the code. One cache slot with two cacheable keys
makes every second put an eviction. Two commits separate
"before", "between" and "after" a search; `MaxEpoch` stops new mutations and, once
the mutex is poisoned, further lock takers. The epoch and the pause counter are
64-bit in the code and are not wrapped. Three settings writes allow a save over a
concurrent save over a stale snapshot.

`IpcHost`: one permit and a client beside two probes make a permit wait, and two
faults a wedge after a crash or a failed accept after a panic; a host that
crashed is launched again. One settings change in a run that also stops and
restarts reaches every arm in every order. `ClipboardLease` has no bound but its
two requests, which start over: the second is the one that waits for the
lease, publishes behind the first or is dropped. `Ownership`: two processes are an
owner and a successor, in any roles; a third (`ownership3.cfg`) is a rival of an
heir or a third reader. With two there is no third launch that races the heir:
for any number the theorem `HeirIsNotTurnedAway` covers it. Two failures let a purge and the removal of its marker fail
in one behaviour. `TextIndex`: one event is an edit of the rules, of a text, a rebuild request
or a failure, against any number of captures, deletions, purges and passes; its
safety properties also hold with two (`history2.cfg`). `PaletteSearch`: four
events are a query typed over a query that was typed over one, and an action.

`CHECK_DEADLOCK FALSE` is set where the bounds, and only they, stop a run.
Symmetry is over callers, mutators and cacheable keys, in safety runs only.

### Fairness

`CaptureLoop`: the loop's own steps are weakly fair, for tokio
keeps polling a ready task. Steps that may fail and are retried (the baseline
read, the probe, the body read, admission, the insert) and the answer of the
Accessibility query are strongly fair: they may fail any number of times, not
forever. `UpdateSettings` is strongly fair because the `select!` picks at random
between two ready arms. A program that cleared the clipboard eventually writes it,
and a counted pause is eventually sent. No fairness is assumed of copies, pauses,
resumes, sleeps or restarts.

`IpcHost`: a supervisor with an arm ready or a timer due takes a step, and so do
accept loops; a connection of the backlog is accepted if the loop is ready for it
again and again (the kernel's backlog is in order, hence strong); handlers end by
their deadlines; a probe's client, its own host, disconnects. Clients owe nothing.
`ClipboardLease`: each await of a request returns (adapter calls, timers and the
probe are bounded in the code); nothing of the user or of other programs.
`Ownership`: a launch, a drain and a quit go on; a worker told to stop does, or its
drain deadline passes; blocking threads and the supervisor's respawn owe nothing.
`TextIndex`: a pass that began goes on, a save is published, the recognizer's
worker wakes (its idle tick), and the semantic one's wakes pick a waiting
settings change now and then (a fair `select!`, strong). `PaletteSearch`: the
debounce ends, calls are delivered and return; cancels need not arrive.

## 4. The proofs

The theorems hold for any sets of clipboard bodies, callers, keys, fields, queries,
filters, actions and processes, and
for any capacity, threshold and bounds, that satisfy the assumptions named in the
modules.

**CaptureLoopProofs.** `TypeOK` is not inductive by itself: a tick's locals start
out as `None`, and each stage takes some of them for granted. `Staged` says which:
a probed clip and its number from the focus query on, a sampled clip from the read
on, a rollback and a source from the admission on, all of them clips that exist;
and that no clip's number exceeds its place in the order, which keeps the change
count in range. `LoopTyped` follows. `StaleSourceDropped` rests on
`SourceIsCurrent`: a tick that began with no content check pending remembers no
source. `LaunchClipHeld` rests on `LaunchIsHeld`: while the launch clip is on the
clipboard, only a baseline has written the dedup state, so the anchor and the hash
are that clip's; a tick passes the probe only with a content check, and the clip
then fails it as a duplicate.

Three more invariants carry the rest. `SecureIsHeld`: a skipped clip still on the
clipboard is named by the marker and the anchor, and no tick has it past the probe.
It needs `MaxRestarts = 0`, since the marker dies with its loop. `NothingStranded`
asks of the dedup state, or, while an admitted clip is on its way to the store, of
the state a failed insert falls back to, that it be `Sound`: its hash is of a clip
dealt with, its number of no later clip. Without the fallback it is not inductive:
the anchor has moved before the clip is stored. A wake gap suspends it until the
next tick arms the content check. `PauseIsHeld` follows a clip copied during a pause
that no baseline read saw going on: the pause counter still differs from what the
loop has noted, or a baseline read is still to come, or the last one hashed this
clip (`CurBaselined`), so that the content check drops it. It holds because a loop
that has used up a pause's mark read its baseline during that pause (`swallowed`) or
still owes one.

Three theorems go beyond the runs' properties. `SecureClipHeldByEachLoop` drops
`MaxRestarts = 0`: with the number of restarts and the clips skipped so far as
parameters, it says the same of every loop a supervisor built. `RecordsInOrder` says
that the history is written in the order of the clipboard, and that no clip gets the
source of a later one. It rests on `Ordered`: the clip a tick holds is no older than
any stored one and no later than the clipboard's, and a remembered source is no
later than it. `EachLoopRecordsOnce` says that no loop stores a clip twice. Its
strengthening, `Remembered`, is that while a clip this loop stored is on the
clipboard its body is the one the content check compares with, and either that check
is pending or its number is the one the probe skips; a failed insert may roll both
back only because it stored nothing. The memory is the loop's own, so both theorems
speak of one loop at a time.

**SearchCacheProofs.** `TypeCorrect` and `CacheIsBounded` come first; capacity,
one entry per key and eligible keys only are inductive together with the fact that
a search about to put has an eligible key (`PutsAreEligible`). For the refinement,
three more invariants:

* `Fresh`: every row a lookup can hit, and every row a search is about to put under
  the current epoch, is at least as new as the last acknowledged version, and no
  version in play is newer than the history. It is what makes a hit an `Answer`.
* `Owing`: a mutation that has committed and not ended is on its way to its closing
  invalidation, or the debt is recorded in `owed`.
* `Settled`: with no debt and nothing in flight, the rows that can be hit and the
  rows whose put the epoch would accept are the latest.

`CacheImplementsService` maps each action to a step of `SearchService` or to a
stutter; `QuietCacheHolds` follows from `Settled`. The epoch is why both are
inductive: a put is accepted only if no invalidation came since its lookup, and
every mutation ends with one.

**SettingsProofs.** The inductive invariant is `TypeOK` (which says that the caller
inside the critical section is the lock's holder), `CallsAreSound` (what a caller has
read is the row as of the revision it has seen, and its body differs from that only
in the fields it owns) and `WatchIsSettled` (with the lock free the watch shows
the row, and a caller about to publish holds it, unless the row is stray).
`SettingsTyped`, `WatchFollows` and `NoLostUpdate` follow.

**OwnershipProofs.** `IInv` has one part per question. `Placed` ties each step of a
process to its role, worker, blocking thread and stop; `Pending` says where the
marker of a pending purge must or cannot be on disk; `Clean` says which entries the
history can hold for whom: nothing doomed after a purge, nothing a process that
opened the store must not see, and under a pending marker only what the purge may
take; `Doomed` says that a host asked to clear stores at most one more entry. None is
inductive alone: a read that opens without the lock is clean because an unmarked
store holds nothing doomed (`Global`), which holds because every unmarking follows a
purge (`Clean`), which a late blocking thread could undo were it not for `Doomed`.
`Frame` bounds what a step of one process does to the store, and `OthersKeep` shows
that no other process notices; so each action is proved for its own process only
(`StepInv`), except `SpawnHeir`, which moves two. `LockHeldWhereNeeded` and
`OpenersSeeNothingCleared` follow at once; `PurgesTakeNoNewHistory` from
`OnlyPurgesRemove`; `HeirIsNotTurnedAway` from `Global` (a marker that counts is
fresh) and `FreshMarkerHolds`. The assumption is that the three bounds are naturals.

Two more say who owes what and who writes. `OnlyMarkedStoresOwe` is `Global`'s part
about an unmarked store: whoever finds no marker has nothing left to remove.
`OwnersWrite` is an action property of the same invariant: entries are added by the
holder of the lock, or by the blocking thread of a daemon that has just ended, and
removed only by a purge of the holder.

**IpcHostProofs.** The invariant comes in two layers. `HostInv` is about hosts:
`Supervised` says that a host has a server only in the supervisor states that can
need one, that with a server goes the lock and, until it is being stopped, both
files, and that a restart is armed only for a host with none. `EndpointIsWhole` is
not inductive without it, since a stop moves the files aside before it gives up the
lock. `Frame` says how far a step of one host reaches, so that each action is proved
for its own host (`HostStep`). `ConnInv` is about connections: `Attached` puts a
connection that has not ended at a host whose loop has not, `Metered` counts
permits against handlers, gives a waiting loop exactly one connection in hand, and
bounds the age a probe can read: the last is why `ProbeSparesTheBusy` holds.
`EveryClientHasItsHost` reads `Attached` as a promise to the client: unanswered, it
is in the backlog of an open listener, in the hand of a loop that waits for a permit
or is stuck, or with a handler its loop can still drain.
`PermitsAddUp` needs the clients to be finite; nothing else is assumed but that the
bounds are naturals.

**ClipboardLeaseProofs.** `IInv` has, per request, who holds the lease at which step
(`Leased`), which kinds come by which steps (`Fits`), and one part for each property:
`Publishes` says of a written paste that its clip is still there, or the tracker
still has to find out, or a sleep is still to be noticed, or the foreign write came
where neither looks; `Yields` that a copy the user has moved on from cannot pass its
check; `Aims` that a palette on screen past the hide was shown since, and at the keys
that the paste has looked. Another request cannot disturb a written paste, because
it writes only with the lease (`OwnStep`).

`LeaseIsFairLock` is a refinement: with `line` the queue and `inside` the requests
whose call to the operating system is under way on a task of its own,
`ClipboardLease` implements `FairLock`. It needs `OnePlaceEach`, which is
`NoLeaseLeaks`: exactly the requests under the lease or waiting for it have a place
in the queue, and one place. A step leaves a request where it is, has it join at the
end, or has it quit (`PlaceStep`); the user and the host move nobody. `Removed` and
`Left` say what the queue is after a quit from its middle, and with them
`NoOvertaking` shows that nobody is overtaken. That the queue is served in order is
how the lease's mutex, tokio's, is modelled; what is proved is that no drop, panic,
refusal or failure on the program's side loses a place, keeps one too long, or gives
one up with a call still under way.

**TextIndexProofs.** Per entry, `Present` says what a row that is not there cannot
hold, `Obeys` and `Matches` are the properties, and `Erased` with `Promised` says
what the last clearing is still good for. They rest on what the workers have in
hand: `Assessed`, that the offers about to be stored were looked at under the pass's
policy, which the transaction compares to the index's; `Reads` and `Extracts`, that
a store under the gate either fits the published settings or no promise stands
(`Gated`). That the clearing waits for the gate is used exactly there. The
assumption is that `None` is no body, no policy and no reading.

`NothingOutlivesItsEntry` needs a second invariant relative to that one, `Clear`: an
entry never captured or purged has no tombstone and no thumbnail, and no offer in a
batch is of an entry that was never there. What keeps it is that the worker looks at
the rows again before it writes a tombstone, and the thumbnail at its image.

**PaletteSearchProofs.** `TypeOK` says that whoever waits for a search waits for one
that will end. `CancelsAreStale` strengthens `OnlyStaleIsCancelled` to every place a
cancel can be (under way, held early, delivered): each of the newest ticket has a request queued behind it, and
tickets only grow. `QuestionsAreCurrent` ties the newest question and the queued one
to the chips and the scope on screen, and `WaitersAreUp` an action that waits to the
showing it began in; with them a resumed action finds the list that answers the box.
`SettledListIsTheAnswer` says it of every state, not only of the steps of actions:
whenever the frontend takes its list for settled, it answers what is on screen.

**Only model-checked.** Every safety property of a passing run is proved, and
some that no run checks. The liveness
properties are not, since the installed provers handle neither liveness under
fairness nor `ENABLED`. Induction over data, and modules with recursive
operators, are outside their reach as well; the modules here need neither.

## 5. Plan

1. `TextIndex` with the query path of the semantic search, so that what a query may
   rank is bounded by the rules at the time it is answered.
2. The history's insert with representations and pins against an abstract
   history, in place of `corpus` of `SearchCache`.
3. The updater's install gate and the hotkey's registration, if they grow states.
