----------------------------- MODULE Ownership -----------------------------
(***************************************************************************)
(* Who owns the store of one data directory: the processes that open it    *)
(* (the daemon, nagori-daemon serve/lifecycle.rs; the desktop app,         *)
(* src-tauri lib.rs and state/; the command line's direct reads and        *)
(* writes), the lock they take (nagori-storage process_lock.rs), the       *)
(* purge that clear_on_quit leaves pending (nagori-daemon                  *)
(* clear_on_quit.rs), the marker a restarting app leaves for its heir      *)
(* (state/restart_handoff.rs) and the supervised worker that captures      *)
(* while its host drains.                                                  *)
(*                                                                         *)
(* Processes are numbered in the order they are started.  An entry is      *)
(* known by the process that stored it and by whether it was stored after  *)
(* its own host had asked for the clearing.  The five supervised workers   *)
(* are one, the one that stores entries; its database call runs on a       *)
(* blocking thread that an abort does not stop.                            *)
(***************************************************************************)
EXTENDS Naturals

CONSTANTS
  N,           \* bound on the processes started
  MaxCrashes,  \* bound on the processes killed
  MaxFaults    \* bound on the file and database operations that fail

ASSUME OwnershipAssumption == N \in Nat /\ MaxCrashes \in Nat /\ MaxFaults \in Nat

VARIABLES
  lock,        \* the process that holds nagori.lock
  marker,      \* ClearOnQuitMarker: a purge is pending
  handoff,     \* RestartHandoff: its marker is absent, fresh or too old
  hist,        \* the unpinned entries stored
  proc,        \* per process: its next step and what it knows
  doomed,      \* history: the entries someone asked to clear
  promised,    \* history: the restarting process whose marker still counts
  crashes, faults

vars == <<lock, marker, handoff, hist, proc, doomed, promised, crashes, faults>>
disk == <<marker, handoff, hist>>
bounds == <<crashes, faults>>

Procs == 1..N
None == 0      \* no process
Hosts == {"daemon", "desktop"}
Roles == Hosts \cup {"write", "read"}
Entries == Procs \X {"early", "late"}

\* A process not started yet.  `stale' records what had been cleared when it
\* opened the store, `sweep' a purge that nobody waits for any more.
Off == [pc |-> "off", role |-> "none", worker |-> "none", job |-> FALSE, stop |-> FALSE,
        heir |-> FALSE, from |-> None, resumable |-> FALSE, sweep |-> FALSE, stale |-> {}]

Init ==
  /\ lock = None /\ marker = FALSE /\ handoff = "none"
  /\ hist = {} /\ proc = [p \in Procs |-> Off]
  /\ doomed = {} /\ promised = None /\ crashes = 0 /\ faults = 0

-----------------------------------------------------------------------------

At(p, l) == proc[p].pc = l
Is(p, roles) == proc[p].role \in roles
Goto(p, l) == proc' = [proc EXCEPT ![p].pc = l]
Fault == faults < MaxFaults /\ faults' = faults + 1 /\ UNCHANGED crashes

\* Its files are closed, the lock among them.
Unlock(p) == lock' = IF lock = p THEN None ELSE lock
Ended(p) == [Off EXCEPT !.pc = "ended", !.stop = proc[p].stop]

\* Seeded fault: an early return that leaves the lock file open.
EndsLocked(p) == proc' = [proc EXCEPT ![p] = Ended(p)] /\ UNCHANGED lock

Ends(p) == proc' = [proc EXCEPT ![p] = Ended(p)] /\ Unlock(p)

IsNext(p) == At(p, "off") /\ \A q \in 1..p - 1 : ~At(q, "off")

Launch(p) ==
  /\ IsNext(p)
  /\ \E r \in Roles : proc' = [proc EXCEPT ![p].pc = "launch", ![p].role = r]
  /\ UNCHANGED <<lock, disk, doomed, promised, bounds>>

\* An app finds the lock held; it has yet to look for a restart marker.
Held(p) ==
  /\ At(p, "launch") /\ lock # None /\ Is(p, {"desktop"}) /\ Goto(p, "held")
  /\ UNCHANGED <<lock, disk, doomed, promised, bounds>>

\* The lock was found held.
Turned(p) == (At(p, "launch") /\ lock # None /\ Is(p, {"daemon", "write"})) \/ At(p, "held")

Locks(p) == lock = None /\ lock' = p /\ Goto(p, "opening")

\* Seeded fault: a refused launch removes the marker it did not wait for.
RefusedClears(p) ==
  /\ Turned(p)
  /\ handoff' = "none" /\ Ends(p)
  /\ UNCHANGED <<marker, hist, doomed, promised, bounds>>

\* Only an app that finds a fresh restart marker waits.
Refused(p) ==
  /\ Turned(p)
  /\ IF At(p, "held") /\ handoff = "fresh" THEN Goto(p, "wait") /\ UNCHANGED lock ELSE Ends(p)
  /\ UNCHANGED <<disk, doomed, promised, bounds>>

\* RestartHandoff.clear: a marker that cannot be removed is left, with a warning.
Clears ==
  \/ handoff' = "none" /\ UNCHANGED bounds
  \/ handoff # "none" /\ Fault /\ UNCHANGED handoff

Acquire(p) ==
  /\ (At(p, "launch") /\ Is(p, {"daemon", "write", "desktop"})) \/ At(p, "wait")
  /\ Locks(p)
  /\ IF Is(p, {"desktop"}) THEN Clears ELSE UNCHANGED <<handoff, bounds>>
  /\ UNCHANGED <<marker, hist, doomed, promised>>

\* LOCK_WAIT is over: later launches shall not wait either.
GiveUp(p) ==
  /\ At(p, "wait") /\ Clears /\ Ends(p)
  /\ promised' = IF handoff' = "none" THEN None ELSE promised
  /\ UNCHANGED <<marker, hist, doomed>>

\* MARKER_MAX_AGE passes.
MarkerAges ==
  /\ handoff = "fresh" /\ handoff' = "stale" /\ promised' = None
  /\ UNCHANGED <<lock, marker, hist, proc, doomed, bounds>>

\* A direct read takes no lock to start with.
ReadOpens(p) ==
  /\ At(p, "launch") /\ Is(p, {"read"}) /\ Goto(p, "opening")
  /\ UNCHANGED <<lock, disk, doomed, promised, bounds>>

OpenFails(p) ==
  /\ At(p, "opening") /\ Fault /\ Ends(p)
  /\ UNCHANGED <<disk, doomed, promised>>

\* It starts to use the store; what was cleared so far it must not see.
Boot(p) ==
  proc' = [proc EXCEPT ![p].pc = IF Is(p, Hosts) THEN "boot" ELSE "using", ![p].stale = doomed]

\* The pending purge is looked for; only a direct read has no lock by now.
Look(p) ==
  /\ At(p, "opening")
  /\ CASE ~marker -> Boot(p)
       [] marker /\ ~Is(p, {"read"}) -> Goto(p, "finish")
       [] marker /\ Is(p, {"read"}) -> Goto(p, "claim")
  /\ UNCHANGED <<lock, disk, doomed, promised, bounds>>

\* Its owner may still be at the purge: then the read fails.
Claim(p) ==
  /\ At(p, "claim")
  /\ IF lock = None THEN lock' = p /\ Goto(p, "recheck") ELSE Ends(p)
  /\ UNCHANGED <<disk, doomed, promised, bounds>>

\* A direct read gives the lock back once the purge is finished.
Finished(p) == Boot(p) /\ IF Is(p, {"read"}) THEN Unlock(p) ELSE UNCHANGED lock

\* With the lock, the marker is looked at again.
Recheck(p) ==
  /\ At(p, "recheck")
  /\ IF marker THEN Goto(p, "finish") /\ UNCHANGED lock ELSE Finished(p)
  /\ UNCHANGED <<disk, doomed, promised, bounds>>

FinishPurge(p) ==
  /\ At(p, "finish") /\ hist' = {} /\ Goto(p, "unmark")
  /\ UNCHANGED <<lock, marker, handoff, doomed, promised, bounds>>

FinishUnmarks(p) ==
  /\ At(p, "unmark") /\ marker' = FALSE /\ Finished(p)
  /\ UNCHANGED <<handoff, hist, doomed, promised, bounds>>

\* The purge or the removal of its marker fails: the start is refused.
FinishFails(p) ==
  /\ proc[p].pc \in {"finish", "unmark"} /\ Fault /\ Ends(p)
  /\ UNCHANGED <<disk, doomed, promised>>

\* A direct command shows the history, or adds to it, and is over.
Use(p) ==
  /\ At(p, "using") /\ Ends(p)
  /\ hist' = IF Is(p, {"write"}) THEN hist \cup {<<p, "early">>} ELSE hist
  /\ UNCHANGED <<marker, handoff, doomed, promised, bounds>>

-----------------------------------------------------------------------------

\* A host's settings are loaded and its workers spawned.
Start(p) ==
  /\ At(p, "boot")
  /\ proc' = [proc EXCEPT ![p].worker = "idle",
                          ![p].pc = IF Is(p, {"daemon"}) THEN "binding" ELSE "serving"]
  /\ UNCHANGED <<lock, disk, doomed, promised, bounds>>

\* They cannot be loaded: a daemon stops, an app goes on without its workers.
StartFails(p) ==
  /\ At(p, "boot") /\ Fault
  /\ IF Is(p, {"daemon"}) THEN Ends(p) ELSE Goto(p, "serving") /\ UNCHANGED lock
  /\ UNCHANGED <<disk, doomed, promised>>

Bound(p) ==
  /\ At(p, "binding") /\ Goto(p, "serving")
  /\ UNCHANGED <<lock, disk, doomed, promised, bounds>>

\* No endpoint: the workers are drained and the daemon is over.
BindFails(p) ==
  /\ At(p, "binding") /\ Fault
  /\ proc' = [proc EXCEPT ![p].pc = "retreat", ![p].stop = TRUE]
  /\ UNCHANGED <<lock, disk, doomed, promised>>

Worker(p, from, to) == proc[p].worker = from /\ proc' = [proc EXCEPT ![p].worker = to]

\* The worker hands an entry to a blocking thread and waits for it.
Tick(p) ==
  /\ proc[p].worker = "idle"
  /\ proc' = [proc EXCEPT ![p].worker = "inserting", ![p].job = TRUE]
  /\ UNCHANGED <<lock, disk, doomed, promised, bounds>>

\* The blocking thread stores it, whether or not anyone still waits.
JobLands(p) ==
  /\ proc[p].job
  /\ hist' = hist \cup {<<p, IF <<p, "early">> \in doomed THEN "late" ELSE "early">>}
  /\ proc' = [proc EXCEPT ![p].job = FALSE,
                          ![p].worker = IF @ = "inserting" THEN "idle" ELSE @]
  /\ UNCHANGED <<lock, marker, handoff, doomed, promised, bounds>>

\* A panic, or a return nobody asked for; the supervisor waits and respawns,
\* unless the shutdown comes first.
WorkerExits(p) ==
  /\ ~proc[p].stop /\ Worker(p, "idle", "backoff")
  /\ UNCHANGED <<lock, disk, doomed, promised, bounds>>

Respawn(p) ==
  /\ ~proc[p].stop /\ Worker(p, "backoff", "idle")
  /\ UNCHANGED <<lock, disk, doomed, promised, bounds>>

\* Between two ticks, or in the back-off, the shutdown is seen.
WorkerStops(p) ==
  /\ proc[p].stop
  /\ Worker(p, "idle", "none") \/ Worker(p, "backoff", "none")
  /\ UNCHANGED <<lock, disk, doomed, promised, bounds>>

\* Seeded fault: nothing bounds the drain.
NeverOverdue(p) == FALSE /\ UNCHANGED vars

\* The grace is over: the worker is aborted, its blocking thread is not.
Overdue(p) ==
  /\ proc[p].stop /\ Worker(p, "inserting", "none")
  /\ UNCHANGED <<lock, disk, doomed, promised, bounds>>

\* Ctrl-C, SIGTERM, Quit, or a request to shut down.
Stop(p) ==
  /\ At(p, "serving")
  /\ proc' = [proc EXCEPT ![p].pc = "drain", ![p].stop = TRUE]
  /\ UNCHANGED <<lock, disk, doomed, promised, bounds>>

\* An update was installed: the restart is announced, if that can be written,
\* and the quit goes its way; an heir is started at its end.
Restart(p) ==
  /\ At(p, "serving") /\ Is(p, {"desktop"})
  /\ proc' = [proc EXCEPT ![p].pc = "drain", ![p].stop = TRUE, ![p].heir = TRUE]
  /\ \/ handoff' = "fresh" /\ promised' = p /\ UNCHANGED bounds
     \/ Fault /\ UNCHANGED <<handoff, promised>>
  /\ UNCHANGED <<lock, marker, hist, doomed>>

Drained(p) ==
  /\ proc[p].pc \in {"drain", "retreat"} /\ proc[p].worker = "none"
  /\ Goto(p, IF At(p, "drain") THEN "quit" ELSE "exit")
  /\ UNCHANGED <<lock, disk, doomed, promised, bounds>>

\* clear_on_quit is off.
KeepHistory(p) ==
  /\ At(p, "quit") /\ Goto(p, "exit")
  /\ UNCHANGED <<lock, disk, doomed, promised, bounds>>

\* What p's quit clears.
Cleared(p) == doomed \cup hist \cup {<<p, "early">>}

\* It is on: the marker goes before the purge.  If it cannot be written the
\* purge is waited for, and until it is done nothing is promised.
MarkPending(p) ==
  /\ At(p, "quit")
  /\ \/ marker' = TRUE /\ doomed' = Cleared(p) /\ UNCHANGED bounds
        /\ proc' = [proc EXCEPT ![p].pc = "purge", ![p].resumable = TRUE]
     \/ Fault /\ Goto(p, "purge") /\ UNCHANGED <<marker, doomed>>
  /\ UNCHANGED <<lock, handoff, hist, promised>>

Purge(p) ==
  /\ At(p, "purge") /\ hist' = {}
  /\ Goto(p, IF proc[p].resumable THEN "unmarkQuit" ELSE "exit")
  /\ doomed' = IF proc[p].resumable THEN doomed ELSE Cleared(p)
  /\ UNCHANGED <<lock, marker, handoff, promised, bounds>>

PurgeFails(p) ==
  /\ At(p, "purge") /\ Fault /\ Goto(p, "exit")
  /\ UNCHANGED <<lock, disk, doomed, promised>>

\* Seeded fault: the marker is removed although the purge did not end.
TimeoutUnmarks(p) ==
  /\ At(p, "purge") /\ proc[p].resumable /\ Is(p, {"desktop"})
  /\ proc' = [proc EXCEPT ![p].pc = "unmarkQuit", ![p].sweep = TRUE]
  /\ UNCHANGED <<lock, disk, doomed, promised, bounds>>

\* An app's exit waits no longer; the purge goes on until the process ends.
PurgeTimesOut(p) ==
  /\ At(p, "purge") /\ proc[p].resumable /\ Is(p, {"desktop"})
  /\ proc' = [proc EXCEPT ![p].pc = "exit", ![p].sweep = TRUE]
  /\ UNCHANGED <<lock, disk, doomed, promised, bounds>>

Sweep(p) ==
  /\ proc[p].sweep /\ hist' = {}
  /\ proc' = [proc EXCEPT ![p].sweep = FALSE]
  /\ UNCHANGED <<lock, marker, handoff, doomed, promised, bounds>>

QuitUnmarks(p) ==
  /\ At(p, "unmarkQuit") /\ Goto(p, "exit")
  /\ \/ marker' = FALSE /\ UNCHANGED bounds
     \/ Fault /\ UNCHANGED marker
  /\ UNCHANGED <<lock, handoff, hist, doomed, promised>>

\* The restarted instance is spawned before this one exits.
SpawnHeir(p) ==
  /\ At(p, "exit") /\ proc[p].heir
  /\ \E h \in Procs :
       /\ IsNext(h)
       /\ proc' = [proc EXCEPT ![p].heir = FALSE,
                     ![h] = [@ EXCEPT !.pc = "launch", !.role = "desktop", !.from = p]]
  /\ UNCHANGED <<lock, disk, doomed, promised, bounds>>

\* Seeded fault: the app's process lasts as long as its blocking threads, too.
ExitLingers(p) ==
  /\ At(p, "exit") /\ Unlock(p) /\ (proc[p].heir => ~\E h \in Procs : IsNext(h))
  /\ proc' = [proc EXCEPT ![p] =
                [Ended(p) EXCEPT !.job = proc[p].job, !.sweep = proc[p].sweep]]
  /\ UNCHANGED <<disk, doomed, promised, bounds>>

\* The app's process is gone at once.  The daemon gives the lock back when
\* run_daemon returns, and its process lasts as long as its blocking threads.
Exit(p) ==
  /\ At(p, "exit") /\ Unlock(p) /\ (proc[p].heir => ~\E h \in Procs : IsNext(h))
  /\ proc' = [proc EXCEPT ![p] = IF Is(p, {"daemon"})
                THEN [Ended(p) EXCEPT !.job = proc[p].job, !.sweep = proc[p].sweep] ELSE Ended(p)]
  /\ UNCHANGED <<disk, doomed, promised, bounds>>

\* The process is killed, with its threads.
Crash(p) ==
  /\ ~At(p, "off") /\ (At(p, "ended") => proc[p].job)
  /\ crashes < MaxCrashes /\ crashes' = crashes + 1 /\ UNCHANGED faults
  /\ Ends(p)
  /\ UNCHANGED <<disk, doomed, promised>>

-----------------------------------------------------------------------------

Opens(p) ==
  \/ Held(p) \/ Refused(p) \/ Acquire(p) \/ GiveUp(p) \/ ReadOpens(p) \/ OpenFails(p) \/ Look(p) \/ Claim(p) \/ Recheck(p)
  \/ FinishPurge(p) \/ FinishUnmarks(p) \/ FinishFails(p) \/ Use(p)
  \/ Start(p) \/ StartFails(p) \/ Bound(p) \/ BindFails(p)

Works(p) == Tick(p) \/ JobLands(p) \/ WorkerExits(p) \/ Respawn(p) \/ WorkerStops(p) \/ Overdue(p)

Quits(p) ==
  \/ Drained(p) \/ KeepHistory(p) \/ MarkPending(p) \/ Purge(p) \/ PurgeFails(p)
  \/ PurgeTimesOut(p) \/ QuitUnmarks(p) \/ SpawnHeir(p) \/ Exit(p)

Next ==
  \/ MarkerAges
  \/ \E p \in Procs :
       \/ Launch(p) \/ Opens(p) \/ Works(p) \/ Stop(p) \/ Restart(p) \/ Quits(p)
       \/ Sweep(p) \/ Crash(p)

Spec == Init /\ [][Next]_vars

\* A process started goes on, and so does a quit; a worker that is told to
\* stop does, unless its blocking thread never returns, and then it is aborted.
FairSpec ==
  /\ Spec
  /\ \A p \in Procs : WF_vars(Opens(p)) /\ WF_vars(WorkerStops(p) \/ Overdue(p)) /\ WF_vars(Quits(p))

-----------------------------------------------------------------------------

\* Where a process has the lock: a host or a direct write once it got it, a
\* direct read while it finishes a purge.
Owning(p) ==
  \/ proc[p].pc \in {"recheck", "finish", "unmark"}
  \/ ~Is(p, {"read"}) /\ proc[p].pc \notin {"off", "launch", "held", "wait", "ended"}

Processes ==
  [pc : {"off", "launch", "held", "wait", "opening", "claim", "recheck", "finish", "unmark",
         "using", "boot", "binding", "serving", "retreat", "drain", "quit", "purge",
         "unmarkQuit", "exit", "ended"},
   role : Roles \cup {"none"}, worker : {"none", "idle", "inserting", "backoff"}, job : BOOLEAN,
   stop : BOOLEAN, heir : BOOLEAN, from : Procs \cup {None}, resumable : BOOLEAN,
   sweep : BOOLEAN, stale : SUBSET Entries]

\* The types, and that the lock is held exactly where it is relied upon.
TypeOK ==
  /\ lock \in Procs \cup {None} /\ marker \in BOOLEAN /\ handoff \in {"none", "fresh", "stale"}
  /\ hist \subseteq Entries /\ doomed \subseteq Entries /\ promised \in Procs \cup {None}
  /\ crashes \in 0..MaxCrashes /\ faults \in 0..MaxFaults
  /\ proc \in [Procs -> Processes]
  /\ \A p \in Procs : Owning(p) <=> lock = p

\* What a quit was asked to clear is never there again for a process that
\* opened the store afterwards, whatever failed or was killed on the way: once
\* the marker is written, or else once the purge is done (clear_on_quit.rs).
ClearedStaysCleared ==
  \A p \in Procs :
    proc[p].pc \in {"using", "boot", "binding", "serving"} => hist \cap proc[p].stale = {}

\* A purge, in time or late, removes only what was there when it was asked
\* for, or what the host it was asked of stores while it goes: never an entry
\* of a host that started afterwards (clear_on_quit.rs, lifecycle.rs).
NewHistorySurvives ==
  [][\A e \in hist \ hist' : e \in doomed' \/ proc[e[1]].stop]_vars

\* While a restarting app holds the lock and its marker counts, the instance
\* it spawned is not refused at once, whoever else is launched meanwhile
\* (restart_handoff.rs).
HeirWaits ==
  [][\A h \in Procs :
       At(h, "held") /\ proc[h].from # None /\ lock = proc[h].from /\ promised = lock
         => proc'[h].pc # "ended" \/ crashes' # crashes]_vars

\* A host told to stop lets go of the store, even when a database call of its
\* worker never returns (lifecycle.rs, lib.rs).
StopReleases == \A p \in Procs : proc[p].stop ~> lock # p

\* The daemon's comment on its quit, "Every worker has drained, so nothing is
\* captured behind the purge" (lifecycle.rs).
NothingBehindPurge == \A p \in Procs : <<p, "late">> \notin hist

=============================================================================
