------------------------------- MODULE IpcHost -------------------------------
(***************************************************************************)
(* The processes that may serve one IPC endpoint: a standalone daemon      *)
(* (serve/lifecycle.rs, run_daemon) and desktop shells, each with its      *)
(* supervisor (serve/ipc.rs), the accept loop the supervisor starts and    *)
(* the handlers of its connections (nagori-ipc server/accept.rs, unix.rs,  *)
(* windows.rs, connection.rs).  They meet in the endpoint lock and in two  *)
(* files, the socket and the token.  A file is the host that wrote it: a   *)
(* start overwrites both, so of one host only its last server's can be     *)
(* there while it serves.                                                  *)
(*                                                                         *)
(* Time is discrete where the code measures it: the wedge probe ticks only *)
(* once the accept loop has done all it can, as a loop that runs answers   *)
(* in far less than the probe's interval.                                  *)
(***************************************************************************)
EXTENDS Integers, FiniteSets

CONSTANTS
  Hosts,        \* processes configured with the same endpoint
  Daemons,      \* those of them that are `nagori daemon run`
  Conns,        \* client connections; a host's own probe is a connection named after it
  None,
  Permits,      \* IpcServerConfig::permits()
  WedgeTicks,   \* probe intervals in IPC_LIVENESS_WEDGE_THRESHOLD
  MaxFlips,     \* bound: changes of cli_ipc_enabled
  MaxFaults     \* bound: crashes, fatal accept errors, wedges and panics

ASSUME HostsAssumption == Daemons \subseteq Hosts /\ None \notin Hosts
ASSUME ConnsAssumption == Hosts \cap Conns = {} /\ IsFiniteSet(Conns \cup Hosts)
ASSUME HostBounds == 
  Permits \in Nat \ {0} /\ WedgeTicks \in Nat \ {0} /\ MaxFlips \in Nat /\ MaxFaults \in Nat

VARIABLES
  sup,       \* per host: where its supervisor is
  enabled,   \* per host: cli_ipc_enabled, as published
  unseen,    \* per host: a publish the supervisor has not consumed
  server,    \* per host: the supervisor has an IpcServerTask
  pending,   \* per host: restart_pending
  down,      \* per host: its shutdown handle is cancelled
  loop,      \* per host: where its accept loop is
  stop,      \* per host: the server's stop_tx
  age,       \* per host: probe intervals since the last record_accept
  free,      \* per host: permits of the semaphore
  conn,      \* per connection: where it is, at which host, and whether the peer is there
  lock,      \* who holds the endpoint lock
  socket,    \* whose socket is at the endpoint's path
  token,     \* whose token is in the token file
  staged,    \* per host: the files it renamed aside
  flips, faults

hostVars == <<sup, enabled, unseen, server, pending, down>>
loopVars == <<loop, stop, age, free, conn>>
fileVars == <<lock, socket, token, staged>>
vars == <<hostVars, loopVars, fileVars, flips, faults>>

Clients == Conns \cup Hosts
Idle == [pc |-> "idle", host |-> None, peer |-> TRUE]
Handling == {"read", "run", "write"}

Init ==
  /\ sup = [h \in Hosts |-> "off"] /\ enabled \in [Hosts -> BOOLEAN]
  /\ unseen = [h \in Hosts |-> FALSE] /\ server = [h \in Hosts |-> FALSE]
  /\ pending = [h \in Hosts |-> FALSE] /\ down = [h \in Hosts |-> FALSE]
  /\ loop = [h \in Hosts |-> "none"] /\ stop = [h \in Hosts |-> FALSE]
  /\ age = [h \in Hosts |-> 0] /\ free = [h \in Hosts |-> Permits]
  /\ conn = [c \in Clients |-> Idle]
  /\ lock = None /\ socket = None /\ token = None /\ staged = [h \in Hosts |-> {}]
  /\ flips = 0 /\ faults = 0

-----------------------------------------------------------------------------

At(h, pcs) == {c \in Clients : conn[c].host = h /\ conn[c].pc \in pcs}
Listening(h) == loop[h] \in {"select", "backoff", "permit", "stuck"}
Stopping(h) == down[h] \/ stop[h]
Up(h) == sup[h] \notin {"off", "gone"}

\* The connections of C end without an answer: the peer sees EOF.
Closed(C) == [c \in Clients |-> IF c \in C THEN [conn[c] EXCEPT !.pc = "eof"] ELSE conn[c]]

\* The loop has done all it can until a client, a handler or a timer moves.
Quiet(h) ==
  \/ loop[h] \in {"none", "stuck", "backoff", "done"}
  \/ loop[h] = "select" /\ At(h, {"backlog"}) = {}
  \/ loop[h] = "permit" /\ free[h] = 0

-----------------------------------------------------------------------------
(* Starting a server: ensure_ipc_runtime_dirs, the lock, the bind, the token. *)

\* bind_unix_replacing_stale reclaims a dead socket and refuses a live one.
Bindable == socket # None => ~Listening(socket)

\* A seeded fault: the endpoint is bound without its lock.
LockIgnored == TRUE

\* acquire_endpoint_lock.
LockFree == lock = None

StartOk(h) ==
  /\ LockFree /\ Bindable
  /\ lock' = h /\ socket' = h /\ token' = h
  /\ server' = [server EXCEPT ![h] = TRUE] /\ pending' = [pending EXCEPT ![h] = FALSE]
  /\ loop' = [loop EXCEPT ![h] = "select"] /\ stop' = [stop EXCEPT ![h] = FALSE]
  /\ age' = [age EXCEPT ![h] = 0] /\ free' = [free EXCEPT ![h] = Permits]
  /\ UNCHANGED <<conn, staged, faults>>

\* A seeded fault: a start that failed does not arm the restart timer.
StartFailsUnarmed(h) ==
  /\ socket' \in {socket} \cup IF LockFree /\ Bindable THEN {None} ELSE {}
  /\ UNCHANGED <<loopVars, lock, token, staged, server, pending, faults>>

\* A refusal, an I/O error, or a token that cannot be written, whose socket is
\* unlinked again; the lock, if it was taken, is dropped.
StartFails(h) ==
  /\ socket' \in {socket} \cup IF LockFree /\ Bindable THEN {None} ELSE {}
  /\ pending' = [pending EXCEPT ![h] = TRUE]
  /\ UNCHANGED <<loopVars, lock, token, staged, server, faults>>

-----------------------------------------------------------------------------
(* The supervisor. *)

\* run_daemon and spawn_cli_ipc_supervisor: a daemon that cannot bind gives up.
Launch(h) ==
  /\ sup[h] = "off"
  /\ \/ enabled[h] /\ StartOk(h) /\ sup' = [sup EXCEPT ![h] = "wait"]
     \/ enabled[h] /\ h \notin Daemons /\ StartFails(h) /\ sup' = [sup EXCEPT ![h] = "wait"]
     \/ /\ enabled[h] /\ h \in Daemons /\ sup' = [sup EXCEPT ![h] = "gone"]
        /\ socket' \in {socket} \cup IF LockFree /\ Bindable THEN {None} ELSE {}
        /\ UNCHANGED <<loopVars, lock, token, staged, server, pending, faults>>
     \/ /\ ~enabled[h] /\ sup' = [sup EXCEPT ![h] = "wait"]
        /\ UNCHANGED <<loopVars, fileVars, server, pending, faults>>
  /\ UNCHANGED <<enabled, unseen, down, flips>>

\* A seeded fault: with the token staged, the socket is not.
StagedOne(h) == IF token = h THEN {"token"} ELSE IF socket = h THEN {"socket"} ELSE {}

\* stage_token, stage_socket: a file is renamed aside if it is still this server's.
Staged(h) == (IF token = h THEN {"token"} ELSE {}) \cup (IF socket = h THEN {"socket"} ELSE {})

\* stop_ipc_server: stage the files, ask the loop to stop, drain it ...
BeginStop(h, pc) ==
  /\ sup' = [sup EXCEPT ![h] = pc]
  /\ staged' = [staged EXCEPT ![h] = Staged(h)]
  /\ token' = IF "token" \in Staged(h) THEN None ELSE token
  /\ socket' = IF "socket" \in Staged(h) THEN None ELSE socket
  /\ stop' = [stop EXCEPT ![h] = TRUE]
  /\ UNCHANGED <<lock, server, loop, age, free, conn>>

\* ... remove the files, and release the lock with the server.
FinishStop(h) ==
  /\ sup[h] \in {"disable", "shutdown"} /\ loop[h] = "done"
  /\ sup' = [sup EXCEPT ![h] = IF sup[h] = "disable" THEN "wait" ELSE "gone"]
  /\ server' = [server EXCEPT ![h] = FALSE] /\ loop' = [loop EXCEPT ![h] = "none"]
  /\ staged' = [staged EXCEPT ![h] = {}] /\ lock' = None
  /\ UNCHANGED <<enabled, unseen, pending, down, stop, age, free, conn, socket, token, flips, faults>>

\* A seeded fault: a drain has no timeout.
NeverOverdue(h) == FALSE

\* A drain runs out of time: a loop that turns has ended its own by then.
Overdue(h) == loop[h] = "stuck"

\* drain_one's timeout, one second after the loop's own: a loop that does not
\* stop is aborted, its handlers with it.
AbortStuck(h) ==
  /\ sup[h] \in {"disable", "shutdown"} /\ Overdue(h)
  /\ loop' = [loop EXCEPT ![h] = "done"]
  /\ conn' = Closed(At(h, {"backlog", "held"} \cup Handling))
  /\ free' = [free EXCEPT ![h] = Permits]
  /\ UNCHANGED <<hostVars, stop, age, fileVars, flips, faults>>

\* drain_workers' outer timeout, when a probe and a stuck loop used up its slack:
\* the supervisor is aborted, its server dropped, its files left, the loop detached.
AbortSupervisor(h) ==
  /\ down[h] /\ sup[h] \in {"probe", "shutdown"} /\ Overdue(h)
  /\ sup' = [sup EXCEPT ![h] = "gone"]
  /\ server' = [server EXCEPT ![h] = FALSE] /\ lock' = None
  /\ UNCHANGED <<enabled, unseen, pending, down, loopVars, socket, token, staged, flips, faults>>

\* The process of a supervisor that ended exits, and what it left running with it.
Exit(h) ==
  /\ sup[h] = "gone" /\ loop[h] # "none"
  /\ loop' = [loop EXCEPT ![h] = "none"] /\ staged' = [staged EXCEPT ![h] = {}]
  /\ conn' = Closed(At(h, {"backlog", "held"} \cup Handling))
  /\ free' = [free EXCEPT ![h] = Permits]
  /\ UNCHANGED <<hostVars, stop, age, lock, socket, token, flips, faults>>

\* The first arm of the select.
Shutdown(h) ==
  /\ sup[h] = "wait" /\ down[h]
  /\ \/ server[h] /\ BeginStop(h, "shutdown") /\ UNCHANGED pending
     \/ /\ ~server[h] /\ sup' = [sup EXCEPT ![h] = "gone"]
        /\ UNCHANGED <<loopVars, fileVars, server, pending>>
  /\ UNCHANGED <<enabled, unseen, down, flips, faults>>

\* A seeded fault: a disable leaves the restart timer armed.
DisableKeepsTimer(h) ==
  /\ sup[h] = "wait" /\ ~down[h] /\ unseen[h] /\ ~enabled[h]
  /\ unseen' = [unseen EXCEPT ![h] = FALSE]
  /\ \/ server[h] /\ BeginStop(h, "disable")
     \/ ~server[h] /\ UNCHANGED <<sup, loopVars, fileVars, server>>
  /\ UNCHANGED <<enabled, pending, down, flips, faults>>

\* The second: a disable stops the server, or the restart it waits for.
Disable(h) ==
  /\ sup[h] = "wait" /\ ~down[h] /\ unseen[h] /\ ~enabled[h]
  /\ unseen' = [unseen EXCEPT ![h] = FALSE]
  /\ pending' = [pending EXCEPT ![h] = FALSE]
  /\ \/ server[h] /\ BeginStop(h, "disable")
     \/ ~server[h] /\ UNCHANGED <<sup, loopVars, fileVars, server>>
  /\ UNCHANGED <<enabled, down, flips, faults>>

Enable(h) ==
  /\ sup[h] = "wait" /\ ~down[h] /\ unseen[h] /\ enabled[h]
  /\ unseen' = [unseen EXCEPT ![h] = FALSE]
  /\ IF server[h] \/ pending[h]
       THEN UNCHANGED <<loopVars, fileVars, server, pending, faults>>
       ELSE StartOk(h) \/ StartFails(h)
  /\ UNCHANGED <<sup, enabled, down, flips>>

\* The third: the loop ended on its own.  The lock goes with the dead server, its
\* files stay; the settings are read here, so a change may land before they are.
Reap(h) ==
  /\ sup[h] = "wait" /\ ~down[h] /\ server[h] /\ loop[h] = "done"
  /\ server' = [server EXCEPT ![h] = FALSE] /\ loop' = [loop EXCEPT ![h] = "none"]
  /\ pending' = [pending EXCEPT ![h] = enabled[h]]
  /\ lock' = None
  /\ UNCHANGED <<sup, enabled, unseen, down, stop, age, free, conn, socket, token, staged,
                 flips, faults>>

\* The fourth: the liveness tick connects to the endpoint, whoever is there.  The
\* handler of an earlier probe, its peer gone at once, has long ended.
ProbeDue(h) ==
  /\ sup[h] = "wait" /\ ~down[h] /\ ~unseen[h] /\ server[h] /\ loop[h] # "done"
  /\ Quiet(h) /\ conn[h].pc \in {"idle", "backlog", "held"}

Probed(h) ==
  IF conn[h].pc = "idle" /\ socket # None /\ Listening(socket)
    THEN [conn EXCEPT ![h] = [pc |-> "backlog", host |-> socket, peer |-> FALSE]]
    ELSE conn

\* One interval more since the last accept: alone, a seeded fault, as it leaves out
\* the permit wait's heartbeat.
Older(h) == IF age[h] < WedgeTicks THEN age[h] + 1 ELSE age[h]

\* The age it will read; a loop that waits for a permit refreshes it meanwhile.
NextAge(h) == IF loop[h] = "permit" THEN 0 ELSE Older(h)

Tick(h) ==
  /\ ProbeDue(h)
  /\ sup' = [sup EXCEPT ![h] = "probe"]
  /\ age' = [age EXCEPT ![h] = NextAge(h)] /\ conn' = Probed(h)
  /\ UNCHANGED <<enabled, unseen, server, pending, down, loop, stop, free, fileVars, flips, faults>>

\* A seeded fault: no probe ever finds a loop wedged.
NeverWedged(h) == FALSE

\* When the loop has had a beat to record it, reads the age: a loop that
\* has not accepted for the whole threshold is aborted where it is.
Wedged(h) == age[h] >= WedgeTicks

Sample(h) ==
  /\ sup[h] = "probe" /\ Quiet(h)
  /\ sup' = [sup EXCEPT ![h] = "wait"]
  /\ IF Wedged(h)
       THEN /\ loop' = [loop EXCEPT ![h] = "done"]
            /\ conn' = Closed(At(h, {"backlog", "held"} \cup Handling))
            /\ free' = [free EXCEPT ![h] = Permits]
       ELSE UNCHANGED <<loop, conn, free>>
  /\ UNCHANGED <<enabled, unseen, server, pending, down, stop, age, fileVars, flips, faults>>

\* The last: the restart timer.
RestartOk(h) ==
  /\ sup[h] = "wait" /\ ~down[h] /\ ~unseen[h] /\ pending[h]
  /\ StartOk(h) /\ UNCHANGED <<sup, enabled, unseen, down, flips>>

RestartFails(h) ==
  /\ sup[h] = "wait" /\ ~down[h] /\ ~unseen[h] /\ pending[h]
  /\ StartFails(h) /\ UNCHANGED <<sup, enabled, unseen, down, flips>>

-----------------------------------------------------------------------------
(* The accept loop. *)

\* A connection is accepted; with no permit left the loop waits, holding it.
Accept(h, c) ==
  /\ loop[h] = "select" /\ ~Stopping(h) /\ c \in At(h, {"backlog"})
  /\ age' = [age EXCEPT ![h] = 0]
  /\ IF free[h] > 0
       THEN /\ conn' = [conn EXCEPT ![c].pc = "read"]
            /\ free' = [free EXCEPT ![h] = @ - 1]
            /\ UNCHANGED loop
       ELSE /\ conn' = [conn EXCEPT ![c].pc = "held"]
            /\ loop' = [loop EXCEPT ![h] = "permit"]
            /\ UNCHANGED free
  /\ UNCHANGED <<hostVars, stop, fileVars, flips, faults>>

PermitGranted(h) ==
  /\ loop[h] = "permit" /\ ~Stopping(h) /\ free[h] > 0
  /\ conn' = [c \in Clients |-> IF c \in At(h, {"held"})
                                  THEN [conn[c] EXCEPT !.pc = "read"] ELSE conn[c]]
  /\ free' = [free EXCEPT ![h] = @ - 1]
  /\ loop' = [loop EXCEPT ![h] = "select"]
  /\ UNCHANGED <<hostVars, stop, age, fileVars, flips, faults>>

\* An accept fails for want of a resource, and is retried after a back-off.
AcceptTransient(h) ==
  /\ loop[h] = "select" /\ ~Stopping(h) /\ faults < MaxFaults
  /\ loop' = [loop EXCEPT ![h] = "backoff"] /\ faults' = faults + 1
  /\ UNCHANGED <<hostVars, stop, age, free, conn, fileVars, flips>>

AcceptRetry(h) ==
  /\ loop[h] = "backoff" /\ ~Stopping(h)
  /\ loop' = [loop EXCEPT ![h] = "select"]
  /\ UNCHANGED <<hostVars, stop, age, free, conn, fileVars, flips, faults>>

\* The listener is dropped: the connection in hand and the backlog are refused.
DropListener(h) ==
  /\ loop' = [loop EXCEPT ![h] = "drain"]
  /\ conn' = Closed(At(h, {"backlog", "held"}))
  /\ UNCHANGED <<hostVars, stop, age, free, fileVars, flips>>

\* Shutdown is polled first in every select, the permit wait's too.
StopAccepting(h) ==
  /\ loop[h] \in {"select", "backoff", "permit"} /\ Stopping(h)
  /\ DropListener(h) /\ UNCHANGED faults

AcceptFatal(h) ==
  /\ loop[h] = "select" /\ ~Stopping(h) /\ faults < MaxFaults
  /\ DropListener(h) /\ faults' = faults + 1

\* drain_handlers: the handlers end, or the grace does and they are aborted.
Drained(h) ==
  /\ loop[h] = "drain"
  /\ loop' = [loop EXCEPT ![h] = "done"]
  /\ conn' = Closed(At(h, Handling)) /\ free' = [free EXCEPT ![h] = Permits]
  /\ UNCHANGED <<hostVars, stop, age, fileVars, flips, faults>>

\* The loop stops turning without ending.
Wedge(h) ==
  /\ loop[h] \in {"select", "permit"} /\ faults < MaxFaults
  /\ loop' = [loop EXCEPT ![h] = "stuck"] /\ faults' = faults + 1
  /\ UNCHANGED <<hostVars, stop, age, free, conn, fileVars, flips>>

-----------------------------------------------------------------------------
(* handle_connection, and the client at the other end. *)

\* A handler returns or unwinds, its permit with it.
HandlerEnds(c, pc) ==
  /\ conn' = [conn EXCEPT ![c].pc = pc]
  /\ free' = [free EXCEPT ![conn[c].host] = @ + 1]
  /\ UNCHANGED <<hostVars, loop, stop, age, fileVars, flips>>

\* A request to run; a silent, slow, oversized or malformed one, or one with
\* another server's token, is answered with an error.
ReadRequest(c) ==
  /\ conn[c].pc = "read"
  /\ \E pc \in {"run", "write"} :
       /\ (pc = "run" => conn[c].peer)
       /\ conn' = [conn EXCEPT ![c].pc = pc]
  /\ UNCHANGED <<hostVars, loop, stop, age, free, fileVars, flips, faults>>

\* run_handler_bounded: the handler ends, or its deadline passes.
RunRequest(c) ==
  /\ conn[c].pc = "run"
  /\ conn' = [conn EXCEPT ![c].pc = "write"]
  /\ UNCHANGED <<hostVars, loop, stop, age, free, fileVars, flips, faults>>

\* A seeded fault: a handler cancelled because its peer left keeps its permit.
PeerGoneLeaks(c) ==
  /\ conn[c].pc = "run" /\ ~conn[c].peer
  /\ conn' = [conn EXCEPT ![c].pc = "eof"]
  /\ UNCHANGED <<hostVars, loop, stop, age, free, fileVars, flips, faults>>

PeerGone(c) ==
  /\ conn[c].pc = "run" /\ ~conn[c].peer
  /\ HandlerEnds(c, "eof") /\ UNCHANGED faults

\* The write-back, which a reader too slow for WRITE_TIMEOUT does not get.
WriteBack(c) ==
  /\ conn[c].pc = "write"
  /\ \E pc \in {"answered", "eof"} :
       (pc = "answered" => conn[c].peer) /\ HandlerEnds(c, pc)
  /\ UNCHANGED faults

HandlerPanics(c) ==
  /\ conn[c].pc = "run" /\ faults < MaxFaults
  /\ HandlerEnds(c, "eof") /\ faults' = faults + 1

Handler(c) == ReadRequest(c) \/ RunRequest(c) \/ PeerGone(c) \/ WriteBack(c)

Connect(c) ==
  /\ c \in Conns /\ conn[c].pc = "idle" /\ socket # None /\ Listening(socket)
  /\ conn' = [conn EXCEPT ![c] = [pc |-> "backlog", host |-> socket, peer |-> TRUE]]
  /\ UNCHANGED <<hostVars, loop, stop, age, free, fileVars, flips, faults>>

HangUp(c) ==
  /\ conn[c].pc \in {"backlog", "held"} \cup Handling /\ conn[c].peer
  /\ conn' = [conn EXCEPT ![c].peer = FALSE]
  /\ UNCHANGED <<hostVars, loop, stop, age, free, fileVars, flips, faults>>

ClientDone(c) ==
  /\ conn[c].pc \in {"answered", "eof"}
  /\ conn' = [conn EXCEPT ![c] = Idle]
  /\ UNCHANGED <<hostVars, loop, stop, age, free, fileVars, flips, faults>>

-----------------------------------------------------------------------------
(* Settings, shutdown and crashes. *)

Flip(h) ==
  /\ Up(h) /\ flips < MaxFlips
  /\ enabled' = [enabled EXCEPT ![h] = ~@] /\ unseen' = [unseen EXCEPT ![h] = TRUE]
  /\ flips' = flips + 1
  /\ UNCHANGED <<sup, server, pending, down, loopVars, fileVars, faults>>

CancelAll(h) ==
  /\ Up(h) /\ ~down[h] /\ down' = [down EXCEPT ![h] = TRUE]
  /\ UNCHANGED <<sup, enabled, unseen, server, pending, loopVars, fileVars, flips, faults>>

\* The operating system releases a dead process's lock and closes its sockets.
Crash(h) ==
  /\ Up(h) /\ faults < MaxFaults /\ faults' = faults + 1
  /\ sup' = [sup EXCEPT ![h] = "off"] /\ loop' = [loop EXCEPT ![h] = "none"]
  /\ server' = [server EXCEPT ![h] = FALSE] /\ pending' = [pending EXCEPT ![h] = FALSE]
  /\ unseen' = [unseen EXCEPT ![h] = FALSE] /\ down' = [down EXCEPT ![h] = FALSE]
  /\ lock' = IF lock = h THEN None ELSE lock
  /\ conn' = Closed(At(h, {"backlog", "held"} \cup Handling))
  /\ stop' = [stop EXCEPT ![h] = FALSE] /\ age' = [age EXCEPT ![h] = 0]
  /\ free' = [free EXCEPT ![h] = Permits] /\ staged' = [staged EXCEPT ![h] = {}]
  /\ UNCHANGED <<enabled, socket, token, flips>>

Supervisor(h) ==
  \/ Shutdown(h) \/ Disable(h) \/ Enable(h) \/ Reap(h) \/ Tick(h) \/ Sample(h)
  \/ RestartOk(h) \/ RestartFails(h) \/ FinishStop(h) \/ AbortStuck(h) \/ AbortSupervisor(h)

AcceptLoop(h) ==
  \/ \E c \in Clients : Accept(h, c)
  \/ PermitGranted(h) \/ AcceptRetry(h) \/ StopAccepting(h) \/ Drained(h)
  \/ AcceptTransient(h) \/ AcceptFatal(h) \/ Wedge(h)

Client(c) == Connect(c) \/ HangUp(c) \/ ClientDone(c)

Next ==
  \/ \E h \in Hosts : \/ Launch(h) \/ Supervisor(h) \/ AcceptLoop(h) \/ Exit(h)
                      \/ Flip(h) \/ CancelAll(h) \/ Crash(h)
  \/ \E c \in Clients : Handler(c) \/ HandlerPanics(c) \/ Client(c)

Spec == Init /\ [][Next]_vars

-----------------------------------------------------------------------------

\* The types, and that every permit is free or with a live handler, however
\* handlers end: answered, dropped with their peer, panicked, aborted
\* (handle_connection, drain_handlers).
TypeOK ==
  /\ sup \in [Hosts -> {"off", "wait", "probe", "disable", "shutdown", "gone"}]
  /\ enabled \in [Hosts -> BOOLEAN] /\ unseen \in [Hosts -> BOOLEAN]
  /\ server \in [Hosts -> BOOLEAN] /\ pending \in [Hosts -> BOOLEAN]
  /\ down \in [Hosts -> BOOLEAN] /\ stop \in [Hosts -> BOOLEAN]
  /\ loop \in [Hosts -> {"none", "select", "backoff", "permit", "stuck", "drain", "done"}]
  /\ age \in [Hosts -> 0..WedgeTicks] /\ free \in [Hosts -> 0..Permits]
  /\ conn \in [Clients -> [pc : {"idle", "backlog", "held", "answered", "eof"} \cup Handling,
                           host : Hosts \cup {None}, peer : BOOLEAN]]
  /\ lock \in Hosts \cup {None} /\ socket \in Hosts \cup {None} /\ token \in Hosts \cup {None}
  /\ staged \in [Hosts -> SUBSET {"socket", "token"}]
  /\ flips \in 0..MaxFlips /\ faults \in 0..MaxFaults
  /\ \A h \in Hosts : free[h] + Cardinality(At(h, Handling)) = Permits

\* The endpoint lock is held from the bind until a stopped server's files are gone,
\* and the server that can be reached is the one whose token is in the file: of two
\* hosts no start, stop, restart or crash of one breaks the other's endpoint
\* (spawn_ipc_server, stop_ipc_server, the reaping arm).
EndpointIsWhole ==
  \A h \in Hosts :
    /\ server[h] => lock = h
    /\ Listening(h) /\ sup[h] \in {"wait", "probe"} => socket = h /\ token = h

\* A supervisor that has seen cli_ipc_enabled turned off has no server and no
\* restart left to fire, whatever order the disable, an exit of the accept loop and
\* the timer came in (supervise_ipc_server).
DisabledStaysDown ==
  \A h \in Hosts : sup[h] \in {"wait", "probe"} /\ ~unseen[h] /\ ~enabled[h] =>
    ~server[h] /\ ~pending[h]

\* The probe aborts only a loop that has stopped accepting: one that waits for a
\* permit, or was idle until the probe itself, is left alone (wedged_accept_age,
\* acquire_permit_or_shutdown's heartbeat).
BusyIsNotWedged ==
  [][\A h \in Hosts : sup[h] = "probe" /\ sup'[h] = "wait" /\ loop'[h] # loop[h] =>
       loop[h] \in {"stuck", "backoff"}]_vars

\* A stop that runs to its end leaves neither of the server's files
\* (stage_runtime_files, StagedRuntimeFiles::remove).
StopLeavesNoFiles ==
  [][\A h \in Hosts : sup[h] \in {"disable", "shutdown"} /\ lock = h /\ lock' = None
                        /\ sup'[h] # "off" /\ loop[h] = "done" =>
       socket' # h /\ token' # h]_vars

\* What the runtime schedules: a supervisor with an arm ready, a timer due or a start
\* it may make takes a step, and so does an accept loop; the kernel's backlog is in
\* order; handlers and drains are bounded by their deadlines.
Arms(h) ==
  \/ Shutdown(h) \/ Disable(h) \/ Enable(h) \/ Reap(h) \/ Tick(h) \/ Sample(h)
  \/ RestartOk(h) \/ FinishStop(h) \/ AbortStuck(h) \/ AbortSupervisor(h) \/ Exit(h)

Turns(h) == PermitGranted(h) \/ AcceptRetry(h) \/ StopAccepting(h) \/ Drained(h)

Fairness ==
  /\ \A h \in Hosts :
       WF_vars(Arms(h)) /\ WF_vars(Turns(h)) /\ \A c \in Clients : SF_vars(Accept(h, c))
  /\ \A c \in Clients : WF_vars(Handler(c))
  /\ \A h \in Hosts : WF_vars(ClientDone(h))

FairSpec == Spec /\ Fairness

\* A cancelled shutdown handle ends its supervisor, with every permit taken or the
\* accept loop stuck (supervise_ipc_server, drain_one).
ShutdownEnds == \A h \in Hosts : down[h] ~> ~Up(h)

\* A client that connected is answered or refused: it waits neither for a permit,
\* nor at a wedged loop, nor at a listener shutting down, for ever.
ConnectionEnds ==
  \A c \in Conns : conn[c].pc = "backlog" ~> conn[c].pc \in {"answered", "eof"}

\* While some host is up with IPC enabled, the endpoint is served again and again:
\* a failed start, an exit, a wedge or the other host's lock only delay it.
EndpointServed ==
  <>[](\E h \in Hosts : Up(h) /\ enabled[h] /\ ~down[h])
    => []<>(\E h \in Hosts : Listening(h) /\ socket = h)
=============================================================================
