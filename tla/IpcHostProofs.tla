---------------------------- MODULE IpcHostProofs ----------------------------
(***************************************************************************)
(* Theorems about the hosts of one IPC endpoint, for any hosts, clients,   *)
(* permits, thresholds, and bounds on faults and settings changes.         *)
(***************************************************************************)
EXTENDS IpcHost, FiniteSetTheorems, TLAPS

-----------------------------------------------------------------------------
(* The supervisors and the endpoint's lock and files. *)

Base ==
  /\ sup \in [Hosts -> {"off", "wait", "probe", "disable", "shutdown", "gone"}]
  /\ enabled \in [Hosts -> BOOLEAN] /\ unseen \in [Hosts -> BOOLEAN]
  /\ server \in [Hosts -> BOOLEAN] /\ pending \in [Hosts -> BOOLEAN]
  /\ down \in [Hosts -> BOOLEAN] /\ stop \in [Hosts -> BOOLEAN]
  /\ loop \in [Hosts -> {"none", "select", "backoff", "permit", "stuck", "drain", "done"}]
  /\ age \in [Hosts -> 0..WedgeTicks]
  /\ lock \in Hosts \cup {None} /\ socket \in Hosts \cup {None} /\ token \in Hosts \cup {None}
  /\ staged \in [Hosts -> SUBSET {"socket", "token"}]
  /\ flips \in 0..MaxFlips /\ faults \in 0..MaxFaults

\* A host has a server exactly while it can need one; with it the lock, and until
\* it stops the server, both files.  A restart is armed only for a host that has
\* none and wants one.
Supervised(h) ==
  /\ sup[h] = "off" => ~server[h] /\ ~pending[h] /\ loop[h] = "none"
  /\ sup[h] \in {"probe", "disable", "shutdown"} => server[h]
  /\ sup[h] = "gone" => ~server[h]
  /\ server[h] => loop[h] # "none"
  /\ sup[h] = "disable" => ~pending[h]
  /\ sup[h] = "wait" /\ loop[h] # "none" => server[h]
  /\ server[h] => lock = h
  /\ server[h] /\ sup[h] \in {"wait", "probe"} => socket = h /\ token = h
  /\ sup[h] \in {"disable", "shutdown"} => socket # h /\ token # h
  /\ sup[h] \in {"wait", "probe"} /\ ~unseen[h] /\ ~enabled[h] => ~server[h] /\ ~pending[h]

HostInv == Base /\ \A h \in Hosts : Supervised(h)

\* A step of h moves the lock only from nobody or from itself; a file, only without
\* the lock held, or aside when it is its own.
Frame(h) ==
  /\ lock' # lock => lock \in {None, h}
  /\ socket' # socket => lock = None \/ (socket = h /\ socket' = None)
  /\ token' # token => lock = None \/ (token = h /\ token' = None)
  /\ \A g \in Hosts \ {h} :
       /\ sup'[g] = sup[g] /\ server'[g] = server[g] /\ pending'[g] = pending[g]
       /\ unseen'[g] = unseen[g] /\ enabled'[g] = enabled[g] /\ loop'[g] = loop[g]

\* A step of h that keeps the invariant for h keeps it.
LEMMA HostStep ==
  ASSUME HostInv, NEW h \in Hosts, Base', Frame(h), Supervised(h)'
  PROVE  HostInv'
<1>1. ASSUME NEW g \in Hosts, g # h PROVE Supervised(g)'
  <2>1. Supervised(g) /\ g # None
    BY HostsAssumption DEF HostInv
  <2>2. /\ sup'[g] = sup[g] /\ server'[g] = server[g] /\ pending'[g] = pending[g]
        /\ unseen'[g] = unseen[g] /\ enabled'[g] = enabled[g] /\ loop'[g] = loop[g]
    BY <1>1 DEF Frame
  <2>3. server[g] => lock' = g
    BY <1>1, <2>1 DEF Frame, Supervised
  <2>4. server[g] => (socket' = g <=> socket = g) /\ (token' = g <=> token = g)
    BY <1>1, <2>1 DEF Frame, Supervised
  <2> QED
    BY <2>1, <2>2, <2>3, <2>4 DEF Supervised
<1> QED
  BY <1>1 DEF HostInv

\* The types of what a start, in whatever way it ends, and a stop assign.
LEMMA StartTypes ==
  ASSUME Base, NEW h \in Hosts,
         \/ StartOk(h)
         \/ StartFails(h)
         \/ /\ socket' \in {socket} \cup IF LockFree /\ Bindable THEN {None} ELSE {}
            /\ UNCHANGED <<loopVars, lock, token, staged, server, pending, faults>>
         \/ UNCHANGED <<loopVars, fileVars, server, pending, faults>>
         \/ \E pc \in {"disable", "shutdown"} : BeginStop(h, pc) /\ pending' \in [Hosts -> BOOLEAN]
                                              /\ faults' = faults
  PROVE  /\ server' \in [Hosts -> BOOLEAN] /\ pending' \in [Hosts -> BOOLEAN] /\ stop' \in [Hosts -> BOOLEAN]
         /\ loop' \in [Hosts -> {"none", "select", "backoff", "permit", "stuck", "drain", "done"}]
         /\ age' \in [Hosts -> 0..WedgeTicks]
         /\ lock' \in Hosts \cup {None} /\ socket' \in Hosts \cup {None} /\ token' \in Hosts \cup {None}
         /\ staged' \in [Hosts -> SUBSET {"socket", "token"}] /\ faults' \in 0..MaxFaults
<1>0. 0 \in 0..WedgeTicks
  BY HostBounds
<1>1. CASE StartOk(h)
  BY <1>0, <1>1 DEF Base, StartOk
<1>2. CASE StartFails(h)
  BY <1>2 DEF Base, StartFails, loopVars
<1>3. CASE /\ socket' \in {socket} \cup IF LockFree /\ Bindable THEN {None} ELSE {}
           /\ UNCHANGED <<loopVars, lock, token, staged, server, pending, faults>>
  BY <1>3 DEF Base, loopVars
<1>4. CASE UNCHANGED <<loopVars, fileVars, server, pending, faults>>
  BY <1>4 DEF Base, loopVars, fileVars
<1>5. CASE \E pc \in {"disable", "shutdown"} : BeginStop(h, pc) /\ pending' \in [Hosts -> BOOLEAN]
                                             /\ faults' = faults
  <2>1. PICK pc \in {"disable", "shutdown"} : BeginStop(h, pc) /\ pending' \in [Hosts -> BOOLEAN] /\ faults' = faults
    BY <1>5
  <2>2. UNCHANGED <<lock, server, loop, age>> /\ stop' = [stop EXCEPT ![h] = TRUE]
        /\ token' \in {token, None} /\ socket' \in {socket, None}
    BY <2>1 DEF BeginStop
  <2>3. staged' = [staged EXCEPT ![h] = Staged(h)] /\ Staged(h) \in SUBSET {"socket", "token"}
    BY <2>1 DEF BeginStop, Staged
  <2> QED
    BY <2>1, <2>2, <2>3 DEF Base
<1> QED
  BY <1>1, <1>2, <1>3, <1>4, <1>5

\* A server is started, or is not.
LEMMA SupervisorStarts ==
  ASSUME HostInv, NEW h \in Hosts,
         Launch(h) \/ Enable(h) \/ RestartOk(h) \/ RestartFails(h)
  PROVE  HostInv'
<1>0. /\ Base /\ Supervised(h) /\ h # None /\ (\A g \in Hosts : Supervised(g))
      /\ (faults < MaxFaults /\ faults' = faults + 1 => faults' \in 0..MaxFaults)
      /\ (flips < MaxFlips /\ flips' = flips + 1 => flips' \in 0..MaxFlips)
      /\ 0 \in 0..WedgeTicks
  BY HostsAssumption, HostBounds DEF HostInv, Base
<1>1. CASE Launch(h)
  <2>1. Base'
    <3>1. /\ sup' \in [Hosts -> {"off", "wait", "probe", "disable", "shutdown", "gone"}]
          /\ enabled' \in [Hosts -> BOOLEAN] /\ unseen' \in [Hosts -> BOOLEAN] /\ down' \in [Hosts -> BOOLEAN]
          /\ flips' \in 0..MaxFlips
      BY <1>0, <1>1 DEF Base, Launch, hostVars
    <3> QED
      BY <1>0, <1>1, <3>1, StartTypes DEF Base, Launch, loopVars, fileVars
  <2>2. Frame(h)
    BY <1>0, <1>1 DEF Base, Frame, Supervised, Launch, StartOk, LockFree, Bindable, StartFails, hostVars, loopVars, fileVars
  <2>3. Supervised(h)'
    BY <1>0, <1>1 DEF Base, Supervised, Launch, StartOk, LockFree, Bindable, StartFails, hostVars, loopVars, fileVars
  <2> QED
    BY <2>1, <2>2, <2>3, HostStep
<1>2. CASE Enable(h)
  <2>1. Base'
    <3>1. /\ sup' \in [Hosts -> {"off", "wait", "probe", "disable", "shutdown", "gone"}]
          /\ enabled' \in [Hosts -> BOOLEAN] /\ unseen' \in [Hosts -> BOOLEAN] /\ down' \in [Hosts -> BOOLEAN]
          /\ flips' \in 0..MaxFlips
      BY <1>0, <1>2 DEF Base, Enable, hostVars
    <3> QED
      BY <1>0, <1>2, <3>1, StartTypes DEF Base, Enable, loopVars, fileVars
  <2>2. Frame(h)
    BY <1>0, <1>2 DEF Base, Frame, Supervised, Enable, StartOk, LockFree, Bindable, StartFails, hostVars, loopVars, fileVars
  <2>3. Supervised(h)'
    BY <1>0, <1>2 DEF Base, Supervised, Enable, StartOk, LockFree, Bindable, StartFails, hostVars, loopVars, fileVars
  <2> QED
    BY <2>1, <2>2, <2>3, HostStep
<1>3. CASE RestartOk(h)
  <2>1. Base'
    <3>1. /\ sup' \in [Hosts -> {"off", "wait", "probe", "disable", "shutdown", "gone"}]
          /\ enabled' \in [Hosts -> BOOLEAN] /\ unseen' \in [Hosts -> BOOLEAN] /\ down' \in [Hosts -> BOOLEAN]
          /\ flips' \in 0..MaxFlips
      BY <1>0, <1>3 DEF Base, RestartOk, hostVars
    <3> QED
      BY <1>0, <1>3, <3>1, StartTypes DEF Base, RestartOk, loopVars, fileVars
  <2>2. Frame(h)
    BY <1>0, <1>3 DEF Base, Frame, Supervised, RestartOk, StartOk, LockFree, Bindable, hostVars, loopVars, fileVars
  <2>3. Supervised(h)'
    BY <1>0, <1>3 DEF Base, Supervised, RestartOk, StartOk, LockFree, Bindable, hostVars, loopVars, fileVars
  <2> QED
    BY <2>1, <2>2, <2>3, HostStep
<1>4. CASE RestartFails(h)
  <2>1. Base'
    <3>1. /\ sup' \in [Hosts -> {"off", "wait", "probe", "disable", "shutdown", "gone"}]
          /\ enabled' \in [Hosts -> BOOLEAN] /\ unseen' \in [Hosts -> BOOLEAN] /\ down' \in [Hosts -> BOOLEAN]
          /\ flips' \in 0..MaxFlips
      BY <1>0, <1>4 DEF Base, RestartFails, hostVars
    <3> QED
      BY <1>0, <1>4, <3>1, StartTypes DEF Base, RestartFails, loopVars, fileVars
  <2>2. Frame(h)
    BY <1>0, <1>4 DEF Base, Frame, Supervised, RestartFails, StartFails, LockFree, Bindable, hostVars, loopVars, fileVars
  <2>3. Supervised(h)'
    BY <1>0, <1>4 DEF Base, Supervised, RestartFails, StartFails, LockFree, Bindable, hostVars, loopVars, fileVars
  <2> QED
    BY <2>1, <2>2, <2>3, HostStep
<1> QED
  BY <1>1, <1>2, <1>3, <1>4

\* A server is stopped, has ended, or goes with its supervisor or process.
LEMMA SupervisorStops ==
  ASSUME HostInv, NEW h \in Hosts,
         Shutdown(h) \/ Disable(h) \/ FinishStop(h) \/ AbortStuck(h) \/ AbortSupervisor(h) \/ Exit(h) \/ Reap(h) \/ Crash(h)
  PROVE  HostInv'
<1>0. /\ Base /\ Supervised(h) /\ h # None /\ (\A g \in Hosts : Supervised(g))
      /\ (faults < MaxFaults /\ faults' = faults + 1 => faults' \in 0..MaxFaults)
      /\ (flips < MaxFlips /\ flips' = flips + 1 => flips' \in 0..MaxFlips)
      /\ 0 \in 0..WedgeTicks
  BY HostsAssumption, HostBounds DEF HostInv, Base
<1>1. CASE Shutdown(h)
  <2>1. Base'
    <3>1. /\ sup' \in [Hosts -> {"off", "wait", "probe", "disable", "shutdown", "gone"}]
          /\ enabled' \in [Hosts -> BOOLEAN] /\ unseen' \in [Hosts -> BOOLEAN] /\ down' \in [Hosts -> BOOLEAN]
          /\ flips' \in 0..MaxFlips
      BY <1>0, <1>1 DEF Base, Shutdown, BeginStop, hostVars
    <3> QED
      BY <1>0, <1>1, <3>1, StartTypes DEF Base, Shutdown, loopVars, fileVars
  <2>2. Frame(h)
    BY <1>0, <1>1 DEF Base, Frame, Supervised, Shutdown, BeginStop, Staged, hostVars, loopVars, fileVars
  <2>3. Supervised(h)'
    BY <1>0, <1>1 DEF Base, Supervised, Shutdown, BeginStop, Staged, hostVars, loopVars, fileVars
  <2> QED
    BY <2>1, <2>2, <2>3, HostStep
<1>2. CASE Disable(h)
  <2>1. Base'
    <3>1. /\ sup' \in [Hosts -> {"off", "wait", "probe", "disable", "shutdown", "gone"}]
          /\ enabled' \in [Hosts -> BOOLEAN] /\ unseen' \in [Hosts -> BOOLEAN] /\ down' \in [Hosts -> BOOLEAN]
          /\ flips' \in 0..MaxFlips
      BY <1>0, <1>2 DEF Base, Disable, BeginStop, hostVars
    <3> QED
      BY <1>0, <1>2, <3>1, StartTypes DEF Base, Disable, loopVars, fileVars
  <2>2. Frame(h)
    BY <1>0, <1>2 DEF Base, Frame, Supervised, Disable, BeginStop, Staged, hostVars, loopVars, fileVars
  <2>3. Supervised(h)'
    BY <1>0, <1>2 DEF Base, Supervised, Disable, BeginStop, Staged, hostVars, loopVars, fileVars
  <2> QED
    BY <2>1, <2>2, <2>3, HostStep
<1>3. CASE FinishStop(h)
  <2>1. Base'
    BY <1>0, <1>3 DEF Base, FinishStop, hostVars, loopVars, fileVars
  <2>2. Frame(h)
    BY <1>0, <1>3 DEF Base, Frame, Supervised, FinishStop, hostVars, loopVars, fileVars
  <2>3. Supervised(h)'
    BY <1>0, <1>3 DEF Base, Supervised, FinishStop, hostVars, loopVars, fileVars
  <2> QED
    BY <2>1, <2>2, <2>3, HostStep
<1>4. CASE AbortStuck(h)
  <2>1. Base'
    BY <1>0, <1>4 DEF Base, AbortStuck, hostVars, loopVars, fileVars
  <2>2. Frame(h)
    BY <1>0, <1>4 DEF Base, Frame, Supervised, AbortStuck, hostVars, loopVars, fileVars
  <2>3. Supervised(h)'
    BY <1>0, <1>4 DEF Base, Supervised, AbortStuck, hostVars, loopVars, fileVars
  <2> QED
    BY <2>1, <2>2, <2>3, HostStep
<1>5. CASE AbortSupervisor(h)
  <2>1. Base'
    BY <1>0, <1>5 DEF Base, AbortSupervisor, hostVars, loopVars, fileVars
  <2>2. Frame(h)
    BY <1>0, <1>5 DEF Base, Frame, Supervised, AbortSupervisor, hostVars, loopVars, fileVars
  <2>3. Supervised(h)'
    BY <1>0, <1>5 DEF Base, Supervised, AbortSupervisor, hostVars, loopVars, fileVars
  <2> QED
    BY <2>1, <2>2, <2>3, HostStep
<1>6. CASE Exit(h)
  <2>1. Base'
    BY <1>0, <1>6 DEF Base, Exit, hostVars, loopVars, fileVars
  <2>2. Frame(h)
    BY <1>0, <1>6 DEF Base, Frame, Supervised, Exit, hostVars, loopVars, fileVars
  <2>3. Supervised(h)'
    BY <1>0, <1>6 DEF Base, Supervised, Exit, hostVars, loopVars, fileVars
  <2> QED
    BY <2>1, <2>2, <2>3, HostStep
<1>7. CASE Reap(h)
  <2>1. Base'
    BY <1>0, <1>7 DEF Base, Reap, hostVars, loopVars, fileVars
  <2>2. Frame(h)
    BY <1>0, <1>7 DEF Base, Frame, Supervised, Reap, hostVars, loopVars, fileVars
  <2>3. Supervised(h)'
    BY <1>0, <1>7 DEF Base, Supervised, Reap, hostVars, loopVars, fileVars
  <2> QED
    BY <2>1, <2>2, <2>3, HostStep
<1>8. CASE Crash(h)
  <2>1. Base'
    BY <1>0, <1>8 DEF Base, Crash, hostVars, loopVars, fileVars
  <2>2. Frame(h)
    BY <1>0, <1>8 DEF Base, Frame, Supervised, Crash, hostVars, loopVars, fileVars
  <2>3. Supervised(h)'
    BY <1>0, <1>8 DEF Base, Supervised, Crash, hostVars, loopVars, fileVars
  <2> QED
    BY <2>1, <2>2, <2>3, HostStep
<1> QED
  BY <1>1, <1>2, <1>3, <1>4, <1>5, <1>6, <1>7, <1>8

\* Nothing is started or stopped by the supervisor itself.
LEMMA SupervisorWatches ==
  ASSUME HostInv, NEW h \in Hosts,
         Tick(h) \/ Sample(h) \/ Flip(h) \/ CancelAll(h)
  PROVE  HostInv'
<1>0. /\ Base /\ Supervised(h) /\ h # None /\ (\A g \in Hosts : Supervised(g))
      /\ (faults < MaxFaults /\ faults' = faults + 1 => faults' \in 0..MaxFaults)
      /\ (flips < MaxFlips /\ flips' = flips + 1 => flips' \in 0..MaxFlips)
      /\ 0 \in 0..WedgeTicks
  BY HostsAssumption, HostBounds DEF HostInv, Base
<1>1. CASE Tick(h)
  <2>1. Base'
    <3>1. NextAge(h) \in 0..WedgeTicks
      BY <1>0, HostBounds DEF Base, NextAge, Older
    <3> QED
      BY <1>0, <1>1, <3>1 DEF Base, Tick, fileVars
  <2>2. Frame(h)
    BY <1>0, <1>1 DEF Base, Frame, Supervised, Tick, NextAge, Older, ProbeDue, hostVars, loopVars, fileVars
  <2>3. Supervised(h)'
    BY <1>0, <1>1 DEF Base, Supervised, Tick, NextAge, Older, ProbeDue, hostVars, loopVars, fileVars
  <2> QED
    BY <2>1, <2>2, <2>3, HostStep
<1>2. CASE Sample(h)
  <2>1. Base'
    BY <1>0, <1>2 DEF Base, Sample, hostVars, loopVars, fileVars
  <2>2. Frame(h)
    BY <1>0, <1>2 DEF Base, Frame, Supervised, Sample, hostVars, loopVars, fileVars
  <2>3. Supervised(h)'
    BY <1>0, <1>2 DEF Base, Supervised, Sample, hostVars, loopVars, fileVars
  <2> QED
    BY <2>1, <2>2, <2>3, HostStep
<1>3. CASE Flip(h)
  <2>1. Base'
    BY <1>0, <1>3 DEF Base, Flip, Up, hostVars, loopVars, fileVars
  <2>2. Frame(h)
    BY <1>0, <1>3 DEF Base, Frame, Supervised, Flip, Up, hostVars, loopVars, fileVars
  <2>3. Supervised(h)'
    BY <1>0, <1>3 DEF Base, Supervised, Flip, Up, hostVars, loopVars, fileVars
  <2> QED
    BY <2>1, <2>2, <2>3, HostStep
<1>4. CASE CancelAll(h)
  <2>1. Base'
    BY <1>0, <1>4 DEF Base, CancelAll, Up, hostVars, loopVars, fileVars
  <2>2. Frame(h)
    BY <1>0, <1>4 DEF Base, Frame, Supervised, CancelAll, Up, hostVars, loopVars, fileVars
  <2>3. Supervised(h)'
    BY <1>0, <1>4 DEF Base, Supervised, CancelAll, Up, hostVars, loopVars, fileVars
  <2> QED
    BY <2>1, <2>2, <2>3, HostStep
<1> QED
  BY <1>1, <1>2, <1>3, <1>4

\* The accept loop turns, fails, gets stuck or ends.
LEMMA LoopSteps ==
  ASSUME HostInv, NEW h \in Hosts,
         (\E c \in Clients : Accept(h, c)) \/ PermitGranted(h) \/ AcceptTransient(h) \/ AcceptRetry(h) \/ StopAccepting(h) \/ AcceptFatal(h) \/ Drained(h) \/ Wedge(h)
  PROVE  HostInv'
<1>0. /\ Base /\ Supervised(h) /\ h # None /\ (\A g \in Hosts : Supervised(g))
      /\ (faults < MaxFaults /\ faults' = faults + 1 => faults' \in 0..MaxFaults)
      /\ (flips < MaxFlips /\ flips' = flips + 1 => flips' \in 0..MaxFlips)
      /\ 0 \in 0..WedgeTicks
  BY HostsAssumption, HostBounds DEF HostInv, Base
<1>1. CASE (\E c \in Clients : Accept(h, c))
  <2>1. Base'
    BY <1>0, <1>1 DEF Base, Accept, hostVars, loopVars, fileVars
  <2>2. Frame(h)
    BY <1>0, <1>1 DEF Base, Frame, Supervised, Accept, hostVars, loopVars, fileVars
  <2>3. Supervised(h)'
    BY <1>0, <1>1 DEF Base, Supervised, Accept, hostVars, loopVars, fileVars
  <2> QED
    BY <2>1, <2>2, <2>3, HostStep
<1>2. CASE PermitGranted(h)
  <2>1. Base'
    BY <1>0, <1>2 DEF Base, PermitGranted, hostVars, loopVars, fileVars
  <2>2. Frame(h)
    BY <1>0, <1>2 DEF Base, Frame, Supervised, PermitGranted, hostVars, loopVars, fileVars
  <2>3. Supervised(h)'
    BY <1>0, <1>2 DEF Base, Supervised, PermitGranted, hostVars, loopVars, fileVars
  <2> QED
    BY <2>1, <2>2, <2>3, HostStep
<1>3. CASE AcceptTransient(h)
  <2>1. Base'
    BY <1>0, <1>3 DEF Base, AcceptTransient, hostVars, loopVars, fileVars
  <2>2. Frame(h)
    BY <1>0, <1>3 DEF Base, Frame, Supervised, AcceptTransient, hostVars, loopVars, fileVars
  <2>3. Supervised(h)'
    BY <1>0, <1>3 DEF Base, Supervised, AcceptTransient, hostVars, loopVars, fileVars
  <2> QED
    BY <2>1, <2>2, <2>3, HostStep
<1>4. CASE AcceptRetry(h)
  <2>1. Base'
    BY <1>0, <1>4 DEF Base, AcceptRetry, hostVars, loopVars, fileVars
  <2>2. Frame(h)
    BY <1>0, <1>4 DEF Base, Frame, Supervised, AcceptRetry, hostVars, loopVars, fileVars
  <2>3. Supervised(h)'
    BY <1>0, <1>4 DEF Base, Supervised, AcceptRetry, hostVars, loopVars, fileVars
  <2> QED
    BY <2>1, <2>2, <2>3, HostStep
<1>5. CASE StopAccepting(h)
  <2>1. Base'
    BY <1>0, <1>5 DEF Base, StopAccepting, DropListener, hostVars, loopVars, fileVars
  <2>2. Frame(h)
    BY <1>0, <1>5 DEF Base, Frame, Supervised, StopAccepting, DropListener, hostVars, loopVars, fileVars
  <2>3. Supervised(h)'
    BY <1>0, <1>5 DEF Base, Supervised, StopAccepting, DropListener, hostVars, loopVars, fileVars
  <2> QED
    BY <2>1, <2>2, <2>3, HostStep
<1>6. CASE AcceptFatal(h)
  <2>1. Base'
    BY <1>0, <1>6 DEF Base, AcceptFatal, DropListener, hostVars, loopVars, fileVars
  <2>2. Frame(h)
    BY <1>0, <1>6 DEF Base, Frame, Supervised, AcceptFatal, DropListener, hostVars, loopVars, fileVars
  <2>3. Supervised(h)'
    BY <1>0, <1>6 DEF Base, Supervised, AcceptFatal, DropListener, hostVars, loopVars, fileVars
  <2> QED
    BY <2>1, <2>2, <2>3, HostStep
<1>7. CASE Drained(h)
  <2>1. Base'
    BY <1>0, <1>7 DEF Base, Drained, hostVars, loopVars, fileVars
  <2>2. Frame(h)
    BY <1>0, <1>7 DEF Base, Frame, Supervised, Drained, hostVars, loopVars, fileVars
  <2>3. Supervised(h)'
    BY <1>0, <1>7 DEF Base, Supervised, Drained, hostVars, loopVars, fileVars
  <2> QED
    BY <2>1, <2>2, <2>3, HostStep
<1>8. CASE Wedge(h)
  <2>1. Base'
    BY <1>0, <1>8 DEF Base, Wedge, hostVars, loopVars, fileVars
  <2>2. Frame(h)
    BY <1>0, <1>8 DEF Base, Frame, Supervised, Wedge, hostVars, loopVars, fileVars
  <2>3. Supervised(h)'
    BY <1>0, <1>8 DEF Base, Supervised, Wedge, hostVars, loopVars, fileVars
  <2> QED
    BY <2>1, <2>2, <2>3, HostStep
<1> QED
  BY <1>1, <1>2, <1>3, <1>4, <1>5, <1>6, <1>7, <1>8

\* Connections and their handlers touch none of it.
LEMMA ConnectionSteps ==
  ASSUME HostInv, \/ \E c \in Clients : Handler(c) \/ HandlerPanics(c) \/ Client(c)
                  \/ UNCHANGED vars
  PROVE  HostInv'
<1>1. UNCHANGED <<hostVars, loop, stop, age, fileVars, flips>>
  BY DEF Handler, ReadRequest, RunRequest, PeerGone, WriteBack, HandlerPanics, HandlerEnds, Client, Connect,
         HangUp, ClientDone, vars, loopVars
<1>2. faults' \in 0..MaxFaults
  BY HostBounds DEF HostInv, Base, Handler, ReadRequest, RunRequest, PeerGone, WriteBack, HandlerPanics,
     HandlerEnds, Client, Connect, HangUp, ClientDone, vars
<1>3. Base'
  BY <1>1, <1>2 DEF HostInv, Base, hostVars, fileVars
<1> QED
  BY <1>1, <1>3 DEF HostInv, Supervised, hostVars, fileVars

\* Nothing is up yet.
LEMMA HostInit == Init => HostInv
<1> SUFFICES ASSUME Init PROVE HostInv
  OBVIOUS
<1>1. 0 \in 0..WedgeTicks /\ 0 \in 0..MaxFlips /\ 0 \in 0..MaxFaults
  BY HostBounds
<1>2. Base
  BY <1>1 DEF Init, Base
<1> QED
  BY <1>2 DEF Init, HostInv, Supervised

\* Every step keeps it.
LEMMA HostNext == HostInv /\ [Next]_vars => HostInv'
<1> SUFFICES ASSUME HostInv, [Next]_vars PROVE HostInv'
  OBVIOUS
<1>1. CASE \E h \in Hosts : Launch(h) \/ Supervisor(h) \/ AcceptLoop(h) \/ Exit(h)
                            \/ Flip(h) \/ CancelAll(h) \/ Crash(h)
  BY <1>1, SupervisorStarts, SupervisorStops, SupervisorWatches, LoopSteps DEF Supervisor, AcceptLoop
<1> QED
  BY <1>1, ConnectionSteps DEF Next

\* It holds in every state that can be reached.
LEMMA HostsHold == Spec => []HostInv
<1> QED
  BY HostInit, HostNext, PTL DEF Spec

-----------------------------------------------------------------------------
(* The connections, the permits, and what a probe can find. *)

Active == {"backlog", "held"} \cup Handling

\* A connection not yet ended is at a host whose loop has not: in the backlog of a
\* listener, in hand only where the loop waits for a permit or got stuck.  A host's
\* own probe goes to itself.
Attached(c) ==
  /\ conn[c].pc \in Active => conn[c].host \in Hosts /\ loop[conn[c].host] \notin {"none", "done"}
  /\ conn[c].pc = "held" => loop[conn[c].host] \in {"permit", "stuck"}
  /\ conn[c].pc = "backlog" => loop[conn[c].host] # "drain"
  /\ c \in Hosts /\ conn[c].pc \in {"backlog", "held"} => conn[c].host = c

\* Every permit is free or a handler's; a loop that waits for one has one connection
\* in hand; and the age a probe will read is that of its own connection, or less.
Metered(h) ==
  /\ free[h] + Cardinality(At(h, Handling)) = Permits
  /\ loop[h] = "permit" => \E c \in Clients : At(h, {"held"}) = {c}
  /\ sup[h] = "probe" /\ loop[h] \in {"select", "backoff"} => age[h] = 0 \/ conn[h].pc = "backlog"
  /\ sup[h] = "probe" /\ loop[h] = "permit" => age[h] = 0

ConnBase ==
  /\ conn \in [Clients -> [pc : {"idle", "backlog", "held", "answered", "eof"} \cup Handling,
                           host : Hosts \cup {None}, peer : BOOLEAN]]
  /\ free \in [Hosts -> 0..Permits]

ConnInv == ConnBase /\ (\A c \in Clients : Attached(c)) /\ (\A h \in Hosts : Metered(h))

\* Connections are finitely many, and so are those at a host.
LEMMA FewConnections ==
  ASSUME NEW h \in Hosts, NEW S
  PROVE  /\ IsFiniteSet(At(h, S)) /\ Cardinality(At(h, S)) \in Nat
         /\ IsFiniteSet(At(h, S))' /\ Cardinality(At(h, S))' \in Nat
<1>1. IsFiniteSet(Clients) /\ At(h, S) \subseteq Clients /\ At(h, S)' \subseteq Clients
  BY ConnsAssumption DEF Clients, At
<1> QED
  BY <1>1, FS_Subset, FS_CardinalityType

\* Nothing is accepted, answered or closed.
LEMMA ConnStill ==
  ASSUME HostInv, ConnInv, UNCHANGED <<conn, free>>,
         \A g \in Hosts :
           /\ \/ loop'[g] = loop[g]
              \/ loop[g] = "done" /\ loop'[g] = "none"
              \/ loop[g] \in {"select", "backoff"} /\ loop'[g] \in {"select", "backoff"}
              \/ loop[g] \in {"select", "permit"} /\ loop'[g] = "stuck"
           /\ sup'[g] = "probe" => sup[g] = "probe" /\ age'[g] = age[g]
  PROVE  ConnInv'
<1>1. ConnBase'
  BY DEF ConnInv, ConnBase
<1>2. ASSUME NEW c \in Clients PROVE Attached(c)'
  BY DEF ConnInv, Attached, Active
<1>3. ASSUME NEW g \in Hosts PROVE Metered(g)'
  <2>1. \A S : At(g, S)' = At(g, S)
    BY DEF At
  <2>2. Metered(g)
    BY DEF ConnInv
  <2>3. free'[g] + Cardinality(At(g, Handling)') = Permits
    BY <2>1, <2>2 DEF Metered
  <2>4. loop'[g] = "permit" => \E c \in Clients : At(g, {"held"})' = {c}
    BY <2>1, <2>2 DEF Metered
  <2> QED
    BY <2>2, <2>3, <2>4 DEF Metered
<1> QED
  BY <1>1, <1>2, <1>3 DEF ConnInv

\* A server starts with every permit free: its host had no loop, so no connection.
LEMMA ConnStarts ==
  ASSUME HostInv, ConnInv, NEW h \in Hosts, StartOk(h), sup[h] \in {"off", "wait"},
         sup' \in {sup, [sup EXCEPT ![h] = "wait"]}
  PROVE  ConnInv'
<1>1. /\ loop[h] = "none" /\ h # None
  <2>1. Supervised(h) /\ h # None /\ lock = None /\ loop \in [Hosts -> {"none", "select", "backoff", "permit", "stuck", "drain", "done"}]
    BY HostsAssumption DEF HostInv, StartOk, LockFree, Base
  <2> QED
    BY <2>1 DEF Supervised
<1>2. /\ conn' = conn /\ free' = [free EXCEPT ![h] = Permits] /\ loop' = [loop EXCEPT ![h] = "select"]
      /\ age' = [age EXCEPT ![h] = 0] /\ Permits \in 0..Permits
  BY HostBounds DEF StartOk
<1>3. ConnBase'
  BY <1>2 DEF ConnInv, ConnBase
<1>4. ASSUME NEW c \in Clients PROVE Attached(c)'
  BY <1>1, <1>2 DEF ConnInv, Attached, Active, HostInv, Base
<1>5. ASSUME NEW g \in Hosts PROVE Metered(g)'
  <2>1. \A S : At(g, S)' = At(g, S)
    BY <1>2 DEF At
  <2>2. CASE g # h
    <3>1. Metered(g) /\ loop'[g] = loop[g] /\ free'[g] = free[g] /\ age'[g] = age[g] /\ sup'[g] = sup[g]
      BY <1>2, <2>2 DEF ConnInv, HostInv, Base, ConnBase
    <3> QED
      BY <1>2, <2>1, <3>1 DEF Metered
  <2>3. CASE g = h
    <3>1. At(h, Handling)' = {}
      BY <1>1, <1>2 DEF ConnInv, Attached, Active, At
    <3>2. free'[h] = Permits /\ loop'[h] = "select" /\ sup'[h] # "probe"
      BY <1>2 DEF ConnInv, HostInv, Base, ConnBase
    <3> QED
      BY <2>3, <3>1, <3>2, FS_EmptySet, HostBounds DEF Metered
  <2> QED
    BY <2>2, <2>3
<1> QED
  BY <1>3, <1>4, <1>5 DEF ConnInv

\* A loop ends: all that was still at it is closed, and its permits are back.
LEMMA ConnCloses ==
  ASSUME HostInv, ConnInv, NEW h \in Hosts, NEW S, S \subseteq Active, Handling \subseteq S,
         \A c \in Clients : conn[c].host = h /\ conn[c].pc \in Active => conn[c].pc \in S,
         conn' = Closed(At(h, S)), free' = [free EXCEPT ![h] = Permits],
         NEW l \in {"none", "done"}, loop' = [loop EXCEPT ![h] = l],
         \A g \in Hosts : g # h => sup'[g] = sup[g] /\ age'[g] = age[g]
  PROVE  ConnInv'
<1>1. \A c \in Clients : conn'[c] = IF conn[c].host = h /\ conn[c].pc \in Active
                                      THEN [conn[c] EXCEPT !.pc = "eof"] ELSE conn[c]
  BY DEF Closed, At
<1>2. ConnBase'
  <2>1. conn' = [c \in Clients |-> IF conn[c].host = h /\ conn[c].pc \in Active
                                      THEN [conn[c] EXCEPT !.pc = "eof"] ELSE conn[c]]
    BY DEF Closed, At
  <2>2. Permits \in 0..Permits
    BY HostBounds
  <2> QED
    BY <2>1, <2>2 DEF ConnInv, ConnBase
<1>3. ASSUME NEW c \in Clients
      PROVE  /\ conn'[c].host = conn[c].host /\ (conn[c].host # h => conn'[c] = conn[c])
             /\ conn'[c].pc \in Active => conn'[c] = conn[c] /\ conn[c].host # h
  <2>1. conn[c] \in [pc : {"idle", "backlog", "held", "answered", "eof"} \cup Handling,
                     host : Hosts \cup {None}, peer : BOOLEAN]
    BY DEF ConnInv, ConnBase
  <2>2. CASE conn[c].host = h /\ conn[c].pc \in Active
    <3>1. conn'[c] = [conn[c] EXCEPT !.pc = "eof"]
      BY <1>1, <2>2
    <3>2. conn'[c].pc = "eof" /\ conn'[c].host = h
      BY <2>1, <2>2, <3>1
    <3> QED
      BY <2>2, <3>2 DEF Active, Handling
  <2>3. CASE ~(conn[c].host = h /\ conn[c].pc \in Active)
    BY <1>1, <2>3
  <2> QED
    BY <2>2, <2>3
<1>4. ASSUME NEW c \in Clients PROVE Attached(c)'
  BY <1>3 DEF ConnInv, Attached, Active, HostInv, Base
<1>5. ASSUME NEW g \in Hosts PROVE Metered(g)'
  <2>1. CASE g # h
    <3>1. At(g, Handling)' = At(g, Handling) /\ At(g, {"held"})' = At(g, {"held"})
      BY <1>3, <2>1 DEF At
    <3>2. Metered(g) /\ loop'[g] = loop[g] /\ free'[g] = free[g] /\ age'[g] = age[g] /\ sup'[g] = sup[g]
      BY <2>1 DEF ConnInv, HostInv, Base, ConnBase
    <3>3. g \in Clients /\ (conn[g].pc = "backlog" => conn[g].host = g)
      BY DEF Clients, ConnInv, Attached
    <3>4. conn[g].pc = "backlog" => conn'[g].pc = "backlog"
      BY <1>1, <2>1, <3>3
    <3> QED
      BY <3>1, <3>2, <3>4 DEF Metered
  <2>2. CASE g = h
    <3>1. At(h, Handling)' = {}
      BY <1>3 DEF Active, At
    <3>2. free'[h] = Permits /\ loop'[h] = l
      BY DEF ConnInv, HostInv, Base, ConnBase
    <3> QED
      BY <2>2, <3>1, <3>2, FS_EmptySet, HostBounds DEF Metered
  <2> QED
    BY <2>1, <2>2
<1> QED
  BY <1>2, <1>4, <1>5 DEF ConnInv

\* The listener is dropped, with the backlog and the connection in hand.
LEMMA ConnRefused ==
  ASSUME HostInv, ConnInv, NEW h \in Hosts, DropListener(h)
  PROVE  ConnInv'
<1>1. /\ \A c \in Clients : conn'[c] = IF conn[c].host = h /\ conn[c].pc \in {"backlog", "held"}
                                         THEN [conn[c] EXCEPT !.pc = "eof"] ELSE conn[c]
      /\ free' = free /\ loop' = [loop EXCEPT ![h] = "drain"] /\ UNCHANGED <<sup, age>>
  BY DEF DropListener, Closed, At, hostVars
<1>2. ConnBase'
  BY DEF ConnInv, ConnBase, DropListener, Closed
<1>3. ASSUME NEW c \in Clients
      PROVE  /\ conn'[c].host = conn[c].host /\ (conn[c].host # h => conn'[c] = conn[c])
             /\ conn'[c].pc \in Active => conn'[c] = conn[c]
             /\ conn'[c].pc \in {"backlog", "held"} => conn[c].host # h
             /\ conn[c].pc \in Handling => conn'[c] = conn[c]
  <2>1. conn[c] \in [pc : {"idle", "backlog", "held", "answered", "eof"} \cup Handling,
                     host : Hosts \cup {None}, peer : BOOLEAN]
    BY DEF ConnInv, ConnBase
  <2>2. CASE conn[c].host = h /\ conn[c].pc \in {"backlog", "held"}
    <3>1. conn'[c] = [conn[c] EXCEPT !.pc = "eof"]
      BY <1>1, <2>2
    <3>2. conn'[c].pc = "eof" /\ conn'[c].host = h
      BY <2>1, <2>2, <3>1
    <3> QED
      BY <2>2, <3>2 DEF Active, Handling
  <2>3. CASE ~(conn[c].host = h /\ conn[c].pc \in {"backlog", "held"})
    BY <1>1, <2>3
  <2> QED
    BY <2>2, <2>3
<1>4. ASSUME NEW c \in Clients PROVE Attached(c)'
  BY <1>1, <1>3 DEF ConnInv, Attached, Active, HostInv, Base
<1>5. ASSUME NEW g \in Hosts PROVE Metered(g)'
  <2>1. At(g, Handling)' = At(g, Handling)
    BY <1>3 DEF At, Active
  <2>2. CASE g # h
    <3>1. At(g, {"held"})' = At(g, {"held"})
      BY <1>3, <2>2 DEF At
    <3>2. Metered(g) /\ loop'[g] = loop[g] /\ free'[g] = free[g] /\ age'[g] = age[g] /\ sup'[g] = sup[g]
      BY <1>1, <2>2 DEF ConnInv, HostInv, Base
    <3>3. g \in Clients /\ (conn[g].pc = "backlog" => conn[g].host = g)
      BY DEF Clients, ConnInv, Attached
    <3>4. conn[g].pc = "backlog" => conn'[g].pc = "backlog"
      BY <1>1, <2>2, <3>3
    <3> QED
      BY <2>1, <3>1, <3>2, <3>4 DEF Metered
  <2>3. CASE g = h
    <3>1. loop'[h] = "drain" /\ Metered(h)
      BY <1>1 DEF ConnInv, HostInv, Base
    <3> QED
      BY <1>1, <2>1, <2>3, <3>1 DEF Metered
  <2> QED
    BY <2>2, <2>3
<1> QED
  BY <1>2, <1>4, <1>5 DEF ConnInv

Conn == [pc : {"idle", "backlog", "held", "answered", "eof"} \cup Handling,
         host : Hosts \cup {None}, peer : BOOLEAN]

\* Where the connections are once one of them moves.
LEMMA AtMoves ==
  ASSUME ConnBase, NEW c \in Clients, NEW d \in Conn, conn' = [conn EXCEPT ![c] = d], NEW g, NEW S
  PROVE  At(g, S)' = (At(g, S) \ {c}) \cup (IF d.host = g /\ d.pc \in S THEN {c} ELSE {})
<1>1. conn'[c] = d /\ \A e \in Clients : e # c => conn'[e] = conn[e]
  BY DEF ConnBase
<1> QED
  BY <1>1 DEF At

\* A connection arrives, is told apart by its peer only, or moves while it is handled.
LEMMA ConnMoves ==
  ASSUME HostInv, ConnInv, NEW c \in Clients, NEW d \in Conn, conn' = [conn EXCEPT ![c] = d],
         UNCHANGED <<sup, loop, age, free>>,
         conn[c].pc \in Handling \cup {"held", "backlog"} => d.host = conn[c].host,
         d.pc \in Handling <=> conn[c].pc \in Handling,
         d.pc = "held" <=> conn[c].pc = "held",
         conn[c].pc = "backlog" => d.pc = "backlog",
         d.pc = "backlog" /\ conn[c].pc # "backlog" =>
           d.host \in Hosts /\ Listening(d.host) /\ (c \in Hosts => d.host = c)
  PROVE  ConnInv'
<1>1. conn'[c] = d /\ (\A e \in Clients : e # c => conn'[e] = conn[e]) /\ ConnBase
  BY DEF ConnInv, ConnBase
<1>2. ConnBase'
  BY DEF ConnInv, ConnBase, Conn
<1>3. ASSUME NEW e \in Clients PROVE Attached(e)'
  <2>1. Attached(e)
    BY DEF ConnInv
  <2>2. CASE e # c
    BY <1>1, <2>1, <2>2 DEF Attached
  <2>3. CASE e = c
    BY <1>1, <2>1, <2>3 DEF Attached, Active, Handling, Listening
  <2> QED
    BY <2>2, <2>3
<1>4. ASSUME NEW g \in Hosts PROVE Metered(g)'
  <2>1. At(g, Handling)' = At(g, Handling)
    BY <1>1, AtMoves DEF At
  <2>2. At(g, {"held"})' = At(g, {"held"})
    BY <1>1, AtMoves DEF At
  <2>3. g \in Clients /\ Metered(g)
    BY DEF Clients, ConnInv
  <2>4. conn[g].pc = "backlog" => conn'[g].pc = "backlog"
    BY <1>1, <2>3
  <2> QED
    BY <2>1, <2>2, <2>3, <2>4 DEF Metered
<1> QED
  BY <1>2, <1>3, <1>4 DEF ConnInv

\* A handler is over and its permit is back.
LEMMA ConnEnds ==
  ASSUME HostInv, ConnInv, NEW c \in Clients, conn[c].pc \in Handling, NEW pc \in {"answered", "eof"},
         HandlerEnds(c, pc)
  PROVE  ConnInv'
<1>1. conn[c] \in Conn /\ Attached(c) /\ ConnBase
  BY DEF ConnInv, ConnBase, Conn
<1>2. PICK h \in Hosts : h = conn[c].host
  BY <1>1 DEF Attached, Active
<1>a. PICK d \in Conn : d = [conn[c] EXCEPT !.pc = pc]
  BY <1>1 DEF Conn
<1>3. d.pc = pc /\ d.host = h /\ pc \notin Active
  BY <1>1, <1>2, <1>a DEF Conn, Active, Handling
<1>4. conn' = [conn EXCEPT ![c] = d] /\ free' = [free EXCEPT ![h] = @ + 1] /\ UNCHANGED <<sup, loop, age>>
  BY <1>2, <1>a DEF HandlerEnds, hostVars
<1>5. /\ conn'[c] = d /\ (\A e \in Clients : e # c => conn'[e] = conn[e])
      /\ free'[h] = free[h] + 1 /\ (\A g \in Hosts : g # h => free'[g] = free[g])
  BY <1>1, <1>2, <1>4 DEF ConnBase
<1>6. At(h, Handling)' = At(h, Handling) \ {c} /\ c \in At(h, Handling)
  <2>1. At(h, Handling)' = (At(h, Handling) \ {c})
                             \cup (IF d.host = h /\ d.pc \in Handling THEN {c} ELSE {})
    BY <1>1, <1>3, <1>4, AtMoves
  <2>2. d.pc \notin Handling
    BY <1>3 DEF Active
  <2> QED
    BY <1>2, <2>1, <2>2 DEF At
<1>7. ASSUME NEW g \in Hosts
      PROVE  (g # h => At(g, Handling)' = At(g, Handling)) /\ At(g, {"held"})' = At(g, {"held"})
  <2>1. conn[c].pc \in Handling /\ conn[c].host = h /\ d.pc \notin Handling /\ d.pc # "held"
    BY <1>2, <1>3 DEF Active
  <2>2. ASSUME NEW e \in Clients
        PROVE  /\ conn'[e].pc = "held" <=> conn[e].pc = "held"
               /\ conn'[e].pc = "held" => conn'[e].host = conn[e].host
               /\ (g # h /\ (conn'[e].host = g \/ conn[e].host = g) => conn'[e] = conn[e])
    BY <1>3, <1>5, <2>1 DEF Handling
  <2> QED
    BY <2>2 DEF At
<1>8. Cardinality(At(h, Handling)') = Cardinality(At(h, Handling)) - 1
  BY <1>2, <1>6, FewConnections, FS_RemoveElement
<1>9. ASSUME NEW g \in Hosts PROVE Metered(g)'
  <2>1. g \in Clients /\ Metered(g) /\ (conn[g].pc = "backlog" => conn'[g].pc = "backlog")
    BY <1>5 DEF Clients, ConnInv, Handling
  <2>2. free'[g] + Cardinality(At(g, Handling)') = Permits
    <3>1. free[g] \in Int /\ Cardinality(At(g, Handling)) \in Nat
      BY <1>1, FewConnections, HostBounds DEF ConnBase
    <3>2. CASE g = h
      <4>1. free[h] + Cardinality(At(h, Handling)) = Permits /\ free[h] \in Int
            /\ Cardinality(At(h, Handling)) \in Nat
        BY <2>1, <3>1, <3>2 DEF Metered
      <4>2. free'[h] + Cardinality(At(h, Handling)') = Permits
        BY <1>5, <1>8, <4>1
      <4> QED
        BY <3>2, <4>2
    <3>3. CASE g # h
      BY <1>5, <1>7, <2>1, <3>3 DEF Metered
    <3> QED
      BY <3>2, <3>3
  <2> QED
    BY <1>4, <1>7, <2>1, <2>2 DEF Metered
<1>10. ConnBase'
  <2>1. free[h] \in Int /\ Cardinality(At(h, Handling)') \in Nat /\ free'[h] + Cardinality(At(h, Handling)') = Permits
    <3>1. Metered(h)' /\ free[h] \in Int /\ Cardinality(At(h, Handling)') \in Nat
      BY <1>1, <1>2, <1>9, FewConnections, HostBounds DEF ConnBase
    <3> QED
      BY <3>1 DEF Metered
  <2>2. free[h] \in 0..Permits /\ free'[h] \in 0..Permits
    BY <1>1, <1>2, <1>5, <2>1, HostBounds DEF ConnBase
  <2>3. free' \in [Hosts -> 0..Permits]
    BY <1>1, <1>2, <1>4, <1>5, <2>2 DEF ConnBase
  <2> QED
    BY <1>1, <1>3, <1>4, <2>3 DEF ConnBase, Conn
<1>11. ASSUME NEW e \in Clients PROVE Attached(e)'
  <2>1. Attached(e)
    BY DEF ConnInv
  <2> QED
    BY <1>3, <1>4, <1>5, <2>1 DEF Attached, Active
<1> QED
  BY <1>9, <1>10, <1>11 DEF ConnInv

\* A connection is accepted, or one in hand gets its permit.
LEMMA ConnAccepted ==
  ASSUME HostInv, ConnInv, NEW h \in Hosts, NEW c \in Clients,
         conn[c].host = h, conn[c].pc \in {"backlog", "held"},
         NEW d \in Conn, d.pc = "read", d.host = h, conn' = [conn EXCEPT ![c] = d], free[h] > 0, free' = [free EXCEPT ![h] = @ - 1],
         loop[h] \in {"select", "permit"}, loop' = [loop EXCEPT ![h] = "select"],
         At(h, {"held"}) \subseteq {c}, UNCHANGED sup,
         age' = [age EXCEPT ![h] = 0] \/ (age' = age /\ loop[h] = "permit")
  PROVE  ConnInv'
<1>1. conn[c] \in Conn /\ ConnBase /\ loop \in [Hosts -> {"none", "select", "backoff", "permit", "stuck", "drain", "done"}]
      /\ age \in [Hosts -> 0..WedgeTicks]
  BY DEF ConnInv, ConnBase, Conn, HostInv, Base
<1>2. d.pc = "read" /\ d.host = h
  OBVIOUS
<1>3. conn' = [conn EXCEPT ![c] = d]
  OBVIOUS
<1>4. /\ conn'[c] = d /\ (\A e \in Clients : e # c => conn'[e] = conn[e])
      /\ free'[h] = free[h] - 1 /\ loop'[h] = "select"
      /\ \A g \in Hosts : g # h => free'[g] = free[g] /\ loop'[g] = loop[g] /\ age'[g] = age[g]
  BY <1>1, <1>3 DEF ConnBase
<1>b. ASSUME NEW S
      PROVE At(h, S)' = (At(h, S) \ {c}) \cup (IF d.host = h /\ d.pc \in S THEN {c} ELSE {})
  BY <1>4 DEF At
<1>5. At(h, Handling)' = At(h, Handling) \cup {c} /\ c \notin At(h, Handling)
  <2>1. At(h, Handling)' = (At(h, Handling) \ {c})
                             \cup (IF d.host = h /\ d.pc \in Handling THEN {c} ELSE {})
    BY <1>b
  <2>2. d.pc \in Handling /\ conn[c].pc \notin Handling
    BY <1>2 DEF Handling
  <2> QED
    BY <1>2, <2>1, <2>2 DEF At
<1>6. \A g \in Hosts : g # h => At(g, Handling)' = At(g, Handling) /\ At(g, {"held"})' = At(g, {"held"})
  BY <1>1, <1>2, <1>3, AtMoves DEF At
<1>7. Cardinality(At(h, Handling)') = Cardinality(At(h, Handling)) + 1
  <2>1. IsFiniteSet(At(h, Handling))
    BY FewConnections
  <2> QED
    BY <1>5, <2>1, FS_AddElement
<1>8. sup[h] = "probe" => age'[h] = 0
  <2>1. Metered(h)
    BY DEF ConnInv
  <2> QED
    BY <1>1, <2>1 DEF Metered
<1>9. ASSUME NEW g \in Hosts PROVE Metered(g)'
  <2>1. g \in Clients /\ Metered(g) /\ free[g] \in Int /\ Cardinality(At(g, Handling)) \in Nat
        /\ free[h] \in Int /\ Cardinality(At(h, Handling)) \in Nat
    BY <1>1, FewConnections, HostBounds DEF Clients, ConnInv, ConnBase
  <2>2. CASE g = h
    <3>1. free'[h] + Cardinality(At(h, Handling)') = Permits
      BY <1>4, <1>7, <2>1, <2>2, HostBounds DEF Metered
    <3> QED
      BY <1>4, <1>8, <2>2, <3>1 DEF Metered
  <2>3. CASE g # h
    <3>1. conn[g].pc = "backlog" => conn'[g].pc = "backlog"
      <4>1. Attached(g)
        BY <2>1 DEF ConnInv
      <4>2. g = c => conn[g].pc # "backlog"
        BY <2>1, <2>3, <4>1 DEF Attached
      <4> QED
        BY <1>4, <2>1, <4>2
    <3> QED
      BY <1>4, <1>6, <2>1, <2>3, <3>1 DEF Metered
  <2> QED
    BY <2>2, <2>3
<1>10. ConnBase'
  <2>1. free'[h] \in 0..Permits
    BY <1>1, <1>4, HostBounds DEF ConnBase
  <2>2. free' \in [Hosts -> 0..Permits]
    BY <1>1, <1>4, <2>1 DEF ConnBase
  <2> QED
    BY <1>1, <1>2, <1>3, <2>2 DEF ConnBase, Conn
<1>11. ASSUME NEW e \in Clients PROVE Attached(e)'
  <2>1. Attached(e) /\ (e # c => ~(conn[e].pc = "held" /\ conn[e].host = h))
    BY DEF ConnInv, At
  <2>2. CASE e = c
    BY <1>2, <1>4, <2>2 DEF Attached, Active, Handling
  <2>3. CASE e # c
    BY <1>1, <1>4, <2>1, <2>3 DEF Attached, Active
  <2> QED
    BY <2>2, <2>3
<1> QED
  BY <1>9, <1>10, <1>11 DEF ConnInv

\* A connection is accepted and no permit is free: the loop waits with it in hand.
LEMMA ConnWaits ==
  ASSUME HostInv, ConnInv, NEW h \in Hosts, NEW c \in Clients,
         conn[c].host = h, conn[c].pc = "backlog",
         NEW d \in Conn, d.pc = "held", d.host = h, conn' = [conn EXCEPT ![c] = d],
         loop[h] = "select", loop' = [loop EXCEPT ![h] = "permit"],
         age' = [age EXCEPT ![h] = 0], UNCHANGED <<sup, free>>
  PROVE  ConnInv'
<1>1. ConnBase /\ loop \in [Hosts -> {"none", "select", "backoff", "permit", "stuck", "drain", "done"}]
      /\ age \in [Hosts -> 0..WedgeTicks]
  BY DEF ConnInv, HostInv, Base
<1>2. /\ conn'[c] = d /\ (\A e \in Clients : e # c => conn'[e] = conn[e])
      /\ loop'[h] = "permit" /\ age'[h] = 0
      /\ \A g \in Hosts : g # h => loop'[g] = loop[g] /\ age'[g] = age[g]
  BY <1>1 DEF ConnBase
<1>3. \A g \in Hosts : At(g, Handling)' = At(g, Handling)
  BY <1>2 DEF At, Handling
<1>4. At(h, {"held"})' = {c}
  <2>1. \A e \in Clients : conn[e].pc = "held" => conn[e].host # h
    BY DEF ConnInv, Attached
  <2> QED
    BY <1>2, <2>1 DEF At
<1>5. \A g \in Hosts : g # h => At(g, {"held"})' = At(g, {"held"})
  BY <1>2 DEF At
<1>6. ASSUME NEW g \in Hosts PROVE Metered(g)'
  <2>1. g \in Clients /\ Metered(g)
    BY DEF Clients, ConnInv
  <2>2. CASE g = h
    BY <1>2, <1>3, <1>4, <2>1, <2>2 DEF Metered
  <2>3. CASE g # h
    <3>1. conn[g].pc = "backlog" => conn'[g].pc = "backlog"
      <4>1. Attached(g)
        BY <2>1 DEF ConnInv
      <4> QED
        BY <1>2, <2>1, <2>3, <4>1 DEF Attached
    <3> QED
      BY <1>2, <1>3, <1>5, <2>1, <2>3, <3>1 DEF Metered
  <2> QED
    BY <2>2, <2>3
<1>7. ConnBase'
  BY <1>1 DEF ConnBase, Conn
<1>8. ASSUME NEW e \in Clients PROVE Attached(e)'
  <2>1. Attached(e)
    BY DEF ConnInv
  <2>2. CASE e = c
    BY <1>2, <2>1, <2>2 DEF Attached, Active, Handling
  <2>3. CASE e # c
    BY <1>1, <1>2, <2>1, <2>3 DEF Attached, Active
  <2> QED
    BY <2>2, <2>3
<1> QED
  BY <1>6, <1>7, <1>8 DEF ConnInv

\* A probe: the connection it makes goes to the host's own listener.
LEMMA ConnProbed ==
  ASSUME HostInv, ConnInv, NEW h \in Hosts, Tick(h)
  PROVE  ConnInv'
<1>1. /\ Base /\ Supervised(h) /\ ConnBase /\ Attached(h) /\ Metered(h) /\ h \in Clients /\ h # None
      /\ Permits \in Nat \ {0} /\ WedgeTicks \in Nat \ {0}
  BY HostsAssumption, HostBounds DEF HostInv, ConnInv, Clients
<1>2. /\ sup[h] = "wait" /\ server[h] /\ socket = h /\ Quiet(h) /\ loop[h] # "done"
      /\ conn[h].pc \in {"idle", "backlog", "held"}
      /\ sup' = [sup EXCEPT ![h] = "probe"] /\ age' = [age EXCEPT ![h] = NextAge(h)]
      /\ UNCHANGED <<loop, free>>
  BY <1>1 DEF Tick, ProbeDue, Supervised
<1>3. /\ \A e \in Clients : e # h => conn'[e] = conn[e]
      /\ \/ conn'[h] = conn[h] /\ ~(conn[h].pc = "idle" /\ Listening(h))
         \/ conn'[h] = [pc |-> "backlog", host |-> h, peer |-> FALSE] /\ conn[h].pc = "idle" /\ Listening(h)
      /\ conn' \in [Clients -> Conn]
  BY <1>1, <1>2 DEF Tick, Probed, ConnBase, Conn
<1>4. conn[h].pc = "backlog" => conn'[h].pc = "backlog"
  BY <1>3
<1>5. \A g \in Hosts : At(g, Handling)' = At(g, Handling) /\ At(g, {"held"})' = At(g, {"held"})
  <2>1. \A e \in Clients : e # h => conn'[e] = conn[e]
    BY <1>3
  <2>2. conn'[h] = conn[h] \/ (conn'[h].pc = "backlog" /\ conn[h].pc = "idle")
    BY <1>3
  <2> QED
    BY <2>1, <2>2 DEF At, Handling
<1>6. Metered(h)'
  <2>1. loop[h] = "permit" => NextAge(h) = 0
    BY DEF NextAge
  <2>2. loop[h] \in {"select", "backoff"} => conn'[h].pc = "backlog"
    <3>1. loop[h] \in {"select", "backoff"} => conn[h].pc # "held" /\ Listening(h)
      BY <1>1 DEF Attached, Listening
    <3> QED
      BY <1>2, <1>3, <1>4, <3>1
  <2>3. free'[h] + Cardinality(At(h, Handling)') = Permits
    BY <1>1, <1>2, <1>5 DEF Metered
  <2>4. loop'[h] = "permit" => \E c \in Clients : At(h, {"held"})' = {c}
    BY <1>1, <1>2, <1>5 DEF Metered
  <2>5. age'[h] = NextAge(h)
    BY <1>1, <1>2 DEF Base
  <2> QED
    BY <1>2, <2>1, <2>2, <2>3, <2>4, <2>5 DEF Metered
<1>7. ASSUME NEW g \in Hosts, g # h PROVE Metered(g)'
  <2>1. Metered(g) /\ g \in Clients /\ sup'[g] = sup[g] /\ age'[g] = age[g] /\ conn'[g] = conn[g]
    BY <1>1, <1>2, <1>3, <1>7 DEF ConnInv, Clients, Base
  <2> QED
    BY <1>2, <1>5, <2>1 DEF Metered
<1>8. ASSUME NEW e \in Clients PROVE Attached(e)'
  <2>1. Attached(e)
    BY DEF ConnInv
  <2>2. CASE e = h
    BY <1>2, <1>3, <2>1, <2>2 DEF Attached, Active, Handling, Listening
  <2>3. CASE e # h
    BY <1>2, <1>3, <2>1, <2>3 DEF Attached
  <2> QED
    BY <2>2, <2>3
<1>9. ConnBase'
  BY <1>1, <1>2, <1>3 DEF ConnBase, Conn
<1> QED
  BY <1>6, <1>7, <1>8, <1>9 DEF ConnInv

-----------------------------------------------------------------------------
(* All together. *)

\* What a loop that ended or a process that exits leaves open is closed.
LEMMA ConnEnded ==
  ASSUME HostInv, ConnInv, NEW h \in Hosts,
         AbortStuck(h) \/ Exit(h) \/ (Sample(h) /\ Wedged(h)) \/ Crash(h) \/ Drained(h)
  PROVE  ConnInv'
<1>1. Base /\ ConnBase
  BY DEF HostInv, ConnInv
<1>2. CASE Drained(h)
  <2>1. \A c \in Clients : conn[c].host = h /\ conn[c].pc \in Active => conn[c].pc \in Handling
    BY <1>2 DEF Drained, ConnInv, Attached, Active
  <2>2. /\ conn' = Closed(At(h, Handling)) /\ free' = [free EXCEPT ![h] = Permits]
        /\ loop' = [loop EXCEPT ![h] = "done"] /\ UNCHANGED <<sup, age>>
    BY <1>2 DEF Drained, hostVars
  <2> QED
    BY <2>1, <2>2, ConnCloses DEF Active
<1>3. CASE AbortStuck(h) \/ Exit(h) \/ (Sample(h) /\ Wedged(h)) \/ Crash(h)
  <2>1. conn' = Closed(At(h, Active)) /\ free' = [free EXCEPT ![h] = Permits]
    BY <1>3 DEF AbortStuck, Exit, Sample, Crash, Active
  <2>2. PICK l \in {"none", "done"} : loop' = [loop EXCEPT ![h] = l]
    BY <1>3 DEF AbortStuck, Exit, Sample, Crash
  <2>3. \A g \in Hosts : g # h => sup'[g] = sup[g] /\ age'[g] = age[g]
    BY <1>1, <1>3 DEF AbortStuck, Exit, Sample, Crash, hostVars, Base
  <2> QED
    BY <2>1, <2>2, <2>3, ConnCloses DEF Active
<1> QED
  BY <1>2, <1>3

\* The supervisor's and the loop's other steps touch no connection.
LEMMA ConnLeft ==
  ASSUME HostInv, ConnInv, NEW h \in Hosts,
         \/ Launch(h) /\ ~StartOk(h)
         \/ Shutdown(h) \/ Disable(h) \/ (Enable(h) /\ ~StartOk(h)) \/ RestartFails(h)
         \/ FinishStop(h) \/ AbortSupervisor(h) \/ Reap(h) \/ Flip(h) \/ CancelAll(h)
         \/ (Sample(h) /\ ~Wedged(h)) \/ AcceptTransient(h) \/ AcceptRetry(h) \/ Wedge(h)
  PROVE  ConnInv'
<1>1. Base
  BY DEF HostInv
<1>2. CASE Launch(h) /\ ~StartOk(h)
  <2>1. UNCHANGED <<conn, free, loop, age>> /\ sup' \in {[sup EXCEPT ![h] = "wait"], [sup EXCEPT ![h] = "gone"]}
    BY <1>2 DEF Launch, StartFails, loopVars
  <2> QED
    BY <1>1, <2>1, ConnStill DEF Base
<1>3. CASE Shutdown(h) \/ Disable(h) \/ AbortSupervisor(h)
  <2>1. UNCHANGED <<conn, free, loop, age>>
    BY <1>3 DEF Shutdown, Disable, AbortSupervisor, BeginStop, loopVars
  <2>2. sup' \in {sup, [sup EXCEPT ![h] = "shutdown"], [sup EXCEPT ![h] = "disable"], [sup EXCEPT ![h] = "gone"]}
    BY <1>3 DEF Shutdown, Disable, AbortSupervisor, BeginStop
  <2> QED
    BY <1>1, <2>1, <2>2, ConnStill DEF Base
<1>4. CASE (Enable(h) /\ ~StartOk(h)) \/ RestartFails(h) \/ Flip(h) \/ CancelAll(h)
  <2>1. UNCHANGED <<conn, free, loop, age, sup>>
    BY <1>4 DEF Enable, RestartFails, StartFails, Flip, CancelAll, loopVars
  <2> QED
    BY <2>1, ConnStill
<1>5. CASE FinishStop(h) \/ Reap(h)
  <2>1. UNCHANGED <<conn, free, age>> /\ loop[h] = "done" /\ loop' = [loop EXCEPT ![h] = "none"]
    BY <1>5 DEF FinishStop, Reap
  <2>2. sup' \in {sup, [sup EXCEPT ![h] = "wait"], [sup EXCEPT ![h] = "gone"]}
    BY <1>5 DEF FinishStop, Reap
  <2> QED
    BY <1>1, <2>1, <2>2, ConnStill DEF Base
<1>6. CASE Sample(h) /\ ~Wedged(h)
  <2>1. UNCHANGED <<conn, free, loop, age>> /\ sup' = [sup EXCEPT ![h] = "wait"]
    BY <1>6 DEF Sample
  <2> QED
    BY <1>1, <2>1, ConnStill DEF Base
<1>7. CASE AcceptTransient(h) \/ AcceptRetry(h) \/ Wedge(h)
  <2>1. UNCHANGED <<conn, free, age, sup>>
    BY <1>7 DEF AcceptTransient, AcceptRetry, Wedge, hostVars
  <2>2. \/ loop[h] \in {"select", "backoff"} /\ loop' = [loop EXCEPT ![h] = "backoff"]
        \/ loop[h] \in {"select", "backoff"} /\ loop' = [loop EXCEPT ![h] = "select"]
        \/ loop[h] \in {"select", "permit"} /\ loop' = [loop EXCEPT ![h] = "stuck"]
    BY <1>7 DEF AcceptTransient, AcceptRetry, Wedge
  <2> QED
    BY <1>1, <2>1, <2>2, ConnStill DEF Base
<1> QED
  BY <1>2, <1>3, <1>4, <1>5, <1>6, <1>7

\* What the loop does with the connections it takes.
LEMMA ConnTaken ==
  ASSUME HostInv, ConnInv, NEW h \in Hosts, (\E c \in Clients : Accept(h, c)) \/ PermitGranted(h)
  PROVE  ConnInv'
<1>1. Base /\ ConnBase /\ Metered(h)
  BY DEF HostInv, ConnInv
<1>2. ASSUME NEW c \in Clients, Accept(h, c) PROVE ConnInv'
  <2>1. conn[c] \in Conn /\ conn[c].host = h /\ conn[c].pc = "backlog" /\ loop[h] = "select"
        /\ age' = [age EXCEPT ![h] = 0] /\ UNCHANGED sup
    BY <1>1, <1>2 DEF Accept, At, ConnBase, Conn, hostVars
  <2>2. At(h, {"held"}) = {}
    BY <2>1 DEF ConnInv, Attached, At
  <2>3. CASE free[h] > 0
    <3>1. PICK d \in Conn : d = [conn[c] EXCEPT !.pc = "read"]
      BY <2>1 DEF Conn, Handling
    <3>2. d.pc = "read" /\ d.host = h
      BY <2>1, <3>1 DEF Conn
    <3>3. conn' = [conn EXCEPT ![c] = d] /\ free' = [free EXCEPT ![h] = @ - 1]
      BY <1>2, <2>3, <3>1 DEF Accept
    <3>4. loop' = [loop EXCEPT ![h] = "select"]
      BY <1>1, <1>2, <2>1, <2>3 DEF Accept, Base
    <3> QED
      BY <2>1, <2>2, <2>3, <3>2, <3>3, <3>4, ConnAccepted
  <2>4. CASE ~(free[h] > 0)
    <3>1. PICK d \in Conn : d = [conn[c] EXCEPT !.pc = "held"]
      BY <2>1 DEF Conn
    <3>2. d.pc = "held" /\ d.host = h
      BY <2>1, <3>1 DEF Conn
    <3>3. conn' = [conn EXCEPT ![c] = d] /\ loop' = [loop EXCEPT ![h] = "permit"] /\ UNCHANGED free
      BY <1>2, <2>4, <3>1 DEF Accept
    <3> QED
      BY <2>1, <3>2, <3>3, ConnWaits
  <2> QED
    BY <2>3, <2>4
<1>3. CASE PermitGranted(h)
  <2>1. PICK c \in Clients : At(h, {"held"}) = {c}
    BY <1>1, <1>3 DEF PermitGranted, Metered
  <2>2. conn[c] \in Conn /\ conn[c].host = h /\ conn[c].pc = "held"
    BY <1>1, <2>1 DEF At, ConnBase, Conn
  <2>3. PICK d \in Conn : d = [conn[c] EXCEPT !.pc = "read"]
    BY <2>2 DEF Conn, Handling
  <2>4. d.pc = "read" /\ d.host = h
    BY <2>2, <2>3 DEF Conn
  <2>5. conn' = [conn EXCEPT ![c] = d]
    <3>1. conn' = [e \in Clients |-> IF e \in {c} THEN [conn[e] EXCEPT !.pc = "read"] ELSE conn[e]]
      BY <1>3, <2>1 DEF PermitGranted
    <3> QED
      BY <1>1, <2>3, <3>1 DEF ConnBase
  <2>6. /\ free[h] > 0 /\ free' = [free EXCEPT ![h] = @ - 1] /\ loop[h] = "permit"
        /\ loop' = [loop EXCEPT ![h] = "select"] /\ UNCHANGED <<sup, age>>
    BY <1>3 DEF PermitGranted, hostVars
  <2> QED
    BY <2>1, <2>2, <2>4, <2>5, <2>6, ConnAccepted
<1> QED
  BY <1>2, <1>3

\* What its peer and its handler do with a connection.
LEMMA ConnHandled ==
  ASSUME HostInv, ConnInv, NEW c \in Clients, Handler(c) \/ HandlerPanics(c) \/ Client(c)
  PROVE  ConnInv'
<1>1. conn[c] \in Conn /\ ConnBase /\ Base /\ Attached(c) /\ Hosts \cap Conns = {} /\ None \notin Hosts
  BY HostsAssumption, ConnsAssumption DEF ConnInv, ConnBase, Conn, HostInv
<1>2. CASE PeerGone(c) \/ WriteBack(c) \/ HandlerPanics(c)
  <2>1. PICK pc \in {"answered", "eof"} : HandlerEnds(c, pc)
    BY <1>2 DEF PeerGone, WriteBack, HandlerPanics
  <2>2. conn[c].pc \in Handling
    BY <1>2 DEF PeerGone, WriteBack, HandlerPanics, Handling
  <2> QED
    BY <2>1, <2>2, ConnEnds
<1>3. CASE ReadRequest(c) \/ RunRequest(c)
  <2>1. PICK pc \in {"run", "write"} : conn' = [conn EXCEPT ![c].pc = pc]
    BY <1>3 DEF ReadRequest, RunRequest
  <2>2. conn[c].pc \in {"read", "run"} /\ UNCHANGED <<sup, loop, age, free>>
    BY <1>3 DEF ReadRequest, RunRequest, hostVars
  <2>3. PICK d \in Conn : d = [conn[c] EXCEPT !.pc = pc]
    BY <1>1 DEF Conn, Handling
  <2>4. d.pc = pc /\ d.host = conn[c].host
    BY <1>1, <2>3 DEF Conn
  <2>5. conn' = [conn EXCEPT ![c] = d]
    BY <2>1, <2>3
  <2> QED
    BY <2>2, <2>4, <2>5, ConnMoves DEF Handling
<1>4. CASE HangUp(c)
  <2>1. PICK d \in Conn : d = [conn[c] EXCEPT !.peer = FALSE]
    BY <1>1 DEF Conn
  <2>2. d.pc = conn[c].pc /\ d.host = conn[c].host
    BY <1>1, <2>1 DEF Conn
  <2>3. conn' = [conn EXCEPT ![c] = d] /\ UNCHANGED <<sup, loop, age, free>>
    BY <1>4, <2>1 DEF HangUp, hostVars
  <2> QED
    BY <2>2, <2>3, ConnMoves
<1>5. CASE ClientDone(c)
  <2>1. PICK d \in Conn : d = Idle
    BY DEF Conn, Idle
  <2>2. conn' = [conn EXCEPT ![c] = d] /\ UNCHANGED <<sup, loop, age, free>> /\ conn[c].pc \in {"answered", "eof"}
    BY <1>5, <2>1 DEF ClientDone, hostVars
  <2>3. d.pc = "idle"
    BY <2>1 DEF Idle
  <2> QED
    BY <2>2, <2>3, ConnMoves DEF Handling
<1>6. CASE Connect(c)
  <2>1. socket \in Hosts /\ Listening(socket) /\ c \notin Hosts /\ conn[c].pc = "idle"
    BY <1>1, <1>6 DEF Connect, Base
  <2>2. PICK s \in Hosts : s = socket
    BY <2>1
  <2>3. PICK d \in Conn : d = [pc |-> "backlog", host |-> s, peer |-> TRUE]
    BY DEF Conn
  <2>4. conn' = [conn EXCEPT ![c] = d] /\ UNCHANGED <<sup, loop, age, free>>
    BY <1>6, <2>2, <2>3 DEF Connect, hostVars
  <2>5. d.pc = "backlog" /\ d.host = s /\ Listening(s)
    BY <2>1, <2>2, <2>3
  <2> QED
    BY <2>1, <2>4, <2>5, ConnMoves DEF Handling
<1> QED
  BY <1>2, <1>3, <1>4, <1>5, <1>6 DEF Handler, Client

\* No connection yet.
LEMMA ConnInit == Init => ConnInv
<1> SUFFICES ASSUME Init PROVE ConnInv
  OBVIOUS
<1>1. Permits \in 0..Permits /\ Permits \in Nat /\ None \notin Hosts
  BY HostBounds, HostsAssumption
<1>2. ConnBase
  BY <1>1 DEF Init, ConnBase, Idle
<1>3. \A c \in Clients : conn[c] = Idle
  BY DEF Init
<1>4. \A c \in Clients : Attached(c)
  BY <1>3 DEF Attached, Idle, Active, Handling
<1>5. ASSUME NEW h \in Hosts PROVE Metered(h)
  <2>1. At(h, Handling) = {}
    BY <1>3 DEF At, Idle, Handling
  <2> QED
    BY <1>1, <2>1, FS_EmptySet DEF Metered, Init
<1> QED
  BY <1>2, <1>4, <1>5 DEF ConnInv

\* Every step keeps it, given that of the hosts.
LEMMA ConnNext == HostInv /\ ConnInv /\ [Next]_vars => ConnInv'
<1> SUFFICES ASSUME HostInv, ConnInv, [Next]_vars PROVE ConnInv'
  OBVIOUS
<1>1. ASSUME NEW h \in Hosts, Launch(h) \/ Supervisor(h) \/ AcceptLoop(h) \/ Exit(h)
                              \/ Flip(h) \/ CancelAll(h) \/ Crash(h)
      PROVE ConnInv'
  <2>1. CASE (Launch(h) \/ Enable(h)) /\ StartOk(h)
    <3>1. sup[h] \in {"off", "wait"} /\ sup' \in {sup, [sup EXCEPT ![h] = "wait"], [sup EXCEPT ![h] = "gone"]}
      BY <2>1 DEF Launch, Enable
    <3>2. server[h] # server'[h] /\ Base /\ Supervised(h)
      BY <2>1, HostsAssumption DEF StartOk, LockFree, HostInv, Base, Supervised
    <3>3. sup' \in {sup, [sup EXCEPT ![h] = "wait"]}
      BY <2>1, <3>2 DEF Launch, Enable, StartFails
    <3> QED
      BY <2>1, <3>1, <3>3, ConnStarts
  <2>2. CASE RestartOk(h)
    BY <2>2, ConnStarts DEF RestartOk
  <2>3. CASE Tick(h)
    BY <2>3, ConnProbed
  <2>4. CASE StopAccepting(h) \/ AcceptFatal(h)
    BY <2>4, ConnRefused DEF StopAccepting, AcceptFatal
  <2>5. CASE AbortStuck(h) \/ Exit(h) \/ (Sample(h) /\ Wedged(h)) \/ Crash(h) \/ Drained(h)
    BY <2>5, ConnEnded
  <2>6. CASE (\E c \in Clients : Accept(h, c)) \/ PermitGranted(h)
    BY <2>6, ConnTaken
  <2>7. CASE ((Launch(h) \/ Enable(h)) /\ ~StartOk(h)) \/ Shutdown(h) \/ Disable(h) \/ RestartFails(h)
             \/ FinishStop(h) \/ AbortSupervisor(h) \/ Reap(h) \/ Flip(h) \/ CancelAll(h)
             \/ (Sample(h) /\ ~Wedged(h)) \/ AcceptTransient(h) \/ AcceptRetry(h) \/ Wedge(h)
    BY <2>7, ConnLeft
  <2> QED
    BY <1>1, <2>1, <2>2, <2>3, <2>4, <2>5, <2>6, <2>7 DEF Supervisor, AcceptLoop
<1>2. CASE UNCHANGED vars
  <2>1. UNCHANGED <<conn, free, loop, sup, age>>
    BY <1>2 DEF vars, hostVars, loopVars
  <2> QED
    BY <2>1, ConnStill
<1> QED
  BY <1>1, <1>2, ConnHandled DEF Next

-----------------------------------------------------------------------------
(* What the two invariants show. *)

IInv == HostInv /\ ConnInv

\* It holds in every state that can be reached.
LEMMA Inductive == Spec => []IInv
<1>1. Init => IInv
  BY HostInit, ConnInit DEF IInv
<1>2. IInv /\ [Next]_vars => IInv'
  BY HostNext, ConnNext DEF IInv
<1> QED
  BY <1>1, <1>2, PTL DEF Spec

\* Every permit is free or with a live handler, for any connections and permits.
THEOREM PermitsAddUp == Spec => []TypeOK
<1>1. IInv => TypeOK
  BY DEF IInv, HostInv, Base, ConnInv, ConnBase, Metered, TypeOK
<1> QED
  BY <1>1, Inductive, PTL

\* Of any number of hosts no start, stop, restart or crash of one breaks the
\* endpoint of another.
THEOREM NoHostBreaksAnother == Spec => []EndpointIsWhole
<1>1. IInv => EndpointIsWhole
  BY DEF IInv, HostInv, Supervised, EndpointIsWhole, Listening
<1> QED
  BY <1>1, Inductive, PTL

\* A supervisor that has seen the setting turned off has nothing left to serve or
\* to restart.
THEOREM DisableIsFinal == Spec => []DisabledStaysDown
<1>1. IInv => DisabledStaysDown
  BY DEF IInv, HostInv, Supervised, DisabledStaysDown
<1> QED
  BY <1>1, Inductive, PTL

\* A probe is read by the step that ends it and by no other.
LEMMA OnlySampleEndsProbe ==
  ASSUME HostInv, [Next]_vars, NEW h \in Hosts, sup[h] = "probe", sup'[h] = "wait"
  PROVE  Sample(h)
<1>1. sup' # sup /\ sup \in [Hosts -> {"off", "wait", "probe", "disable", "shutdown", "gone"}]
  BY DEF HostInv, Base
<1>2. ASSUME NEW g \in Hosts, Launch(g) \/ Supervisor(g) \/ AcceptLoop(g) \/ Exit(g)
                              \/ Flip(g) \/ CancelAll(g) \/ Crash(g)
      PROVE Sample(h)
  <2>1. CASE Sample(g)
    BY <1>1, <2>1 DEF Sample
  <2>2. CASE Launch(g) \/ FinishStop(g)
    BY <1>1, <2>2 DEF Launch, FinishStop
  <2>3. CASE Shutdown(g) \/ Disable(g)
    BY <1>1, <2>3 DEF Shutdown, Disable, BeginStop
  <2>4. CASE AbortSupervisor(g) \/ Tick(g) \/ Crash(g)
    BY <1>1, <2>4 DEF AbortSupervisor, Tick, Crash
  <2>5. CASE Enable(g) \/ RestartOk(g) \/ RestartFails(g) \/ Reap(g) \/ AbortStuck(g) \/ Exit(g) \/ Flip(g)
             \/ CancelAll(g)
    BY <1>1, <2>5 DEF Enable, RestartOk, RestartFails, Reap, AbortStuck, Exit, Flip, CancelAll, hostVars
  <2>6. CASE AcceptLoop(g)
    BY <1>1, <2>6 DEF AcceptLoop, Accept, PermitGranted, AcceptRetry, StopAccepting, Drained,
       AcceptTransient, AcceptFatal, Wedge, DropListener, hostVars
  <2> QED
    BY <1>2, <2>1, <2>2, <2>3, <2>4, <2>5, <2>6 DEF Supervisor
<1>3. ASSUME NEW c \in Clients, Handler(c) \/ HandlerPanics(c) \/ Client(c) PROVE FALSE
  BY <1>1, <1>3 DEF Handler, ReadRequest, RunRequest, PeerGone, WriteBack, HandlerPanics, HandlerEnds, Client,
     Connect, HangUp, ClientDone, hostVars
<1>4. CASE UNCHANGED vars
  BY <1>1, <1>4 DEF vars, hostVars
<1> QED
  BY <1>2, <1>3, <1>4 DEF Next

\* The probe aborts no loop that accepts, however long it was idle or waited for a
\* permit before.
THEOREM ProbeSparesTheBusy == Spec => BusyIsNotWedged
<1>1. IInv /\ [Next]_vars
        => [\A h \in Hosts : sup[h] = "probe" /\ sup'[h] = "wait" /\ loop'[h] # loop[h] =>
              loop[h] \in {"stuck", "backoff"}]_vars
  <2> SUFFICES ASSUME IInv, [Next]_vars, NEW h \in Hosts, sup[h] = "probe", sup'[h] = "wait",
                      loop'[h] # loop[h]
               PROVE  loop[h] \in {"stuck", "backoff"}
    OBVIOUS
  <2>1. Base /\ Supervised(h) /\ Metered(h) /\ Attached(h) /\ h \in Clients
    BY DEF IInv, HostInv, ConnInv, Clients
  <2>2. Sample(h)
    BY OnlySampleEndsProbe DEF IInv
  <2>3. Wedged(h) /\ Quiet(h) /\ loop[h] # "done" /\ loop[h] # "none"
    BY <2>1, <2>2 DEF Sample, Supervised, Base
  <2>4. age[h] # 0
    BY <2>1, <2>3, HostBounds DEF Wedged, Base
  <2>5. loop[h] # "permit"
    BY <2>1, <2>4 DEF Metered
  <2>6. loop[h] # "select"
    BY <2>1, <2>3, <2>4 DEF Metered, Attached, Quiet, At
  <2> QED
    BY <2>3, <2>5, <2>6 DEF Quiet
<1> QED
  BY <1>1, Inductive, PTL DEF Spec, BusyIsNotWedged

\* While a server stops neither file is its own, and no step but a start makes one so.
LEMMA OnlyStartsWriteFiles ==
  ASSUME HostInv, [Next]_vars, NEW h \in Hosts, sup[h] \in {"disable", "shutdown"}
  PROVE  socket' # h /\ token' # h
<1>1. Base /\ Supervised(h) /\ socket # h /\ token # h /\ lock = h /\ h # None
  BY HostsAssumption DEF HostInv, Supervised
<1>2. ASSUME NEW g \in Hosts, StartOk(g) PROVE FALSE
  BY <1>1, <1>2 DEF StartOk, LockFree
<1>3. ASSUME NEW g \in Hosts, Launch(g) \/ Supervisor(g) \/ AcceptLoop(g) \/ Exit(g)
                              \/ Flip(g) \/ CancelAll(g) \/ Crash(g)
      PROVE socket' \in {socket, None} /\ token' \in {token, None}
  <2>1. CASE Launch(g) \/ Enable(g) \/ RestartOk(g) \/ RestartFails(g)
    BY <1>2, <2>1 DEF Launch, Enable, RestartOk, RestartFails, StartFails, fileVars
  <2>2. CASE Shutdown(g) \/ Disable(g)
    BY <2>2 DEF Shutdown, Disable, BeginStop, fileVars
  <2>3. CASE FinishStop(g) \/ AbortStuck(g) \/ AbortSupervisor(g) \/ Exit(g) \/ Reap(g) \/ Tick(g) \/ Sample(g)
             \/ Flip(g) \/ CancelAll(g) \/ Crash(g)
    BY <2>3 DEF FinishStop, AbortStuck, AbortSupervisor, Exit, Reap, Tick, Sample, Flip, CancelAll, Crash, fileVars
  <2>4. CASE AcceptLoop(g)
    BY <2>4 DEF AcceptLoop, Accept, PermitGranted, AcceptRetry, StopAccepting, Drained,
       AcceptTransient, AcceptFatal, Wedge, DropListener, fileVars
  <2> QED
    BY <1>3, <2>1, <2>2, <2>3, <2>4 DEF Supervisor
<1>4. ASSUME NEW c \in Clients, Handler(c) \/ HandlerPanics(c) \/ Client(c)
      PROVE UNCHANGED <<socket, token>>
  BY <1>4 DEF Handler, ReadRequest, RunRequest, PeerGone, WriteBack, HandlerPanics, HandlerEnds, Client,
     Connect, HangUp, ClientDone, fileVars
<1>5. CASE UNCHANGED vars
  BY <1>1, <1>5 DEF vars, fileVars
<1> QED
  BY <1>1, <1>3, <1>4, <1>5 DEF Next

\* A stop that runs to its end leaves neither of the server's files, whatever other
\* hosts do at the endpoint meanwhile.
THEOREM StopsCleanUp == Spec => StopLeavesNoFiles
<1>1. IInv /\ [Next]_vars
        => [\A h \in Hosts : sup[h] \in {"disable", "shutdown"} /\ lock = h /\ lock' = None
                               /\ sup'[h] # "off" /\ loop[h] = "done" =>
              socket' # h /\ token' # h]_vars
  BY OnlyStartsWriteFiles DEF IInv
<1> QED
  BY <1>1, Inductive, PTL DEF Spec, StopLeavesNoFiles

\* Whatever its host did since it connected: a client that waits for its turn waits
\* at a listener that is still open, the one a loop took in hand only at a loop that
\* waits for a permit or is stuck, and a handler runs under a loop that can still
\* drain it.  No stop, abort, exit or crash leaves a peer without its EOF.
NoClientIsOrphaned ==
  \A c \in Clients :
    /\ conn[c].pc \in {"backlog", "held"} => conn[c].host \in Hosts /\ Listening(conn[c].host)
    /\ conn[c].pc = "held" => loop[conn[c].host] \in {"permit", "stuck"}
    /\ conn[c].pc \in Handling => conn[c].host \in Hosts /\ loop[conn[c].host] \notin {"none", "done"}

\* Every connection that has no answer yet is one its host's loop still owns
\* (DropListener, drain_handlers, the abort of a stuck loop).
THEOREM EveryClientHasItsHost == Spec => []NoClientIsOrphaned
<1>1. ASSUME IInv, NEW c \in Clients
      PROVE /\ conn[c].pc \in {"backlog", "held"} => conn[c].host \in Hosts /\ Listening(conn[c].host)
            /\ conn[c].pc = "held" => loop[conn[c].host] \in {"permit", "stuck"}
            /\ conn[c].pc \in Handling => conn[c].host \in Hosts /\ loop[conn[c].host] \notin {"none", "done"}
  <2>1. Attached(c) /\ loop \in [Hosts -> {"none", "select", "backoff", "permit", "stuck", "drain", "done"}]
    BY <1>1 DEF IInv, HostInv, Base, ConnInv
  <2>2. CASE conn[c].pc = "backlog"
    BY <2>1, <2>2 DEF Attached, Active, Listening, Handling
  <2>3. CASE conn[c].pc = "held"
    BY <2>1, <2>3 DEF Attached, Active, Listening, Handling
  <2>4. CASE conn[c].pc \in Handling
    BY <2>1, <2>4 DEF Attached, Active, Handling
  <2> QED
    BY <2>2, <2>3, <2>4
<1>2. IInv => NoClientIsOrphaned
  BY <1>1 DEF NoClientIsOrphaned
<1> QED
  BY <1>2, Inductive, PTL
=============================================================================
