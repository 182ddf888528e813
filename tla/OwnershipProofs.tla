-------------------------- MODULE OwnershipProofs --------------------------
(***************************************************************************)
(* Theorems about the ownership of the store, for any number of processes, *)
(* of crashes and of failed operations.                                    *)
(***************************************************************************)
EXTENDS Ownership, TLAPS

-----------------------------------------------------------------------------
(* The inductive invariant. *)

Hosting == {"boot", "binding", "serving", "retreat", "drain", "quit", "purge", "unmarkQuit", "exit"}
Quitting == {"retreat", "drain", "quit", "purge", "unmarkQuit", "exit"}
Stores(p) == hist \cap {<<p, "early">>, <<p, "late">>}

\* Where a process can be: its role, its worker, its blocking threads, its stop.
Placed(p) ==
  /\ proc[p].pc \in Hosting => Is(p, Hosts)
  /\ proc[p].worker # "none" => proc[p].pc \in {"binding", "serving", "retreat", "drain"}
  /\ proc[p].job => proc[p].pc \in (Hosting \ {"boot"}) \cup {"ended"}
  /\ proc[p].pc \in {"held", "wait"} => Is(p, {"desktop"})
  /\ proc[p].resumable => proc[p].pc \in {"purge", "unmarkQuit", "exit"}
  /\ proc[p].pc \in Quitting \/ (proc[p].job /\ At(p, "ended")) => proc[p].stop
  /\ promised = p => proc[p].pc \in Quitting \cup {"ended"}

\* Where the marker is pending: with a purge to finish or to resume, and not under
\* a process that has opened the store and not asked for a clearing itself.
Pending(p) ==
  /\ proc[p].sweep => Is(p, {"desktop"}) /\ At(p, "exit") /\ marker
  /\ At(p, "finish") \/ (At(p, "purge") /\ proc[p].resumable) => marker
  /\ ~Is(p, {"read"}) /\ proc[p].pc \in {"using", "boot", "binding", "serving", "retreat", "drain", "quit"}
       => ~marker

\* What may be in the history: nothing doomed once it is purged, nothing a reader
\* must not see, and while a purge is pending only what it may remove.
Clean(p) ==
  /\ proc[p].pc \in {"unmark", "unmarkQuit"} => hist \cap doomed = {}
  /\ proc[p].stale \subseteq doomed
  /\ proc[p].pc \in {"using", "boot", "binding", "serving"} => hist \cap proc[p].stale = {}
  /\ Stores(p) # {} => (lock = p /\ ~Is(p, {"read"})) \/ At(p, "ended")
  /\ marker => Stores(p) \subseteq doomed \/ proc[p].stop

\* When a process's entries are doomed, it stores at most one more, which is not.
Doomed(p) ==
  /\ <<p, "early">> \in doomed =>
       proc[p].worker = "none" /\ proc[p].pc \in {"purge", "unmarkQuit", "exit", "ended"}
  /\ <<p, "late">> \in hist \cup doomed => ~proc[p].job /\ <<p, "early">> \in doomed

Each(p) == Placed(p) /\ Pending(p) /\ Clean(p) /\ Doomed(p)

Global ==
  /\ ~marker => hist \cap doomed = {}
  /\ promised # None /\ promised = lock => handoff = "fresh"

IInv == TypeOK /\ Global /\ \A p \in Procs : Each(p)

-----------------------------------------------------------------------------
(* What a step of one process does to the others. *)

\* A step of p takes or releases its own lock only; it moves the marker and dooms
\* entries only with the lock; it adds to the history one entry that is not doomed.
Frame(p) ==
  /\ lock' \in {lock, p, None} /\ (lock' # lock => lock \in {p, None})
  /\ marker' # marker => lock = p
  /\ marker' /\ ~marker => hist' \subseteq doomed'
  /\ doomed' \in {doomed, Cleared(p)} /\ (doomed' # doomed => lock = p)
  /\ \/ hist' \subseteq hist
     \/ /\ doomed' = doomed
        /\ \E e \in {<<p, "early">>, <<p, "late">>} : e \notin doomed /\ hist' = hist \cup {e}
  /\ promised' \in {promised, p, None}

\* What such a step leaves true of the others, and their share of the lock.
LEMMA OthersKeep ==
  ASSUME IInv, NEW p \in Procs, NEW q \in Procs, q # p, proc'[q] = proc[q], Frame(p)
  PROVE  Each(q)' /\ (Owning(q)' <=> lock' = q)
<1>0. /\ TypeOK /\ Each(q) /\ (Owning(q) <=> lock = q) /\ q # None /\ proc[q] \in Processes
  BY DEF IInv, TypeOK, Procs, None
<1>1. (lock' = q <=> lock = q) /\ (Owning(q)' <=> Owning(q))
  BY <1>0 DEF Frame, Owning, Is
<1>2. Stores(q)' \subseteq Stores(q)
  BY DEF Frame, Stores
<1>3. Placed(q)'
  BY <1>0 DEF Frame, Each, Placed, Is, At
<1>4. CASE lock = p
  <2>1. ~Owning(q)
    BY <1>0, <1>4
  <2>2. Pending(q)'
    <3>1. ~(proc[q].sweep \/ At(q, "finish") \/ At(q, "purge"))
      BY <1>0, <2>1 DEF Each, Pending, Placed, Hosting, Hosts, Owning, Is, At
    <3>2. ~Is(q, {"read"}) => proc[q].pc \in {"off", "launch", "held", "wait", "ended"}
      BY <2>1 DEF Owning
    <3> QED
      BY <3>1, <3>2 DEF Pending, Is, At
  <2>3. Clean(q)'
    <3>1. doomed \subseteq doomed' /\ hist' \cap doomed \subseteq hist
      BY DEF Frame, Cleared
    <3>2. proc[q].pc \notin {"unmark", "unmarkQuit"}
      BY <1>0, <2>1 DEF Each, Placed, Hosting, Hosts, Owning, Is
    <3>3. (proc[q].stale \subseteq doomed)'
      BY <1>0, <3>1 DEF Each, Clean
    <3>4. (proc[q].pc \in {"using", "boot", "binding", "serving"} => hist \cap proc[q].stale = {})'
      BY <1>0, <3>1 DEF Each, Clean
    <3>5. (Stores(q) # {} => (lock = q /\ ~Is(q, {"read"})) \/ At(q, "ended"))'
      BY <1>0, <1>2, <1>4 DEF Each, Clean, At, Is
    <3>6. (marker => Stores(q) \subseteq doomed \/ proc[q].stop)'
      <4>1. CASE marker
        BY <1>0, <1>2, <3>1, <4>1 DEF Each, Clean
      <4>2. CASE ~marker
        BY <4>2 DEF Frame, Stores
      <4> QED
        BY <4>1, <4>2
    <3> QED
      BY <3>2, <3>3, <3>4, <3>5, <3>6 DEF Clean
  <2>4. Doomed(q)'
    BY <1>0, <1>4 DEF Each, Doomed, Clean, Placed, At, Frame, Stores, Cleared, Quitting
  <2> QED
    BY <1>0, <1>1, <1>3, <2>2, <2>3, <2>4 DEF Each
<1>5. CASE lock # p
  <2>1. UNCHANGED <<marker, doomed>>
    BY <1>5 DEF Frame
  <2>2. Pending(q)'
    BY <1>0, <2>1 DEF Each, Pending, Is, At
  <2>3. Clean(q)'
    BY <1>0, <1>1, <1>2, <2>1 DEF Each, Clean, At, Is, Frame, Stores
  <2>4. Doomed(q)'
    BY <1>0, <2>1 DEF Each, Doomed, At, Frame
  <2> QED
    BY <1>0, <1>1, <1>3, <2>2, <2>3, <2>4 DEF Each
<1> QED
  BY <1>4, <1>5

-----------------------------------------------------------------------------
(* What a step of a process must keep for itself. *)

Types ==
  /\ lock \in Procs \cup {None} /\ marker \in BOOLEAN /\ handoff \in {"none", "fresh", "stale"}
  /\ hist \subseteq Entries /\ doomed \subseteq Entries /\ promised \in Procs \cup {None}
  /\ crashes \in 0..MaxCrashes /\ faults \in 0..MaxFaults

\* A step of p that keeps the invariant for p and for the store keeps it.
LEMMA StepInv ==
  ASSUME IInv, NEW p \in Procs, NEW r \in Processes, proc' = [proc EXCEPT ![p] = r],
         Types', Frame(p), Each(p)', Owning(p)' <=> lock' = p, Global'
  PROVE  IInv'
<1>1. proc \in [Procs -> Processes]
  BY DEF IInv, TypeOK
<1>2. proc' \in [Procs -> Processes] /\ \A q \in Procs : q # p => proc'[q] = proc[q]
  BY <1>1
<1>3. ASSUME NEW q \in Procs PROVE Each(q)' /\ (Owning(q)' <=> lock' = q)
  BY <1>2, OthersKeep
<1>4. TypeOK'
  BY <1>2, <1>3 DEF TypeOK, Types
<1> QED
  BY <1>3, <1>4 DEF IInv

\* A step that only moves p itself.
LEMMA QuietInv ==
  ASSUME IInv, NEW p \in Procs, NEW r \in Processes, proc' = [proc EXCEPT ![p] = r],
         UNCHANGED <<lock, marker, handoff, hist, doomed, promised>>,
         crashes' \in 0..MaxCrashes, faults' \in 0..MaxFaults,
         Owning(p)' <=> Owning(p), Placed(p)', Pending(p)', Clean(p)', Doomed(p)'
  PROVE  IInv'
<1>1. Types' /\ (Owning(p)' <=> lock' = p) /\ Global'
  BY DEF IInv, TypeOK, Types, Global
<1>2. Frame(p)
  BY DEF Frame
<1> QED
  BY <1>1, <1>2, StepInv DEF Each

\* The steps, one lemma for those of a kind.

\* On the way to serving, with the lock and the store left alone.
LEMMA QuietOpens ==
  ASSUME IInv, NEW p \in Procs, Held(p) \/ ReadOpens(p) \/ Bound(p) \/ BindFails(p)
  PROVE  IInv'
<1>0. /\ proc \in [Procs -> Processes] /\ proc[p] \in Processes /\ Types
      /\ Global /\ Each(p) /\ (Owning(p) <=> lock = p) /\ p # None
      /\ (Fault => faults' \in 0..MaxFaults /\ crashes' = crashes)
  BY OwnershipAssumption DEF IInv, TypeOK, Types, Procs, None, Fault
<1>1. CASE Held(p)
  <2> DEFINE r == [proc[p] EXCEPT !.pc = "held"]
  <2>1. /\ proc' = [proc EXCEPT ![p] = r] /\ r \in Processes /\ proc'[p] = r
        /\ UNCHANGED <<lock, marker, handoff, hist, doomed, promised>>
        /\ crashes' \in 0..MaxCrashes /\ faults' \in 0..MaxFaults
    <3>1. proc' = [proc EXCEPT ![p] = r]
      BY <1>0, <1>1 DEF Held, Goto, At, Is
    <3>2. r \in Processes
      BY <1>0 DEF Processes
    <3>3. /\ UNCHANGED <<lock, marker, handoff, hist, doomed, promised>>
          /\ crashes' \in 0..MaxCrashes /\ faults' \in 0..MaxFaults
      BY <1>0, <1>1 DEF Held, Types, disk, bounds
    <3> HIDE DEF r
    <3> QED
      BY <1>0, <3>1, <3>2, <3>3
  <2>2. proc[p].pc = "launch" /\ proc[p].role = "desktop"
    BY <1>0, <1>1 DEF Held, At, Is
  <2>3. Owning(p)' <=> Owning(p)
    BY <1>0, <2>1, <2>2 DEF Owning, Is
  <2>4. Placed(p)'
    BY <1>0, <2>1, <2>2 DEF Each, Placed, Is, At, Hosting, Quitting, Hosts
  <2>5. Pending(p)'
    BY <1>0, <2>1, <2>2 DEF Each, Pending, Placed, Is, At, Hosting, Hosts
  <2>6. Clean(p)'
    BY <1>0, <2>1, <2>2 DEF Each, Clean, Global, Owning, Stores, At, Is
  <2>7. Doomed(p)'
    BY <1>0, <2>1, <2>2 DEF Each, Doomed, Placed, At
  <2> HIDE DEF r
  <2> QED
    BY <1>0, <2>1, <2>3, <2>4, <2>5, <2>6, <2>7, QuietInv
<1>2. CASE ReadOpens(p)
  <2> DEFINE r == [proc[p] EXCEPT !.pc = "opening"]
  <2>1. /\ proc' = [proc EXCEPT ![p] = r] /\ r \in Processes /\ proc'[p] = r
        /\ UNCHANGED <<lock, marker, handoff, hist, doomed, promised>>
        /\ crashes' \in 0..MaxCrashes /\ faults' \in 0..MaxFaults
    <3>1. proc' = [proc EXCEPT ![p] = r]
      BY <1>0, <1>2 DEF ReadOpens, Goto, At, Is
    <3>2. r \in Processes
      BY <1>0 DEF Processes
    <3>3. /\ UNCHANGED <<lock, marker, handoff, hist, doomed, promised>>
          /\ crashes' \in 0..MaxCrashes /\ faults' \in 0..MaxFaults
      BY <1>0, <1>2 DEF ReadOpens, Types, disk, bounds
    <3> HIDE DEF r
    <3> QED
      BY <1>0, <3>1, <3>2, <3>3
  <2>2. proc[p].pc = "launch" /\ proc[p].role = "read"
    BY <1>0, <1>2 DEF ReadOpens, At, Is
  <2>3. Owning(p)' <=> Owning(p)
    BY <1>0, <2>1, <2>2 DEF Owning, Is
  <2>4. Placed(p)'
    BY <1>0, <2>1, <2>2 DEF Each, Placed, Is, At, Hosting, Quitting, Hosts
  <2>5. Pending(p)'
    BY <1>0, <2>1, <2>2 DEF Each, Pending, Placed, Is, At, Hosting, Hosts
  <2>6. Clean(p)'
    BY <1>0, <2>1, <2>2 DEF Each, Clean, Global, Owning, Stores, At, Is
  <2>7. Doomed(p)'
    BY <1>0, <2>1, <2>2 DEF Each, Doomed, Placed, At
  <2> HIDE DEF r
  <2> QED
    BY <1>0, <2>1, <2>3, <2>4, <2>5, <2>6, <2>7, QuietInv
<1>3. CASE Bound(p)
  <2> DEFINE r == [proc[p] EXCEPT !.pc = "serving"]
  <2>1. /\ proc' = [proc EXCEPT ![p] = r] /\ r \in Processes /\ proc'[p] = r
        /\ UNCHANGED <<lock, marker, handoff, hist, doomed, promised>>
        /\ crashes' \in 0..MaxCrashes /\ faults' \in 0..MaxFaults
    <3>1. proc' = [proc EXCEPT ![p] = r]
      BY <1>0, <1>3 DEF Bound, Goto, At, Is
    <3>2. r \in Processes
      BY <1>0 DEF Processes
    <3>3. /\ UNCHANGED <<lock, marker, handoff, hist, doomed, promised>>
          /\ crashes' \in 0..MaxCrashes /\ faults' \in 0..MaxFaults
      BY <1>0, <1>3 DEF Bound, Types, disk, bounds
    <3> HIDE DEF r
    <3> QED
      BY <1>0, <3>1, <3>2, <3>3
  <2>2. proc[p].pc = "binding"
    BY <1>0, <1>3 DEF Bound, At, Is
  <2>3. Owning(p)' <=> Owning(p)
    BY <1>0, <2>1, <2>2 DEF Owning, Is
  <2>4. Placed(p)'
    BY <1>0, <2>1, <2>2 DEF Each, Placed, Is, At, Hosting, Quitting, Hosts
  <2>5. Pending(p)'
    BY <1>0, <2>1, <2>2 DEF Each, Pending, Placed, Is, At, Hosting, Hosts
  <2>6. Clean(p)'
    BY <1>0, <2>1, <2>2 DEF Each, Clean, Global, Owning, Stores, At, Is
  <2>7. Doomed(p)'
    BY <1>0, <2>1, <2>2 DEF Each, Doomed, Placed, At
  <2> HIDE DEF r
  <2> QED
    BY <1>0, <2>1, <2>3, <2>4, <2>5, <2>6, <2>7, QuietInv
<1>4. CASE BindFails(p)
  <2> DEFINE r == [proc[p] EXCEPT !.pc = "retreat", !.stop = TRUE]
  <2>1. /\ proc' = [proc EXCEPT ![p] = r] /\ r \in Processes /\ proc'[p] = r
        /\ UNCHANGED <<lock, marker, handoff, hist, doomed, promised>>
        /\ crashes' \in 0..MaxCrashes /\ faults' \in 0..MaxFaults
    <3>1. proc' = [proc EXCEPT ![p] = r]
      BY <1>0, <1>4 DEF BindFails, Goto, At, Is
    <3>2. r \in Processes
      BY <1>0 DEF Processes
    <3>3. /\ UNCHANGED <<lock, marker, handoff, hist, doomed, promised>>
          /\ crashes' \in 0..MaxCrashes /\ faults' \in 0..MaxFaults
      BY <1>0, <1>4 DEF BindFails, Types, disk, bounds
    <3> HIDE DEF r
    <3> QED
      BY <1>0, <3>1, <3>2, <3>3
  <2>2. proc[p].pc = "binding"
    BY <1>0, <1>4 DEF BindFails, At, Is
  <2>3. Owning(p)' <=> Owning(p)
    BY <1>0, <2>1, <2>2 DEF Owning, Is
  <2>4. Placed(p)'
    BY <1>0, <2>1, <2>2 DEF Each, Placed, Is, At, Hosting, Quitting, Hosts
  <2>5. Pending(p)'
    BY <1>0, <2>1, <2>2 DEF Each, Pending, Placed, Is, At, Hosting, Hosts
  <2>6. Clean(p)'
    BY <1>0, <2>1, <2>2 DEF Each, Clean, Global, Owning, Stores, At, Is
  <2>7. Doomed(p)'
    BY <1>0, <2>1, <2>2 DEF Each, Doomed, Placed, At
  <2> HIDE DEF r
  <2> QED
    BY <1>0, <2>1, <2>3, <2>4, <2>5, <2>6, <2>7, QuietInv
<1> QED
  BY <1>1, <1>2, <1>3, <1>4

\* The worker, while nothing lands.
LEMMA QuietWorks ==
  ASSUME IInv, NEW p \in Procs, Tick(p) \/ WorkerExits(p) \/ Respawn(p) \/ WorkerStops(p) \/ Overdue(p)
  PROVE  IInv'
<1>0. /\ proc \in [Procs -> Processes] /\ proc[p] \in Processes /\ Types
      /\ Global /\ Each(p) /\ (Owning(p) <=> lock = p) /\ p # None
      /\ (Fault => faults' \in 0..MaxFaults /\ crashes' = crashes)
  BY OwnershipAssumption DEF IInv, TypeOK, Types, Procs, None, Fault
<1>1. CASE Tick(p)
  <2> DEFINE r == [proc[p] EXCEPT !.worker = "inserting", !.job = TRUE]
  <2>1. /\ proc' = [proc EXCEPT ![p] = r] /\ r \in Processes /\ proc'[p] = r
        /\ UNCHANGED <<lock, marker, handoff, hist, doomed, promised>>
        /\ crashes' \in 0..MaxCrashes /\ faults' \in 0..MaxFaults
    <3>1. proc' = [proc EXCEPT ![p] = r]
      BY <1>0, <1>1 DEF Tick, Worker
    <3>2. r \in Processes
      BY <1>0 DEF Processes
    <3>3. /\ UNCHANGED <<lock, marker, handoff, hist, doomed, promised>>
          /\ crashes' \in 0..MaxCrashes /\ faults' \in 0..MaxFaults
      BY <1>0, <1>1 DEF Tick, Types, disk, bounds
    <3> HIDE DEF r
    <3> QED
      BY <1>0, <3>1, <3>2, <3>3
  <2>2. proc[p].worker = "idle"
    BY <1>0, <1>1 DEF Tick, Worker
  <2>3. Owning(p)' <=> Owning(p)
    BY <1>0, <2>1, <2>2 DEF Owning, Is
  <2>4. Placed(p)'
    BY <1>0, <2>1, <2>2 DEF Each, Placed, Is, At, Hosting, Quitting, Hosts
  <2>5. Pending(p)'
    BY <1>0, <2>1, <2>2 DEF Each, Pending, Placed, Is, At, Hosting, Hosts
  <2>6. Clean(p)'
    BY <1>0, <2>1, <2>2 DEF Each, Clean, Global, Owning, Stores, At, Is
  <2>7. Doomed(p)'
    BY <1>0, <2>1, <2>2 DEF Each, Doomed, Placed, At
  <2> HIDE DEF r
  <2> QED
    BY <1>0, <2>1, <2>3, <2>4, <2>5, <2>6, <2>7, QuietInv
<1>2. CASE WorkerExits(p)
  <2> DEFINE r == [proc[p] EXCEPT !.worker = "backoff"]
  <2>1. /\ proc' = [proc EXCEPT ![p] = r] /\ r \in Processes /\ proc'[p] = r
        /\ UNCHANGED <<lock, marker, handoff, hist, doomed, promised>>
        /\ crashes' \in 0..MaxCrashes /\ faults' \in 0..MaxFaults
    <3>1. proc' = [proc EXCEPT ![p] = r]
      BY <1>0, <1>2 DEF WorkerExits, Worker
    <3>2. r \in Processes
      BY <1>0 DEF Processes
    <3>3. /\ UNCHANGED <<lock, marker, handoff, hist, doomed, promised>>
          /\ crashes' \in 0..MaxCrashes /\ faults' \in 0..MaxFaults
      BY <1>0, <1>2 DEF WorkerExits, Types, disk, bounds
    <3> HIDE DEF r
    <3> QED
      BY <1>0, <3>1, <3>2, <3>3
  <2>2. proc[p].worker = "idle"
    BY <1>0, <1>2 DEF WorkerExits, Worker
  <2>3. Owning(p)' <=> Owning(p)
    BY <1>0, <2>1, <2>2 DEF Owning, Is
  <2>4. Placed(p)'
    BY <1>0, <2>1, <2>2 DEF Each, Placed, Is, At, Hosting, Quitting, Hosts
  <2>5. Pending(p)'
    BY <1>0, <2>1, <2>2 DEF Each, Pending, Placed, Is, At, Hosting, Hosts
  <2>6. Clean(p)'
    BY <1>0, <2>1, <2>2 DEF Each, Clean, Global, Owning, Stores, At, Is
  <2>7. Doomed(p)'
    BY <1>0, <2>1, <2>2 DEF Each, Doomed, Placed, At
  <2> HIDE DEF r
  <2> QED
    BY <1>0, <2>1, <2>3, <2>4, <2>5, <2>6, <2>7, QuietInv
<1>3. CASE Respawn(p)
  <2> DEFINE r == [proc[p] EXCEPT !.worker = "idle"]
  <2>1. /\ proc' = [proc EXCEPT ![p] = r] /\ r \in Processes /\ proc'[p] = r
        /\ UNCHANGED <<lock, marker, handoff, hist, doomed, promised>>
        /\ crashes' \in 0..MaxCrashes /\ faults' \in 0..MaxFaults
    <3>1. proc' = [proc EXCEPT ![p] = r]
      BY <1>0, <1>3 DEF Respawn, Worker
    <3>2. r \in Processes
      BY <1>0 DEF Processes
    <3>3. /\ UNCHANGED <<lock, marker, handoff, hist, doomed, promised>>
          /\ crashes' \in 0..MaxCrashes /\ faults' \in 0..MaxFaults
      BY <1>0, <1>3 DEF Respawn, Types, disk, bounds
    <3> HIDE DEF r
    <3> QED
      BY <1>0, <3>1, <3>2, <3>3
  <2>2. proc[p].worker = "backoff"
    BY <1>0, <1>3 DEF Respawn, Worker
  <2>3. Owning(p)' <=> Owning(p)
    BY <1>0, <2>1, <2>2 DEF Owning, Is
  <2>4. Placed(p)'
    BY <1>0, <2>1, <2>2 DEF Each, Placed, Is, At, Hosting, Quitting, Hosts
  <2>5. Pending(p)'
    BY <1>0, <2>1, <2>2 DEF Each, Pending, Placed, Is, At, Hosting, Hosts
  <2>6. Clean(p)'
    BY <1>0, <2>1, <2>2 DEF Each, Clean, Global, Owning, Stores, At, Is
  <2>7. Doomed(p)'
    BY <1>0, <2>1, <2>2 DEF Each, Doomed, Placed, At
  <2> HIDE DEF r
  <2> QED
    BY <1>0, <2>1, <2>3, <2>4, <2>5, <2>6, <2>7, QuietInv
<1>4. CASE WorkerStops(p)
  <2> DEFINE r == [proc[p] EXCEPT !.worker = "none"]
  <2>1. /\ proc' = [proc EXCEPT ![p] = r] /\ r \in Processes /\ proc'[p] = r
        /\ UNCHANGED <<lock, marker, handoff, hist, doomed, promised>>
        /\ crashes' \in 0..MaxCrashes /\ faults' \in 0..MaxFaults
    <3>1. proc' = [proc EXCEPT ![p] = r]
      BY <1>0, <1>4 DEF WorkerStops, Worker
    <3>2. r \in Processes
      BY <1>0 DEF Processes
    <3>3. /\ UNCHANGED <<lock, marker, handoff, hist, doomed, promised>>
          /\ crashes' \in 0..MaxCrashes /\ faults' \in 0..MaxFaults
      BY <1>0, <1>4 DEF WorkerStops, Types, disk, bounds
    <3> HIDE DEF r
    <3> QED
      BY <1>0, <3>1, <3>2, <3>3
  <2>2. proc[p].worker \in {"idle", "backoff"}
    BY <1>0, <1>4 DEF WorkerStops, Worker
  <2>3. Owning(p)' <=> Owning(p)
    BY <1>0, <2>1, <2>2 DEF Owning, Is
  <2>4. Placed(p)'
    BY <1>0, <2>1, <2>2 DEF Each, Placed, Is, At, Hosting, Quitting, Hosts
  <2>5. Pending(p)'
    BY <1>0, <2>1, <2>2 DEF Each, Pending, Placed, Is, At, Hosting, Hosts
  <2>6. Clean(p)'
    BY <1>0, <2>1, <2>2 DEF Each, Clean, Global, Owning, Stores, At, Is
  <2>7. Doomed(p)'
    BY <1>0, <2>1, <2>2 DEF Each, Doomed, Placed, At
  <2> HIDE DEF r
  <2> QED
    BY <1>0, <2>1, <2>3, <2>4, <2>5, <2>6, <2>7, QuietInv
<1>5. CASE Overdue(p)
  <2> DEFINE r == [proc[p] EXCEPT !.worker = "none"]
  <2>1. /\ proc' = [proc EXCEPT ![p] = r] /\ r \in Processes /\ proc'[p] = r
        /\ UNCHANGED <<lock, marker, handoff, hist, doomed, promised>>
        /\ crashes' \in 0..MaxCrashes /\ faults' \in 0..MaxFaults
    <3>1. proc' = [proc EXCEPT ![p] = r]
      BY <1>0, <1>5 DEF Overdue, Worker
    <3>2. r \in Processes
      BY <1>0 DEF Processes
    <3>3. /\ UNCHANGED <<lock, marker, handoff, hist, doomed, promised>>
          /\ crashes' \in 0..MaxCrashes /\ faults' \in 0..MaxFaults
      BY <1>0, <1>5 DEF Overdue, Types, disk, bounds
    <3> HIDE DEF r
    <3> QED
      BY <1>0, <3>1, <3>2, <3>3
  <2>2. proc[p].worker = "inserting"
    BY <1>0, <1>5 DEF Overdue, Worker
  <2>3. Owning(p)' <=> Owning(p)
    BY <1>0, <2>1, <2>2 DEF Owning, Is
  <2>4. Placed(p)'
    BY <1>0, <2>1, <2>2 DEF Each, Placed, Is, At, Hosting, Quitting, Hosts
  <2>5. Pending(p)'
    BY <1>0, <2>1, <2>2 DEF Each, Pending, Placed, Is, At, Hosting, Hosts
  <2>6. Clean(p)'
    BY <1>0, <2>1, <2>2 DEF Each, Clean, Global, Owning, Stores, At, Is
  <2>7. Doomed(p)'
    BY <1>0, <2>1, <2>2 DEF Each, Doomed, Placed, At
  <2> HIDE DEF r
  <2> QED
    BY <1>0, <2>1, <2>3, <2>4, <2>5, <2>6, <2>7, QuietInv
<1> QED
  BY <1>1, <1>2, <1>3, <1>4, <1>5

\* On the way out, while nothing is purged or marked.
LEMMA QuietQuits ==
  ASSUME IInv, NEW p \in Procs, Stop(p) \/ Drained(p) \/ KeepHistory(p) \/ PurgeFails(p) \/ PurgeTimesOut(p)
  PROVE  IInv'
<1>0. /\ proc \in [Procs -> Processes] /\ proc[p] \in Processes /\ Types
      /\ Global /\ Each(p) /\ (Owning(p) <=> lock = p) /\ p # None
      /\ (Fault => faults' \in 0..MaxFaults /\ crashes' = crashes)
  BY OwnershipAssumption DEF IInv, TypeOK, Types, Procs, None, Fault
<1>1. CASE Stop(p)
  <2> DEFINE r == [proc[p] EXCEPT !.pc = "drain", !.stop = TRUE]
  <2>1. /\ proc' = [proc EXCEPT ![p] = r] /\ r \in Processes /\ proc'[p] = r
        /\ UNCHANGED <<lock, marker, handoff, hist, doomed, promised>>
        /\ crashes' \in 0..MaxCrashes /\ faults' \in 0..MaxFaults
    <3>1. proc' = [proc EXCEPT ![p] = r]
      BY <1>0, <1>1 DEF Stop, Goto, At, Is
    <3>2. r \in Processes
      BY <1>0 DEF Processes
    <3>3. /\ UNCHANGED <<lock, marker, handoff, hist, doomed, promised>>
          /\ crashes' \in 0..MaxCrashes /\ faults' \in 0..MaxFaults
      BY <1>0, <1>1 DEF Stop, Types, disk, bounds
    <3> HIDE DEF r
    <3> QED
      BY <1>0, <3>1, <3>2, <3>3
  <2>2. proc[p].pc = "serving"
    BY <1>0, <1>1 DEF Stop, At, Is
  <2>3. Owning(p)' <=> Owning(p)
    BY <1>0, <2>1, <2>2 DEF Owning, Is
  <2>4. Placed(p)'
    BY <1>0, <2>1, <2>2 DEF Each, Placed, Is, At, Hosting, Quitting, Hosts
  <2>5. Pending(p)'
    BY <1>0, <2>1, <2>2 DEF Each, Pending, Placed, Is, At, Hosting, Hosts
  <2>6. Clean(p)'
    BY <1>0, <2>1, <2>2 DEF Each, Clean, Global, Owning, Stores, At, Is
  <2>7. Doomed(p)'
    BY <1>0, <2>1, <2>2 DEF Each, Doomed, Placed, At
  <2> HIDE DEF r
  <2> QED
    BY <1>0, <2>1, <2>3, <2>4, <2>5, <2>6, <2>7, QuietInv
<1>2. CASE Drained(p)
  <2> DEFINE r == [proc[p] EXCEPT !.pc = IF At(p, "drain") THEN "quit" ELSE "exit"]
  <2>1. /\ proc' = [proc EXCEPT ![p] = r] /\ r \in Processes /\ proc'[p] = r
        /\ UNCHANGED <<lock, marker, handoff, hist, doomed, promised>>
        /\ crashes' \in 0..MaxCrashes /\ faults' \in 0..MaxFaults
    <3>1. proc' = [proc EXCEPT ![p] = r]
      BY <1>0, <1>2 DEF Drained, Goto, At
    <3>2. r \in Processes
      BY <1>0 DEF Processes
    <3>3. /\ UNCHANGED <<lock, marker, handoff, hist, doomed, promised>>
          /\ crashes' \in 0..MaxCrashes /\ faults' \in 0..MaxFaults
      BY <1>0, <1>2 DEF Drained, Types, disk, bounds
    <3> HIDE DEF r
    <3> QED
      BY <1>0, <3>1, <3>2, <3>3
  <2>2. proc[p].pc \in {"drain", "retreat"} /\ proc[p].worker = "none"
    BY <1>0, <1>2 DEF Drained
  <2>3. Owning(p)' <=> Owning(p)
    BY <1>0, <2>1, <2>2 DEF Owning, Is
  <2>4. Placed(p)'
    BY <1>0, <2>1, <2>2 DEF Each, Placed, Is, At, Hosting, Quitting, Hosts
  <2>5. Pending(p)'
    BY <1>0, <2>1, <2>2 DEF Each, Pending, Placed, Is, At, Hosting, Hosts
  <2>6. Clean(p)'
    BY <1>0, <2>1, <2>2 DEF Each, Clean, Global, Owning, Stores, At, Is
  <2>7. Doomed(p)'
    BY <1>0, <2>1, <2>2 DEF Each, Doomed, Placed, At
  <2> HIDE DEF r
  <2> QED
    BY <1>0, <2>1, <2>3, <2>4, <2>5, <2>6, <2>7, QuietInv
<1>3. CASE KeepHistory(p)
  <2> DEFINE r == [proc[p] EXCEPT !.pc = "exit"]
  <2>1. /\ proc' = [proc EXCEPT ![p] = r] /\ r \in Processes /\ proc'[p] = r
        /\ UNCHANGED <<lock, marker, handoff, hist, doomed, promised>>
        /\ crashes' \in 0..MaxCrashes /\ faults' \in 0..MaxFaults
    <3>1. proc' = [proc EXCEPT ![p] = r]
      BY <1>0, <1>3 DEF KeepHistory, Goto, At, Is
    <3>2. r \in Processes
      BY <1>0 DEF Processes
    <3>3. /\ UNCHANGED <<lock, marker, handoff, hist, doomed, promised>>
          /\ crashes' \in 0..MaxCrashes /\ faults' \in 0..MaxFaults
      BY <1>0, <1>3 DEF KeepHistory, Types, disk, bounds
    <3> HIDE DEF r
    <3> QED
      BY <1>0, <3>1, <3>2, <3>3
  <2>2. proc[p].pc = "quit"
    BY <1>0, <1>3 DEF KeepHistory, At, Is
  <2>3. Owning(p)' <=> Owning(p)
    BY <1>0, <2>1, <2>2 DEF Owning, Is
  <2>4. Placed(p)'
    BY <1>0, <2>1, <2>2 DEF Each, Placed, Is, At, Hosting, Quitting, Hosts
  <2>5. Pending(p)'
    BY <1>0, <2>1, <2>2 DEF Each, Pending, Placed, Is, At, Hosting, Hosts
  <2>6. Clean(p)'
    BY <1>0, <2>1, <2>2 DEF Each, Clean, Global, Owning, Stores, At, Is
  <2>7. Doomed(p)'
    BY <1>0, <2>1, <2>2 DEF Each, Doomed, Placed, At
  <2> HIDE DEF r
  <2> QED
    BY <1>0, <2>1, <2>3, <2>4, <2>5, <2>6, <2>7, QuietInv
<1>4. CASE PurgeFails(p)
  <2> DEFINE r == [proc[p] EXCEPT !.pc = "exit"]
  <2>1. /\ proc' = [proc EXCEPT ![p] = r] /\ r \in Processes /\ proc'[p] = r
        /\ UNCHANGED <<lock, marker, handoff, hist, doomed, promised>>
        /\ crashes' \in 0..MaxCrashes /\ faults' \in 0..MaxFaults
    <3>1. proc' = [proc EXCEPT ![p] = r]
      BY <1>0, <1>4 DEF PurgeFails, Goto, At, Is
    <3>2. r \in Processes
      BY <1>0 DEF Processes
    <3>3. /\ UNCHANGED <<lock, marker, handoff, hist, doomed, promised>>
          /\ crashes' \in 0..MaxCrashes /\ faults' \in 0..MaxFaults
      BY <1>0, <1>4 DEF PurgeFails, Types, disk, bounds
    <3> HIDE DEF r
    <3> QED
      BY <1>0, <3>1, <3>2, <3>3
  <2>2. proc[p].pc = "purge"
    BY <1>0, <1>4 DEF PurgeFails, At, Is
  <2>3. Owning(p)' <=> Owning(p)
    BY <1>0, <2>1, <2>2 DEF Owning, Is
  <2>4. Placed(p)'
    BY <1>0, <2>1, <2>2 DEF Each, Placed, Is, At, Hosting, Quitting, Hosts
  <2>5. Pending(p)'
    BY <1>0, <2>1, <2>2 DEF Each, Pending, Placed, Is, At, Hosting, Hosts
  <2>6. Clean(p)'
    BY <1>0, <2>1, <2>2 DEF Each, Clean, Global, Owning, Stores, At, Is
  <2>7. Doomed(p)'
    BY <1>0, <2>1, <2>2 DEF Each, Doomed, Placed, At
  <2> HIDE DEF r
  <2> QED
    BY <1>0, <2>1, <2>3, <2>4, <2>5, <2>6, <2>7, QuietInv
<1>5. CASE PurgeTimesOut(p)
  <2> DEFINE r == [proc[p] EXCEPT !.pc = "exit", !.sweep = TRUE]
  <2>1. /\ proc' = [proc EXCEPT ![p] = r] /\ r \in Processes /\ proc'[p] = r
        /\ UNCHANGED <<lock, marker, handoff, hist, doomed, promised>>
        /\ crashes' \in 0..MaxCrashes /\ faults' \in 0..MaxFaults
    <3>1. proc' = [proc EXCEPT ![p] = r]
      BY <1>0, <1>5 DEF PurgeTimesOut, Goto, At, Is
    <3>2. r \in Processes
      BY <1>0 DEF Processes
    <3>3. /\ UNCHANGED <<lock, marker, handoff, hist, doomed, promised>>
          /\ crashes' \in 0..MaxCrashes /\ faults' \in 0..MaxFaults
      BY <1>0, <1>5 DEF PurgeTimesOut, Types, disk, bounds
    <3> HIDE DEF r
    <3> QED
      BY <1>0, <3>1, <3>2, <3>3
  <2>2. proc[p].pc = "purge" /\ proc[p].resumable /\ proc[p].role = "desktop"
    BY <1>0, <1>5 DEF PurgeTimesOut, At, Is
  <2>3. Owning(p)' <=> Owning(p)
    BY <1>0, <2>1, <2>2 DEF Owning, Is
  <2>4. Placed(p)'
    BY <1>0, <2>1, <2>2 DEF Each, Placed, Is, At, Hosting, Quitting, Hosts
  <2>5. Pending(p)'
    BY <1>0, <2>1, <2>2 DEF Each, Pending, Placed, Is, At, Hosting, Hosts
  <2>6. Clean(p)'
    BY <1>0, <2>1, <2>2 DEF Each, Clean, Global, Owning, Stores, At, Is
  <2>7. Doomed(p)'
    BY <1>0, <2>1, <2>2 DEF Each, Doomed, Placed, At
  <2> HIDE DEF r
  <2> QED
    BY <1>0, <2>1, <2>3, <2>4, <2>5, <2>6, <2>7, QuietInv
<1> QED
  BY <1>1, <1>2, <1>3, <1>4, <1>5

\* A process ends: its lock is free, and of its entries nothing is asked any more.
\* A direct write may have stored one with its last step.
LEMMA EndingInv ==
  ASSUME IInv, NEW p \in Procs, NEW r \in Processes, proc' = [proc EXCEPT ![p] = r], Unlock(p),
         r.pc = "ended", r.role = "none", r.worker = "none", r.stop = proc[p].stop,
         ~r.sweep, ~r.resumable, r.stale = {}, r.job => proc[p].job /\ proc[p].stop,
         UNCHANGED <<marker, doomed>>,
         hist' = hist \/ (hist' = hist \cup {<<p, "early">>} /\ <<p, "early">> \notin doomed /\ ~marker),
         UNCHANGED <<handoff, promised>> \/ (handoff' = "none" /\ promised' = None),
         crashes' \in 0..MaxCrashes, faults' \in 0..MaxFaults
  PROVE  IInv'
<1>0. /\ proc \in [Procs -> Processes] /\ proc[p] \in Processes /\ Types
      /\ Global /\ Each(p) /\ (Owning(p) <=> lock = p) /\ p # None
      /\ (Fault => faults' \in 0..MaxFaults /\ crashes' = crashes)
  BY OwnershipAssumption DEF IInv, TypeOK, Types, Procs, None, Fault
<1>1. proc'[p] = r /\ lock' \in {lock, None} /\ lock' # p /\ (lock' # lock => lock = p)
  BY <1>0 DEF Unlock
<1>2. Types'
  BY <1>0, <1>1 DEF Types, Entries
<1>3. Frame(p)
  BY <1>0, <1>1 DEF Frame
<1>4. ~Owning(p)'
  BY <1>1 DEF Owning
<1>5. Placed(p)'
  BY <1>0, <1>1 DEF Each, Placed, At, Hosting, Quitting
<1>6. Pending(p)'
  BY <1>1 DEF Pending, At
<1>7. Clean(p)'
  <2>1. marker => Stores(p)' = Stores(p)
    BY DEF Stores
  <2> QED
    BY <1>0, <1>1, <2>1 DEF Each, Clean, At, Is
<1>8. Doomed(p)'
  BY <1>0, <1>1 DEF Each, Doomed, At
<1>9. Global'
  BY <1>0, <1>1 DEF Global
<1> QED
  BY <1>1, <1>2, <1>3, <1>4, <1>5, <1>6, <1>7, <1>8, <1>9, StepInv DEF Each

\* What is left of a process that ends.
LEMMA EndedIs ==
  ASSUME NEW p, proc[p] \in Processes
  PROVE  /\ Ended(p) \in Processes /\ Ended(p).pc = "ended" /\ Ended(p).role = "none"
         /\ Ended(p).worker = "none" /\ Ended(p).stop = proc[p].stop /\ ~Ended(p).sweep
         /\ ~Ended(p).resumable /\ Ended(p).stale = {} /\ ~Ended(p).job
<1>1. /\ Off \in Processes /\ Off.role = "none" /\ Off.worker = "none" /\ Off.stale = {}
      /\ ~Off.sweep /\ ~Off.resumable /\ ~Off.job
  BY DEF Off, Processes, Roles
<1>2. PICK o \in Processes, s \in BOOLEAN : o = Off /\ s = proc[p].stop
  BY <1>1 DEF Processes
<1>3. PICK e : e = Ended(p) /\ e = [o EXCEPT !.pc = "ended", !.stop = s]
  BY <1>2 DEF Ended
<1>4. e \in Processes
  BY <1>3 DEF Processes
<1>5. /\ e.pc = "ended" /\ e.role = o.role /\ e.worker = o.worker /\ e.stop = s /\ e.sweep = o.sweep
      /\ e.resumable = o.resumable /\ e.stale = o.stale /\ e.job = o.job
  BY <1>3 DEF Processes
<1> QED
  BY <1>1, <1>2, <1>3, <1>4, <1>5

\* The steps that end a process, whatever else they do.
LEMMA Endings ==
  ASSUME IInv, NEW p \in Procs, Ends(p),
         \/ GiveUp(p) \/ OpenFails(p) \/ FinishFails(p) \/ Crash(p) \/ Use(p)
         \/ (Refused(p) \/ Claim(p) \/ StartFails(p)) /\ UNCHANGED disk
  PROVE  IInv'
<1>0. /\ proc \in [Procs -> Processes] /\ proc[p] \in Processes /\ Types
      /\ Global /\ Each(p) /\ (Owning(p) <=> lock = p) /\ p # None
      /\ (Fault => faults' \in 0..MaxFaults /\ crashes' = crashes)
  BY OwnershipAssumption DEF IInv, TypeOK, Types, Procs, None, Fault
<1> DEFINE r == Ended(p)
<1>1. /\ r \in Processes /\ r.pc = "ended" /\ r.role = "none" /\ r.worker = "none"
      /\ r.stop = proc[p].stop /\ ~r.sweep /\ ~r.resumable /\ r.stale = {} /\ ~r.job
  BY <1>0, EndedIs
<1>2. proc' = [proc EXCEPT ![p] = r] /\ Unlock(p)
  BY DEF Ends
<1>3. UNCHANGED <<marker, doomed>>
  BY DEF GiveUp, OpenFails, FinishFails, Crash, Use, Refused, Claim, StartFails, disk
<1>4. hist' = hist \/ (hist' = hist \cup {<<p, "early">>} /\ <<p, "early">> \notin doomed /\ ~marker)
  <2>1. CASE Use(p) /\ Is(p, {"write"})
    <3>1. At(p, "using") /\ ~Is(p, {"read"}) /\ hist' = hist \cup {<<p, "early">>}
      BY <2>1 DEF Use, Is
    <3> QED
      BY <1>0, <3>1 DEF Each, Pending, Doomed, At
  <2>2. CASE ~(Use(p) /\ Is(p, {"write"}))
    BY <2>2 DEF GiveUp, OpenFails, FinishFails, Crash, Use, disk
  <2> QED
    BY <2>1, <2>2
<1>5. UNCHANGED <<handoff, promised>> \/ (handoff' = "none" /\ promised' = None)
  BY DEF GiveUp, Clears, OpenFails, FinishFails, Crash, Use, Refused, Claim, StartFails, disk
<1>6. crashes' \in 0..MaxCrashes /\ faults' \in 0..MaxFaults
  BY <1>0, OwnershipAssumption DEF Types, GiveUp, Clears, OpenFails, FinishFails, Crash, Use, Refused, Claim, StartFails, bounds
<1> HIDE DEF r
<1> QED
  BY <1>1, <1>2, <1>3, <1>4, <1>5, <1>6, EndingInv

\* A quit that reached its end; a daemon's blocking threads may outlive its lock.
LEMMA ExitInv ==
  ASSUME IInv, NEW p \in Procs, Exit(p)
  PROVE  IInv'
<1>0. /\ proc \in [Procs -> Processes] /\ proc[p] \in Processes /\ Types
      /\ Global /\ Each(p) /\ (Owning(p) <=> lock = p) /\ p # None
      /\ (Fault => faults' \in 0..MaxFaults /\ crashes' = crashes)
  BY OwnershipAssumption DEF IInv, TypeOK, Types, Procs, None, Fault
<1> DEFINE r == IF Is(p, {"daemon"}) THEN [Ended(p) EXCEPT !.job = proc[p].job, !.sweep = proc[p].sweep]
                ELSE Ended(p)
<1>1. proc[p].stop /\ (Is(p, {"daemon"}) => ~proc[p].sweep)
  BY <1>0 DEF Exit, At, Is, Each, Placed, Pending, Quitting
<1>2. /\ r \in Processes /\ r.pc = "ended" /\ r.role = "none" /\ r.worker = "none"
      /\ r.stop = proc[p].stop /\ ~r.sweep /\ ~r.resumable /\ r.stale = {}
      /\ (r.job => proc[p].job /\ proc[p].stop)
  <2>1. CASE Is(p, {"daemon"})
    <3>1. r = [Ended(p) EXCEPT !.job = proc[p].job, !.sweep = proc[p].sweep]
      BY <2>1
    <3> HIDE DEF r
    <3>2. PICK e \in Processes, j \in BOOLEAN, w \in BOOLEAN :
            e = Ended(p) /\ j = proc[p].job /\ w = proc[p].sweep
      BY <1>0, EndedIs DEF Processes
    <3>3. r = [e EXCEPT !.job = j, !.sweep = w]
      BY <3>1, <3>2
    <3>4. r \in Processes
      BY <3>3 DEF Processes
    <3>5. /\ r.pc = e.pc /\ r.role = e.role /\ r.worker = e.worker
          /\ r.stop = e.stop /\ r.sweep = w /\ r.resumable = e.resumable
          /\ r.stale = e.stale /\ r.job = j
      BY <3>3 DEF Processes
    <3> QED
      BY <1>0, <1>1, <2>1, <3>2, <3>4, <3>5, EndedIs
  <2>2. CASE ~Is(p, {"daemon"})
    <3>1. r = Ended(p)
      BY <2>2
    <3> HIDE DEF r
    <3> QED
      BY <1>0, <3>1 DEF Ended, Off, Processes, Roles
  <2> QED
    BY <2>1, <2>2
<1>3. proc' = [proc EXCEPT ![p] = r] /\ Unlock(p)
  BY DEF Exit
<1>4. UNCHANGED <<marker, handoff, hist, doomed, promised, crashes, faults>>
  BY DEF Exit, disk, bounds
<1> HIDE DEF r
<1> QED
  BY <1>0, <1>2, <1>3, <1>4, EndingInv DEF Types

\* The steps of a start that branch, as far as they leave the lock and the store alone.
LEMMA QuietStarts ==
  ASSUME IInv, NEW p \in Procs, Launch(p) \/ Look(p) \/ Start(p) \/ (StartFails(p) /\ ~Is(p, {"daemon"})) \/ (Refused(p) /\ At(p, "held") /\ handoff = "fresh")
  PROVE  IInv'
<1>0. /\ proc \in [Procs -> Processes] /\ proc[p] \in Processes /\ Types
      /\ Global /\ Each(p) /\ (Owning(p) <=> lock = p) /\ p # None
      /\ (Fault => faults' \in 0..MaxFaults /\ crashes' = crashes)
  BY OwnershipAssumption DEF IInv, TypeOK, Types, Procs, None, Fault
<1>1. CASE Launch(p)
  <2>0. PICK role \in Roles : proc' = [proc EXCEPT ![p].pc = "launch", ![p].role = role]
    BY <1>1 DEF Launch
  <2> DEFINE r == [proc[p] EXCEPT !.pc = "launch", !.role = role]
  <2>1. /\ proc' = [proc EXCEPT ![p] = r] /\ r \in Processes /\ proc'[p] = r
        /\ UNCHANGED <<lock, marker, handoff, hist, doomed, promised>>
        /\ crashes' \in 0..MaxCrashes /\ faults' \in 0..MaxFaults
    <3>1. proc' = [proc EXCEPT ![p] = r]
      BY <1>0, <1>1, <2>0 DEF Launch, disk
    <3>2. r \in Processes
      BY <1>0, <2>0 DEF Processes, Roles
    <3>3. /\ UNCHANGED <<lock, marker, handoff, hist, doomed, promised>>
          /\ crashes' \in 0..MaxCrashes /\ faults' \in 0..MaxFaults
      BY <1>0, <1>1 DEF Launch, Types, disk, bounds
    <3> HIDE DEF r
    <3> QED
      BY <1>0, <3>1, <3>2, <3>3
  <2>2. proc[p].pc = "off"
    BY <1>0, <1>1, <2>0 DEF Launch, IsNext, At
  <2>3. Owning(p)' <=> Owning(p)
    BY <1>0, <2>1, <2>2 DEF Owning, Is
  <2>4. Placed(p)'
    BY <1>0, <2>1, <2>2 DEF Each, Placed, Is, At, Hosting, Quitting, Hosts
  <2>5. Pending(p)'
    BY <1>0, <2>1, <2>2 DEF Each, Pending, Placed, Is, At, Hosting, Hosts
  <2>6. Clean(p)'
    BY <1>0, <2>1, <2>2 DEF Each, Clean, Global, Owning, Stores, At, Is
  <2>7. Doomed(p)'
    BY <1>0, <2>1, <2>2 DEF Each, Doomed, Placed, At
  <2> HIDE DEF r
  <2> QED
    BY <1>0, <2>1, <2>3, <2>4, <2>5, <2>6, <2>7, QuietInv DEF Types
<1>2. CASE Look(p) /\ ~marker
  <2> DEFINE r == [proc[p] EXCEPT !.pc = IF Is(p, Hosts) THEN "boot" ELSE "using", !.stale = doomed]
  <2>1. /\ proc' = [proc EXCEPT ![p] = r] /\ r \in Processes /\ proc'[p] = r
        /\ UNCHANGED <<lock, marker, handoff, hist, doomed, promised>>
        /\ crashes' \in 0..MaxCrashes /\ faults' \in 0..MaxFaults
    <3>1. proc' = [proc EXCEPT ![p] = r]
      BY <1>0, <1>2 DEF Look, Boot
    <3>2. r \in Processes
      BY <1>0 DEF Processes, Types
    <3>3. /\ UNCHANGED <<lock, marker, handoff, hist, doomed, promised>>
          /\ crashes' \in 0..MaxCrashes /\ faults' \in 0..MaxFaults
      BY <1>0, <1>2 DEF Look, Types, disk, bounds
    <3> HIDE DEF r
    <3> QED
      BY <1>0, <3>1, <3>2, <3>3
  <2>2. proc[p].pc = "opening" /\ ~marker /\ hist \cap doomed = {}
    BY <1>0, <1>2 DEF Look, At, Global
  <2>3. Owning(p)' <=> Owning(p)
    BY <1>0, <2>1, <2>2 DEF Owning, Is
  <2>4. Placed(p)'
    BY <1>0, <2>1, <2>2 DEF Each, Placed, Is, At, Hosting, Quitting, Hosts
  <2>5. Pending(p)'
    BY <1>0, <2>1, <2>2 DEF Each, Pending, Placed, Is, At, Hosting, Hosts
  <2>6. Clean(p)'
    BY <1>0, <2>1, <2>2 DEF Each, Clean, Global, Owning, Stores, At, Is
  <2>7. Doomed(p)'
    BY <1>0, <2>1, <2>2 DEF Each, Doomed, Placed, At
  <2> HIDE DEF r
  <2> QED
    BY <1>0, <2>1, <2>3, <2>4, <2>5, <2>6, <2>7, QuietInv DEF Types
<1>3. CASE Look(p) /\ marker /\ ~Is(p, {"read"})
  <2> DEFINE r == [proc[p] EXCEPT !.pc = "finish"]
  <2>1. /\ proc' = [proc EXCEPT ![p] = r] /\ r \in Processes /\ proc'[p] = r
        /\ UNCHANGED <<lock, marker, handoff, hist, doomed, promised>>
        /\ crashes' \in 0..MaxCrashes /\ faults' \in 0..MaxFaults
    <3>1. proc' = [proc EXCEPT ![p] = r]
      BY <1>0, <1>3 DEF Look, Goto, Is
    <3>2. r \in Processes
      BY <1>0 DEF Processes
    <3>3. /\ UNCHANGED <<lock, marker, handoff, hist, doomed, promised>>
          /\ crashes' \in 0..MaxCrashes /\ faults' \in 0..MaxFaults
      BY <1>0, <1>3 DEF Look, Types, disk, bounds
    <3> HIDE DEF r
    <3> QED
      BY <1>0, <3>1, <3>2, <3>3
  <2>2. proc[p].pc = "opening" /\ marker /\ proc[p].role # "read"
    BY <1>0, <1>3 DEF Look, At, Is
  <2>3. Owning(p)' <=> Owning(p)
    BY <1>0, <2>1, <2>2 DEF Owning, Is
  <2>4. Placed(p)'
    BY <1>0, <2>1, <2>2 DEF Each, Placed, Is, At, Hosting, Quitting, Hosts
  <2>5. Pending(p)'
    BY <1>0, <2>1, <2>2 DEF Each, Pending, Placed, Is, At, Hosting, Hosts
  <2>6. Clean(p)'
    BY <1>0, <2>1, <2>2 DEF Each, Clean, Global, Owning, Stores, At, Is
  <2>7. Doomed(p)'
    BY <1>0, <2>1, <2>2 DEF Each, Doomed, Placed, At
  <2> HIDE DEF r
  <2> QED
    BY <1>0, <2>1, <2>3, <2>4, <2>5, <2>6, <2>7, QuietInv DEF Types
<1>4. CASE Look(p) /\ marker /\ Is(p, {"read"})
  <2> DEFINE r == [proc[p] EXCEPT !.pc = "claim"]
  <2>1. /\ proc' = [proc EXCEPT ![p] = r] /\ r \in Processes /\ proc'[p] = r
        /\ UNCHANGED <<lock, marker, handoff, hist, doomed, promised>>
        /\ crashes' \in 0..MaxCrashes /\ faults' \in 0..MaxFaults
    <3>1. proc' = [proc EXCEPT ![p] = r]
      BY <1>0, <1>4 DEF Look, Goto, Is
    <3>2. r \in Processes
      BY <1>0 DEF Processes
    <3>3. /\ UNCHANGED <<lock, marker, handoff, hist, doomed, promised>>
          /\ crashes' \in 0..MaxCrashes /\ faults' \in 0..MaxFaults
      BY <1>0, <1>4 DEF Look, Types, disk, bounds
    <3> HIDE DEF r
    <3> QED
      BY <1>0, <3>1, <3>2, <3>3
  <2>2. proc[p].pc = "opening" /\ marker /\ proc[p].role = "read"
    BY <1>0, <1>4 DEF Look, At, Is
  <2>3. Owning(p)' <=> Owning(p)
    BY <1>0, <2>1, <2>2 DEF Owning, Is
  <2>4. Placed(p)'
    BY <1>0, <2>1, <2>2 DEF Each, Placed, Is, At, Hosting, Quitting, Hosts
  <2>5. Pending(p)'
    BY <1>0, <2>1, <2>2 DEF Each, Pending, Placed, Is, At, Hosting, Hosts
  <2>6. Clean(p)'
    BY <1>0, <2>1, <2>2 DEF Each, Clean, Global, Owning, Stores, At, Is
  <2>7. Doomed(p)'
    BY <1>0, <2>1, <2>2 DEF Each, Doomed, Placed, At
  <2> HIDE DEF r
  <2> QED
    BY <1>0, <2>1, <2>3, <2>4, <2>5, <2>6, <2>7, QuietInv DEF Types
<1>5. CASE Start(p)
  <2> DEFINE r == [proc[p] EXCEPT !.worker = "idle", !.pc = IF Is(p, {"daemon"}) THEN "binding" ELSE "serving"]
  <2>1. /\ proc' = [proc EXCEPT ![p] = r] /\ r \in Processes /\ proc'[p] = r
        /\ UNCHANGED <<lock, marker, handoff, hist, doomed, promised>>
        /\ crashes' \in 0..MaxCrashes /\ faults' \in 0..MaxFaults
    <3>1. proc' = [proc EXCEPT ![p] = r]
      BY <1>0, <1>5 DEF Start
    <3>2. r \in Processes
      BY <1>0 DEF Processes
    <3>3. /\ UNCHANGED <<lock, marker, handoff, hist, doomed, promised>>
          /\ crashes' \in 0..MaxCrashes /\ faults' \in 0..MaxFaults
      BY <1>0, <1>5 DEF Start, Types, disk, bounds
    <3> HIDE DEF r
    <3> QED
      BY <1>0, <3>1, <3>2, <3>3
  <2>2. proc[p].pc = "boot"
    BY <1>0, <1>5 DEF Start, At
  <2>3. Owning(p)' <=> Owning(p)
    BY <1>0, <2>1, <2>2 DEF Owning, Is
  <2>4. Placed(p)'
    BY <1>0, <2>1, <2>2 DEF Each, Placed, Is, At, Hosting, Quitting, Hosts
  <2>5. Pending(p)'
    BY <1>0, <2>1, <2>2 DEF Each, Pending, Placed, Is, At, Hosting, Hosts
  <2>6. Clean(p)'
    BY <1>0, <2>1, <2>2 DEF Each, Clean, Global, Owning, Stores, At, Is
  <2>7. Doomed(p)'
    BY <1>0, <2>1, <2>2 DEF Each, Doomed, Placed, At
  <2> HIDE DEF r
  <2> QED
    BY <1>0, <2>1, <2>3, <2>4, <2>5, <2>6, <2>7, QuietInv DEF Types
<1>6. CASE StartFails(p) /\ ~Is(p, {"daemon"})
  <2> DEFINE r == [proc[p] EXCEPT !.pc = "serving"]
  <2>1. /\ proc' = [proc EXCEPT ![p] = r] /\ r \in Processes /\ proc'[p] = r
        /\ UNCHANGED <<lock, marker, handoff, hist, doomed, promised>>
        /\ crashes' \in 0..MaxCrashes /\ faults' \in 0..MaxFaults
    <3>1. proc' = [proc EXCEPT ![p] = r]
      BY <1>0, <1>6 DEF StartFails, Goto
    <3>2. r \in Processes
      BY <1>0 DEF Processes
    <3>3. /\ UNCHANGED <<lock, marker, handoff, hist, doomed, promised>>
          /\ crashes' \in 0..MaxCrashes /\ faults' \in 0..MaxFaults
      BY <1>0, <1>6 DEF StartFails, Types, disk, bounds
    <3> HIDE DEF r
    <3> QED
      BY <1>0, <3>1, <3>2, <3>3
  <2>2. proc[p].pc = "boot"
    BY <1>0, <1>6 DEF StartFails, At
  <2>3. Owning(p)' <=> Owning(p)
    BY <1>0, <2>1, <2>2 DEF Owning, Is
  <2>4. Placed(p)'
    BY <1>0, <2>1, <2>2 DEF Each, Placed, Is, At, Hosting, Quitting, Hosts
  <2>5. Pending(p)'
    BY <1>0, <2>1, <2>2 DEF Each, Pending, Placed, Is, At, Hosting, Hosts
  <2>6. Clean(p)'
    BY <1>0, <2>1, <2>2 DEF Each, Clean, Global, Owning, Stores, At, Is
  <2>7. Doomed(p)'
    BY <1>0, <2>1, <2>2 DEF Each, Doomed, Placed, At
  <2> HIDE DEF r
  <2> QED
    BY <1>0, <2>1, <2>3, <2>4, <2>5, <2>6, <2>7, QuietInv DEF Types
<1>7. CASE Refused(p) /\ At(p, "held") /\ handoff = "fresh"
  <2> DEFINE r == [proc[p] EXCEPT !.pc = "wait"]
  <2>1. /\ proc' = [proc EXCEPT ![p] = r] /\ r \in Processes /\ proc'[p] = r
        /\ UNCHANGED <<lock, marker, handoff, hist, doomed, promised>>
        /\ crashes' \in 0..MaxCrashes /\ faults' \in 0..MaxFaults
    <3>1. proc' = [proc EXCEPT ![p] = r]
      BY <1>0, <1>7 DEF Refused, Goto
    <3>2. r \in Processes
      BY <1>0 DEF Processes
    <3>3. /\ UNCHANGED <<lock, marker, handoff, hist, doomed, promised>>
          /\ crashes' \in 0..MaxCrashes /\ faults' \in 0..MaxFaults
      BY <1>0, <1>7 DEF Refused, Types, disk, bounds
    <3> HIDE DEF r
    <3> QED
      BY <1>0, <3>1, <3>2, <3>3
  <2>2. proc[p].pc = "held"
    BY <1>0, <1>7 DEF At
  <2>3. Owning(p)' <=> Owning(p)
    BY <1>0, <2>1, <2>2 DEF Owning, Is
  <2>4. Placed(p)'
    BY <1>0, <2>1, <2>2 DEF Each, Placed, Is, At, Hosting, Quitting, Hosts
  <2>5. Pending(p)'
    BY <1>0, <2>1, <2>2 DEF Each, Pending, Placed, Is, At, Hosting, Hosts
  <2>6. Clean(p)'
    BY <1>0, <2>1, <2>2 DEF Each, Clean, Global, Owning, Stores, At, Is
  <2>7. Doomed(p)'
    BY <1>0, <2>1, <2>2 DEF Each, Doomed, Placed, At
  <2> HIDE DEF r
  <2> QED
    BY <1>0, <2>1, <2>3, <2>4, <2>5, <2>6, <2>7, QuietInv DEF Types
<1> QED
  BY <1>1, <1>2, <1>3, <1>4, <1>5, <1>6, <1>7

\* The lock is taken, or given back by a direct read once the purge is finished.
LEMMA TakesInv ==
  ASSUME IInv, NEW p \in Procs, Acquire(p) \/ (Claim(p) /\ lock = None) \/ Recheck(p) \/ FinishUnmarks(p)
  PROVE  IInv'
<1>0. /\ proc \in [Procs -> Processes] /\ proc[p] \in Processes /\ Types
      /\ Global /\ Each(p) /\ (Owning(p) <=> lock = p) /\ p # None
      /\ (Fault => faults' \in 0..MaxFaults /\ crashes' = crashes)
  BY OwnershipAssumption DEF IInv, TypeOK, Types, Procs, None, Fault
<1>1. CASE Acquire(p)
  <2> DEFINE r == [proc[p] EXCEPT !.pc = "opening"]
  <2>1. proc' = [proc EXCEPT ![p] = r] /\ r \in Processes /\ proc'[p] = r
    <3>1. proc' = [proc EXCEPT ![p] = r]
      BY <1>0, <1>1 DEF Acquire, Locks, Goto
    <3>2. r \in Processes
      BY <1>0 DEF Processes
    <3> HIDE DEF r
    <3> QED
      BY <1>0, <3>1, <3>2
  <2>2. /\ proc[p].pc \in {"launch", "wait"} /\ proc[p].role # "read"
        /\ lock = None /\ lock' = p
        /\ handoff' \in {"none", handoff}
        /\ crashes' = crashes /\ faults' \in 0..MaxFaults
        /\ UNCHANGED <<marker, hist, doomed, promised>>
    <3>1. Clears => handoff' \in {"none", handoff} /\ crashes' = crashes /\ faults' \in 0..MaxFaults
      BY <1>0 DEF Clears, Types, bounds
    <3>2. /\ handoff' \in {"none", handoff} /\ crashes' = crashes /\ faults' \in 0..MaxFaults
          /\ UNCHANGED <<marker, hist, doomed, promised>>
      BY <1>0, <1>1, <3>1 DEF Acquire, Types, bounds
    <3> QED
      BY <1>0, <1>1, <3>2 DEF Acquire, Locks, Each, Placed, Is, At
  <2>3. Types'
    BY <1>0, <2>2 DEF Types, Entries, Cleared
  <2>4. Frame(p)
    BY <1>0, <2>2 DEF Frame, Cleared
  <2>5. Owning(p)' <=> lock' = p
    BY <1>0, <2>1, <2>2 DEF Owning, Is, None
  <2>6. Placed(p)'
    BY <1>0, <2>1, <2>2 DEF Each, Placed, Is, At, Hosting, Quitting, Hosts
  <2>7. Pending(p)'
    BY <1>0, <2>1, <2>2 DEF Each, Pending, Placed, Is, At, Hosting, Hosts
  <2>8. Clean(p)'
    BY <1>0, <2>1, <2>2 DEF Each, Clean, Global, Stores, At, Is, Cleared
  <2>9. Doomed(p)'
    BY <1>0, <2>1, <2>2 DEF Each, Doomed, Placed, At, Cleared
  <2>10. Global'
    BY <1>0, <2>1, <2>2 DEF Each, Global, Clean, Placed, Quitting
  <2> HIDE DEF r
  <2> QED
    BY <2>1, <2>3, <2>4, <2>5, <2>6, <2>7, <2>8, <2>9, <2>10, StepInv DEF Each
<1>2. CASE Claim(p) /\ lock = None
  <2> DEFINE r == [proc[p] EXCEPT !.pc = "recheck"]
  <2>1. proc' = [proc EXCEPT ![p] = r] /\ r \in Processes /\ proc'[p] = r
    <3>1. proc' = [proc EXCEPT ![p] = r]
      BY <1>0, <1>2 DEF Claim, Goto
    <3>2. r \in Processes
      BY <1>0 DEF Processes
    <3> HIDE DEF r
    <3> QED
      BY <1>0, <3>1, <3>2
  <2>2. /\ proc[p].pc = "claim"
        /\ lock = None /\ lock' = p
        /\ UNCHANGED <<marker, handoff, hist, doomed, promised, crashes, faults>>
    BY <1>0, <1>2 DEF Claim, bounds, disk, At
  <2>3. Types'
    BY <1>0, <2>2 DEF Types, Entries, Cleared
  <2>4. Frame(p)
    BY <1>0, <2>2 DEF Frame, Cleared
  <2>5. Owning(p)' <=> lock' = p
    BY <1>0, <2>1, <2>2 DEF Owning, Is, None
  <2>6. Placed(p)'
    BY <1>0, <2>1, <2>2 DEF Each, Placed, Is, At, Hosting, Quitting, Hosts
  <2>7. Pending(p)'
    BY <1>0, <2>1, <2>2 DEF Each, Pending, Placed, Is, At, Hosting, Hosts
  <2>8. Clean(p)'
    BY <1>0, <2>1, <2>2 DEF Each, Clean, Global, Stores, At, Is, Cleared
  <2>9. Doomed(p)'
    BY <1>0, <2>1, <2>2 DEF Each, Doomed, Placed, At, Cleared
  <2>10. Global'
    BY <1>0, <2>1, <2>2 DEF Each, Global, Clean, Placed, Quitting
  <2> HIDE DEF r
  <2> QED
    BY <2>1, <2>3, <2>4, <2>5, <2>6, <2>7, <2>8, <2>9, <2>10, StepInv DEF Each
<1>3. CASE Recheck(p) /\ marker
  <2> DEFINE r == [proc[p] EXCEPT !.pc = "finish"]
  <2>1. proc' = [proc EXCEPT ![p] = r] /\ r \in Processes /\ proc'[p] = r
    <3>1. proc' = [proc EXCEPT ![p] = r]
      BY <1>0, <1>3 DEF Recheck, Goto
    <3>2. r \in Processes
      BY <1>0 DEF Processes
    <3> HIDE DEF r
    <3> QED
      BY <1>0, <3>1, <3>2
  <2>2. /\ proc[p].pc = "recheck" /\ marker /\ lock = p
        /\ UNCHANGED <<lock, marker, handoff, hist, doomed, promised, crashes, faults>>
    BY <1>0, <1>3 DEF Recheck, bounds, disk, At, Owning
  <2>3. Types'
    BY <1>0, <2>2 DEF Types, Entries, Cleared
  <2>4. Frame(p)
    BY <1>0, <2>2 DEF Frame, Cleared
  <2>5. Owning(p)' <=> lock' = p
    BY <1>0, <2>1, <2>2 DEF Owning, Is, None
  <2>6. Placed(p)'
    BY <1>0, <2>1, <2>2 DEF Each, Placed, Is, At, Hosting, Quitting, Hosts
  <2>7. Pending(p)'
    BY <1>0, <2>1, <2>2 DEF Each, Pending, Placed, Is, At, Hosting, Hosts
  <2>8. Clean(p)'
    BY <1>0, <2>1, <2>2 DEF Each, Clean, Global, Stores, At, Is, Cleared
  <2>9. Doomed(p)'
    BY <1>0, <2>1, <2>2 DEF Each, Doomed, Placed, At, Cleared
  <2>10. Global'
    BY <1>0, <2>1, <2>2 DEF Each, Global, Clean, Placed, Quitting
  <2> HIDE DEF r
  <2> QED
    BY <2>1, <2>3, <2>4, <2>5, <2>6, <2>7, <2>8, <2>9, <2>10, StepInv DEF Each
<1>4. CASE Recheck(p) /\ ~marker
  <2> DEFINE r == [proc[p] EXCEPT !.pc = IF Is(p, Hosts) THEN "boot" ELSE "using", !.stale = doomed]
  <2>1. proc' = [proc EXCEPT ![p] = r] /\ r \in Processes /\ proc'[p] = r
    <3>1. proc' = [proc EXCEPT ![p] = r]
      BY <1>0, <1>4 DEF Recheck, Finished, Boot
    <3>2. r \in Processes
      BY <1>0 DEF Processes, Types
    <3> HIDE DEF r
    <3> QED
      BY <1>0, <3>1, <3>2
  <2>2. /\ proc[p].pc = "recheck" /\ ~marker /\ lock = p
        /\ lock' = IF proc[p].role = "read" THEN None ELSE lock
        /\ hist \cap doomed = {}
        /\ UNCHANGED <<marker, handoff, hist, doomed, promised, crashes, faults>>
    BY <1>0, <1>4 DEF Recheck, Finished, Unlock, Global, bounds, disk, At, Is, Owning
  <2>3. Types'
    BY <1>0, <2>2 DEF Types, Entries, Cleared
  <2>4. Frame(p)
    BY <1>0, <2>2 DEF Frame, Cleared
  <2>5. Owning(p)' <=> lock' = p
    BY <1>0, <2>1, <2>2 DEF Owning, Is, None
  <2>6. Placed(p)'
    BY <1>0, <2>1, <2>2 DEF Each, Placed, Is, At, Hosting, Quitting, Hosts
  <2>7. Pending(p)'
    BY <1>0, <2>1, <2>2 DEF Each, Pending, Placed, Is, At, Hosting, Hosts
  <2>8. Clean(p)'
    BY <1>0, <2>1, <2>2 DEF Each, Clean, Global, Stores, At, Is, Cleared
  <2>9. Doomed(p)'
    BY <1>0, <2>1, <2>2 DEF Each, Doomed, Placed, At, Cleared
  <2>10. Global'
    BY <1>0, <2>1, <2>2 DEF Each, Global, Clean, Placed, Quitting
  <2> HIDE DEF r
  <2> QED
    BY <2>1, <2>3, <2>4, <2>5, <2>6, <2>7, <2>8, <2>9, <2>10, StepInv DEF Each
<1>5. CASE FinishUnmarks(p)
  <2> DEFINE r == [proc[p] EXCEPT !.pc = IF Is(p, Hosts) THEN "boot" ELSE "using", !.stale = doomed]
  <2>1. proc' = [proc EXCEPT ![p] = r] /\ r \in Processes /\ proc'[p] = r
    <3>1. proc' = [proc EXCEPT ![p] = r]
      BY <1>0, <1>5 DEF FinishUnmarks, Finished, Boot
    <3>2. r \in Processes
      BY <1>0 DEF Processes, Types
    <3> HIDE DEF r
    <3> QED
      BY <1>0, <3>1, <3>2
  <2>2. /\ proc[p].pc = "unmark" /\ lock = p
        /\ lock' = IF proc[p].role = "read" THEN None ELSE lock
        /\ hist \cap doomed = {} /\ marker' = FALSE
        /\ UNCHANGED <<handoff, hist, doomed, promised, crashes, faults>>
    BY <1>0, <1>5 DEF FinishUnmarks, Finished, Unlock, Each, Clean, bounds, disk, At, Is, Owning
  <2>3. Types'
    BY <1>0, <2>2 DEF Types, Entries, Cleared
  <2>4. Frame(p)
    BY <1>0, <2>2 DEF Frame, Cleared
  <2>5. Owning(p)' <=> lock' = p
    BY <1>0, <2>1, <2>2 DEF Owning, Is, None
  <2>6. Placed(p)'
    BY <1>0, <2>1, <2>2 DEF Each, Placed, Is, At, Hosting, Quitting, Hosts
  <2>7. Pending(p)'
    BY <1>0, <2>1, <2>2 DEF Each, Pending, Placed, Is, At, Hosting, Hosts
  <2>8. Clean(p)'
    BY <1>0, <2>1, <2>2 DEF Each, Clean, Global, Stores, At, Is, Cleared
  <2>9. Doomed(p)'
    BY <1>0, <2>1, <2>2 DEF Each, Doomed, Placed, At, Cleared
  <2>10. Global'
    BY <1>0, <2>1, <2>2 DEF Each, Global, Clean, Placed, Quitting
  <2> HIDE DEF r
  <2> QED
    BY <2>1, <2>3, <2>4, <2>5, <2>6, <2>7, <2>8, <2>9, <2>10, StepInv DEF Each
<1> QED
  BY <1>1, <1>2, <1>3, <1>4, <1>5

\* The history is emptied, or an entry lands in it.
LEMMA StoresInv ==
  ASSUME IInv, NEW p \in Procs, FinishPurge(p) \/ Purge(p) \/ Sweep(p) \/ JobLands(p)
  PROVE  IInv'
<1>0. /\ proc \in [Procs -> Processes] /\ proc[p] \in Processes /\ Types
      /\ Global /\ Each(p) /\ (Owning(p) <=> lock = p) /\ p # None
      /\ (Fault => faults' \in 0..MaxFaults /\ crashes' = crashes)
  BY OwnershipAssumption DEF IInv, TypeOK, Types, Procs, None, Fault
<1>1. CASE FinishPurge(p)
  <2> DEFINE r == [proc[p] EXCEPT !.pc = "unmark"]
  <2>1. proc' = [proc EXCEPT ![p] = r] /\ r \in Processes /\ proc'[p] = r
    <3>1. proc' = [proc EXCEPT ![p] = r]
      BY <1>0, <1>1 DEF FinishPurge, Goto
    <3>2. r \in Processes
      BY <1>0 DEF Processes
    <3> HIDE DEF r
    <3> QED
      BY <1>0, <3>1, <3>2
  <2>2. /\ proc[p].pc = "finish" /\ marker /\ lock = p
        /\ hist' = {}
        /\ UNCHANGED <<lock, marker, handoff, doomed, promised, crashes, faults>>
    BY <1>0, <1>1 DEF FinishPurge, bounds, Each, Pending, At, Owning
  <2>3. Types'
    BY <1>0, <2>2 DEF Types, Entries, Cleared
  <2>4. Frame(p)
    BY <1>0, <2>2 DEF Frame, Cleared
  <2>5. Owning(p)' <=> lock' = p
    BY <1>0, <2>1, <2>2 DEF Owning, Is, None
  <2>6. Placed(p)'
    BY <1>0, <2>1, <2>2 DEF Each, Placed, Is, At, Hosting, Quitting, Hosts
  <2>7. Pending(p)'
    BY <1>0, <2>1, <2>2 DEF Each, Pending, Placed, Is, At, Hosting, Hosts
  <2>8. Clean(p)'
    BY <1>0, <2>1, <2>2 DEF Each, Clean, Global, Stores, At, Is, Cleared
  <2>9. Doomed(p)'
    BY <1>0, <2>1, <2>2 DEF Each, Doomed, Placed, At, Cleared
  <2>10. Global'
    BY <1>0, <2>1, <2>2 DEF Each, Global, Clean, Placed, Quitting
  <2> HIDE DEF r
  <2> QED
    BY <2>1, <2>3, <2>4, <2>5, <2>6, <2>7, <2>8, <2>9, <2>10, StepInv DEF Each
<1>2. CASE Purge(p)
  <2> DEFINE r == [proc[p] EXCEPT !.pc = IF proc[p].resumable THEN "unmarkQuit" ELSE "exit"]
  <2>1. proc' = [proc EXCEPT ![p] = r] /\ r \in Processes /\ proc'[p] = r
    <3>1. proc' = [proc EXCEPT ![p] = r]
      BY <1>0, <1>2 DEF Purge, Goto
    <3>2. r \in Processes
      BY <1>0 DEF Processes
    <3> HIDE DEF r
    <3> QED
      BY <1>0, <3>1, <3>2
  <2>2. /\ proc[p].pc = "purge" /\ lock = p /\ proc[p].role # "read"
        /\ hist' = {} /\ doomed' \in {doomed, Cleared(p)}
        /\ UNCHANGED <<lock, marker, handoff, promised, crashes, faults>>
    BY <1>0, <1>2 DEF Purge, bounds, Each, Placed, Pending, Clean, Doomed, Owning, Is, At, Hosting, Quitting, Hosts
  <2>3. Types'
    BY <1>0, <2>2 DEF Types, Entries, Cleared
  <2>4. Frame(p)
    BY <1>0, <2>2 DEF Frame, Cleared
  <2>5. Owning(p)' <=> lock' = p
    BY <1>0, <2>1, <2>2 DEF Owning, Is, None
  <2>6. Placed(p)'
    BY <1>0, <2>1, <2>2 DEF Each, Placed, Is, At, Hosting, Quitting, Hosts
  <2>7. Pending(p)'
    BY <1>0, <2>1, <2>2 DEF Each, Pending, Placed, Is, At, Hosting, Hosts
  <2>8. Clean(p)'
    BY <1>0, <2>1, <2>2 DEF Each, Clean, Global, Stores, At, Is, Cleared
  <2>9. Doomed(p)'
    BY <1>0, <2>1, <2>2 DEF Each, Doomed, Placed, At, Cleared
  <2>10. Global'
    BY <1>0, <2>1, <2>2 DEF Each, Global, Clean, Placed, Quitting
  <2> HIDE DEF r
  <2> QED
    BY <2>1, <2>3, <2>4, <2>5, <2>6, <2>7, <2>8, <2>9, <2>10, StepInv DEF Each
<1>3. CASE Sweep(p)
  <2> DEFINE r == [proc[p] EXCEPT !.sweep = FALSE]
  <2>1. proc' = [proc EXCEPT ![p] = r] /\ r \in Processes /\ proc'[p] = r
    <3>1. proc' = [proc EXCEPT ![p] = r]
      BY <1>0, <1>3 DEF Sweep
    <3>2. r \in Processes
      BY <1>0 DEF Processes
    <3> HIDE DEF r
    <3> QED
      BY <1>0, <3>1, <3>2
  <2>2. /\ hist' = {}
        /\ UNCHANGED <<lock, marker, handoff, doomed, promised, crashes, faults>>
    BY <1>0, <1>3 DEF Sweep, bounds
  <2>3. Types'
    BY <1>0, <2>2 DEF Types, Entries, Cleared
  <2>4. Frame(p)
    BY <1>0, <2>2 DEF Frame, Cleared
  <2>5. Owning(p)' <=> lock' = p
    BY <1>0, <2>1, <2>2 DEF Owning, Is, None
  <2>6. Placed(p)'
    BY <1>0, <2>1, <2>2 DEF Each, Placed, Is, At, Hosting, Quitting, Hosts
  <2>7. Pending(p)'
    BY <1>0, <2>1, <2>2 DEF Each, Pending, Placed, Is, At, Hosting, Hosts
  <2>8. Clean(p)'
    BY <1>0, <2>1, <2>2 DEF Each, Clean, Global, Stores, At, Is, Cleared
  <2>9. Doomed(p)'
    BY <1>0, <2>1, <2>2 DEF Each, Doomed, Placed, At, Cleared
  <2>10. Global'
    BY <1>0, <2>1, <2>2 DEF Each, Global, Clean, Placed, Quitting
  <2> HIDE DEF r
  <2> QED
    BY <2>1, <2>3, <2>4, <2>5, <2>6, <2>7, <2>8, <2>9, <2>10, StepInv DEF Each
<1>4. CASE JobLands(p)
  <2> DEFINE r == [proc[p] EXCEPT !.job = FALSE, !.worker = IF @ = "inserting" THEN "idle" ELSE @]
  <2>1. proc' = [proc EXCEPT ![p] = r] /\ r \in Processes /\ proc'[p] = r
    <3>1. proc' = [proc EXCEPT ![p] = r]
      BY <1>0, <1>4 DEF JobLands
    <3>2. r \in Processes
      BY <1>0 DEF Processes
    <3> HIDE DEF r
    <3> QED
      BY <1>0, <3>1, <3>2
  <2>2. /\ proc[p].job /\ (<<p, "late">> \notin hist \cup doomed) /\ (At(p, "ended") \/ (lock = p /\ proc[p].role # "read"))
        /\ marker => proc[p].stop
        /\ hist' = hist \cup {<<p, IF <<p, "early">> \in doomed THEN "late" ELSE "early">>}
        /\ hist' \cap doomed \subseteq hist
        /\ UNCHANGED <<lock, marker, handoff, doomed, promised, crashes, faults>>
    BY <1>0, <1>4 DEF JobLands, bounds, Each, Placed, Pending, Clean, Doomed, Owning, Is, At, Hosting, Quitting, Hosts
  <2>3. Types'
    BY <1>0, <2>2 DEF Types, Entries, Cleared
  <2>4. Frame(p)
    BY <1>0, <2>2 DEF Frame, Cleared
  <2>5. Owning(p)' <=> lock' = p
    BY <1>0, <2>1, <2>2 DEF Owning, Is, None
  <2>6. Placed(p)'
    BY <1>0, <2>1, <2>2 DEF Each, Placed, Is, At, Hosting, Quitting, Hosts
  <2>7. Pending(p)'
    BY <1>0, <2>1, <2>2 DEF Each, Pending, Placed, Is, At, Hosting, Hosts
  <2>8. Clean(p)'
    BY <1>0, <2>1, <2>2 DEF Each, Clean, Global, Stores, At, Is, Cleared
  <2>9. Doomed(p)'
    BY <1>0, <2>1, <2>2 DEF Each, Doomed, Placed, At, Cleared
  <2>10. Global'
    BY <1>0, <2>1, <2>2 DEF Each, Global, Clean, Placed, Quitting
  <2> HIDE DEF r
  <2> QED
    BY <2>1, <2>3, <2>4, <2>5, <2>6, <2>7, <2>8, <2>9, <2>10, StepInv DEF Each
<1> QED
  BY <1>1, <1>2, <1>3, <1>4

\* A restart is announced, a purge is left pending, or its marker is removed.
LEMMA AsksInv ==
  ASSUME IInv, NEW p \in Procs, Restart(p) \/ MarkPending(p) \/ QuitUnmarks(p)
  PROVE  IInv'
<1>0. /\ proc \in [Procs -> Processes] /\ proc[p] \in Processes /\ Types
      /\ Global /\ Each(p) /\ (Owning(p) <=> lock = p) /\ p # None
      /\ (Fault => faults' \in 0..MaxFaults /\ crashes' = crashes)
  BY OwnershipAssumption DEF IInv, TypeOK, Types, Procs, None, Fault
<1>1. CASE Restart(p) /\ ~Fault
  <2> DEFINE r == [proc[p] EXCEPT !.pc = "drain", !.stop = TRUE, !.heir = TRUE]
  <2>1. proc' = [proc EXCEPT ![p] = r] /\ r \in Processes /\ proc'[p] = r
    <3>1. proc' = [proc EXCEPT ![p] = r]
      BY <1>0, <1>1 DEF Restart
    <3>2. r \in Processes
      BY <1>0 DEF Processes
    <3> HIDE DEF r
    <3> QED
      BY <1>0, <3>1, <3>2
  <2>2. /\ proc[p].pc = "serving" /\ proc[p].role = "desktop" /\ lock = p
        /\ handoff' = "fresh" /\ promised' = p
        /\ UNCHANGED <<lock, marker, hist, doomed, crashes, faults>>
    BY <1>0, <1>1 DEF Restart, bounds, At, Is, Owning
  <2>3. Types'
    BY <1>0, <2>2 DEF Types, Entries, Cleared
  <2>4. Frame(p)
    BY <1>0, <2>2 DEF Frame, Cleared
  <2>5. Owning(p)' <=> lock' = p
    BY <1>0, <2>1, <2>2 DEF Owning, Is, None
  <2>6. Placed(p)'
    BY <1>0, <2>1, <2>2 DEF Each, Placed, Is, At, Hosting, Quitting, Hosts
  <2>7. Pending(p)'
    BY <1>0, <2>1, <2>2 DEF Each, Pending, Placed, Is, At, Hosting, Hosts
  <2>8. Clean(p)'
    BY <1>0, <2>1, <2>2 DEF Each, Clean, Global, Stores, At, Is, Cleared
  <2>9. Doomed(p)'
    BY <1>0, <2>1, <2>2 DEF Each, Doomed, Placed, At, Cleared
  <2>10. Global'
    BY <1>0, <2>1, <2>2 DEF Each, Global, Clean, Placed, Quitting
  <2> HIDE DEF r
  <2> QED
    BY <2>1, <2>3, <2>4, <2>5, <2>6, <2>7, <2>8, <2>9, <2>10, StepInv DEF Each
<1>2. CASE Restart(p) /\ Fault
  <2> DEFINE r == [proc[p] EXCEPT !.pc = "drain", !.stop = TRUE, !.heir = TRUE]
  <2>1. proc' = [proc EXCEPT ![p] = r] /\ r \in Processes /\ proc'[p] = r
    <3>1. proc' = [proc EXCEPT ![p] = r]
      BY <1>0, <1>2 DEF Restart
    <3>2. r \in Processes
      BY <1>0 DEF Processes
    <3> HIDE DEF r
    <3> QED
      BY <1>0, <3>1, <3>2
  <2>2. /\ proc[p].pc = "serving" /\ proc[p].role = "desktop" /\ lock = p
        /\ (handoff' = "fresh" /\ promised' = p) \/ UNCHANGED <<handoff, promised>>
        /\ crashes' = crashes /\ faults' \in 0..MaxFaults
        /\ UNCHANGED <<lock, marker, hist, doomed>>
    BY <1>0, <1>2 DEF Restart, At, Is, Owning
  <2>3. Types'
    BY <1>0, <2>2 DEF Types, Entries, Cleared
  <2>4. Frame(p)
    BY <1>0, <2>2 DEF Frame, Cleared
  <2>5. Owning(p)' <=> lock' = p
    BY <1>0, <2>1, <2>2 DEF Owning, Is, None
  <2>6. Placed(p)'
    BY <1>0, <2>1, <2>2 DEF Each, Placed, Is, At, Hosting, Quitting, Hosts
  <2>7. Pending(p)'
    BY <1>0, <2>1, <2>2 DEF Each, Pending, Placed, Is, At, Hosting, Hosts
  <2>8. Clean(p)'
    BY <1>0, <2>1, <2>2 DEF Each, Clean, Global, Stores, At, Is, Cleared
  <2>9. Doomed(p)'
    BY <1>0, <2>1, <2>2 DEF Each, Doomed, Placed, At, Cleared
  <2>10. Global'
    BY <1>0, <2>1, <2>2 DEF Each, Global, Clean, Placed, Quitting
  <2> HIDE DEF r
  <2> QED
    BY <2>1, <2>3, <2>4, <2>5, <2>6, <2>7, <2>8, <2>9, <2>10, StepInv DEF Each
<1>3. CASE MarkPending(p) /\ ~Fault
  <2> DEFINE r == [proc[p] EXCEPT !.pc = "purge", !.resumable = TRUE]
  <2>1. proc' = [proc EXCEPT ![p] = r] /\ r \in Processes /\ proc'[p] = r
    <3>1. proc' = [proc EXCEPT ![p] = r]
      BY <1>0, <1>3 DEF MarkPending
    <3>2. r \in Processes
      BY <1>0 DEF Processes
    <3> HIDE DEF r
    <3> QED
      BY <1>0, <3>1, <3>2
  <2>2. /\ proc[p].pc = "quit" /\ lock = p /\ proc[p].worker = "none"
        /\ marker' = TRUE /\ doomed' = Cleared(p)
        /\ UNCHANGED <<lock, handoff, hist, promised, crashes, faults>>
    BY <1>0, <1>3 DEF MarkPending, bounds, Each, Placed, Pending, Clean, Doomed, Owning, Is, At, Hosting, Quitting, Hosts
  <2>3. Types'
    BY <1>0, <2>2 DEF Types, Entries, Cleared
  <2>4. Frame(p)
    BY <1>0, <2>2 DEF Frame, Cleared
  <2>5. Owning(p)' <=> lock' = p
    BY <1>0, <2>1, <2>2 DEF Owning, Is, None
  <2>6. Placed(p)'
    BY <1>0, <2>1, <2>2 DEF Each, Placed, Is, At, Hosting, Quitting, Hosts
  <2>7. Pending(p)'
    BY <1>0, <2>1, <2>2 DEF Each, Pending, Placed, Is, At, Hosting, Hosts
  <2>8. Clean(p)'
    BY <1>0, <2>1, <2>2 DEF Each, Clean, Global, Stores, At, Is, Cleared
  <2>9. Doomed(p)'
    BY <1>0, <2>1, <2>2 DEF Each, Doomed, Placed, At, Cleared
  <2>10. Global'
    BY <1>0, <2>1, <2>2 DEF Each, Global, Clean, Placed, Quitting
  <2> HIDE DEF r
  <2> QED
    BY <2>1, <2>3, <2>4, <2>5, <2>6, <2>7, <2>8, <2>9, <2>10, StepInv DEF Each
<1>4. CASE MarkPending(p) /\ Fault
  <2> DEFINE r == [proc[p] EXCEPT !.pc = "purge"]
  <2>1. proc' = [proc EXCEPT ![p] = r] /\ r \in Processes /\ proc'[p] = r
    <3>1. proc' = [proc EXCEPT ![p] = r]
      BY <1>0, <1>4 DEF MarkPending, Goto, Fault, Types, bounds
    <3>2. r \in Processes
      BY <1>0 DEF Processes
    <3> HIDE DEF r
    <3> QED
      BY <1>0, <3>1, <3>2
  <2>2. /\ proc[p].pc = "quit" /\ lock = p /\ ~proc[p].resumable
        /\ crashes' = crashes /\ faults' \in 0..MaxFaults
        /\ UNCHANGED <<lock, marker, handoff, hist, doomed, promised>>
    BY <1>0, <1>4 DEF MarkPending, Fault, Types, bounds, Each, Placed, Pending, Clean, Doomed, Owning, Is, At, Hosting, Quitting, Hosts
  <2>3. Types'
    BY <1>0, <2>2 DEF Types, Entries, Cleared
  <2>4. Frame(p)
    BY <1>0, <2>2 DEF Frame, Cleared
  <2>5. Owning(p)' <=> lock' = p
    BY <1>0, <2>1, <2>2 DEF Owning, Is, None
  <2>6. Placed(p)'
    BY <1>0, <2>1, <2>2 DEF Each, Placed, Is, At, Hosting, Quitting, Hosts
  <2>7. Pending(p)'
    BY <1>0, <2>1, <2>2 DEF Each, Pending, Placed, Is, At, Hosting, Hosts
  <2>8. Clean(p)'
    BY <1>0, <2>1, <2>2 DEF Each, Clean, Global, Stores, At, Is, Cleared
  <2>9. Doomed(p)'
    BY <1>0, <2>1, <2>2 DEF Each, Doomed, Placed, At, Cleared
  <2>10. Global'
    BY <1>0, <2>1, <2>2 DEF Each, Global, Clean, Placed, Quitting
  <2> HIDE DEF r
  <2> QED
    BY <2>1, <2>3, <2>4, <2>5, <2>6, <2>7, <2>8, <2>9, <2>10, StepInv DEF Each
<1>5. CASE QuitUnmarks(p) /\ marker' = FALSE
  <2> DEFINE r == [proc[p] EXCEPT !.pc = "exit"]
  <2>1. proc' = [proc EXCEPT ![p] = r] /\ r \in Processes /\ proc'[p] = r
    <3>1. proc' = [proc EXCEPT ![p] = r]
      BY <1>0, <1>5 DEF QuitUnmarks, Goto
    <3>2. r \in Processes
      BY <1>0 DEF Processes
    <3> HIDE DEF r
    <3> QED
      BY <1>0, <3>1, <3>2
  <2>2. /\ proc[p].pc = "unmarkQuit" /\ lock = p /\ ~proc[p].sweep /\ hist \cap doomed = {}
        /\ marker' = FALSE
        /\ crashes' = crashes /\ faults' \in 0..MaxFaults
        /\ UNCHANGED <<lock, handoff, hist, doomed, promised>>
    BY <1>0, <1>5 DEF QuitUnmarks, bounds, Types, Each, Placed, Pending, Clean, Doomed, Owning, Is, At, Hosting, Quitting, Hosts
  <2>3. Types'
    BY <1>0, <2>2 DEF Types, Entries, Cleared
  <2>4. Frame(p)
    BY <1>0, <2>2 DEF Frame, Cleared
  <2>5. Owning(p)' <=> lock' = p
    BY <1>0, <2>1, <2>2 DEF Owning, Is, None
  <2>6. Placed(p)'
    BY <1>0, <2>1, <2>2 DEF Each, Placed, Is, At, Hosting, Quitting, Hosts
  <2>7. Pending(p)'
    BY <1>0, <2>1, <2>2 DEF Each, Pending, Placed, Is, At, Hosting, Hosts
  <2>8. Clean(p)'
    BY <1>0, <2>1, <2>2 DEF Each, Clean, Global, Stores, At, Is, Cleared
  <2>9. Doomed(p)'
    BY <1>0, <2>1, <2>2 DEF Each, Doomed, Placed, At, Cleared
  <2>10. Global'
    BY <1>0, <2>1, <2>2 DEF Each, Global, Clean, Placed, Quitting
  <2> HIDE DEF r
  <2> QED
    BY <2>1, <2>3, <2>4, <2>5, <2>6, <2>7, <2>8, <2>9, <2>10, StepInv DEF Each
<1>6. CASE QuitUnmarks(p) /\ UNCHANGED marker
  <2> DEFINE r == [proc[p] EXCEPT !.pc = "exit"]
  <2>1. proc' = [proc EXCEPT ![p] = r] /\ r \in Processes /\ proc'[p] = r
    <3>1. proc' = [proc EXCEPT ![p] = r]
      BY <1>0, <1>6 DEF QuitUnmarks, Goto
    <3>2. r \in Processes
      BY <1>0 DEF Processes
    <3> HIDE DEF r
    <3> QED
      BY <1>0, <3>1, <3>2
  <2>2. /\ proc[p].pc = "unmarkQuit" /\ lock = p /\ ~proc[p].sweep /\ hist \cap doomed = {}
        /\ crashes' = crashes /\ faults' \in 0..MaxFaults
        /\ UNCHANGED <<lock, marker, handoff, hist, doomed, promised>>
    BY <1>0, <1>6 DEF QuitUnmarks, bounds, Types, Each, Placed, Pending, Clean, Doomed, Owning, Is, At, Hosting, Quitting, Hosts
  <2>3. Types'
    BY <1>0, <2>2 DEF Types, Entries, Cleared
  <2>4. Frame(p)
    BY <1>0, <2>2 DEF Frame, Cleared
  <2>5. Owning(p)' <=> lock' = p
    BY <1>0, <2>1, <2>2 DEF Owning, Is, None
  <2>6. Placed(p)'
    BY <1>0, <2>1, <2>2 DEF Each, Placed, Is, At, Hosting, Quitting, Hosts
  <2>7. Pending(p)'
    BY <1>0, <2>1, <2>2 DEF Each, Pending, Placed, Is, At, Hosting, Hosts
  <2>8. Clean(p)'
    BY <1>0, <2>1, <2>2 DEF Each, Clean, Global, Stores, At, Is, Cleared
  <2>9. Doomed(p)'
    BY <1>0, <2>1, <2>2 DEF Each, Doomed, Placed, At, Cleared
  <2>10. Global'
    BY <1>0, <2>1, <2>2 DEF Each, Global, Clean, Placed, Quitting
  <2> HIDE DEF r
  <2> QED
    BY <2>1, <2>3, <2>4, <2>5, <2>6, <2>7, <2>8, <2>9, <2>10, StepInv DEF Each
<1> QED
  BY <1>1, <1>2, <1>3, <1>4, <1>5, <1>6 DEF QuitUnmarks

\* Two processes move: the one that exits, and the heir it spawns.
LEMMA SpawnHeirInv ==
  ASSUME IInv, NEW p \in Procs, SpawnHeir(p)
  PROVE  IInv'
<1>0. /\ proc \in [Procs -> Processes] /\ proc[p] \in Processes /\ Types
      /\ Global /\ Each(p) /\ (Owning(p) <=> lock = p) /\ p # None
      /\ (Fault => faults' \in 0..MaxFaults /\ crashes' = crashes)
  BY OwnershipAssumption DEF IInv, TypeOK, Types, Procs, None, Fault
<1>1. PICK h \in Procs :
        /\ IsNext(h)
        /\ proc' = [proc EXCEPT ![p].heir = FALSE,
                      ![h] = [@ EXCEPT !.pc = "launch", !.role = "desktop", !.from = p]]
  BY DEF SpawnHeir
<1>2. proc[h].pc = "off" /\ proc[p].pc = "exit" /\ h # p
  BY <1>1 DEF SpawnHeir, IsNext, At
<1>3. UNCHANGED <<lock, marker, handoff, hist, doomed, promised, crashes, faults>>
  BY DEF SpawnHeir, disk, bounds
<1>4. Each(h) /\ proc[h] \in Processes /\ (Owning(h) <=> lock = h)
  BY <1>0 DEF IInv, TypeOK
<1>5. /\ proc'[p] = [proc[p] EXCEPT !.heir = FALSE]
      /\ proc'[h] = [proc[h] EXCEPT !.pc = "launch", !.role = "desktop", !.from = p]
      /\ \A q \in Procs : q \notin {p, h} => proc'[q] = proc[q]
  BY <1>0, <1>1, <1>2
<1>6. proc' \in [Procs -> Processes]
  <2>1. [proc[p] EXCEPT !.heir = FALSE] \in Processes
    BY <1>0 DEF Processes
  <2>2. [proc[h] EXCEPT !.pc = "launch", !.role = "desktop", !.from = p] \in Processes
    BY <1>4 DEF Processes, Roles, Hosts
  <2>3. DOMAIN proc' = Procs /\ proc' = [q \in Procs |-> proc'[q]]
    BY <1>0, <1>1
  <2>4. \A q \in Procs : proc'[q] \in Processes
    BY <1>0, <1>5, <2>1, <2>2
  <2> QED
    BY <2>3, <2>4
<1>7. Each(p)' /\ (Owning(p)' <=> lock' = p)
  BY <1>0, <1>3, <1>5 DEF Each, Placed, Pending, Clean, Doomed, Owning, At, Is, Stores
<1>8. Each(h)' /\ (Owning(h)' <=> lock' = h)
  BY <1>2, <1>3, <1>4, <1>5
     DEF Each, Placed, Pending, Clean, Doomed, Owning, At, Is, Stores, Hosting, Quitting
<1>9. ASSUME NEW q \in Procs, q \notin {p, h} PROVE Each(q)' /\ (Owning(q)' <=> lock' = q)
  <2>1. Each(q) /\ (Owning(q) <=> lock = q) /\ proc'[q] = proc[q]
    BY <1>5, <1>9 DEF IInv, TypeOK
  <2> QED
    BY <1>3, <2>1 DEF Each, Placed, Pending, Clean, Doomed, Owning, At, Is, Stores
<1>10. TypeOK'
  BY <1>0, <1>3, <1>6, <1>7, <1>8, <1>9 DEF TypeOK, Types
<1>11. Global'
  BY <1>0, <1>3 DEF Global
<1> QED
  BY <1>7, <1>8, <1>9, <1>10, <1>11 DEF IInv

\* The restart marker grows too old, or nothing happens at all.
LEMMA NoProcessMoves ==
  ASSUME IInv, MarkerAges \/ UNCHANGED vars
  PROVE  IInv'
<1>1. UNCHANGED <<lock, marker, hist, proc, doomed, crashes, faults>>
  BY DEF MarkerAges, vars, bounds
<1>2. UNCHANGED <<handoff, promised>> \/ (handoff' = "stale" /\ promised' = None)
  BY DEF MarkerAges, vars
<1>3. TypeOK'
  BY <1>1, <1>2 DEF IInv, TypeOK, Owning, Is
<1>4. Global'
  BY <1>1, <1>2 DEF IInv, Global
<1>5. ASSUME NEW q \in Procs PROVE Each(q)'
  <2>1. Each(q) /\ q # None
    BY DEF IInv, Procs, None
  <2> QED
    BY <1>1, <1>2, <2>1 DEF Each, Placed, Pending, Clean, Doomed, At, Is, Stores
<1> QED
  BY <1>3, <1>4, <1>5 DEF IInv

-----------------------------------------------------------------------------
(* The invariant is inductive. *)

\* Before anything is launched.
LEMMA InitInv == Init => IInv
<1> SUFFICES ASSUME Init PROVE IInv
  OBVIOUS
<1>1. \A p \in Procs : proc[p] = Off /\ p # None
  BY DEF Init, Procs, None
<1>2. Off \in Processes
  BY DEF Off, Processes
<1>3. TypeOK
  <2>1. proc \in [Procs -> Processes]
    BY <1>2 DEF Init
  <2>2. \A p \in Procs : ~Owning(p) /\ lock # p
    BY <1>1 DEF Init, Off, Owning
  <2>3. 0 \in 0..MaxCrashes /\ 0 \in 0..MaxFaults
    BY OwnershipAssumption
  <2>4. Types
    BY <2>3 DEF Init, Types
  <2> QED
    BY <2>1, <2>2, <2>4 DEF TypeOK, Types
<1>4. \A p \in Procs : Each(p)
  BY <1>1 DEF Init, Off, Each, Placed, Pending, Clean, Doomed, At, Is, Stores, Hosting, Quitting
<1> QED
  BY <1>3, <1>4 DEF IInv, Global, Init

\* Every step of every process, and none.
LEMMA NextInv == IInv /\ [Next]_vars => IInv'
<1> SUFFICES ASSUME IInv, [Next]_vars PROVE IInv'
  OBVIOUS
<1>1. CASE MarkerAges \/ UNCHANGED vars
  BY <1>1, NoProcessMoves
<1>2. CASE \E p \in Procs : Launch(p) \/ Opens(p) \/ Works(p) \/ Stop(p) \/ Restart(p) \/ Quits(p)
                              \/ Sweep(p) \/ Crash(p)
  <2>1. PICK p \in Procs : Launch(p) \/ Opens(p) \/ Works(p) \/ Stop(p) \/ Restart(p) \/ Quits(p)
                            \/ Sweep(p) \/ Crash(p)
    BY <1>2
  <2>2. CASE Opens(p)
    <3>1. CASE Held(p) \/ ReadOpens(p) \/ Bound(p) \/ BindFails(p)
      BY <3>1, QuietOpens
    <3>2. CASE Refused(p)
      <4>1. CASE At(p, "held") /\ handoff = "fresh"
        BY <3>2, <4>1, QuietStarts
      <4>2. CASE ~(At(p, "held") /\ handoff = "fresh")
        BY <3>2, <4>2, Endings DEF Refused
      <4> QED
        BY <4>1, <4>2
    <3>3. CASE Claim(p)
      <4>1. CASE lock = None
        BY <3>3, <4>1, TakesInv
      <4>2. CASE lock # None
        BY <3>3, <4>2, Endings DEF Claim
      <4> QED
        BY <4>1, <4>2
    <3>4. CASE StartFails(p)
      <4>1. CASE Is(p, {"daemon"})
        BY <3>4, <4>1, Endings DEF StartFails
      <4>2. CASE ~Is(p, {"daemon"})
        BY <3>4, <4>2, QuietStarts
      <4> QED
        BY <4>1, <4>2
    <3>5. CASE GiveUp(p) \/ OpenFails(p) \/ FinishFails(p) \/ Use(p)
      BY <3>5, Endings DEF GiveUp, OpenFails, FinishFails, Use
    <3>6. CASE Look(p) \/ Start(p)
      BY <3>6, QuietStarts
    <3>7. CASE Acquire(p) \/ Recheck(p) \/ FinishUnmarks(p)
      BY <3>7, TakesInv
    <3>8. CASE FinishPurge(p)
      BY <3>8, StoresInv
    <3> QED
      BY <2>2, <3>1, <3>2, <3>3, <3>4, <3>5, <3>6, <3>7, <3>8 DEF Opens
  <2>3. CASE Works(p)
    BY <2>3, QuietWorks, StoresInv DEF Works
  <2>4. CASE Quits(p)
    BY <2>4, QuietQuits, StoresInv, AsksInv, SpawnHeirInv, ExitInv DEF Quits
  <2>5. CASE Launch(p)
    BY <2>5, QuietStarts
  <2>6. CASE Stop(p)
    BY <2>6, QuietQuits
  <2>7. CASE Restart(p)
    BY <2>7, AsksInv
  <2>8. CASE Sweep(p)
    BY <2>8, StoresInv
  <2>9. CASE Crash(p)
    BY <2>9, Endings DEF Crash
  <2> QED
    BY <2>1, <2>2, <2>3, <2>4, <2>5, <2>6, <2>7, <2>8, <2>9
<1> QED
  BY <1>1, <1>2 DEF Next

\* It holds in every state that can be reached.
LEMMA Inductive == Spec => []IInv
<1> QED
  BY InitInv, NextInv, PTL DEF Spec

-----------------------------------------------------------------------------
(* What the invariant shows. *)

\* The lock is held by a process exactly where that process relies on it: a
\* host or a direct write from the moment it got it (process_lock.rs), a direct
\* read while it finishes a purge (clear_on_quit.rs).
THEOREM LockHeldWhereNeeded == Spec => []TypeOK
<1>1. IInv => TypeOK
  BY DEF IInv
<1> QED
  BY <1>1, Inductive, PTL

\* No process that opened the store after a clearing was asked for finds in it
\* what had been cleared, whatever failed or was killed meanwhile.
THEOREM OpenersSeeNothingCleared == Spec => []ClearedStaysCleared
<1>1. IInv => ClearedStaysCleared
  BY DEF IInv, Each, Clean, ClearedStaysCleared
<1> QED
  BY <1>1, Inductive, PTL

\* The history loses entries to a purge only, and then either the marker is
\* pending or the entries are asked to be cleared with that step.
LEMMA OnlyPurgesRemove ==
  ASSUME IInv, [Next]_vars
  PROVE  doomed \subseteq doomed' /\ (hist \subseteq hist' \/ marker \/ hist \subseteq doomed')
<1>1. CASE MarkerAges \/ UNCHANGED vars
  BY <1>1 DEF MarkerAges, vars
<1>2. ASSUME NEW p \in Procs, Opens(p)
      PROVE doomed \subseteq doomed' /\ (hist \subseteq hist' \/ marker \/ hist \subseteq doomed')
  <2>1. UNCHANGED doomed
    BY <1>2 DEF Opens, Held, Refused, Acquire, GiveUp, ReadOpens, OpenFails, Look, Claim, Recheck,
                FinishPurge, FinishUnmarks, FinishFails, Use, Start, StartFails, Bound, BindFails
  <2>2. CASE FinishPurge(p)
    BY <2>1, <2>2 DEF FinishPurge, IInv, Each, Pending
  <2>3. CASE ~FinishPurge(p)
    <3>1. hist \subseteq hist'
      BY <1>2, <2>3 DEF Opens, Held, Refused, Acquire, GiveUp, ReadOpens, OpenFails, Look, Claim,
           Recheck, FinishUnmarks, FinishFails, Use, Start, StartFails, Bound, BindFails, disk
    <3> QED
      BY <2>1, <3>1
  <2> QED
    BY <2>2, <2>3
<1>3. ASSUME NEW p \in Procs, Quits(p)
      PROVE doomed \subseteq doomed' /\ (hist \subseteq hist' \/ marker \/ hist \subseteq doomed')
  <2>1. CASE Purge(p)
    BY <2>1 DEF Purge, Cleared, IInv, Each, Pending
  <2>2. CASE ~Purge(p)
    BY <1>3, <2>2 DEF Quits, Drained, KeepHistory, MarkPending, PurgeFails, PurgeTimesOut,
         QuitUnmarks, SpawnHeir, Exit, Cleared, disk
  <2> QED
    BY <2>1, <2>2
<1>4. ASSUME NEW p \in Procs, Sweep(p)
      PROVE doomed \subseteq doomed' /\ (hist \subseteq hist' \/ marker \/ hist \subseteq doomed')
  BY <1>4 DEF Sweep, IInv, Each, Pending
<1>5. ASSUME NEW p \in Procs, Launch(p) \/ Works(p) \/ Stop(p) \/ Restart(p) \/ Crash(p)
      PROVE doomed \subseteq doomed' /\ (hist \subseteq hist' \/ marker \/ hist \subseteq doomed')
  BY <1>5 DEF Launch, Works, Tick, JobLands, WorkerExits, Respawn, WorkerStops, Overdue, Stop, Restart,
       Crash, disk
<1> QED
  BY <1>1, <1>2, <1>3, <1>4, <1>5 DEF Next

\* A purge, in time, late or finished by the next process, takes no entry of a
\* host that has not been asked to stop, except what was there when the clearing
\* was asked for.
THEOREM PurgesTakeNoNewHistory == Spec => NewHistorySurvives
<1>1. IInv /\ [Next]_vars => [\A e \in hist \ hist' : e \in doomed' \/ proc[e[1]].stop]_vars
  <2> SUFFICES ASSUME IInv, [Next]_vars, NEW e \in hist, e \notin hist'
               PROVE  e \in doomed' \/ proc[e[1]].stop
    OBVIOUS
  <2>1. doomed \subseteq doomed' /\ (marker \/ e \in doomed')
    BY OnlyPurgesRemove
  <2>2. PICK q \in Procs, w \in {"early", "late"} : e = <<q, w>>
    BY DEF IInv, TypeOK, Entries
  <2>3. e \in Stores(q) /\ e[1] = q /\ Clean(q)
    BY <2>2 DEF Stores, IInv, Each
  <2> QED
    BY <2>1, <2>3 DEF Clean
<1> QED
  BY <1>1, Inductive, PTL DEF Spec, NewHistorySurvives

\* Whatever else moves, an app that found the lock held and a fresh restart
\* marker is not over with that step, unless it is killed.
LEMMA FreshMarkerHolds ==
  ASSUME IInv, [Next]_vars, NEW h \in Procs, At(h, "held"), handoff = "fresh", crashes' = crashes
  PROVE  proc'[h].pc # "ended"
<1>1. proc \in [Procs -> Processes] /\ proc[h] \in Processes /\ proc[h].pc = "held" /\ crashes \in Nat
  BY OwnershipAssumption DEF IInv, TypeOK, At
<1>2. CASE MarkerAges \/ UNCHANGED vars
  BY <1>1, <1>2 DEF MarkerAges, vars
<1>3. ASSUME NEW p \in Procs, Opens(p) PROVE proc'[h].pc # "ended"
  <2>1. CASE p = h
    <3>1. ~(\/ Held(p) \/ Acquire(p) \/ GiveUp(p) \/ ReadOpens(p) \/ OpenFails(p) \/ Look(p) \/ Claim(p)
            \/ Recheck(p) \/ FinishPurge(p) \/ FinishUnmarks(p) \/ FinishFails(p) \/ Use(p)
            \/ Start(p) \/ StartFails(p) \/ Bound(p) \/ BindFails(p))
      BY <1>1, <2>1 DEF Held, Acquire, GiveUp, ReadOpens, OpenFails, Look, Claim, Recheck, FinishPurge,
           FinishUnmarks, FinishFails, Use, Start, StartFails, Bound, BindFails, At
    <3>2. Refused(p)
      BY <1>3, <3>1 DEF Opens
    <3>3. proc' = [proc EXCEPT ![h].pc = "wait"]
      BY <2>1, <3>2 DEF Refused, Goto
    <3> QED
      BY <1>1, <3>3
  <2>2. CASE p # h
    <3>1. CASE Held(p) \/ Refused(p) \/ Acquire(p) \/ GiveUp(p) \/ ReadOpens(p) \/ OpenFails(p)
      BY <1>1, <2>2, <3>1 DEF Held, Refused, Acquire, GiveUp, ReadOpens, OpenFails, Goto, Ends, Locks
    <3>2. CASE Look(p) \/ Claim(p) \/ Recheck(p) \/ FinishPurge(p) \/ FinishUnmarks(p) \/ FinishFails(p)
      <4>1. CASE Look(p)
        BY <1>1, <2>2, <4>1 DEF Look, Goto, Boot
      <4>2. CASE Claim(p) \/ FinishPurge(p) \/ FinishFails(p)
        BY <1>1, <2>2, <4>2 DEF Claim, FinishPurge, FinishFails, Goto, Ends
      <4>3. CASE Recheck(p) \/ FinishUnmarks(p)
        BY <1>1, <2>2, <4>3 DEF Recheck, FinishUnmarks, Finished, Goto, Boot
      <4> QED
        BY <3>2, <4>1, <4>2, <4>3
    <3>3. CASE Use(p) \/ Start(p) \/ StartFails(p) \/ Bound(p) \/ BindFails(p)
      BY <1>1, <2>2, <3>3 DEF Use, Start, StartFails, Bound, BindFails, Goto, Ends
    <3> QED
      BY <1>3, <3>1, <3>2, <3>3 DEF Opens
  <2> QED
    BY <2>1, <2>2
<1>4. ASSUME NEW p \in Procs, Works(p) \/ Sweep(p) PROVE proc'[h].pc # "ended"
  <2>1. proc'[h].pc = proc[h].pc
    <3>1. CASE JobLands(p)
      <4>1. CASE p = h
        BY <1>1, <3>1, <4>1 DEF JobLands
      <4>2. CASE p # h
        BY <1>1, <3>1, <4>2 DEF JobLands
      <4> QED
        BY <4>1, <4>2
    <3>2. CASE Tick(p) \/ Sweep(p)
      <4>1. CASE p = h
        <5>1. PICK x : /\ \/ x = [proc[h] EXCEPT !.worker = "inserting", !.job = TRUE]
                          \/ x = [proc[h] EXCEPT !.sweep = FALSE]
                       /\ proc' = [proc EXCEPT ![h] = x]
          BY <1>1, <3>2, <4>1 DEF Tick, Sweep
        <5>2. x.pc = proc[h].pc
          BY <1>1, <5>1 DEF Processes
        <5> QED
          BY <1>1, <5>1, <5>2
      <4>2. CASE p # h
        BY <1>1, <3>2, <4>2 DEF Tick, Sweep
      <4> QED
        BY <4>1, <4>2
    <3>3. CASE WorkerExits(p) \/ Respawn(p) \/ WorkerStops(p) \/ Overdue(p)
      <4>1. PICK w : proc' = [proc EXCEPT ![p].worker = w]
        BY <3>3 DEF WorkerExits, Respawn, WorkerStops, Overdue, Worker
      <4>2. CASE p = h
        BY <1>1, <4>1, <4>2
      <4>3. CASE p # h
        BY <1>1, <4>1, <4>3
      <4> QED
        BY <4>2, <4>3
    <3> QED
      BY <1>4, <3>1, <3>2, <3>3 DEF Works
  <2> QED
    BY <1>1, <2>1
<1>5. ASSUME NEW p \in Procs, Launch(p) \/ Stop(p) \/ Restart(p) PROVE proc'[h].pc # "ended"
  BY <1>1, <1>5 DEF Launch, IsNext, Stop, Restart, At
<1>6. ASSUME NEW p \in Procs, Quits(p) PROVE proc'[h].pc # "ended"
  <2>1. p # h
    BY <1>1, <1>6 DEF Quits, Drained, KeepHistory, MarkPending, Purge, PurgeFails, PurgeTimesOut,
         QuitUnmarks, SpawnHeir, Exit, At
  <2>2. CASE SpawnHeir(p)
    BY <1>1, <2>1, <2>2 DEF SpawnHeir, IsNext, At
  <2>3. CASE ~SpawnHeir(p)
    BY <1>1, <1>6, <2>1, <2>3 DEF Quits, Drained, KeepHistory, MarkPending, Purge, PurgeFails,
         PurgeTimesOut, QuitUnmarks, Exit, Goto
  <2> QED
    BY <2>2, <2>3
<1>7. ASSUME NEW p \in Procs, Crash(p) PROVE FALSE
  BY <1>1, <1>7 DEF Crash
<1> QED
  BY <1>2, <1>3, <1>4, <1>5, <1>6, <1>7 DEF Next

\* The instance a restarting app spawned is not turned away while that app
\* holds the lock and its marker counts, whoever else is launched, is refused,
\* gives up or gets the lock meanwhile.
THEOREM HeirIsNotTurnedAway == Spec => HeirWaits
<1>1. IInv /\ [Next]_vars
        => [\A h \in Procs :
              At(h, "held") /\ proc[h].from # None /\ lock = proc[h].from /\ promised = lock
                => proc'[h].pc # "ended" \/ crashes' # crashes]_vars
  <2> SUFFICES ASSUME IInv, [Next]_vars, NEW h \in Procs, At(h, "held"), proc[h].from # None,
                      lock = proc[h].from, promised = lock, crashes' = crashes
               PROVE  proc'[h].pc # "ended"
    OBVIOUS
  <2>1. handoff = "fresh"
    BY DEF IInv, Global
  <2> QED
    BY <2>1, FreshMarkerHolds
<1> QED
  BY <1>1, Inductive, PTL DEF Spec, HeirWaits

\* Unless a purge is pending, nothing is stored that anyone was asked to clear: whoever opens
\* the store without a marker, with or without the lock, has nothing left to remove.
UnmarkedStoreIsClean == ~marker => hist \cap doomed = {}

\* A crash between a purge and its unmarking, or between two purges, never leaves the
\* contrary behind (clear_on_quit.rs removes the marker last).
THEOREM OnlyMarkedStoresOwe == Spec => []UnmarkedStoreIsClean
<1>1. IInv => UnmarkedStoreIsClean
  BY DEF IInv, Global, UnmarkedStoreIsClean
<1> QED
  BY <1>1, Inductive, PTL

\* The history is changed by the process that holds the lock and by no other: it adds its own
\* entries, and it purges where the lock covers the purge.  The exception is the database call
\* that a daemon's worker left on a blocking thread, which may add one entry after the daemon
\* gave the lock back.
OwnerChanges ==
  /\ \A e \in hist' \ hist : lock = e[1] \/ (At(e[1], "ended") /\ proc[e[1]].job)
  /\ hist \ hist' # {} => lock \in Procs /\ proc[lock].pc \in {"finish", "purge", "exit"}

\* What a process may do to the history without the lock.
LEMMA StoreSteps ==
  ASSUME IInv, NEW p \in Procs,
         Launch(p) \/ Opens(p) \/ Works(p) \/ Stop(p) \/ Restart(p) \/ Quits(p) \/ Sweep(p) \/ Crash(p)
  PROVE  OwnerChanges
<1>0. /\ Owning(p) <=> lock = p
      /\ Placed(p) /\ Pending(p)
  BY DEF IInv, TypeOK, Each
<1>1. CASE Use(p)
  <2>1. Is(p, {"write"}) => lock = p
    BY <1>0, <1>1 DEF Use, Owning, At, Is
  <2>2. \A e \in hist' \ hist : e[1] = p /\ Is(p, {"write"})
    BY <1>1 DEF Use
  <2>3. hist \subseteq hist'
    BY <1>1 DEF Use
  <2> QED
    BY <2>1, <2>2, <2>3 DEF OwnerChanges
<1>2. CASE JobLands(p)
  <2>1. lock = p \/ At(p, "ended")
    BY <1>0, <1>2 DEF JobLands, Placed, Hosting, Owning, At, Is, Hosts
  <2>2. \A e \in hist' \ hist : e[1] = p /\ proc[p].job
    BY <1>2 DEF JobLands
  <2>3. hist \subseteq hist'
    BY <1>2 DEF JobLands
  <2> QED
    BY <2>1, <2>2, <2>3 DEF OwnerChanges
<1>3. CASE FinishPurge(p) \/ Purge(p) \/ Sweep(p)
  <2>1. proc[p].pc \in {"finish", "purge", "exit"} /\ hist' = {}
    BY <1>0, <1>3 DEF FinishPurge, Purge, Sweep, Pending, At
  <2>2. lock = p
    BY <1>0, <2>1 DEF Placed, Hosting, Owning, Is, Hosts
  <2> QED
    BY <2>1, <2>2 DEF OwnerChanges
<1>4. CASE Opens(p) /\ ~Use(p) /\ ~FinishPurge(p)
  <2>1. hist' = hist
    BY <1>4 DEF Opens, Held, Refused, Acquire, GiveUp, ReadOpens, OpenFails, Look, Claim,
         Recheck, FinishUnmarks, FinishFails, Start, StartFails, Bound, BindFails, disk
  <2> QED
    BY <2>1 DEF OwnerChanges
<1>5. CASE Works(p) /\ ~JobLands(p)
  <2>1. hist' = hist
    BY <1>5 DEF Works, Tick, WorkerExits, Respawn, WorkerStops, Overdue, disk
  <2> QED
    BY <2>1 DEF OwnerChanges
<1>6. CASE Quits(p) /\ ~Purge(p)
  <2>1. SpawnHeir(p) => hist' = hist
    BY DEF SpawnHeir, disk
  <2>2. Exit(p) => hist' = hist
    BY DEF Exit, disk
  <2>3. ASSUME \/ Drained(p) \/ KeepHistory(p) \/ MarkPending(p)
               \/ PurgeFails(p) \/ PurgeTimesOut(p) \/ QuitUnmarks(p)
        PROVE  hist' = hist
    BY <2>3 DEF Drained, KeepHistory, MarkPending, PurgeFails, PurgeTimesOut, QuitUnmarks, disk
  <2>4. hist' = hist
    BY <1>6, <2>1, <2>2, <2>3 DEF Quits
  <2> QED
    BY <2>4 DEF OwnerChanges
<1>7. CASE Launch(p) \/ Stop(p) \/ Restart(p) \/ Crash(p)
  <2>1. hist' = hist
    BY <1>7 DEF Launch, Stop, Restart, Crash, disk
  <2> QED
    BY <2>1 DEF OwnerChanges
<1> QED
  BY <1>1, <1>2, <1>3, <1>4, <1>5, <1>6, <1>7

\* Whatever is killed, refused, restarted or still waiting on a blocking thread, the history
\* is written under the lock, that one late entry apart.
THEOREM OwnersWrite == Spec => [][OwnerChanges]_vars
<1>1. IInv /\ [Next]_vars => OwnerChanges
  <2> SUFFICES ASSUME IInv, [Next]_vars PROVE OwnerChanges
    OBVIOUS
  <2>1. CASE MarkerAges \/ UNCHANGED vars
    <3>1. hist' = hist
      BY <2>1 DEF MarkerAges, vars
    <3> QED
      BY <3>1 DEF OwnerChanges
  <2> QED
    BY <2>1, StoreSteps DEF Next
<1> QED
  BY <1>1, Inductive, PTL DEF Spec
=============================================================================
