------------------------ MODULE ClipboardLeaseProofs ------------------------
(***************************************************************************)
(* Theorems about copies and pastes under the lease, for any number of     *)
(* requests, of any kinds, on any of the platforms.                        *)
(***************************************************************************)
EXTENDS ClipboardLease, SequenceTheorems, TLAPS

RequestState ==
  [pc : Steps, kind : Kinds \cup {None}, caller : BOOLEAN, since : BOOLEAN, old : BOOLEAN,
   target : {"app", "palette", None}, restored : BOOLEAN,
   landed : {"app", "other", "palette", None}, typed : Requests \cup {Foreign, None},
   blind : BOOLEAN, newer : BOOLEAN, exposed : BOOLEAN]

Base ==
  /\ platform \in Platforms /\ req \in [Requests -> RequestState]
  /\ queue \in Seq(Requests) /\ newest \in Requests \cup {None}
  /\ clip \in Requests \cup {Foreign} /\ ours \in BOOLEAN
  /\ session \in [open : BOOLEAN, target : {"app", "palette", None}, shown : BOOLEAN]

\* From its turn to its end a request holds the lease, but for a copy that gave it
\* back before it hides the palette.
Leased(r) ==
  req[r].pc \notin {"idle", "queued", "copied"} /\ ~(At(r, "hide") /\ Is(r, {"copy"})) => Holds(r)

\* Which kinds come by which steps.
Fits(r) ==
  /\ At(r, "copied") => Is(r, {"copy"})
  /\ At(r, "hide") => Is(r, {"paste", "pasteEntry", "copy"})
  /\ At(r, "restore") => Is(r, {"paste", "pasteEntry"})
  /\ req[r].pc \in {"paste", "probe", "checks", "key", "grace"} => Is(r, Pastes)

\* A paste whose clip was written.
Written(r) ==
  /\ Is(r, Pastes)
  /\ \/ req[r].pc \in {"record", "wrote", "paste", "probe", "checks", "key", "grace"}
     \/ Is(r, {"paste"}) /\ req[r].pc \in {"hide", "restore"}

\* The clip of a written paste is still there, or a foreign one is: and then the
\* tracker still has to find out, or a sleep is still to be noticed, or it came
\* where neither looks.
Publishes(r) ==
  /\ Written(r) => clip \in {r, Foreign}
  /\ Written(r) /\ clip = Foreign /\ Tracked =>
       \/ req[r].blind
       \/ platform = "macos" /\ req[r].old /\ req[r].pc \notin {"key", "grace"}
       \/ ~ours /\ req[r].pc \in {"wrote", "hide", "restore", "paste", "probe"}
  /\ req[r].typed # None =>
       /\ At(r, "grace")
       /\ req[r].typed = r \/ (req[r].typed = Foreign /\ (req[r].blind \/ ~Tracked))

\* A palette copy passed over by the user is not past its check, and will not pass it.
Yields(r) ==
  req[r].newer => Is(r, Checked) /\ req[r].pc \in {"queued", "prepare"} /\ ~Current(r)

\* A palette on screen while a palette paste is past its hide was shown since, or
\* could not be hidden; and the paste has looked before its keys.
Aims(r) ==
  /\ Is(r, Palette) /\ session.shown =>
       /\ \/ req[r].pc \in {"restore", "paste", "probe", "checks"}
          \/ Is(r, {"pasteEntry"}) /\ req[r].pc \in {"prepare", "write", "record", "wrote"}
          => req[r].since \/ req[r].exposed
       /\ At(r, "key") => req[r].exposed
  /\ req[r].landed # None =>
       /\ At(r, "grace")
       /\ Is(r, Palette) => IF TargetExpected THEN req[r].landed = req[r].target
                            ELSE req[r].landed = "palette" => req[r].exposed

Local(r) == Leased(r) /\ Fits(r) /\ Publishes(r) /\ Yields(r) /\ Aims(r)

IInv == Base /\ \A r \in Requests : Local(r)

-----------------------------------------------------------------------------
(* The queue, and what a step of one request leaves to the others. *)

\* A request that leaves takes its own place and no other.
LEMMA WithoutKeeps ==
  ASSUME queue \in Seq(Requests), NEW r \in Requests
  PROVE  /\ Without(r) \in Seq(Requests)
         /\ \A g \in Requests \ {r} : Holds(g) => Without(r) # <<>> /\ Head(Without(r)) = g
<1>1. CASE ~\E i \in DOMAIN queue : queue[i] = r
  BY <1>1 DEF Without, Holds
<1>2. CASE \E i \in DOMAIN queue : queue[i] = r
  <2> DEFINE i == CHOOSE j \in DOMAIN queue : queue[j] = r
  <2>1. i \in DOMAIN queue /\ queue[i] = r /\ Without(r) = RemoveAt(queue, i)
    BY <1>2 DEF Without
  <2> HIDE DEF i
  <2>2. i \in 1..Len(queue) /\ Len(queue) \in Nat
    BY <2>1
  <2>3. SubSeq(queue, 1, i - 1) \in Seq(Requests) /\ SubSeq(queue, i + 1, Len(queue)) \in Seq(Requests)
    BY <2>2
  <2>4. Without(r) \in Seq(Requests)
    BY <2>1, <2>3 DEF RemoveAt
  <2>5. ASSUME NEW g \in Requests \ {r}, Holds(g) PROVE Without(r) # <<>> /\ Head(Without(r)) = g
    <3>1. queue[1] = g /\ i # 1
      BY <2>1, <2>2, <2>5 DEF Holds
    <3>2. /\ Len(SubSeq(queue, 1, i - 1)) = i - 1 /\ SubSeq(queue, 1, i - 1)[1] = g
      BY <2>2, <3>1
    <3> QED
      BY <2>1, <2>2, <2>3, <3>1, <3>2 DEF RemoveAt
  <2> QED
    BY <2>4, <2>5
<1> QED
  BY <1>1, <1>2

\* What a step of r does beside moving r.
Frame(r) ==
  /\ platform' = platform
  /\ \A g \in Requests \ {r} : req'[g] = req[g] /\ (Holds(g) => Holds(g)')
  /\ clip' # clip \/ ours' # ours => Holds(r)
  /\ (session'.shown => session.shown) /\ (session'.open => session.open)

\* A step of r that keeps the invariant for r keeps it: the clipboard is written
\* only with the lease, which no other written paste then holds.
LEMMA OwnStep ==
  ASSUME IInv, NEW r \in Requests, Base', Frame(r), Local(r)'
  PROVE  IInv'
<1>1. ASSUME NEW g \in Requests, g # r PROVE Local(g)'
  <2>1. Local(g) /\ platform' = platform /\ req'[g] = req[g] /\ (Holds(g) => Holds(g)')
    BY <1>1 DEF IInv, Frame
  <2>2. Leased(g)' /\ Fits(g)'
    BY <2>1 DEF Local, Leased, Fits, At, Is
  <2>3. (Written(g)' <=> Written(g)) /\ (Tracked' <=> Tracked)
    BY <2>1 DEF Written, Is, Tracked
  <2>4. Written(g) => clip' = clip /\ ours' = ours
    <3>1. Written(g) => Holds(g)
      BY <2>1 DEF Written, Local, Leased, Is, At
    <3> QED
      BY <1>1, <3>1 DEF Frame, Holds
  <2>5. Publishes(g)'
    BY <2>1, <2>3, <2>4 DEF Local, Publishes, At
  <2>6. Yields(g)' /\ Aims(g)'
    BY <2>1 DEF Frame, Local, Yields, Aims, Current, Is, At, TargetExpected
  <2> QED
    BY <2>2, <2>5, <2>6 DEF Local
<1> QED
  BY <1>1 DEF IInv

-----------------------------------------------------------------------------
(* The steps of one request. *)

\* What the proofs of the steps expand.
Moves(r) == Base' /\ Frame(r) /\ Local(r)'

\* A request that leaves has nothing left to keep.
LEMMA LeaveMoves ==
  ASSUME IInv, NEW r \in Requests, Leave(r), UNCHANGED platform,
         UNCHANGED session \/ session' = [session EXCEPT !.shown = FALSE],
         newest' \in Requests \cup {None}, clip' \in Requests \cup {Foreign}, ours' \in BOOLEAN,
         clip' # clip \/ ours' # ours => Holds(r)
  PROVE  Moves(r)
<1>1. Idle \in RequestState
  BY DEF Idle, RequestState, Steps
<1>2. Base'
  BY <1>1, WithoutKeeps DEF IInv, Base, Leave
<1>3. Frame(r)
  <2>1. \A g \in Requests \ {r} : Holds(g) => Holds(g)'
    BY WithoutKeeps DEF IInv, Base, Leave, Holds
  <2> QED
    BY <2>1 DEF IInv, Base, Leave, Frame
<1>4. req'[r] = Idle
  BY DEF IInv, Base, Leave
<1>5. Local(r)'
  BY <1>4, LeaseAssumption DEF Local, Leased, Fits, Publishes, Written, Yields, Aims, At, Is, Idle, Palette, Pastes,
     Checked, Guarded
<1> QED
  BY <1>2, <1>3, <1>5 DEF Moves

\* A request goes on to its next step and nothing else moves.
LEMMA GotoMoves ==
  ASSUME IInv, NEW r \in Requests, NEW l \in Steps \ {"idle", "queued"}, Goto(r, l),
         UNCHANGED <<platform, newest, clip, ours, session>>,
         Holds(r), req[r].typed = None, req[r].landed = None, ~req[r].newer,
         l \in {"paste", "probe", "checks", "key", "grace"} => Is(r, Pastes),
         l \notin {"copied", "hide", "restore"},
         Publishes(r)', Aims(r)'
  PROVE  Moves(r)
<1>1. req[r] \in RequestState /\ req' = [req EXCEPT ![r].pc = l] /\ queue' = queue
  BY DEF IInv, Base, Goto
<1>2. [req[r] EXCEPT !.pc = l] \in RequestState
  BY <1>1 DEF RequestState
<1>3. req'[r] = [req[r] EXCEPT !.pc = l] /\ \A g \in Requests \ {r} : req'[g] = req[g]
  BY <1>1 DEF IInv, Base
<1>4. Base'
  BY <1>1, <1>2 DEF IInv, Base
<1>5. Frame(r)
  BY <1>1, <1>3 DEF Frame, Holds
<1>6. req'[r].pc = l /\ req'[r].kind = req[r].kind /\ req'[r].newer = req[r].newer
  BY <1>1, <1>3 DEF RequestState
<1>7. Leased(r)' /\ Fits(r)' /\ Yields(r)'
  BY <1>1, <1>6 DEF Leased, Fits, Yields, At, Is, Holds
<1> QED
  BY <1>4, <1>5, <1>7 DEF Moves, Local

\* A request that holds the lease and has not sent its keys has no outcome yet.
LEMMA Unsent ==
  ASSUME IInv, NEW r \in Requests, ~At(r, "grace")
  PROVE  req[r].typed = None /\ req[r].landed = None
BY DEF IInv, Local, Publishes, Aims, At

\* The showing ends: r hides the palette next.
LEMMA FinishMoves ==
  ASSUME IInv, NEW r \in Requests, FinishToHide(r), Is(r, {"paste", "pasteEntry", "copy"}),
         Is(r, {"paste", "pasteEntry"}) => Holds(r), Current(r), ~At(r, "grace"),
         Is(r, {"paste"}) => At(r, "wrote"),
         UNCHANGED <<platform, clip, ours>>, newest' \in Requests \cup {None}
  PROVE  Moves(r)
<1> DEFINE n == [req[r] EXCEPT !.pc = "hide", !.target = session.target]
<1>1. /\ req[r] \in RequestState /\ session.target \in {"app", "palette", None}
      /\ session \in [open : BOOLEAN, target : {"app", "palette", None}, shown : BOOLEAN]
  BY DEF IInv, Base
<1>2. n \in RequestState /\ req' = [req EXCEPT ![r] = n]
  BY <1>1 DEF RequestState, Steps, FinishToHide
<1>3. /\ n.pc = "hide" /\ n.kind = req[r].kind /\ n.newer = req[r].newer /\ n.typed = req[r].typed
      /\ n.landed = req[r].landed /\ n.blind = req[r].blind /\ n.old = req[r].old
  BY <1>1 DEF RequestState
<1> HIDE DEF n
<1>4. req'[r] = n /\ \A g \in Requests \ {r} : req'[g] = req[g]
  BY <1>2 DEF IInv, Base
<1>5. Base'
  BY <1>1, <1>2 DEF IInv, Base, FinishToHide
<1>6. Frame(r)
  BY <1>1, <1>4 DEF Frame, Holds, FinishToHide
<1>7. Leased(r)' /\ Fits(r)'
  BY <1>3, <1>4 DEF Leased, Fits, At, Is, Holds, FinishToHide
<1>8. Publishes(r)'
  <2>1. Publishes(r) /\ req[r].typed = None
    BY Unsent DEF IInv, Local
  <2> QED
    BY <1>3, <1>4, <2>1 DEF Publishes, Written, Is, At, Tracked
<1>9. Yields(r)' /\ Aims(r)'
  <2>1. req[r].landed = None /\ ~req[r].newer
    BY Unsent DEF IInv, Local, Yields
  <2> QED
    BY <1>3, <1>4, <2>1 DEF Yields, Aims, Is, At
<1> QED
  BY <1>5, <1>6, <1>7, <1>8, <1>9 DEF Moves, Local

\* Its turn has come.
LEMMA AcquiredMoves == ASSUME IInv, NEW r \in Requests, Acquired(r) PROVE Moves(r)
<1>1. /\ At(r, "queued") /\ Holds(r) /\ UNCHANGED <<platform, newest, clip, ours>>
      /\ req[r] \in RequestState /\ Local(r) /\ ~At(r, "grace")
      /\ newest \in Requests \cup {None} /\ clip \in Requests \cup {Foreign} /\ ours \in BOOLEAN
  BY DEF Acquired, IInv, Base, At
<1>2. CASE Leave(r) /\ UNCHANGED session
  BY <1>1, <1>2, LeaveMoves
<1>3. CASE Is(r, {"pasteEntry"}) /\ Current(r) /\ FinishToHide(r)
  BY <1>1, <1>3, FinishMoves DEF Is
<1>4. CASE (Is(r, {"paste", "copy"}) => Current(r)) /\ ~Is(r, {"pasteEntry"})
           /\ Goto(r, "prepare") /\ UNCHANGED session
  <2>1. req' = [req EXCEPT ![r].pc = "prepare"] /\ queue' = queue /\ "prepare" \in Steps
    BY <1>4 DEF Goto, Steps
  <2>2. [req[r] EXCEPT !.pc = "prepare"] \in RequestState
    BY <1>1, <2>1 DEF RequestState
  <2>3. req'[r] = [req[r] EXCEPT !.pc = "prepare"] /\ \A g \in Requests \ {r} : req'[g] = req[g]
    BY <2>1 DEF IInv, Base
  <2>4. Base'
    BY <1>1, <1>4, <2>1, <2>2 DEF IInv, Base
  <2>5. Frame(r)
    BY <1>1, <1>4, <2>1, <2>3 DEF Frame, Holds
  <2>6. /\ req'[r].pc = "prepare" /\ req'[r].kind = req[r].kind /\ req'[r].newer = req[r].newer
        /\ req'[r].typed = None /\ req'[r].landed = None /\ req'[r].since = req[r].since
    BY <1>1, <2>3, Unsent DEF RequestState
  <2>7. Local(r)'
    BY <1>1, <1>4, <2>1, <2>6 DEF Local, Leased, Fits, Publishes, Written, Yields, Aims, Current, Is, At, Holds
  <2> QED
    BY <2>4, <2>5, <2>7 DEF Moves
<1> QED
  BY <1>2, <1>3, <1>4 DEF Acquired

\* It may write, or gives up.
LEMMA PreparedMoves ==
  ASSUME IInv, NEW r \in Requests, Prepared(r) \/ PrepareFails(r) PROVE Moves(r)
<1>1. /\ At(r, "prepare") /\ UNCHANGED <<platform, newest, clip, ours, session>>
      /\ req[r] \in RequestState /\ Local(r) /\ Holds(r)
      /\ newest \in Requests \cup {None} /\ clip \in Requests \cup {Foreign} /\ ours \in BOOLEAN
  BY DEF Prepared, PrepareFails, IInv, Base, Local, Leased, At
<1>2. CASE Leave(r)
  BY <1>1, <1>2, LeaveMoves
<1>3. CASE MayPublish(r) /\ Goto(r, "write")
  <2>1. req'[r].pc = "write" /\ req'[r].kind = req[r].kind /\ req'[r].typed = None /\ req'[r].landed = None
        /\ req'[r].since = req[r].since /\ req'[r].exposed = req[r].exposed
    BY <1>1, <1>3, Unsent DEF Goto, IInv, Base, RequestState, At
  <2>2. ~req[r].newer
    BY <1>1, <1>3 DEF Local, Yields, MayPublish
  <2>3. Publishes(r)' /\ Aims(r)'
    BY <1>1, <2>1 DEF Local, Publishes, Written, Aims, At, Is
  <2>4. "write" \in Steps \ {"idle", "queued"}
    BY DEF Steps, Guarded
  <2> QED
    BY <1>1, <1>3, <2>2, <2>3, <2>4, GotoMoves, Unsent DEF At
<1> QED
  BY <1>2, <1>3 DEF Prepared, PrepareFails

\* A request that keeps its lease moves only itself.
LEMMA HeldMoves ==
  ASSUME IInv, NEW r \in Requests, req' = [req EXCEPT ![r] = req'[r]], req'[r] \in RequestState,
         UNCHANGED <<platform, queue>>, Holds(r),
         newest' \in Requests \cup {None}, clip' \in Requests \cup {Foreign}, ours' \in BOOLEAN,
         session' \in [open : BOOLEAN, target : {"app", "palette", None}, shown : BOOLEAN],
         session'.shown => session.shown, session'.open => session.open,
         Fits(r)', Publishes(r)', Yields(r)', Aims(r)'
  PROVE  Moves(r)
<1>1. \A g \in Requests \ {r} : req'[g] = req[g]
  BY DEF IInv, Base
<1>2. Base'
  BY DEF IInv, Base
<1>3. Frame(r)
  BY <1>1 DEF Frame, Holds
<1>4. Leased(r)'
  BY DEF Leased, Holds
<1> QED
  BY <1>2, <1>3, <1>4 DEF Moves, Local

\* What is known of a request that holds the lease and is past its checks.
LEMMA Known ==
  ASSUME IInv, NEW r \in Requests, req[r].pc \notin {"idle", "queued", "copied"},
         ~(At(r, "hide") /\ Is(r, {"copy"}))
  PROVE  /\ Holds(r) /\ req[r] \in RequestState /\ Fits(r) /\ Publishes(r) /\ Yields(r) /\ Aims(r)
         /\ newest \in Requests \cup {None} /\ clip \in Requests \cup {Foreign} /\ ours \in BOOLEAN
         /\ session \in [open : BOOLEAN, target : {"app", "palette", None}, shown : BOOLEAN]
         /\ platform \in Platforms
         /\ ~At(r, "grace") => req[r].typed = None /\ req[r].landed = None
         /\ ~At(r, "prepare") => ~req[r].newer
BY Unsent DEF IInv, Base, Local, Leased, Yields, At

\* The clipboard is written, or the adapter fails to.
LEMMA WriteMoves ==
  ASSUME IInv, NEW r \in Requests, Write(r) \/ WriteFails(r) PROVE Moves(r)
<1>1. /\ At(r, "write") /\ UNCHANGED <<platform, newest, session>>
      /\ clip' \in {clip, r} /\ ours' \in {ours, FALSE}
  BY DEF Write, WriteFails
<1>2. CASE Leave(r)
  BY <1>1, <1>2, LeaveMoves, Known DEF At
<1>3. CASE Goto(r, "record") /\ clip' = r
  <2>1. /\ req'[r] = [req[r] EXCEPT !.pc = "record"] /\ req' = [req EXCEPT ![r].pc = "record"] /\ queue' = queue
        /\ "record" \in Steps
    BY <1>3 DEF Goto, IInv, Base, Steps, Guarded
  <2>2. req'[r] \in RequestState /\ req' = [req EXCEPT ![r] = req'[r]]
    BY <1>1, <2>1, Known DEF RequestState, At
  <2>3. /\ req'[r].pc = "record" /\ req'[r].kind = req[r].kind /\ req'[r].typed = None /\ req'[r].landed = None
        /\ req'[r].since = req[r].since /\ req'[r].exposed = req[r].exposed /\ ~req'[r].newer
    BY <1>1, <2>1, Known DEF RequestState, At
  <2>4. Fits(r)' /\ Publishes(r)' /\ Yields(r)'
    BY <1>3, <2>3, LeaseAssumption DEF Fits, Publishes, Yields, Is, At
  <2>5. Aims(r)'
    BY <1>1, <2>3, Known DEF Aims, Is, At
  <2> QED
    BY <1>1, <1>3, <2>1, <2>2, <2>4, <2>5, HeldMoves, Known DEF At
<1> QED
  BY <1>2, <1>3 DEF Write, WriteFails

\* The tracker is told, or takes what has replaced the clip for its own.
LEMMA RecordMoves == ASSUME IInv, NEW r \in Requests, Record(r) PROVE Moves(r)
<1>1. At(r, "record") /\ ours' = Tracked /\ UNCHANGED <<platform, newest, clip, session>>
  BY DEF Record
<1>2. ours' \in BOOLEAN
  BY <1>1 DEF Tracked
<1>3. CASE Leave(r)
  BY <1>1, <1>2, <1>3, LeaveMoves, Known DEF At
<1>4. CASE Goto(r, "wrote")
  <2>1. /\ req'[r] = [req[r] EXCEPT !.pc = "wrote"] /\ req' = [req EXCEPT ![r].pc = "wrote"] /\ queue' = queue
        /\ "wrote" \in Steps
    BY <1>4 DEF Goto, IInv, Base, Steps
  <2>2. req'[r] \in RequestState /\ req' = [req EXCEPT ![r] = req'[r]]
    BY <1>1, <2>1, Known DEF RequestState, At
  <2>3. /\ req'[r].pc = "wrote" /\ req'[r].kind = req[r].kind /\ req'[r].typed = None /\ req'[r].landed = None
        /\ req'[r].since = req[r].since /\ req'[r].exposed = req[r].exposed /\ ~req'[r].newer
        /\ req'[r].blind = req[r].blind /\ req'[r].old = req[r].old
    BY <1>1, <2>1, Known DEF RequestState, At
  <2>4. Fits(r)' /\ Yields(r)'
    BY <2>3 DEF Fits, Yields, At
  <2>5. Publishes(r)'
    BY <1>1, <2>3, Known DEF Publishes, Written, Tracked, Is, At
  <2>6. Aims(r)'
    BY <1>1, <2>3, Known DEF Aims, Is, At
  <2> QED
    BY <1>1, <1>2, <2>1, <2>2, <2>4, <2>5, <2>6, HeldMoves, Known DEF At
<1> QED
  BY <1>3, <1>4 DEF Record

\* Only where a request is changes as it goes on.
LEMMA Going ==
  ASSUME IInv, NEW r \in Requests, NEW l \in Steps, Goto(r, l)
  PROVE  /\ req' = [req EXCEPT ![r] = req'[r]] /\ req'[r] \in RequestState /\ queue' = queue
         /\ req'[r].pc = l /\ req'[r].kind = req[r].kind /\ req'[r].since = req[r].since
         /\ req'[r].old = req[r].old /\ req'[r].target = req[r].target
         /\ req'[r].restored = req[r].restored /\ req'[r].landed = req[r].landed
         /\ req'[r].typed = req[r].typed /\ req'[r].blind = req[r].blind
         /\ req'[r].newer = req[r].newer /\ req'[r].exposed = req[r].exposed
<1>1. req[r] \in RequestState /\ req'[r] = [req[r] EXCEPT !.pc = l] /\ queue' = queue
      /\ req' = [req EXCEPT ![r].pc = l]
  BY DEF IInv, Base, Goto
<1> QED
  BY <1>1 DEF RequestState

\* The clip is published: a paste goes on with the lease, a copy without.
LEMMA WroteMoves == ASSUME IInv, NEW r \in Requests, Wrote(r) PROVE Moves(r)
<1>1. /\ At(r, "wrote") /\ newest' = r /\ UNCHANGED <<platform, clip, ours>>
  BY DEF Wrote
<1>2. /\ Holds(r) /\ req[r] \in RequestState /\ Publishes(r) /\ Aims(r)
      /\ req[r].typed = None /\ req[r].landed = None /\ ~req[r].newer
      /\ clip \in Requests \cup {Foreign} /\ ours \in BOOLEAN
      /\ session \in [open : BOOLEAN, target : {"app", "palette", None}, shown : BOOLEAN]
  BY <1>1, Known DEF At
<1>3. CASE Leave(r) /\ UNCHANGED session
  BY <1>1, <1>2, <1>3, LeaveMoves
<1>4. CASE Is(r, {"paste"}) /\ Current(r) /\ FinishToHide(r)
  BY <1>1, <1>2, <1>4, FinishMoves DEF Is, At
<1>5. CASE Is(r, {"ipcPaste", "pasteEntry"}) /\ Goto(r, "paste") /\ UNCHANGED session
  <2>1. "paste" \in Steps
    BY DEF Steps
  <2>2. Fits(r)' /\ Yields(r)'
    BY <1>2, <1>5, <2>1, Going DEF Fits, Yields, At, Is, Pastes
  <2>3. Publishes(r)'
    BY <1>1, <1>2, <1>5, <2>1, Going DEF Publishes, Written, Tracked, Is, At
  <2>4. Aims(r)'
    BY <1>1, <1>2, <1>5, <2>1, Going DEF Aims, Is, At, Palette
  <2> QED
    BY <1>1, <1>2, <1>5, <2>1, <2>2, <2>3, <2>4, HeldMoves, Going
<1>6. CASE Is(r, {"copy"}) /\ req' = [req EXCEPT ![r].pc = "copied"] /\ queue' = Without(r) /\ UNCHANGED session
  <2>1. /\ req'[r] = [req[r] EXCEPT !.pc = "copied"] /\ "copied" \in Steps
        /\ req' = [req EXCEPT ![r] = req'[r]] /\ \A g \in Requests \ {r} : req'[g] = req[g]
    BY <1>2, <1>6 DEF IInv, Base, Steps
  <2>2. /\ req'[r] \in RequestState /\ req'[r].pc = "copied" /\ req'[r].kind = "copy" /\ ~req'[r].newer
        /\ req'[r].typed = None /\ req'[r].landed = None
    BY <1>2, <1>6, <2>1 DEF RequestState, Is
  <2>3. Base'
    BY <1>1, <1>2, <1>6, <2>1, <2>2, WithoutKeeps DEF IInv, Base
  <2>4. Frame(r)
    <3>1. \A g \in Requests \ {r} : Holds(g) => Holds(g)'
      BY <1>6, WithoutKeeps DEF IInv, Base, Holds
    <3> QED
      BY <1>1, <1>6, <2>1, <3>1 DEF Frame
  <2>5. Local(r)'
    BY <2>2 DEF Local, Leased, Fits, Publishes, Written, Yields, Aims, Is, At, Pastes, Palette
  <2> QED
    BY <2>3, <2>4, <2>5 DEF Moves
<1> QED
  BY <1>3, <1>4, <1>5, <1>6 DEF Wrote

\* The palette is dismissed by a copy that no longer holds the lease.
LEMMA CopiedMoves == ASSUME IInv, NEW r \in Requests, Copied(r) PROVE Moves(r)
<1>1. /\ At(r, "copied") /\ UNCHANGED <<platform, newest, clip, ours>> /\ Is(r, {"copy"})
      /\ newest \in Requests \cup {None} /\ clip \in Requests \cup {Foreign} /\ ours \in BOOLEAN
  BY DEF Copied, IInv, Base, Local, Fits
<1>2. CASE Leave(r) /\ UNCHANGED session
  BY <1>1, <1>2, LeaveMoves
<1>3. CASE Current(r) /\ FinishToHide(r)
  BY <1>1, <1>3, FinishMoves DEF Is, At
<1> QED
  BY <1>2, <1>3 DEF Copied

\* The palette is hidden, or cannot be.
LEMMA HideMoves ==
  ASSUME IInv, NEW r \in Requests, Hide(r) \/ HideFails(r) PROVE Moves(r)
<1>1. /\ At(r, "hide") /\ UNCHANGED <<platform, newest, clip, ours>>
      /\ req[r] \in RequestState /\ Fits(r) /\ Publishes(r) /\ Yields(r) /\ Aims(r)
      /\ newest \in Requests \cup {None} /\ clip \in Requests \cup {Foreign} /\ ours \in BOOLEAN
      /\ session \in [open : BOOLEAN, target : {"app", "palette", None}, shown : BOOLEAN]
      /\ req[r].typed = None /\ req[r].landed = None /\ ~req[r].newer
  BY Unsent DEF Hide, HideFails, IInv, Base, Local, Yields, At
<1>2. session' \in [open : BOOLEAN, target : {"app", "palette", None}, shown : BOOLEAN]
      /\ (session'.shown => session.shown) /\ (session'.open => session.open)
  BY <1>1 DEF Hide, HideFails
<1>3. CASE Leave(r)
  BY <1>1, <1>3, LeaveMoves DEF Hide, HideFails
<1>4. CASE Hide(r) /\ ~Is(r, {"copy"})
  <2>1. Goto(r, "restore") /\ "restore" \in Steps /\ Holds(r) /\ ~session'.shown
    BY <1>1, <1>4, Known DEF Hide, Steps, At
  <2>2. Fits(r)' /\ Yields(r)' /\ Aims(r)'
    BY <1>1, <1>4, <2>1, Going DEF Fits, Yields, Aims, At, Is
  <2>3. Publishes(r)'
    BY <1>1, <1>4, <2>1, Going DEF Publishes, Written, Tracked, Is, At
  <2> QED
    BY <1>1, <1>2, <2>1, <2>2, <2>3, HeldMoves, Going
<1>5. CASE HideFails(r) /\ Is(r, {"pasteEntry"})
  <2>1. /\ req' = [req EXCEPT ![r].pc = "restore", ![r].exposed = TRUE] /\ queue' = queue /\ UNCHANGED session
        /\ "restore" \in Steps /\ Holds(r)
    BY <1>1, <1>5, Known DEF HideFails, Steps, Is, At
  <2>2. req'[r] = [req[r] EXCEPT !.pc = "restore", !.exposed = TRUE] /\ req' = [req EXCEPT ![r] = req'[r]]
    BY <2>1 DEF IInv, Base
  <2>3. /\ req'[r] \in RequestState /\ req'[r].pc = "restore" /\ req'[r].exposed /\ req'[r].kind = "pasteEntry"
        /\ req'[r].typed = None /\ req'[r].landed = None /\ ~req'[r].newer
    <3>1. req'[r] = [req[r] EXCEPT !.pc = "restore", !.exposed = TRUE] /\ req[r].kind = "pasteEntry"
      BY <1>5, <2>2 DEF Is
    <3>2. req'[r] \in RequestState
      <4>1. req[r] \in RequestState /\ "restore" \in Steps
        BY <1>1, <2>1
      <4>2. [req[r] EXCEPT !.pc = "restore"] \in RequestState
        BY <4>1 DEF RequestState
      <4>3. [[req[r] EXCEPT !.pc = "restore"] EXCEPT !.exposed = TRUE] \in RequestState
        BY <4>2 DEF RequestState
      <4>4. req'[r] = [[req[r] EXCEPT !.pc = "restore"] EXCEPT !.exposed = TRUE]
        BY <3>1, <4>1 DEF RequestState
      <4> QED
        BY <4>3, <4>4
    <3>3. req'[r].exposed = TRUE /\ req'[r].pc = "restore"
      BY <1>1, <3>1 DEF RequestState
    <3>4. req'[r].kind = "pasteEntry"
      BY <1>1, <3>1 DEF RequestState
    <3>5. req'[r].typed = req[r].typed /\ req'[r].landed = req[r].landed /\ req'[r].newer = req[r].newer
      BY <1>1, <3>1 DEF RequestState
    <3> QED
      BY <1>1, <3>2, <3>3, <3>4, <3>5
  <2>4. Fits(r)' /\ Publishes(r)' /\ Yields(r)' /\ Aims(r)'
    BY <2>3 DEF Fits, Publishes, Written, Yields, Aims, At, Is
  <2> QED
    BY <1>1, <1>2, <2>1, <2>2, <2>3, <2>4, HeldMoves
<1> QED
  BY <1>3, <1>4, <1>5 DEF Hide, HideFails

\* The focus is given back, or not.
LEMMA RestoreMoves == ASSUME IInv, NEW r \in Requests, Restore(r) PROVE Moves(r)
<1>1. /\ At(r, "restore") /\ UNCHANGED <<platform, newest, clip, ours, session>> /\ Holds(r)
      /\ req[r] \in RequestState /\ Fits(r) /\ Publishes(r) /\ Aims(r)
      /\ newest \in Requests \cup {None} /\ clip \in Requests \cup {Foreign} /\ ours \in BOOLEAN
      /\ session \in [open : BOOLEAN, target : {"app", "palette", None}, shown : BOOLEAN]
      /\ req[r].typed = None /\ req[r].landed = None /\ ~req[r].newer /\ Is(r, {"paste", "pasteEntry"})
  BY Known DEF Restore, Fits, At
<1>2. CASE Leave(r)
  BY <1>1, <1>2, LeaveMoves
<1>3. ASSUME NEW ok \in BOOLEAN, NEW l \in {"prepare", "paste"}, l = "prepare" <=> Is(r, {"pasteEntry"}),
             req' = [req EXCEPT ![r].pc = l, ![r].restored = ok], queue' = queue
      PROVE  Moves(r)
  <2>1. l \in Steps
    BY DEF Steps
  <2>2. req'[r] = [req[r] EXCEPT !.pc = l, !.restored = ok] /\ req' = [req EXCEPT ![r] = req'[r]]
    BY <1>3 DEF IInv, Base
  <2>3. /\ req'[r] \in RequestState /\ req'[r].pc = l /\ req'[r].exposed = req[r].exposed
        /\ req'[r].kind = req[r].kind /\ req'[r].since = req[r].since /\ req'[r].blind = req[r].blind
        /\ req'[r].old = req[r].old /\ req'[r].typed = None /\ req'[r].landed = None /\ ~req'[r].newer
    BY <1>1, <2>1, <2>2 DEF RequestState
  <2>4. Fits(r)' /\ Yields(r)'
    BY <1>1, <2>3 DEF Fits, Yields, At, Is, Pastes
  <2>5. Publishes(r)'
    BY <1>1, <1>3, <2>3 DEF Publishes, Written, Tracked, Is, At
  <2>6. Aims(r)'
    BY <1>1, <2>3 DEF Aims, Is, At
  <2> QED
    BY <1>1, <1>3, <2>2, <2>3, <2>4, <2>5, <2>6, HeldMoves
<1>4. PICK ok \in BOOLEAN :
        IF Is(r, {"pasteEntry"})
        THEN req' = [req EXCEPT ![r].pc = "prepare", ![r].restored = ok] /\ UNCHANGED queue
        ELSE IF ok
        THEN req' = [req EXCEPT ![r].pc = "paste", ![r].restored = TRUE] /\ UNCHANGED queue
        ELSE Leave(r)
  BY DEF Restore
<1> QED
  BY <1>2, <1>3, <1>4

\* The paste proper, up to its keys: whatever holds it back ends it, and what lets
\* it pass is what the clip, the palette and the sleep are to be judged by.
LEMMA PasteMoves ==
  ASSUME IInv, NEW r \in Requests, Paste(r) \/ Probe(r) \/ Checks(r) PROVE Moves(r)
<1>1. /\ req[r].pc \in {"paste", "probe", "checks"} /\ UNCHANGED <<platform, newest, clip, ours, session>>
  BY DEF Paste, Probe, Checks, At
<1>2. /\ Holds(r) /\ req[r] \in RequestState /\ Fits(r) /\ Publishes(r) /\ Aims(r) /\ platform \in Platforms
      /\ newest \in Requests \cup {None} /\ clip \in Requests \cup {Foreign} /\ ours \in BOOLEAN
      /\ session \in [open : BOOLEAN, target : {"app", "palette", None}, shown : BOOLEAN]
      /\ req[r].typed = None /\ req[r].landed = None /\ ~req[r].newer /\ Is(r, Pastes)
  BY <1>1, Known DEF At, Fits
<1>3. CASE Leave(r)
  BY <1>1, <1>2, <1>3, LeaveMoves
<1>4. CASE Paste(r) /\ Goto(r, "probe")
  <2>1. "probe" \in Steps
    BY DEF Steps, Guarded
  <2>2. Publishes(r)'
    BY <1>1, <1>2, <1>4, <2>1, Going DEF Paste, Publishes, Written, Tracked, Is, At
  <2>3. Aims(r)'
    BY <1>1, <1>2, <1>4, <2>1, Going DEF Paste, Aims, Is, At
  <2> QED
    BY <1>1, <1>2, <1>4, <2>1, <2>2, <2>3, GotoMoves
<1>5. CASE Probe(r) /\ (Tracked => ours) /\ Goto(r, "checks")
  <2>1. "checks" \in Steps
    BY DEF Steps, Guarded
  <2>2. Publishes(r)'
    BY <1>1, <1>2, <1>5, <2>1, Going DEF Probe, Publishes, Written, Tracked, Is, At
  <2>3. Aims(r)'
    BY <1>1, <1>2, <1>5, <2>1, Going DEF Probe, Aims, Is, At
  <2> QED
    BY <1>1, <1>2, <1>5, <2>1, <2>2, <2>3, GotoMoves
<1>6. CASE Checks(r) /\ MayType(r) /\ Goto(r, "key")
  <2>1. "key" \in Steps
    BY DEF Steps, Guarded
  <2>2. Publishes(r)'
    BY <1>1, <1>2, <1>6, <2>1, Going DEF Checks, MayType, Publishes, Written, Tracked, Is, At
  <2>3. Aims(r)'
    BY <1>1, <1>2, <1>6, <2>1, Going DEF Checks, MayType, Aims, Is, At
  <2> QED
    BY <1>1, <1>2, <1>6, <2>1, <2>2, <2>3, GotoMoves
<1> QED
  BY <1>3, <1>4, <1>5, <1>6 DEF Paste, Probe, Checks

\* The keys land on what has the focus, where the target is known on the target.
LEMMA KeyMoves == ASSUME IInv, NEW r \in Requests, Key(r) PROVE Moves(r)
<1>1. /\ At(r, "key") /\ UNCHANGED <<platform, queue, newest, clip, ours, session>>
      /\ Holds(r) /\ req[r] \in RequestState /\ Fits(r) /\ Publishes(r) /\ Aims(r)
      /\ newest \in Requests \cup {None} /\ clip \in Requests \cup {Foreign} /\ ours \in BOOLEAN
      /\ session \in [open : BOOLEAN, target : {"app", "palette", None}, shown : BOOLEAN]
      /\ req[r].typed = None /\ req[r].landed = None /\ ~req[r].newer
  BY Known DEF Key, At
<1>2. PICK w \in Focusable \cup {None} :
        /\ (TargetExpected /\ Is(r, Palette)) => w \in {req[r].target, None}
        /\ req' = [req EXCEPT ![r].pc = "grace", ![r].landed = w]
  BY DEF Key
<1>3. w \in {"app", "other", "palette", None} /\ "grace" \in Steps /\ (w = "palette" => session.shown \/ w = None)
  BY DEF Focusable, Steps, Guarded
<1>4. req'[r] = [req[r] EXCEPT !.pc = "grace", !.landed = w] /\ req' = [req EXCEPT ![r] = req'[r]]
  BY <1>2 DEF IInv, Base
<1>5. /\ req'[r] \in RequestState /\ req'[r].pc = "grace" /\ req'[r].exposed = req[r].exposed
      /\ req'[r].kind = req[r].kind /\ req'[r].target = req[r].target /\ req'[r].blind = req[r].blind
      /\ req'[r].typed = None /\ req'[r].landed = w /\ ~req'[r].newer
  BY <1>1, <1>3, <1>4 DEF RequestState
<1>6. Fits(r)' /\ Yields(r)'
  BY <1>1, <1>5 DEF Fits, Yields, At, Is
<1>7. Publishes(r)'
  BY <1>1, <1>5 DEF Publishes, Written, Tracked, Is, At
<1>8. Aims(r)'
  BY <1>1, <1>2, <1>3, <1>5 DEF Aims, TargetExpected, Is, At
<1> QED
  BY <1>1, <1>4, <1>5, <1>6, <1>7, <1>8, HeldMoves

\* The keys type what is on the clipboard.
LEMMA ConsumeMoves == ASSUME IInv, NEW r \in Requests, Consume(r) PROVE Moves(r)
<1>1. /\ At(r, "grace") /\ UNCHANGED <<platform, queue, newest, clip, ours, session>>
      /\ Holds(r) /\ req[r] \in RequestState /\ Fits(r) /\ Publishes(r) /\ Aims(r) /\ ~req[r].newer
      /\ newest \in Requests \cup {None} /\ clip \in Requests \cup {Foreign} /\ ours \in BOOLEAN
      /\ session \in [open : BOOLEAN, target : {"app", "palette", None}, shown : BOOLEAN]
      /\ req' = [req EXCEPT ![r].typed = clip]
  BY Known DEF Consume, At
<1>2. req'[r] = [req[r] EXCEPT !.typed = clip] /\ req' = [req EXCEPT ![r] = req'[r]]
  BY <1>1 DEF IInv, Base
<1>3. /\ req'[r] \in RequestState /\ req'[r].pc = "grace" /\ req'[r].exposed = req[r].exposed
      /\ req'[r].kind = req[r].kind /\ req'[r].target = req[r].target /\ req'[r].blind = req[r].blind
      /\ req'[r].typed = clip /\ req'[r].landed = req[r].landed /\ ~req'[r].newer
  BY <1>1, <1>2 DEF RequestState, At
<1>4. Fits(r)' /\ Yields(r)'
  BY <1>1, <1>3 DEF Fits, Yields, At, Is
<1>5. Publishes(r)'
  BY <1>1, <1>3 DEF Fits, Publishes, Written, Tracked, Is, At
<1>6. Aims(r)'
  BY <1>1, <1>3 DEF Aims, TargetExpected, Is, At
<1> QED
  BY <1>1, <1>2, <1>3, <1>4, <1>5, <1>6, HeldMoves

\* Its grace is over, or its task panics.
LEMMA EndMoves ==
  ASSUME IInv, NEW r \in Requests, GraceEnds(r) \/ TaskDies(r) PROVE Moves(r)
<1>1. Leave(r) /\ UNCHANGED <<platform, newest, clip, ours, session>>
  BY DEF GraceEnds, TaskDies
<1> QED
  BY <1>1, LeaveMoves DEF IInv, Base

\* Nobody waits for it any more.
LEMMA DropMoves == ASSUME IInv, NEW r \in Requests, Drop(r) PROVE Moves(r)
<1>1. /\ UNCHANGED <<platform, newest, clip, ours, session>>
      /\ newest \in Requests \cup {None} /\ clip \in Requests \cup {Foreign} /\ ours \in BOOLEAN
      /\ session \in [open : BOOLEAN, target : {"app", "palette", None}, shown : BOOLEAN]
  BY DEF Drop, IInv, Base
<1>2. CASE Leave(r)
  BY <1>1, <1>2, LeaveMoves
<1>3. CASE req[r].pc \in Guarded /\ req' = [req EXCEPT ![r].caller = FALSE] /\ UNCHANGED queue
  <2>1. Holds(r) /\ req[r] \in RequestState /\ Local(r)
    BY <1>3, Known DEF Guarded, At, IInv
  <2>2. req'[r] = [req[r] EXCEPT !.caller = FALSE] /\ req' = [req EXCEPT ![r] = req'[r]]
    BY <1>3 DEF IInv, Base
  <2>3. /\ req'[r] \in RequestState /\ req'[r].pc = req[r].pc /\ req'[r].kind = req[r].kind
        /\ req'[r].since = req[r].since /\ req'[r].old = req[r].old /\ req'[r].target = req[r].target
        /\ req'[r].landed = req[r].landed /\ req'[r].typed = req[r].typed /\ req'[r].blind = req[r].blind
        /\ req'[r].newer = req[r].newer /\ req'[r].exposed = req[r].exposed
    BY <2>1, <2>2 DEF RequestState
  <2>4. Fits(r)' /\ Yields(r)'
    BY <1>1, <2>1, <2>3 DEF Local, Fits, Yields, Current, At, Is
  <2>5. Publishes(r)'
    BY <1>1, <2>1, <2>3 DEF Local, Publishes, Written, Tracked, Is, At
  <2>6. Aims(r)'
    BY <1>1, <2>1, <2>3 DEF Local, Aims, TargetExpected, Is, At
  <2> QED
    BY <1>1, <1>3, <2>1, <2>2, <2>3, <2>4, <2>5, <2>6, HeldMoves
<1> QED
  BY <1>2, <1>3 DEF Drop

\* It queues.
LEMMA RequestMoves == ASSUME IInv, NEW r \in Requests, Request(r) PROVE Moves(r)
<1>1. /\ At(r, "idle") /\ queue' = Append(queue, r) /\ UNCHANGED <<platform, newest, clip, ours, session>>
      /\ req[r] \in RequestState /\ Local(r) /\ queue \in Seq(Requests)
      /\ req[r].typed = None /\ req[r].landed = None /\ ~req[r].newer
  BY Unsent DEF Request, IInv, Base, Local, Yields, At
<1>2. PICK k \in Kinds : req' = [req EXCEPT ![r].pc = "queued", ![r].kind = k]
  BY DEF Request
<1>3. /\ req'[r] = [req[r] EXCEPT !.pc = "queued", !.kind = k] /\ req' = [req EXCEPT ![r] = req'[r]]
      /\ \A g \in Requests \ {r} : req'[g] = req[g]
  BY <1>2 DEF IInv, Base
<1>4. "queued" \in Steps
  BY DEF Steps
<1>5. /\ req'[r] \in RequestState /\ req'[r].pc = "queued"
      /\ req'[r].typed = None /\ req'[r].landed = None /\ ~req'[r].newer
  BY <1>1, <1>3, <1>4 DEF RequestState
<1>6. Base'
  BY <1>1, <1>3, <1>5 DEF IInv, Base
<1>7. Frame(r)
  <2>1. \A g \in Requests \ {r} : Holds(g) => Holds(g)'
    BY <1>1 DEF Holds
  <2> QED
    BY <1>1, <1>3, <2>1 DEF Frame
<1>8. Local(r)'
  BY <1>5 DEF Local, Leased, Fits, Publishes, Written, Yields, Aims, At
<1> QED
  BY <1>6, <1>7, <1>8 DEF Moves

-----------------------------------------------------------------------------
(* The steps of the user and of the host, which all requests see. *)

\* A step that lets every request be but for what it records.
LEMMA WorldStep ==
  ASSUME IInv, UNCHANGED <<platform, queue, newest>>,
         clip' \in Requests \cup {Foreign}, ours' \in BOOLEAN,
         session' \in [open : BOOLEAN, target : {"app", "palette", None}, shown : BOOLEAN],
         req' \in [Requests -> RequestState],
         \A r \in Requests :
           /\ req'[r].pc = req[r].pc /\ req'[r].kind = req[r].kind /\ req'[r].target = req[r].target
           /\ req'[r].typed = req[r].typed /\ req'[r].landed = req[r].landed
           /\ Publishes(r)' /\ Yields(r)' /\ Aims(r)'
  PROVE  IInv'
<1>1. Base'
  BY DEF IInv, Base
<1>2. ASSUME NEW r \in Requests PROVE Leased(r)' /\ Fits(r)'
  BY <1>2 DEF IInv, Local, Leased, Fits, Holds, At, Is
<1> QED
  BY <1>1, <1>2 DEF IInv, Local

\* A written paste whose clip is not its own any more knows where to look for it;
\* the rest of what its clip is goes with its step, its kind and its keys.
Knows(r) ==
  \/ req[r].blind
  \/ platform = "macos" /\ req[r].old /\ req[r].pc \notin {"key", "grace"}
  \/ ~ours /\ req[r].pc \in {"wrote", "hide", "restore", "paste", "probe"}

LEMMA PublishesOn ==
  ASSUME NEW r \in Requests, Publishes(r), platform' = platform,
         req'[r].pc = req[r].pc, req'[r].kind = req[r].kind, req'[r].typed = req[r].typed,
         req[r].blind => req'[r].blind, clip' \in {clip, Foreign},
         Written(r) /\ clip' = Foreign /\ Tracked => Knows(r)'
  PROVE  Publishes(r)'
<1>1. (Written(r)' <=> Written(r)) /\ (Tracked' <=> Tracked)
  BY DEF Written, Tracked, Is
<1>2. Written(r)' => clip' \in {r, Foreign}
  BY <1>1 DEF Publishes
<1>3. Written(r)' /\ clip' = Foreign /\ Tracked' => Knows(r)'
  BY <1>1
<1>4. (req[r].typed # None =>
         /\ At(r, "grace")
         /\ req[r].typed = r \/ (req[r].typed = Foreign /\ (req[r].blind \/ ~Tracked)))'
  BY <1>1 DEF Publishes, At
<1> QED
  BY <1>2, <1>3, <1>4 DEF Publishes, Knows

\* Another application copies: where a paste cannot see it, it is noted.
LEMMA CopyKeeps == IInv /\ Copy => IInv'
<1> SUFFICES ASSUME IInv, Copy PROVE IInv'
  OBVIOUS
<1>1. /\ clip' = Foreign /\ ours' = FALSE /\ UNCHANGED <<platform, queue, newest, session>>
      /\ session \in [open : BOOLEAN, target : {"app", "palette", None}, shown : BOOLEAN]
  BY DEF Copy, IInv, Base
<1> DEFINE Blind(r) == req[r].blind \/ (Is(r, Pastes) /\ req[r].pc \in {"record", "checks", "key", "grace"})
           Newer(r) == req[r].newer \/ (Is(r, Checked) /\ req[r].pc \in {"queued", "prepare"} /\ ~Current(r))
<1>2. ASSUME NEW r \in Requests
      PROVE  /\ req[r] \in RequestState /\ Local(r)
             /\ req'[r] = [req[r] EXCEPT !.blind = Blind(r), !.newer = Newer(r)]
  BY DEF Copy, IInv, Base
<1>3. ASSUME NEW r \in Requests PROVE Blind(r) \in BOOLEAN /\ Newer(r) \in BOOLEAN
  BY <1>2 DEF RequestState, Is, Current
<1>4. /\ req' = [r \in Requests |-> [req[r] EXCEPT !.blind = Blind(r), !.newer = Newer(r)]]
  BY DEF Copy
<1>5. ASSUME NEW r \in Requests
      PROVE  /\ req'[r] \in RequestState /\ req'[r].pc = req[r].pc /\ req'[r].kind = req[r].kind
             /\ req'[r].target = req[r].target /\ req'[r].typed = req[r].typed
             /\ req'[r].landed = req[r].landed /\ req'[r].since = req[r].since /\ req'[r].old = req[r].old
             /\ req'[r].exposed = req[r].exposed
             /\ req'[r].blind = Blind(r) /\ req'[r].newer = Newer(r)
  <2> HIDE DEF Blind, Newer
  <2>1. PICK q \in RequestState, b \in BOOLEAN, c \in BOOLEAN :
          q = req[r] /\ b = Blind(r) /\ c = Newer(r)
    BY <1>2, <1>3
  <2>2. req'[r] = [q EXCEPT !.blind = b, !.newer = c]
    BY <1>2, <2>1
  <2>3. PICK p : p = req'[r]
    OBVIOUS
  <2>4. /\ p \in RequestState /\ p.pc = q.pc /\ p.kind = q.kind /\ p.target = q.target
        /\ p.typed = q.typed /\ p.landed = q.landed /\ p.since = q.since /\ p.old = q.old
        /\ p.exposed = q.exposed /\ p.blind = b /\ p.newer = c
    BY <2>2, <2>3 DEF RequestState
  <2> QED
    BY <2>1, <2>3, <2>4
<1>a. ASSUME NEW r \in Requests
      PROVE  /\ req[r].blind => req'[r].blind
             /\ Is(r, Pastes) /\ req[r].pc \in {"record", "checks", "key", "grace"} => req'[r].blind
             /\ req'[r].newer =>
                  req[r].newer \/ (Is(r, Checked) /\ req[r].pc \in {"queued", "prepare"} /\ ~Current(r))
  BY <1>5
<1> HIDE DEF Blind, Newer
<1>6. req' \in [Requests -> RequestState]
  BY <1>4, <1>5
<1>7. ASSUME NEW r \in Requests PROVE Publishes(r)'
  <2>1. Written(r) => Knows(r)'
    <3>1. CASE req[r].pc \in {"record", "checks", "key", "grace"}
      BY <1>a, <3>1 DEF Written, Knows
    <3>2. CASE req[r].pc \notin {"record", "checks", "key", "grace"}
      <4>1. Written(r) => req[r].pc \in {"wrote", "hide", "restore", "paste", "probe"}
        BY <3>2 DEF Written
      <4> QED
        BY <1>1, <1>5, <4>1 DEF Knows
    <3> QED
      BY <3>1, <3>2
  <2>2. Publishes(r)
    BY <1>2 DEF Local
  <2> QED
    BY <1>1, <1>5, <1>a, <2>1, <2>2, PublishesOn
<1>8. ASSUME NEW r \in Requests PROVE Yields(r)'
  <2>1. Yields(r) /\ (Current(r)' <=> Current(r))
    BY <1>1, <1>2, <1>5 DEF Local, Current
  <2> QED
    BY <1>5, <1>a, <2>1 DEF Yields, Is
<1>9. ASSUME NEW r \in Requests PROVE Aims(r)'
  <2>1. Aims(r)
    BY <1>2 DEF Local
  <2> QED
    BY <1>1, <1>5, <2>1 DEF Aims, TargetExpected, Is, At
<1> QED
  BY <1>1, <1>5, <1>6, <1>7, <1>8, <1>9, WorldStep

\* The host sleeps: every paste that wrote is old, or its keys are on their way.
LEMMA SleepKeeps == IInv /\ Sleep => IInv'
<1> SUFFICES ASSUME IInv, Sleep PROVE IInv'
  OBVIOUS
<1>1. /\ platform = "macos" /\ UNCHANGED <<platform, queue, newest, session>>
      /\ (clip' = clip /\ ours' = ours) \/ (clip' = Foreign /\ ours' \in BOOLEAN)
      /\ clip' \in Requests \cup {Foreign} /\ ours' \in BOOLEAN
      /\ session \in [open : BOOLEAN, target : {"app", "palette", None}, shown : BOOLEAN]
  BY DEF Sleep, IInv, Base
<1> DEFINE Old(r) == req[r].old \/ (Is(r, Pastes) /\ req[r].pc \notin {"queued", "prepare"})
           Blind(r) == req[r].blind \/ req[r].pc \in {"key", "grace"}
<1>2. ASSUME NEW r \in Requests
      PROVE  /\ req[r] \in RequestState /\ Local(r)
             /\ req'[r] = [req[r] EXCEPT !.old = Old(r), !.blind = Blind(r)]
  BY DEF Sleep, IInv, Base
<1>3. ASSUME NEW r \in Requests PROVE Old(r) \in BOOLEAN /\ Blind(r) \in BOOLEAN
  BY <1>2 DEF RequestState, Is
<1>4. req' = [r \in Requests |-> [req[r] EXCEPT !.old = Old(r), !.blind = Blind(r)]]
  BY DEF Sleep
<1>5. ASSUME NEW r \in Requests
      PROVE  /\ req'[r] \in RequestState /\ req'[r].pc = req[r].pc /\ req'[r].kind = req[r].kind
             /\ req'[r].target = req[r].target /\ req'[r].typed = req[r].typed
             /\ req'[r].landed = req[r].landed /\ req'[r].since = req[r].since /\ req'[r].newer = req[r].newer
             /\ req'[r].exposed = req[r].exposed
             /\ req'[r].old = Old(r) /\ req'[r].blind = Blind(r)
  <2> HIDE DEF Old, Blind
  <2>1. PICK q \in RequestState, b \in BOOLEAN, c \in BOOLEAN :
          q = req[r] /\ b = Old(r) /\ c = Blind(r)
    BY <1>2, <1>3
  <2>2. req'[r] = [q EXCEPT !.old = b, !.blind = c]
    BY <1>2, <2>1
  <2>3. PICK p : p = req'[r]
    OBVIOUS
  <2>4. /\ p \in RequestState /\ p.pc = q.pc /\ p.kind = q.kind /\ p.target = q.target
        /\ p.typed = q.typed /\ p.landed = q.landed /\ p.since = q.since /\ p.newer = q.newer
        /\ p.exposed = q.exposed /\ p.old = b /\ p.blind = c
    BY <2>2, <2>3 DEF RequestState
  <2> QED
    BY <2>1, <2>3, <2>4
<1>a. ASSUME NEW r \in Requests
      PROVE  /\ req[r].blind => req'[r].blind
             /\ req[r].pc \in {"key", "grace"} => req'[r].blind
             /\ Is(r, Pastes) /\ req[r].pc \notin {"queued", "prepare"} => req'[r].old
  BY <1>5
<1> HIDE DEF Blind, Old
<1>6. req' \in [Requests -> RequestState]
  BY <1>4, <1>5
<1>7. ASSUME NEW r \in Requests PROVE Publishes(r)'
  <2>1. Written(r) => Is(r, Pastes) /\ req[r].pc \notin {"queued", "prepare"}
    BY DEF Written
  <2>2. Written(r) => Knows(r)'
    <3>1. CASE req[r].pc \in {"key", "grace"}
      BY <1>a, <3>1 DEF Knows
    <3>2. CASE req[r].pc \notin {"key", "grace"}
      BY <1>1, <1>5, <1>a, <2>1, <3>2 DEF Knows
    <3> QED
      BY <3>1, <3>2
  <2>3. Publishes(r)
    BY <1>2 DEF Local
  <2>4. clip' \in {clip, Foreign}
    BY <1>1
  <2> QED
    BY <1>1, <1>5, <1>a, <2>2, <2>3, <2>4, PublishesOn
<1>8. ASSUME NEW r \in Requests PROVE Yields(r)' /\ Aims(r)'
  <2>1. Yields(r) /\ Aims(r) /\ (Current(r)' <=> Current(r))
    BY <1>1, <1>2, <1>5 DEF Local, Current
  <2>2. Yields(r)'
    BY <1>5, <2>1 DEF Yields, Is
  <2>3. Aims(r)'
    BY <1>1, <1>5, <2>1 DEF Aims, TargetExpected, Is, At
  <2> QED
    BY <2>2, <2>3
<1> QED
  BY <1>1, <1>5, <1>6, <1>7, <1>8, WorldStep

\* The palette is shown: every request of an earlier showing knows.
LEMMA ShowKeeps == IInv /\ Show => IInv'
<1> SUFFICES ASSUME IInv, Show PROVE IInv'
  OBVIOUS
<1>1. /\ UNCHANGED <<platform, queue, newest, clip, ours>>
      /\ clip \in Requests \cup {Foreign} /\ ours \in BOOLEAN
  BY DEF Show, IInv, Base
<1>2. session' \in [open : BOOLEAN, target : {"app", "palette", None}, shown : BOOLEAN]
  <2>1. PICK w \in IF TargetExpected THEN Focusable \ {"other"} ELSE {None} :
          session' = [open |-> TRUE, shown |-> TRUE, target |-> w]
    BY DEF Show
  <2>2. w \in {"app", "palette", None}
    BY <2>1 DEF Focusable
  <2> QED
    BY <2>1, <2>2
<1> DEFINE Since(r) == req[r].since \/ Is(r, Palette)
           Exposed(r) == req[r].exposed \/ (Is(r, Palette) /\ req[r].pc = "key")
<1>3. ASSUME NEW r \in Requests
      PROVE  /\ req[r] \in RequestState /\ Local(r)
             /\ req'[r] = [req[r] EXCEPT !.since = Since(r), !.exposed = Exposed(r)]
  BY DEF Show, IInv, Base
<1>4. ASSUME NEW r \in Requests PROVE Since(r) \in BOOLEAN /\ Exposed(r) \in BOOLEAN
  BY <1>3 DEF RequestState, Is
<1>5. req' = [r \in Requests |-> [req[r] EXCEPT !.since = Since(r), !.exposed = Exposed(r)]]
  BY DEF Show
<1>6. ASSUME NEW r \in Requests
      PROVE  /\ req'[r] \in RequestState /\ req'[r].pc = req[r].pc /\ req'[r].kind = req[r].kind
             /\ req'[r].target = req[r].target /\ req'[r].typed = req[r].typed
             /\ req'[r].landed = req[r].landed /\ req'[r].newer = req[r].newer
             /\ req'[r].blind = req[r].blind /\ req'[r].old = req[r].old
             /\ req'[r].since = Since(r) /\ req'[r].exposed = Exposed(r)
  <2> HIDE DEF Since, Exposed
  <2>1. PICK q \in RequestState, b \in BOOLEAN, c \in BOOLEAN :
          q = req[r] /\ b = Since(r) /\ c = Exposed(r)
    BY <1>3, <1>4
  <2>2. req'[r] = [q EXCEPT !.since = b, !.exposed = c]
    BY <1>3, <2>1
  <2>3. PICK p : p = req'[r]
    OBVIOUS
  <2>4. /\ p \in RequestState /\ p.pc = q.pc /\ p.kind = q.kind /\ p.target = q.target
        /\ p.typed = q.typed /\ p.landed = q.landed /\ p.newer = q.newer /\ p.blind = q.blind
        /\ p.old = q.old /\ p.since = b /\ p.exposed = c
    BY <2>2, <2>3 DEF RequestState
  <2> QED
    BY <2>1, <2>3, <2>4
<1>7. req' \in [Requests -> RequestState]
  BY <1>5, <1>6
<1>8. ASSUME NEW r \in Requests PROVE Publishes(r)'
  <2>1. Publishes(r)
    BY <1>3 DEF Local
  <2>2. Written(r) /\ clip' = Foreign /\ Tracked => Knows(r)'
    BY <1>1, <1>6, <2>1 DEF Publishes, Knows
  <2> QED
    BY <1>1, <1>6, <2>1, <2>2, PublishesOn
<1>9. ASSUME NEW r \in Requests PROVE Yields(r)'
  <2>1. Yields(r) /\ (Is(r, Checked) => req'[r].since)
    BY <1>3, <1>6 DEF Local, Is, Checked, Palette
  <2>2. ~Current(r)' \/ ~Is(r, Checked)
    BY <2>1 DEF Current
  <2> QED
    BY <1>6, <2>1, <2>2 DEF Yields, Is
<1>10. ASSUME NEW r \in Requests PROVE Aims(r)'
  <2>1. Aims(r) /\ req'[r].pc = req[r].pc /\ req'[r].kind = req[r].kind /\ req'[r].target = req[r].target
        /\ req'[r].landed = req[r].landed /\ platform' = platform
    BY <1>1, <1>3, <1>6 DEF Local
  <2>2. Is(r, Palette) => req'[r].since
    BY <1>6
  <2>3. (Is(r, Palette) /\ req[r].pc = "key" => req'[r].exposed) /\ (req[r].exposed => req'[r].exposed)
    BY <1>6
  <2> QED
    BY <2>1, <2>2, <2>3 DEF Aims, TargetExpected, Is, At
<1> HIDE DEF Since, Exposed
<1> QED
  BY <1>1, <1>2, <1>6, <1>7, <1>8, <1>9, <1>10, WorldStep

\* The user dismisses the palette.
LEMMA DismissKeeps == IInv /\ Dismiss => IInv'
<1> SUFFICES ASSUME IInv, Dismiss PROVE IInv'
  OBVIOUS
<1>1. /\ UNCHANGED <<platform, req, queue, newest, clip, ours>> /\ ~session'.shown /\ ~session'.open
      /\ session' \in [open : BOOLEAN, target : {"app", "palette", None}, shown : BOOLEAN]
      /\ clip \in Requests \cup {Foreign} /\ ours \in BOOLEAN /\ req \in [Requests -> RequestState]
  BY DEF Dismiss, IInv, Base
<1>2. ASSUME NEW r \in Requests PROVE Local(r)
  BY DEF IInv
<1>3. ASSUME NEW r \in Requests PROVE Publishes(r)'
  BY <1>1, <1>2 DEF Local, Publishes, Written, Tracked, Is, At
<1>4. ASSUME NEW r \in Requests PROVE Yields(r)' /\ Aims(r)'
  BY <1>1, <1>2 DEF Local, Yields, Aims, Current, TargetExpected, Is, At
<1> QED
  BY <1>1, <1>3, <1>4, WorldStep

-----------------------------------------------------------------------------

\* Nobody has asked for anything yet.
LEMMA Starts == Init => IInv
<1> SUFFICES ASSUME Init PROVE IInv
  OBVIOUS
<1>1. Idle \in RequestState
  BY DEF Idle, RequestState, Steps
<1>2. Base
  <2>1. queue \in Seq(Requests) /\ req \in [Requests -> RequestState]
    BY <1>1 DEF Init
  <2> QED
    BY <2>1 DEF Init, Base
<1>3. ASSUME NEW r \in Requests PROVE Local(r)
  BY LeaseAssumption DEF Init, Idle, Local, Leased, Fits, Publishes, Written, Yields, Aims, At, Is, Palette, Pastes,
     Checked
<1> QED
  BY <1>2, <1>3 DEF IInv

\* Every step keeps the invariant.
LEMMA StepsKeep == IInv /\ [Next]_vars => IInv'
<1> SUFFICES ASSUME IInv, [Next]_vars PROVE IInv'
  OBVIOUS
<1>1. ASSUME NEW r \in Requests, Request(r) \/ Own(r) \/ Consume(r) \/ Drop(r) \/ TaskDies(r)
      PROVE  IInv'
  <2>1. Moves(r)
    BY <1>1, AcquiredMoves, PreparedMoves, WriteMoves, RecordMoves, WroteMoves, CopiedMoves, HideMoves,
       RestoreMoves, PasteMoves, KeyMoves, ConsumeMoves, EndMoves, DropMoves, RequestMoves DEF Own
  <2> QED
    BY <2>1, OwnStep DEF Moves
<1>2. CASE Copy \/ Sleep \/ Show \/ Dismiss
  BY <1>2, CopyKeeps, SleepKeeps, ShowKeeps, DismissKeeps
<1>3. CASE UNCHANGED vars
  BY <1>3 DEF vars, IInv, Base, Local, Leased, Fits, Publishes, Written, Yields, Aims, Current, Holds, Tracked,
     TargetExpected, At, Is
<1> QED
  BY <1>1, <1>2, <1>3 DEF Next

\* It holds in every state that can be reached.
LEMMA Inductive == Spec => []IInv
BY Starts, StepsKeep, PTL DEF Spec

\* The types; and whoever has a call to the operating system in flight holds the
\* lease, waited for or not.
THEOREM LeaseCoversCalls == Spec => []TypeOK
<1>1. IInv => TypeOK
  BY DEF IInv, Base, Local, Leased, TypeOK, RequestState, Guarded, At
<1> QED
  BY <1>1, Inductive, PTL

\* A paste types its own clip, or a foreign one that came where nothing can tell.
THEOREM PastesTypeTheirClip == Spec => []KeysTypeTheRightClip
<1>1. IInv => KeysTypeTheRightClip
  BY DEF IInv, Local, Publishes, KeysTypeTheRightClip
<1> QED
  BY <1>1, Inductive, PTL

\* A palette copy the user has moved on from writes nothing.
THEOREM NewerCopyStays == Spec => []OverwritesNothingNewer
<1>1. IInv => OverwritesNothingNewer
  BY DEF IInv, Local, Yields, OverwritesNothingNewer
<1> QED
  BY <1>1, Inductive, PTL

\* The keys of a palette paste reach its target, and never a palette it has seen.
THEOREM PastesReachTheirTarget == Spec => []KeysReachTheTarget
<1>1. IInv => KeysReachTheTarget
  BY DEF IInv, Local, Aims, KeysReachTheTarget
<1> QED
  BY <1>1, Inductive, PTL

-----------------------------------------------------------------------------
(* The lease is a fair lock. *)

\* A request whose next step is under the lease, or waits for it.
InLine(r) == req[r].pc \notin {"idle", "copied"} /\ ~(At(r, "hide") /\ Is(r, {"copy"}))

Inside == {r \in Requests : req[r].pc \in Guarded}

\* Every request that is under the lease or waits for it has one place in the queue, and
\* no other has: no lease outlives its request, and no request waits outside the queue.
OnePlaceEach ==
  /\ \A i, j \in DOMAIN queue : queue[i] = queue[j] => i = j
  /\ \A r \in Requests : InLine(r) <=> \E i \in DOMAIN queue : queue[i] = r

\* What a step of one request does to its place.
Stays(r) == queue' = queue /\ (InLine(r)' <=> InLine(r))
Quits(r) == queue' = Without(r) /\ ~InLine(r)' /\ req'[r].pc \notin Guarded
Joins(r) == /\ queue' = Append(queue, r) /\ ~InLine(r) /\ InLine(r)'
            /\ req[r].pc \notin Guarded /\ req'[r].pc \notin Guarded

\* A sequence without its i-th element.
LEMMA Removed ==
  ASSUME NEW R, NEW q \in Seq(R), NEW i \in DOMAIN q
  PROVE  LET p == SubSeq(q, 1, i - 1) \o SubSeq(q, i + 1, Len(q))
         IN  /\ p \in Seq(R) /\ DOMAIN p = 1..(Len(q) - 1)
             /\ \A k \in DOMAIN p : p[k] = IF k < i THEN q[k] ELSE q[k + 1]
<1> DEFINE n == Len(q)
           a == SubSeq(q, 1, i - 1)
           b == SubSeq(q, i + 1, n)
           p == a \o b
<1>1. i \in 1..n /\ n \in Nat /\ \A k \in 1..n : q[k] \in R
  OBVIOUS
<1> HIDE DEF n
<1>2. a \in Seq(R) /\ Len(a) = i - 1 /\ \A k \in 1..(i - 1) : a[k] = q[k]
  BY <1>1, SubSeqProperties
<1>3. b \in Seq(R) /\ Len(b) = n - i /\ \A k \in 1..(n - i) : b[k] = q[i + k]
  <2>1. i + 1 \in Int /\ n \in Int /\ \A k \in (i + 1)..n : q[k] \in R
    BY <1>1
  <2>2. /\ b \in Seq(R) /\ Len(b) = IF i + 1 <= n THEN n - (i + 1) + 1 ELSE 0
        /\ \A k \in 1..(n - (i + 1) + 1) : b[k] = q[i + 1 + k - 1]
    BY <2>1, SubSeqProperties
  <2>3. n - (i + 1) + 1 = n - i /\ \A k \in 1..(n - i) : i + 1 + k - 1 = i + k
    BY <1>1
  <2> HIDE DEF b
  <2> QED
    BY <1>1, <2>2, <2>3
<1> HIDE DEF a, b
<1>4. /\ p \in Seq(R) /\ Len(p) = Len(a) + Len(b)
      /\ \A k \in 1..(Len(a) + Len(b)) : p[k] = IF k <= Len(a) THEN a[k] ELSE b[k - Len(a)]
  BY <1>2, <1>3, ConcatProperties
<1> HIDE DEF p
<1>a. Len(a) + Len(b) = n - 1
  BY <1>1, <1>2, <1>3
<1>b. \A k \in 1..(n - 1) : p[k] = IF k <= i - 1 THEN a[k] ELSE b[k - (i - 1)]
  BY <1>2, <1>4, <1>a
<1>5. p \in Seq(R) /\ DOMAIN p = 1..(n - 1)
  BY <1>4, <1>a
<1>6. ASSUME NEW k \in 1..(n - 1) PROVE p[k] = IF k < i THEN q[k] ELSE q[k + 1]
  <2>1. k \in Int /\ i \in Int /\ n \in Int /\ 1 <= k /\ k <= n - 1 /\ 1 <= i /\ i <= n
    BY <1>1
  <2>2. p[k] = IF k <= i - 1 THEN a[k] ELSE b[k - (i - 1)]
    BY <1>b
  <2>3. CASE k < i
    BY <1>2, <2>1, <2>2, <2>3
  <2>4. CASE ~(k < i)
    <3>1. k - (i - 1) \in 1..(n - i) /\ i + (k - (i - 1)) = k + 1
      BY <2>1, <2>4
    <3> QED
      BY <1>3, <2>1, <2>2, <2>4, <3>1
  <2> QED
    BY <2>3, <2>4
<1> QED
  BY <1>5, <1>6 DEF n, p, a, b

\* Where a request is, before and after it goes on: under the lease.
LEMMA GoesOn ==
  ASSUME IInv, NEW r \in Requests, NEW l \in Steps \ {"idle", "copied", "hide"}, Goto(r, l), InLine(r)
  PROVE  Stays(r)
<1>1. req'[r].pc = l /\ queue' = queue
  BY Going
<1> QED
  BY <1>1 DEF Stays, InLine, At, Is

LEMMA Gone ==
  ASSUME IInv, NEW r \in Requests, Leave(r)
  PROVE  Quits(r)
<1>1. req'[r] = Idle
  BY DEF IInv, Base, Leave
<1> QED
  BY <1>1 DEF Quits, Leave, InLine, Idle, Guarded

\* A step of the request either keeps its place or gives it up.
LEMMA OwnPlace ==
  ASSUME IInv, NEW r \in Requests, Own(r) \/ Consume(r) \/ Drop(r) \/ TaskDies(r)
  PROVE  Stays(r) \/ Quits(r)
<1>0. req[r] \in RequestState /\ Local(r) /\ session.target \in {"app", "palette", None}
  BY DEF IInv, Base
<1>1. CASE Leave(r)
  BY <1>1, Gone
<1>2. ASSUME NEW l \in Steps \ {"idle", "copied", "hide"}, Goto(r, l),
             req[r].pc \notin {"idle", "copied", "hide"} \/ (At(r, "hide") /\ ~Is(r, {"copy"}))
      PROVE  Stays(r)
  BY <1>2, GoesOn DEF InLine, At
<1>3. ASSUME FinishToHide(r), req[r].pc \notin {"idle", "hide"},
             At(r, "copied") <=> Is(r, {"copy"})
      PROVE  Stays(r)
  <2> DEFINE n == [req[r] EXCEPT !.pc = "hide", !.target = session.target]
  <2>1. n.pc = "hide" /\ n.kind = req[r].kind
    BY <1>0 DEF RequestState
  <2>2. req'[r] = n /\ queue' = queue
    BY <1>3 DEF FinishToHide, IInv, Base
  <2> HIDE DEF n
  <2> QED
    BY <1>3, <2>1, <2>2 DEF Stays, InLine, At, Is
<1>4. {"prepare", "write", "record", "wrote", "restore", "paste", "probe", "checks", "key", "grace"}
         \subseteq Steps \ {"idle", "copied", "hide"}
  BY DEF Steps, Guarded
<1>5. CASE Acquired(r)
  <2>1. At(r, "queued")
    BY <1>5 DEF Acquired
  <2>2. CASE Is(r, {"pasteEntry"}) /\ FinishToHide(r)
    BY <1>3, <2>1, <2>2 DEF At, Is
  <2>3. CASE Goto(r, "prepare")
    BY <1>2, <1>4, <2>1, <2>3 DEF At
  <2> QED
    BY <1>1, <1>5, <2>2, <2>3 DEF Acquired
<1>6. CASE PrepareFails(r) \/ Prepared(r)
  BY <1>1, <1>2, <1>4, <1>6 DEF PrepareFails, Prepared, At
<1>7. CASE Write(r) \/ WriteFails(r) \/ Record(r)
  BY <1>1, <1>2, <1>4, <1>7 DEF Write, WriteFails, Record, At
<1>8. CASE Wrote(r)
  <2>1. At(r, "wrote")
    BY <1>8 DEF Wrote
  <2>2. CASE Goto(r, "paste")
    BY <1>2, <1>4, <2>1, <2>2 DEF At
  <2>3. CASE Is(r, {"paste"}) /\ FinishToHide(r)
    BY <1>3, <2>1, <2>3 DEF At, Is
  <2>4. CASE req' = [req EXCEPT ![r].pc = "copied"] /\ queue' = Without(r)
    <3>1. req'[r].pc = "copied"
      BY <1>0, <2>4 DEF IInv, Base, RequestState
    <3> QED
      BY <2>4, <3>1 DEF Quits, InLine, Guarded
  <2> QED
    BY <1>1, <1>8, <2>2, <2>3, <2>4 DEF Wrote
<1>9. CASE Copied(r)
  BY <1>0, <1>1, <1>3, <1>9 DEF Copied, Local, Fits, At
<1>10. CASE Hide(r) \/ HideFails(r)
  <2>1. At(r, "hide")
    BY <1>10 DEF Hide, HideFails
  <2>2. CASE ~Is(r, {"copy"}) /\ Goto(r, "restore")
    BY <1>2, <1>4, <2>1, <2>2
  <2>3. CASE Is(r, {"pasteEntry"}) /\ queue' = queue
             /\ req' = [req EXCEPT ![r].pc = "restore", ![r].exposed = TRUE]
    <3>1. req'[r].pc = "restore"
      BY <1>0, <2>3 DEF IInv, Base, RequestState
    <3> QED
      BY <2>1, <2>3, <3>1 DEF Stays, InLine, At, Is
  <2> QED
    BY <1>1, <1>10, <2>2, <2>3 DEF Hide, HideFails
<1>11. CASE Restore(r)
  <2>1. At(r, "restore")
    BY <1>11 DEF Restore
  <2>2. ASSUME NEW l \in {"prepare", "paste"}, NEW ok \in BOOLEAN, queue' = queue,
               req' = [req EXCEPT ![r].pc = l, ![r].restored = ok]
        PROVE  Stays(r)
    <3>1. req'[r].pc = l
      BY <1>0, <2>2 DEF IInv, Base, RequestState
    <3> QED
      BY <2>1, <2>2, <3>1 DEF Stays, InLine, At
  <2>3. PICK ok \in BOOLEAN :
          IF Is(r, {"pasteEntry"})
          THEN req' = [req EXCEPT ![r].pc = "prepare", ![r].restored = ok] /\ UNCHANGED queue
          ELSE IF ok
          THEN req' = [req EXCEPT ![r].pc = "paste", ![r].restored = TRUE] /\ UNCHANGED queue
          ELSE Leave(r)
    BY <1>11 DEF Restore
  <2> QED
    BY <1>1, <2>2, <2>3
<1>12. CASE Paste(r) \/ Probe(r) \/ Checks(r)
  BY <1>1, <1>2, <1>4, <1>12 DEF Paste, Probe, Checks, At
<1>13. CASE Key(r)
  <2>1. PICK w : req' = [req EXCEPT ![r].pc = "grace", ![r].landed = w]
    BY <1>13 DEF Key
  <2>2. req'[r].pc = "grace"
    BY <1>0, <2>1 DEF IInv, Base, RequestState
  <2> QED
    BY <1>13, <2>2 DEF Key, Stays, InLine, At
<1>14. CASE GraceEnds(r) \/ TaskDies(r)
  BY <1>1, <1>14 DEF GraceEnds, TaskDies
<1>15. CASE Consume(r)
  <2>1. req'[r].pc = req[r].pc /\ queue' = queue
    BY <1>0, <1>15 DEF Consume, IInv, Base, RequestState
  <2> QED
    BY <1>15, <2>1 DEF Consume, Stays, InLine, At
<1>16. CASE Drop(r)
  <2>1. CASE req[r].pc \in Guarded /\ req' = [req EXCEPT ![r].caller = FALSE] /\ UNCHANGED queue
    <3>1. req'[r].pc = req[r].pc
      BY <1>0, <2>1 DEF IInv, Base, RequestState
    <3> QED
      BY <2>1, <3>1 DEF Stays, InLine, At, Guarded
  <2> QED
    BY <1>1, <1>16, <2>1 DEF Drop
<1> QED
  BY <1>5, <1>6, <1>7, <1>8, <1>9, <1>10, <1>11, <1>12, <1>13, <1>14, <1>15, <1>16 DEF Own

LEMMA RequestPlace ==
  ASSUME IInv, NEW r \in Requests, Request(r)
  PROVE  Joins(r)
<1>1. PICK k \in Kinds : req' = [req EXCEPT ![r].pc = "queued", ![r].kind = k]
  BY DEF Request
<1>2. req'[r].pc = "queued"
  BY <1>1 DEF IInv, Base, RequestState
<1> QED
  BY <1>2 DEF Request, Joins, InLine, At, Guarded

\* A step of a request leaves the others where they are, and one of the user or the host
\* leaves all of them.
Alone(r) == \A g \in Requests \ {r} : req'[g] = req[g]

\* What a step of the user or the host writes down about a request does not move it.
LEMMA CopyStands ==
  IInv /\ Copy => queue' = queue /\ \A r \in Requests : req'[r].pc = req[r].pc /\ req'[r].kind = req[r].kind
<1> SUFFICES ASSUME IInv, Copy
             PROVE  queue' = queue /\ \A r \in Requests : req'[r].pc = req[r].pc /\ req'[r].kind = req[r].kind
  OBVIOUS
<1>1. /\ clip' = Foreign /\ ours' = FALSE /\ UNCHANGED <<platform, queue, newest, session>>
      /\ session \in [open : BOOLEAN, target : {"app", "palette", None}, shown : BOOLEAN]
  BY DEF Copy, IInv, Base
<1> DEFINE Blind(r) == req[r].blind \/ (Is(r, Pastes) /\ req[r].pc \in {"record", "checks", "key", "grace"})
           Newer(r) == req[r].newer \/ (Is(r, Checked) /\ req[r].pc \in {"queued", "prepare"} /\ ~Current(r))
<1>2. ASSUME NEW r \in Requests
      PROVE  /\ req[r] \in RequestState /\ Local(r)
             /\ req'[r] = [req[r] EXCEPT !.blind = Blind(r), !.newer = Newer(r)]
  BY DEF Copy, IInv, Base
<1>3. ASSUME NEW r \in Requests PROVE Blind(r) \in BOOLEAN /\ Newer(r) \in BOOLEAN
  BY <1>2 DEF RequestState, Is, Current
<1>4. ASSUME NEW r \in Requests PROVE req'[r].pc = req[r].pc /\ req'[r].kind = req[r].kind
  <2> HIDE DEF Blind, Newer
  <2>1. PICK q \in RequestState, b \in BOOLEAN, c \in BOOLEAN :
          q = req[r] /\ b = Blind(r) /\ c = Newer(r)
    BY <1>2, <1>3
  <2>2. req'[r] = [q EXCEPT !.blind = b, !.newer = c]
    BY <1>2, <2>1
  <2>3. PICK p : p = req'[r]
    OBVIOUS
  <2>4. p.pc = q.pc /\ p.kind = q.kind
    BY <2>2, <2>3 DEF RequestState
  <2> QED
    BY <2>1, <2>3, <2>4
<1> QED
  BY <1>1, <1>4

LEMMA SleepStands ==
  IInv /\ Sleep => queue' = queue /\ \A r \in Requests : req'[r].pc = req[r].pc /\ req'[r].kind = req[r].kind
<1> SUFFICES ASSUME IInv, Sleep
             PROVE  queue' = queue /\ \A r \in Requests : req'[r].pc = req[r].pc /\ req'[r].kind = req[r].kind
  OBVIOUS
<1>1. /\ platform = "macos" /\ UNCHANGED <<platform, queue, newest, session>>
      /\ (clip' = clip /\ ours' = ours) \/ (clip' = Foreign /\ ours' \in BOOLEAN)
      /\ clip' \in Requests \cup {Foreign} /\ ours' \in BOOLEAN
      /\ session \in [open : BOOLEAN, target : {"app", "palette", None}, shown : BOOLEAN]
  BY DEF Sleep, IInv, Base
<1> DEFINE Old(r) == req[r].old \/ (Is(r, Pastes) /\ req[r].pc \notin {"queued", "prepare"})
           Blind(r) == req[r].blind \/ req[r].pc \in {"key", "grace"}
<1>2. ASSUME NEW r \in Requests
      PROVE  /\ req[r] \in RequestState /\ Local(r)
             /\ req'[r] = [req[r] EXCEPT !.old = Old(r), !.blind = Blind(r)]
  BY DEF Sleep, IInv, Base
<1>3. ASSUME NEW r \in Requests PROVE Old(r) \in BOOLEAN /\ Blind(r) \in BOOLEAN
  BY <1>2 DEF RequestState, Is, Current
<1>4. ASSUME NEW r \in Requests PROVE req'[r].pc = req[r].pc /\ req'[r].kind = req[r].kind
  <2> HIDE DEF Old, Blind
  <2>1. PICK q \in RequestState, b \in BOOLEAN, c \in BOOLEAN :
          q = req[r] /\ b = Old(r) /\ c = Blind(r)
    BY <1>2, <1>3
  <2>2. req'[r] = [q EXCEPT !.old = b, !.blind = c]
    BY <1>2, <2>1
  <2>3. PICK p : p = req'[r]
    OBVIOUS
  <2>4. p.pc = q.pc /\ p.kind = q.kind
    BY <2>2, <2>3 DEF RequestState
  <2> QED
    BY <2>1, <2>3, <2>4
<1> QED
  BY <1>1, <1>4

LEMMA ShowStands ==
  IInv /\ Show => queue' = queue /\ \A r \in Requests : req'[r].pc = req[r].pc /\ req'[r].kind = req[r].kind
<1> SUFFICES ASSUME IInv, Show
             PROVE  queue' = queue /\ \A r \in Requests : req'[r].pc = req[r].pc /\ req'[r].kind = req[r].kind
  OBVIOUS
<1>1. /\ UNCHANGED <<platform, queue, newest, clip, ours>>
      /\ clip \in Requests \cup {Foreign} /\ ours \in BOOLEAN
  BY DEF Show, IInv, Base
<1> DEFINE Since(r) == req[r].since \/ Is(r, Palette)
           Exposed(r) == req[r].exposed \/ (Is(r, Palette) /\ req[r].pc = "key")
<1>2. ASSUME NEW r \in Requests
      PROVE  /\ req[r] \in RequestState /\ Local(r)
             /\ req'[r] = [req[r] EXCEPT !.since = Since(r), !.exposed = Exposed(r)]
  BY DEF Show, IInv, Base
<1>3. ASSUME NEW r \in Requests PROVE Since(r) \in BOOLEAN /\ Exposed(r) \in BOOLEAN
  BY <1>2 DEF RequestState, Is, Current
<1>4. ASSUME NEW r \in Requests PROVE req'[r].pc = req[r].pc /\ req'[r].kind = req[r].kind
  <2> HIDE DEF Since, Exposed
  <2>1. PICK q \in RequestState, b \in BOOLEAN, c \in BOOLEAN :
          q = req[r] /\ b = Since(r) /\ c = Exposed(r)
    BY <1>2, <1>3
  <2>2. req'[r] = [q EXCEPT !.since = b, !.exposed = c]
    BY <1>2, <2>1
  <2>3. PICK p : p = req'[r]
    OBVIOUS
  <2>4. p.pc = q.pc /\ p.kind = q.kind
    BY <2>2, <2>3 DEF RequestState
  <2> QED
    BY <2>1, <2>3, <2>4
<1> QED
  BY <1>1, <1>4

LEMMA PlaceStep ==
  ASSUME IInv, [Next]_vars
  PROVE  \/ \E r \in Requests : Alone(r) /\ (Stays(r) \/ Quits(r) \/ Joins(r))
         \/ /\ queue' = queue
            /\ \A r \in Requests : (InLine(r)' <=> InLine(r)) /\ req'[r].pc = req[r].pc
<1>1. ASSUME NEW r \in Requests, Request(r) \/ Own(r) \/ Consume(r) \/ Drop(r) \/ TaskDies(r)
      PROVE  Alone(r)
  <2>1. Own(r) => Moves(r)
    BY AcquiredMoves, PreparedMoves, WriteMoves, RecordMoves, WroteMoves, CopiedMoves, HideMoves,
       RestoreMoves, PasteMoves, KeyMoves, EndMoves DEF Own
  <2>2. Moves(r)
    BY <1>1, <2>1, EndMoves, ConsumeMoves, DropMoves, RequestMoves
  <2> QED
    BY <2>2 DEF Moves, Frame, Alone
<1>2. CASE Copy \/ Sleep \/ Show \/ Dismiss \/ UNCHANGED vars
  <2>1. queue' = queue /\ \A r \in Requests : req'[r].pc = req[r].pc /\ req'[r].kind = req[r].kind
    <3>1. CASE Dismiss \/ UNCHANGED vars
      BY <3>1 DEF Dismiss, vars
    <3> QED
      BY <1>2, <3>1, CopyStands, SleepStands, ShowStands
  <2> QED
    BY <2>1 DEF InLine, At, Is
<1> QED
  BY <1>1, <1>2, OwnPlace, RequestPlace DEF Next

\* What a request that gives up its place leaves of the queue.
LEMMA Left ==
  ASSUME OnePlaceEach, queue \in Seq(Requests), NEW r \in Requests
  PROVE  \/ ~InLine(r) /\ Without(r) = queue
         \/ /\ InLine(r)
            /\ \E i \in DOMAIN queue :
                 /\ queue[i] = r
                 /\ Without(r) = SubSeq(queue, 1, i - 1) \o SubSeq(queue, i + 1, Len(queue))
                 /\ Without(r) \in Seq(Requests) /\ DOMAIN Without(r) = 1..(Len(queue) - 1)
                 /\ \A k \in DOMAIN Without(r) :
                      Without(r)[k] = IF k < i THEN queue[k] ELSE queue[k + 1]
<1>1. CASE ~InLine(r)
  BY <1>1 DEF OnePlaceEach, Without
<1>2. CASE InLine(r)
  <2> DEFINE i == CHOOSE j \in DOMAIN queue : queue[j] = r
  <2>1. i \in DOMAIN queue /\ queue[i] = r /\ Without(r) = RemoveAt(queue, i)
    BY <1>2 DEF OnePlaceEach, Without
  <2> HIDE DEF i
  <2>2. Without(r) = SubSeq(queue, 1, i - 1) \o SubSeq(queue, i + 1, Len(queue))
    BY <2>1 DEF RemoveAt
  <2>3. /\ Without(r) \in Seq(Requests) /\ DOMAIN Without(r) = 1..(Len(queue) - 1)
        /\ \A k \in DOMAIN Without(r) : Without(r)[k] = IF k < i THEN queue[k] ELSE queue[k + 1]
    <3> DEFINE p == SubSeq(queue, 1, i - 1) \o SubSeq(queue, i + 1, Len(queue))
    <3>1. /\ p \in Seq(Requests) /\ DOMAIN p = 1..(Len(queue) - 1)
          /\ \A k \in DOMAIN p : p[k] = IF k < i THEN queue[k] ELSE queue[k + 1]
      BY <2>1, Removed, Zenon
    <3> HIDE DEF p, Without
    <3>2. Without(r) = p
      BY <2>2 DEF p
    <3> QED
      BY <3>1, <3>2
  <2> HIDE DEF Without
  <2> QED
    BY <1>2, <2>1, <2>2, <2>3
<1> QED
  BY <1>1, <1>2

LEMMA Joined ==
  ASSUME queue \in Seq(Requests), NEW r \in Requests
  PROVE  /\ DOMAIN Append(queue, r) = 1..(Len(queue) + 1) /\ Len(queue) \in Nat
         /\ DOMAIN queue = 1..Len(queue)
         /\ \A k \in DOMAIN queue : Append(queue, r)[k] = queue[k]
         /\ Append(queue, r)[Len(queue) + 1] = r
OBVIOUS

LEMMA OnePlaceStep ==
  ASSUME IInv, OnePlaceEach, [Next]_vars
  PROVE  OnePlaceEach'
<1>1. queue \in Seq(Requests) /\ DOMAIN queue = 1..Len(queue) /\ Len(queue) \in Nat
  BY DEF IInv, Base
<1>2. CASE queue' = queue /\ \A r \in Requests : InLine(r)' <=> InLine(r)
  BY <1>2 DEF OnePlaceEach
<1>3. ASSUME NEW r \in Requests, Alone(r), Stays(r) \/ Quits(r) \/ Joins(r)
      PROVE  OnePlaceEach'
  <2>1. \A g \in Requests \ {r} : InLine(g)' <=> InLine(g)
    BY <1>3 DEF Alone, InLine, At, Is
  <2>2. CASE Stays(r)
    BY <1>2, <2>1, <2>2 DEF Stays
  <2>3. CASE Quits(r)
    <3>1. CASE ~InLine(r) /\ Without(r) = queue
      BY <1>2, <2>1, <2>3, <3>1 DEF Quits
    <3>2. CASE InLine(r) /\ Without(r) # queue
      <4>1. PICK i \in DOMAIN queue :
               /\ queue[i] = r /\ DOMAIN Without(r) = 1..(Len(queue) - 1)
               /\ \A k \in DOMAIN Without(r) :
                    Without(r)[k] = IF k < i THEN queue[k] ELSE queue[k + 1]
        BY <1>1, <3>2, Left
      <4>2. PICK n \in Nat : n = Len(queue)
        BY <1>1, Zenon
      <4>3. i \in 1..n /\ DOMAIN queue = 1..n /\ queue' = Without(r) /\ DOMAIN queue' = 1..(n - 1)
        BY <1>1, <2>3, <4>1, <4>2 DEF Quits
      <4>4. \A k \in 1..(n - 1) : queue'[k] = IF k < i THEN queue[k] ELSE queue[k + 1]
        BY <4>1, <4>3
      <4>5. \A k, l \in 1..n : queue[k] = queue[l] => k = l
        BY <4>3 DEF OnePlaceEach
      <4>6. \A k, l \in DOMAIN queue' : queue'[k] = queue'[l] => k = l
        <5> SUFFICES ASSUME NEW k \in 1..(n - 1), NEW l \in 1..(n - 1), queue'[k] = queue'[l]
                     PROVE  k = l
          BY <4>3
        <5> DEFINE f == IF k < i THEN k ELSE k + 1
                   g == IF l < i THEN l ELSE l + 1
        <5>1. f \in 1..n /\ g \in 1..n /\ queue'[k] = queue[f] /\ queue'[l] = queue[g]
          BY <4>3, <4>4
        <5>2. f = g
          BY <4>5, <5>1
        <5> QED
          BY <4>3, <5>2
      <4>7. ASSUME NEW g \in Requests \ {r}, NEW j \in 1..n, queue[j] = g
            PROVE  \E k \in DOMAIN queue' : queue'[k] = g
        <5>1. j # i
          BY <4>1, <4>7
        <5>2. CASE j < i
          BY <4>3, <4>4, <4>7, <5>2
        <5>3. CASE j > i
          <6>1. j - 1 \in 1..(n - 1) /\ ~(j - 1 < i) /\ (j - 1) + 1 = j
            BY <4>3, <5>3
          <6> QED
            BY <4>3, <4>4, <4>7, <6>1
        <5> QED
          BY <4>3, <5>1, <5>2, <5>3
      <4>8. ASSUME NEW k \in DOMAIN queue' PROVE queue'[k] # r /\ \E j \in 1..n : queue[j] = queue'[k]
        <5>1. CASE k < i
          BY <4>1, <4>3, <4>4, <4>5, <4>8, <5>1
        <5>2. CASE ~(k < i)
          <6>1. k + 1 \in 1..n /\ k + 1 # i /\ queue'[k] = queue[k + 1]
            BY <4>3, <4>4, <4>8, <5>2
          <6> QED
            BY <4>1, <4>3, <4>5, <6>1
        <5> QED
          BY <5>1, <5>2
      <4>9. \A g \in Requests : InLine(g)' <=> \E k \in DOMAIN queue' : queue'[k] = g
        BY <2>1, <2>3, <4>3, <4>7, <4>8 DEF OnePlaceEach, Quits
      <4> QED
        BY <4>6, <4>9 DEF OnePlaceEach
    <3> QED
      BY <1>1, <3>1, <3>2, Left, <2>3, <1>2, <2>1 DEF Quits
  <2>4. CASE Joins(r)
    <3>1. PICK n \in Nat : n = Len(queue)
      BY <1>1, Zenon
    <3>2. /\ DOMAIN queue' = 1..(n + 1) /\ DOMAIN queue = 1..n /\ queue'[n + 1] = r
          /\ \A k \in 1..n : queue'[k] = queue[k] /\ queue[k] # r
      BY <1>1, <2>4, <3>1, Joined DEF Joins, OnePlaceEach
    <3>3. \A k, l \in 1..n : queue[k] = queue[l] => k = l
      BY <3>2 DEF OnePlaceEach
    <3>4. \A k \in 1..(n + 1) : k \in 1..n \/ k = n + 1
      OBVIOUS
    <3>5. \A k, l \in 1..(n + 1) : queue'[k] = queue'[l] => k = l
      BY <3>2, <3>3, <3>4
    <3>6. n + 1 \in 1..(n + 1) /\ 1..n \subseteq 1..(n + 1)
      OBVIOUS
    <3>7. \A g \in Requests : InLine(g)' <=> \E k \in 1..(n + 1) : queue'[k] = g
      BY <2>1, <2>4, <3>2, <3>4, <3>6 DEF OnePlaceEach, Joins
    <3> QED
      BY <3>2, <3>5, <3>7 DEF OnePlaceEach
  <2> QED
    BY <1>3, <2>2, <2>3, <2>4
<1> QED
  BY <1>2, <1>3, PlaceStep

\* Every request under the lease or waiting for it has one place in the queue, and no
\* request that ended, was dropped or gave the lease back has one.
THEOREM NoLeaseLeaks == Spec => []OnePlaceEach
<1>1. Init => OnePlaceEach
  BY DEF Init, OnePlaceEach, InLine, Idle
<1>2. IInv /\ OnePlaceEach /\ [Next]_vars => OnePlaceEach'
  BY OnePlaceStep
<1> QED
  BY <1>1, <1>2, Inductive, PTL DEF Spec

\* The order of the line: who stands before another does not come to stand behind it.
KeepsOrder ==
  \A i, j \in DOMAIN queue : \A k, l \in DOMAIN queue' :
    i < j /\ queue'[k] = queue[i] /\ queue'[l] = queue[j] => k < l

LEMMA OrderStep ==
  ASSUME IInv, OnePlaceEach, [Next]_vars
  PROVE  KeepsOrder
<1>1. queue \in Seq(Requests) /\ DOMAIN queue = 1..Len(queue) /\ Len(queue) \in Nat
  BY DEF IInv, Base
<1>2. PICK n \in Nat : n = Len(queue)
  BY <1>1, Zenon
<1>3. /\ DOMAIN queue = 1..n
      /\ \A k, l \in 1..n : queue[k] = queue[l] => k = l
  BY <1>1, <1>2 DEF OnePlaceEach
<1>4. CASE queue' = queue
  BY <1>3, <1>4 DEF KeepsOrder
<1>5. ASSUME NEW r \in Requests, Quits(r), queue' # queue PROVE KeepsOrder
  <2>1. PICK i \in DOMAIN queue :
          /\ queue[i] = r /\ DOMAIN Without(r) = 1..(Len(queue) - 1)
          /\ \A k \in DOMAIN Without(r) :
               Without(r)[k] = IF k < i THEN queue[k] ELSE queue[k + 1]
    BY <1>1, <1>5, Left DEF Quits
  <2>2. i \in 1..n /\ queue' = Without(r) /\ DOMAIN queue' = 1..(n - 1)
    BY <1>2, <1>3, <1>5, <2>1 DEF Quits
  <2>3. \A k \in 1..(n - 1) : queue'[k] = IF k < i THEN queue[k] ELSE queue[k + 1]
    BY <2>1, <2>2
  <2>4. ASSUME NEW a \in 1..n, NEW b \in 1..n, NEW k \in 1..(n - 1), NEW l \in 1..(n - 1),
               a < b, queue'[k] = queue[a], queue'[l] = queue[b]
        PROVE  k < l
    <3> DEFINE f == IF k < i THEN k ELSE k + 1
               g == IF l < i THEN l ELSE l + 1
    <3>1. f \in 1..n /\ g \in 1..n /\ queue'[k] = queue[f] /\ queue'[l] = queue[g]
      BY <2>2, <2>3
    <3>2. f = a /\ g = b
      <4> HIDE DEF f, g
      <4> QED
        BY <1>3, <2>4, <3>1
    <3> QED
      BY <2>2, <2>4, <3>2
  <2> QED
    BY <1>3, <2>2, <2>4 DEF KeepsOrder
<1>6. ASSUME NEW r \in Requests, Joins(r) PROVE KeepsOrder
  <2>1. /\ DOMAIN queue' = 1..(n + 1) /\ queue'[n + 1] = r
        /\ \A k \in 1..n : queue'[k] = queue[k] /\ queue[k] # r
    BY <1>1, <1>2, <1>3, <1>6, Joined DEF Joins, OnePlaceEach
  <2>2. ASSUME NEW k \in 1..(n + 1), NEW a \in 1..n, queue'[k] = queue[a] PROVE k = a
    <3>1. k # n + 1
      BY <2>1, <2>2
    <3>2. k \in 1..n
      BY <3>1
    <3> QED
      BY <1>3, <2>1, <2>2, <3>2
  <2> QED
    BY <1>3, <2>1, <2>2 DEF KeepsOrder
<1> QED
  BY <1>4, <1>5, <1>6, PlaceStep DEF Stays

\* Nobody is overtaken on the way to the lease, whoever gives up in between: tokio's fair
\* mutex hands it on in the order in which it was asked for, and a request that is dropped
\* or fails while it waits takes only its own place.
THEOREM NoOvertaking == Spec => [][KeepsOrder]_vars
<1>1. IInv /\ OnePlaceEach /\ [Next]_vars => KeepsOrder
  BY OrderStep
<1> QED
  BY <1>1, Inductive, NoLeaseLeaks, PTL DEF Spec

L == INSTANCE FairLock WITH Clients <- Requests, line <- queue, inside <- Inside

LEMMA LockStep ==
  ASSUME IInv, IInv', OnePlaceEach, [Next]_vars
  PROVE  [L!LockNext]_<<queue, Inside>>
<1>1. queue \in Seq(Requests)
  BY DEF IInv, Base
<1>2. \A g \in Requests : g \in Inside <=> req[g].pc \in Guarded
  BY DEF Inside
<1>3. \A g \in Requests : g \in Inside' <=> req'[g].pc \in Guarded
  BY DEF Inside
<1>4. Inside \subseteq Requests /\ Inside' \subseteq Requests
  BY DEF Inside
<1>5. \A g \in Requests : req[g].pc \in Guarded => InLine(g)
  BY DEF Guarded, InLine, At
<1>6. CASE queue' = queue /\ \A g \in Requests : req'[g].pc = req[g].pc
  <2>1. Inside' = Inside
    BY <1>2, <1>3, <1>4, <1>6
  <2> QED
    BY <1>6, <2>1
<1>7. ASSUME NEW r \in Requests, Alone(r) PROVE \A g \in Requests \ {r} : g \in Inside' <=> g \in Inside
  BY <1>2, <1>3, <1>7 DEF Alone
<1>8. ASSUME NEW r \in Requests, Alone(r), Stays(r) PROVE L!Enter(r) \/ L!Exit(r)
  <2>1. CASE r \in Inside'
    <3>1. Holds(r)'
      BY <1>3, <2>1 DEF IInv, Local, Leased, At, Guarded
    <3>2. queue # <<>> /\ Head(queue) = r /\ queue' = queue
      BY <1>8, <3>1 DEF Holds, Stays
    <3>3. Inside' = Inside \cup {r}
      BY <1>4, <1>7, <1>8, <2>1
    <3> QED
      BY <3>2, <3>3 DEF L!Enter
  <2>2. CASE r \notin Inside'
    <3>1. Inside' = Inside \ {r}
      BY <1>4, <1>7, <1>8, <2>2
    <3> QED
      BY <1>8, <3>1 DEF L!Exit, Stays
  <2> QED
    BY <2>1, <2>2
<1>9. ASSUME NEW r \in Requests, Alone(r), Quits(r)
      PROVE  L!Quit(r) \/ UNCHANGED <<queue, Inside>>
  <2>1. r \notin Inside'
    BY <1>3, <1>9 DEF Quits
  <2>2. Inside' = Inside \ {r}
    BY <1>4, <1>7, <1>9, <2>1
  <2>3. CASE ~InLine(r) /\ Without(r) = queue
    <3>1. Inside' = Inside
      BY <1>2, <1>5, <2>2, <2>3
    <3> QED
      BY <1>9, <2>3, <3>1 DEF Quits
  <2>4. CASE InLine(r)
    <3>1. PICK i \in DOMAIN queue :
             queue[i] = r /\ Without(r) = SubSeq(queue, 1, i - 1) \o SubSeq(queue, i + 1, Len(queue))
      BY <1>1, <2>4, Left
    <3> QED
      BY <1>9, <2>2, <3>1 DEF L!Quit, Quits
  <2> QED
    BY <1>1, <2>3, <2>4, Left
<1>10. ASSUME NEW r \in Requests, Alone(r), Joins(r) PROVE L!Join(r)
  <2>1. r \notin Inside /\ r \notin Inside'
    BY <1>2, <1>3, <1>10 DEF Joins
  <2>2. Inside' = Inside
    BY <1>4, <1>7, <1>10, <2>1
  <2>3. \A i \in DOMAIN queue : queue[i] # r
    BY <1>10 DEF Joins, OnePlaceEach
  <2> QED
    BY <1>10, <2>2, <2>3 DEF L!Join, Joins
<1>11. (\E r \in Requests : L!Join(r) \/ L!Enter(r) \/ L!Exit(r) \/ L!Quit(r)) => L!LockNext
  BY DEF L!LockNext
<1> QED
  BY <1>6, <1>8, <1>9, <1>10, <1>11, PlaceStep

\* The lease is a fair lock over its calls to the operating system, for the palette's and
\* the IPC's requests, whatever is dropped, panics, fails or is still running.
THEOREM LeaseIsFairLock == Spec => L!LockSpec
<1>1. Init => L!LockInit
  BY DEF Init, L!LockInit, Inside, Idle, Guarded
<1>2. IInv /\ IInv' /\ OnePlaceEach /\ [Next]_vars => [L!LockNext]_(L!lockVars)
  BY LockStep DEF L!lockVars
<1> QED
  BY <1>1, <1>2, Inductive, NoLeaseLeaks, PTL DEF Spec, L!LockSpec
=============================================================================
