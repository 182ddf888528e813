------------------------- MODULE SearchCacheProofs -------------------------
(***************************************************************************)
(* Theorems about the search cache, for every number of searchers and      *)
(* mutators, every capacity and every mix of mutations.                    *)
(***************************************************************************)
EXTENDS SearchCache, TLAPS

-----------------------------------------------------------------------------
(* The LRU list. *)

Distinct(c) == \A g, h \in DOMAIN c : c[g].key = c[h].key => g = h
Within(d, c) == \A j \in DOMAIN d : \E h \in DOMAIN c : d[j] = c[h]

\* Removing an element shifts the ones after it.
LEMMA RemoveAtShifts ==
  ASSUME NEW S, NEW c \in Seq(S), NEW i \in 1..Len(c)
  PROVE  /\ RemoveAt(c, i) \in Seq(S)
         /\ Len(RemoveAt(c, i)) = Len(c) - 1
         /\ \A j \in 1..(i - 1) : RemoveAt(c, i)[j] = c[j]
         /\ \A j \in i..(Len(c) - 1) : RemoveAt(c, i)[j] = c[j + 1]
<1> DEFINE front == SubSeq(c, 1, i - 1)
           back == SubSeq(c, i + 1, Len(c))
<1>1. i \in Nat \ {0} /\ Len(c) \in Nat /\ i <= Len(c)
  OBVIOUS
<1>2. /\ front \in Seq(S) /\ Len(front) = i - 1
      /\ \A j \in 1..(i - 1) : front[j] = c[j]
  BY <1>1
<1>3. /\ back \in Seq(S) /\ Len(back) = Len(c) - i
      /\ \A j \in 1..(Len(c) - i) : back[j] = c[i + j]
  BY <1>1
<1> HIDE DEF front, back
<1>4. front \in Seq(S) /\ back \in Seq(S)
  BY <1>2, <1>3
<1>5. front \o back \in Seq(S) /\ Len(front \o back) = Len(front) + Len(back)
  BY <1>4
<1>6. front \o back \in Seq(S) /\ Len(front \o back) = Len(c) - 1
  <2>1. (i - 1) + (Len(c) - i) = Len(c) - 1
    BY <1>1
  <2> QED
    BY <1>2, <1>3, <1>5, <2>1
<1>7. ASSUME NEW j \in 1..(i - 1)
      PROVE  (front \o back)[j] = c[j]
  <2>1. (front \o back)[j] = front[j]
    BY <1>1, <1>2, <1>3
  <2> QED
    BY <1>2, <2>1
<1>8. ASSUME NEW j \in i..(Len(c) - 1)
      PROVE  (front \o back)[j] = c[j + 1]
  <2>1. j - (i - 1) \in 1..(Len(c) - i) /\ i + (j - (i - 1)) = j + 1 /\ j > i - 1
    BY <1>1
  <2>2. (front \o back)[j] = back[j - (i - 1)]
    BY <1>1, <1>2, <1>3, <2>1
  <2> QED
    BY <1>3, <2>1, <2>2
<1> QED
  BY <1>6, <1>8, <1>7 DEF RemoveAt, front, back

\* Removing an entry keeps keys distinct, and its own key is gone.
LEMMA RemoveAtKeeps ==
  ASSUME NEW c \in Seq(Entries), NEW i \in DOMAIN c
  PROVE  /\ RemoveAt(c, i) \in Seq(Entries)
         /\ Len(RemoveAt(c, i)) = Len(c) - 1
         /\ Within(RemoveAt(c, i), c)
         /\ Distinct(c) => /\ Distinct(RemoveAt(c, i))
                           /\ ~Caches(RemoveAt(c, i), c[i].key)
<1> DEFINE r == RemoveAt(c, i)
           n == Len(c)
<1>1. i \in 1..n /\ n \in Nat /\ DOMAIN c = 1..n
  OBVIOUS
<1>2. /\ r \in Seq(Entries) /\ Len(r) = n - 1
      /\ \A j \in 1..(i - 1) : r[j] = c[j]
      /\ \A j \in i..(n - 1) : r[j] = c[j + 1]
  BY <1>1, RemoveAtShifts
<1> HIDE DEF r
<1>3. DOMAIN r = 1..(n - 1)
  BY <1>2
<1>4. \A j \in DOMAIN r : \/ j < i /\ j \in DOMAIN c /\ r[j] = c[j]
                          \/ j >= i /\ j + 1 \in DOMAIN c /\ r[j] = c[j + 1]
  BY <1>1, <1>2, <1>3
<1>5. \A j \in DOMAIN r : j \in Int
  BY <1>3
<1>6. Within(r, c)
  BY <1>4 DEF Within
<1>7. ASSUME Distinct(c) PROVE Distinct(r) /\ ~Caches(r, c[i].key)
  <2>1. ASSUME NEW g \in DOMAIN r, NEW h \in DOMAIN r, r[g].key = r[h].key
        PROVE  g = h
    <3>1. CASE g < i /\ h < i
      BY <1>4, <1>7, <2>1, <3>1, <1>1, <1>5 DEF Distinct
    <3>2. CASE g >= i /\ h >= i
      <4>1. g + 1 = h + 1
        BY <1>4, <1>7, <2>1, <3>2, <1>1, <1>5 DEF Distinct
      <4> QED
        BY <1>5, <4>1
    <3>3. CASE g < i /\ h >= i
      <4>1. g = h + 1
        BY <1>4, <1>7, <2>1, <3>3, <1>1, <1>5 DEF Distinct
      <4> QED
        BY <1>1, <1>5, <3>3, <4>1
    <3>4. CASE g >= i /\ h < i
      <4>1. g + 1 = h
        BY <1>4, <1>7, <2>1, <3>4, <1>1, <1>5 DEF Distinct
      <4> QED
        BY <1>1, <1>5, <3>4, <4>1
    <3> QED
      BY <1>1, <1>5, <3>1, <3>2, <3>3, <3>4
  <2>2. ASSUME NEW j \in DOMAIN r, r[j].key = c[i].key
        PROVE  FALSE
    <3>1. j = i \/ j + 1 = i
      BY <1>1, <1>4, <1>7, <2>2 DEF Distinct
    <3>2. j < i => j = i
      BY <1>1, <1>4, <1>5, <1>7, <2>2 DEF Distinct
    <3>3. j >= i => j + 1 = i
      BY <1>1, <1>4, <1>5, <1>7, <2>2 DEF Distinct
    <3> QED
      BY <1>1, <1>5, <3>2, <3>3
  <2> QED
    BY <2>1, <2>2 DEF Distinct, Caches
<1> QED
  BY <1>2, <1>6, <1>7 DEF r

\* So does evicting the oldest entry.
LEMMA TailKeeps ==
  ASSUME NEW c \in Seq(Entries), c # <<>>
  PROVE  /\ Tail(c) \in Seq(Entries)
         /\ Len(Tail(c)) = Len(c) - 1
         /\ Within(Tail(c), c)
         /\ Distinct(c) => Distinct(Tail(c))
<1>1. Len(c) \in Nat \ {0} /\ DOMAIN c = 1..Len(c)
  OBVIOUS
<1>2. /\ Tail(c) \in Seq(Entries)
      /\ Len(Tail(c)) = Len(c) - 1
      /\ DOMAIN Tail(c) = 1..(Len(c) - 1)
  BY <1>1
<1>3. \A j \in DOMAIN Tail(c) : j \in Int /\ j + 1 \in DOMAIN c /\ Tail(c)[j] = c[j + 1]
  BY <1>1, <1>2
<1>4. Within(Tail(c), c)
  BY <1>3 DEF Within
<1>5. ASSUME Distinct(c), NEW g \in DOMAIN Tail(c), NEW h \in DOMAIN Tail(c),
             Tail(c)[g].key = Tail(c)[h].key
      PROVE  g = h
  <2>1. g + 1 = h + 1
    BY <1>3, <1>5 DEF Distinct
  <2> QED
    BY <1>3, <2>1
<1> QED
  BY <1>2, <1>4, <1>5 DEF Distinct

\* And appending an entry under a key the list does not hold.
LEMMA AppendKeeps ==
  ASSUME NEW c \in Seq(Entries), NEW e \in Entries
  PROVE  /\ Append(c, e) \in Seq(Entries)
         /\ Len(Append(c, e)) = Len(c) + 1
         /\ \A j \in DOMAIN Append(c, e) :
              Append(c, e)[j] = e \/ \E h \in DOMAIN c : Append(c, e)[j] = c[h]
         /\ (Distinct(c) /\ ~Caches(c, e.key)) => Distinct(Append(c, e))
<1> DEFINE d == Append(c, e)
           n == Len(c)
<1>1. /\ n \in Nat /\ DOMAIN c = 1..n
      /\ d \in Seq(Entries) /\ Len(d) = n + 1 /\ DOMAIN d = 1..(n + 1)
  OBVIOUS
<1>2. \A j \in DOMAIN d : (j \in DOMAIN c /\ d[j] = c[j]) \/ (j = n + 1 /\ d[j] = e)
  BY <1>1
<1> HIDE DEF d
<1>3. ASSUME Distinct(c), ~Caches(c, e.key)
      PROVE  Distinct(d)
  BY <1>2, <1>3 DEF Distinct, Caches
<1> QED
  BY <1>1, <1>2, <1>3 DEF d

\* A hit reorders the list: nothing is lost, added or duplicated.
LEMMA TouchedKeeps ==
  ASSUME NEW c \in Seq(Entries), NEW i \in DOMAIN c
  PROVE  /\ Touched(c, i) \in Seq(Entries)
         /\ Len(Touched(c, i)) = Len(c)
         /\ Within(Touched(c, i), c)
         /\ Distinct(c) => Distinct(Touched(c, i))
<1> DEFINE r == RemoveAt(c, i)
<1>1. c[i] \in Entries /\ Len(c) \in Nat
  OBVIOUS
<1>2. /\ r \in Seq(Entries) /\ Len(r) = Len(c) - 1 /\ Within(r, c)
      /\ Distinct(c) => Distinct(r) /\ ~Caches(r, c[i].key)
  BY RemoveAtKeeps
<1> HIDE DEF r
<1>3. /\ Append(r, c[i]) \in Seq(Entries)
      /\ Len(Append(r, c[i])) = Len(r) + 1
      /\ \A j \in DOMAIN Append(r, c[i]) :
           Append(r, c[i])[j] = c[i] \/ \E h \in DOMAIN r : Append(r, c[i])[j] = r[h]
      /\ (Distinct(r) /\ ~Caches(r, c[i].key)) => Distinct(Append(r, c[i]))
  BY <1>1, <1>2, AppendKeeps
<1>4. Touched(c, i) = Append(r, c[i])
  BY DEF Touched, r
<1>5. Within(Touched(c, i), c)
  BY <1>2, <1>3, <1>4 DEF Within
<1> QED
  BY <1>1, <1>2, <1>3, <1>4, <1>5

\* A put leaves the entries it does not replace or evict alone, keeps keys
\* distinct and the list within its capacity.
LEMMA PutKeeps ==
  ASSUME NEW c \in Seq(Entries), NEW k \in Keys, NEW v \in Nat, NEW d \in Put(c, k, v)
  PROVE  /\ d \in Seq(Entries)
         /\ \A j \in DOMAIN d : d[j] = Entry(k, v) \/ \E h \in DOMAIN c : d[j] = c[h]
         /\ Len(c) <= Capacity => Len(d) <= Capacity
         /\ Distinct(c) => Distinct(d)
<1> DEFINE e == Entry(k, v)
<1>1. e \in Entries /\ e.key = k /\ Len(c) \in Nat /\ Capacity \in Nat \ {0}
  BY CapacityAssumption DEF Entry, Entries
<1>2. PICK b : /\ b \in Seq(Entries) /\ d = Append(b, e) /\ Within(b, c)
               /\ Len(c) <= Capacity => Len(b) + 1 <= Capacity
               /\ Distinct(c) => Distinct(b) /\ ~Caches(b, k)
  <2>1. CASE Caches(c, k)
    <3>1. PICK i \in DOMAIN c : c[i].key = k /\ d = Append(RemoveAt(c, i), e)
      BY <2>1 DEF Put, Caches, e
    <3> WITNESS RemoveAt(c, i)
    <3>2. /\ RemoveAt(c, i) \in Seq(Entries) /\ Len(RemoveAt(c, i)) = Len(c) - 1
          /\ Within(RemoveAt(c, i), c)
          /\ Distinct(c) => Distinct(RemoveAt(c, i)) /\ ~Caches(RemoveAt(c, i), k)
      BY <3>1, RemoveAtKeeps
    <3> QED
      BY <1>1, <3>1, <3>2
  <2>2. CASE ~Caches(c, k) /\ Len(c) = Capacity
    <3>1. d = Append(Tail(c), e) /\ c # <<>>
      BY <1>1, <2>2 DEF Put, e
    <3> WITNESS Tail(c)
    <3>2. /\ Tail(c) \in Seq(Entries) /\ Len(Tail(c)) = Len(c) - 1
          /\ Within(Tail(c), c)
          /\ Distinct(c) => Distinct(Tail(c))
      BY <3>1, TailKeeps
    <3>3. ~Caches(Tail(c), k)
      BY <2>2, <3>2 DEF Caches, Within
    <3> QED
      BY <1>1, <3>1, <3>2, <3>3
  <2>3. CASE ~Caches(c, k) /\ Len(c) # Capacity
    <3>1. d = Append(c, e)
      BY <2>3 DEF Put, e
    <3>2. Within(c, c)
      BY DEF Within
    <3> WITNESS c
    <3> QED
      BY <1>1, <2>3, <3>1, <3>2
  <2> QED
    BY <2>1, <2>2, <2>3
<1> HIDE DEF e
<1>3. /\ Append(b, e) \in Seq(Entries)
      /\ Len(Append(b, e)) = Len(b) + 1
      /\ \A j \in DOMAIN Append(b, e) :
           Append(b, e)[j] = e \/ \E h \in DOMAIN b : Append(b, e)[j] = b[h]
      /\ (Distinct(b) /\ ~Caches(b, e.key)) => Distinct(Append(b, e))
  BY <1>1, <1>2, AppendKeeps
<1>4. \A j \in DOMAIN d : d[j] = e \/ \E h \in DOMAIN c : d[j] = c[h]
  BY <1>2, <1>3 DEF Within
<1> QED
  BY <1>1, <1>2, <1>3, <1>4 DEF e

-----------------------------------------------------------------------------
(* Type correctness, and the shape of the cache. *)

\* Only a query short enough to be cached gets as far as its put.
PutsAreEligible == \A s \in Searchers : search[s].pc = "put" => search[s].key \in Eligible

\* What a lock holder finds: the cache, or an emptied one after a panic.
LEMMA HeldKeeps ==
  ASSUME TypeOK
  PROVE  /\ Held \in Seq(Entries) /\ Len(Held) <= Len(cache)
         /\ Within(Held, cache)
         /\ Distinct(cache) => Distinct(Held)
         /\ HeldEpoch \in Nat /\ HeldEpoch >= epoch
         /\ poisoned => HeldEpoch > epoch
<1>1. CASE poisoned
  BY <1>1 DEF TypeOK, Held, HeldEpoch, Within, Distinct
<1>2. CASE ~poisoned
  BY <1>2 DEF TypeOK, Held, HeldEpoch, Within, Distinct
<1> QED
  BY <1>1, <1>2

LEMMA RecordsTyped ==
  /\ \A v \in Nat : Answered(v) \in Searches /\ Answered(v).pc = "idle"
  /\ NoJob \in Jobs /\ \A k \in Kinds : Begun(k) \in Jobs
<1>1. \A v \in Nat : Answered(v) \in Searches /\ Answered(v).pc = "idle"
  BY DEF Answered, Searches
<1>2. \A k \in AllKinds : Begun(k) \in Jobs
  BY DEF Begun, Jobs
<1>3. NoJob \in Jobs
  BY DEF NoJob, Jobs, AllKinds
<1> QED
  BY <1>1, <1>2, <1>3, KindsAssumption

LEMMA TypeInit == Init => TypeOK /\ PutsAreEligible
<1> SUFFICES ASSUME Init PROVE TypeOK /\ PutsAreEligible
  OBVIOUS
<1>1. search \in [Searchers -> Searches] /\ PutsAreEligible
  BY RecordsTyped DEF Init, PutsAreEligible
<1>2. job \in [Mutators -> Jobs]
  BY RecordsTyped DEF Init
<1>3. /\ corpus \in Nat /\ acked \in Nat /\ epoch \in Nat
      /\ poisoned \in BOOLEAN /\ owed \in BOOLEAN
  BY DEF Init
<1>4. cache \in Seq(Entries)
  BY DEF Init
<1> QED
  BY <1>1, <1>2, <1>3, <1>4 DEF TypeOK

LEMMA TypeSearchStep ==
  ASSUME TypeOK, PutsAreEligible, NEW s \in Searchers, SearchStep(s)
  PROVE  TypeOK' /\ PutsAreEligible'
<1> DEFINE Puts(x) == x.pc = "put" => x.key \in Eligible
<1>0. /\ Held \in Seq(Entries) /\ HeldEpoch \in Nat
      /\ search[s] \in Searches /\ corpus \in Nat /\ epoch \in Nat
      /\ cache \in Seq(Entries)
  BY HeldKeeps DEF TypeOK
<1>1. SUFFICES /\ \E x \in Searches : Puts(x) /\ search' = [search EXCEPT ![s] = x]
               /\ cache' \in Seq(Entries) /\ epoch' \in Nat /\ poisoned' \in BOOLEAN
               /\ UNCHANGED <<corpus, acked, job, owed>>
  BY DEF TypeOK, PutsAreEligible
<1>2. CASE Ask(s)
  <2>1. PICK k \in Keys : search' = [search EXCEPT ![s] =
                             [search[s] EXCEPT !.pc = "lookup", !.key = k,
                                               !.floor = acked, !.rows = 0]]
    BY <1>2 DEF Ask
  <2>2. [search[s] EXCEPT !.pc = "lookup", !.key = k, !.floor = acked, !.rows = 0]
          \in Searches
    BY <1>0 DEF Searches, TypeOK
  <2> QED
    BY <1>0, <1>2, <2>1, <2>2 DEF Ask, TypeOK, Searches
<1>3. CASE Hit(s)
  <2>1. PICK i \in DOMAIN Held :
          /\ cache' = Touched(Held, i)
          /\ search' = [search EXCEPT ![s] = Answered(Held[i].rows)]
    BY <1>3 DEF Hit
  <2>2. Held[i] \in Entries
    BY <1>0
  <2>3. Held[i].rows \in Nat
    BY <2>2 DEF Entries
  <2>4. cache' \in Seq(Entries)
    BY <1>0, <2>1, TouchedKeeps
  <2> QED
    BY <1>0, <1>3, <2>1, <2>3, <2>4, RecordsTyped DEF Hit, TypeOK
<1>4. CASE Miss(s)
  <2>1. [search[s] EXCEPT !.pc = "read", !.epoch = HeldEpoch] \in Searches
    BY <1>0 DEF Searches
  <2> QED
    BY <1>0, <1>4, <2>1 DEF Miss, TypeOK, Searches
<1>5. CASE Bypass(s)
  <2>1. [search[s] EXCEPT !.pc = "read"] \in Searches
    BY <1>0 DEF Searches
  <2> QED
    BY <1>0, <1>5, <2>1 DEF Bypass, TypeOK, Searches
<1>6. CASE ReadStore(s)
  <2>1. [search[s] EXCEPT !.pc = "put", !.rows = corpus, !.floor = 0] \in Searches
    BY <1>0 DEF Searches
  <2>2. CASE search[s].key \in Eligible
    BY <1>0, <1>6, <2>1, <2>2 DEF ReadStore, TypeOK, Searches
  <2>3. CASE search[s].key \notin Eligible
    BY <1>0, <1>6, <2>3, RecordsTyped DEF ReadStore, TypeOK
  <2> QED
    BY <2>2, <2>3
<1>7. search[s].rows \in Nat
  BY <1>0 DEF Searches
<1>8. CASE SearchFails(s)
  BY <1>0, <1>7, <1>8, RecordsTyped DEF SearchFails, TypeOK
<1>9. CASE Publish(s)
  <2>1. cache' \in Seq(Entries)
    <3>1. search[s].key \in Keys
      BY <1>0, <1>9, KeysAssumption DEF Publish, PutsAreEligible
    <3>2. CASE Accepts(search[s].epoch)
      <4>1. cache' \in Put(Held, search[s].key, search[s].rows)
        BY <1>9, <3>2 DEF Publish
      <4> QED
        BY <1>0, <1>7, <3>1, <4>1, PutKeeps
    <3>3. CASE ~Accepts(search[s].epoch)
      BY <1>0, <1>9, <3>3 DEF Publish
    <3> QED
      BY <3>2, <3>3
  <2> QED
    BY <1>0, <1>7, <1>9, <2>1, RecordsTyped DEF Publish, TypeOK
<1>10. CASE PanicInGet(s)
  <2>1. cache' \in Seq(Entries)
    BY <1>0, <1>10, RemoveAtKeeps DEF PanicInGet
  <2> QED
    BY <1>0, <1>7, <1>10, <2>1, RecordsTyped DEF PanicInGet, TypeOK
<1> QED
  BY <1>2, <1>3, <1>4, <1>5, <1>6, <1>8, <1>9, <1>10 DEF SearchStep

LEMMA TypeMutationStep ==
  ASSUME TypeOK, PutsAreEligible, NEW m \in Mutators, MutationStep(m)
  PROVE  TypeOK' /\ PutsAreEligible'
<1> DEFINE j == job[m]
<1>0. /\ HeldEpoch \in Nat /\ <<>> \in Seq(Entries) /\ cache \in Seq(Entries)
      /\ epoch \in Nat /\ corpus \in Nat /\ acked \in Nat
      /\ poisoned \in BOOLEAN /\ owed \in BOOLEAN
  BY HeldKeeps DEF TypeOK
<1>1. j \in Jobs
  BY DEF TypeOK
<1>2. /\ j.kind \in AllKinds /\ j.step \in 1..3 /\ j.dirty \in BOOLEAN
      /\ j.version \in Nat
  BY <1>1 DEF Jobs
<1>owed. owed' \in BOOLEAN
  <2>1. \/ owed' = FALSE \/ owed' = TRUE \/ owed' = owed
        \/ owed' = (owed \/ job[m].dirty) \/ owed' = (owed \/ LeavesPartial(job[m]))
    BY DEF MutationStep, BeginMutation, Commit, EndStep, MutationFails, EndMutation,
           PanicInInvalidate, DropMutation, DetachedCommit, DetachedEnd, Invalidate
  <2> QED
    BY <1>0, <2>1, Zenon
<1>3. SUFFICES /\ \E x \in Jobs : job' = [job EXCEPT ![m] = x]
               /\ cache' \in Seq(Entries) /\ epoch' \in Nat /\ poisoned' \in BOOLEAN
               /\ corpus' \in Nat /\ acked' \in Nat /\ UNCHANGED search
  BY <1>owed DEF TypeOK, PutsAreEligible
<1>4. CASE BeginMutation(m)
  <2>1. PICK k \in Kinds :
          /\ job' = [job EXCEPT ![m] = Begun(k)]
          /\ IF InvalidatesBefore(k) THEN Invalidate ELSE UNCHANGED <<cache, epoch, owed>>
    BY <1>4 DEF BeginMutation
  <2>2. cache' \in Seq(Entries) /\ epoch' \in Nat
    <3>1. CASE Invalidate
      BY <1>0, <3>1 DEF Invalidate
    <3>2. CASE UNCHANGED <<cache, epoch, owed>>
      BY <1>0, <3>2
    <3> QED
      BY <2>1, <3>1, <3>2
  <2> QED
    BY <1>0, <1>4, <2>1, <2>2, RecordsTyped DEF BeginMutation
<1>5. \A pc \in {"write", "post"}, d \in BOOLEAN, v \in Nat, n \in 1..3 :
         [j EXCEPT !.pc = pc, !.dirty = d, !.version = v, !.step = n] \in Jobs
  BY <1>1 DEF Jobs
<1>6. CASE Commit(m)
  <2>1. PICK pc \in NextStages(j) : job' = [job EXCEPT ![m] = Committed(j, pc)]
    BY <1>6 DEF Commit
  <2>2. /\ pc \in {"write", "post"}
        /\ pc = "write" /\ ~Batched(j.kind) => j.step < Steps(j.kind)
    BY DEF NextStages
  <2>3. j.step < Steps(j.kind) => j.step + 1 \in 1..3
    BY <1>2 DEF Steps, AllKinds
  <2> DEFINE n == IF pc = "write" /\ ~Batched(j.kind) THEN j.step + 1 ELSE j.step
  <2>4. n \in 1..3 /\ corpus + 1 \in Nat
    BY <1>0, <1>2, <2>2, <2>3
  <2> HIDE DEF n
  <2>5. [j EXCEPT !.pc = pc, !.dirty = TRUE, !.version = corpus + 1, !.step = n] \in Jobs
    BY <1>5, <2>2, <2>4
  <2>6. Committed(j, pc) \in Jobs
    BY <2>5 DEF Committed, n
  <2> QED
    BY <1>0, <1>6, <2>1, <2>4, <2>6 DEF Commit
<1>7. CASE EndStep(m)
  <2> DEFINE flushes == j.kind = "maintenance" /\ j.dirty
  <2>1. cache' \in Seq(Entries) /\ epoch' \in Nat
    <3>1. CASE flushes
      BY <1>0, <1>7, <3>1 DEF EndStep, Invalidate
    <3>2. CASE ~flushes
      BY <1>0, <1>7, <3>2 DEF EndStep
    <3> QED
      BY <3>1, <3>2
  <2>2. CASE j.step < Steps(j.kind)
    <3>1. j.step + 1 \in 1..3
      BY <1>2, <2>2 DEF Steps, AllKinds
    <3>2. [j EXCEPT !.step = j.step + 1, !.dirty = j.dirty /\ ~flushes] \in Jobs
      BY <1>1, <1>2, <3>1 DEF Jobs
    <3> QED
      BY <1>0, <1>7, <2>1, <2>2, <3>2 DEF EndStep
  <2>3. CASE ~(j.step < Steps(j.kind)) /\ j.kind = "mask"
    BY <1>0, <1>7, <2>1, <2>3, RecordsTyped DEF EndStep
  <2>4. CASE ~(j.step < Steps(j.kind)) /\ j.kind # "mask"
    <3>1. [j EXCEPT !.pc = "post", !.dirty = j.dirty /\ ~flushes] \in Jobs
      BY <1>1, <1>2 DEF Jobs
    <3> QED
      BY <1>0, <1>7, <2>1, <2>4, <3>1 DEF EndStep
  <2> QED
    BY <2>2, <2>3, <2>4
<1>8. CASE MutationFails(m)
  <2>1. [j EXCEPT !.pc = "post"] \in Jobs
    BY <1>1 DEF Jobs
  <2> QED
    BY <1>0, <1>8, <2>1, RecordsTyped DEF MutationFails
<1>9. CASE EndMutation(m)
  <2>1. cache' \in Seq(Entries) /\ epoch' \in Nat
    BY <1>0, <1>9 DEF EndMutation, Invalidate
  <2>2. acked' \in Nat
    BY <1>0, <1>2, <1>9 DEF EndMutation
  <2> QED
    BY <1>0, <1>9, <2>1, <2>2, RecordsTyped DEF EndMutation
<1>10. CASE PanicInInvalidate(m)
  BY <1>0, <1>10, RecordsTyped DEF PanicInInvalidate
<1>11. CASE DropMutation(m)
  <2>1. [j EXCEPT !.pc = "detached", !.dirty = FALSE] \in Jobs
    BY <1>1 DEF Jobs
  <2> QED
    BY <1>0, <1>11, <2>1 DEF DropMutation
<1>12. CASE DetachedCommit(m)
  <2>1. job' = [job EXCEPT ![m] = j] \/ job' = [job EXCEPT ![m] = NoJob]
    BY <1>12 DEF DetachedCommit
  <2>2. \E x \in Jobs : job' = [job EXCEPT ![m] = x]
    BY <1>1, <2>1, RecordsTyped
  <2>3. UNCHANGED <<cache, epoch, poisoned, acked, search>> /\ corpus' = corpus + 1
    BY <1>12 DEF DetachedCommit
  <2>4. poisoned' \in BOOLEAN
    BY <1>0, <2>3, Zenon
  <2>5. cache' \in Seq(Entries) /\ epoch' \in Nat /\ corpus' \in Nat /\ acked' \in Nat
    BY <1>0, <2>3
  <2> QED
    BY <2>2, <2>3, <2>4, <2>5, Zenon
<1>13. CASE DetachedEnd(m)
  BY <1>0, <1>13, RecordsTyped DEF DetachedEnd
<1> QED
  BY <1>4, <1>6, <1>7, <1>8, <1>9, <1>10, <1>11, <1>12, <1>13 DEF MutationStep

\* Every variable of the cache has its type, whatever runs concurrently.
THEOREM TypeCorrect == Spec => [](TypeOK /\ PutsAreEligible)
<1>1. TypeOK /\ PutsAreEligible /\ [Next]_vars => (TypeOK /\ PutsAreEligible)'
  <2> SUFFICES ASSUME TypeOK, PutsAreEligible, [Next]_vars
               PROVE  (TypeOK /\ PutsAreEligible)'
    OBVIOUS
  <2>1. CASE \E s \in Searchers : SearchStep(s)
    BY <2>1, TypeSearchStep
  <2>2. CASE \E m \in Mutators : MutationStep(m)
    BY <2>2, TypeMutationStep
  <2>3. CASE UNCHANGED vars
    BY <2>3 DEF vars, TypeOK, PutsAreEligible
  <2> QED
    BY <2>1, <2>2, <2>3 DEF Next
<1> QED
  BY <1>1, TypeInit, PTL DEF Spec

\* What BoundedMap needs of one step that may touch the cache.
LEMMA BoundedStep ==
  ASSUME TypeOK, PutsAreEligible, BoundedMap, [Next]_vars
  PROVE  BoundedMap'
<1> DEFINE Bounded(c) == /\ Len(c) <= Capacity /\ Distinct(c)
                         /\ \A i \in DOMAIN c : c[i].key \in Eligible
<1>0. /\ Held \in Seq(Entries) /\ Bounded(Held) /\ cache \in Seq(Entries) /\ Bounded(cache)
      /\ Len(cache) \in Nat /\ Len(Held) \in Nat /\ Capacity \in Nat \ {0}
  BY HeldKeeps, CapacityAssumption DEF TypeOK, BoundedMap, Distinct, Within
<1>1. SUFFICES Bounded(cache')
  BY DEF BoundedMap, Distinct
<1>2. Bounded(<<>>)
  BY CapacityAssumption DEF Distinct
<1>3. ASSUME NEW s \in Searchers, SearchStep(s)
      PROVE  Bounded(cache')
  <2>1. CASE Hit(s)
    <3>1. PICK i \in DOMAIN Held : cache' = Touched(Held, i)
      BY <2>1 DEF Hit
    <3>2. Len(cache') = Len(Held) /\ Within(cache', Held) /\ Distinct(cache')
      BY <1>0, <3>1, TouchedKeeps
    <3> QED
      BY <1>0, <3>2 DEF Within
  <2>2. CASE PanicInGet(s)
    <3>1. PICK i \in DOMAIN Held : cache' = RemoveAt(Held, i)
      BY <2>2 DEF PanicInGet
    <3>2. Len(cache') = Len(Held) - 1 /\ Within(cache', Held) /\ Distinct(cache')
      BY <1>0, <3>1, RemoveAtKeeps
    <3> QED
      BY <1>0, <3>2 DEF Within
  <2>3. CASE Publish(s)
    <3>1. CASE ~Accepts(search[s].epoch)
      BY <1>0, <2>3, <3>1 DEF Publish
    <3>2. CASE Accepts(search[s].epoch)
      <4> DEFINE k == search[s].key
                 v == search[s].rows
      <4>1. k \in Eligible /\ k \in Keys /\ v \in Nat
        BY <2>3, KeysAssumption DEF Publish, PutsAreEligible, TypeOK, Searches
      <4>2. cache' \in Put(Held, k, v)
        BY <2>3, <3>2 DEF Publish
      <4> HIDE DEF k, v
      <4>3. /\ \A j \in DOMAIN cache' :
                 cache'[j] = Entry(k, v) \/ \E h \in DOMAIN Held : cache'[j] = Held[h]
            /\ Len(cache') <= Capacity /\ Distinct(cache')
        BY <1>0, <4>1, <4>2, PutKeeps
      <4> QED
        BY <1>0, <4>1, <4>3 DEF Entry
    <3> QED
      BY <3>1, <3>2
  <2>4. CASE cache' \in {cache, Held}
    BY <1>0, <2>4
  <2> QED
    BY <1>3, <2>1, <2>2, <2>3, <2>4
       DEF SearchStep, Ask, Miss, Bypass, ReadStore, SearchFails
<1>4. ASSUME NEW m \in Mutators, MutationStep(m)
      PROVE  Bounded(cache')
  <2>1. cache' \in {cache, <<>>}
    BY <1>4 DEF MutationStep, BeginMutation, Commit, EndStep, MutationFails, EndMutation,
                PanicInInvalidate, DropMutation, DetachedCommit, DetachedEnd, Invalidate
  <2> QED
    BY <1>0, <1>2, <2>1
<1>5. CASE UNCHANGED vars
  BY <1>0, <1>5 DEF vars
<1> QED
  BY <1>3, <1>4, <1>5 DEF Next

\* The cache stays a map of at most Capacity entries, whatever puts race.
THEOREM CacheIsBounded == Spec => []BoundedMap
<1>1. Init => BoundedMap
  BY CapacityAssumption DEF Init, BoundedMap
<1>2. TypeOK /\ PutsAreEligible /\ BoundedMap /\ [Next]_vars => BoundedMap'
  BY BoundedStep
<1> QED
  BY <1>1, <1>2, TypeCorrect, PTL DEF Spec

-----------------------------------------------------------------------------
(* Freshness: the inductive invariant behind the abstract specification.     *)

\* Cached rows are between the last acknowledged version and the latest, and so
\* are the rows a search may still put: an acknowledgement bumps the epoch, and a
\* search that looked up before it can no longer put.
Fresh ==
  /\ acked <= corpus
  /\ \A i \in DOMAIN cache : acked <= cache[i].rows /\ cache[i].rows <= corpus
  /\ \A s \in Searchers : /\ search[s].floor <= acked
                          /\ search[s].epoch <= epoch
                          /\ search[s].rows <= corpus
  /\ \A s \in Searchers :
       search[s].pc = "put" /\ search[s].epoch = epoch => acked <= search[s].rows
  /\ \A s \in Searchers : search[s].pc = "put" => search[s].floor = 0
  /\ \A m \in Mutators : job[m].version <= corpus

LEMMA HeldIsFresh ==
  ASSUME TypeOK, Fresh
  PROVE  \A i \in DOMAIN Held : acked <= Held[i].rows /\ Held[i].rows <= corpus
                                /\ Held[i].rows \in Nat
<1>1. Held \in Seq(Entries) /\ Within(Held, cache)
  BY HeldKeeps
<1>2. \A i \in DOMAIN Held : Held[i] \in Entries
  BY <1>1
<1>3. \A i \in DOMAIN Held : Held[i].rows \in Nat
  BY <1>2 DEF Entries
<1> QED
  BY <1>1, <1>3 DEF Within, Fresh

\* What a search's step leaves in the cache: entries that were there, or the rows
\* it read under the current epoch.
LEMMA SearchStepCaches ==
  ASSUME TypeOK, PutsAreEligible, Fresh, NEW s \in Searchers, SearchStep(s)
  PROVE  /\ cache' \in Seq(Entries) /\ epoch' \in {epoch, HeldEpoch}
         /\ \A i \in DOMAIN cache' :
              \/ \E h \in DOMAIN cache : cache'[i] = cache[h]
              \/ search[s].pc = "put" /\ search[s].epoch = epoch /\ ~poisoned
                   /\ cache'[i].rows = search[s].rows
<1>0. /\ Held \in Seq(Entries) /\ Within(Held, cache) /\ cache \in Seq(Entries)
      /\ epoch \in Nat /\ HeldEpoch \in Nat /\ HeldEpoch >= epoch
      /\ poisoned => HeldEpoch > epoch
      /\ search[s].epoch \in Nat /\ search[s].epoch <= epoch
  BY HeldKeeps DEF TypeOK, Searches, Fresh
<1>1. CASE Hit(s)
  <2>1. PICK i \in DOMAIN Held : cache' = Touched(Held, i)
    BY <1>1 DEF Hit
  <2>2. cache' \in Seq(Entries) /\ Within(cache', Held)
    BY <1>0, <2>1, TouchedKeeps
  <2> QED
    BY <1>0, <1>1, <2>2 DEF Within, Hit
<1>2. CASE PanicInGet(s)
  <2>1. PICK i \in DOMAIN Held : cache' = RemoveAt(Held, i)
    BY <1>2 DEF PanicInGet
  <2>2. cache' \in Seq(Entries) /\ Within(cache', Held)
    BY <1>0, <2>1, RemoveAtKeeps
  <2> QED
    BY <1>0, <1>2, <2>2 DEF Within, PanicInGet
<1>3. CASE Publish(s)
  <2>1. CASE ~Accepts(search[s].epoch)
    BY <1>0, <1>3, <2>1 DEF Publish, Within
  <2>2. CASE Accepts(search[s].epoch) /\ poisoned
    <3>1. Held = <<>> /\ HeldEpoch = search[s].epoch
      BY <2>2 DEF Held, Accepts
    <3> QED
      BY <1>0, <2>2, <3>1
  <2>3. CASE Accepts(search[s].epoch) /\ ~poisoned
    <3> DEFINE k == search[s].key
               v == search[s].rows
    <3>1. k \in Keys /\ v \in Nat
      BY <1>3, KeysAssumption DEF Publish, PutsAreEligible, TypeOK, Searches
    <3>2. cache' \in Put(Held, k, v)
      BY <1>3, <2>3 DEF Publish
    <3>3. search[s].pc = "put" /\ search[s].epoch = epoch /\ epoch' = HeldEpoch
      BY <1>3, <2>3 DEF Publish, Accepts, HeldEpoch
    <3> HIDE DEF k, v
    <3>4. /\ cache' \in Seq(Entries)
          /\ \A j \in DOMAIN cache' :
               cache'[j] = Entry(k, v) \/ \E h \in DOMAIN Held : cache'[j] = Held[h]
      BY <1>0, <3>1, <3>2, PutKeeps
    <3> QED
      BY <1>0, <2>3, <3>3, <3>4 DEF Within, Entry, v
  <2> QED
    BY <2>1, <2>2, <2>3
<1>4. CASE cache' \in {cache, Held} /\ epoch' \in {epoch, HeldEpoch}
  BY <1>0, <1>4 DEF Within
<1> QED
  BY <1>1, <1>2, <1>3, <1>4
     DEF SearchStep, Ask, Miss, Bypass, ReadStore, SearchFails

LEMMA FreshInit == Init => Fresh
  BY DEF Init, Fresh, Answered, NoJob

\* A search's step keeps the rows fresh, and is a step of the abstract service.
LEMMA FreshSearchStep ==
  ASSUME TypeOK, PutsAreEligible, Fresh, NEW s \in Searchers, SearchStep(s)
  PROVE  Fresh'
<1>0. /\ cache' \in Seq(Entries) /\ epoch' \in {epoch, HeldEpoch}
      /\ \A i \in DOMAIN cache' :
           \/ \E h \in DOMAIN cache : cache'[i] = cache[h]
           \/ search[s].pc = "put" /\ search[s].epoch = epoch /\ ~poisoned
                /\ cache'[i].rows = search[s].rows
  BY SearchStepCaches
<1>1. /\ epoch \in Nat /\ HeldEpoch \in Nat /\ HeldEpoch >= epoch
      /\ corpus \in Nat /\ acked \in Nat
      /\ \A r \in Searchers : /\ search[r].epoch \in Nat /\ search[r].epoch <= epoch
                              /\ search[r].floor \in Nat /\ search[r].rows \in Nat
  BY HeldKeeps DEF TypeOK, Searches, Fresh
<1>2. UNCHANGED <<corpus, acked, job>>
  BY DEF SearchStep, Ask, Hit, Miss, Bypass, ReadStore, SearchFails, Publish, PanicInGet
<1>3. \A i \in DOMAIN cache' : acked <= cache'[i].rows /\ cache'[i].rows <= corpus
  BY <1>0, <1>1 DEF Fresh
<1>4. /\ search'[s].floor <= acked /\ search'[s].epoch <= epoch'
      /\ search'[s].rows <= corpus
      /\ search'[s].pc = "put" => acked <= search'[s].rows /\ search'[s].floor = 0
      /\ search' = [search EXCEPT ![s] = search'[s]]
  <2>1. search \in [Searchers -> Searches] /\ search[s] \in Searches
    BY DEF TypeOK
  <2>2. CASE Ask(s)
    BY <1>1, <2>1, <2>2 DEF Ask, Fresh, Searches
  <2>3. CASE Hit(s)
    <3>1. PICK i \in DOMAIN Held : search' = [search EXCEPT ![s] = Answered(Held[i].rows)]
      BY <2>3 DEF Hit
    <3>2. Held[i].rows <= corpus
      BY HeldIsFresh
    <3> QED
      BY <1>0, <1>1, <2>1, <3>1, <3>2 DEF Answered, Fresh
  <2>4. CASE Miss(s)
    BY <1>1, <2>1, <2>4 DEF Miss, Fresh, Searches
  <2>5. CASE Bypass(s)
    BY <1>1, <2>1, <2>5 DEF Bypass, Fresh, Searches
  <2>6. CASE ReadStore(s)
    BY <1>1, <2>1, <2>6 DEF ReadStore, Fresh, Searches, Answered
  <2>7. CASE SearchFails(s) \/ Publish(s) \/ PanicInGet(s)
    <3>1. search' = [search EXCEPT ![s] = Answered(search[s].rows)]
      BY <2>7 DEF SearchFails, Publish, PanicInGet
    <3> QED
      BY <1>0, <1>1, <2>1, <3>1 DEF Answered, Fresh
  <2> QED
    BY <2>2, <2>3, <2>4, <2>5, <2>6, <2>7 DEF SearchStep
<1>5. \A r \in Searchers : r # s => search'[r] = search[r]
  BY <1>4 DEF TypeOK
<1>6. \A r \in Searchers : search[r].epoch = epoch' => epoch' = epoch
  BY <1>0, <1>1
<1>7. epoch <= epoch'
  BY <1>0, <1>1
<1>8. ASSUME NEW r \in Searchers
      PROVE  /\ search'[r].floor <= acked /\ search'[r].epoch <= epoch'
             /\ search'[r].rows <= corpus
             /\ search'[r].pc = "put" /\ search'[r].epoch = epoch' => acked <= search'[r].rows
             /\ search'[r].pc = "put" => search'[r].floor = 0
  <2>1. CASE r = s
    BY <1>4, <2>1
  <2>2. CASE r # s
    BY <1>0, <1>1, <1>5, <1>6, <1>7, <2>2 DEF Fresh
  <2> QED
    BY <2>1, <2>2
<1> QED
  BY <1>2, <1>3, <1>8 DEF Fresh

LEMMA FreshMutationStep ==
  ASSUME TypeOK, Fresh, NEW m \in Mutators, MutationStep(m)
  PROVE  Fresh' /\ acked' \in acked..corpus' /\ UNCHANGED search
<1>1. /\ epoch \in Nat /\ HeldEpoch \in Nat /\ HeldEpoch >= epoch
      /\ corpus \in Nat /\ acked \in Nat /\ acked <= corpus
      /\ \A r \in Searchers : /\ search[r].epoch \in Nat /\ search[r].epoch <= epoch
                              /\ search[r].floor \in Nat /\ search[r].rows \in Nat
      /\ \A i \in DOMAIN cache : cache[i].rows \in Nat
      /\ \A h \in Mutators : job[h].version \in Nat
  <2>1. \A i \in DOMAIN cache : cache[i] \in Entries
    BY DEF TypeOK
  <2> QED
    BY <2>1, HeldKeeps DEF TypeOK, Searches, Fresh, Jobs, Entries
<1>2. UNCHANGED search
  BY DEF MutationStep, BeginMutation, Commit, EndStep, MutationFails, EndMutation,
         PanicInInvalidate, DropMutation, DetachedCommit, DetachedEnd
<1>3. corpus' \in Nat /\ corpus <= corpus'
  BY <1>1 DEF MutationStep, BeginMutation, Commit, EndStep, MutationFails, EndMutation,
              PanicInInvalidate, DropMutation, DetachedCommit, DetachedEnd
<1>4. /\ job'[m].version <= corpus'
      /\ \A h \in Mutators : h # m => job'[h] = job[h]
  <2>1. job \in [Mutators -> Jobs] /\ job[m].version <= corpus
    BY DEF TypeOK, Fresh
  <2>2. CASE BeginMutation(m)
    BY <1>1, <2>1, <2>2 DEF BeginMutation, Begun
  <2>3. CASE Commit(m)
    <3>1. PICK pc : job' = [job EXCEPT ![m] = Committed(job[m], pc)]
      BY <2>3 DEF Commit
    <3>2. Committed(job[m], pc).version = corpus + 1
      BY <2>1 DEF Committed, Jobs
    <3> QED
      BY <1>1, <2>1, <2>3, <3>1, <3>2 DEF Commit
  <2>4. CASE EndStep(m)
    <3>1. /\ corpus' = corpus
          /\ job'[m].version \in {0, job[m].version}
          /\ job' = [job EXCEPT ![m] = job'[m]]
      BY <2>1, <2>4 DEF EndStep, NoJob, Jobs
    <3> QED
      BY <1>1, <2>1, <3>1
  <2>5. CASE MutationFails(m)
    <3>1. /\ corpus' = corpus
          /\ job'[m].version \in {0, job[m].version}
          /\ job' = [job EXCEPT ![m] = job'[m]]
      BY <2>1, <2>5 DEF MutationFails, NoJob, Jobs
    <3> QED
      BY <1>1, <2>1, <3>1
  <2>6. CASE EndMutation(m) \/ PanicInInvalidate(m)
    <3>1. corpus' = corpus /\ job' = [job EXCEPT ![m] = NoJob]
      BY <2>6 DEF EndMutation, PanicInInvalidate
    <3> QED
      BY <1>1, <2>1, <3>1 DEF NoJob
  <2>7. CASE DropMutation(m) \/ DetachedCommit(m) \/ DetachedEnd(m)
    <3>1. /\ corpus <= corpus'
          /\ job'[m].version \in {0, job[m].version}
          /\ job' = [job EXCEPT ![m] = job'[m]]
      <4>1. CASE DropMutation(m)
        <5>1. [job[m] EXCEPT !.pc = "detached", !.dirty = FALSE].version = job[m].version
          BY <2>1 DEF Jobs
        <5> QED
          BY <1>3, <2>1, <4>1, <5>1 DEF DropMutation
      <4>2. CASE DetachedCommit(m) \/ DetachedEnd(m)
        <5>1. job' = [job EXCEPT ![m] = job[m]] \/ job' = [job EXCEPT ![m] = NoJob]
          BY <4>2 DEF DetachedCommit, DetachedEnd
        <5> QED
          BY <1>3, <2>1, <5>1 DEF NoJob
      <4> QED
        BY <2>7, <4>1, <4>2
    <3>2. job[m].version \in Nat /\ job[m].version <= corpus'
      BY <1>1, <1>3, <2>1
    <3> QED
      BY <1>1, <1>3, <2>1, <3>1, <3>2
  <2> QED
    BY <2>2, <2>3, <2>4, <2>5, <2>6, <2>7 DEF MutationStep
<1>5. \/ cache' = cache /\ epoch' = epoch /\ acked' = acked
      \/ cache' = <<>> /\ epoch' = HeldEpoch /\ acked' = acked
      \/ cache' = <<>> /\ epoch' = HeldEpoch + 1 /\ acked' \in acked..corpus
  <2>1. CASE EndMutation(m)
    <3>1. job[m].version \in Nat /\ job[m].version <= corpus
      BY <1>1 DEF Fresh
    <3> QED
      BY <1>1, <2>1, <3>1 DEF EndMutation, Invalidate
  <2>2. CASE BeginMutation(m)
    BY <1>1, <2>2 DEF BeginMutation, Invalidate
  <2>3. CASE EndStep(m)
    BY <1>1, <2>3 DEF EndStep, Invalidate
  <2>4. CASE \/ Commit(m) \/ MutationFails(m) \/ PanicInInvalidate(m)
             \/ DropMutation(m) \/ DetachedCommit(m) \/ DetachedEnd(m)
    BY <1>1, <2>4 DEF Commit, MutationFails, PanicInInvalidate, DropMutation,
                      DetachedCommit, DetachedEnd
  <2> QED
    BY <2>1, <2>2, <2>3, <2>4 DEF MutationStep
<1>6. epoch' \in Nat /\ epoch <= epoch' /\ acked' \in acked..corpus'
  BY <1>1, <1>3, <1>5
<1>7. \A i \in DOMAIN cache' : acked' <= cache'[i].rows /\ cache'[i].rows <= corpus'
  BY <1>1, <1>3, <1>5 DEF Fresh
<1>8. \A r \in Searchers : /\ search[r].floor <= acked' /\ search[r].epoch <= epoch'
                           /\ search[r].rows <= corpus'
  BY <1>1, <1>3, <1>6 DEF Fresh
<1>9. \A r \in Searchers :
        search[r].pc = "put" /\ search[r].epoch = epoch' => acked' <= search[r].rows
  BY <1>1, <1>5 DEF Fresh
<1>10. \A h \in Mutators : job'[h].version <= corpus'
  BY <1>1, <1>3, <1>4 DEF Fresh
<1> QED
  BY <1>2, <1>6, <1>7, <1>8, <1>9, <1>10 DEF Fresh

LEMMA FreshAlways == Spec => [](TypeOK /\ PutsAreEligible /\ Fresh)
<1>1. TypeOK /\ PutsAreEligible /\ Fresh /\ [Next]_vars => Fresh'
  <2> SUFFICES ASSUME TypeOK, PutsAreEligible, Fresh, [Next]_vars
               PROVE  Fresh'
    OBVIOUS
  <2>1. CASE \E s \in Searchers : SearchStep(s)
    BY <2>1, FreshSearchStep
  <2>2. CASE \E m \in Mutators : MutationStep(m)
    BY <2>2, FreshMutationStep
  <2>3. CASE UNCHANGED vars
    BY <2>3 DEF vars, Fresh
  <2> QED
    BY <2>1, <2>2, <2>3 DEF Next
<1> QED
  BY <1>1, FreshInit, TypeCorrect, PTL DEF Spec

-----------------------------------------------------------------------------
(* The cached search implements the abstract one.                            *)

Pending == {s \in Searchers : search[s].pc \in {"lookup", "read"}}
Floor == [s \in Searchers |-> search[s].floor]
Rows == [s \in Searchers |-> search[s].rows]

LEMMA SearchStepImplements ==
  ASSUME TypeOK, PutsAreEligible, Fresh, NEW s \in Searchers, SearchStep(s)
  PROVE  [Service!ServiceNext]_Service!serviceVars
<1>0. /\ corpus \in Nat /\ acked \in Nat /\ acked <= corpus
      /\ search \in [Searchers -> Searches] /\ search[s] \in Searches
      /\ search[s].floor \in Nat /\ search[s].rows \in Nat /\ search[s].floor <= acked
  BY DEF TypeOK, Fresh, Searches
<1>1. UNCHANGED <<corpus, acked>>
  BY DEF SearchStep, Ask, Hit, Miss, Bypass, ReadStore, SearchFails, Publish, PanicInGet
<1>2. search' = [search EXCEPT ![s] = search'[s]]
  BY <1>0 DEF SearchStep, Ask, Hit, Miss, Bypass, ReadStore, SearchFails, Publish, PanicInGet
<1>3. /\ Floor' = [Floor EXCEPT ![s] = search'[s].floor]
      /\ Rows' = [Rows EXCEPT ![s] = search'[s].rows]
      /\ Floor[s] = search[s].floor /\ Rows[s] = search[s].rows
  BY <1>0, <1>2 DEF Floor, Rows
<1>4. /\ search'[s].pc \in {"lookup", "read"} => Pending' = Pending \cup {s}
      /\ search'[s].pc \notin {"lookup", "read"} => Pending' = Pending \ {s}
      /\ s \in Pending <=> search[s].pc \in {"lookup", "read"}
  BY <1>0, <1>2 DEF Pending
<1>5. CASE Ask(s)
  <2>1. /\ search'[s].pc = "lookup" /\ search'[s].floor = acked
        /\ search'[s].rows = 0 /\ search[s].pc = "idle"
    BY <1>0, <1>5 DEF Ask, Searches
  <2>2. Service!Ask(s)
    BY <1>0, <1>1, <1>3, <1>4, <2>1 DEF Service!Ask, Pending, Floor, Rows
  <2> QED
    BY <2>2 DEF Service!ServiceNext
<1>6. ASSUME search[s].pc \in {"lookup", "read"},
             search'[s].pc \notin {"lookup", "read"}, search'[s].floor = 0,
             search'[s].rows \in acked..corpus
      PROVE  Service!ServiceNext
  <2> DEFINE v == search'[s].rows
  <2>1. /\ v \in Floor[s]..corpus /\ s \in Pending
        /\ Pending' = Pending \ {s}
        /\ Rows' = [Rows EXCEPT ![s] = v] /\ Floor' = [Floor EXCEPT ![s] = 0]
    BY <1>0, <1>3, <1>4, <1>6
  <2> HIDE DEF v
  <2>2. Service!Answer(s)
    BY <1>1, <2>1 DEF Service!Answer, Pending, Floor, Rows
  <2> QED
    BY <2>2 DEF Service!ServiceNext
<1>7. CASE Hit(s)
  <2>1. PICK i \in DOMAIN Held : search' = [search EXCEPT ![s] = Answered(Held[i].rows)]
    BY <1>7 DEF Hit
  <2>2. Held[i].rows \in acked..corpus
    BY <1>0, HeldIsFresh
  <2>3. search[s].pc = "lookup" /\ search'[s] = Answered(Held[i].rows)
    BY <1>0, <1>7, <2>1 DEF Hit
  <2> QED
    BY <1>6, <2>2, <2>3 DEF Answered
<1>8. CASE ReadStore(s)
  <2>1. /\ search[s].pc = "read" /\ search'[s].pc \in {"put", "idle"}
        /\ search'[s].floor = 0 /\ search'[s].rows = corpus
    BY <1>0, <1>8 DEF ReadStore, Answered, Searches
  <2> QED
    BY <1>0, <1>6, <2>1
<1>9. CASE SearchFails(s) \/ PanicInGet(s)
  <2>1. /\ search[s].pc \in {"lookup", "read"} /\ search'[s] = Answered(search[s].rows)
    BY <1>0, <1>9 DEF SearchFails, PanicInGet
  <2>2. /\ s \in Pending /\ Pending' = Pending \ {s}
        /\ Rows' = [Rows EXCEPT ![s] = Rows[s]] /\ Floor' = [Floor EXCEPT ![s] = 0]
    BY <1>3, <1>4, <2>1 DEF Answered
  <2>3. Rows' = Rows
    BY <2>2 DEF Rows
  <2>4. Service!GiveUp(s)
    BY <1>1, <2>2, <2>3 DEF Service!GiveUp, Pending, Floor, Rows
  <2> QED
    BY <2>4 DEF Service!ServiceNext
<1>10. CASE Miss(s) \/ Bypass(s) \/ Publish(s)
  <2>1. /\ search'[s].rows = search[s].rows /\ search'[s].floor = search[s].floor
        /\ search'[s].pc \in {"lookup", "read"} <=> search[s].pc \in {"lookup", "read"}
    <3>1. CASE Miss(s)
      BY <1>0, <3>1 DEF Miss, Searches
    <3>2. CASE Bypass(s)
      BY <1>0, <3>2 DEF Bypass, Searches
    <3>3. CASE Publish(s)
      BY <1>0, <3>3 DEF Publish, Answered, Fresh
    <3> QED
      BY <1>10, <3>1, <3>2, <3>3
  <2>2. Pending' = Pending /\ Floor' = Floor /\ Rows' = Rows
    BY <1>0, <1>2, <2>1 DEF Pending, Floor, Rows
  <2> QED
    BY <1>1, <2>2 DEF Service!serviceVars, Pending, Floor, Rows
<1> QED
  BY <1>5, <1>7, <1>8, <1>9, <1>10 DEF SearchStep

\* A mutation's step commits a new version, acknowledges one, or is invisible.
LEMMA MutationStepImplements ==
  ASSUME TypeOK, Fresh, NEW m \in Mutators, MutationStep(m)
  PROVE  [Service!ServiceNext]_Service!serviceVars
<1>1. UNCHANGED search /\ acked' \in acked..corpus'
  BY FreshMutationStep
<1>2. Pending' = Pending /\ Floor' = Floor /\ Rows' = Rows
  BY <1>1 DEF Pending, Floor, Rows
<1>3. CASE Commit(m) \/ DetachedCommit(m)
  <2>1. Service!Change
    BY <1>2, <1>3 DEF Commit, DetachedCommit, Service!Change, Pending, Floor, Rows
  <2> QED
    BY <2>1 DEF Service!ServiceNext
<1>4. CASE ~Commit(m) /\ ~DetachedCommit(m)
  <2>1. corpus' = corpus
    BY <1>4 DEF MutationStep, BeginMutation, EndStep, MutationFails, EndMutation,
                PanicInInvalidate, DropMutation, DetachedEnd
  <2>2. Service!Acknowledge
    BY <1>1, <1>2, <2>1 DEF Service!Acknowledge, Pending, Floor, Rows
  <2> QED
    BY <2>2 DEF Service!ServiceNext
<1> QED
  BY <1>3, <1>4

\* The cached search implements the search without a cache: no caller is ever
\* answered with rows older than a mutation acknowledged before it asked.
THEOREM CacheImplementsService == Spec => ImplementsService
<1>1. Init => Service!ServiceInit
  BY DEF Init, Service!ServiceInit, Answered
<1>2. TypeOK /\ PutsAreEligible /\ Fresh /\ [Next]_vars
        => [Service!ServiceNext]_Service!serviceVars
  <2> SUFFICES ASSUME TypeOK, PutsAreEligible, Fresh, [Next]_vars
               PROVE  [Service!ServiceNext]_Service!serviceVars
    OBVIOUS
  <2>1. CASE \E s \in Searchers : SearchStep(s)
    BY <2>1, SearchStepImplements
  <2>2. CASE \E m \in Mutators : MutationStep(m)
    BY <2>2, MutationStepImplements
  <2>3. CASE UNCHANGED vars
    BY <2>3 DEF vars, Service!serviceVars
  <2> QED
    BY <2>1, <2>2, <2>3 DEF Next
<1> QED
  BY <1>1, <1>2, FreshAlways, PTL DEF Spec, ImplementsService, Service!ServiceSpec

-----------------------------------------------------------------------------
(* Quiet coherence: the cache is current once every debt of an invalidation  *)
(* is paid.                                                                  *)

\* A mutation owes an invalidation from its first commit on, and only while it is
\* under way: those that can still be writing then either invalidate when they fail
\* or leave the debt in owed.
Owing(j) ==
  /\ j.dirty => j.pc \in {"write", "post"}
  /\ j.dirty /\ j.pc = "write" => InvalidatesOnError(j.kind) \/ LeavesPartial(j)

Owes == \A m \in Mutators : Owing(job[m])

\* While no mutation owes an invalidation, the cache and every put the epoch
\* still admits hold the latest version.
Settled ==
  (~poisoned /\ ~owed /\ \A m \in Mutators : ~job[m].dirty) =>
    /\ \A i \in DOMAIN cache : cache[i].rows = corpus
    /\ \A s \in Searchers :
         search[s].pc = "put" /\ search[s].epoch = epoch => search[s].rows = corpus

\* A mutation that has more than one transaction is one of those.
LEMMA MoreToWrite ==
  ASSUME NEW j \in Jobs, Batched(j.kind) \/ j.step < Steps(j.kind)
  PROVE  InvalidatesOnError(j.kind) \/ j.kind \in {"label", "sweep", "rebuild"}
  BY DEF Jobs, AllKinds, Batched, Steps, InvalidatesOnError

LEMMA OwesStep ==
  ASSUME TypeOK, Owes, [Next]_vars
  PROVE  Owes'
<1>1. CASE UNCHANGED job
  BY <1>1 DEF Owes
<1>2. ASSUME NEW m \in Mutators, MutationStep(m), ~UNCHANGED job
      PROVE  Owes'
  <2>0. /\ job \in [Mutators -> Jobs] /\ job[m] \in Jobs /\ Owing(job[m])
        /\ Owing(NoJob)
    BY DEF TypeOK, Owes, NoJob, Owing
  <2>1. SUFFICES \E j : Owing(j) /\ job' = [job EXCEPT ![m] = j]
    BY <2>0 DEF Owes
  <2>2. CASE BeginMutation(m)
    BY <2>2 DEF BeginMutation, Begun, Owing
  <2>3. CASE Commit(m)
    <3>1. PICK pc \in NextStages(job[m]) : job' = [job EXCEPT ![m] = Committed(job[m], pc)]
      BY <2>3 DEF Commit
    <3> DEFINE j == Committed(job[m], pc)
    <3>2. j.pc = pc /\ j.kind = job[m].kind /\ j.dirty
      BY <2>0 DEF Committed, Jobs
    <3>3. /\ pc \in {"write", "post"}
          /\ pc = "write" => Batched(job[m].kind) \/ job[m].step < Steps(job[m].kind)
      BY DEF NextStages
    <3>4. pc = "write" =>
            InvalidatesOnError(job[m].kind) \/ job[m].kind \in {"label", "sweep", "rebuild"}
      BY <2>0, <3>3, MoreToWrite
    <3>5. Owing(j)
      BY <3>2, <3>3, <3>4 DEF Owing, LeavesPartial
    <3> QED
      BY <3>1, <3>5
  <2>4. CASE EndStep(m)
    <3> DEFINE d == job[m].dirty /\ ~(job[m].kind = "maintenance" /\ job[m].dirty)
               next == [job[m] EXCEPT !.step = job[m].step + 1, !.dirty = d]
               last == [job[m] EXCEPT !.pc = "post", !.dirty = d]
    <3>1. job[m].pc = "write" /\ (d => job[m].dirty)
      BY <2>4 DEF EndStep
    <3>2. \/ job' = [job EXCEPT ![m] = next]
          \/ job' = [job EXCEPT ![m] = NoJob]
          \/ job' = [job EXCEPT ![m] = last]
      BY <2>4 DEF EndStep
    <3>3. next.pc = "write" /\ next.kind = job[m].kind /\ next.dirty = d
      BY <2>0, <3>1 DEF Jobs
    <3>4. Owing(next)
      BY <2>0, <3>1, <3>3 DEF Owing, LeavesPartial
    <3>5. Owing(last)
      BY <2>0 DEF Jobs, Owing
    <3> QED
      BY <2>0, <3>2, <3>4, <3>5
  <2>5. CASE MutationFails(m)
    <3>1. Owing([job[m] EXCEPT !.pc = "post"])
      BY <2>0 DEF Jobs, Owing
    <3> QED
      BY <2>0, <2>5, <3>1 DEF MutationFails
  <2>6. CASE EndMutation(m) \/ PanicInInvalidate(m) \/ DetachedEnd(m)
    BY <2>0, <2>6 DEF EndMutation, PanicInInvalidate, DetachedEnd
  <2>7. CASE DropMutation(m)
    <3>1. Owing([job[m] EXCEPT !.pc = "detached", !.dirty = FALSE])
      BY <2>0 DEF Jobs, Owing
    <3> QED
      BY <2>7, <3>1 DEF DropMutation
  <2>8. CASE DetachedCommit(m)
    BY <2>0, <2>8 DEF DetachedCommit
  <2> QED
    BY <1>2, <2>2, <2>3, <2>4, <2>5, <2>6, <2>7, <2>8 DEF MutationStep
<1>3. ASSUME NEW s \in Searchers, SearchStep(s)
      PROVE  UNCHANGED job
  BY <1>3 DEF SearchStep, Ask, Hit, Miss, Bypass, ReadStore, SearchFails, Publish, PanicInGet
<1> QED
  BY <1>1, <1>2, <1>3 DEF Next, vars

\* A mutation's step invalidates, poisons, takes on a debt, or leaves things be.
LEMMA MutationSettles ==
  ASSUME TypeOK, Owes, NEW m \in Mutators, MutationStep(m)
  PROVE  \/ cache' = <<>> /\ epoch' = HeldEpoch + 1
         \/ poisoned' \/ owed'
         \/ \E h \in Mutators : job'[h].dirty
         \/ /\ UNCHANGED <<cache, epoch, corpus, poisoned, owed>>
            /\ (\A h \in Mutators : ~job'[h].dirty) => \A h \in Mutators : ~job[h].dirty
<1>0. /\ job \in [Mutators -> Jobs] /\ job[m] \in Jobs /\ owed \in BOOLEAN
      /\ job[m].dirty \in BOOLEAN /\ Owing(job[m])
  BY DEF TypeOK, Owes, Jobs
<1>1. ASSUME NEW j, job' = [job EXCEPT ![m] = j], job[m].dirty => j.dirty
      PROVE  (\A h \in Mutators : ~job'[h].dirty) => \A h \in Mutators : ~job[h].dirty
  <2>1. job'[m] = j /\ \A h \in Mutators : h # m => job'[h] = job[h]
    BY <1>0, <1>1
  <2> QED
    BY <1>1, <2>1
<1>2. CASE BeginMutation(m)
  <2>1. CASE Invalidate
    BY <2>1 DEF Invalidate
  <2>2. CASE UNCHANGED <<cache, epoch, owed>>
    <3>1. ~job[m].dirty
      BY <1>0, <1>2 DEF BeginMutation, Owing
    <3>2. \E k : job' = [job EXCEPT ![m] = Begun(k)]
      BY <1>2 DEF BeginMutation
    <3> QED
      BY <1>1, <1>2, <2>2, <3>1, <3>2 DEF BeginMutation
  <2> QED
    BY <1>2, <2>1, <2>2 DEF BeginMutation
<1>3. CASE Commit(m)
  <2>1. PICK pc : job' = [job EXCEPT ![m] = Committed(job[m], pc)]
    BY <1>3 DEF Commit
  <2>2. Committed(job[m], pc).dirty
    BY <1>0 DEF Committed, Jobs
  <2> QED
    BY <1>0, <2>1, <2>2
<1>4. CASE EndStep(m)
  <2>1. CASE job[m].kind = "maintenance" /\ job[m].dirty
    BY <1>4, <2>1 DEF EndStep, Invalidate
  <2>2. CASE ~(job[m].kind = "maintenance" /\ job[m].dirty)
    <3> DEFINE d == job[m].dirty /\ ~(job[m].kind = "maintenance" /\ job[m].dirty)
               next == [job[m] EXCEPT !.step = job[m].step + 1, !.dirty = d]
               last == [job[m] EXCEPT !.pc = "post", !.dirty = d]
    <3>1. next.dirty = d /\ last.dirty = d /\ (job[m].dirty => d)
      BY <1>0, <2>2 DEF Jobs
    <3>2. job[m].kind = "mask" => ~job[m].dirty
      BY <1>0, <1>4 DEF EndStep, Owing, InvalidatesOnError, LeavesPartial
    <3>3. \/ job' = [job EXCEPT ![m] = next]
          \/ job[m].kind = "mask" /\ job' = [job EXCEPT ![m] = NoJob]
          \/ job' = [job EXCEPT ![m] = last]
      BY <1>4 DEF EndStep
    <3>4. UNCHANGED <<cache, epoch, corpus, poisoned, owed>>
      BY <1>4, <2>2 DEF EndStep
    <3> HIDE DEF next, last, d
    <3> QED
      BY <1>1, <3>1, <3>2, <3>3, <3>4
  <2> QED
    BY <2>1, <2>2
<1>5. CASE MutationFails(m)
  <2>1. UNCHANGED <<cache, epoch, corpus, poisoned>>
    BY <1>5 DEF MutationFails
  <2>2. CASE LeavesPartial(job[m])
    BY <1>5, <2>2 DEF MutationFails
  <2>3. CASE ~LeavesPartial(job[m])
    <3>1. owed' = owed
      BY <1>0, <1>5, <2>3 DEF MutationFails
    <3>2. CASE InvalidatesOnError(job[m].kind)
      <4>1. [job[m] EXCEPT !.pc = "post"].dirty = job[m].dirty
        BY <1>0 DEF Jobs
      <4> QED
        BY <1>1, <1>5, <2>1, <3>1, <3>2, <4>1 DEF MutationFails
    <3>3. CASE ~InvalidatesOnError(job[m].kind)
      <4>1. ~job[m].dirty
        BY <1>0, <1>5, <2>3, <3>3 DEF MutationFails, Owing
      <4> QED
        BY <1>1, <1>5, <2>1, <3>1, <3>3, <4>1 DEF MutationFails
    <3> QED
      BY <3>2, <3>3
  <2> QED
    BY <2>2, <2>3
<1>6. CASE EndMutation(m)
  BY <1>6 DEF EndMutation, Invalidate
<1>7. CASE PanicInInvalidate(m)
  BY <1>7 DEF PanicInInvalidate
<1>8. CASE DropMutation(m)
  <2>1. CASE job[m].dirty
    BY <1>8, <2>1 DEF DropMutation
  <2>2. CASE ~job[m].dirty
    <3>1. owed' = owed
      BY <1>0, <1>8, <2>2 DEF DropMutation
    <3> QED
      BY <1>1, <1>8, <2>2, <3>1 DEF DropMutation
  <2> QED
    BY <2>1, <2>2
<1>9. CASE DetachedCommit(m)
  BY <1>9 DEF DetachedCommit
<1>10. CASE DetachedEnd(m)
  <2>1. ~job[m].dirty
    BY <1>0, <1>10 DEF DetachedEnd, Owing
  <2> QED
    BY <1>1, <1>10, <2>1 DEF DetachedEnd
<1> QED
  BY <1>2, <1>3, <1>4, <1>5, <1>6, <1>7, <1>8, <1>9, <1>10 DEF MutationStep

LEMMA SettledStep ==
  ASSUME TypeOK, PutsAreEligible, Fresh, Owes, Settled, [Next]_vars
  PROVE  Settled'
<1>0. /\ epoch \in Nat /\ HeldEpoch \in Nat /\ HeldEpoch >= epoch
      /\ \A r \in Searchers : search[r].epoch \in Nat /\ search[r].epoch <= epoch
  BY HeldKeeps DEF TypeOK, Searches, Fresh
<1>1. ASSUME NEW m \in Mutators, MutationStep(m)
      PROVE  Settled'
  <2>1. UNCHANGED search
    BY <1>1, FreshMutationStep
  <2>2. CASE cache' = <<>> /\ epoch' = HeldEpoch + 1
    <3>1. \A r \in Searchers : search[r].epoch # epoch'
      BY <1>0, <2>2
    <3> QED
      BY <2>1, <2>2, <3>1 DEF Settled
  <2>3. CASE poisoned' \/ owed' \/ \E h \in Mutators : job'[h].dirty
    BY <2>3 DEF Settled
  <2>4. CASE /\ UNCHANGED <<cache, epoch, corpus, poisoned, owed>>
             /\ (\A h \in Mutators : ~job'[h].dirty) => \A h \in Mutators : ~job[h].dirty
    BY <2>1, <2>4 DEF Settled
  <2> QED
    BY <1>1, <2>2, <2>3, <2>4, MutationSettles
<1>2. ASSUME NEW s \in Searchers, SearchStep(s)
      PROVE  Settled'
  <2>1. SUFFICES ASSUME ~poisoned', ~owed', \A h \in Mutators : ~job'[h].dirty
                 PROVE  /\ \A i \in DOMAIN cache' : cache'[i].rows = corpus'
                        /\ \A r \in Searchers :
                             search'[r].pc = "put" /\ search'[r].epoch = epoch'
                               => search'[r].rows = corpus'
    BY DEF Settled
  <2>2. UNCHANGED <<corpus, job, owed>>
    BY <1>2 DEF SearchStep, Ask, Hit, Miss, Bypass, ReadStore, SearchFails, Publish,
                PanicInGet
  <2>3. ~poisoned
    BY <1>2, <2>1 DEF SearchStep, Ask, Hit, Miss, Bypass, ReadStore, SearchFails, Publish,
                      PanicInGet
  <2>4. /\ \A i \in DOMAIN cache : cache[i].rows = corpus
        /\ \A r \in Searchers :
             search[r].pc = "put" /\ search[r].epoch = epoch => search[r].rows = corpus
    BY <2>1, <2>2, <2>3 DEF Settled
  <2>5. epoch' = epoch
    BY <1>2, <2>3, SearchStepCaches DEF HeldEpoch
  <2>6. \A i \in DOMAIN cache' : cache'[i].rows = corpus'
    BY <1>2, <2>2, <2>4, SearchStepCaches
  <2>7. search \in [Searchers -> Searches] /\ search[s] \in Searches
    BY DEF TypeOK
  <2>8. search' = [search EXCEPT ![s] = search'[s]]
    BY <1>2, <2>7 DEF SearchStep, Ask, Hit, Miss, Bypass, ReadStore, SearchFails, Publish,
                      PanicInGet
  <2>9. search'[s].pc = "put" => search'[s].rows = corpus
    <3>1. CASE ReadStore(s)
      BY <2>7, <3>1 DEF ReadStore, Answered, Searches
    <3>2. CASE ~ReadStore(s)
      <4>1. CASE Ask(s) \/ Miss(s) \/ Bypass(s)
        BY <2>7, <4>1 DEF Ask, Miss, Bypass, Searches
      <4>2. CASE Hit(s) \/ SearchFails(s) \/ Publish(s) \/ PanicInGet(s)
        <5>1. \E v : search' = [search EXCEPT ![s] = Answered(v)]
          BY <4>2 DEF Hit, SearchFails, Publish, PanicInGet
        <5> QED
          BY <2>7, <5>1 DEF Answered
      <4> QED
        BY <1>2, <3>2, <4>1, <4>2 DEF SearchStep
    <3> QED
      BY <3>1, <3>2
  <2>10. \A r \in Searchers : r # s => search'[r] = search[r]
    BY <2>7, <2>8
  <2> QED
    BY <2>2, <2>4, <2>5, <2>6, <2>9, <2>10
<1>3. CASE UNCHANGED vars
  BY <1>3 DEF vars, Settled
<1> QED
  BY <1>1, <1>2, <1>3 DEF Next

\* Whatever a lookup can hit once no mutation is in flight and none has ended
\* without its closing invalidation is the latest version of the history, through
\* racing puts, failed retention sweeps, dropped handlers and panics under the mutex.
THEOREM QuietCacheHolds == Spec => []QuietCacheIsCurrent
<1>1. Init => Owes /\ Settled
  <2> SUFFICES ASSUME Init PROVE Owes /\ Settled
    OBVIOUS
  <2>1. \A m \in Mutators : Owing(job[m]) /\ ~job[m].dirty
    BY DEF Init, NoJob, Owing
  <2>2. \A s \in Searchers : search[s].pc # "put"
    BY DEF Init, Answered
  <2> QED
    BY <2>1, <2>2 DEF Init, Owes, Settled
<1>2. TypeOK /\ PutsAreEligible /\ Fresh /\ Owes /\ Settled /\ [Next]_vars
        => Owes' /\ Settled'
  BY OwesStep, SettledStep
<1>3. TypeOK /\ Owes /\ Settled => QuietCacheIsCurrent
  <2> SUFFICES ASSUME TypeOK, Owes, Settled, ~owed,
                      \A m \in Mutators : job[m].pc = "idle",
                      NEW i \in DOMAIN Held
               PROVE  Held[i].rows = corpus
    BY DEF QuietCacheIsCurrent
  <2>1. \A m \in Mutators : ~job[m].dirty
    BY DEF Owes, Owing
  <2>2. CASE poisoned
    BY <2>2 DEF Held
  <2>3. CASE ~poisoned
    BY <2>1, <2>3 DEF Held, Settled
  <2> QED
    BY <2>2, <2>3
<1> QED
  BY <1>1, <1>2, <1>3, FreshAlways, PTL DEF Spec
=============================================================================
