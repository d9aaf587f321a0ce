--------------------------- MODULE Collector_proofs ---------------------------
(***************************************************************************)
(* Proofs about BackgroundCollector and its aggregator, for any metrics,   *)
(* processes, number of start() calls and filter changes: where a polled   *)
(* metric can be, what the session totals and the dashboard are bounded    *)
(* by when loops overlap, and what they equal when they do not.            *)
(***************************************************************************)
EXTENDS Collector, AggregatorLemmas

-----------------------------------------------------------------------------
(* Type correctness. *)

(* Summaries are made of entries, and so is what a summary still visits; a   *)
(* start() under way has a thread to give.                                   *)
EntriesOK == /\ DOMAIN built = Threads
             /\ \A t \in Threads : \A p \in DOMAIN built[t] : built[t][p] \in Entry
             /\ \A p \in DOMAIN published : published[p] \in Entry
             /\ \A t \in Threads :
                  pc[t] \in {"reset", "build"} => keys[t] \subseteq DOMAIN session
StartOK   == ctl \in {"choosing", "loading", "fallback", "launching"} => launched < MaxThreads

Typed == TypeOK /\ EntriesOK /\ StartOK

LEMMA TypeInit == Init => Typed
<1>. SUFFICES ASSUME Init
              PROVE  Typed
  OBVIOUS
<1>1. \A p \in DOMAIN <<>> : FALSE
  OBVIOUS
<1>2. /\ DOMAIN session \subseteq Pids /\ DOMAIN published \subseteq Pids
      /\ \A p \in DOMAIN session : session[p] \in Entry
      /\ \A t \in Threads : DOMAIN built[t] \subseteq Pids
  BY <1>1 DEF Init
<1>3. /\ raw \in [Threads -> SUBSET Metrics] /\ snaps \in [Threads -> SUBSET Metrics]
      /\ todo \in [Threads -> SUBSET Metrics] /\ cur \in [Threads -> SUBSET Metrics]
      /\ keys \in [Threads -> SUBSET Pids] /\ size \in [Threads -> Nat]
      /\ pc \in [Threads -> PCs]
  BY DEF Init, PCs
<1>4. TypeOK
  <2>1. /\ ctl = "stopped" /\ running = FALSE /\ mock = FALSE /\ loaded = FALSE
        /\ launched = 0 /\ changes = 0 /\ filter = "ALL"
        /\ fresh = Metrics /\ pending = {} /\ dropped = {}
        /\ stored = {} /\ undone = {} /\ residue = {} /\ discarded = {} /\ lost = {}
    BY DEF Init
  <2>2. launched \in 0 .. MaxThreads /\ changes \in 0 .. MaxChanges
    BY <2>1, CollectorAssumption
  <2>3. running \in BOOLEAN /\ mock \in BOOLEAN /\ loaded \in BOOLEAN /\ filter \in Filters
    BY <2>1 DEF Filters
  <2>. QED BY <1>2, <1>3, <2>1, <2>2, <2>3 DEF TypeOK
<1>5. EntriesOK /\ StartOK
  <2>1. /\ DOMAIN built = Threads /\ \A t \in Threads : built[t] = <<>> /\ pc[t] = "none"
        /\ published = <<>> /\ ctl = "stopped"
    BY DEF Init
  <2>. QED BY <1>1, <2>1 DEF EntriesOK, StartOK
<1>. QED BY <1>4, <1>5 DEF Typed

LEMMA SizeType == TypeOK => Cardinality(DOMAIN session) \in Nat
  BY PidsFinite, FS_Subset, FS_CardinalityType DEF TypeOK

LEMMA TypeNext == Typed /\ [Next]_vars => Typed'
<1>. SUFFICES ASSUME Typed, [Next]_vars
              PROVE  Typed'
  OBVIOUS
<1>. USE DEF fields, config, ingest, summary, source, store, Goto, PCs, TypeOK, EntriesOK,
             StartOK, Typed
<1>1. CASE StartFlag \/ StartLoader \/ StartLoad \/ StartLoadFails \/ StartFallback \/ StopFlag
  BY <1>1, CollectorAssumption DEF StartFlag, StartLoader, StartLoad, StartLoadFails,
                                  StartFallback, StopFlag
<1>2. CASE StartThread
  <2>1. launched' \in 0 .. MaxThreads
    BY <1>2, CollectorAssumption DEF StartThread
  <2>2. pc' \in [Threads -> PCs]
    BY <1>2 DEF StartThread
  <2>. QED BY <1>2, <2>1, <2>2 DEF StartThread
<1>3. CASE StopCleanup
  BY <1>3 DEF StopCleanup
<1>4. ASSUME NEW m \in Metrics, Raise(m)
      PROVE  Typed'
  BY <1>4 DEF Raise
<1>5. ASSUME NEW f \in Filters, SetFilter(f)
      PROVE  Typed'
  BY <1>5, CollectorAssumption DEF SetFilter
<1>6. ASSUME NEW t \in Threads, ThreadStep(t)
      PROVE  Typed'
  <2>1. CASE Check(t) \/ PollRaises(t) \/ IterationRaises(t) \/ ResetDone(t) \/ BuildDone(t)
             \/ Sleep(t)
    BY <2>1 DEF Check, PollRaises, IterationRaises, ResetDone, BuildDone, Sleep
  <2>2. CASE Poll(t)
    BY <2>2 DEF Poll
  <2>3. CASE Insert(t)
    BY <2>3, SizeType DEF Insert
  <2>4. CASE InsertRaises(t) \/ TestRaises(t)
    BY <2>4 DEF InsertRaises, TestRaises
  <2>5. CASE Create(t)
    <3>1. PICK m \in cur[t] :
             session' = [p \in DOMAIN session \union {PidOf[m]} |->
                           IF p = PidOf[m] THEN Add(NewEntry, m) ELSE session[p]]
      BY <2>5 DEF Create
    <3>2. m \in Metrics /\ PidOf[m] \in Pids /\ Add(NewEntry, m) \in Entry
      BY AddCounts, NewEntryCounts DEF Pids
    <3>3. /\ DOMAIN session' \subseteq Pids
          /\ \A p \in DOMAIN session' : session'[p] \in Entry
      BY <3>1, <3>2
    <3>4. cur' \in [Threads -> SUBSET Metrics] /\ pc' \in [Threads -> PCs]
      BY <2>5 DEF Create
    <3>. QED BY <2>5, <3>3, <3>4 DEF Create
  <2>6. CASE CountDone(t)
    BY <2>6, SizeType DEF CountDone
  <2>7. CASE Publish(t)
    BY <2>7 DEF Publish
  <2>8. ASSUME NEW m \in Metrics, Test(t, m)
        PROVE  Typed'
    BY <2>8 DEF Test
  <2>9. ASSUME NEW m \in Metrics, Count(t, m)
        PROVE  Typed'
    <3>1. /\ DOMAIN session' = DOMAIN session
          /\ \A p \in DOMAIN session' : session'[p] \in Entry
      BY <2>9, AddCounts DEF Count
    <3>. QED BY <2>9, <3>1 DEF Count
  <2>10. ASSUME NEW m \in Metrics, Miss(t, m)
         PROVE  Typed'
    BY <2>10 DEF Miss
  <2>11. ASSUME NEW p \in Pids, Reset(t, p)
         PROVE  Typed'
    <3>1. /\ DOMAIN session' = DOMAIN session
          /\ \A q \in DOMAIN session' : session'[q] \in Entry
      BY <2>11, QuietCounts DEF Reset
    <3>. QED BY <2>11, <3>1 DEF Reset
  <2>12. ASSUME NEW p \in Pids, Build(t, p)
         PROVE  Typed'
    <3>1. /\ DOMAIN built' = Threads
          /\ \A s \in Threads : s # t => built'[s] = built[s]
          /\ DOMAIN built'[t] = DOMAIN built[t] \union {p}
          /\ built'[t][p] = session[p]
          /\ \A q \in DOMAIN built[t] : q # p => built'[t][q] = built[t][q]
      BY <2>12 DEF Build
    <3>2. p \in DOMAIN session
      BY <2>12 DEF Build
    <3>3. /\ \A s \in Threads : DOMAIN built'[s] \subseteq Pids
          /\ EntriesOK'
      BY <2>12, <3>1, <3>2 DEF Build
    <3>4. keys' \in [Threads -> SUBSET Pids]
      BY <2>12 DEF Build
    <3>. QED BY <2>12, <3>3, <3>4 DEF Build
  <2>. QED BY <1>6, <2>1, <2>2, <2>3, <2>4, <2>5, <2>6, <2>7, <2>8, <2>9, <2>10, <2>11, <2>12
           DEF ThreadStep
<1>7. CASE UNCHANGED vars
  BY <1>7 DEF vars
<1>. QED BY <1>1, <1>2, <1>3, <1>4, <1>5, <1>6, <1>7 DEF Next, ControlStep

(* Type correctness of the collector, its threads, the session map and the   *)
(* summaries (BackgroundCollector, summarize_by_process).                    *)
THEOREM TypeCorrect == Spec => []TypeOK
<1>1. Typed => TypeOK
  BY DEF Typed
<1>. QED BY <1>1, TypeInit, TypeNext, PTL DEF Spec
-----------------------------------------------------------------------------
(* Where a metric is. *)

(* A thread that has not been launched is nowhere.                           *)
LaunchedOK == \A t \in Threads : t > launched => pc[t] = "none"

(* Metrics are looked at between a poll and its insert, each once.           *)
RawOK == \A t \in Threads : IF pc[t] = "test" THEN raw[t] \intersect snaps[t] = {}
                                              ELSE raw[t] = {}

Settled == fresh \union pending \union dropped \union stored \union undone
             \union discarded \union lost

PlacesApart ==
  /\ fresh \intersect (pending \union dropped \union stored \union undone
                         \union discarded \union lost) = {}
  /\ pending \intersect (dropped \union stored \union undone \union discarded \union lost) = {}
  /\ dropped \intersect (stored \union undone \union discarded \union lost) = {}
  /\ stored \intersect (undone \union discarded \union lost) = {}
  /\ undone \intersect (discarded \union lost) = {}
  /\ discarded \intersect lost = {}

ThreadsApart ==
  /\ \A t \in Threads : Processing(t) \intersect Settled = {}
  /\ \A s, t \in Threads : s # t => Processing(s) \intersect Processing(t) = {}

NoneMissing == \A m \in Metrics : m \in Settled \/ \E t \in Threads : m \in Processing(t)

Apart == /\ LaunchedOK /\ RawOK
         /\ PlacesApart /\ ThreadsApart /\ NoneMissing
         /\ residue \subseteq stored

LEMMA ApartInit == Init => Apart
<1>. SUFFICES ASSUME Init
              PROVE  Apart
  OBVIOUS
<1>1. /\ fresh = Metrics /\ pending = {} /\ dropped = {}
      /\ stored = {} /\ undone = {} /\ residue = {} /\ discarded = {} /\ lost = {}
      /\ \A t \in Threads : pc[t] = "none" /\ raw[t] = {}
  BY DEF Init
<1>2. \A t \in Threads : Processing(t) = {}
  BY <1>1 DEF Processing
<1>. QED BY <1>1, <1>2 DEF Apart, LaunchedOK, RawOK, PlacesApart, ThreadsApart, NoneMissing,
                           Settled

(* A step that moves no metric. *)
LEMMA NothingMoves ==
  ASSUME Apart, UNCHANGED <<source, store, raw>>, LaunchedOK',
         \A t \in Threads : pc'[t] = "test" <=> pc[t] = "test",
         \A t \in Threads : pc[t] = "test" => snaps'[t] = snaps[t]
  PROVE  Apart'
<1>1. \A t \in Threads : Processing(t)' = Processing(t)
  BY DEF Processing
<1>2. RawOK'
  BY DEF Apart, RawOK
<1>. QED BY <1>1, <1>2 DEF Apart, PlacesApart, ThreadsApart, NoneMissing, Settled, source, store

(* A step of one thread, and what it does to what the thread holds.          *)
LEMMA OthersKeep ==
  ASSUME TypeOK, NEW t \in Threads, NEW s \in Threads, s # t,
         raw'[s] = raw[s], snaps'[s] = snaps[s], pc'[s] = pc[s]
  PROVE  Processing(s)' = Processing(s)
  BY DEF Processing

LEMMA PollMoves ==
  ASSUME TypeOK, Apart, NEW t \in Threads, Poll(t)
  PROVE  /\ Processing(t) = {}
         /\ \E S \in SUBSET pending : Processing(t)' = S /\ pending' = pending \ S
         /\ \A s \in Threads : s # t => Processing(s)' = Processing(s)
         /\ RawOK' /\ LaunchedOK'
<1>1. PICK S \in SUBSET pending : raw' = [raw EXCEPT ![t] = S] /\ pending' = pending \ S
  BY DEF Poll
<1>2. /\ pc[t] = "poll" /\ pc'[t] = "test" /\ raw'[t] = S /\ snaps'[t] = {}
      /\ \A s \in Threads : s # t => raw'[s] = raw[s] /\ snaps'[s] = snaps[s] /\ pc'[s] = pc[s]
  BY <1>1 DEF Poll, Goto, TypeOK
<1>3. \A s \in Threads : s # t => Processing(s)' = Processing(s)
  BY <1>2, OthersKeep
<1>4. Processing(t)' = S /\ Processing(t) = {}
  BY <1>2 DEF Processing, Apart, RawOK
<1>5. RawOK' /\ LaunchedOK'
  BY <1>2 DEF Apart, RawOK, LaunchedOK, Poll, fields
<1>. QED BY <1>1, <1>3, <1>4, <1>5

LEMMA TestMoves ==
  ASSUME TypeOK, Apart, NEW t \in Threads, NEW m \in Metrics, Test(t, m)
  PROVE  /\ m \in Processing(t)
         /\ \/ Processing(t)' = Processing(t) /\ discarded' = discarded
            \/ Processing(t)' = Processing(t) \ {m} /\ discarded' = discarded \union {m}
         /\ \A s \in Threads : s # t => Processing(s)' = Processing(s)
         /\ RawOK' /\ LaunchedOK'
<1>1. /\ pc[t] = "test" /\ pc' = pc /\ m \in raw[t] /\ m \notin snaps[t]
      /\ raw'[t] = raw[t] \ {m}
      /\ \A s \in Threads : s # t => raw'[s] = raw[s] /\ snaps'[s] = snaps[s]
      /\ \/ snaps'[t] = snaps[t] \union {m} /\ discarded' = discarded
         \/ snaps'[t] = snaps[t] /\ discarded' = discarded \union {m}
  BY DEF Test, TypeOK, Apart, RawOK
<1>2. \A s \in Threads : s # t => Processing(s)' = Processing(s)
  BY <1>1, OthersKeep
<1>3. /\ m \in Processing(t)
      /\ \/ Processing(t)' = Processing(t) /\ discarded' = discarded
         \/ Processing(t)' = Processing(t) \ {m} /\ discarded' = discarded \union {m}
  BY <1>1 DEF Processing
<1>4. RawOK' /\ LaunchedOK'
  BY <1>1 DEF Apart, RawOK, LaunchedOK, Test, fields
<1>. QED BY <1>2, <1>3, <1>4

(* A batch is inserted or dropped.                                           *)
BatchEnds(t) == Insert(t) \/ InsertRaises(t) \/ TestRaises(t)

LEMMA BatchMoves ==
  ASSUME TypeOK, Apart, NEW t \in Threads, BatchEnds(t)
  PROVE  /\ Processing(t) = raw[t] \union snaps[t] /\ Processing(t)' = {}
         /\ \A s \in Threads : s # t => Processing(s)' = Processing(s)
         /\ RawOK' /\ LaunchedOK'
         /\ UNCHANGED <<source, discarded, loaded, launched>>
<1>1. /\ pc[t] = "test" /\ pc'[t] # "test" /\ raw'[t] = {} /\ snaps' = snaps
      /\ \A s \in Threads : s # t => pc'[s] = pc[s] /\ raw'[s] = raw[s]
      /\ UNCHANGED <<source, discarded, loaded, launched>>
  BY DEF BatchEnds, Insert, InsertRaises, TestRaises, Goto, TypeOK, ingest, fields
<1>2. \A s \in Threads : s # t => Processing(s)' = Processing(s)
  BY <1>1, OthersKeep
<1>3. Processing(t) = raw[t] \union snaps[t] /\ Processing(t)' = {}
  BY <1>1 DEF Processing
<1>4. RawOK' /\ LaunchedOK'
  BY <1>1 DEF Apart, RawOK, LaunchedOK
<1>. QED BY <1>1, <1>2, <1>3, <1>4

(* Of its records some are left in the database, some were rolled back, and  *)
(* the others are lost.                                                      *)
LEMMA BatchParts ==
  ASSUME TypeOK, Apart, NEW t \in Threads, BatchEnds(t)
  PROVE  \E left, gone \in SUBSET Processing(t) :
           /\ left \intersect gone = {}
           /\ stored' = stored \union left /\ undone' = undone \union gone
           /\ lost' = lost \union (Processing(t) \ (left \union gone))
           /\ residue' \subseteq residue \union left
<1>. DEFINE All == Processing(t)
<1>1. All = raw[t] \union snaps[t]
  BY BatchMoves
<1>. HIDE DEF All
<1>. SUFFICES \E left, gone \in SUBSET All :
                /\ left \intersect gone = {}
                /\ stored' = stored \union left /\ undone' = undone \union gone
                /\ lost' = lost \union (All \ (left \union gone))
                /\ residue' \subseteq residue \union left
  BY DEF All
<1>2. CASE Insert(t)
  <2>1. PICK gone \in SUBSET snaps[t] : /\ stored' = stored \union (snaps[t] \ gone)
                                       /\ undone' = undone \union gone
    BY <1>2 DEF Insert
  <2>2. /\ All = snaps[t] /\ UNCHANGED <<residue, lost>>
    BY <1>1, <1>2 DEF Insert
  <2>3. /\ All \ gone \in SUBSET All /\ (All \ gone) \intersect gone = {}
        /\ All \ ((All \ gone) \union gone) = {}
    BY <2>1, <2>2
  <2>. QED BY <2>1, <2>2, <2>3
<1>3. CASE InsertRaises(t)
  <2>1. PICK left \in SUBSET snaps[t] : /\ stored' = stored \union left
                                       /\ residue' = residue \union left
                                       /\ lost' = lost \union (snaps[t] \ left)
    BY <1>3 DEF InsertRaises
  <2>2. All = snaps[t] /\ undone' = undone
    BY <1>1, <1>3 DEF InsertRaises
  <2>3. {} \in SUBSET All /\ left \intersect {} = {} /\ left \union {} = left
        /\ undone \union {} = undone
    OBVIOUS
  <2>. QED BY <2>1, <2>2, <2>3
<1>4. CASE TestRaises(t)
  <2>1. UNCHANGED <<stored, undone, residue>> /\ lost' = lost \union All
    BY <1>1, <1>4 DEF TestRaises
  <2>2. /\ {} \in SUBSET All /\ All \ ({} \union {}) = All
        /\ stored \union {} = stored /\ undone \union {} = undone
    OBVIOUS
  <2>. QED BY <2>1, <2>2
<1>. QED BY <1>2, <1>3, <1>4 DEF BatchEnds

(* The steps of a thread that leave all metrics where they are. *)
Still(t) == \/ Check(t) \/ PollRaises(t) \/ IterationRaises(t) \/ ResetDone(t) \/ Create(t)
            \/ CountDone(t) \/ BuildDone(t) \/ Publish(t) \/ Sleep(t)
            \/ \E m \in Metrics : Count(t, m) \/ Miss(t, m)
            \/ \E p \in Pids : Reset(t, p) \/ Build(t, p)

LEMMA StillMoves ==
  ASSUME TypeOK, NEW t \in Threads, Still(t)
  PROVE  /\ UNCHANGED <<fields, source, store, ingest>>
         /\ pc[t] # "test" /\ pc'[t] # "test" /\ pc[t] # "none"
         /\ \A s \in Threads : s # t => pc'[s] = pc[s]
<1>. USE DEF Goto, TypeOK
<1>1. CASE Check(t) \/ PollRaises(t) \/ IterationRaises(t) \/ ResetDone(t) \/ Create(t)
  BY <1>1 DEF Check, PollRaises, IterationRaises, ResetDone, Create
<1>2. CASE CountDone(t) \/ BuildDone(t) \/ Publish(t) \/ Sleep(t)
  BY <1>2 DEF CountDone, BuildDone, Publish, Sleep
<1>3. CASE \E m \in Metrics : Count(t, m) \/ Miss(t, m)
  BY <1>3 DEF Count, Miss
<1>4. CASE \E p \in Pids : Reset(t, p) \/ Build(t, p)
  BY <1>4 DEF Reset, Build
<1>. QED BY <1>1, <1>2, <1>3, <1>4 DEF Still

LEMMA ApartNext == TypeOK /\ Apart /\ [Next]_vars => Apart'
<1>. SUFFICES ASSUME TypeOK, Apart, [Next]_vars
              PROVE  Apart'
  OBVIOUS
<1>1. CASE StartFlag \/ StartLoad \/ StartFallback \/ StopFlag \/ \E f \in Filters : SetFilter(f)
  <2>1. UNCHANGED <<source, store, ingest, pc, launched>>
    BY <1>1 DEF StartFlag, StartLoad, StartFallback, StopFlag, SetFilter, fields
  <2>. QED BY <2>1, NothingMoves DEF Apart, LaunchedOK, ingest
<1>2. CASE StartThread
  <2>1. /\ UNCHANGED <<source, store, ingest>>
        /\ launched' = launched + 1 /\ launched \in Nat
        /\ \A t \in Threads : pc'[t] = IF t = launched + 1 THEN "check" ELSE pc[t]
    BY <1>2, CollectorAssumption DEF StartThread, Goto, TypeOK
  <2>2. \A t \in Threads : t \in Int
    BY CollectorAssumption DEF Threads
  <2>3. LaunchedOK' /\ \A t \in Threads : t = launched + 1 => pc[t] = "none"
    BY <2>1, <2>2 DEF Apart, LaunchedOK
  <2>. QED BY <2>1, <2>3, NothingMoves DEF ingest
<1>3. CASE StartLoader \/ StartLoadFails \/ StopCleanup
  <2>1. /\ UNCHANGED <<fresh, store, ingest, pc, launched>>
        /\ \E S \in SUBSET pending : dropped' = dropped \union S /\ pending' = pending \ S
    <3>1. pending \in SUBSET pending /\ pending \ pending = {}
      OBVIOUS
    <3>. QED BY <1>3, <3>1 DEF StartLoader, StartLoadFails, StopCleanup
  <2>2. Settled' = Settled
    BY <2>1 DEF Settled, store
  <2>3. \A t \in Threads : Processing(t)' = Processing(t)
    BY <2>1 DEF Processing, ingest
  <2>4. PlacesApart'
    BY <2>1 DEF Apart, PlacesApart, store
  <2>. QED BY <2>1, <2>2, <2>3, <2>4
           DEF Apart, LaunchedOK, RawOK, ThreadsApart, NoneMissing, ingest, store
<1>4. ASSUME NEW m \in Metrics, Raise(m)
      PROVE  Apart'
  <2>1. /\ UNCHANGED <<dropped, store, ingest, pc, launched>>
        /\ m \in fresh /\ fresh' = fresh \ {m} /\ pending' = pending \union {m}
    BY <1>4 DEF Raise, fields
  <2>2. Settled' = Settled
    BY <2>1 DEF Settled, store
  <2>3. \A t \in Threads : Processing(t)' = Processing(t)
    BY <2>1 DEF Processing, ingest
  <2>4. PlacesApart'
    BY <2>1 DEF Apart, PlacesApart, store
  <2>. QED BY <2>1, <2>2, <2>3, <2>4
           DEF Apart, LaunchedOK, RawOK, ThreadsApart, NoneMissing, ingest, store
<1>5. ASSUME NEW t \in Threads, ThreadStep(t)
      PROVE  Apart'
  <2>1. CASE Still(t)
    <3>1. LaunchedOK'
      BY <2>1, StillMoves DEF Apart, LaunchedOK, fields
    <3>. QED BY <2>1, <3>1, StillMoves, NothingMoves DEF ingest
  <2>2. CASE Poll(t)
    <3>1. PICK S \in SUBSET pending : Processing(t)' = S /\ pending' = pending \ S
      BY <2>2, PollMoves
    <3>2. UNCHANGED <<fresh, dropped, store>>
      BY <2>2 DEF Poll
    <3>3. Settled' = Settled \ S
      BY <3>1, <3>2 DEF Apart, PlacesApart, Settled, store
    <3>4. PlacesApart' /\ residue' \subseteq stored'
      BY <3>1, <3>2 DEF Apart, PlacesApart, store
    <3>5. S \subseteq Settled
      BY DEF Settled
    <3>6. ThreadsApart'
      BY <2>2, <3>1, <3>3, <3>5, PollMoves DEF Apart, ThreadsApart
    <3>7. NoneMissing'
      BY <2>2, <3>1, <3>3, PollMoves DEF Apart, NoneMissing
    <3>. QED BY <2>2, <3>4, <3>6, <3>7, PollMoves DEF Apart
  <2>3. ASSUME NEW m \in Metrics, Test(t, m)
        PROVE  Apart'
    <3>1. /\ m \in Processing(t)
          /\ \/ Processing(t)' = Processing(t) /\ discarded' = discarded
             \/ Processing(t)' = Processing(t) \ {m} /\ discarded' = discarded \union {m}
          /\ \A s \in Threads : s # t => Processing(s)' = Processing(s)
          /\ RawOK' /\ LaunchedOK'
      BY <2>3, TestMoves
    <3>2. UNCHANGED <<source, stored, undone, residue, lost>>
      BY <2>3 DEF Test
    <3>3. m \notin Settled
      BY <3>1 DEF Apart, ThreadsApart
    <3>4. PlacesApart'
      BY <3>1, <3>2, <3>3 DEF Apart, PlacesApart, Settled, source
    <3>5. \/ Settled' = Settled /\ Processing(t)' = Processing(t)
          \/ Settled' = Settled \union {m} /\ Processing(t)' = Processing(t) \ {m}
      BY <3>1, <3>2 DEF Settled, source
    <3>6. ThreadsApart'
      BY <3>1, <3>5 DEF Apart, ThreadsApart
    <3>7. NoneMissing'
      BY <3>1, <3>5 DEF Apart, NoneMissing
    <3>. QED BY <3>1, <3>2, <3>4, <3>6, <3>7 DEF Apart
  <2>4. CASE BatchEnds(t)
    <3>1. /\ Processing(t)' = {}
          /\ \A s \in Threads : s # t => Processing(s)' = Processing(s)
          /\ RawOK' /\ LaunchedOK'
          /\ UNCHANGED <<source, discarded>>
      BY <2>4, BatchMoves
    <3>2. PICK left, gone \in SUBSET Processing(t) :
                 /\ left \intersect gone = {}
                 /\ stored' = stored \union left /\ undone' = undone \union gone
                 /\ lost' = lost \union (Processing(t) \ (left \union gone))
                 /\ residue' \subseteq residue \union left
      BY <2>4, BatchParts
    <3>3. Settled' = Settled \union Processing(t)
      BY <3>1, <3>2 DEF Settled, source
    <3>4. Processing(t) \intersect Settled = {}
      BY DEF Apart, ThreadsApart
    <3>5. PlacesApart' /\ residue' \subseteq stored'
      BY <3>1, <3>2, <3>4 DEF Apart, PlacesApart, Settled, source
    <3>6. ThreadsApart'
      BY <3>1, <3>3 DEF Apart, ThreadsApart
    <3>7. NoneMissing'
      BY <3>1, <3>3 DEF Apart, NoneMissing
    <3>. QED BY <3>1, <3>5, <3>6, <3>7 DEF Apart
  <2>. QED BY <1>5, <2>1, <2>2, <2>3, <2>4 DEF ThreadStep, Still, BatchEnds
<1>6. CASE UNCHANGED vars
  <2>1. UNCHANGED <<source, store, ingest, pc, launched>>
    BY <1>6 DEF vars, fields
  <2>. QED BY <2>1, NothingMoves DEF Apart, LaunchedOK, ingest
<1>. QED BY <1>1, <1>2, <1>3, <1>4, <1>5, <1>6 DEF Next, ControlStep

(* So counting the places and the threads of a metric gives one.             *)
LEMMA ApartIsOne == TypeOK /\ Apart => OnePlace
<1>. SUFFICES ASSUME TypeOK, Apart, NEW m \in Metrics
              PROVE  Cardinality({i \in DOMAIN Places : m \in Places[i]})
                       + Cardinality({t \in Threads : m \in Processing(t)}) = 1
  BY DEF OnePlace, Apart
<1>. DEFINE At == {i \in DOMAIN Places : m \in Places[i]}
            In == {t \in Threads : m \in Processing(t)}
<1>1. DOMAIN Places = 1 .. 7
  BY DEF Places
<1>2. /\ Places[1] = fresh /\ Places[2] = pending /\ Places[3] = dropped
      /\ Places[4] = stored /\ Places[5] = undone /\ Places[6] = discarded
      /\ Places[7] = lost
  BY DEF Places
<1>3. CASE m \in Settled
  <2>1. In = {}
    BY <1>3 DEF Apart, ThreadsApart
  <2>2. \E i : At = {i}
    <3>1. PICK i \in 1 .. 7 : m \in Places[i]
      BY <1>2, <1>3 DEF Settled
    <3>2. \A j \in 1 .. 7 : m \in Places[j] => j = i
      BY <1>2, <3>1 DEF Apart, PlacesApart
    <3>. QED BY <1>1, <3>1, <3>2
  <2>. HIDE DEF At, In
  <2>3. Cardinality(At) = 1 /\ Cardinality(In) = 0
    BY <2>1, <2>2, FS_Singleton, FS_EmptySet
  <2>. QED BY <2>3 DEF At, In
<1>4. CASE m \notin Settled
  <2>1. At = {}
    BY <1>1, <1>2, <1>4 DEF Settled
  <2>2. \E t : In = {t}
    <3>1. PICK t \in Threads : m \in Processing(t)
      BY <1>4 DEF Apart, NoneMissing
    <3>2. \A s \in Threads : m \in Processing(s) => s = t
      BY <3>1 DEF Apart, ThreadsApart
    <3>. QED BY <3>1, <3>2
  <2>. HIDE DEF At, In
  <2>3. Cardinality(At) = 0 /\ Cardinality(In) = 1
    BY <2>1, <2>2, FS_Singleton, FS_EmptySet
  <2>. QED BY <2>3 DEF At, In
<1>. QED BY <1>3, <1>4

(* Whatever the overlap of loops, failing inserts and restarts, a metric is  *)
(* in the hands of one thread or in one place: never stored twice, never     *)
(* gone unaccounted (_run_loop, process_raw_metrics).                        *)
THEOREM EveryMetricInOnePlace == Spec => []OnePlace
<1>1. Typed => TypeOK
  BY DEF Typed
<1>. QED BY <1>1, TypeInit, TypeNext, ApartInit, ApartNext, ApartIsOne, PTL DEF Spec
-----------------------------------------------------------------------------
(* What is shown was inserted. *)

(* Records a summary has still to add to the session map.                       *)
Waiting(t) == IF pc[t] \in {"reset", "count", "create"} THEN todo[t] \union cur[t] ELSE {}
Counted == {m \in Acknowledged : \A t \in Threads : m \notin Waiting(t)}

(* A record is being given a new entry only between a miss and the store of  *)
(* that entry; what waits is inserted and waits for one thread.              *)
CurOK(t) == IF pc[t] = "create" THEN \E m \in Metrics \ todo[t] : cur[t] = {m}
                                ELSE cur[t] = {}
WaitOK == /\ \A t \in Threads : CurOK(t) /\ Waiting(t) \subseteq Acknowledged
          /\ \A s, t \in Threads : s # t => Waiting(s) \intersect Waiting(t) = {}

Bounded(map, S) == \A p \in DOMAIN map : /\ map[p].sent <= SentBy(p, S)
                                         /\ map[p].recv <= ReceivedBy(p, S)

BoundOK == /\ Bounded(session, Counted) /\ Bounded(published, Acknowledged)
           /\ \A t \in Threads : Bounded(built[t], Acknowledged)

Shown == WaitOK /\ BoundOK

LEMMA ShownInit == Init => Shown
<1>. SUFFICES ASSUME Init
              PROVE  Shown
  OBVIOUS
<1>1. /\ session = <<>> /\ published = <<>>
      /\ \A t \in Threads : pc[t] = "none" /\ cur[t] = {} /\ built[t] = <<>>
  BY DEF Init
<1>2. \A p \in DOMAIN <<>> : FALSE
  OBVIOUS
<1>3. WaitOK
  BY <1>1 DEF WaitOK, CurOK, Waiting
<1>4. BoundOK
  BY <1>1, <1>2 DEF BoundOK, Bounded
<1>. QED BY <1>3, <1>4 DEF Shown

LEMMA BoundedGrows ==
  ASSUME NEW map, \A p \in DOMAIN map : map[p] \in Entry,
         NEW T \in SUBSET Metrics, NEW S \in SUBSET T, Bounded(map, S)
  PROVE  Bounded(map, T)
<1>. SUFFICES ASSUME NEW p \in DOMAIN map
              PROVE  map[p].sent <= SentBy(p, T) /\ map[p].recv <= ReceivedBy(p, T)
  BY DEF Bounded
<1>1. map[p].sent \in Nat /\ map[p].recv \in Nat
  BY DEF Entry
<1>2. /\ SentBy(p, S) \in Nat /\ SentBy(p, T) \in Nat /\ SentBy(p, S) <= SentBy(p, T)
      /\ ReceivedBy(p, S) \in Nat /\ ReceivedBy(p, T) \in Nat
      /\ ReceivedBy(p, S) <= ReceivedBy(p, T)
  BY SentBySubset, ReceivedBySubset
<1>3. map[p].sent <= SentBy(p, S) /\ map[p].recv <= ReceivedBy(p, S)
  BY DEF Bounded
<1>. QED BY <1>1, <1>2, <1>3

(* Steps after which the same rows wait. *)
LEMMA SameWaiting ==
  ASSUME WaitOK, UNCHANGED <<stored, undone, residue>>,
         \A t \in Threads : Waiting(t)' = Waiting(t) /\ CurOK(t)'
  PROVE  WaitOK' /\ Counted' = Counted /\ Acknowledged' = Acknowledged
  BY DEF WaitOK, Counted, Acknowledged

(* The steps that neither store, count nor forget a row. *)
Idle(t) == \/ Check(t) \/ Poll(t) \/ PollRaises(t) \/ TestRaises(t) \/ ResetDone(t) \/ CountDone(t)
           \/ BuildDone(t) \/ Publish(t) \/ Sleep(t)
           \/ \E m \in Metrics : Test(t, m) \/ Miss(t, m)
           \/ \E p \in Pids : Reset(t, p) \/ Build(t, p)

LEMMA IdleWaits ==
  ASSUME TypeOK, WaitOK, NEW t \in Threads, Idle(t)
  PROVE  WaitOK' /\ Counted' = Counted /\ Acknowledged' = Acknowledged
<1>1. UNCHANGED <<stored, undone, residue>>
  BY DEF Idle, Check, Poll, PollRaises, TestRaises, ResetDone, CountDone, BuildDone, Publish, Sleep,
         Test, Miss, Reset, Build, store
<1>2. \A s \in Threads : s # t => pc'[s] = pc[s] /\ todo'[s] = todo[s] /\ cur'[s] = cur[s]
  BY DEF Idle, Check, Poll, PollRaises, TestRaises, ResetDone, CountDone, BuildDone, Publish, Sleep,
         Test, Miss, Reset, Build, Goto, summary, TypeOK
<1>3. \A s \in Threads : s # t => Waiting(s)' = Waiting(s) /\ (CurOK(s) => CurOK(s)')
  BY <1>2 DEF Waiting, CurOK
<1>4. Waiting(t)' = Waiting(t) /\ CurOK(t)'
  <2>. USE DEF Goto, summary, TypeOK, Waiting, CurOK, WaitOK
  <2>1. CASE \/ Check(t) \/ Poll(t) \/ PollRaises(t) \/ TestRaises(t) \/ BuildDone(t)
             \/ Publish(t) \/ Sleep(t)
    BY <2>1 DEF Check, Poll, PollRaises, TestRaises, BuildDone, Publish, Sleep
  <2>2. CASE ResetDone(t) \/ \E p \in Pids : Reset(t, p) \/ Build(t, p)
    BY <2>2 DEF ResetDone, Reset, Build
  <2>3. CASE CountDone(t)
    BY <2>3 DEF CountDone
  <2>4. CASE \E m \in Metrics : Test(t, m)
    BY <2>4 DEF Test
  <2>5. ASSUME NEW m \in Metrics, Miss(t, m)
        PROVE  Waiting(t)' = Waiting(t) /\ CurOK(t)'
    <3>1. /\ pc[t] = "count" /\ pc'[t] = "create" /\ m \in todo[t]
          /\ todo'[t] = todo[t] \ {m} /\ cur'[t] = {m} /\ cur[t] = {}
      BY <2>5 DEF Miss
    <3>2. Waiting(t)' = todo'[t] \union cur'[t] /\ Waiting(t) = todo[t] \union cur[t]
      BY <3>1
    <3>. QED BY <3>1, <3>2
  <2>. QED BY <2>1, <2>2, <2>3, <2>4, <2>5 DEF Idle
<1>5. \A s \in Threads : Waiting(s)' = Waiting(s) /\ CurOK(s)'
  BY <1>3, <1>4 DEF WaitOK
<1>. QED BY <1>1, <1>5, SameWaiting

(* A step after which a thread waits for fewer rows. *)
LEMMA FewerWaiting ==
  ASSUME WaitOK, UNCHANGED <<stored, undone, residue>>, NEW t \in Threads,
         \A s \in Threads : s # t => Waiting(s)' = Waiting(s) /\ CurOK(s)',
         NEW S, Waiting(t)' = Waiting(t) \ S, S \subseteq Waiting(t), CurOK(t)'
  PROVE  /\ WaitOK' /\ Counted' = Counted \union S /\ Counted \intersect S = {}
         /\ Acknowledged' = Acknowledged
<1>1. WaitOK'
  BY DEF WaitOK, Acknowledged
<1>2. S \subseteq Acknowledged /\ \A s \in Threads : s # t => S \intersect Waiting(s) = {}
  BY DEF WaitOK
<1>3. Acknowledged' = Acknowledged
  BY DEF Acknowledged
<1>. QED BY <1>1, <1>2, <1>3 DEF Counted

LEMMA RaisesForgets ==
  ASSUME TypeOK, WaitOK, NEW t \in Threads, IterationRaises(t)
  PROVE  WaitOK' /\ Counted \subseteq Counted' /\ Acknowledged' = Acknowledged
<1>1. /\ pc[t] \in {"reset", "build"} /\ pc'[t] = "sleep"
      /\ UNCHANGED <<stored, undone, residue, todo, cur>>
      /\ \A s \in Threads : s # t => pc'[s] = pc[s]
  BY DEF IterationRaises, Goto, TypeOK, summary, store
<1>2. Waiting(t)' = {} /\ CurOK(t)'
  BY <1>1 DEF Waiting, CurOK, WaitOK
<1>3. \A s \in Threads : s # t => Waiting(s)' = Waiting(s) /\ CurOK(s)'
  BY <1>1 DEF Waiting, CurOK, WaitOK
<1>4. WaitOK' /\ Counted' = Counted \union Waiting(t) /\ Acknowledged' = Acknowledged
  BY <1>1, <1>2, <1>3, FewerWaiting
<1>. QED BY <1>1, <1>4

LEMMA CountMoves ==
  ASSUME TypeOK, WaitOK, NEW t \in Threads, NEW m \in Metrics, Count(t, m)
  PROVE  /\ WaitOK' /\ m \notin Counted /\ Counted' = Counted \union {m}
         /\ PidOf[m] \in DOMAIN session /\ DOMAIN session' = DOMAIN session
         /\ session'[PidOf[m]] = Add(session[PidOf[m]], m)
         /\ \A p \in DOMAIN session : p # PidOf[m] => session'[p] = session[p]
         /\ Acknowledged' = Acknowledged
<1>1. /\ pc[t] = "count" /\ pc' = pc /\ m \in todo[t]
      /\ UNCHANGED <<stored, undone, residue, cur>>
      /\ todo'[t] = todo[t] \ {m} /\ \A s \in Threads : s # t => todo'[s] = todo[s]
  BY DEF Count, TypeOK, store
<1>2. Waiting(t)' = Waiting(t) \ {m} /\ {m} \subseteq Waiting(t) /\ CurOK(t)'
  BY <1>1 DEF Waiting, CurOK, WaitOK
<1>3. \A s \in Threads : s # t => Waiting(s)' = Waiting(s) /\ CurOK(s)'
  BY <1>1 DEF Waiting, CurOK, WaitOK
<1>4. /\ WaitOK' /\ Counted' = Counted \union {m} /\ Counted \intersect {m} = {}
      /\ Acknowledged' = Acknowledged
  BY <1>1, <1>2, <1>3, FewerWaiting
<1>5. /\ PidOf[m] \in DOMAIN session /\ DOMAIN session' = DOMAIN session
      /\ session'[PidOf[m]] = Add(session[PidOf[m]], m)
      /\ \A p \in DOMAIN session : p # PidOf[m] => session'[p] = session[p]
  BY DEF Count
<1>. QED BY <1>1, <1>4, <1>5

LEMMA CreateMoves ==
  ASSUME TypeOK, WaitOK, NEW t \in Threads, Create(t)
  PROVE  \E m \in Metrics :
           /\ cur[t] = {m}
           /\ WaitOK' /\ m \notin Counted /\ Counted' = Counted \union {m}
           /\ DOMAIN session' = DOMAIN session \union {PidOf[m]}
           /\ session'[PidOf[m]] = Add(NewEntry, m)
           /\ \A p \in DOMAIN session : p # PidOf[m] => session'[p] = session[p]
           /\ Acknowledged' = Acknowledged
<1>1. PICK m \in Metrics : cur[t] = {m} /\ m \notin todo[t]
  BY DEF WaitOK, CurOK, Create
<1>2. /\ pc[t] = "create" /\ pc'[t] = "count" /\ \A s \in Threads : s # t => pc'[s] = pc[s]
      /\ UNCHANGED <<stored, undone, residue, todo>>
      /\ cur'[t] = {} /\ \A s \in Threads : s # t => cur'[s] = cur[s]
  BY DEF Create, TypeOK, store, Goto
<1>3. Waiting(t)' = Waiting(t) \ {m} /\ {m} \subseteq Waiting(t) /\ CurOK(t)'
  BY <1>1, <1>2 DEF Waiting, CurOK, WaitOK
<1>4. \A s \in Threads : s # t => Waiting(s)' = Waiting(s) /\ CurOK(s)'
  <2>. SUFFICES ASSUME NEW s \in Threads, s # t
                PROVE  Waiting(s)' = Waiting(s) /\ CurOK(s)'
    OBVIOUS
  <2>1. pc'[s] = pc[s] /\ todo'[s] = todo[s] /\ cur'[s] = cur[s]
    BY <1>2
  <2>2. CurOK(s)
    BY DEF WaitOK
  <2>3. Waiting(s)' = Waiting(s)
    BY <2>1 DEF Waiting
  <2>4. CurOK(s)'
    BY <2>1, <2>2 DEF CurOK
  <2>. QED BY <2>3, <2>4
<1>5. /\ WaitOK' /\ Counted' = Counted \union {m} /\ Counted \intersect {m} = {}
      /\ Acknowledged' = Acknowledged
  BY <1>2, <1>3, <1>4, FewerWaiting
<1>6. session' = [p \in DOMAIN session \union {PidOf[m]} |->
                    IF p = PidOf[m] THEN Add(NewEntry, m) ELSE session[p]]
  BY <1>1 DEF Create
<1>7. /\ DOMAIN session' = DOMAIN session \union {PidOf[m]}
      /\ session'[PidOf[m]] = Add(NewEntry, m)
      /\ \A p \in DOMAIN session : p # PidOf[m] => session'[p] = session[p]
  BY <1>6
<1>. QED BY <1>1, <1>2, <1>5, <1>7

LEMMA InsertWaits ==
  ASSUME TypeOK, Apart, WaitOK, NEW t \in Threads, Insert(t) \/ InsertRaises(t)
  PROVE  WaitOK' /\ Acknowledged \subseteq Acknowledged' /\ Counted' = Counted
<1>1. /\ pc[t] = "test" /\ pc'[t] \in {"reset", "sleep"} /\ cur' = cur
      /\ \A s \in Threads : s # t => pc'[s] = pc[s] /\ todo'[s] = todo[s]
      /\ pc'[t] = "reset" => todo'[t] = snaps[t]
  BY DEF Insert, InsertRaises, Goto, TypeOK, summary
<1>2. \A s \in Threads : s # t => Waiting(s)' = Waiting(s) /\ CurOK(s)'
  BY <1>1 DEF Waiting, CurOK, WaitOK
<1>3. /\ CurOK(t)' /\ Waiting(t) = {}
      /\ Waiting(t)' = IF pc'[t] = "reset" THEN snaps[t] ELSE {}
  BY <1>1 DEF Waiting, CurOK, WaitOK
<1>4. snaps[t] \intersect (stored \union undone) = {} /\ residue \subseteq stored
  <2>1. snaps[t] \subseteq Processing(t)
    BY <1>1 DEF Processing
  <2>. QED BY <2>1 DEF Apart, ThreadsApart, Settled
<1>5. \/ Waiting(t)' = snaps[t] /\ Acknowledged' = Acknowledged \union snaps[t]
      \/ Waiting(t)' = {} /\ Acknowledged' = Acknowledged
  <2>1. CASE Insert(t)
    <3>1. Waiting(t)' = snaps[t]
      BY <1>3, <2>1 DEF Insert, Goto, TypeOK
    <3>2. PICK gone \in SUBSET snaps[t] : /\ stored' = stored \union (snaps[t] \ gone)
                                         /\ undone' = undone \union gone
      BY <2>1 DEF Insert
    <3>3. residue' = residue
      BY <2>1 DEF Insert
    <3>. QED BY <1>4, <3>1, <3>2, <3>3 DEF Acknowledged
  <2>2. CASE InsertRaises(t)
    <3>1. Waiting(t)' = {}
      BY <1>3, <2>2 DEF InsertRaises, Goto, TypeOK
    <3>2. PICK left \in SUBSET snaps[t] : /\ stored' = stored \union left
                                         /\ residue' = residue \union left
      BY <2>2 DEF InsertRaises
    <3>3. undone' = undone
      BY <2>2 DEF InsertRaises
    <3>. QED BY <1>4, <3>1, <3>2, <3>3 DEF Acknowledged
  <2>. QED BY <2>1, <2>2
<1>6. snaps[t] \intersect Acknowledged = {}
  BY <1>4 DEF Acknowledged
<1>7. WaitOK'
  BY <1>2, <1>3, <1>5, <1>6 DEF WaitOK
<1>8. Acknowledged \subseteq Acknowledged' /\ Counted' = Counted
  BY <1>2, <1>3, <1>5, <1>6 DEF Counted
<1>. QED BY <1>7, <1>8

(* The session map and the summaries are unchanged and records only added.   *)
LEMMA SameTotals ==
  ASSUME Typed, BoundOK, TypeOK', UNCHANGED <<session, built, published>>,
         Counted \subseteq Counted', Acknowledged \subseteq Acknowledged'
  PROVE  BoundOK'
<1>1. /\ Counted' \in SUBSET Metrics /\ Counted \in SUBSET Counted'
      /\ Acknowledged' \in SUBSET Metrics /\ Acknowledged \in SUBSET Acknowledged'
  BY DEF TypeOK, Counted, Acknowledged
<1>2. Bounded(session, Counted') /\ Bounded(published, Acknowledged')
  BY <1>1, BoundedGrows DEF BoundOK, Typed, TypeOK, EntriesOK
<1>3. \A t \in Threads : Bounded(built[t], Acknowledged')
  BY <1>1, BoundedGrows DEF BoundOK, Typed, EntriesOK
<1>. QED BY <1>2, <1>3 DEF BoundOK

(* An entry of the session map, one record later. *)
LEMMA EntryBounded ==
  ASSUME NEW e \in Entry, NEW S \in SUBSET Metrics, NEW m \in Metrics \ S,
         e.sent <= SentBy(PidOf[m], S), e.recv <= ReceivedBy(PidOf[m], S)
  PROVE  /\ Add(e, m).sent <= SentBy(PidOf[m], S \union {m})
         /\ Add(e, m).recv <= ReceivedBy(PidOf[m], S \union {m})
<1>1. /\ SentBy(PidOf[m], S) \in Nat /\ ReceivedBy(PidOf[m], S) \in Nat
      /\ e.sent \in Nat /\ e.recv \in Nat
  BY SentBySubset, ReceivedBySubset DEF Entry
<1>2. /\ SentBy(PidOf[m], S \union {m}) = SentBy(PidOf[m], S) + Out(m)
      /\ ReceivedBy(PidOf[m], S \union {m}) = ReceivedBy(PidOf[m], S) + (1 - Out(m))
  BY CountOneMore
<1>3. /\ Add(e, m).sent = e.sent + Out(m) /\ Add(e, m).recv = e.recv + (1 - Out(m))
      /\ Out(m) \in {0, 1}
  BY AddCounts
<1>. QED BY <1>1, <1>2, <1>3

LEMMA SessionBounded ==
  ASSUME Typed, Shown, NEW t \in Threads, Create(t) \/ \E m \in Metrics : Count(t, m)
  PROVE  WaitOK' /\ Acknowledged' = Acknowledged /\ Bounded(session', Counted')
<1>1. PICK m \in Metrics, e \in Entry :
        /\ WaitOK' /\ Acknowledged' = Acknowledged
        /\ m \notin Counted /\ Counted' = Counted \union {m}
        /\ DOMAIN session' = DOMAIN session \union {PidOf[m]}
        /\ session'[PidOf[m]] = Add(e, m)
        /\ \A p \in DOMAIN session : p # PidOf[m] => session'[p] = session[p]
        /\ e.sent <= SentBy(PidOf[m], Counted) /\ e.recv <= ReceivedBy(PidOf[m], Counted)
  <2>1. Counted \in SUBSET Metrics
    BY DEF Counted, Acknowledged, Typed, TypeOK
  <2>2. CASE Create(t)
    <3>1. \A p : NewEntry.sent <= SentBy(p, Counted) /\ NewEntry.recv <= ReceivedBy(p, Counted)
      BY <2>1, NewEntryCounts, SentBySubset, ReceivedBySubset
    <3>. QED BY <2>2, <3>1, CreateMoves, NewEntryCounts DEF Typed, Shown
  <2>3. ASSUME NEW m \in Metrics, Count(t, m)
        PROVE  \E e \in Entry :
                 /\ WaitOK' /\ m \notin Counted /\ Counted' = Counted \union {m}
                 /\ Acknowledged' = Acknowledged
                 /\ DOMAIN session' = DOMAIN session \union {PidOf[m]}
                 /\ session'[PidOf[m]] = Add(e, m)
                 /\ \A p \in DOMAIN session : p # PidOf[m] => session'[p] = session[p]
                 /\ e.sent <= SentBy(PidOf[m], Counted) /\ e.recv <= ReceivedBy(PidOf[m], Counted)
    BY <2>3, CountMoves DEF Typed, TypeOK, Shown, BoundOK, Bounded
  <2>. QED BY <2>2, <2>3
<1>2. Counted \in SUBSET Metrics /\ Counted' \in SUBSET Metrics /\ Counted \in SUBSET Counted'
  BY <1>1 DEF Counted, Acknowledged, Typed, TypeOK
<1>3. ASSUME NEW p \in DOMAIN session'
      PROVE  /\ session'[p].sent <= SentBy(p, Counted')
             /\ session'[p].recv <= ReceivedBy(p, Counted')
  <2>1. CASE p = PidOf[m]
    BY <1>1, <1>2, <2>1, EntryBounded
  <2>2. CASE p # PidOf[m]
    <3>1. p \in DOMAIN session /\ session'[p] = session[p]
      BY <1>1, <1>3, <2>2
    <3>2. Bounded(session, Counted')
      BY <1>2, BoundedGrows DEF Shown, BoundOK, Typed, TypeOK
    <3>. QED BY <3>1, <3>2 DEF Bounded
  <2>. QED BY <2>1, <2>2
<1>. QED BY <1>1, <1>3 DEF Bounded

LEMMA ShownNext == Typed /\ Apart /\ Shown /\ [Next]_vars => Shown'
<1>. SUFFICES ASSUME Typed, Apart, Shown, [Next]_vars
              PROVE  Shown'
  OBVIOUS
<1>1. TypeOK /\ TypeOK' /\ WaitOK /\ BoundOK
  BY TypeNext DEF Typed, Shown
<1>2. CASE \/ StartFlag \/ StopFlag \/ StartLoader \/ StartLoad \/ StartLoadFails
           \/ StartFallback \/ StopCleanup
           \/ \E m \in Metrics : Raise(m)
           \/ \E f \in Filters : SetFilter(f)
           \/ UNCHANGED vars
  <2>1. UNCHANGED <<pc, todo, cur, stored, undone, residue, session, built, published>>
    BY <1>2 DEF StartFlag, StopFlag, StartLoader, StartLoad, StartLoadFails,
                StartFallback, StopCleanup, Raise, SetFilter, vars, summary, store
  <2>2. \A t \in Threads : Waiting(t)' = Waiting(t) /\ CurOK(t)'
    BY <1>1, <2>1 DEF Waiting, CurOK, WaitOK
  <2>3. WaitOK' /\ Counted' = Counted /\ Acknowledged' = Acknowledged
    BY <1>1, <2>1, <2>2, SameWaiting
  <2>. QED BY <1>1, <2>1, <2>3, SameTotals DEF Shown
<1>3. CASE StartThread
  <2>1. /\ UNCHANGED <<todo, cur, stored, undone, residue, session, built, published>>
        /\ \A t \in Threads : \/ pc'[t] = pc[t]
                              \/ pc'[t] = "check" /\ t = launched + 1
    BY <1>1, <1>3 DEF StartThread, Goto, TypeOK, summary, store
  <2>2. \A t \in Threads : t = launched + 1 => pc[t] = "none"
    BY <1>1, CollectorAssumption DEF Apart, LaunchedOK, TypeOK, Threads
  <2>3. \A t \in Threads : Waiting(t)' = Waiting(t) /\ CurOK(t)'
    BY <1>1, <2>1, <2>2 DEF Waiting, CurOK, WaitOK
  <2>4. WaitOK' /\ Counted' = Counted /\ Acknowledged' = Acknowledged
    BY <1>1, <2>1, <2>3, SameWaiting
  <2>. QED BY <1>1, <2>1, <2>4, SameTotals DEF Shown
<1>4. ASSUME NEW t \in Threads, ThreadStep(t)
      PROVE  Shown'
  <2>1. CASE \/ Check(t) \/ Poll(t) \/ PollRaises(t) \/ TestRaises(t) \/ ResetDone(t)
             \/ BuildDone(t) \/ Sleep(t)
             \/ \E m \in Metrics : Test(t, m) \/ Miss(t, m)
    <3>1. UNCHANGED <<session, built, published>>
      BY <2>1 DEF Check, Poll, PollRaises, TestRaises, ResetDone, BuildDone, Sleep, Test, Miss,
                  summary
    <3>2. Idle(t)
      BY <2>1 DEF Idle
    <3>. QED BY <1>1, <3>1, <3>2, IdleWaits, SameTotals DEF Shown
  <2>2. CASE IterationRaises(t)
    <3>1. UNCHANGED <<session, built, published>>
      BY <2>2 DEF IterationRaises, summary
    <3>. QED BY <1>1, <2>2, <3>1, RaisesForgets, SameTotals DEF Shown
  <2>3. CASE Insert(t) \/ InsertRaises(t)
    <3>1. UNCHANGED <<session, built, published>>
      BY <2>3 DEF Insert, InsertRaises, summary
    <3>. QED BY <1>1, <2>3, <3>1, InsertWaits, SameTotals DEF Shown
  <2>4. CASE Create(t) \/ \E m \in Metrics : Count(t, m)
    <3>1. UNCHANGED <<built, published>>
      BY <2>4 DEF Create, Count
    <3>2. WaitOK' /\ Acknowledged' = Acknowledged /\ Bounded(session', Counted')
      BY <2>4, SessionBounded
    <3>. QED BY <1>1, <3>1, <3>2 DEF Shown, BoundOK
  <2>5. ASSUME NEW p \in Pids, Reset(t, p)
        PROVE  Shown'
    <3>1. /\ UNCHANGED <<built, published>> /\ Idle(t)
          /\ DOMAIN session' = DOMAIN session
          /\ \A q \in DOMAIN session :
               session'[q] = IF q = p THEN Quiet(session[q]) ELSE session[q]
      BY <2>5 DEF Reset, Idle
    <3>2. \A q \in DOMAIN session : /\ session'[q].sent = session[q].sent
                                    /\ session'[q].recv = session[q].recv
      BY <1>1, <3>1, QuietCounts DEF TypeOK
    <3>3. WaitOK' /\ Counted' = Counted /\ Acknowledged' = Acknowledged
      BY <1>1, <3>1, IdleWaits
    <3>. QED BY <1>1, <3>1, <3>2, <3>3 DEF Shown, BoundOK, Bounded
  <2>6. ASSUME NEW p \in Pids, Build(t, p)
        PROVE  Shown'
    <3>1. /\ UNCHANGED <<session, published>> /\ Idle(t) /\ p \in DOMAIN session
          /\ DOMAIN built'[t] = DOMAIN built[t] \union {p}
          /\ \A q \in DOMAIN built'[t] : built'[t][q] = IF q = p THEN session[q] ELSE built[t][q]
          /\ \A s \in Threads : s # t => built'[s] = built[s]
      BY <2>6 DEF Build, Idle, Typed, EntriesOK
    <3>2. WaitOK' /\ Counted' = Counted /\ Acknowledged' = Acknowledged
      BY <1>1, <3>1, IdleWaits
    <3>3. Bounded(session, Acknowledged)
      <4>1. Counted \in SUBSET Acknowledged /\ Acknowledged \in SUBSET Metrics
        BY <1>1 DEF Counted, Acknowledged, TypeOK
      <4>. QED BY <1>1, <4>1, BoundedGrows DEF BoundOK, TypeOK
    <3>4. Bounded(built'[t], Acknowledged)
      BY <1>1, <3>1, <3>3 DEF Bounded, BoundOK
    <3>. QED BY <1>1, <3>1, <3>2, <3>4 DEF Shown, BoundOK
  <2>7. CASE CountDone(t)
    <3>1. /\ UNCHANGED <<session, published>> /\ Idle(t)
          /\ built'[t] = <<>> /\ \A s \in Threads : s # t => built'[s] = built[s]
      BY <2>7 DEF CountDone, Idle, Typed, EntriesOK
    <3>2. Bounded(built'[t], Acknowledged)
      <4>1. \A p \in DOMAIN <<>> : FALSE
        OBVIOUS
      <4>. QED BY <3>1, <4>1 DEF Bounded
    <3>. QED BY <1>1, <3>1, <3>2, IdleWaits DEF Shown, BoundOK
  <2>8. CASE Publish(t)
    <3>1. UNCHANGED <<session, built>> /\ published' = built[t] /\ Idle(t)
      BY <2>8 DEF Publish, Idle, summary
    <3>. QED BY <1>1, <3>1, IdleWaits DEF Shown, BoundOK
  <2>. QED BY <1>4, <2>1, <2>2, <2>3, <2>4, <2>5, <2>6, <2>7, <2>8 DEF ThreadStep
<1>. QED BY <1>2, <1>3, <1>4 DEF Next, ControlStep

(* The dashboard never shows more than the database holds and a failing      *)
(* query has taken from it, also when two loops share one session map and    *)
(* overwrite each other's entries (_run_loop, summarize_by_process).         *)
THEOREM ShownNeverExceedsInserts == Spec => []ShownWasInserted
<1>1. Typed => TypeOK
  BY DEF Typed
<1>2. Shown => ShownWasInserted
  BY DEF Shown, BoundOK, Bounded, ShownWasInserted
<1>. QED BY <1>1, <1>2, TypeInit, TypeNext, ApartInit, ApartNext, ShownInit, ShownNext, PTL
         DEF Spec
-----------------------------------------------------------------------------
(* Loops that do not overlap. *)

(* A stop() is followed by the next start() only after the loop has ended.   *)
Live(t) == pc[t] \notin {"none", "done"}
OneLoop == \A s, t \in Threads : Live(s) /\ Live(t) => s = t

(* What a thread has of its batch, and what it has read of the session map,  *)
(* which nobody else changes.                                                *)
BatchOK(t) ==
  /\ pc[t] \notin {"reset", "count", "create"} => todo[t] = {}
  /\ pc[t] = "reset" => todo[t] = snaps[t]
  /\ pc[t] \in {"count", "create"} => todo[t] \union cur[t] \subseteq snaps[t]
  /\ pc[t] = "create" => \A m \in cur[t] : PidOf[m] \notin DOMAIN session
  /\ pc[t] \in {"reset", "build"} => size[t] = Cardinality(DOMAIN session)
SummaryOK(t) ==
  /\ pc[t] = "build" => DOMAIN built[t] = DOMAIN session \ keys[t]
  /\ pc[t] = "publish" => DOMAIN built[t] = DOMAIN session
  /\ pc[t] \in {"build", "publish"} => \A p \in DOMAIN built[t] : built[t][p] = session[p]

Totals(S) == \A p \in Pids : /\ Total(session, p).sent = SentBy(p, S)
                             /\ Total(session, p).recv = ReceivedBy(p, S)
Rates(S)  == \A p \in Pids : /\ Total(session, p).sendRate = SentBy(p, S)
                             /\ Total(session, p).recvRate = ReceivedBy(p, S)

(* Rates are zero for the processes already reset, then those of the records *)
(* already counted.                                                          *)
Summed(t)  == snaps[t] \ (todo[t] \union cur[t])
RatesOK(t) ==
  /\ pc[t] = "reset" => \A p \in DOMAIN session \ keys[t] : /\ session[p].sendRate = 0
                                                            /\ session[p].recvRate = 0
  /\ pc[t] \in {"count", "create", "build", "publish"} => Rates(Summed(t))

PublishedOK == \A p \in DOMAIN published : /\ p \in DOMAIN session
                                           /\ published[p].sent <= session[p].sent
                                           /\ published[p].recv <= session[p].recv

Solo == /\ \A t \in Threads : BatchOK(t) /\ SummaryOK(t) /\ RatesOK(t)
        /\ Totals(Counted)
        /\ PublishedOK

Inv == Typed /\ Apart /\ Shown

LEMMA InvInit == Init => Inv
  BY TypeInit, ApartInit, ShownInit DEF Inv

LEMMA InvNext == Inv /\ [Next]_vars => Inv'
<1>1. Typed => TypeOK
  BY DEF Typed
<1>. QED BY <1>1, TypeNext, ApartNext, ShownNext DEF Inv

LEMMA SoloInit == Init => Solo
<1>. SUFFICES ASSUME Init
              PROVE  Solo
  OBVIOUS
<1>1. /\ session = <<>> /\ published = <<>> /\ stored = {} /\ undone = {}
      /\ \A t \in Threads : pc[t] = "none" /\ todo[t] = {}
  BY DEF Init
<1>2. DOMAIN session = {} /\ DOMAIN published = {}
  BY <1>1
<1>3. Totals(Counted)
  <2>1. Counted = {}
    BY <1>1 DEF Counted, Acknowledged
  <2>. QED BY <1>2, <2>1, NewEntryCounts, CountNothing DEF Totals, Total
<1>4. \A t \in Threads : BatchOK(t) /\ SummaryOK(t) /\ RatesOK(t)
  BY <1>1 DEF BatchOK, SummaryOK, RatesOK
<1>. QED BY <1>2, <1>3, <1>4 DEF Solo, PublishedOK

(* Steps that leave a thread and the session map alone. *)
LEMMA SoloKeeps ==
  ASSUME Solo, UNCHANGED session, NEW t \in Threads,
         \/ UNCHANGED <<pc[t], todo[t], cur[t], snaps[t], keys[t], size[t], built[t]>>
         \/ /\ UNCHANGED todo[t]
            /\ {pc[t], pc'[t]} \subseteq {"none", "check", "poll", "test", "sleep", "done"}
  PROVE  (BatchOK(t) /\ SummaryOK(t) /\ RatesOK(t))'
<1>1. CASE UNCHANGED <<pc[t], todo[t], cur[t], snaps[t], keys[t], size[t], built[t]>>
  <2>1. Summed(t)' = Summed(t)
    BY <1>1 DEF Summed
  <2>2. \A p \in Pids : Total(session, p)' = Total(session, p)
    BY DEF Total
  <2>3. RatesOK(t)'
    BY <1>1, <2>1, <2>2 DEF Solo, RatesOK, Rates
  <2>. QED BY <1>1, <2>3 DEF Solo, BatchOK, SummaryOK
<1>2. CASE /\ UNCHANGED todo[t]
           /\ {pc[t], pc'[t]} \subseteq {"none", "check", "poll", "test", "sleep", "done"}
  BY <1>2 DEF Solo, BatchOK, SummaryOK, RatesOK
<1>. QED BY <1>1, <1>2

(* A thread that takes a step is the only one alive: the others have no      *)
(* batch, and keep none.                                                     *)
LEMMA OthersIdle ==
  ASSUME Inv, Solo, OneLoop, NEW t \in Threads, ThreadStep(t), NEW s \in Threads, s # t
  PROVE  (BatchOK(s) /\ SummaryOK(s) /\ RatesOK(s))'
<1>. USE DEF ThreadStep, Check, Poll, PollRaises, TestRaises, Insert, InsertRaises, IterationRaises,
             ResetDone, Create, CountDone, BuildDone, Publish, Sleep, Test, Count, Miss,
             Reset, Build
<1>1. Live(t)
  BY DEF Live
<1>2. pc[s] \in {"none", "done"}
  BY <1>1 DEF OneLoop, Live
<1>3. pc'[s] = pc[s] /\ todo'[s] = todo[s]
  BY DEF Goto, summary, Inv, Typed, TypeOK
<1>. QED BY <1>2, <1>3 DEF Solo, BatchOK, SummaryOK, RatesOK

(* What a record does to the totals and the rates. *)
LEMMA CountsOne ==
  ASSUME Inv, Solo, NEW t \in Threads, Create(t) \/ \E m \in Metrics : Count(t, m)
  PROVE  \E m \in Metrics :
           /\ m \notin Counted /\ Counted' = Counted \union {m}
           /\ m \notin Summed(t) /\ Summed(t)' = Summed(t) \union {m}
           /\ \A p \in Pids : Total(session, p)' = IF p = PidOf[m] THEN Add(Total(session, p), m)
                                                                 ELSE Total(session, p)
           /\ DOMAIN session \subseteq DOMAIN session'
<1>1. TypeOK /\ WaitOK /\ BatchOK(t)
  BY DEF Inv, Typed, Shown, Solo
<1>2. ASSUME NEW m \in Metrics, Count(t, m)
      PROVE  /\ m \notin Counted /\ Counted' = Counted \union {m}
             /\ m \notin Summed(t) /\ Summed(t)' = Summed(t) \union {m}
             /\ \A p \in Pids : Total(session, p)' = IF p = PidOf[m] THEN Add(Total(session, p), m)
                                                                   ELSE Total(session, p)
             /\ DOMAIN session \subseteq DOMAIN session'
  <2>1. /\ pc[t] = "count" /\ cur[t] = {} /\ m \in todo[t] /\ m \in snaps[t]
        /\ UNCHANGED <<cur, snaps>> /\ todo'[t] = todo[t] \ {m}
    BY <1>1, <1>2 DEF Count, WaitOK, CurOK, BatchOK, TypeOK, ingest, store
  <2>2. m \notin Summed(t) /\ Summed(t)' = Summed(t) \union {m}
    BY <2>1 DEF Summed
  <2>. QED BY <1>1, <1>2, <2>1, <2>2, CountMoves DEF Total
<1>3. CASE Create(t)
  <2>1. PICK m \in Metrics :
           /\ cur[t] = {m}
           /\ m \notin Counted /\ Counted' = Counted \union {m}
           /\ DOMAIN session' = DOMAIN session \union {PidOf[m]}
           /\ session'[PidOf[m]] = Add(NewEntry, m)
           /\ \A p \in DOMAIN session : p # PidOf[m] => session'[p] = session[p]
    BY <1>1, <1>3, CreateMoves
  <2>2. /\ pc[t] = "create" /\ m \in snaps[t] /\ PidOf[m] \notin DOMAIN session
        /\ m \notin todo[t]
        /\ UNCHANGED <<todo, snaps>> /\ cur'[t] = {}
    <3>1. /\ pc[t] = "create" /\ UNCHANGED <<todo, snaps>> /\ cur'[t] = {}
      BY <1>1, <1>3 DEF Create, TypeOK, ingest, store
    <3>2. m \in snaps[t] /\ PidOf[m] \notin DOMAIN session
      BY <1>1, <2>1, <3>1 DEF BatchOK
    <3>3. m \notin todo[t]
      BY <1>1, <2>1, <3>1 DEF WaitOK, CurOK
    <3>. QED BY <3>1, <3>2, <3>3
  <2>3. m \notin Summed(t) /\ Summed(t)' = Summed(t) \union {m}
    BY <2>1, <2>2 DEF Summed
  <2>. QED BY <2>1, <2>2, <2>3 DEF Total
<1>. QED BY <1>2, <1>3

LEMMA CountedOne ==
  ASSUME Inv, Solo, NEW t \in Threads, Create(t) \/ \E m \in Metrics : Count(t, m)
  PROVE  Solo' \/ ~OneLoop
<1>. SUFFICES ASSUME OneLoop
              PROVE  Solo'
  OBVIOUS
<1>1. PICK m \in Metrics :
        /\ m \notin Counted /\ Counted' = Counted \union {m}
        /\ m \notin Summed(t) /\ Summed(t)' = Summed(t) \union {m}
        /\ \A p \in Pids : Total(session, p)' = IF p = PidOf[m] THEN Add(Total(session, p), m)
                                                              ELSE Total(session, p)
        /\ DOMAIN session \subseteq DOMAIN session'
  BY CountsOne
<1>2. /\ Counted \in SUBSET Metrics /\ Summed(t) \in SUBSET Metrics
      /\ \A p \in Pids : Total(session, p) \in Entry
  BY NewEntryCounts DEF Inv, Typed, TypeOK, Counted, Acknowledged, Summed, Total
<1>3. /\ pc[t] \in {"count", "create"} /\ pc'[t] = "count"
      /\ UNCHANGED <<snaps, built, published>>
      /\ todo'[t] \union cur'[t] \subseteq todo[t] \union cur[t]
  BY DEF Inv, Typed, TypeOK, Create, Count, Goto, ingest
<1>4. \A p \in Pids :
        /\ (Total(session, p).sent)' = Total(session, p).sent + IF PidOf[m] = p THEN Out(m) ELSE 0
        /\ (Total(session, p).recv)'
             = Total(session, p).recv + IF PidOf[m] = p THEN 1 - Out(m) ELSE 0
        /\ (Total(session, p).sendRate)'
             = Total(session, p).sendRate + IF PidOf[m] = p THEN Out(m) ELSE 0
        /\ (Total(session, p).recvRate)'
             = Total(session, p).recvRate + IF PidOf[m] = p THEN 1 - Out(m) ELSE 0
  <2>1. \A e \in Entry : /\ e.sent + 0 = e.sent /\ e.recv + 0 = e.recv
                         /\ e.sendRate + 0 = e.sendRate /\ e.recvRate + 0 = e.recvRate
    BY DEF Entry
  <2>. QED BY <1>1, <1>2, <2>1, AddCounts
<1>5. Totals(Counted)'
  <2>1. Totals(Counted)
    BY DEF Solo
  <2>2. \A p \in Pids :
          /\ SentBy(p, Counted')
               = SentBy(p, Counted) + IF PidOf[m] = p THEN Out(m) ELSE 0
          /\ ReceivedBy(p, Counted')
               = ReceivedBy(p, Counted) + IF PidOf[m] = p THEN 1 - Out(m) ELSE 0
    BY <1>1, <1>2, CountOneMore
  <2>3. \A p \in Pids : /\ (Total(session, p).sent)' = SentBy(p, Counted')
                       /\ (Total(session, p).recv)' = ReceivedBy(p, Counted')
    <3>1. \A p \in Pids : /\ Total(session, p).sent = SentBy(p, Counted)
                         /\ Total(session, p).recv = ReceivedBy(p, Counted)
      BY <2>1 DEF Totals
    <3>. QED BY <1>4, <2>2, <3>1
  <2>. QED BY <2>3 DEF Totals
<1>6. Rates(Summed(t))'
  <2>1. Rates(Summed(t))
    BY <1>3 DEF Solo, RatesOK
  <2>2. \A p \in Pids :
          /\ SentBy(p, Summed(t) \union {m})
               = SentBy(p, Summed(t)) + IF PidOf[m] = p THEN Out(m) ELSE 0
          /\ ReceivedBy(p, Summed(t) \union {m})
               = ReceivedBy(p, Summed(t)) + IF PidOf[m] = p THEN 1 - Out(m) ELSE 0
    BY <1>1, <1>2, CountOneMore
  <2>3. \A p \in Pids :
          /\ (Total(session, p).sendRate)' = SentBy(p, Summed(t) \union {m})
          /\ (Total(session, p).recvRate)' = ReceivedBy(p, Summed(t) \union {m})
    <3>1. \A p \in Pids : /\ Total(session, p).sendRate = SentBy(p, Summed(t))
                         /\ Total(session, p).recvRate = ReceivedBy(p, Summed(t))
      BY <2>1 DEF Rates
    <3>. QED BY <1>4, <2>2, <3>1
  <2>. QED BY <1>1, <2>3 DEF Rates
<1>7. PublishedOK'
  <2>1. \A p \in DOMAIN session :
          /\ p \in DOMAIN session' /\ p \in Pids
          /\ session[p] \in Entry
          /\ session'[p].sent = session[p].sent + IF PidOf[m] = p THEN Out(m) ELSE 0
          /\ session'[p].recv = session[p].recv + IF PidOf[m] = p THEN 1 - Out(m) ELSE 0
    BY <1>1, <1>4 DEF Total, Inv, Typed, TypeOK
  <2>2. Out(m) \in {0, 1}
    BY DEF Out
  <2>3. \A p \in DOMAIN session : /\ p \in DOMAIN session'
                                  /\ session'[p].sent \in Nat /\ session'[p].recv \in Nat
                                  /\ session[p].sent \in Nat /\ session[p].recv \in Nat
                                  /\ session'[p].sent >= session[p].sent
                                  /\ session'[p].recv >= session[p].recv
    BY <2>1, <2>2 DEF Entry
  <2>4. \A p \in DOMAIN published : published[p].sent \in Nat /\ published[p].recv \in Nat
    BY DEF Inv, Typed, EntriesOK, Entry
  <2>. QED BY <1>3, <2>3, <2>4 DEF Solo, PublishedOK
<1>8. (BatchOK(t) /\ SummaryOK(t) /\ RatesOK(t))'
  BY <1>3, <1>6 DEF Solo, BatchOK, SummaryOK, RatesOK
<1>9. \A s \in Threads : s # t => (BatchOK(s) /\ SummaryOK(s) /\ RatesOK(s))'
  BY OthersIdle DEF ThreadStep
<1>. QED BY <1>5, <1>7, <1>8, <1>9 DEF Solo

(* Steps that leave the session map and what is counted in it. *)
LEMMA SameSession ==
  ASSUME Inv, Solo, OneLoop, NEW t \in Threads, ThreadStep(t), UNCHANGED <<session, published>>,
         Counted' = Counted,
         (BatchOK(t) /\ SummaryOK(t) /\ RatesOK(t))'
  PROVE  Solo'
<1>1. \A s \in Threads : (BatchOK(s) /\ SummaryOK(s) /\ RatesOK(s))'
  BY OthersIdle
<1>2. Totals(Counted)' /\ PublishedOK'
  BY DEF Solo, Totals, Total, PublishedOK
<1>. QED BY <1>1, <1>2 DEF Solo

LEMMA IdleCounts ==
  ASSUME Inv, NEW t \in Threads, Idle(t)
  PROVE  Counted' = Counted
  BY IdleWaits DEF Inv, Typed, Shown

LEMMA SoloThread ==
  ASSUME Inv, Solo, OneLoop, NEW t \in Threads, ThreadStep(t)
  PROVE  Solo'
<1>1. TypeOK /\ WaitOK /\ BatchOK(t) /\ SummaryOK(t) /\ RatesOK(t)
  BY DEF Inv, Typed, Shown, Solo
<1>. USE DEF Goto
<1>2. CASE \/ Check(t) \/ Poll(t) \/ PollRaises(t) \/ TestRaises(t) \/ Sleep(t)
           \/ \E m \in Metrics : Test(t, m)
  <2>1. /\ UNCHANGED <<session, published, todo[t]>>
        /\ {pc[t], pc'[t]} \subseteq {"none", "check", "poll", "test", "sleep", "done"}
    BY <1>1, <1>2 DEF Check, Poll, PollRaises, TestRaises, Sleep, Test, summary, TypeOK
  <2>2. Idle(t)
    BY <1>2 DEF Idle
  <2>. QED BY <2>1, <2>2, SoloKeeps, SameSession, IdleCounts
<1>3. CASE Insert(t)
  <2>1. /\ UNCHANGED <<session, published>> /\ pc'[t] = "reset" /\ todo'[t] = snaps'[t]
        /\ size'[t] = Cardinality(DOMAIN session) /\ keys'[t] = DOMAIN session
    BY <1>1, <1>3 DEF Insert, TypeOK, ingest
  <2>2. (BatchOK(t) /\ SummaryOK(t) /\ RatesOK(t))'
    BY <2>1 DEF BatchOK, SummaryOK, RatesOK
  <2>3. Counted' = Counted
    BY <1>3, InsertWaits DEF Inv, Typed, Shown
  <2>. QED BY <2>1, <2>2, <2>3, SameSession
<1>4. CASE InsertRaises(t)
  <2>1. /\ UNCHANGED <<session, published, todo[t]>> /\ pc[t] = "test" /\ pc'[t] = "sleep"
    BY <1>1, <1>4 DEF InsertRaises, TypeOK, summary
  <2>2. Counted' = Counted
    BY <1>4, InsertWaits DEF Inv, Typed, Shown
  <2>. QED BY <2>1, <2>2, SoloKeeps, SameSession
<1>5. CASE IterationRaises(t)
  BY <1>1, <1>5 DEF IterationRaises, Resized, BatchOK
<1>6. ASSUME NEW p \in Pids, Reset(t, p)
      PROVE  Solo'
  <2>1. /\ pc[t] = "reset" /\ p \in DOMAIN session
        /\ DOMAIN session' = DOMAIN session /\ keys'[t] = keys[t] \ {p}
        /\ UNCHANGED <<published, pc, snaps, todo, cur, size, built>>
        /\ \A q \in DOMAIN session :
             session'[q] = IF q = p THEN Quiet(session[q]) ELSE session[q]
    BY <1>1, <1>6 DEF Reset, TypeOK, ingest, Inv, Typed, EntriesOK
  <2>2. \A q \in DOMAIN session :
          /\ session'[q].sent = session[q].sent /\ session'[q].recv = session[q].recv
          /\ q = p => session'[q].sendRate = 0 /\ session'[q].recvRate = 0
    BY <1>1, <2>1, QuietCounts DEF TypeOK
  <2>3. (BatchOK(t) /\ SummaryOK(t) /\ RatesOK(t))'
    BY <1>1, <2>1, <2>2 DEF BatchOK, SummaryOK, RatesOK
  <2>4. Counted' = Counted
    BY <1>6, IdleCounts DEF Idle
  <2>5. Totals(Counted)' /\ PublishedOK'
    BY <2>1, <2>2, <2>4 DEF Solo, Totals, Total, PublishedOK
  <2>6. \A s \in Threads : (BatchOK(s) /\ SummaryOK(s) /\ RatesOK(s))'
    BY <2>3, OthersIdle
  <2>. QED BY <2>5, <2>6 DEF Solo
<1>7. CASE ResetDone(t)
  <2>1. /\ UNCHANGED <<session, published, todo, cur, snaps>> /\ pc[t] = "reset"
        /\ pc'[t] = "count" /\ keys[t] = {} /\ todo[t] = snaps[t] /\ cur[t] = {}
    BY <1>1, <1>7 DEF ResetDone, TypeOK, ingest, summary, BatchOK, WaitOK, CurOK
  <2>2. Summed(t)' = {}
    BY <2>1 DEF Summed
  <2>3. \A p \in Pids : Total(session, p).sendRate = 0 /\ Total(session, p).recvRate = 0
    BY <1>1, <2>1, NewEntryCounts DEF Total, RatesOK
  <2>4. Rates(Summed(t))'
    BY <2>1, <2>2, <2>3, CountNothing DEF Rates, Total
  <2>5. (BatchOK(t) /\ SummaryOK(t) /\ RatesOK(t))'
    BY <2>1, <2>4 DEF BatchOK, SummaryOK, RatesOK
  <2>. QED BY <1>7, <2>1, <2>5, SameSession, IdleCounts DEF Idle
<1>8. CASE Create(t) \/ \E m \in Metrics : Count(t, m)
  BY <1>8, CountedOne
<1>9. ASSUME NEW m \in Metrics, Miss(t, m)
      PROVE  Solo'
  <2>1. /\ UNCHANGED <<session, published, snaps>> /\ pc[t] = "count" /\ pc'[t] = "create"
        /\ cur[t] = {} /\ m \in todo[t] /\ todo'[t] = todo[t] \ {m} /\ cur'[t] = {m}
        /\ PidOf[m] \notin DOMAIN session
    BY <1>1, <1>9 DEF Miss, TypeOK, ingest, WaitOK, CurOK
  <2>2. todo'[t] \union cur'[t] = todo[t] \union cur[t] /\ Summed(t)' = Summed(t)
    BY <2>1 DEF Summed
  <2>3. Rates(Summed(t))'
    BY <1>1, <2>1, <2>2 DEF RatesOK, Rates, Total
  <2>4. (BatchOK(t) /\ SummaryOK(t) /\ RatesOK(t))'
    BY <1>1, <2>1, <2>2, <2>3 DEF BatchOK, SummaryOK, RatesOK
  <2>. QED BY <1>9, <2>1, <2>4, SameSession, IdleCounts DEF Idle
<1>10. CASE CountDone(t)
  <2>1. /\ UNCHANGED <<session, published, snaps, todo, cur>> /\ pc[t] = "count"
        /\ pc'[t] = "build" /\ todo[t] = {} /\ keys'[t] = DOMAIN session
        /\ size'[t] = Cardinality(DOMAIN session) /\ built'[t] = <<>>
    BY <1>1, <1>10 DEF CountDone, TypeOK, ingest, Inv, Typed, EntriesOK
  <2>2. DOMAIN built'[t] = {}
    BY <2>1
  <2>3. Rates(Summed(t))'
    BY <1>1, <2>1 DEF RatesOK, Rates, Total, Summed
  <2>4. (BatchOK(t) /\ SummaryOK(t) /\ RatesOK(t))'
    BY <1>1, <2>1, <2>2, <2>3 DEF BatchOK, SummaryOK, RatesOK
  <2>. QED BY <1>10, <2>1, <2>4, SameSession, IdleCounts DEF Idle
<1>11. ASSUME NEW p \in Pids, Build(t, p)
       PROVE  Solo'
  <2>1. /\ UNCHANGED <<session, published, snaps, todo, cur, size, pc>> /\ pc[t] = "build"
        /\ p \in DOMAIN session /\ keys'[t] = keys[t] \ {p}
        /\ DOMAIN built'[t] = DOMAIN built[t] \union {p}
        /\ \A q \in DOMAIN built'[t] : built'[t][q] = IF q = p THEN session[q] ELSE built[t][q]
    BY <1>1, <1>11 DEF Build, TypeOK, ingest, Inv, Typed, EntriesOK
  <2>2. Rates(Summed(t))'
    BY <1>1, <2>1 DEF RatesOK, Rates, Total, Summed
  <2>3. SummaryOK(t)'
    BY <1>1, <2>1 DEF SummaryOK
  <2>4. (BatchOK(t) /\ RatesOK(t))'
    BY <1>1, <2>1, <2>2 DEF BatchOK, RatesOK
  <2>. QED BY <1>11, <2>1, <2>3, <2>4, SameSession, IdleCounts DEF Idle
<1>12. CASE BuildDone(t)
  <2>1. /\ UNCHANGED <<session, published, snaps, todo, cur, built>> /\ pc[t] = "build"
        /\ pc'[t] = "publish" /\ keys[t] = {}
    BY <1>1, <1>12 DEF BuildDone, TypeOK, ingest, summary
  <2>2. Rates(Summed(t))'
    BY <1>1, <2>1 DEF RatesOK, Rates, Total, Summed
  <2>3. (BatchOK(t) /\ SummaryOK(t) /\ RatesOK(t))'
    BY <1>1, <2>1, <2>2 DEF BatchOK, SummaryOK, RatesOK
  <2>. QED BY <1>12, <2>1, <2>3, SameSession, IdleCounts DEF Idle
<1>13. CASE Publish(t)
  <2>1. /\ UNCHANGED <<session, todo>> /\ pc[t] = "publish" /\ pc'[t] = "sleep"
        /\ published' = built[t]
    BY <1>1, <1>13 DEF Publish, TypeOK, summary
  <2>2. (BatchOK(t) /\ SummaryOK(t) /\ RatesOK(t))'
    BY <1>1, <2>1 DEF BatchOK, SummaryOK, RatesOK
  <2>3. PublishedOK'
    <3>1. /\ DOMAIN published' = DOMAIN session /\ \A p \in DOMAIN session : published'[p] = session[p]
      BY <1>1, <2>1 DEF SummaryOK
    <3>2. \A p \in DOMAIN session : session[p].sent \in Nat /\ session[p].recv \in Nat
      BY <1>1 DEF TypeOK, Entry
    <3>. QED BY <2>1, <3>1, <3>2 DEF PublishedOK
  <2>4. Totals(Counted)'
    <3>1. Counted' = Counted
      BY <1>13, IdleCounts DEF Idle
    <3>. QED BY <2>1, <3>1 DEF Solo, Totals, Total
  <2>5. \A s \in Threads : (BatchOK(s) /\ SummaryOK(s) /\ RatesOK(s))'
    BY <2>2, OthersIdle
  <2>. QED BY <2>3, <2>4, <2>5 DEF Solo
<1>. QED BY <1>2, <1>3, <1>4, <1>5, <1>6, <1>7, <1>8, <1>9, <1>10, <1>11, <1>12, <1>13
         DEF ThreadStep

LEMMA SoloNext == Inv /\ Solo /\ OneLoop /\ [Next]_vars => Solo'
<1>. SUFFICES ASSUME Inv, Solo, OneLoop, [Next]_vars
              PROVE  Solo'
  OBVIOUS
<1>1. CASE \/ StartFlag \/ StopFlag \/ StartLoader \/ StartLoad \/ StartLoadFails
           \/ StartFallback \/ StartThread \/ StopCleanup
           \/ \E m \in Metrics : Raise(m)
           \/ \E f \in Filters : SetFilter(f)
           \/ UNCHANGED vars
  <2>1. UNCHANGED <<todo, cur, snaps, keys, size, built, session, published, stored, undone, residue>>
    BY <1>1 DEF StartFlag, StopFlag, StartLoader, StartLoad, StartLoadFails,
                StartFallback, StartThread, StopCleanup, Raise, SetFilter, vars, summary, store, ingest
  <2>2. \A t \in Threads : pc'[t] = pc[t] \/ (pc[t] = "none" /\ pc'[t] = "check")
    <3>1. CASE StartThread
      BY <3>1, CollectorAssumption
         DEF StartThread, Goto, Inv, Typed, TypeOK, Apart, LaunchedOK, Threads
    <3>2. CASE ~StartThread
      BY <1>1, <3>2 DEF StartFlag, StopFlag, StartLoader, StartLoad,
                        StartLoadFails, StartFallback, StopCleanup, Raise, SetFilter, vars
    <3>. QED BY <3>1, <3>2
  <2>3. \A t \in Threads : (BatchOK(t) /\ SummaryOK(t) /\ RatesOK(t))'
    BY <2>1, <2>2, SoloKeeps
  <2>4. Counted' = Counted
    <3>1. \A t \in Threads : Waiting(t)' = Waiting(t)
      BY <2>1, <2>2 DEF Waiting
    <3>. QED BY <2>1, <3>1 DEF Counted, Acknowledged
  <2>5. Totals(Counted)' /\ PublishedOK'
    BY <2>1, <2>4 DEF Solo, Totals, Total, PublishedOK
  <2>. QED BY <2>3, <2>5 DEF Solo
<1>2. ASSUME NEW t \in Threads, ThreadStep(t)
      PROVE  Solo'
  BY <1>2, SoloThread
<1>. QED BY <1>1, <1>2 DEF Next, ControlStep

LEMMA SoloMatches == Inv /\ Solo => SessionMatchesInserts
<1>. SUFFICES ASSUME Inv, Solo
              PROVE  SessionMatchesInserts
  OBVIOUS
<1>1. \A t \in Threads : Waiting(t) = IF pc[t] = "reset" THEN snaps[t] ELSE todo[t] \union cur[t]
  BY DEF Inv, Shown, WaitOK, CurOK, Solo, BatchOK, Waiting
<1>2. \A m : m \in Uncounted <=> \E t \in Threads : m \in Waiting(t)
  BY <1>1 DEF Uncounted
<1>3. Acknowledged \ Uncounted = Counted
  BY <1>2 DEF Counted
<1>. QED BY <1>3 DEF SessionMatchesInserts, Solo, Totals

LEMMA SoloRates == Inv /\ Solo => RatesOfBatch
<1>. SUFFICES ASSUME Inv, Solo, NEW t \in Threads, pc[t] = "publish", NEW p \in DOMAIN built[t]
              PROVE  /\ built[t][p].sendRate = SentBy(p, snaps[t])
                     /\ built[t][p].recvRate = ReceivedBy(p, snaps[t])
  BY DEF RatesOfBatch
<1>1. built[t][p] = session[p] /\ p \in DOMAIN session /\ p \in Pids
  BY DEF Solo, SummaryOK, Inv, Typed, TypeOK
<1>2. Summed(t) = snaps[t]
  BY DEF Summed, Solo, BatchOK, Inv, Shown, WaitOK, CurOK
<1>3. RatesOK(t)
  BY DEF Solo
<1>4. Rates(Summed(t))
  BY <1>3 DEF RatesOK
<1>5. Total(session, p) = session[p]
  BY <1>1 DEF Total
<1>6. /\ Total(session, p).sendRate = SentBy(p, Summed(t))
      /\ Total(session, p).recvRate = ReceivedBy(p, Summed(t))
  BY <1>1, <1>4 DEF Rates
<1>. QED BY <1>1, <1>2, <1>5, <1>6

LEMMA SoloPublishes ==
  ASSUME Inv, Solo, [Next]_vars, published' # published
  PROVE  \A p \in DOMAIN published : /\ p \in DOMAIN published'
                                     /\ published'[p].sent >= published[p].sent
                                     /\ published'[p].recv >= published[p].recv
<1>1. PICK t \in Threads : Publish(t)
  <2>1. PICK t \in Threads : ThreadStep(t)
    <3>1. ~StartFlag /\ ~StopFlag
      BY DEF StartFlag, StopFlag
    <3>2. ~ControlStep
      BY DEF ControlStep, StartLoader, StartLoad, StartLoadFails, StartFallback, StartThread,
             StopCleanup
    <3>3. ASSUME NEW m \in Metrics PROVE ~Raise(m)
      BY DEF Raise
    <3>4. ASSUME NEW f \in Filters PROVE ~SetFilter(f)
      BY DEF SetFilter
    <3>5. ~UNCHANGED vars
      BY DEF vars
    <3>. QED BY <3>1, <3>2, <3>3, <3>4, <3>5 DEF Next
  <2>2. ~(Check(t) \/ Poll(t) \/ PollRaises(t) \/ TestRaises(t))
    BY DEF Check, Poll, PollRaises, TestRaises
  <2>3. ~(Insert(t) \/ InsertRaises(t) \/ IterationRaises(t) \/ ResetDone(t))
    BY DEF Insert, InsertRaises, IterationRaises, ResetDone
  <2>4. ~(Create(t) \/ CountDone(t) \/ BuildDone(t) \/ Sleep(t))
    BY DEF Create, CountDone, BuildDone, Sleep
  <2>5. ASSUME NEW m \in Metrics PROVE ~(Test(t, m) \/ Count(t, m) \/ Miss(t, m))
    BY DEF Test, Count, Miss
  <2>6. ASSUME NEW p \in Pids PROVE ~(Reset(t, p) \/ Build(t, p))
    BY DEF Reset, Build
  <2>. QED BY <2>1, <2>2, <2>3, <2>4, <2>5, <2>6 DEF ThreadStep
<1>2. /\ DOMAIN published' = DOMAIN session
      /\ \A p \in DOMAIN session : published'[p] = session[p]
  BY <1>1 DEF Publish, Solo, SummaryOK
<1>3. /\ \A p \in DOMAIN published : published[p].sent \in Nat /\ published[p].recv \in Nat
      /\ \A p \in DOMAIN session : session[p].sent \in Nat /\ session[p].recv \in Nat
  BY DEF Inv, Typed, TypeOK, EntriesOK, Entry
<1>. QED BY <1>2, <1>3 DEF Solo, PublishedOK

(* While no two loops overlap, however often the collector is started and    *)
(* stopped and inserts and queries fail, the session totals are those of the *)
(* inserts that returned: of the stored rows, without those a failed insert  *)
(* left and with those rolled back (summarize_by_process; README,            *)
(* "cumulative bytes").                                                      *)
THEOREM TotalsMatchInserts == Spec /\ []OneLoop => []SessionMatchesInserts
  BY InvInit, InvNext, SoloInit, SoloNext, SoloMatches, PTL DEF Spec

(* ... and the rates published are those of the batch just summarised.       *)
THEOREM PublishedRates == Spec /\ []OneLoop => []RatesOfBatch
  BY InvInit, InvNext, SoloInit, SoloNext, SoloRates, PTL DEF Spec

(* ... and what the dashboard shows of a process never shrinks.              *)
THEOREM TotalsGrow == Spec /\ []OneLoop => TotalsNeverDecrease
<1>1. Inv /\ Solo /\ [Next]_vars
        => [\A p \in DOMAIN published : /\ p \in DOMAIN published'
                                        /\ published'[p].sent >= published[p].sent
                                        /\ published'[p].recv >= published[p].recv]_published
  BY SoloPublishes
<1>. QED BY <1>1, InvInit, InvNext, SoloInit, SoloNext, PTL DEF Spec, TotalsNeverDecrease

(* A collector that is started once has one loop.                            *)
LEMMA StartedOnce ==
  ASSUME MaxThreads = 1
  PROVE  OneLoop
  BY DEF OneLoop, Threads
-----------------------------------------------------------------------------
(* One lifespan uses one source. *)

Held    == UNION {Processing(t) : t \in Threads}
Drained == stored \union undone \union discarded \union lost \union Held
Stage   == IF loaded THEN "open" ELSE IF launched = 0 THEN "new" ELSE "closed"

(* The loader is loaded from start() to stop(); until then nothing is raised. *)
LoaderOK == /\ loaded <=> ctl \in {"launching", "running", "stopping"}
            /\ launched = 0 /\ ~loaded => pending = {}
            /\ ctl \in {"running", "stopping"} => launched # 0

LEMMA LoaderInit == Init => LoaderOK
  BY DEF Init, LoaderOK

LEMMA LoaderNext == TypeOK /\ LoaderOK /\ [Next]_vars => LoaderOK'
<1>. SUFFICES ASSUME TypeOK, LoaderOK, [Next]_vars
              PROVE  LoaderOK'
  OBVIOUS
<1>. USE DEF LoaderOK, TypeOK, fields, source
<1>1. CASE \/ StartFlag \/ StartLoader \/ StartLoad \/ StartLoadFails \/ StartFallback
           \/ StartThread \/ StopFlag \/ StopCleanup
  <2>1. CASE StartFlag
    BY <2>1 DEF StartFlag
  <2>2. CASE StartLoader
    BY <2>2 DEF StartLoader
  <2>3. CASE StartLoad \/ StartLoadFails \/ StartFallback
    BY <2>3 DEF StartLoad, StartLoadFails, StartFallback
  <2>4. CASE StartThread
    <3>1. launched \in Nat
      BY CollectorAssumption
    <3>. QED BY <2>4, <3>1 DEF StartThread
  <2>5. CASE StopFlag
    BY <2>5 DEF StopFlag
  <2>6. CASE StopCleanup
    BY <2>6 DEF StopCleanup
  <2>. QED BY <1>1, <2>1, <2>2, <2>3, <2>4, <2>5, <2>6
<1>2. CASE \E m \in Metrics : Raise(m)
  BY <1>2 DEF Raise
<1>3. CASE UNCHANGED vars \/ \E f \in Filters : SetFilter(f)
  BY <1>3 DEF vars, SetFilter
<1>4. ASSUME NEW t \in Threads, ThreadStep(t)
      PROVE  LoaderOK'
  <2>1. CASE Still(t)
    BY <2>1, StillMoves
  <2>2. CASE Poll(t)
    BY <2>2 DEF Poll
  <2>3. CASE BatchEnds(t) \/ \E m \in Metrics : Test(t, m)
    BY <2>3 DEF BatchEnds, Insert, InsertRaises, TestRaises, Test
  <2>. QED BY <1>4, <2>1, <2>2, <2>3 DEF ThreadStep, Still, BatchEnds
<1>. QED BY <1>1, <1>2, <1>3, <1>4 DEF Next, ControlStep

LEMMA SourceInit == Init => Source!Init
<1>. SUFFICES ASSUME Init
              PROVE  Source!Init
  OBVIOUS
<1>1. /\ pending = {} /\ dropped = {} /\ stored = {} /\ undone = {} /\ discarded = {}
      /\ lost = {} /\ ~loaded /\ launched = 0 /\ \A t \in Threads : raw[t] = {} /\ pc[t] = "none"
  BY DEF Init
<1>2. Held = {}
  BY <1>1 DEF Held, Processing
<1>. QED BY <1>1, <1>2 DEF Source!Init, Held

(* Steps that raise, drain and drop nothing. *)
LEMMA SourceStutters ==
  ASSUME UNCHANGED <<pending, dropped>>, Stage' = Stage, Drained' = Drained
  PROVE  UNCHANGED Source!vars
  BY DEF Source!vars, Stage, Drained, Held

LEMMA SourceStep ==
  ASSUME MaxThreads = 1, Typed, Apart, LoaderOK, [Next]_vars
  PROVE  [Source!Next]_(Source!vars)
<1>1. TypeOK /\ launched \in {0, 1}
  BY DEF Typed, TypeOK
<1>2. CASE StartFlag \/ StopFlag \/ UNCHANGED vars \/ \E f \in Filters : SetFilter(f)
  <2>1. UNCHANGED <<source, store, ingest, pc, loaded, launched>>
    BY <1>2 DEF StartFlag, StopFlag, SetFilter, vars, fields
  <2>2. Drained' = Drained
    BY <2>1 DEF Drained, Held, Processing, store, ingest
  <2>. QED BY <2>1, <2>2, SourceStutters DEF Stage, source
<1>3. CASE StartLoader \/ StartLoadFails \/ StartThread
  <2>1. UNCHANGED <<pending, dropped>> /\ Stage' = Stage
    BY <1>1, <1>3 DEF StartLoader, StartLoadFails, StartThread, Typed, StartOK, LoaderOK, Stage,
                        source
  <2>2. /\ UNCHANGED <<store, ingest>>
        /\ \A t \in Threads : pc'[t] = pc[t] \/ (pc[t] = "none" /\ pc'[t] = "check")
    BY <1>1, <1>3 DEF StartLoader, StartLoadFails, StartThread, Goto, Apart, LaunchedOK, TypeOK, Threads
  <2>3. \A t \in Threads : Processing(t)' = Processing(t)
    BY <2>2 DEF Processing, ingest
  <2>4. Drained' = Drained
    BY <2>2, <2>3 DEF Drained, Held, store
  <2>. QED BY <2>1, <2>4, SourceStutters
<1>4. CASE StartLoad \/ StartFallback
  <2>1. /\ UNCHANGED <<source, store, ingest, pc, launched>> /\ ~loaded /\ loaded' /\ launched = 0
    BY <1>1, <1>4 DEF StartLoad, StartFallback, LoaderOK, Typed, StartOK
  <2>2. Drained' = Drained
    BY <2>1 DEF Drained, Held, Processing, store, ingest
  <2>3. Source!Load
    BY <2>1, <2>2 DEF Source!Load, Drained, Held, source
  <2>. QED BY <2>3 DEF Source!Next
<1>5. CASE StopCleanup
  <2>1. /\ UNCHANGED <<store, ingest, pc, launched>> /\ loaded /\ ~loaded' /\ launched # 0
        /\ \E S \in SUBSET pending : pending' = pending \ S /\ dropped' = dropped \union S
    BY <1>5 DEF StopCleanup, LoaderOK
  <2>2. Drained' = Drained
    BY <2>1 DEF Drained, Held, Processing, store, ingest
  <2>3. Source!Close
    BY <2>1, <2>2 DEF Source!Close, Drained, Held
  <2>. QED BY <2>3 DEF Source!Next
<1>6. ASSUME NEW m \in Metrics, Raise(m)
      PROVE  [Source!Next]_(Source!vars)
  <2>1. /\ UNCHANGED <<store, ingest, pc, loaded, launched, dropped>> /\ loaded
        /\ m \in fresh /\ pending' = pending \union {m}
    BY <1>6 DEF Raise, fields
  <2>2. Drained' = Drained
    BY <2>1 DEF Drained, Held, Processing, store, ingest
  <2>3. m \notin pending /\ m \notin dropped /\ m \notin Drained
    BY <2>1 DEF Drained, Held, Apart, PlacesApart, ThreadsApart, Settled
  <2>4. Source!Accept(m)
    BY <2>1, <2>2, <2>3 DEF Source!Accept, Source!Raised, Drained, Held
  <2>. QED BY <2>4 DEF Source!Next
<1>7. ASSUME NEW t \in Threads, ThreadStep(t)
      PROVE  [Source!Next]_(Source!vars)
  <2>1. CASE Still(t)
    <3>1. /\ UNCHANGED <<source, store, ingest, loaded, launched>>
          /\ \A s \in Threads : pc'[s] = "test" <=> pc[s] = "test"
      BY <1>1, <2>1, StillMoves DEF fields
    <3>2. \A s \in Threads : Processing(s)' = Processing(s)
      BY <3>1 DEF Processing, ingest
    <3>3. Drained' = Drained
      BY <3>1, <3>2 DEF Drained, Held, store
    <3>. QED BY <3>1, <3>3, SourceStutters DEF Stage, source
  <2>2. CASE Poll(t)
    <3>1. PICK S \in SUBSET pending : Processing(t)' = S /\ pending' = pending \ S
      BY <1>1, <2>2, PollMoves
    <3>2. UNCHANGED <<dropped, store, loaded, launched>>
      BY <2>2 DEF Poll, fields
    <3>3. /\ Processing(t) = {}
          /\ \A s \in Threads : s # t => Processing(s)' = Processing(s)
      BY <1>1, <2>2, PollMoves
    <3>4. Held' = Held \union S
      BY <3>1, <3>3 DEF Held
    <3>5. Drained' = Drained \union S
      BY <3>2, <3>4 DEF Drained, store
    <3>6. Source!Drain
      BY <3>1, <3>2, <3>5 DEF Source!Drain, Drained, Held
    <3>. QED BY <3>6 DEF Source!Next
  <2>3. ASSUME NEW m \in Metrics, Test(t, m)
        PROVE  [Source!Next]_(Source!vars)
    <3>1. /\ m \in Processing(t)
          /\ \/ Processing(t)' = Processing(t) /\ discarded' = discarded
             \/ Processing(t)' = Processing(t) \ {m} /\ discarded' = discarded \union {m}
          /\ \A s \in Threads : s # t => Processing(s)' = Processing(s)
      BY <1>1, <2>3, TestMoves
    <3>2. UNCHANGED <<source, stored, undone, lost, loaded, launched>>
      BY <2>3 DEF Test, fields
    <3>3. /\ Held' \union discarded' = Held \union discarded
      BY <3>1 DEF Held
    <3>4. Drained' = Drained
      BY <3>2, <3>3 DEF Drained
    <3>. QED BY <3>2, <3>4, SourceStutters DEF Stage, source
  <2>4. CASE BatchEnds(t)
    <3>1. /\ Processing(t)' = {}
          /\ \A s \in Threads : s # t => Processing(s)' = Processing(s)
          /\ UNCHANGED <<source, discarded, loaded, launched>>
      BY <1>1, <2>4, BatchMoves
    <3>2. stored' \union undone' \union lost'
            = stored \union undone \union lost \union Processing(t)
      BY <1>1, <2>4, BatchParts
    <3>3. Held = Held' \union Processing(t)
      BY <3>1 DEF Held
    <3>4. Drained' = Drained
      BY <3>1, <3>2, <3>3 DEF Drained
    <3>. QED BY <3>1, <3>4, SourceStutters DEF Stage, source
  <2>. QED BY <1>7, <2>1, <2>2, <2>3, <2>4 DEF ThreadStep, Still, BatchEnds
<1>. QED BY <1>2, <1>3, <1>4, <1>5, <1>6, <1>7 DEF Next, ControlStep

(* In one lifespan the collector takes from its loader only what is pending, *)
(* once, whatever falls between its polls, and loses the rest only to        *)
(* cleanup(): it uses the loader as the source BCCBPFLoader implements.      *)
THEOREM CollectorUsesSource ==
  ASSUME MaxThreads = 1
  PROVE  Spec => UsesFlowSource
<1>1. Typed => TypeOK
  BY DEF Typed
<1>2. Typed /\ Apart /\ LoaderOK /\ [Next]_vars => [Source!Next]_(Source!vars)
  BY SourceStep
<1>. QED BY <1>1, <1>2, TypeInit, TypeNext, ApartInit, ApartNext, LoaderInit, LoaderNext,
            SourceInit, PTL DEF Spec, UsesFlowSource, Source!Spec
=============================================================================
