------------------------------ MODULE Collector ------------------------------
(***************************************************************************)
(* BackgroundCollector (src/ui/web.py) with the FlowAggregator it drives.  *)
(* start() and stop() run in the lifespan thread under _lock; each start() *)
(* launches a thread running _run_loop, which reads is_running, loader and *)
(* config WITHOUT the lock and takes it only to publish.  stop() does not  *)
(* join the thread, so a start() that follows before the old thread has    *)
(* woken from its sleep leaves two threads on one loader, one aggregator   *)
(* and one session map.  POST /config changes the filter at any moment.    *)
(*                                                                         *)
(* A step is what runs between two points where CPython (3.12) may switch  *)
(* threads: a call or a loop's back edge.  The source is FlowSource's: a   *)
(* poll drains what is pending.  The store is SnapshotStore's: an insert   *)
(* that raises may leave rows behind, since a reader of the connection has *)
(* committed them, and one that returns may have lost rows, since a query  *)
(* that failed on the connection has rolled them back.                     *)
(***************************************************************************)
EXTENDS Aggregator, Sequences

CONSTANTS MaxThreads,      \* bound: start() calls that launch a thread
          MaxChanges,      \* bound: POST /config calls that set the filter
          InsertMayFail,   \* whether the store may raise
          QueryMayFail     \* whether a query of a request may raise meanwhile

ASSUME CollectorAssumption ==
  /\ MaxThreads \in Nat /\ MaxChanges \in Nat
  /\ InsertMayFail \in BOOLEAN /\ QueryMayFail \in BOOLEAN

Threads == 1 .. MaxThreads

VARIABLES
  \* the collector's fields
  ctl,        \* lifespan thread: "stopped", "running", or inside start()/stop()
  running,    \* self.is_running
  mock,       \* self.loader is a MockBPFLoader
  loaded,     \* self.loader has loaded and not been cleaned up
  launched,   \* threads started so far
  published,  \* self._latest_summaries, by pid
  \* config
  filter,     \* config.protocol_filter
  changes,    \* filter changes so far
  \* each collector thread
  pc,
  raw,        \* raw_metrics not yet looked at
  snaps,      \* snapshots
  todo,       \* records of snapshots still to be summarised
  cur,        \* {} or {m}: the record whose process gets a new entry
  keys, size, \* iteration over _session_map: keys to visit, its size at the start
  built,      \* summaries built so far, by pid
  \* the aggregator, the source and the store
  session,    \* _session_map
  fresh, pending, dropped,           \* not raised yet; raised, not polled; never polled
  stored, undone, residue,   \* rows; rolled back under a returned insert; of failed inserts
  discarded, lost            \* filtered; lost

fields  == <<ctl, running, mock, loaded, launched>>
config  == <<filter, changes>>
ingest  == <<raw, snaps>>
summary == <<todo, cur, keys, size, built>>
source  == <<fresh, pending, dropped>>
store   == <<stored, undone, residue, discarded, lost>>
vars    == <<fields, published, config, pc, ingest, summary, session, source, store>>

Goto(t, l) == pc' = [pc EXCEPT ![t] = l]

Init == /\ ctl = "stopped" /\ running = FALSE /\ mock = FALSE /\ loaded = FALSE
        /\ launched = 0
        /\ published = <<>> /\ session = <<>>
        /\ filter = "ALL" /\ changes = 0
        /\ pc = [t \in Threads |-> "none"]
        /\ raw = [t \in Threads |-> {}] /\ snaps = [t \in Threads |-> {}]
        /\ todo = [t \in Threads |-> {}] /\ cur = [t \in Threads |-> {}]
        /\ keys = [t \in Threads |-> {}] /\ size = [t \in Threads |-> 0]
        /\ built = [t \in Threads |-> <<>>]
        /\ fresh = Metrics /\ pending = {} /\ dropped = {}
        /\ stored = {} /\ undone = {} /\ residue = {} /\ discarded = {} /\ lost = {}

-----------------------------------------------------------------------------
(* start() and stop(), step by step: _lock is held, the loop does not ask it *)
LockFree == ctl \in {"stopped", "running"}

StartFlag == /\ ctl = "stopped" /\ launched < MaxThreads
             /\ ctl' = "choosing"
             /\ running' = TRUE
             /\ UNCHANGED <<mock, loaded, launched, published, config, pc, ingest,
                            summary, session, source, store>>

(* self.loader = Mock... or BCC...: a new object, what the old one held goes *)
StartLoader == /\ ctl = "choosing"
               /\ ctl' = "loading"
               /\ mock' \in BOOLEAN
               /\ loaded' = FALSE
               /\ dropped' = dropped \union pending
               /\ pending' = {}
               /\ UNCHANGED <<running, launched, published, config, pc, ingest, summary,
                              session, fresh, store>>

(* self.loader.load() *)
StartLoad == /\ ctl = "loading"
             /\ ctl' = "launching"
             /\ loaded' = TRUE
             /\ UNCHANGED <<running, mock, launched, published, config, pc, ingest, summary,
                            session, source, store>>

(* It raises, as a simulated loader's never does: self.loader becomes a      *)
(* MockBPFLoader, which until it is loaded raises at every poll ...          *)
StartLoadFails == /\ ctl = "loading" /\ ~mock
                  /\ ctl' = "fallback"
                  /\ mock' = TRUE
                  /\ dropped' = dropped \union pending
                  /\ pending' = {}
                  /\ UNCHANGED <<running, loaded, launched, published, config, pc, ingest,
                                 summary, session, fresh, store>>

(* ... and is loaded. *)
StartFallback == /\ ctl = "fallback"
                 /\ ctl' = "launching"
                 /\ loaded' = TRUE
                 /\ UNCHANGED <<running, mock, launched, published, config, pc, ingest,
                                summary, session, source, store>>

StartThread == /\ ctl = "launching"
               /\ ctl' = "running"
               /\ launched' = launched + 1
               /\ Goto(launched + 1, "check")
               /\ UNCHANGED <<running, mock, loaded, published, config, ingest, summary,
                              session, source, store>>

StopFlag == /\ ctl = "running"
            /\ ctl' = "stopping"
            /\ running' = FALSE
            /\ UNCHANGED <<mock, loaded, launched, published, config, pc, ingest,
                           summary, session, source, store>>

(* self.loader.cleanup(): the rings go, the loader's queue may survive. *)
StopCleanup == /\ ctl = "stopping"
               /\ ctl' = "stopped"
               /\ loaded' = FALSE
               /\ \E S \in SUBSET pending : /\ pending' = pending \ S
                                            /\ dropped' = dropped \union S
               /\ UNCHANGED <<running, mock, launched, published, config, pc, ingest,
                              summary, session, fresh, store>>

(* A socket call raises an event. *)
Raise(m) == /\ loaded /\ m \in fresh
            /\ fresh' = fresh \ {m}
            /\ pending' = pending \union {m}
            /\ UNCHANGED <<fields, published, config, pc, ingest, summary, session, dropped,
                           store>>

(* POST /api/v1/config with a proto. *)
SetFilter(f) == /\ changes < MaxChanges /\ f # filter
                /\ filter' = f
                /\ changes' = changes + 1
                /\ UNCHANGED <<fields, published, pc, ingest, summary, session, source,
                               store>>

-----------------------------------------------------------------------------
(* _run_loop *)

(* Fault: the loop does not look at is_running. *)
CheckNothing(t) == /\ pc[t] = "check"
                   /\ Goto(t, "poll")
                   /\ UNCHANGED <<fields, published, config, ingest, summary, session,
                                  source, store>>

Check(t) == /\ pc[t] = "check"
            /\ Goto(t, IF running THEN "poll" ELSE "done")
            /\ UNCHANGED <<fields, published, config, ingest, summary, session, source,
                           store>>

(* Fault: a poll leaves in the source what it returns. *)
PollCopies(t) == /\ pc[t] = "poll"
                 /\ raw' = [raw EXCEPT ![t] = pending]
                 /\ snaps' = [snaps EXCEPT ![t] = {}]
                 /\ Goto(t, "test")
                 /\ UNCHANGED <<fields, published, config, summary, session, source, store>>

(* poll_flow_stats on a loaded loader; a BCC loader already cleaned up or    *)
(* not yet loaded returns what its queue still holds, or nothing.            *)
Poll(t) == /\ pc[t] = "poll"
           /\ \E S \in SUBSET pending :
                /\ loaded => S = pending
                /\ loaded \/ ~mock
                /\ raw' = [raw EXCEPT ![t] = S]
                /\ pending' = pending \ S
           /\ snaps' = [snaps EXCEPT ![t] = {}]
           /\ Goto(t, "test")
           /\ UNCHANGED <<fields, published, config, summary, session, fresh,
                          dropped, store>>

(* MockBPFLoader raises when it is not loaded; the loop logs and sleeps. *)
PollRaises(t) == /\ pc[t] = "poll" /\ mock /\ ~loaded
                 /\ Goto(t, "sleep")
                 /\ UNCHANGED <<fields, published, config, ingest, summary, session,
                                source, store>>

(* process_raw_metrics, one metric: the filter of that moment keeps it or    *)
(* not (both reads of the filter are in one step).  The dashboard sets no    *)
(* pid, address or rate threshold.                                           *)
Test(t, m) == /\ pc[t] = "test" /\ m \in raw[t]
              /\ raw' = [raw EXCEPT ![t] = @ \ {m}]
              /\ \/ /\ Passes(filter, m)
                    /\ snaps' = [snaps EXCEPT ![t] = @ \union {m}]
                    /\ UNCHANGED discarded
                 \/ /\ ~Passes(filter, m)
                    /\ discarded' = discarded \union {m}
                    /\ UNCHANGED snaps
              /\ UNCHANGED <<fields, published, config, pc, cur, summary, session, source,
                             stored, undone, residue, lost>>

(* process_cache.get raises what is no IOError (a name in /proc that is not  *)
(* UTF-8): the batch is dropped.                                             *)
TestRaises(t) == /\ pc[t] = "test"
                 /\ \E m \in raw[t] : Passes(filter, m)
                 /\ lost' = lost \union raw[t] \union snaps[t]
                 /\ raw' = [raw EXCEPT ![t] = {}]
                 /\ Goto(t, "sleep")
                 /\ UNCHANGED <<fields, published, config, snaps, summary, session, source,
                                stored, undone, residue, discarded>>

(* db.insert_snapshot_batch (which ignores an empty batch), and into         *)
(* summarize_by_process: the loop that resets the rates begins.  What a      *)
(* failing query has rolled back under the insert is not there when it       *)
(* returns, and counted all the same.                                        *)
Insert(t) == /\ pc[t] = "test" /\ raw[t] = {}
             /\ \E gone \in SUBSET snaps[t] :
                  /\ gone # {} => QueryMayFail
                  /\ stored' = stored \union (snaps[t] \ gone)
                  /\ undone' = undone \union gone
             /\ todo' = [todo EXCEPT ![t] = snaps[t]]
             /\ keys' = [keys EXCEPT ![t] = DOMAIN session]
             /\ size' = [size EXCEPT ![t] = Cardinality(DOMAIN session)]
             /\ Goto(t, "reset")
             /\ UNCHANGED <<fields, published, config, ingest, cur, built, session, source,
                            residue, discarded, lost>>

(* Faults: the exception ends the loop; the exception is ignored. *)
InsertRaisesOut(t) == /\ pc[t] = "test" /\ raw[t] = {}
                      /\ InsertMayFail /\ snaps[t] # {}
                      /\ lost' = lost \union snaps[t]
                      /\ Goto(t, "done")
                      /\ UNCHANGED <<fields, published, config, ingest, summary, session,
                                     source, stored, undone, residue, discarded>>

InsertRaisesUnseen(t) == /\ pc[t] = "test" /\ raw[t] = {}
                         /\ InsertMayFail /\ snaps[t] # {}
                         /\ lost' = lost \union snaps[t]
                         /\ todo' = [todo EXCEPT ![t] = snaps[t]]
                         /\ Goto(t, "count")
                         /\ UNCHANGED <<fields, published, config, ingest, cur, keys, size,
                                        built, session, source, stored, undone, residue,
                                        discarded>>

(* The insert raises: the batch is dropped, but for the rows another user of *)
(* the connection has committed meanwhile (SnapshotStore).                   *)
InsertRaises(t) == /\ pc[t] = "test" /\ raw[t] = {}
                   /\ InsertMayFail /\ snaps[t] # {}
                   /\ \E left \in SUBSET snaps[t] :
                        /\ stored' = stored \union left
                        /\ residue' = residue \union left
                        /\ lost' = lost \union (snaps[t] \ left)
                   /\ Goto(t, "sleep")
                   /\ UNCHANGED <<fields, published, config, ingest, summary, session,
                                  source, undone, discarded>>

-----------------------------------------------------------------------------
(* summarize_by_process *)

Resized(t) == Cardinality(DOMAIN session) # size[t]

(* "dictionary changed size during iteration": the other thread has added a  *)
(* process.  The loop logs the error and sleeps; nothing is published.       *)
IterationRaises(t) == /\ pc[t] \in {"reset", "build"} /\ Resized(t)
                      /\ Goto(t, "sleep")
                      /\ UNCHANGED <<fields, published, config, ingest, summary,
                                     session, source, store>>

Reset(t, p) == /\ pc[t] = "reset" /\ ~Resized(t)
               /\ p \in keys[t]
               /\ session' = [session EXCEPT ![p] = Quiet(@)]
               /\ keys' = [keys EXCEPT ![t] = @ \ {p}]
               /\ UNCHANGED <<fields, published, config, pc, ingest, todo, cur, size, built,
                              source, store>>

ResetDone(t) == /\ pc[t] = "reset" /\ ~Resized(t) /\ keys[t] = {}
                /\ Goto(t, "count")
                /\ UNCHANGED <<fields, published, config, ingest, summary, session,
                               source, store>>

(* A record of a process the map knows. *)
Count(t, m) == /\ pc[t] = "count" /\ m \in todo[t]
               /\ PidOf[m] \in DOMAIN session
               /\ session' = [session EXCEPT ![PidOf[m]] = Add(@, m)]
               /\ todo' = [todo EXCEPT ![t] = @ \ {m}]
               /\ UNCHANGED <<fields, published, config, pc, ingest, cur, keys, size, built,
                              source, store>>

(* The pid is not in the map: set() is called for its new entry ...          *)
Miss(t, m) == /\ pc[t] = "count" /\ m \in todo[t]
              /\ PidOf[m] \notin DOMAIN session
              /\ todo' = [todo EXCEPT ![t] = @ \ {m}]
              /\ cur' = [cur EXCEPT ![t] = {m}]
              /\ Goto(t, "create")
              /\ UNCHANGED <<fields, published, config, ingest, keys, size, built,
                             session, source, store>>

(* Fault: the new entry is stored without the record that made it. *)
CreateEmpty(t) == /\ pc[t] = "create"
                  /\ \E m \in cur[t] :
                       session' = [p \in DOMAIN session \union {PidOf[m]} |->
                                     IF p = PidOf[m] THEN NewEntry ELSE session[p]]
                  /\ cur' = [cur EXCEPT ![t] = {}]
                  /\ Goto(t, "count")
                  /\ UNCHANGED <<fields, published, config, ingest, todo, keys, size, built,
                                 source, store>>

(* ... and the entry stored, over any entry made in between, and filled.     *)
Create(t) == /\ pc[t] = "create"
             /\ \E m \in cur[t] :
                  session' = [p \in DOMAIN session \union {PidOf[m]} |->
                                IF p = PidOf[m] THEN Add(NewEntry, m) ELSE session[p]]
             /\ cur' = [cur EXCEPT ![t] = {}]
             /\ Goto(t, "count")
             /\ UNCHANGED <<fields, published, config, ingest, todo, keys, size, built,
                            source, store>>

CountDone(t) == /\ pc[t] = "count" /\ todo[t] = {}
                /\ keys' = [keys EXCEPT ![t] = DOMAIN session]
                /\ size' = [size EXCEPT ![t] = Cardinality(DOMAIN session)]
                /\ built' = [built EXCEPT ![t] = <<>>]
                /\ Goto(t, "build")
                /\ UNCHANGED <<fields, published, config, ingest, todo, cur, session,
                               source, store>>

Build(t, p) == /\ pc[t] = "build" /\ ~Resized(t)
               /\ p \in keys[t]
               /\ built' = [built EXCEPT ![t] = [q \in DOMAIN @ \union {p} |->
                                                   IF q = p THEN session[p] ELSE @[q]]]
               /\ keys' = [keys EXCEPT ![t] = @ \ {p}]
               /\ UNCHANGED <<fields, published, config, pc, ingest, todo, cur, size, session,
                              source, store>>

BuildDone(t) == /\ pc[t] = "build" /\ ~Resized(t) /\ keys[t] = {}
                /\ Goto(t, "publish")
                /\ UNCHANGED <<fields, published, config, ingest, summary, session,
                               source, store>>

(* with self._lock: summaries and their sums are replaced together.          *)
Publish(t) == /\ pc[t] = "publish" /\ LockFree
              /\ published' = built[t]
              /\ Goto(t, "sleep")
              /\ UNCHANGED <<fields, config, ingest, summary, session, source, store>>

(* time.sleep(poll_interval_sec) *)
Sleep(t) == /\ pc[t] = "sleep"
            /\ Goto(t, "check")
            /\ UNCHANGED <<fields, published, config, ingest, summary, session, source,
                           store>>

ThreadStep(t) ==
  \/ Check(t) \/ Poll(t) \/ PollRaises(t) \/ TestRaises(t)
  \/ Insert(t) \/ InsertRaises(t) \/ IterationRaises(t) \/ ResetDone(t) \/ Create(t)
  \/ CountDone(t) \/ BuildDone(t) \/ Publish(t) \/ Sleep(t)
  \/ \E m \in Metrics : Test(t, m) \/ Count(t, m) \/ Miss(t, m)
  \/ \E p \in Pids : Reset(t, p) \/ Build(t, p)

(* The rest of a start() or stop() that has begun. *)
ControlStep == \/ StartLoader \/ StartLoad \/ StartLoadFails \/ StartFallback
               \/ StartThread \/ StopCleanup

Next == \/ StartFlag \/ StopFlag \/ ControlStep
        \/ \E m \in Metrics : Raise(m)
        \/ \E f \in Filters : SetFilter(f)
        \/ \E t \in Threads : ThreadStep(t)

Spec == Init /\ [][Next]_vars

(* Threads are scheduled, sleeps end, a start() or stop() that began ends.   *)
(* Traffic, config changes, start and stop may never come.                   *)
FairSpec == /\ Spec
            /\ WF_vars(ControlStep)
            /\ \A t \in Threads : WF_vars(ThreadStep(t))

-----------------------------------------------------------------------------
PCs == {"none", "check", "poll", "test", "reset", "count", "create", "build",
        "publish", "sleep", "done"}

TypeOK == /\ ctl \in {"stopped", "choosing", "loading", "fallback", "launching",
                      "running", "stopping"}
          /\ running \in BOOLEAN /\ mock \in BOOLEAN /\ loaded \in BOOLEAN
          /\ launched \in 0 .. MaxThreads /\ changes \in 0 .. MaxChanges
          /\ filter \in Filters
          /\ pc \in [Threads -> PCs]
          /\ raw \in [Threads -> SUBSET Metrics] /\ snaps \in [Threads -> SUBSET Metrics]
          /\ todo \in [Threads -> SUBSET Metrics] /\ cur \in [Threads -> SUBSET Metrics]
          /\ keys \in [Threads -> SUBSET Pids]
          /\ size \in [Threads -> Nat]
          /\ DOMAIN session \subseteq Pids /\ DOMAIN published \subseteq Pids
          /\ \A t \in Threads : DOMAIN built[t] \subseteq Pids
          /\ \A p \in DOMAIN session : session[p] \in Entry
          /\ fresh \subseteq Metrics /\ pending \subseteq Metrics /\ dropped \subseteq Metrics
          /\ stored \subseteq Metrics /\ undone \subseteq Metrics
          /\ residue \subseteq Metrics
          /\ discarded \subseteq Metrics /\ lost \subseteq Metrics

(* The records of the inserts that returned: all rows of the database, but   *)
(* not those a failed insert left behind, and also those a failing query     *)
(* rolled back under an insert that returned.                                *)
Acknowledged == (stored \ residue) \union undone

(* Of these, the records not yet added to the session map. *)
Uncounted == UNION {IF pc[t] = "reset" THEN snaps[t] ELSE todo[t] \union cur[t]
                      : t \in Threads}

Total(map, p) == IF p \in DOMAIN map THEN map[p] ELSE NewEntry

(* "Cumulative bytes across the active session or query window" (README):    *)
(* for each process the session map counts the rows in the database, but for *)
(* the records of the batch being summarised; the two part only by the rows  *)
(* of a failed insert and by those rolled back under a returned one.         *)
SessionMatchesInserts ==
  \A p \in Pids : LET rows == Acknowledged \ Uncounted IN
    /\ Total(session, p).sent = SentBy(p, rows)
    /\ Total(session, p).recv = ReceivedBy(p, rows)

(* What the dashboard shows is never more than what the database holds,      *)
(* unless a failing query has taken it from there: no record of a batch that *)
(* was dropped is shown, and none twice.                                     *)
ShownWasInserted ==
  \A p \in DOMAIN published : /\ published[p].sent <= SentBy(p, Acknowledged)
                              /\ published[p].recv <= ReceivedBy(p, Acknowledged)

(* Every polled metric is in one place: being processed by one thread, in    *)
(* the database, rolled back, filtered out, or lost with an error or a       *)
(* cleanup.                                                                  *)
Processing(t) == raw[t] \union (IF pc[t] = "test" THEN snaps[t] ELSE {})
Places == <<fresh, pending, dropped, stored, undone, discarded, lost>>
OnePlace ==
  /\ \A m \in Metrics :
       Cardinality({i \in DOMAIN Places : m \in Places[i]})
         + Cardinality({t \in Threads : m \in Processing(t)}) = 1
  /\ residue \subseteq stored

(* In one lifespan the collector uses its loader as the FlowSource that      *)
(* BPFLoader implements: it takes only what is pending, and takes it once.   *)
Source == INSTANCE FlowSource WITH
            Events  <- Metrics,
            stage   <- IF loaded THEN "open" ELSE IF launched = 0 THEN "new" ELSE "closed",
            drained <- stored \union undone \union discarded \union lost
                         \union UNION {Processing(t) : t \in Threads}
UsesFlowSource == Source!Spec

(* The rates about to be published are those of the batch just summarised,   *)
(* for every process of the session: a process that was silent shows zero.   *)
RatesOfBatch ==
  \A t \in Threads : pc[t] = "publish" =>
    \A p \in DOMAIN built[t] :
      /\ built[t][p].sendRate = SentBy(p, snaps[t])
      /\ built[t][p].recvRate = ReceivedBy(p, snaps[t])

(* The totals on the dashboard never go back and no process leaves it.       *)
TotalsNeverDecrease ==
  [][\A p \in DOMAIN published :
       /\ p \in DOMAIN published'
       /\ published'[p].sent >= published[p].sent
       /\ published'[p].recv >= published[p].recv]_published

(* While the collector keeps running, what was acknowledged comes to be     *)
(* shown.                                                                    *)
AcknowledgedIsShown ==
  \A p \in Pids : /\ Total(published, p).sent = SentBy(p, Acknowledged)
                  /\ Total(published, p).recv = ReceivedBy(p, Acknowledged)
CatchesUp == <>[](ctl = "running") => []<>(pending = {} /\ AcknowledgedIsShown)

(* After the last stop() every collector thread leaves its loop.             *)
StopEnds == <>[](ctl = "stopped") => <>[](\A t \in Threads : pc[t] \in {"none", "done"})
=============================================================================
