# Per-process network tracker: TLA+ models, checks and proofs

The program attributes TCP and UDP traffic to processes. Kernel probes raise an
event per socket call; a loader drains them in batches; an aggregator filters
them, names their processes and keeps totals; a SQLite file stores them; a
dashboard, a CLI and a background daemon show them. This directory models the
parts of that path in which order, failure, concurrency and the clock matter,
checks them with TLC on small instances, and proves with TLAPS, for all values of
the constants, every safety property and refinement the passing runs check: the
delivery path, the store's transactions, the collector's totals, the names flows
are stored under, the daemon, the page, the rates, and what reports add up to.

Paths are those of the repository (`src/core/aggregator.py`, `Code/run.sh`);
`PROJECT.json` prefixes them with `src/` and gives, in "map", the lines behind
every definition.

## 1. The system

| Part | Source | State it keeps | Operations |
|---|---|---|---|
| kernel probes | `src/bpf/tracker.bpf.c` | a perf ring per CPU | `submit_flow` on tcp/udp send and receive |
| BPF loader | `src/core/ebpf_loader.py` | `bpf`, `_queue`, `_lock` | `load`, `poll_flow_stats`, `_event_cb`, `cleanup` |
| flow aggregator | `src/core/aggregator.py` | `_session_map`, protocol filter | `process_raw_metrics`, `summarize_by_process` |
| process cache | `src/core/process_cache.py` | `_cache` (pid → name, last seen) | `get`, `_resolve_pid` |
| snapshot store | `src/storage/db.py` | SQLite file in WAL mode, one connection per process | `insert_snapshot_batch`, three queries |
| collector | `src/ui/web.py:31-168` | `is_running`, `loader`, `_latest_summaries`, `_lock` | `start`, `stop`, `_run_loop` |
| REST API and page | `src/ui/web.py:171-946` | the collector's fields; in the page `liveProcesses`, `currentProtoFilter`, `refreshTimer`, the active tab | `/live`, `/top-processes`, `/ip-breakdown`, `/protocol-stats`, `/config`; clicks and timers |
| daemon | `src/main.py` | `running`, the loader, the database | the collection loop and its signal handler |
| control script | `Code/run.sh` | `.tracker.pid` | `--daemon`, `--stop`, `--status` |
| report modes | `src/main.py:80-98`, `src/ui/cli.py` | none: they read the file and end | `--history`, `--top` |
| models, configuration, tests | `src/storage/models.py`, `src/config.py`, `tests/` | none that changes by itself | records and their labels, expectations |

How they interact. Perf rings are shared between the kernel and the thread that
polls; libbcc runs `_event_cb` inside that poll. The collector thread calls
loader, aggregator and store in turn and takes `_lock` only to publish. API
threads read what it published, query the *same* SQLite connection
(`check_same_thread=False`), and change the configuration the aggregator reads.
A daemon is another process with its own loader and its own connection to the
same file; the dashboard is a tracker as well, so the two may collect at once.
Reports select rows by the wall clock they were stamped with. The script knows a
daemon by the number in a file only.

What is hard, and what makes each part correct:

* **loader** — a callback, two polling threads and `cleanup()` meet in `_queue`
  and `self.bpf`; rings are bounded and overflow in silence. No event is returned
  twice; each is pending, returned or lost for one of three reasons; order within
  a CPU is kept; what is accepted comes out.
* **store** — `with conn` in a reader commits or rolls back the writer's
  half-done transaction when they share a connection; a process may die inside
  one. Acknowledged rows stay, no lock is left behind, and with a private
  connection a batch is atomic.
* **collector and aggregator** — a batch leaves the loader before it is stored
  and is stored before it is counted; any of these steps may raise; filters
  change meanwhile; `stop()` does not join. Session totals agree with the inserts
  that returned, rates with the batch, nothing is in two places, the page catches up.
* **process cache** — the PID may change hands between any two reads. A name is
  never borrowed.
* **page** — requests and answers overtake each other or are lost; the page is
  reloaded, and other pages share the server's filter, which outlives them all. One
  timer, and what is shown belongs to what is highlighted, as far as that is so.
* **reports and rates** — sessions are kept per PID since the start, rows are
  grouped per PID and name over a window, and both windows and rates rest on a
  clock that may be set back. What was shown live and what is read back agree;
  rates are over the time that passed; no report exceeds the traffic; the page's
  panel comes to be current.
* **daemon and script** — signals at any step, errors, kills, two terminals. No
  polled batch is dropped by a stop, nothing stays open, every running daemon
  can be found.

The full list of hazards, each at its line and with the properties that watch
it, or the reason why none does, is "hazards" in `PROJECT.json`.

## 2. Modules and the code

| Module | Models | Notes on the correspondence |
|---|---|---|
| `FlowSource` | the promise of `AbstractBPFLoader` | abstract: pending, drained, dropped |
| `BPFLoader` | `BCCBPFLoader` and `submit_flow` | one action per point where another thread can run; implements `FlowSource` |
| `BatchStore` | what `insert_snapshot_batch` promises | abstract: a batch is stored as a whole or not at all |
| `SnapshotStore` | `db.py` over SQLite | transactions per connection, one row of `executemany` at a time; implements `BatchStore` when connections are private |
| `Aggregator` | filter and session arithmetic | operators only; used by `Collector` |
| `Collector` | `BackgroundCollector`, its loop, the aggregator inside it, `POST /config` | composes `Aggregator` with the two abstract ends: it takes metrics as from a `FlowSource` and stores as a `SnapshotStore` may answer |
| `Queries` | the three queries of `db.py`, the totals of `cli.py`, the addresses of `FlowKey` and of the Remote IP column | operators only, over a set of rows; which of equal rows a `LIMIT` keeps is open |
| `Reports` | clock, polls, inserts and summaries of one or more trackers, then what windows of the file tell | composes `Aggregator` and `Queries`; a tracker's cycle is one step, its inside is in `Collector` and `Daemon` |
| `Attribution` | probe's `comm`, queue, `ProcessCache.get` and `_resolve_pid` | the operating system's process table moves between any two reads; a thread's name may differ from its process's, and either may be empty |
| `Daemon` | loop and signal handler of `main()`, `run.sh` | several daemons, several terminals |
| `WebDashboard` | the page's script and the endpoints it calls | an action per handler, up to its next `await`; `Reload` starts the page anew beside a server that goes on, `Elsewhere` is a click in another page |
| `MC*` | model values, functions and symmetry for TLC | |
| `AggregatorLemmas` | counting and sums over finite sets | lemmas `Collector_proofs` and `Reports_proofs` share |
| `*_proofs` | lemmas and theorems | extend the modules above and TLAPS |

Level of atomicity. In the Python modules a step is what runs between two points
where CPython 3.12 may switch threads: calls and backward jumps. A read and an
assignment on one line with a call between them are two steps. A section under
`_lock` is one step when nothing else reads its fields without the lock, and
several steps when something does: `start()` and `stop()` hold the lock, but the
loop asks neither for it nor about it.

Inserts. What the store answers depends on the connection. The daemon's is its own:
an insert stores its batch or raises and stores nothing. The dashboard's serves the
API's queries as well: a query that returns commits the rows inserted so far, so an
insert that then raises leaves a part of its batch (`residue`); a query that raises
rolls them back, and the insert goes on and returns all the same (`undone`).
`SnapshotStore` has the steps; `Collector` and `Reports` take their outcome, any part
of the batch, and keep the two sets as history variables. `Acknowledged` is what
inserts that returned were given: the stored rows without `residue` and with `undone`.

Data. A flow is a member of a set with a pid, a direction, a protocol and, where
it matters, a name (`Attribution`, `Queries`) and a peer address (`Queries`); its
byte count is one unit, so a total is a number of records. A snapshot row is a
batch and an index in `SnapshotStore`; in `Reports` it has an id of its own, a flow
and the tracker that stored it, so a flow inserted twice is two rows; its timestamp
is a tick of the clock. An answer of the server is the
version it was made from. Text, numbers on screen, sort keys and layout are left
out. Names of operators follow the code's: `Drain`, `EventCb`, `InsertRow`,
`LiveArrives`, `UpdateRefreshInterval`.

Some definitions come in two forms, the code's and one marked "Fault": a plausible
mistake. Faults are in no next-state relation. Each property is shown to be
falsifiable by putting a fault, or a guard-less variant, in place of the code's
action ("mutants" in `PROJECT.json`).

External, modelled from how the code uses it: libbcc and the perf rings (a poll
handles the rings it found readable, one sample at a time, and may return with
none), SQLite's transactions and write lock, the process table behind `/proc` and
psutil, the wall clock, signals, `sudo` and the shell, the network between browser
and server.

## 3. Runs

Each configuration is `<module>.cfg` or `<module>_<case>.cfg`, for `MC<module>`.

| Run | Instance | What it shows |
|---|---|---|
| `loader` | 2 CPUs, 1 thread, rings of 2, 3 events per CPU | no event is returned twice (`AtMostOnce`), none disappears without being in one of the code's losses (`Accounted`), a loss is final (`LostForGood`), each CPU's order is kept, the loader implements `FlowSource`, and an accepted event is returned while it stays open, whichever way load, callbacks, swaps and cleanup interleave |
| `store_shared` | one connection for a writer and 2 readers, another for a daemon; batches of 3 rows | acknowledged batches are complete in the file, and what is stored of a failed one has no hole, although readers commit in the middle |
| `store_private` | 3 connections, errors, crashes, retries | inserts are atomic (refinement of `BatchStore`), no transaction stays open, every insert ends |
| `store_failing_query` | as `store_shared`, queries may raise | **violated**: see below |
| `collector` | 3 metrics of 2 processes, both directions and protocols, 1 filter change, inserts that fail or lose rows to a failing query, names that cannot be read, one `start()`/`stop()` | totals are those of the rows stored, but for what failed inserts left and failing queries took back (`SessionMatchesInserts`), `RatesOfBatch`, `TotalsNeverDecrease`; the loader is used as a `FlowSource` (`UsesFlowSource`); what was acknowledged comes to be shown (`CatchesUp`), and the loop ends after `stop()` |
| `collector_restart` | 2 metrics, `start()` again after `stop()` | two threads on one session map, and an old loop polling a loader that is not yet loaded: each metric is still in one place, and no more is shown than inserts that returned were given (`ShownWasInserted`) |
| `attribution` | 2 PIDs, a name and the empty name, TTL 2, clock to 3, 3 flows | a name is current for its PID or the thread that called, or repeats a lookup less than a TTL old |
| `daemon_root` | 2 terminals, 2 daemons, root | a signal never loses a polled batch, probes and database are released, a running daemon is in the PID file, a stopped one ends |
| `daemon_user` | 1 terminal, `sudo` | **violated**: see below |
| `dashboard` | 2 requests in flight, 1 lost, 1 reload, clicks in other pages, 2 tabs, 2 intervals, 1 publication | one timer (`OneTimer`); the collector filters by the highlighted button (`ButtonIsFilter`) and the rows are those of the highlighted tab (`TabIsWindow`), on the conditions below; an unpaused page ends up with the latest publication (`ShowsLatest`) |
| `reports` | the dashboard's tracker with probes or simulated, 3 flows of 2 processes, one of them under two names; 2 ticks, 1 step back, 1 insert that fails or loses rows, window of 1 | `ReportsMatchSessions`: history, protocol split and address breakdown add up to the live tables; `RatesOfInterval`; `ColumnShowsPeers`; no report exceeds the traffic (`HistoryIsTraffic`); the panel comes to be current (`PanelFresh`) |
| `reports_two_trackers` | the same flows, daemon and dashboard both collecting | **violated**: see below |

Three runs end in a counterexample; each contradicts a sentence of the repository.

* `AckedDurable` with failing queries. `AI_Used/Tools.md:56` counts on WAL for
  reading while the tracker writes. The dashboard's collector and its API threads
  share one connection; a query that raises inside `with conn` rolls back the rows
  the collector has inserted so far, and the insert still returns normally.
* `HistoryIsTraffic` with two trackers. `AI_Used/Thought_Process.md:87` has the
  page read what the daemon stores; but the page's collector stores as well. Run as
  root beside the daemon, each flow is in the file twice and no column tells the
  rows apart. (As an ordinary user the dashboard simulates instead and, where it may
  write the file, puts invented rows among the real ones.)
* `InactiveIsTrue` for an ordinary user. The daemon's `sudo` belongs to root,
  `kill -0` fails with EPERM, and `--status` prints "Daemon is INACTIVE".

One consequence of the code is not a violation of any sentence about it, but
worth knowing: a hit renews an entry's `last_seen`, so a PID that keeps sending
keeps the name it was first looked up under, also after an `exec`. `NamedByLookups`
says exactly that much: a name is current, or repeats a lookup less than a TTL
before.

Some properties hold on a condition the program does not see to, and the
condition is part of the property. `ButtonIsFilter` and `TabIsWindow` are about a
click that was made alone and was not lost (the page does not ask which request an
answer belongs to), and `ButtonIsFilter` about a page that has had such a click since
it was loaded and since another page's was served: a page starts with ALL highlighted
whatever the collector still filters by, and does not ask. A later click made alone
restores both. `SessionMatchesInserts`, `ShownWasInserted` and `ReportsMatchSessions`
name the rows by which totals and file may differ: `undone` and `residue`, both empty
with a connection per process. `NoOrphan` says nothing once two
scripts overlapped (the PID file is checked, then a daemon launched, then the file
written). `InactiveIsTrue` carries the same condition, so its counterexample needs
one terminal only. `ReportsMatchSessions` is about times when the clock is not
behind a stored row (a report ends at "now" and does not see the rows after it),
`RatesOfInterval` excepts an interval in which the clock was set, and `PanelFresh`
asks that both protocols have rows in the last hour: with one, the handler throws
on the other and leaves the list as it was. The hazards these conditions except are
reached by the models but counted as covered by no property.

`SessionMatchesInserts` is checked for one lifespan. After a `start()` that follows
`stop()` within the old thread's sleep, two threads may both create the entry of a
process and one count is lost; `collector_restart` states what survives. In the
deployed program `start()` and `stop()` are called once each per process, by the
lifespan handler.

### Bounds and why they are enough

* Rings of 1 or 2 with 2 or 3 events per CPU overflow, wrap between polls and
  leave a remainder for `cleanup()`. The program has one polling thread per loader
  but for a `start()` right after a `stop()`; the proofs of `AtMostOnce`,
  `Accounted` and the refinement are for any number of them.
* Batches of 3 rows give a reader's commit a place before, between and after two
  rows. Two readers give a commit between another reader's begin and end. Batches
  are interchangeable (symmetry); connections and threads are not.
* Two processes of which one sends and receives over TCP and the other sends over
  UDP make a filter split a batch and one process silent while the other is busy.
  The second `start()` needs two metrics for one entry: the race is about one PID.
* TTL 2 with a clock to 3 has an expired and an unexpired entry and a renewed one.
* Two daemons and two terminals are what a second launch and a stray `--stop` need.
* In `reports`, a window of 1 and a clock to 3 let rows leave the window; one step
  back puts the newest rows in the future and an interval at its minimum, with time
  after it for a normal one. Three flows make three groups, one more than the top
  list holds; one PID has both directions, two names and a public and a private
  peer, and the other's peer is unknown. Probes and simulation are both initial
  choices. One tracker is enough there because trackers share only the file;
  `reports_two_trackers` has both.
* Two requests overtake each other. One loss stands for any number since a lost
  request only frees its slot, and one reload for any number since it starts the page
  anew. Clicks in other pages, and those a page had under way when it was reloaded, need
  no slot: all this page can notice of them is that the filter changes.
* In `attribution` two names suffice to tell a former owner's from the present one's;
  one of them is the empty one, for which the code looks further. Three flows of one
  PID are a lookup, a renewal, and a hit or miss after it.

No action constraint or state constraint is used; every bound is a constant in a
guard. `CHECK_DEADLOCK FALSE` stands where the system may stop: every metric has
been raised and the collector stopped, the daemons of the instance have ended, the
clock has run to its bound (`attribution`, `reports`). The loader, store and
dashboard runs look for deadlocks.

### Fairness

Weak fairness only, and only for work that has begun or a thread the operating
system schedules, but for one case: a poll's steps (the loop calls again, libbcc
returns in its timeout), an insert or query in progress, the collector's loop and
the rest of a `start()` or `stop()`, a daemon's own loop (its sleep, poll and
5-second busy timeout end), the server's and the page's handlers, and the panel's own
5-second interval (always able to take a step, it is required to take one again and
again, which spares TLC the ENABLED of its weak fairness). Nothing is assumed of traffic, clicks, scripts, crashes, errors, `load()` or `cleanup()`.
The exception is strong fairness for the page's interval timer: clicks may again
and again take the connection it needs, but the browser queues the request and
does not forget it.

## 4. Proofs

`BPFLoader_proofs`, for any sets of CPUs and pollers, any ring capacity and any
bound on events:

* `TypeCorrect`: `TypeOK` is inductive by itself.
* `DeliveredAtMostOnce`, `EveryEventAccounted`, `LostEventsStayLost`: `AtMostOnce`,
  `Accounted` and `LostForGood`. None is inductive alone: a drain keeps `delivered` without
  repetitions only if the queue was disjoint from it, and the queue stays disjoint
  only if what comes out of a ring was in no other place. `IInv` adds that the
  five places of an event do not overlap (`Disjoint`), that a ring holds events of
  its own CPU and none twice (`RingsOK`), and that two threads never hold the same
  sample in a callback (`CallbacksOK`). One lemma per kind of move (submit, take,
  callback, drain, cleanup) says what it does to the five places.
* `CallsKeepTheirOrder`, for one polling thread: `PerCpuOrder`. Of each CPU,
  what was returned is older than what is queued, that older than what a callback
  holds and that older than what is in the ring, and returned, queue and ring are each
  in order (`Ordered`), whatever was lost in between. With several threads two callbacks
  may overtake each other.
* `LoaderIsFlowSource`: with rings, callbacks and queue mapped to `pending`, every
  step is a step of `FlowSource` or leaves its variables alone.

`SnapshotStore_proofs`, for any connections, threads, batches and batch size:

* `TypeCorrect`, and `NoTransactionLeftOpen` on every connection, shared or not.
* `AckedRowsDurable`, assuming that queries do not raise and that each connection
  has one writing thread. The strengthening says that rows inserted by a call in
  progress are in the open transaction or already committed by a reader
  (`InsertedKept`). Without the first assumption it is false: `store_failing_query`.
* `StoredWithoutHoles`, under the same assumptions: `NoHoles`. A transaction goes on where
  the file ends (`TxnContinues`): all rows of the batch before one of its rows are in it
  or already committed. A query that raises breaks this too:
  TLC finds a hole in the instance of `store_failing_query`.
* `PrivateStoreIsAtomic`, assuming private connections: `SnapshotStore` implements
  `BatchStore`. The invariant says that a transaction holds exactly the rows its
  writer has inserted and that the batches in progress are distinct and unsettled.

`Collector_proofs`, for any metrics, filter changes and number of `start()` calls:

* None of these assumes that inserts or queries succeed.
* `TypeCorrect`; `EveryMetricInOnePlace`: `OnePlace`, also when loops overlap. The
  strengthening (`Apart`) says that the batches two threads process have nothing in
  common with each other or with the places a metric ends in, and that none is missing.
* `ShownNeverExceedsInserts`: `ShownWasInserted`, also when loops overlap and overwrite
  each other's entries. An entry of the session map counts no more than the acknowledged
  records of its process that no summary has still to add (`Counted`), and a summary being
  built or shown no more than the acknowledged ones. What is shown may exceed what is
  *stored*, by the rows a failing query rolled back (`store_failing_query`) and no others.
* `TotalsMatchInserts`, `PublishedRates`, `TotalsGrow`: `SessionMatchesInserts`,
  `RatesOfBatch` and `TotalsNeverDecrease`, while one loop runs at a time (`OneLoop`).
  `Solo` says that the totals are exactly those of the records counted so far, and follows
  the one loop through reset, count and build: whose rates are zero already, which
  records they cover, which entries the summary has copied. `OneLoop` is a hypothesis about
  the behaviour and not about a constant: any number of restarts are covered as long as
  the old loop ends first, and `StartedOnce` shows that one `start()` satisfies it.
  When loops overlap, a count may be lost (see above).
* `CollectorUsesSource`, for one `start()`: every step maps to a step of `FlowSource` or
  a stutter. Each `start()` makes a loader of its own, so more lifespans are more
  sources.

`Reports_proofs`, for any trackers, flows, addresses and bounds:

* `RatesOverRealTime`: `RatesOfInterval`. It speaks of what is shown only; the
  strengthening (`Measured`) says of every interval under way that the time of the
  last poll is as far behind the clock as time has passed, unless the clock was
  set. A poll keeps it because it notes the time before the insert can fail.
* `TypeCorrect`, `HistoryOfOneTracker`, `ColumnNamesPeers` and `ReportsTellSessions`
  follow from one invariant, `Books` (confirmed by TLC on the instances first): the clock is
  its start plus time passed less steps back (`Bounds`); a flow a tracker has inserted, with
  or without success, is not before it again, so that of each flow it makes one row at
  most, although rows have ids of their own (`FlowsOK`); and a tracker's session map has
  an entry for exactly the processes of its acknowledged rows, with the counts and the
  addresses of these rows (`SessionsOK`). That a cycle keeps the last part is an induction over the batch
  (`FoldTallies`).
* `HistoryOfOneTracker`: `HistoryIsTraffic`, for one tracker; `reports_two_trackers` is
  the counterexample for two. `ColumnNamesPeers`: `ColumnShowsPeers`, probes or
  simulation. `ReportsTellSessions`: `ReportsMatchSessions`, for any number of trackers:
  the acknowledged rows are counted once by tracker, and those of the file, once by group, once by protocol and
  process and once by address, and every way of counting gives the same
  (`RowsByTracker`, `TotalOfGroups`, `RowsByPid`, `RowsByRemote`); no group is left out
  because there are no more groups than metrics (`AllGroups`).

`Daemon_proofs`, for any number of daemons and terminals:

* `TypeCorrect`; `NothingUnsaved` and `NothingOpen`. The strengthening (`Ending`)
  follows a daemon line by line: an unsaved batch exists only between poll and
  insert or after an error, and the probes go before the database.
* `EveryDaemonNamed`: `NoOrphan`, assuming `Root`. `Attended` says what holds in the
  middle of a script that runs alone: while it launches nobody is unattended, and
  what it removes from the file it has stopped or found dead. For an ordinary user
  it does not hold: `StartCheck` takes a live daemon for a dead one.

`WebDashboard_proofs`, for any number of requests in flight, tabs and intervals:

* `TypeCorrect`; `AtMostOneTimer`, which is inductive by itself.
* `FilterFollowsButton` and `RowsFollowTab`: `ButtonIsFilter` and `TabIsWindow`, for
  any number of reloads, losses and clicks in other pages. They speak of the page once
  nothing is in flight; `LastClick` and `LastTab` say of the one request in flight that
  it carries the last click.

`Attribution_proofs`, for any PIDs, names, TTL and traffic:

* `TypeCorrect`; `NamesComeFromLookups`: `NamedByLookups`. The strengthening says that
  a PID in use has its name now (`NamedOK`), that the name in a queued metric, the
  calling thread's, was given by then and one just read from /proc after it (`QueueOK`,
  `FoundOK`), so that whichever of them `or` picks will do,
  and that a cache entry is what the last record of its PID was made from (`CacheOK`):
  without it a hit could renew an entry of another lookup.

`BPFLoader_proofs` begins with the facts it needs about ranges and injectivity of
sequences under append, tail and concatenation. `AggregatorLemmas` has what one metric
adds to an entry and to a count, and the induction over finite sets behind sums:
`SubsetInduction` takes the statement as a set of subsets and not as an operator, and
rests on the strict-subset ordering of a finite set being well-founded; from it follow
that a summary's loop counts each record once (`FoldTallies`), that a sum is what an
element more adds to (`SumIs`), and that things counted key by key are counted once
(`SumOfParts`). The assumptions are the modules' own (`MetricsAssumption`,
`CapacityAssumption` and the like) and those named in a theorem. `FlowsAssumption` asks
that this machine's address, 127.0.0.1 and 0.0.0.0 are distinct and not public, which
`is_private` and the simulation's 192.168.1.50 satisfy; `MetricsAssumption` and
`ReportsAssumption` ask for finitely many metrics and trackers.

Model-checked only: all liveness (`EventuallyReturned`, `InsertsEnd`, `CatchesUp`,
`StopEnds`, `StoppedEnds`, `ShowsLatest`, `PanelFresh`), which the prover's treatment of
fairness and ENABLED does not reach.

## 5. Not modelled

* The probes' reading of socket fields, byte order and IPv6 mapping: the kernel's
  side of a copy.
* The random sizes of `MockBPFLoader`'s traffic; it appears as a loader that raises
  when it is not loaded (`Collector`) and as one that writes the ends of a flow the
  other way round (`Queries`).
* `upsert_process`, `invalidate`, `clear`: tests call the first two, nothing in the program calls any.
* `packets_delta`, `distinct_ips` and the `pid` parameter of the address breakdown:
  columns no decision rests on.
* Sorting and search of the page, the script's menu and demo, the parsing of
  arguments (`parse_time_duration` included): without state, or text only.
* The page's table row by row. A process that has used both protocols is labelled
  TCP+UDP and hidden by either protocol button (`web.py:798`); the model's table is
  the version it was drawn from.
* A report at its limit: `--history` stops at 50 groups and its TOTAL row sums those
  only (`main.py:85`); `History` is checked below the limit, `TopLimit` above.
* Several `loadProtocolStats` in flight at once: `Reports` answers one before the
  interval asks again.
* Tables and number formatting; an exception in it is an outcome of
  the daemon's `Render`.
* The 500 of `POST /config` (`web.py:280`): nothing looks at the answer.
* In `Daemon`, scripts are not interrupted half-way and PIDs are not reused.
* In `Attribution` the clock does not step back (in `Reports` it does); in `Collector` each metric is
  one unit of traffic.

## 6. Plan

Written, in this order: `FlowSource` and `BPFLoader`, the store, the aggregator and
collector, attribution, daemon, dashboard; the proofs of the two ends of the
delivery path; `Queries` and `Reports`; the proofs about rates, daemon, page and
attribution; the collector's proofs, order in the loader, holes in the store, and
the sums and addresses of reports. Next:

1. Theorems about the faultless parts of what fails in a run: how far two trackers'
   reports can exceed the traffic, and what a failed query can cost at most.
2. `Collector` over `SnapshotStore`'s detailed steps instead of its summary.
3. The order of the page's table and its rows: with the requests a sort click sends,
   today's instance of `WebDashboard` would exceed what TLC checks in minutes.
