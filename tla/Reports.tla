------------------------------ MODULE Reports ------------------------------
(***************************************************************************)
(* Trackers (the daemon's loop in src/main.py, the dashboard's in          *)
(* src/ui/web.py) that sample the flows at intervals they measure with the *)
(* wall clock, write one database file, and show rates and session totals; *)
(* and what is read back from that file by time window: the history report *)
(* and the statistics panel of the page.  A cycle of a tracker is one step *)
(* here (Collector and Daemon have its inside).  On a connection of its    *)
(* own an insert stores its batch or raises and stores nothing             *)
(* (BatchStore); on one that serves queries too, the dashboard's, an       *)
(* insert that raises may leave rows and one that returns may have lost    *)
(* some (SnapshotStore).                                                   *)
(***************************************************************************)
EXTENDS Queries

CONSTANTS Trackers,   \* processes that collect into the file
          Web,        \* those whose connection serves API requests as well
          FilterOf,   \* [Trackers -> Filters]: --proto, or the page's button
          Window,     \* ticks of the window of a report ("1 hour")
          TopLimit,   \* rows of the panel's top list
          Start,      \* the clock at the start
          MaxTicks, MaxSteps,   \* bounds: ticks of the clock, steps back
          MaxFailed             \* bound: inserts that raise or lose rows

ASSUME ReportsAssumption == /\ IsFiniteSet(Trackers) /\ Web \subseteq Trackers
                            /\ FilterOf \in [Trackers -> Filters]
                            /\ {Window, TopLimit, Start, MaxTicks, MaxSteps,
                                MaxFailed} \subseteq Nat
                            /\ MaxSteps <= Start

VARIABLES mock,                  \* [Trackers -> whether it runs on MockBPFLoader]
          clock, ticks, steps,   \* the wall clock; time passed; steps back made
          raised, pending,       \* flows so far; [Trackers -> those not yet polled]
          stored,                \* traffic_snapshots: row -> its timestamp
          undone,                \* history: rows rolled back of inserts that returned
          residue,               \* history: rows stored by inserts that raised
          session, ips,          \* [Trackers -> _session_map], its remote_ips
          last,                  \* [Trackers -> last_time or _last_poll_time]
          since, jumped,         \* history: ticks since then; the clock was set
          shown,                 \* [Trackers -> interval the rates shown are over]
          failed,                \* inserts that raised or lost rows so far
          load, top              \* loadProtocolStats: Idle, or the protocols of the
                                 \* answer under way; the list shown

time    == <<clock, ticks, steps>>
meters  == <<last, since, jumped, shown>>
tracker == <<mock, session, ips, meters>>
file    == <<stored, undone, residue>>
panel   == <<load, top>>
vars    == <<time, raised, pending, file, tracker, failed, panel>>

Idle   == {"idle"}
Unseen == [over |-> 0, real |-> 0, jumped |-> FALSE]

Init == /\ mock \in [Trackers -> BOOLEAN]
        /\ clock = Start /\ ticks = 0 /\ steps = 0
        /\ raised = {} /\ pending = [t \in Trackers |-> {}]
        /\ stored = <<>> /\ undone = {} /\ residue = {}
        /\ session = [t \in Trackers |-> <<>>] /\ ips = [t \in Trackers |-> <<>>]
        /\ last = [t \in Trackers |-> Start]
        /\ since = [t \in Trackers |-> 0] /\ jumped = [t \in Trackers |-> FALSE]
        /\ shown = [t \in Trackers |-> Unseen]
        /\ failed = 0
        /\ load = Idle /\ top = {}

-----------------------------------------------------------------------------
(* The machine. *)
Tick == /\ ticks < MaxTicks
        /\ clock' = clock + 1 /\ ticks' = ticks + 1
        /\ since' = [t \in Trackers |-> since[t] + 1]
        /\ UNCHANGED <<mock, steps, raised, pending, file, session, ips, last, jumped,
                       shown, failed, panel>>

StepBack == /\ steps < MaxSteps
            /\ clock' = clock - 1 /\ steps' = steps + 1
            /\ jumped' = [t \in Trackers |-> TRUE]
            /\ UNCHANGED <<mock, ticks, raised, pending, file, session, ips, last, since,
                           shown, failed, panel>>

(* A socket call is seen by the probes of every tracker; a simulated tracker *)
(* makes up its own.                                                         *)
Raise(m) == /\ m \notin raised
            /\ raised' = raised \union {m}
            /\ \E t \in Trackers :
                 pending' = [u \in Trackers |->
                               IF u = t \/ ~(mock[t] \/ mock[u]) THEN pending[u] \union {m}
                               ELSE pending[u]]
            /\ UNCHANGED <<time, file, tracker, failed, panel>>

-----------------------------------------------------------------------------
(* One cycle: poll, measure, filter, insert, summarise, show.                *)

(* elapsed_sec = max(now - last, 0.001): 0 ticks stand for the minimum.      *)
Elapsed(t) == IF clock > last[t] THEN clock - last[t] ELSE 0

(* Fault: the queue is not replaced. *)
PollKeeps(t) == /\ UNCHANGED pending
                /\ since' = [since EXCEPT ![t] = 0]
                /\ jumped' = [jumped EXCEPT ![t] = FALSE]

(* The poll. *)
Poll(t) == /\ pending' = [pending EXCEPT ![t] = {}]
           /\ since' = [since EXCEPT ![t] = 0]
           /\ jumped' = [jumped EXCEPT ![t] = FALSE]

(* The batch that passes process_raw_metrics. *)
Snapshots(t) == {m \in pending[t] : Passes(FilterOf[t], m)}

(* INSERT: a row has an id of its own, here the number of those made by this *)
(* tracker of this flow.                                                     *)
Copies(t, m) == {r \in DOMAIN stored \union undone : r.by = t /\ r.flow = m}
Row(t, m) == [n |-> 1 + Cardinality(Copies(t, m)), by |-> t, flow |-> m,
              dst |-> DstIp(mock[t], m)]
Rows(t, S) == {Row(t, m) : m \in S}

Put(rows) == stored' = [r \in DOMAIN stored \union rows |->
                          IF r \in DOMAIN stored THEN stored[r] ELSE clock]

(* summarize_by_process *)
Summarize(t, S) ==
  LET pids == DOMAIN session[t] \union {PidOf[m] : m \in S}
      mine(p) == {m \in S : PidOf[m] = p}
      entry(p) == IF p \in DOMAIN session[t] THEN Quiet(session[t][p]) ELSE NewEntry
      known(p) == IF p \in DOMAIN session[t] THEN ips[t][p] ELSE {}
  IN  /\ session' = [session EXCEPT ![t] = [p \in pids |->
                       FoldSet(LAMBDA m, e : Add(e, m), entry(p), mine(p))]]
      /\ ips' = [ips EXCEPT ![t] = [p \in pids |->
                   known(p) \union UNION {RemoteIp(mock[t], m) : m \in mine(p)}]]

(* On a connection shared with requests a query that raises may have rolled  *)
(* back rows before the insert returned; they are counted as stored.         *)
Loses(t, gone) == IF gone = {} THEN UNCHANGED failed
                  ELSE t \in Web /\ failed < MaxFailed /\ failed' = failed + 1

Cycle(t) ==
  /\ Poll(t)
  /\ last' = [last EXCEPT ![t] = clock]
  /\ \E gone \in SUBSET Snapshots(t) :
       /\ Loses(t, gone)
       /\ Put(Rows(t, Snapshots(t) \ gone))
       /\ undone' = undone \union Rows(t, gone)
  /\ Summarize(t, Snapshots(t))
  /\ shown' = [shown EXCEPT ![t] = [over |-> Elapsed(t), real |-> since[t],
                                    jumped |-> jumped[t]]]
  /\ UNCHANGED <<mock, time, raised, residue, panel>>

(* Fault: the time of the last poll moves only when the insert went well.    *)
CycleFailsUntimed(t) ==
  /\ failed < MaxFailed /\ Snapshots(t) # {}
  /\ failed' = failed + 1
  /\ Poll(t)
  /\ UNCHANGED <<mock, time, raised, file, session, ips, last, shown, panel>>

(* The insert raises: nothing is summarised or shown, and the dashboard's    *)
(* loop goes on (the daemon's ends).  Rows a request has committed by then,  *)
(* or that were inserted after that, stay.                                   *)
CycleFails(t) ==
  /\ failed < MaxFailed /\ Snapshots(t) # {}
  /\ failed' = failed + 1
  /\ Poll(t)
  /\ last' = [last EXCEPT ![t] = clock]
  /\ \E left \in SUBSET Snapshots(t) :
       /\ left # {} => t \in Web
       /\ Put(Rows(t, left))
       /\ residue' = residue \union Rows(t, left)
  /\ UNCHANGED <<mock, time, raised, undone, session, ips, shown, panel>>

-----------------------------------------------------------------------------
(* WHERE timestamp BETWEEN now - w AND now *)
Recent(w) == {r \in DOMAIN stored : clock <= stored[r] + w /\ stored[r] <= clock}

(* /top-processes of the page; --history and --top, with --proto.            *)
Report(w, n, proto) == GetTopProcesses({r \in Recent(w) : Passes(proto, r.flow)}, n)

(* The history over all the time there is, and with no more groups than its  *)
(* limit of 50.                                                              *)
History(proto) == Report(Start + MaxTicks, Cardinality(Metrics), proto)

(* loadProtocolStats, every 5 seconds: /protocol-stats is served ...         *)
LoadStats == /\ load = Idle
             /\ load' = DOMAIN GetProtocolDistribution(Recent(Window))
             /\ UNCHANGED <<time, raised, pending, file, tracker, failed, top>>

(* Fault: a list that is filled is not filled again. *)
StatsArriveOnce == /\ load # Idle /\ load' = Idle
                   /\ \E T \in Report(Window, TopLimit, "ALL") :
                        top' = IF top = {} THEN T ELSE top
                   /\ UNCHANGED <<time, raised, pending, file, tracker, failed>>

(* ... and answered.  With one protocol of two the handler throws, reading   *)
(* .formatted of the other; else it asks for the top list and, unless that   *)
(* is empty, replaces the one it shows.                                      *)
StatsArrive == /\ load # Idle /\ load' = Idle
               /\ IF Cardinality(load) = 1 THEN UNCHANGED top
                  ELSE \E T \in Report(Window, TopLimit, "ALL") :
                         top' = IF T = {} THEN top ELSE T
               /\ UNCHANGED <<time, raised, pending, file, tracker, failed>>

LoadProtocolStats == LoadStats \/ StatsArrive

Next == \/ Tick \/ StepBack
        \/ \E m \in Metrics : Raise(m)
        \/ \E t \in Trackers : Cycle(t) \/ CycleFails(t)
        \/ LoadProtocolStats

Spec == Init /\ [][Next]_vars

(* The page's interval fires and its requests are answered, again and again  *)
(* (a step of LoadProtocolStats is always possible, so this is its weak      *)
(* fairness).                                                                *)
FairSpec == Spec /\ []<><<LoadProtocolStats>>_panel

-----------------------------------------------------------------------------
TypeOK == /\ clock \in 0 .. Start + MaxTicks /\ ticks \in 0 .. MaxTicks
          /\ steps \in 0 .. MaxSteps /\ failed \in 0 .. MaxFailed
          /\ raised \subseteq Metrics /\ pending \in [Trackers -> SUBSET raised]
          /\ mock \in [Trackers -> BOOLEAN]
          /\ \A r \in DOMAIN stored \union undone :
               /\ r.n \in Nat \ {0} /\ r.by \in Trackers /\ r.flow \in raised
               /\ r.dst = DstIp(mock[r.by], r.flow)
          /\ residue \subseteq DOMAIN stored
          /\ \A t \in Trackers : \A p \in DOMAIN session[t] : session[t][p] \in Entry
          /\ {last[t] : t \in Trackers} \subseteq 0 .. Start + MaxTicks
          /\ load \in {Idle} \union SUBSET {"TCP", "UDP"}

(* What the live tables of all trackers tell of a process. *)
Live(p, f(_)) == SumFunction([t \in Trackers |-> IF p \in DOMAIN session[t]
                                                 THEN f(session[t][p]) ELSE 0])
Sent(e) == e.sent
Recv(e) == e.recv
Tcp(e)  == e.tcp
Udp(e)  == e.udp

(* The rows of the inserts that returned, all of which are summarised. *)
Acknowledged == (DOMAIN stored \ residue) \union undone

(* The history over a window as long as the sessions tells what the live     *)
(* tables of all trackers tell together: per process, per protocol, and in   *)
(* the sum over remote addresses, though sessions go by PID and reports by   *)
(* PID and name.  They differ by the rows a shared connection has lost of    *)
(* inserts that returned or has kept of inserts that raised, and by nothing  *)
(* else ... unless the clock was set back behind rows already stored, which  *)
(* no report shows until it has caught up.                                   *)
ReportsMatchSessions ==
  LET rows == Recent(Start + MaxTicks)
      dist == GetProtocolDistribution(rows)
      bytes(x) == IF x \in DOMAIN dist THEN dist[x] ELSE 0
      total(T) == HistoryTotal(T).sent + HistoryTotal(T).recv
      of(S, p) == {r \in S : PidOf[r.flow] = p}
      over(S, x) == Cardinality({r \in S : ProtoOf[r.flow] = x})
  IN  rows = DOMAIN stored =>
        \A T \in History("ALL"), T6 \in History("TCP") :
          /\ \A p \in Pids :
               LET h == HistoryTotal({g \in T : g.pid = p})
               IN  /\ h.sent + Egress(of(undone, p)) = Live(p, Sent) + Egress(of(residue, p))
                   /\ h.recv + Ingress(of(undone, p)) = Live(p, Recv) + Ingress(of(residue, p))
          /\ total(T6) = bytes("TCP")
          /\ bytes("TCP") + over(undone, "TCP")
               = SumFunction([p \in Pids |-> Live(p, Tcp)]) + over(residue, "TCP")
          /\ bytes("UDP") + over(undone, "UDP")
               = SumFunction([p \in Pids |-> Live(p, Udp)]) + over(residue, "UDP")
          /\ total(T) = SumFunction([g \in GetRemoteIpBreakdown(rows) |-> g.total])

(* "bytes_delta / elapsed_time ... over the measured polling interval"       *)
(* (README): rates are taken over the time that has really passed since the  *)
(* previous poll, also when that poll's insert failed, and only a step of    *)
(* the clock within this very interval disturbs them.                        *)
RatesOfInterval == \A t \in Trackers : shown[t].jumped \/ shown[t].over = shown[t].real

(* The Remote IP column names peers of the process in the batches whose      *)
(* insert returned (those of a failed insert never come to the table, though *)
(* reports may tell of them): the public ones if there are any (the          *)
(* simulation tells the peer of an upload only), else others, with this      *)
(* machine among them for simulated downloads alone; and "-" only for a      *)
(* process whose peers are all unknown.                                      *)
ColumnShowsPeers ==
  \A t \in Trackers : \A p \in DOMAIN session[t] :
    LET mine == {r.flow : r \in {q \in Acknowledged : q.by = t /\ PidOf[q.flow] = p}}
        peers == {PeerOf[m] : m \in mine}
        told == {PeerOf[m] : m \in {n \in mine : ~Swapped(mock[t], n)}}
        column == RemoteColumn(ips[t][p])
    IN  /\ told \intersect Public # {} => column = told \intersect Public
        /\ column \subseteq peers \union (IF mock[t] THEN {Host} ELSE {})
        /\ (column = {}) <=> (peers \subseteq {AnyAddress})

(* "Total Sent: cumulative upload bytes attributed to this process across    *)
(* the ... query time window" (README): no flow is stored twice, so a report *)
(* never tells of more traffic than there was.                               *)
HistoryIsTraffic ==
  \A g \in TopProcesses(Recent(Window)) :
    /\ g.sent <= SentBy(g.pid, raised)
    /\ g.recv <= ReceivedBy(g.pid, raised)

(* While both protocols have rows in the last hour, the panel's top list     *)
(* comes to be that of the last hour.                                        *)
BothProtocols == Cardinality(DOMAIN GetProtocolDistribution(Recent(Window))) = 2
PanelFresh == <>[]BothProtocols => <>[](top \in Report(Window, TopLimit, "ALL"))
=============================================================================
