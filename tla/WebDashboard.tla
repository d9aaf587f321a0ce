---------------------------- MODULE WebDashboard ----------------------------
(***************************************************************************)
(* The page of src/ui/web.py and the endpoints it fetches.  A handler runs *)
(* to its next await; requests travel over several connections, so answers *)
(* and even requests overtake each other and some are lost; the page never *)
(* asks which request an answer belongs to.  The page may be reloaded, and *)
(* others may be open: the server's filter outlives each of them.  The     *)
(* collector behind the endpoints is reduced to what it publishes (a       *)
(* version) and the filter it collects with.  The statistics panel is in   *)
(* Reports; sorting and searching are left out.                            *)
(***************************************************************************)
EXTENDS Naturals

CONSTANTS Slots,         \* bound: requests in flight
          Windows,       \* the history tabs; DefaultTab is shown first
          DefaultTab,
          Intervals,     \* refresh choices; "pause" is another
          DefaultInterval,
          MaxVersion,    \* bound: publications
          MaxLost,       \* bound: requests lost
          MaxReloads     \* bound: reloads of the page

ASSUME DashboardAssumption == /\ DefaultTab \in Windows
                              /\ DefaultInterval \in Intervals /\ "pause" \notin Intervals
                              /\ {MaxVersion, MaxLost, MaxReloads} \subseteq Nat

Filters == {"ALL", "TCP", "UDP"}
Kinds   == {"live", "config", "history"}
Clicks  == {"config", "history"}
NoArg   == "none"

(* A request of the page, and once it is served its answer. *)
Request(k, a) == [kind |-> k, arg |-> a, served |-> FALSE, version |-> 0]
Free == Request("free", NoArg)

VARIABLES version, filter,           \* the server: see above
          net,                       \* [Slots -> request or Free]
          lost, reloads,             \* requests lost, reloads so far
          button,                    \* currentProtoFilter
          shown,                     \* version of liveProcesses
          tab, rows,                 \* active history tab; window of the rows shown
          timers, refreshTimer,      \* running intervals; the one the page remembers
          crossed                    \* history: the clicks of which the last was not
                                     \* alone in flight, or was lost, or another page's

server  == <<version, filter>>
refresh == <<timers, refreshTimer>>
faults  == <<lost, reloads>>
vars    == <<server, net, faults, button, shown, tab, rows, refresh, crossed>>

Pending(k)     == \E i \in Slots : net[i].kind = k
Unserved(i, k) == net[i].kind = k /\ ~net[i].served

(* The script's last lines: two fetches (and a timer). *)
Fetches(i, j) == [s \in Slots |-> CASE s = i -> Request("live", NoArg)
                                    [] s = j -> Request("history", DefaultTab)
                                    [] OTHER -> Free]

(* The first page of the server's life. *)
Init == /\ version = 0 /\ filter = "ALL"
        /\ \E i \in Slots, j \in Slots : i # j /\ net = Fetches(i, j)
        /\ lost = 0 /\ reloads = 0
        /\ button = "ALL" /\ shown = 0
        /\ tab = DefaultTab /\ rows = NoArg
        /\ timers = {DefaultInterval} /\ refreshTimer = DefaultInterval
        /\ crossed = {}

(* The page starts anew and forgets its requests.                            *)
Reload(i, j) ==
  /\ i # j /\ reloads < MaxReloads
  /\ reloads' = reloads + 1
  /\ net' = Fetches(i, j)
  /\ button' = "ALL" /\ shown' = 0
  /\ tab' = DefaultTab /\ rows' = NoArg
  /\ timers' = {DefaultInterval} /\ refreshTimer' = DefaultInterval
  /\ crossed' = {"config"}
  /\ UNCHANGED <<server, lost>>

-----------------------------------------------------------------------------
(* The collector. *)
Publish == /\ version < MaxVersion
           /\ version' = version + 1
           /\ UNCHANGED <<filter, net, faults, button, shown, tab, rows, refresh, crossed>>

-----------------------------------------------------------------------------
(* The endpoints. *)

(* Fault: the answer is the summaries before the last publication. *)
ServeLiveBehind(i) ==
  /\ Unserved(i, "live")
  /\ net' = [net EXCEPT ![i].served = TRUE,
                        ![i].version = IF version = 0 THEN 0 ELSE version - 1]
  /\ UNCHANGED <<server, faults, button, shown, tab, rows, refresh, crossed>>

ServeLive(i) ==
  /\ Unserved(i, "live")
  /\ net' = [net EXCEPT ![i].served = TRUE, ![i].version = version]
  /\ UNCHANGED <<server, faults, button, shown, tab, rows, refresh, crossed>>

ServeHistory(i) ==
  /\ Unserved(i, "history")
  /\ net' = [net EXCEPT ![i].served = TRUE]
  /\ UNCHANGED <<server, faults, button, shown, tab, rows, refresh, crossed>>

(* Fault: the filter is not stored. *)
ServeConfigIgnored(i) ==
  /\ Unserved(i, "config")
  /\ net' = [net EXCEPT ![i].served = TRUE]
  /\ UNCHANGED <<server, faults, button, shown, tab, rows, refresh, crossed>>

(* update_config stores the filter; it then raises on config.poll_interval   *)
(* and the page gets a 500, which it does not look at.                       *)
ServeConfig(i) ==
  /\ Unserved(i, "config")
  /\ filter' = net[i].arg
  /\ net' = [net EXCEPT ![i].served = TRUE]
  /\ UNCHANGED <<version, faults, button, shown, tab, rows, refresh, crossed>>

(* A connection breaks, before or after the request is served. *)
Lose(i) == /\ net[i] # Free /\ lost < MaxLost
           /\ lost' = lost + 1
           /\ net' = [net EXCEPT ![i] = Free]
           /\ crossed' = crossed \union ({net[i].kind} \intersect Clicks)
           /\ UNCHANGED <<server, reloads, button, shown, tab, rows, refresh>>

(* The same for a click that is not this page's, but was made in another     *)
(* page of the same server, or in this one before it was reloaded; one that  *)
(* names the filter in use changes nothing.                                  *)
Elsewhere(f) ==
  /\ f # filter
  /\ filter' = f
  /\ crossed' = crossed \union {"config"}
  /\ UNCHANGED <<version, net, faults, button, shown, tab, rows, refresh>>

-----------------------------------------------------------------------------
(* The page: what starts a request. *)
Send(i, k, a) == net[i] = Free /\ net' = [net EXCEPT ![i] = Request(k, a)]
Click(i, k, a) == /\ Send(i, k, a)
                  /\ crossed' = IF Pending(k) THEN crossed \union {k} ELSE crossed \ {k}

(* setInterval(fetchLiveMetrics, refreshInterval) *)
LiveTimer(i) == /\ timers # {}
                /\ Send(i, "live", NoArg)
                /\ UNCHANGED <<server, faults, button, shown, tab, rows, refresh, crossed>>

(* setProtocolFilter, up to its await. *)
SetProtocolFilter(i, f) == /\ button' = f
                           /\ Click(i, "config", f)
                           /\ UNCHANGED <<server, faults, shown, tab, rows, refresh>>

(* loadHistory, up to its await. *)
LoadHistory(i, w) == /\ tab' = w
                     /\ Click(i, "history", w)
                     /\ UNCHANGED <<server, faults, button, shown, rows, refresh>>

(* Faults: a pause is an interval of 0; the old interval is not cleared.     *)
UpdateRefreshIntervalZero(v) ==
  /\ timers' = (timers \ {refreshTimer}) \union {v}
  /\ refreshTimer' = IF v = "pause" THEN refreshTimer ELSE v
  /\ UNCHANGED <<server, net, faults, button, shown, tab, rows, crossed>>

UpdateRefreshIntervalAdds(v) ==
  /\ timers' = (timers \union {v}) \ {"pause"}
  /\ refreshTimer' = v
  /\ UNCHANGED <<server, net, faults, button, shown, tab, rows, crossed>>

(* updateRefreshInterval: the remembered timer is cleared, running or not,   *)
(* and a pause leaves it remembered.                                         *)
UpdateRefreshInterval(v) ==
  /\ timers' = (timers \ {refreshTimer}) \union ({v} \ {"pause"})
  /\ refreshTimer' = IF v = "pause" THEN refreshTimer ELSE v
  /\ UNCHANGED <<server, net, faults, button, shown, tab, rows, crossed>>

-----------------------------------------------------------------------------
(* The page: what an answer does.  The handler's next request, if any, takes *)
(* the place of the one answered.                                            *)
Arrives(i, k) == net[i].kind = k /\ net[i].served
Done(i)    == net' = [net EXCEPT ![i] = Free] /\ UNCHANGED crossed
Then(i, k) == net' = [net EXCEPT ![i] = Request(k, NoArg)] /\ UNCHANGED crossed

LiveArrives(i) ==
  /\ Arrives(i, "live") /\ Done(i)
  /\ shown' = net[i].version
  /\ UNCHANGED <<server, faults, button, tab, rows, refresh>>

ConfigArrives(i) ==
  /\ Arrives(i, "config") /\ Then(i, "live")
  /\ UNCHANGED <<server, faults, button, shown, tab, rows, refresh>>

(* Fault: the rows of the first tab are loaded whatever tab was clicked. *)
HistoryArrivesDefault(i) ==
  /\ Arrives(i, "history") /\ Done(i)
  /\ rows' = DefaultTab
  /\ UNCHANGED <<server, faults, button, shown, tab, refresh>>

HistoryArrives(i) ==
  /\ Arrives(i, "history") /\ Done(i)
  /\ rows' = net[i].arg
  /\ UNCHANGED <<server, faults, button, shown, tab, refresh>>

Serve(i) == ServeLive(i) \/ ServeHistory(i) \/ ServeConfig(i)
Handle(i) == \/ LiveArrives(i) \/ ConfigArrives(i) \/ HistoryArrives(i)

Next == \/ Publish
        \/ \E v \in Intervals \union {"pause"} : UpdateRefreshInterval(v)
        \/ \E i, j \in Slots : Reload(i, j)
        \/ \E f \in Filters : Elsewhere(f)
        \/ \E i \in Slots : \/ Serve(i) \/ Handle(i) \/ Lose(i)
                            \/ LiveTimer(i)
                            \/ \E f \in Filters : SetProtocolFilter(i, f)
                            \/ \E w \in Windows : LoadHistory(i, w)

Spec == Init /\ [][Next]_vars

(* The server answers, handlers run, and a timer that keeps running fires    *)
(* again and again even if clicks keep taking the free connections.          *)
FairSpec == /\ Spec
            /\ \A i \in Slots : WF_vars(Serve(i)) /\ WF_vars(Handle(i))
            /\ SF_vars(\E i \in Slots : LiveTimer(i))

-----------------------------------------------------------------------------
TypeOK ==
  /\ version \in 0 .. MaxVersion /\ filter \in Filters
  /\ net \in [Slots -> [kind : Kinds \union {"free"},
                        arg : Filters \union Windows \union {NoArg},
                        served : BOOLEAN, version : 0 .. MaxVersion]]
  /\ lost \in 0 .. MaxLost /\ reloads \in 0 .. MaxReloads
  /\ button \in Filters /\ shown \in 0 .. MaxVersion
  /\ tab \in Windows /\ rows \in Windows \union {NoArg}
  /\ timers \subseteq Intervals /\ refreshTimer \in Intervals
  /\ crossed \subseteq Clicks

(* However often the interval is changed or paused, at most one live timer   *)
(* runs, and it is the one the next change will clear.                       *)
OneTimer == timers \subseteq {refreshTimer}

(* The collector uses the filter of the highlighted button once the last     *)
(* click on one is answered, provided it was made alone, was not lost, and   *)
(* was made since the page was loaded and since another page's was served:   *)
(* the page itself does not see to it, and until then may show ALL of what   *)
(* the collector still filters.                                              *)
ButtonIsFilter == ~Pending("config") /\ "config" \notin crossed => filter = button

(* The history table shows the window of the highlighted tab once the last   *)
(* click on one, or the load of the page, is answered, on the condition that *)
(* it was alone and not lost.                                                *)
TabIsWindow == ~Pending("history") /\ "history" \notin crossed => rows = tab

(* "Live auto-refresh" (README): a page that is not paused ends up showing   *)
(* what the collector last published, though answers overtake each other.    *)
ShowsLatest == <>[](timers # {}) => <>[](shown = version)
=============================================================================
