------------------------- MODULE WebDashboard_proofs -------------------------
(***************************************************************************)
(* Proofs about the page, for any number of requests in flight, any tabs   *)
(* and intervals, any publications, losses, reloads and other pages.       *)
(***************************************************************************)
EXTENDS WebDashboard, TLAPS

-----------------------------------------------------------------------------
(* The refresh timer. *)

(* However often the interval is changed or paused, at most one timer runs,  *)
(* the one that updateRefreshInterval clears next.                           *)
THEOREM AtMostOneTimer == Spec => []OneTimer
<1>1. Init => OneTimer
  BY DEF Init, OneTimer
<1>2. OneTimer /\ [Next]_vars => OneTimer'
  <2>. SUFFICES ASSUME OneTimer, [Next]_vars
                PROVE  OneTimer'
    OBVIOUS
  <2>1. ASSUME NEW v \in Intervals \union {"pause"}, UpdateRefreshInterval(v)
        PROVE  OneTimer'
    BY <2>1 DEF OneTimer, UpdateRefreshInterval
  <2>2. CASE UNCHANGED refresh
    BY <2>2 DEF OneTimer, refresh
  <2>3. ASSUME NEW i \in Slots, NEW j \in Slots, Reload(i, j)
        PROVE  OneTimer'
    BY <2>3 DEF OneTimer, Reload
  <2>4. \/ \E v \in Intervals \union {"pause"} : UpdateRefreshInterval(v)
        \/ \E i, j \in Slots : Reload(i, j)
        \/ UNCHANGED refresh
    BY DEF Next, vars, refresh, Publish, Serve, ServeLive, ServeHistory, ServeConfig,
           Handle, LiveArrives, ConfigArrives, HistoryArrives, Lose, LiveTimer,
           SetProtocolFilter, LoadHistory, Elsewhere
  <2>. QED BY <2>1, <2>2, <2>3, <2>4
<1>. QED BY <1>1, <1>2, PTL DEF Spec

-----------------------------------------------------------------------------
(* What requests carry. *)

(* A request carries what its kind asks for, and a free slot nothing.        *)
Requests == [kind : Kinds \union {"free"}, arg : Filters \union Windows \union {NoArg},
             served : BOOLEAN, version : 0 .. MaxVersion]
Good(r) == /\ r \in Requests
           /\ r.kind = "config" => r.arg \in Filters
           /\ r.kind = "history" => r.arg \in Windows
           /\ r.kind = "free" => r = Free
NetOK == /\ net \in [Slots -> Requests]
         /\ \A i \in Slots : Good(net[i])

(* The rest of TypeOK. *)
PageOK == /\ version \in 0 .. MaxVersion /\ filter \in Filters
          /\ lost \in 0 .. MaxLost /\ reloads \in 0 .. MaxReloads
          /\ button \in Filters /\ shown \in 0 .. MaxVersion
          /\ tab \in Windows /\ rows \in Windows \union {NoArg}
          /\ timers \subseteq Intervals /\ refreshTimer \in Intervals
          /\ crossed \subseteq Clicks

Typed == NetOK /\ PageOK

LEMMA NewRequestGood ==
  ASSUME NEW k \in Kinds, NEW a \in Filters \union Windows \union {NoArg},
         k = "config" => a \in Filters, k = "history" => a \in Windows
  PROVE  Good(Request(k, a))
BY DashboardAssumption DEF Good, Requests, Request, Kinds

LEMMA FreeGood == Good(Free)
BY DashboardAssumption DEF Good, Requests, Request, Free, Kinds

LEMMA PutKeepsNet ==
  ASSUME NEW i \in Slots, NEW r, NetOK, Good(r), net' = [net EXCEPT ![i] = r]
  PROVE  NetOK'
BY DEF NetOK, Good

(* An answer is the request, served, with the version it was made from.      *)
LEMMA AnswerGood ==
  ASSUME NEW r, NEW v \in 0 .. MaxVersion, Good(r), r.kind # "free"
  PROVE  /\ Good([r EXCEPT !.served = TRUE])
         /\ Good([r EXCEPT !.served = TRUE, !.version = v])
BY DEF Good, Requests

(* The fetches of a page that starts. *)
LEMMA FetchesGood ==
  ASSUME NEW i \in Slots, NEW j \in Slots
  PROVE  /\ Fetches(i, j) \in [Slots -> Requests]
         /\ \A s \in Slots : Good(Fetches(i, j)[s])
<1>1. Good(Request("live", NoArg)) /\ Good(Request("history", DefaultTab)) /\ Good(Free)
  BY NewRequestGood, FreeGood, DashboardAssumption DEF Kinds
<1>2. \A s \in Slots : Good(Fetches(i, j)[s])
  BY <1>1 DEF Fetches
<1>. QED BY <1>2 DEF Fetches, Good

LEMMA TypeInit == Init => Typed
<1>. SUFFICES ASSUME Init PROVE Typed
  OBVIOUS
<1>1. PageOK
  BY DashboardAssumption DEF Init, PageOK, Filters
<1>2. PICK i \in Slots, j \in Slots : net = Fetches(i, j)
  BY DEF Init
<1>3. NetOK
  BY <1>2, FetchesGood DEF NetOK
<1>. QED BY <1>1, <1>3 DEF Typed

LEMMA ReloadTyped ==
  ASSUME Typed, NEW i \in Slots, NEW j \in Slots, Reload(i, j)
  PROVE  Typed'
<1>1. NetOK'
  BY FetchesGood DEF Reload, NetOK
<1>2. PageOK'
  BY DashboardAssumption DEF Reload, Typed, PageOK, Filters, Clicks, server
<1>. QED BY <1>1, <1>2 DEF Typed

LEMMA ServeTyped ==
  ASSUME Typed, NEW i \in Slots, Serve(i)
  PROVE  Typed'
<1>1. Good(net[i]) /\ net[i].kind # "free" /\ version \in 0 .. MaxVersion
  BY DEF Typed, NetOK, PageOK, Serve, ServeLive, ServeHistory, ServeConfig, Unserved
<1>2. /\ Good([net[i] EXCEPT !.served = TRUE])
      /\ Good([net[i] EXCEPT !.served = TRUE, !.version = version])
  BY <1>1, AnswerGood
<1>3. \/ net' = [net EXCEPT ![i] = [net[i] EXCEPT !.served = TRUE]]
      \/ net' = [net EXCEPT ![i] = [net[i] EXCEPT !.served = TRUE, !.version = version]]
  <2>1. CASE ServeLive(i)      BY <2>1, <1>1 DEF ServeLive, Typed, NetOK, Good, Requests
  <2>2. CASE ServeHistory(i)   BY <2>2, <1>1 DEF ServeHistory, Typed, NetOK
  <2>3. CASE ServeConfig(i)    BY <2>3, <1>1 DEF ServeConfig, Typed, NetOK
  <2>. QED BY <2>1, <2>2, <2>3 DEF Serve
<1>4. NetOK'
  BY <1>2, <1>3, PutKeepsNet DEF Typed
<1>5. PageOK'
  BY <1>1 DEF Typed, PageOK, Good, Serve, ServeLive, ServeHistory, ServeConfig, Unserved,
              server, refresh, faults
<1>. QED BY <1>4, <1>5 DEF Typed

LEMMA HandleTyped ==
  ASSUME Typed, NEW i \in Slots, Handle(i)
  PROVE  Typed'
<1>1. Good(net[i]) /\ Good(Free) /\ Good(Request("live", NoArg))
  BY NewRequestGood, FreeGood DEF Typed, NetOK, Kinds
<1>2. \/ net' = [net EXCEPT ![i] = Free]
      \/ net' = [net EXCEPT ![i] = Request("live", NoArg)]
  BY DEF Handle, LiveArrives, ConfigArrives, HistoryArrives, Done, Then
<1>3. NetOK'
  BY <1>1, <1>2, PutKeepsNet DEF Typed
<1>4. PageOK'
  <2>1. CASE LiveArrives(i)
    BY <2>1, <1>1 DEF LiveArrives, Done, Typed, PageOK, Good, Requests, server, refresh,
                    faults
  <2>2. CASE ConfigArrives(i)
    BY <2>2 DEF ConfigArrives, Then, Typed, PageOK, Kinds, server, refresh, faults
  <2>3. CASE HistoryArrives(i)
    BY <2>3, <1>1 DEF HistoryArrives, Arrives, Done, Typed, PageOK, Good, server, refresh,
                    faults
  <2>. QED BY <2>1, <2>2, <2>3 DEF Handle
<1>. QED BY <1>3, <1>4 DEF Typed

LEMMA LoseTyped ==
  ASSUME Typed, NEW i \in Slots, Lose(i)
  PROVE  Typed'
<1>1. NetOK'
  BY FreeGood, PutKeepsNet DEF Lose, Typed
<1>2. PageOK'
  BY DashboardAssumption DEF Lose, Typed, PageOK, server, refresh
<1>. QED BY <1>1, <1>2 DEF Typed

LEMMA ElsewhereTyped ==
  ASSUME Typed, NEW f \in Filters, Elsewhere(f)
  PROVE  Typed'
BY DEF Elsewhere, Typed, NetOK, Good, PageOK, Clicks, refresh, faults

(* Clicks and the timer. *)
LEMMA SendTyped ==
  ASSUME Typed, NEW i \in Slots, NEW k \in Kinds,
         NEW a \in Filters \union Windows \union {NoArg},
         k = "config" => a \in Filters, k = "history" => a \in Windows, Send(i, k, a)
  PROVE  NetOK'
<1>1. Good(Request(k, a))
  BY NewRequestGood
<1>. QED BY <1>1, PutKeepsNet DEF Send, Typed

LEMMA TypeNext == Typed /\ [Next]_vars => Typed'
<1>. SUFFICES ASSUME Typed, [Next]_vars
              PROVE  Typed'
  OBVIOUS
<1>1. CASE Publish
  BY <1>1, DashboardAssumption DEF Publish, Typed, PageOK, NetOK, Good, refresh, faults
<1>2. ASSUME NEW v \in Intervals \union {"pause"}, UpdateRefreshInterval(v)
      PROVE  Typed'
  BY <1>2 DEF UpdateRefreshInterval, Typed, PageOK, NetOK, Good, server, faults
<1>3. ASSUME NEW i \in Slots, LiveTimer(i)
      PROVE  Typed'
  <2>1. NetOK'
    BY <1>3, SendTyped DEF LiveTimer, Kinds
  <2>. QED BY <2>1, <1>3 DEF LiveTimer, Typed, PageOK, server, refresh, faults
<1>4. ASSUME NEW i \in Slots, NEW f \in Filters, SetProtocolFilter(i, f)
      PROVE  Typed'
  <2>1. NetOK'
    BY <1>4, SendTyped DEF SetProtocolFilter, Click, Kinds
  <2>. QED BY <2>1, <1>4 DEF SetProtocolFilter, Click, Clicks, Typed, PageOK, server,
                        refresh, faults
<1>5. ASSUME NEW i \in Slots, NEW w \in Windows, LoadHistory(i, w)
      PROVE  Typed'
  <2>1. NetOK'
    BY <1>5, SendTyped DEF LoadHistory, Click, Kinds
  <2>. QED BY <2>1, <1>5 DEF LoadHistory, Click, Clicks, Typed, PageOK, server, refresh,
                        faults
<1>6. CASE UNCHANGED vars
  BY <1>6 DEF vars, Typed, PageOK, NetOK, Good, server, refresh, faults
<1>. QED BY <1>1, <1>2, <1>3, <1>4, <1>5, <1>6, ServeTyped, HandleTyped, LoseTyped,
            ElsewhereTyped, ReloadTyped DEF Next

(* Type correctness of the page and its server. *)
THEOREM TypeCorrect == Spec => []TypeOK
<1>1. Typed => TypeOK
  BY DEF Typed, NetOK, PageOK, Requests, TypeOK
<1>. QED BY <1>1, TypeInit, TypeNext, PTL DEF Spec

-----------------------------------------------------------------------------
(* Button and filter, tab and rows. *)

(* At most one request of a kind is in flight. *)
Alone(k) == \A i, j \in Slots : net[i].kind = k /\ net[j].kind = k => i = j

(* Unless the last click was crossed, lost or another page's, a click under  *)
(* way is that one, and its effect is there once it is served (config) *)
(* or has arrived (history).                                                 *)
LastClick == "config" \notin crossed =>
               /\ Alone("config")
               /\ \A i \in Slots : net[i].kind = "config" =>
                    /\ net[i].arg = button
                    /\ net[i].served => filter = button
               /\ ~Pending("config") => filter = button

LastTab == "history" \notin crossed =>
             /\ Alone("history")
             /\ \A i \in Slots : net[i].kind = "history" => net[i].arg = tab
             /\ ~Pending("history") => rows = tab

Agree == LastClick /\ LastTab

LEMMA AgreeInit == Init => Agree
BY DEF Init, Fetches, Agree, LastClick, LastTab, Alone, Pending, Request, Free

(* A page that starts claims no click, and has its first tab under way. *)
LEMMA ReloadAgrees ==
  ASSUME Typed, Agree, NEW i \in Slots, NEW j \in Slots, Reload(i, j)
  PROVE  Agree'
<1>1. LastClick'
  BY DEF Reload, LastClick
<1>2. /\ i # j /\ net' = Fetches(i, j) /\ tab' = DefaultTab
  BY DEF Reload
<1>3. /\ net'[j].kind = "history" /\ net'[j].arg = tab'
      /\ \A s \in Slots \ {j} : net'[s].kind # "history"
  BY <1>2 DEF Fetches, Request, Free
<1>4. LastTab'
  BY <1>3 DEF LastTab, Alone, Pending
<1>. QED BY <1>1, <1>4 DEF Agree

(* Another page's click leaves this page's tab alone. *)
LEMMA ElsewhereAgrees ==
  ASSUME Typed, Agree, NEW f \in Filters, Elsewhere(f)
  PROVE  Agree'
<1>1. crossed' = crossed \union {"config"} /\ UNCHANGED <<net, tab, rows>>
  BY DEF Elsewhere
<1>2. LastClick'
  BY <1>1 DEF LastClick
<1>3. LastTab'
  BY <1>1 DEF Agree, LastTab, Alone, Pending
<1>. QED BY <1>2, <1>3 DEF Agree

(* A slot that serves, answers or forgets. *)
LEMMA ServeAgrees ==
  ASSUME Typed, Agree, NEW i \in Slots, Serve(i)
  PROVE  Agree'
<1>1. /\ \A j \in Slots \ {i} : net'[j] = net[j]
      /\ net'[i].kind = net[i].kind /\ net'[i].arg = net[i].arg
      /\ UNCHANGED <<crossed, button, tab, rows>>
      /\ filter' = IF net[i].kind = "config" THEN net[i].arg ELSE filter
  <2>1. net \in [Slots -> Requests]
    BY DEF Typed, NetOK
  <2>2. CASE ServeLive(i)
    BY <2>1, <2>2 DEF ServeLive, Unserved, Requests, server
  <2>3. CASE ServeHistory(i)
    BY <2>1, <2>3 DEF ServeHistory, Unserved, Requests, server
  <2>4. CASE ServeConfig(i)
    BY <2>1, <2>4 DEF ServeConfig, Unserved, Requests
  <2>. QED BY <2>2, <2>3, <2>4 DEF Serve
<1>2. LastClick'
  BY <1>1 DEF Agree, LastClick, Alone, Pending
<1>3. LastTab'
  BY <1>1 DEF Agree, LastTab, Alone, Pending
<1>. QED BY <1>2, <1>3 DEF Agree

LEMMA HandleAgrees ==
  ASSUME Typed, Agree, NEW i \in Slots, Handle(i)
  PROVE  Agree'
<1>1. /\ \A j \in Slots \ {i} : net'[j] = net[j]
      /\ net'[i].kind \notin {"config", "history"}
      /\ UNCHANGED <<button, filter, tab>>
      /\ crossed' = crossed
      /\ net[i].kind = "config" => net[i].served
      /\ net[i].kind = "history" => rows' = net[i].arg
      /\ net[i].kind # "history" => rows' = rows
  <2>1. net \in [Slots -> Requests]
    BY DEF Typed, NetOK
  <2>2. CASE LiveArrives(i)
    BY <2>1, <2>2 DEF LiveArrives, Arrives, Done, Free, Request, server
  <2>3. CASE ConfigArrives(i)
    BY <2>1, <2>3 DEF ConfigArrives, Arrives, Then, Request, server
  <2>4. CASE HistoryArrives(i)
    BY <2>1, <2>4 DEF HistoryArrives, Arrives, Done, Free, Request, server
  <2>. QED BY <2>2, <2>3, <2>4 DEF Handle
<1>2. LastClick'
  BY <1>1 DEF Agree, LastClick, Alone, Pending
<1>3. LastTab'
  BY <1>1 DEF Agree, LastTab, Alone, Pending
<1>. QED BY <1>2, <1>3 DEF Agree

LEMMA LoseAgrees ==
  ASSUME Typed, Agree, NEW i \in Slots, Lose(i)
  PROVE  Agree'
<1>1. /\ \A j \in Slots \ {i} : net'[j] = net[j]
      /\ net'[i].kind = "free"
      /\ UNCHANGED <<button, filter, tab, rows>>
      /\ crossed' = crossed \union ({net[i].kind} \intersect {"config", "history"})
  BY DEF Lose, Clicks, Typed, NetOK, Free, Request, server
<1>2. LastClick'
  BY <1>1 DEF Agree, LastClick, Alone, Pending
<1>3. LastTab'
  BY <1>1 DEF Agree, LastTab, Alone, Pending
<1>. QED BY <1>2, <1>3 DEF Agree

(* What a request that is sent does to the slots. *)
LEMMA SendMoves ==
  ASSUME Typed, NEW i \in Slots, NEW k \in Kinds,
         NEW a \in Filters \union Windows \union {NoArg}, Send(i, k, a)
  PROVE  /\ net[i].kind = "free" /\ net'[i].kind = k /\ net'[i].arg = a
         /\ ~net'[i].served
         /\ \A j \in Slots \ {i} : net'[j] = net[j]
<1>1. net[i].kind = "free" /\ net' = [net EXCEPT ![i] = Request(k, a)]
  BY DEF Send, Free, Request
<1>2. /\ net'[i] = Request(k, a)
      /\ \A j \in Slots \ {i} : net'[j] = net[j]
  BY <1>1 DEF Typed, NetOK
<1>. QED BY <1>1, <1>2 DEF Request

LEMMA LiveTimerAgrees ==
  ASSUME Typed, Agree, NEW i \in Slots, LiveTimer(i)
  PROVE  Agree'
<1>1. Send(i, "live", NoArg) /\ UNCHANGED <<button, filter, tab, rows, crossed>>
  BY DEF LiveTimer, server
<1>2. /\ net[i].kind = "free" /\ net'[i].kind = "live"
      /\ \A j \in Slots \ {i} : net'[j] = net[j]
  BY <1>1, SendMoves DEF Kinds
<1>3. LastClick'
  BY <1>1, <1>2 DEF Agree, LastClick, Alone, Pending
<1>4. LastTab'
  BY <1>1, <1>2 DEF Agree, LastTab, Alone, Pending
<1>. QED BY <1>3, <1>4 DEF Agree

(* A click made while none of its kind is in flight is the only one.         *)
LEMMA ClickAgrees ==
  ASSUME Typed, Agree, NEW i \in Slots, NEW f \in Filters, SetProtocolFilter(i, f)
  PROVE  Agree'
<1>1. /\ Send(i, "config", f) /\ button' = f /\ UNCHANGED <<filter, tab, rows>>
      /\ crossed' = IF Pending("config") THEN crossed \union {"config"}
                    ELSE crossed \ {"config"}
  BY DEF SetProtocolFilter, Click, server
<1>2. /\ net[i].kind = "free" /\ net'[i].kind = "config" /\ net'[i].arg = f
      /\ ~net'[i].served
      /\ \A j \in Slots \ {i} : net'[j] = net[j]
  BY <1>1, SendMoves DEF Kinds
<1>3. LastClick'
  BY <1>1, <1>2 DEF LastClick, Alone, Pending
<1>4. LastTab'
  BY <1>1, <1>2 DEF Agree, LastTab, Alone, Pending
<1>. QED BY <1>3, <1>4 DEF Agree

LEMMA TabAgrees ==
  ASSUME Typed, Agree, NEW i \in Slots, NEW w \in Windows, LoadHistory(i, w)
  PROVE  Agree'
<1>1. /\ Send(i, "history", w) /\ tab' = w /\ UNCHANGED <<filter, button, rows>>
      /\ crossed' = IF Pending("history") THEN crossed \union {"history"}
                    ELSE crossed \ {"history"}
  BY DEF LoadHistory, Click, server
<1>2. /\ net[i].kind = "free" /\ net'[i].kind = "history" /\ net'[i].arg = w
      /\ ~net'[i].served
      /\ \A j \in Slots \ {i} : net'[j] = net[j]
  BY <1>1, SendMoves DEF Kinds
<1>3. LastClick'
  BY <1>1, <1>2 DEF Agree, LastClick, Alone, Pending
<1>4. LastTab'
  BY <1>1, <1>2 DEF LastTab, Alone, Pending
<1>. QED BY <1>3, <1>4 DEF Agree

LEMMA AgreeNext == Typed /\ Agree /\ [Next]_vars => Agree'
<1>. SUFFICES ASSUME Typed, Agree, [Next]_vars
              PROVE  Agree'
  OBVIOUS
<1>1. CASE UNCHANGED <<net, crossed, button, filter, tab, rows>>
  BY <1>1 DEF Agree, LastClick, LastTab, Alone, Pending
<1>2. CASE Publish \/ (\E v \in Intervals \union {"pause"} : UpdateRefreshInterval(v))
           \/ UNCHANGED vars
  BY <1>1, <1>2 DEF Publish, UpdateRefreshInterval, vars, server
<1>. QED BY <1>2, ServeAgrees, HandleAgrees, LoseAgrees, LiveTimerAgrees, ClickAgrees,
            TabAgrees, ReloadAgrees, ElsewhereAgrees DEF Next

(* The collector filters by the highlighted button once the last click is    *)
(* answered (setProtocolFilter, update_config), unless it crossed another,   *)
(* was lost, or the page was loaded or another page clicked since: then the  *)
(* filter is what others have left, whatever button is highlighted.          *)
THEOREM FilterFollowsButton == Spec => []ButtonIsFilter
<1>1. Agree => ButtonIsFilter
  BY DEF Agree, LastClick, ButtonIsFilter
<1>. QED BY <1>1, TypeInit, TypeNext, AgreeInit, AgreeNext, PTL DEF Spec

(* The history table shows the window of the highlighted tab (loadHistory),  *)
(* on the same condition.                                                    *)
THEOREM RowsFollowTab == Spec => []TabIsWindow
<1>1. Agree => TabIsWindow
  BY DEF Agree, LastTab, TabIsWindow
<1>. QED BY <1>1, TypeInit, TypeNext, AgreeInit, AgreeNext, PTL DEF Spec
=============================================================================
