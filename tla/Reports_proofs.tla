--------------------------- MODULE Reports_proofs ---------------------------
(***************************************************************************)
(* Proofs about Reports, for any trackers, flows and bounds: that rates    *)
(* are taken over the time that really passed; that rows, session maps and *)
(* remote addresses keep telling of the same flows; and so, of the three   *)
(* queries, that what they add up is what the live tables add up.          *)
(***************************************************************************)
EXTENDS Reports, AggregatorLemmas

-----------------------------------------------------------------------------
(* Rates. *)

(* The clock and what is measured with it are numbers. *)
ClockOK == /\ clock \in Int
           /\ last \in [Trackers -> Int] /\ since \in [Trackers -> Nat]
           /\ jumped \in [Trackers -> BOOLEAN]
           /\ DOMAIN shown = Trackers

(* The time of a tracker's last poll is as far behind the clock as time has  *)
(* passed since, unless the clock was set meanwhile.                         *)
Measured == \A t \in Trackers : jumped[t] \/ clock = last[t] + since[t]

IInv == ClockOK /\ Measured /\ RatesOfInterval

LEMMA InitMeasures == Init => IInv
BY ReportsAssumption DEF Init, IInv, ClockOK, Measured, RatesOfInterval, Unseen

(* Time that passes is counted on both sides. *)
LEMMA TickMeasures == IInv /\ Tick => IInv'
BY DEF IInv, ClockOK, Measured, RatesOfInterval, Tick

(* A clock that is set back marks every interval that is under way. *)
LEMMA StepBackMeasures == IInv /\ StepBack => IInv'
BY DEF IInv, ClockOK, Measured, RatesOfInterval, StepBack

(* A poll that notes the time starts an interval of its own, whether its     *)
(* insert goes well or not.                                                  *)
LEMMA PollMeasures ==
  ASSUME NEW t \in Trackers, IInv, Poll(t), last' = [last EXCEPT ![t] = clock],
         clock' = clock, DOMAIN shown' = Trackers
  PROVE  ClockOK' /\ Measured'
BY DEF IInv, ClockOK, Measured, Poll

(* The interval the program takes is the time that passed, unless the clock  *)
(* was set.                                                                  *)
LEMMA ElapsedIsReal ==
  ASSUME NEW t \in Trackers, ClockOK, Measured, ~jumped[t]
  PROVE  Elapsed(t) = since[t]
BY DEF ClockOK, Measured, Elapsed

LEMMA CycleMeasures ==
  ASSUME NEW t \in Trackers, IInv, Cycle(t)
  PROVE  IInv'
<1>1. /\ DOMAIN shown' = Trackers
      /\ \A u \in Trackers \ {t} : shown'[u] = shown[u]
      /\ shown'[t] = [over |-> Elapsed(t), real |-> since[t], jumped |-> jumped[t]]
  BY DEF IInv, ClockOK, Cycle
<1>2. ClockOK' /\ Measured'
  <2>1. Poll(t) /\ last' = [last EXCEPT ![t] = clock] /\ clock' = clock
    BY DEF Cycle, time
  <2>. QED BY <1>1, <2>1, PollMeasures
<1>3. RatesOfInterval'
  <2>1. jumped[t] \/ Elapsed(t) = since[t]
    BY ElapsedIsReal DEF IInv
  <2>2. ASSUME NEW u \in Trackers
        PROVE  shown'[u].jumped \/ shown'[u].over = shown'[u].real
    <3>1. CASE u = t   BY <1>1, <2>1, <3>1
    <3>2. CASE u # t   BY <1>1, <3>2 DEF IInv, RatesOfInterval
    <3>. QED BY <3>1, <3>2
  <2>. QED BY <2>2 DEF RatesOfInterval
<1>. QED BY <1>2, <1>3 DEF IInv

LEMMA CycleFailsMeasures ==
  ASSUME NEW t \in Trackers, IInv, CycleFails(t)
  PROVE  IInv'
<1>1. /\ Poll(t) /\ last' = [last EXCEPT ![t] = clock]
      /\ UNCHANGED <<clock, shown>>
  BY DEF CycleFails, time
<1>2. DOMAIN shown' = Trackers
  BY <1>1 DEF IInv, ClockOK
<1>3. ClockOK' /\ Measured'
  BY <1>1, <1>2, PollMeasures
<1>. QED BY <1>1, <1>3 DEF IInv, RatesOfInterval

(* Traffic, the page and stuttering leave clock and measures alone. *)
LEMMA OthersMeasure ==
  ASSUME IInv, UNCHANGED <<time, tracker>>
  PROVE  IInv'
BY DEF IInv, ClockOK, Measured, RatesOfInterval, time, tracker, meters

LEMMA StepMeasures == IInv /\ [Next]_vars => IInv'
<1>. SUFFICES ASSUME IInv, [Next]_vars
              PROVE  IInv'
  OBVIOUS
<1>1. CASE Tick       BY <1>1, TickMeasures
<1>2. CASE StepBack   BY <1>2, StepBackMeasures
<1>3. CASE \E m \in Metrics : Raise(m)
  BY <1>3, OthersMeasure DEF Raise
<1>4. CASE \E t \in Trackers : Cycle(t) \/ CycleFails(t)
  BY <1>4, CycleMeasures, CycleFailsMeasures
<1>5. CASE LoadProtocolStats
  BY <1>5, OthersMeasure DEF LoadProtocolStats, LoadStats, StatsArrive
<1>6. CASE UNCHANGED vars
  BY <1>6, OthersMeasure DEF vars
<1>. QED BY <1>1, <1>2, <1>3, <1>4, <1>5, <1>6 DEF Next

(* The rates any tracker shows are over the time that really passed between  *)
(* its last two polls (elapsed_sec in main.py and web.py), also when the     *)
(* first of these failed to store its batch, unless the clock was set        *)
(* between the two.                                                          *)
THEOREM RatesOverRealTime == Spec => []RatesOfInterval
<1>1. IInv => RatesOfInterval
  BY DEF IInv
<1>. QED BY <1>1, InitMeasures, StepMeasures, PTL DEF Spec

-----------------------------------------------------------------------------
(* Rows and sessions: the inductive invariant. *)

(* The rows of all inserts that returned or stored something; the flows of   *)
(* those a tracker has summarised, and those of a process among some.        *)
AllRows  == DOMAIN stored \union undone
Kept(t)  == {r.flow : r \in {q \in Acknowledged : q.by = t}}
Of(p, S) == {m \in S : PidOf[m] = p}

(* The clock is as far from its start as time has passed less the steps back *)
(* made.                                                                     *)
Bounds == /\ ticks \in 0 .. MaxTicks /\ steps \in 0 .. MaxSteps
          /\ clock = Start + ticks - steps /\ failed \in 0 .. MaxFailed
          /\ last \in [Trackers -> 0 .. Start + MaxTicks]
          /\ mock \in [Trackers -> BOOLEAN]
          /\ load \in {Idle} \union SUBSET {"TCP", "UDP"}

(* What a row tells of itself, and that its flow is not before its tracker   *)
(* again.                                                                    *)
RowOK(r) == /\ r.n \in Nat \ {0} /\ r.by \in Trackers /\ r.flow \in raised
            /\ r.dst = DstIp(mock[r.by], r.flow)
            /\ r.flow \notin pending[r.by]

(* Whatever an insert does, a tracker makes one row of a flow.               *)
FlowsOK == /\ raised \subseteq Metrics /\ pending \in [Trackers -> SUBSET raised]
           /\ \A r \in AllRows : RowOK(r)
           /\ \A q, r \in AllRows : q.by = r.by /\ q.flow = r.flow => q = r
           /\ residue \subseteq DOMAIN stored
           /\ undone \intersect DOMAIN stored = {}

(* A session map has an entry per process of the flows summarised, and the   *)
(* entry tells what these flows tell.                                        *)
EntryOK(t, p) ==
  /\ Tallies(session[t][p], Of(p, Kept(t)))
  /\ ips[t][p] = UNION {RemoteIp(mock[t], m) : m \in Of(p, Kept(t))}
SessionOK(t) == /\ DOMAIN session[t] = {PidOf[m] : m \in Kept(t)}
                /\ DOMAIN ips[t] = DOMAIN session[t]
                /\ \A p \in DOMAIN session[t] : EntryOK(t, p)
SessionsOK == /\ DOMAIN session = Trackers /\ DOMAIN ips = Trackers
              /\ \A t \in Trackers : SessionOK(t)

Books == Bounds /\ FlowsOK /\ SessionsOK

LEMMA InitBounds == Init => Bounds
BY ReportsAssumption DEF Init, Bounds

LEMMA InitFlows == Init => FlowsOK
BY DEF Init, FlowsOK, AllRows

LEMMA InitSessions == Init => SessionsOK
BY DEF Init, SessionsOK, SessionOK, Kept, Acknowledged

LEMMA ProtocolsOf ==
  ASSUME NEW R, \A r \in R : r.flow \in Metrics
  PROVE  DOMAIN GetProtocolDistribution(R) \subseteq {"TCP", "UDP"}
BY MetricsAssumption DEF GetProtocolDistribution

(* A row tells whose it is and of which flow. *)
LEMMA RowsAreFlows ==
  ASSUME FlowsOK
  PROVE  /\ DOMAIN stored \subseteq AllRows /\ residue \subseteq AllRows
         /\ undone \subseteq AllRows /\ Acknowledged \subseteq AllRows
         /\ \A r \in AllRows : r.flow \in raised /\ r.flow \in Metrics /\ r.by \in Trackers
BY DEF FlowsOK, RowOK, AllRows, Acknowledged

LEMMA NextBounds == 
  ASSUME Books, [Next]_vars
  PROVE Bounds'
<1>. USE DEF Books, Bounds
<1>a. /\ {Window, TopLimit, Start, MaxTicks, MaxSteps, MaxFailed} \subseteq Nat
      /\ MaxSteps <= Start
  BY ReportsAssumption
<1>1. CASE Tick       BY <1>1, <1>a DEF Tick, panel
<1>2. CASE StepBack   BY <1>2, <1>a DEF StepBack, panel
<1>3. CASE \E m \in Metrics : Raise(m)
  BY <1>3 DEF Raise, time, tracker, meters, panel
<1>4. ASSUME NEW t \in Trackers, Cycle(t) \/ CycleFails(t)
      PROVE  Bounds'
  <2>1. clock \in 0 .. Start + MaxTicks
    BY <1>a
  <2>2. /\ last' = [last EXCEPT ![t] = clock]
        /\ UNCHANGED <<ticks, steps, clock, mock, load>>
        /\ (failed' = failed \/ (failed < MaxFailed /\ failed' = failed + 1))
    <3>1. CASE Cycle(t)        BY <3>1 DEF Cycle, Loses, time, panel
    <3>2. CASE CycleFails(t)   BY <3>2 DEF CycleFails, time, panel
    <3>. QED BY <1>4, <3>1, <3>2
  <2>. QED BY <1>a, <2>1, <2>2
<1>5. CASE LoadStats
  <2>1. \A r \in Recent(Window) : r.flow \in Metrics
    BY RowsAreFlows DEF Recent
  <2>2. load' \in SUBSET {"TCP", "UDP"}
    BY <1>5, <2>1, ProtocolsOf DEF LoadStats
  <2>. QED BY <1>5, <2>2 DEF LoadStats, time, tracker, meters
<1>6. CASE StatsArrive
  BY <1>6 DEF StatsArrive, time, tracker, meters
<1>7. CASE UNCHANGED vars
  BY <1>7 DEF vars, time, tracker, meters, panel
<1>. QED BY <1>1, <1>2, <1>3, <1>4, <1>5, <1>6, <1>7 DEF Next, LoadProtocolStats

(* The rows made of flows that wait are new, and one per flow. *)
LEMMA NewRows ==
  ASSUME FlowsOK, NEW t \in Trackers, NEW S \in SUBSET pending[t]
  PROVE  /\ \A r \in Rows(t, S) : /\ r.n = 1 /\ r.by = t /\ r.flow \in S
                                  /\ r.dst = DstIp(mock[t], r.flow)
                                  /\ r = Row(t, r.flow)
         /\ Rows(t, S) \intersect AllRows = {}
         /\ {r.flow : r \in Rows(t, S)} = S
<1>1. ASSUME NEW m \in S
      PROVE  Row(t, m) = [n |-> 1, by |-> t, flow |-> m, dst |-> DstIp(mock[t], m)]
  <2>1. \A r \in AllRows : ~(r.by = t /\ r.flow = m)
    BY DEF FlowsOK, RowOK
  <2>2. Copies(t, m) = {}
    BY <2>1 DEF Copies, AllRows
  <2>3. Cardinality(Copies(t, m)) = 0
    BY <2>2, FS_EmptySet
  <2>. QED BY <2>3 DEF Row
<1>2. \A r \in Rows(t, S) : \E m \in S : r = Row(t, m)
  BY DEF Rows
<1>3. \A r \in Rows(t, S) : /\ r.n = 1 /\ r.by = t /\ r.flow \in S
                            /\ r.dst = DstIp(mock[t], r.flow)
                            /\ r = Row(t, r.flow)
  BY <1>1, <1>2
<1>4. \A m \in S : Row(t, m) \in Rows(t, S) /\ Row(t, m).flow = m
  BY <1>1 DEF Rows
<1>5. \A r \in Rows(t, S) : r \notin AllRows
  BY <1>3 DEF FlowsOK, RowOK
<1>. QED BY <1>3, <1>4, <1>5

(* A cycle, whether its insert goes well or not, makes rows of some of the   *)
(* flows before the tracker, and none of them is before it any more.         *)
LEMMA MoreRows ==
  ASSUME FlowsOK, NEW t \in Trackers, NEW S \in SUBSET pending[t],
         UNCHANGED <<mock, raised>>, pending' = [pending EXCEPT ![t] = {}],
         AllRows' = AllRows \union Rows(t, S),
         residue' \subseteq DOMAIN stored', undone' \intersect DOMAIN stored' = {}
  PROVE  FlowsOK'
<1>1. S \subseteq raised /\ pending' \in [Trackers -> SUBSET raised]
  BY DEF FlowsOK
<1>2. \A u \in Trackers : pending'[u] \subseteq pending[u]
  BY DEF FlowsOK
<1>3. \A r \in Rows(t, S) : /\ r.n = 1 /\ r.by = t /\ r.flow \in S
                            /\ r.dst = DstIp(mock[t], r.flow)
                            /\ r = Row(t, r.flow)
  BY NewRows
<1>4. ASSUME NEW r \in AllRows'
      PROVE  RowOK(r)'
  <2>1. CASE r \in AllRows
    BY <1>2, <2>1 DEF FlowsOK, RowOK
  <2>2. CASE r \in Rows(t, S)
    <3>1. r.flow \notin pending'[r.by]
      BY <1>3, <2>2 DEF FlowsOK
    <3>. QED BY <1>1, <1>3, <2>2, <3>1 DEF RowOK
  <2>. QED BY <2>1, <2>2
<1>5. ASSUME NEW q \in AllRows', NEW r \in AllRows', q.by = r.by, q.flow = r.flow
      PROVE  q = r
  <2>1. CASE q \in AllRows /\ r \in AllRows
    BY <1>5, <2>1 DEF FlowsOK
  <2>2. CASE q \in Rows(t, S) /\ r \in Rows(t, S)
    BY <1>3, <1>5, <2>2
  <2>3. \A x \in AllRows, y \in Rows(t, S) : ~(x.by = y.by /\ x.flow = y.flow)
    BY <1>3 DEF FlowsOK, RowOK
  <2>. QED BY <1>5, <2>1, <2>2, <2>3
<1>. QED BY <1>1, <1>4, <1>5 DEF FlowsOK

(* What is summarised of a cycle is its batch, also the rows its insert has  *)
(* lost; no other tracker's flows are touched.                               *)
LEMMA CycleKeeps ==
  ASSUME FlowsOK, NEW t \in Trackers, Cycle(t)
  PROVE  /\ FlowsOK' /\ mock' = mock
         /\ Snapshots(t) \subseteq Metrics
         /\ Snapshots(t) \intersect Kept(t) = {}
         /\ Kept(t)' = Kept(t) \union Snapshots(t)
         /\ \A u \in Trackers \ {t} : Kept(u)' = Kept(u)
<1>. DEFINE S == Snapshots(t)
<1>1. UNCHANGED <<mock, raised, residue>> /\ pending' = [pending EXCEPT ![t] = {}]
  BY DEF Cycle, Poll
<1>2. S \subseteq pending[t] /\ pending[t] \subseteq Metrics
  BY DEF Snapshots, FlowsOK
<1>3. PICK gone \in SUBSET S : /\ Put(Rows(t, S \ gone))
                               /\ undone' = undone \union Rows(t, gone)
  BY DEF Cycle
<1>4. DOMAIN stored' = DOMAIN stored \union Rows(t, S \ gone)
  BY <1>3 DEF Put
<1>5. Rows(t, S) = Rows(t, S \ gone) \union Rows(t, gone)
  BY DEF Rows
<1>. HIDE DEF S
<1>6. /\ \A r \in Rows(t, S) : r.by = t /\ r.flow \in S
      /\ Rows(t, S) \intersect AllRows = {}
      /\ {r.flow : r \in Rows(t, S)} = S
  BY <1>2, NewRows
<1>7. Rows(t, S \ gone) \intersect Rows(t, gone) = {}
  <2>1. /\ \A r \in Rows(t, S \ gone) : r.flow \in S \ gone
        /\ \A r \in Rows(t, gone) : r.flow \in gone
    <3>1. S \ gone \in SUBSET pending[t] /\ gone \in SUBSET pending[t]
      BY <1>2
    <3>. QED BY <3>1, NewRows
  <2>. QED BY <2>1
<1>8. /\ residue \subseteq DOMAIN stored /\ undone \intersect DOMAIN stored = {}
  BY DEF FlowsOK
<1>9. AllRows' = AllRows \union Rows(t, S)
  BY <1>3, <1>4, <1>5 DEF AllRows
<1>10. /\ residue' \subseteq DOMAIN stored'
       /\ undone' \intersect DOMAIN stored' = {}
  BY <1>1, <1>3, <1>4, <1>5, <1>6, <1>7, <1>8 DEF AllRows
<1>11. FlowsOK'
  BY <1>1, <1>2, <1>9, <1>10, MoreRows
<1>12. Acknowledged' = Acknowledged \union Rows(t, S)
  BY <1>1, <1>3, <1>4, <1>5, <1>6, <1>8 DEF Acknowledged, AllRows
<1>13. ASSUME NEW u \in Trackers
       PROVE  Kept(u)' = {r.flow : r \in {q \in Acknowledged \union Rows(t, S) : q.by = u}}
  BY <1>12 DEF Kept
<1>14. Kept(t)' = Kept(t) \union S
  <2>1. Kept(t)' \subseteq Kept(t) \union S
    BY <1>6, <1>13 DEF Kept
  <2>2. \A m \in S : \E r \in Rows(t, S) : r.flow = m /\ r.by = t
    BY <1>6
  <2>3. Kept(t) \union S \subseteq Kept(t)'
    BY <1>13, <2>2 DEF Kept
  <2>. QED BY <2>1, <2>3
<1>15. ASSUME NEW u \in Trackers \ {t}
       PROVE  Kept(u)' = Kept(u)
  <2>1. {q \in Acknowledged \union Rows(t, S) : q.by = u} = {q \in Acknowledged : q.by = u}
    BY <1>6
  <2>. QED BY <1>13, <2>1 DEF Kept
<1>16. S \intersect Kept(t) = {}
  <2>1. \A r \in Acknowledged : r.flow \notin pending[r.by]
    BY RowsAreFlows DEF FlowsOK, RowOK
  <2>. QED BY <1>2, <2>1 DEF Kept
<1>. QED BY <1>1, <1>2, <1>11, <1>14, <1>15, <1>16 DEF S

(* What a failed insert leaves is summarised by nobody. *)
LEMMA CycleFailsKeeps ==
  ASSUME FlowsOK, NEW t \in Trackers, CycleFails(t)
  PROVE  FlowsOK' /\ mock' = mock /\ Acknowledged' = Acknowledged
<1>1. UNCHANGED <<mock, raised, undone>> /\ pending' = [pending EXCEPT ![t] = {}]
  BY DEF CycleFails, Poll
<1>2. PICK left \in SUBSET Snapshots(t) : /\ Put(Rows(t, left))
                                          /\ residue' = residue \union Rows(t, left)
  BY DEF CycleFails
<1>3. DOMAIN stored' = DOMAIN stored \union Rows(t, left)
  BY <1>2 DEF Put
<1>4. left \in SUBSET pending[t]
  BY DEF Snapshots
<1>5. Rows(t, left) \intersect AllRows = {}
  BY <1>4, NewRows
<1>6. /\ residue \subseteq DOMAIN stored /\ undone \intersect DOMAIN stored = {}
  BY DEF FlowsOK
<1>7. AllRows' = AllRows \union Rows(t, left)
  BY <1>1, <1>3 DEF AllRows
<1>8. residue' \subseteq DOMAIN stored' /\ undone' \intersect DOMAIN stored' = {}
  BY <1>1, <1>2, <1>3, <1>5, <1>6 DEF AllRows
<1>9. FlowsOK'
  BY <1>1, <1>4, <1>7, <1>8, MoreRows
<1>10. Acknowledged' = Acknowledged
  BY <1>1, <1>2, <1>3, <1>5 DEF Acknowledged, AllRows
<1>. QED BY <1>1, <1>9, <1>10

LEMMA SameFlows ==
  ASSUME FlowsOK, UNCHANGED <<file, mock, raised, pending>>
  PROVE  FlowsOK'
<1>1. AllRows' = AllRows
  BY DEF AllRows, file
<1>2. \A r : RowOK(r)' <=> RowOK(r)
  BY DEF RowOK
<1>. QED BY <1>1, <1>2 DEF FlowsOK, file

(* A new flow is in no row yet. *)
LEMMA RaiseFlows ==
  ASSUME FlowsOK, NEW m \in Metrics, Raise(m)
  PROVE  FlowsOK'
<1>1. UNCHANGED <<file, mock>> /\ raised' = raised \union {m} /\ m \notin raised
  BY DEF Raise, tracker
<1>2. /\ pending' \in [Trackers -> SUBSET raised']
      /\ \A t \in Trackers : pending'[t] \subseteq pending[t] \union {m}
  BY DEF Raise, FlowsOK
<1>3. AllRows' = AllRows
  BY <1>1 DEF AllRows, file
<1>4. ASSUME NEW r \in AllRows
      PROVE  RowOK(r)'
  <2>1. RowOK(r)
    BY DEF FlowsOK
  <2>. QED BY <1>1, <1>2, <2>1 DEF RowOK
<1>. QED BY <1>1, <1>2, <1>3, <1>4 DEF FlowsOK, file

LEMMA NextFlows ==
  ASSUME Books, [Next]_vars
  PROVE  FlowsOK'
<1>. USE DEF Books
<1>1. CASE Tick       BY <1>1, SameFlows DEF Tick
<1>2. CASE StepBack   BY <1>2, SameFlows DEF StepBack
<1>3. CASE \E m \in Metrics : Raise(m)
  BY <1>3, RaiseFlows
<1>4. CASE \E t \in Trackers : Cycle(t) \/ CycleFails(t)
  BY <1>4, CycleKeeps, CycleFailsKeeps
<1>5. CASE LoadProtocolStats
  BY <1>5, SameFlows DEF LoadProtocolStats, LoadStats, StatsArrive, tracker
<1>6. CASE UNCHANGED vars
  BY <1>6, SameFlows DEF vars, tracker
<1>. QED BY <1>1, <1>2, <1>3, <1>4, <1>5, <1>6 DEF Next

-----------------------------------------------------------------------------
(* The session maps. *)

LEMMA SameSession ==
  ASSUME NEW t \in Trackers, SessionOK(t), mock' = mock, Kept(t)' = Kept(t),
         session'[t] = session[t], ips'[t] = ips[t]
  PROVE  SessionOK(t)'
<1>1. \A p : Of(p, Kept(t))' = Of(p, Kept(t))
  BY DEF Of
<1>2. \A p : EntryOK(t, p)' <=> EntryOK(t, p)
  BY <1>1 DEF EntryOK
<1>. QED BY <1>2 DEF SessionOK

(* Steps that leave what inserts have acknowledged leave what is kept. *)
LEMMA SameSessions ==
  ASSUME SessionsOK, UNCHANGED <<mock, session, ips>>, Acknowledged' = Acknowledged
  PROVE  SessionsOK'
<1>1. \A t \in Trackers : Kept(t)' = Kept(t)
  BY DEF Kept
<1>. QED BY <1>1, SameSession DEF SessionsOK

LEMMA SameFile ==
  ASSUME UNCHANGED file
  PROVE  Acknowledged' = Acknowledged
BY DEF Acknowledged, file

(* A cycle's records are added to the entries of their processes. *)
LEMMA CycleSession ==
  ASSUME FlowsOK, SessionsOK, NEW t \in Trackers, Cycle(t)
  PROVE  SessionOK(t)'
<1>. DEFINE S == Snapshots(t)
            K == Kept(t)
            entry(p) == IF p \in DOMAIN session[t] THEN Quiet(session[t][p]) ELSE NewEntry
            known(p) == IF p \in DOMAIN session[t] THEN ips[t][p] ELSE {}
            pids == DOMAIN session[t] \union {PidOf[m] : m \in S}
<1>1. mock' = mock /\ S \subseteq Metrics /\ S \intersect K = {} /\ Kept(t)' = K \union S
  BY CycleKeeps
<1>2. /\ session'[t] = [p \in pids |-> Added(entry(p), Of(p, S))]
      /\ ips'[t] = [p \in pids |-> known(p) \union UNION {RemoteIp(mock[t], m) : m \in Of(p, S)}]
  <2>1. Summarize(t, S)
    BY DEF Cycle
  <2>. QED BY <2>1 DEF SessionsOK, Summarize, Of, Added
<1>3. K \subseteq Metrics /\ SessionOK(t)
  BY RowsAreFlows DEF Kept, SessionsOK
<1>. HIDE DEF S, K
<1>4. pids = {PidOf[m] : m \in K \union S}
  BY <1>3 DEF SessionOK, K
<1>5. ASSUME NEW p \in pids
      PROVE  EntryOK(t, p)'
  <2>1. Of(p, K \union S) = Of(p, K) \union Of(p, S)
    BY DEF Of
  <2>2. /\ Tallies(entry(p), Of(p, K))
        /\ known(p) = UNION {RemoteIp(mock[t], m) : m \in Of(p, K)}
    <3>1. CASE p \in DOMAIN session[t]
      BY <1>3, <3>1, QuietTallies DEF SessionOK, EntryOK, K
    <3>2. CASE p \notin DOMAIN session[t]
      <4>1. Of(p, K) = {}
        BY <1>3, <3>2 DEF SessionOK, Of, K
      <4>. QED BY <3>2, <4>1, NewEntryTallies
    <3>. QED BY <3>1, <3>2
  <2>3. Tallies(session'[t][p], Of(p, K) \union Of(p, S))
    <3>1. Of(p, K) \in SUBSET Metrics /\ Of(p, S) \in SUBSET (Metrics \ Of(p, K))
      BY <1>1, <1>3 DEF Of
    <3>2. session'[t][p] = Added(entry(p), Of(p, S))
      BY <1>2
    <3>. HIDE DEF entry
    <3>. QED BY <2>2, <3>1, <3>2, FoldTallies
  <2>4. ips'[t][p] = UNION {RemoteIp(mock[t], m) : m \in Of(p, K) \union Of(p, S)}
    BY <1>2, <2>2
  <2>5. Of(p, Kept(t))' = Of(p, K) \union Of(p, S)
    BY <1>1, <2>1 DEF Of
  <2>. QED BY <1>1, <2>3, <2>4, <2>5 DEF EntryOK
<1>. QED BY <1>1, <1>2, <1>4, <1>5 DEF SessionOK

LEMMA NextSessions ==
  ASSUME Books, [Next]_vars
  PROVE  SessionsOK'
<1>. USE DEF Books
<1>1. CASE Tick       BY <1>1, SameSessions, SameFile DEF Tick
<1>2. CASE StepBack   BY <1>2, SameSessions, SameFile DEF StepBack
<1>3. CASE \E m \in Metrics : Raise(m)
  BY <1>3, SameSessions, SameFile DEF Raise, tracker
<1>4. ASSUME NEW t \in Trackers, Cycle(t)
      PROVE  SessionsOK'
  <2>1. /\ DOMAIN session' = Trackers /\ DOMAIN ips' = Trackers
        /\ \A u \in Trackers \ {t} : session'[u] = session[u] /\ ips'[u] = ips[u]
    <3>1. Summarize(t, Snapshots(t))
      BY <1>4 DEF Cycle
    <3>. QED BY <3>1 DEF Summarize, SessionsOK
  <2>2. \A u \in Trackers \ {t} : SessionOK(u)'
    BY <1>4, <2>1, CycleKeeps, SameSession DEF SessionsOK
  <2>. QED BY <1>4, <2>1, <2>2, CycleSession DEF SessionsOK
<1>5. CASE \E t \in Trackers : CycleFails(t)
  BY <1>5, SameSessions, CycleFailsKeeps DEF CycleFails
<1>6. CASE LoadProtocolStats
  BY <1>6, SameSessions, SameFile DEF LoadProtocolStats, LoadStats, StatsArrive, tracker
<1>7. CASE UNCHANGED vars
  BY <1>7, SameSessions, SameFile DEF vars, tracker
<1>. QED BY <1>1, <1>2, <1>3, <1>4, <1>5, <1>6, <1>7 DEF Next

(* Clock, flows, rows and sessions go together in every state. *)
LEMMA BooksKept == Spec => []Books
<1>1. Init => Books
  BY InitBounds, InitFlows, InitSessions DEF Books
<1>2. Books /\ [Next]_vars => Books'
  BY NextBounds, NextFlows, NextSessions DEF Books
<1>. QED BY <1>1, <1>2, PTL DEF Spec

(* Every variable keeps its type: in particular the clock stays within its   *)
(* bounds, pending flows are flows raised, and every row is one of them.     *)
THEOREM TypeCorrect == Spec => []TypeOK
<1>1. Books => TypeOK
  BY ReportsAssumption DEF Books, Bounds, FlowsOK, SessionsOK, SessionOK, EntryOK, Tallies, TypeOK,
      AllRows, RowOK
<1>. QED BY <1>1, BooksKept, PTL

-----------------------------------------------------------------------------
(* Rows and what the queries make of them. *)

(* A row is known by its tracker and its flow, so there are finitely many. *)
LEMMA RowsFinite ==
  ASSUME FlowsOK, NEW R \in SUBSET AllRows
  PROVE  IsFiniteSet(R)
<1>. DEFINE f == [r \in R |-> <<r.by, r.flow>>]
<1>1. \A r \in R : r.by \in Trackers /\ r.flow \in Metrics
  BY RowsAreFlows
<1>2. \A q, r \in R : q.by = r.by /\ q.flow = r.flow => q = r
  BY DEF FlowsOK
<1>3. f \in Injection(R, Trackers \X Metrics)
  BY <1>1, <1>2 DEF Injection, IsInjective
<1>4. IsFiniteSet(Trackers \X Metrics)
  BY ReportsAssumption, MetricsAssumption, FS_Product
<1>. QED BY <1>3, <1>4, FS_Injection

(* The rows of one tracker are as many as their flows. *)
LEMMA RowsOfOne ==
  ASSUME FlowsOK, NEW t \in Trackers, NEW R \in SUBSET AllRows,
         \A r \in R : r.by = t, NEW S \in SUBSET Metrics, S = {r.flow : r \in R}
  PROVE  Cardinality(R) = Cardinality(S)
<1>. DEFINE f == [r \in R |-> r.flow]
<1>1. \A r, q \in R : r.flow = q.flow => r = q
  BY DEF FlowsOK
<1>2. f \in [R -> S]
  OBVIOUS
<1>3. \A r, q \in R : f[r] = f[q] => r = q
  BY <1>1
<1>4. \A m \in S : \E r \in R : f[r] = m
  OBVIOUS
<1>. HIDE DEF f
<1>5. f \in Injection(R, S) /\ f \in Surjection(R, S)
  BY <1>2, <1>3, <1>4 DEF Injection, Surjection, IsInjective
<1>6. IsFiniteSet(R)
  BY RowsFinite
<1>. QED BY <1>5, <1>6, FS_Surjection

(* With one tracker writing the file, no report credits a process with more  *)
(* bytes of a direction than its flows had (get_top_processes): a flow is    *)
(* polled once and so becomes one row at most, also when inserts raise or    *)
(* lose rows.  (A second tracker stores it again.)                           *)
THEOREM HistoryOfOneTracker ==
  ASSUME \A t, u \in Trackers : t = u
  PROVE  Spec => []HistoryIsTraffic
<1>1. ASSUME Books
      PROVE  HistoryIsTraffic
  <2>. SUFFICES ASSUME NEW g \in TopProcesses(Recent(Window))
                PROVE  /\ g.sent <= SentBy(g.pid, raised)
                       /\ g.recv <= ReceivedBy(g.pid, raised)
    BY DEF HistoryIsTraffic
  <2>1. PICK r \in Recent(Window) :
          LET G == GroupOf(Recent(Window), r)
          IN  g.pid = PidOf[r.flow] /\ g.sent = Egress(G) /\ g.recv = Ingress(G)
    BY DEF TopProcesses
  <2>. DEFINE G == GroupOf(Recent(Window), r)
              Ups == {q \in G : DirOf[q.flow] = "EGRESS"}
              Downs == {q \in G : DirOf[q.flow] = "INGRESS"}
  <2>2. /\ G \subseteq AllRows /\ r \in AllRows
        /\ \A q \in G : PidOf[q.flow] = PidOf[r.flow]
    BY DEF GroupOf, Recent, AllRows
  <2>3. FlowsOK /\ raised \subseteq Metrics
    BY <1>1 DEF Books, FlowsOK
  <2>4. PICK t \in Trackers : \A q \in AllRows : q.by = t
    BY <2>2, <2>3, RowsAreFlows
  <2>5. \A q \in G : q.flow \in raised
    BY <2>2, <2>3, RowsAreFlows
  <2>. HIDE DEF G
  <2>6. Cardinality(Ups) <= SentBy(PidOf[r.flow], raised)
    <3>. DEFINE S == {q.flow : q \in Ups}
                all == {m \in raised : PidOf[m] = PidOf[r.flow] /\ DirOf[m] = "EGRESS"}
    <3>1. /\ S \subseteq all /\ all \subseteq Metrics
          /\ Ups \in SUBSET AllRows /\ \A q \in Ups : q.by = t
      BY <2>2, <2>3, <2>4, <2>5
    <3>. HIDE DEF all
    <3>2. IsFiniteSet(all)
      BY <3>1, MetricsAssumption, FS_Subset
    <3>3. Cardinality(S) <= Cardinality(all)
      BY <3>1, <3>2, FS_Subset
    <3>4. Cardinality(Ups) = Cardinality(S)
      <4>1. S \in SUBSET Metrics
        BY <3>1
      <4>. HIDE DEF Ups
      <4>. QED BY <2>3, <3>1, <4>1, RowsOfOne
    <3>. QED BY <3>3, <3>4 DEF SentBy, all
  <2>7. Cardinality(Downs) <= ReceivedBy(PidOf[r.flow], raised)
    <3>. DEFINE S == {q.flow : q \in Downs}
                all == {m \in raised : PidOf[m] = PidOf[r.flow] /\ DirOf[m] = "INGRESS"}
    <3>1. /\ S \subseteq all /\ all \subseteq Metrics
          /\ Downs \in SUBSET AllRows /\ \A q \in Downs : q.by = t
      BY <2>2, <2>3, <2>4, <2>5
    <3>. HIDE DEF all
    <3>2. IsFiniteSet(all)
      BY <3>1, MetricsAssumption, FS_Subset
    <3>3. Cardinality(S) <= Cardinality(all)
      BY <3>1, <3>2, FS_Subset
    <3>4. Cardinality(Downs) = Cardinality(S)
      <4>1. S \in SUBSET Metrics
        BY <3>1
      <4>. HIDE DEF Downs
      <4>. QED BY <2>3, <3>1, <4>1, RowsOfOne
    <3>. QED BY <3>3, <3>4 DEF ReceivedBy, all
  <2>. QED BY <2>1, <2>6, <2>7 DEF Egress, Ingress, G
<1>. QED BY <1>1, BooksKept, PTL

-----------------------------------------------------------------------------
(* What a record adds to the addresses of its process: its peer, if that is  *)
(* known, but the local end for a simulated download.                        *)
LEMMA RecordShows ==
  ASSUME NEW m \in Metrics, NEW b
  PROVE  /\ RemoteIp(b, m)
              = {IF Swapped(b, m) THEN LocalOf(m) ELSE PeerOf[m]} \ {AnyAddress}
         /\ LocalOf(m) \notin Public /\ LocalOf(m) \in {Host, PeerOf[m]}
         /\ LocalOf(m) = AnyAddress <=> PeerOf[m] = AnyAddress
<1>1. /\ LocalOf(m) \notin Public /\ LocalOf(m) \in {Host, PeerOf[m]}
      /\ LocalOf(m) = AnyAddress <=> PeerOf[m] = AnyAddress
  BY FlowsAssumption DEF LocalOf
<1>2. CASE Swapped(b, m)
  <2>1. DirOf[m] # "EGRESS" /\ SrcIp(b, m) = PeerOf[m] /\ DstIp(b, m) = LocalOf(m)
    BY <1>2 DEF Swapped, SrcIp, DstIp
  <2>2. LocalOf(m) \in {Loopback, AnyAddress} <=> PeerOf[m] \in {Loopback, AnyAddress}
    BY FlowsAssumption DEF LocalOf
  <2>. QED BY <1>1, <1>2, <2>1, <2>2, FlowsAssumption DEF RemoteIp
<1>3. CASE ~Swapped(b, m)
  <2>1. SrcIp(b, m) = LocalOf(m) /\ DstIp(b, m) = PeerOf[m]
    BY <1>3 DEF SrcIp, DstIp
  <2>2. LocalOf(m) \notin {Loopback, AnyAddress} => PeerOf[m] \notin {Loopback, AnyAddress}
    BY DEF LocalOf
  <2>. QED BY <1>1, <1>3, <2>1, <2>2, FlowsAssumption DEF RemoteIp
<1>. QED BY <1>1, <1>2, <1>3

(* The Remote IP column (remote_ips_str) names peers of its process, the     *)
(* public ones if it has been told any, this machine for simulated downloads *)
(* alone, and "-" only when no peer is known, whatever the flows and for     *)
(* trackers with probes or simulated.                                        *)
THEOREM ColumnNamesPeers == Spec => []ColumnShowsPeers
<1>1. ASSUME Books, NEW t \in Trackers, NEW p \in DOMAIN session[t]
      PROVE  LET mine == {r.flow : r \in {q \in Acknowledged : q.by = t /\ PidOf[q.flow] = p}}
                 peers == {PeerOf[m] : m \in mine}
                 told == {PeerOf[m] : m \in {n \in mine : ~Swapped(mock[t], n)}}
                 column == RemoteColumn(ips[t][p])
             IN  /\ told \intersect Public # {} => column = told \intersect Public
                 /\ column \subseteq peers \union (IF mock[t] THEN {Host} ELSE {})
                 /\ (column = {}) <=> (peers \subseteq {AnyAddress})
  <2>. DEFINE mine == {r.flow : r \in {q \in Acknowledged : q.by = t /\ PidOf[q.flow] = p}}
              peers == {PeerOf[m] : m \in mine}
              told == {PeerOf[m] : m \in {n \in mine : ~Swapped(mock[t], n)}}
              shows(m) == IF Swapped(mock[t], m) THEN LocalOf(m) ELSE PeerOf[m]
              known == ips[t][p]
  <2>1. mine = Of(p, Kept(t)) /\ mine \subseteq Metrics
    <3>1. \A r \in Acknowledged : r.flow \in Metrics
      BY <1>1, RowsAreFlows DEF Books
    <3>. QED BY <3>1 DEF Of, Kept
  <2>2. EntryOK(t, p)
    BY <1>1 DEF Books, SessionsOK, SessionOK
  <2>3. known = UNION {RemoteIp(mock[t], m) : m \in mine}
    BY <2>1, <2>2 DEF EntryOK
  <2>. HIDE DEF mine, known
  <2>4. \A a \in known : a # AnyAddress /\ \E m \in mine : a = shows(m)
    <3>1. ASSUME NEW a \in known
          PROVE  a # AnyAddress /\ \E m \in mine : a = shows(m)
      <4>1. PICK m \in mine : a \in RemoteIp(mock[t], m)
        BY <2>3
      <4>2. RemoteIp(mock[t], m) = {shows(m)} \ {AnyAddress}
        BY <2>1, RecordShows
      <4>. QED BY <4>1, <4>2
    <3>. QED BY <3>1
  <2>5. \A m \in mine : shows(m) = AnyAddress \/ shows(m) \in known
    <3>1. ASSUME NEW m \in mine, shows(m) # AnyAddress
          PROVE  shows(m) \in known
      <4>1. RemoteIp(mock[t], m) = {shows(m)} \ {AnyAddress}
        BY <2>1, RecordShows
      <4>. QED BY <2>3, <3>1, <4>1
    <3>. QED BY <3>1
  <2>6. \A m \in mine : /\ shows(m) \in Public => ~Swapped(mock[t], m)
                        /\ shows(m) = AnyAddress <=> PeerOf[m] = AnyAddress
                        /\ shows(m) = PeerOf[m] \/ (mock[t] /\ shows(m) = Host)
    BY <2>1, RecordShows DEF Swapped
  <2>7. AnyAddress \notin Public /\ Loopback \notin Public /\ Loopback # AnyAddress
    BY FlowsAssumption
  <2>8. known \intersect Public = told \intersect Public
    <3>1. ASSUME NEW a \in known \intersect Public
          PROVE  a \in told
      <4>1. PICK m \in mine : a = shows(m)
        BY <2>4
      <4>2. ~Swapped(mock[t], m)
        BY <2>6, <4>1
      <4>. QED BY <4>1, <4>2
    <3>2. ASSUME NEW a \in told \intersect Public
          PROVE  a \in known
      <4>1. PICK m \in mine : a = PeerOf[m] /\ ~Swapped(mock[t], m)
        OBVIOUS
      <4>. QED BY <2>5, <2>7, <4>1
    <3>. HIDE DEF told
    <3>. QED BY <3>1, <3>2
  <2>9. known \subseteq peers \union (IF mock[t] THEN {Host} ELSE {})
    BY <2>4, <2>6
  <2>10. (known = {}) <=> (peers \subseteq {AnyAddress})
    <3>1. ASSUME known = {}
          PROVE  \A m \in mine : PeerOf[m] = AnyAddress
      BY <2>5, <2>6, <3>1
    <3>2. ASSUME \A m \in mine : PeerOf[m] = AnyAddress
          PROVE  known = {}
      BY <2>4, <2>6, <3>2
    <3>3. peers \subseteq {AnyAddress} <=> \A m \in mine : PeerOf[m] = AnyAddress
      OBVIOUS
    <3>. QED BY <3>1, <3>2, <3>3
  <2>11. AnyAddress \notin known
    BY <2>4
  <2>12. /\ told \intersect Public # {} => RemoteColumn(known) = told \intersect Public
         /\ RemoteColumn(known) \subseteq known
         /\ (RemoteColumn(known) = {}) <=> (known = {})
    <3>. HIDE DEF told
    <3>. QED BY <2>7, <2>8, <2>11 DEF RemoteColumn
  <2>13. RemoteColumn(known) \subseteq peers \union (IF mock[t] THEN {Host} ELSE {})
    <3>. HIDE DEF peers
    <3>. QED BY <2>9, <2>12
  <2>. QED BY <2>10, <2>12, <2>13 DEF mine, known
<1>2. Books => ColumnShowsPeers
  BY <1>1 DEF ColumnShowsPeers
<1>. QED BY <1>2, BooksKept, PTL

-----------------------------------------------------------------------------
(* Reports and sessions. *)

(* What the query reports of the group of row r.                             *)
GroupRow(rows, r) ==
  LET g == GroupOf(rows, r)
  IN  [pid |-> PidOf[r.flow], comm |-> CommOf[r.flow], sent |-> Egress(g),
       recv |-> Ingress(g), total |-> Cardinality(g)]

(* Rows have one report when they are of one group. *)
LEMMA SameGroup ==
  ASSUME NEW rows, NEW r \in rows, NEW q \in rows
  PROVE  GroupRow(rows, q) = GroupRow(rows, r) <=> q \in GroupOf(rows, r)
<1>1. ASSUME q \in GroupOf(rows, r)
      PROVE  GroupRow(rows, q) = GroupRow(rows, r)
  <2>1. PidOf[q.flow] = PidOf[r.flow] /\ CommOf[q.flow] = CommOf[r.flow]
    BY <1>1 DEF GroupOf
  <2>2. GroupOf(rows, q) = GroupOf(rows, r)
    BY <2>1 DEF GroupOf
  <2>. QED BY <2>1, <2>2 DEF GroupRow
<1>2. ASSUME GroupRow(rows, q) = GroupRow(rows, r)
      PROVE  q \in GroupOf(rows, r)
  <2>1. GroupRow(rows, q).pid = GroupRow(rows, r).pid /\ GroupRow(rows, q).comm = GroupRow(rows, r).comm
    BY <1>2
  <2>2. PidOf[q.flow] = PidOf[r.flow] /\ CommOf[q.flow] = CommOf[r.flow]
    BY <2>1 DEF GroupRow
  <2>. QED BY <2>2 DEF GroupOf
<1>. QED BY <1>1, <1>2

LEMMA GroupsFinite ==
  ASSUME NEW rows, IsFiniteSet(rows)
  PROVE  IsFiniteSet(TopProcesses(rows))
<1>. DEFINE f == [r \in rows |-> GroupRow(rows, r)]
<1>1. TopProcesses(rows) = {GroupRow(rows, r) : r \in rows}
  BY DEF TopProcesses, GroupRow
<1>2. f \in Surjection(rows, TopProcesses(rows))
  BY <1>1 DEF Surjection
<1>. QED BY <1>2, FS_Surjection

(* The TOTAL row of all groups is that of their rows. *)
LEMMA TotalOfGroups ==
  ASSUME NEW rows, IsFiniteSet(rows)
  PROVE  HistoryTotal(TopProcesses(rows)) = [sent |-> Egress(rows), recv |-> Ingress(rows)]
<1>. DEFINE T == TopProcesses(rows)
            Ups == {r \in rows : DirOf[r.flow] = "EGRESS"}
            Downs == {r \in rows : DirOf[r.flow] = "INGRESS"}
            group == [r \in rows |-> GroupRow(rows, r)]
<1>1. T = {GroupRow(rows, r) : r \in rows}
  BY DEF TopProcesses, GroupRow
<1>2. IsFiniteSet(T)
  BY GroupsFinite
<1>3. IsFiniteSet(Ups) /\ IsFiniteSet(Downs)
  BY FS_Subset
<1>4. ASSUME NEW g \in T
      PROVE  /\ g.sent = Cardinality({r \in Ups : group[r] = g})
             /\ g.recv = Cardinality({r \in Downs : group[r] = g})
  <2>1. PICK r \in rows : g = GroupRow(rows, r)
    BY <1>1
  <2>2. \A q \in rows : group[q] = g <=> q \in GroupOf(rows, r)
    BY <2>1, SameGroup
  <2>3. GroupOf(rows, r) \subseteq rows
    BY DEF GroupOf
  <2>4. /\ {q \in GroupOf(rows, r) : DirOf[q.flow] = "EGRESS"} = {q \in Ups : group[q] = g}
        /\ {q \in GroupOf(rows, r) : DirOf[q.flow] = "INGRESS"} = {q \in Downs : group[q] = g}
    <3>. HIDE DEF group
    <3>. QED BY <2>2, <2>3
  <2>5. g.sent = Egress(GroupOf(rows, r)) /\ g.recv = Ingress(GroupOf(rows, r))
    BY <2>1 DEF GroupRow
  <2>. QED BY <2>4, <2>5 DEF Egress, Ingress
<1>5. group \in [rows -> T]
  BY <1>1
<1>. HIDE DEF T, group
<1>6. SumFunction([g \in T |-> g.sent]) = Cardinality(Ups)
  <2>. DEFINE key == [r \in Ups |-> group[r]]
              w == [g \in T |-> g.sent]
  <2>1. key \in [Ups -> T]
    BY <1>5
  <2>2. \A g \in T : {r \in Ups : key[r] = g} = {r \in Ups : group[r] = g}
    OBVIOUS
  <2>3. \A g \in T : w[g] = Cardinality({r \in Ups : key[r] = g})
    BY <1>4, <2>2
  <2>4. DOMAIN w = T
    OBVIOUS
  <2>. HIDE DEF key, w, Ups
  <2>5. SumFunction(w) = Cardinality(Ups)
    BY <1>2, <1>3, <2>1, <2>3, <2>4, SumOfParts
  <2>. QED BY <2>5 DEF w
<1>7. SumFunction([g \in T |-> g.recv]) = Cardinality(Downs)
  <2>. DEFINE key == [r \in Downs |-> group[r]]
              w == [g \in T |-> g.recv]
  <2>1. key \in [Downs -> T]
    BY <1>5
  <2>2. \A g \in T : {r \in Downs : key[r] = g} = {r \in Downs : group[r] = g}
    OBVIOUS
  <2>3. \A g \in T : w[g] = Cardinality({r \in Downs : key[r] = g})
    BY <1>4, <2>2
  <2>4. DOMAIN w = T
    OBVIOUS
  <2>. HIDE DEF key, w, Downs
  <2>5. SumFunction(w) = Cardinality(Downs)
    BY <1>2, <1>3, <2>1, <2>3, <2>4, SumOfParts
  <2>. QED BY <2>5 DEF w
<1>. QED BY <1>6, <1>7 DEF HistoryTotal, Egress, Ingress, T

(* Every row goes one way. *)
LEMMA BothWays ==
  ASSUME NEW rows, IsFiniteSet(rows), \A r \in rows : r.flow \in Metrics
  PROVE  /\ Egress(rows) \in Nat /\ Ingress(rows) \in Nat
         /\ Egress(rows) + Ingress(rows) = Cardinality(rows)
<1>. DEFINE Ups == {r \in rows : DirOf[r.flow] = "EGRESS"}
            Downs == {r \in rows : DirOf[r.flow] = "INGRESS"}
<1>1. IsFiniteSet(Ups) /\ IsFiniteSet(Downs)
  BY FS_Subset
<1>2. \A r \in rows : DirOf[r.flow] \in {"EGRESS", "INGRESS"}
  BY MetricsAssumption
<1>3. Ups \union Downs = rows /\ Ups \intersect Downs = {}
  BY <1>2
<1>. HIDE DEF Ups, Downs
<1>4. /\ Cardinality(Ups) \in Nat /\ Cardinality(Downs) \in Nat
      /\ Cardinality(Ups \union Downs) = Cardinality(Ups) + Cardinality(Downs)
  BY <1>1, <1>3, DisjointCount
<1>. QED BY <1>3, <1>4 DEF Egress, Ingress, Ups, Downs

(* The rows of a process among some. *)
RowsOf(R, p) == {r \in R : PidOf[r.flow] = p}

(* The groups of one process are those of its rows alone. *)
LEMMA GroupsOfPid ==
  ASSUME NEW T, T = TopProcesses(DOMAIN stored), NEW p
  PROVE  {g \in T : g.pid = p} = TopProcesses(RowsOf(DOMAIN stored, p))
<1>. DEFINE rows == DOMAIN stored
            mine == {r \in rows : PidOf[r.flow] = p}
<1>. USE DEF RowsOf
<1>1. /\ TopProcesses(rows) = {GroupRow(rows, r) : r \in rows}
      /\ TopProcesses(mine) = {GroupRow(mine, r) : r \in mine}
  BY DEF TopProcesses, GroupRow
<1>2. ASSUME NEW r \in mine
      PROVE  GroupRow(mine, r) = GroupRow(rows, r)
  <2>1. GroupOf(mine, r) = GroupOf(rows, r)
    BY DEF GroupOf
  <2>. QED BY <2>1 DEF GroupRow
<1>3. \A r \in rows : GroupRow(rows, r).pid = p <=> r \in mine
  BY DEF GroupRow
<1>. QED BY <1>1, <1>2, <1>3

(* With room for every metric a group of its own, no group is left out.      *)
LEMMA AllGroups ==
  ASSUME NEW rows, IsFiniteSet(rows), \A r \in rows : r.flow \in Metrics,
         NEW T \in GetTopProcesses(rows, Cardinality(Metrics))
  PROVE  T = TopProcesses(rows)
<1>. DEFINE all == TopProcesses(rows)
            M == {r.flow : r \in rows}
            group(m) == {q \in rows : PidOf[q.flow] = PidOf[m] /\ CommOf[q.flow] = CommOf[m]}
            f == [m \in M |-> [pid |-> PidOf[m], comm |-> CommOf[m], sent |-> Egress(group(m)),
                               recv |-> Ingress(group(m)), total |-> Cardinality(group(m))]]
<1>1. IsFiniteSet(all) /\ IsFiniteSet(M) /\ Cardinality(M) <= Cardinality(Metrics)
  <2>1. M \subseteq Metrics
    OBVIOUS
  <2>. QED BY <2>1, GroupsFinite, MetricsAssumption, FS_Subset
<1>2. \A r \in rows : f[r.flow] = GroupRow(rows, r)
  BY DEF GroupRow, GroupOf
<1>3. all = {GroupRow(rows, r) : r \in rows}
  BY DEF TopProcesses, GroupRow
<1>4. DOMAIN f = M
  OBVIOUS
<1>5. \A m \in M : f[m] \in all
  <2>. HIDE DEF f
  <2>. QED BY <1>2, <1>3
<1>6. f = [m \in M |-> f[m]]
  OBVIOUS
<1>. HIDE DEF f
<1>7. f \in Surjection(M, all)
  BY <1>2, <1>3, <1>4, <1>5, <1>6 DEF Surjection
<1>8. Cardinality(all) <= Cardinality(M)
  BY <1>1, <1>7, FS_Surjection
<1>9. /\ Cardinality(all) \in Nat /\ Cardinality(M) \in Nat /\ Cardinality(Metrics) \in Nat
  BY <1>1, MetricsAssumption, FS_CardinalityType
<1>10. Cardinality(all) <= Cardinality(Metrics)
  BY <1>1, <1>8, <1>9
<1>11. T \subseteq all /\ Cardinality(T) = Cardinality(all)
  <2>1. T \subseteq all /\ Cardinality(T) = (IF Cardinality(all) < Cardinality(Metrics)
                                             THEN Cardinality(all) ELSE Cardinality(Metrics))
    BY DEF GetTopProcesses
  <2>. QED BY <1>9, <1>10, <2>1
<1>. QED BY <1>1, <1>11, FS_Subset

(* How many of some rows have a property.                                    *)
CountRows(f, v, R) == Cardinality({r \in R : f[r.flow] = v})

(* Counting tracker by tracker what a process has had acknowledged counts    *)
(* its rows.                                                                 *)
LEMMA RowsByTracker ==
  ASSUME FlowsOK, NEW p, NEW f, NEW v, NEW w, DOMAIN w = Trackers,
         \A t \in Trackers : w[t] = CountOf(f, v, Of(p, Kept(t)))
  PROVE  SumFunction(w) = CountRows(f, v, RowsOf(Acknowledged, p))
<1>. DEFINE R == {r \in RowsOf(Acknowledged, p) : f[r.flow] = v}
            key == [r \in R |-> r.by]
<1>. USE DEF RowsOf
<1>1. /\ Acknowledged \subseteq AllRows
      /\ \A r \in AllRows : r.by \in Trackers /\ r.flow \in Metrics
  BY RowsAreFlows
<1>2. key \in [R -> Trackers]
  BY <1>1
<1>3. IsFiniteSet(R)
  <2>1. R \in SUBSET AllRows
    BY <1>1
  <2>. HIDE DEF R
  <2>. QED BY <2>1, RowsFinite
<1>4. ASSUME NEW t \in Trackers
      PROVE  w[t] = Cardinality({r \in R : key[r] = t})
  <2>. DEFINE Q == {r \in R : key[r] = t}
              S == {m \in Of(p, Kept(t)) : f[m] = v}
  <2>1. Q \in SUBSET AllRows /\ \A r \in Q : r.by = t
    BY <1>1
  <2>2. S \in SUBSET Metrics
    BY <1>1 DEF Of, Kept
  <2>3. ASSUME NEW m \in S
        PROVE  \E r \in Q : m = r.flow
    <3>1. m \in Kept(t) /\ PidOf[m] = p /\ f[m] = v
      BY DEF Of
    <3>2. PICK r \in Acknowledged : r.by = t /\ m = r.flow
      BY <3>1 DEF Kept
    <3>. QED BY <3>1, <3>2
  <2>4. \A r \in Q : r.flow \in S
    BY DEF Of, Kept
  <2>5. S = {r.flow : r \in Q}
    BY <2>3, <2>4
  <2>. HIDE DEF Q, S
  <2>6. Cardinality(Q) = Cardinality(S)
    BY <2>1, <2>2, <2>5, RowsOfOne
  <2>. QED BY <2>6 DEF CountOf, Q, S
<1>. HIDE DEF R, key
<1>5. SumFunction(w) = Cardinality(R)
  BY <1>2, <1>3, <1>4, ReportsAssumption, SumOfParts
<1>. QED BY <1>5 DEF R, CountRows

(* A process without an entry has had nothing acknowledged. *)
LEMMA EntryTells ==
  ASSUME SessionsOK, NEW p, NEW t \in Trackers
  PROVE  LET tells(x, none) == IF p \in DOMAIN session[t] THEN x ELSE none
         IN  /\ tells(session[t][p].sent, 0) = CountOf(DirOf, "EGRESS", Of(p, Kept(t)))
             /\ tells(session[t][p].recv, 0) = CountOf(DirOf, "INGRESS", Of(p, Kept(t)))
             /\ tells(session[t][p].tcp, 0) = CountOf(ProtoOf, "TCP", Of(p, Kept(t)))
             /\ tells(session[t][p].udp, 0) = CountOf(ProtoOf, "UDP", Of(p, Kept(t)))
<1>1. SessionOK(t)
  BY DEF SessionsOK
<1>2. CASE p \in DOMAIN session[t]
  BY <1>1, <1>2 DEF SessionOK, EntryOK, Tallies
<1>3. CASE p \notin DOMAIN session[t]
  <2>1. Of(p, Kept(t)) = {}
    BY <1>1, <1>3 DEF SessionOK, Of
  <2>. QED BY <1>3, <2>1, NoneOfNothing
<1>. QED BY <1>2, <1>3

(* The live tables of all trackers add up to the rows that were acknowledged *)
(* of the process.                                                           *)
LEMMA LiveTells ==
  ASSUME Books, NEW p
  PROVE  /\ Live(p, Sent) = Egress(RowsOf(Acknowledged, p)) /\ Live(p, Recv) = Ingress(RowsOf(Acknowledged, p))
         /\ Live(p, Tcp) = CountRows(ProtoOf, "TCP", RowsOf(Acknowledged, p))
         /\ Live(p, Udp) = CountRows(ProtoOf, "UDP", RowsOf(Acknowledged, p))
<1>. DEFINE sent == [t \in Trackers |-> IF p \in DOMAIN session[t] THEN session[t][p].sent ELSE 0]
            recv == [t \in Trackers |-> IF p \in DOMAIN session[t] THEN session[t][p].recv ELSE 0]
            tcp == [t \in Trackers |-> IF p \in DOMAIN session[t] THEN session[t][p].tcp ELSE 0]
            udp == [t \in Trackers |-> IF p \in DOMAIN session[t] THEN session[t][p].udp ELSE 0]
<1>1. FlowsOK /\ SessionsOK
  BY DEF Books
<1>2. /\ DOMAIN sent = Trackers /\ DOMAIN recv = Trackers
      /\ DOMAIN tcp = Trackers /\ DOMAIN udp = Trackers
  OBVIOUS
<1>3. \A t \in Trackers : /\ sent[t] = CountOf(DirOf, "EGRESS", Of(p, Kept(t)))
                          /\ recv[t] = CountOf(DirOf, "INGRESS", Of(p, Kept(t)))
                          /\ tcp[t] = CountOf(ProtoOf, "TCP", Of(p, Kept(t)))
                          /\ udp[t] = CountOf(ProtoOf, "UDP", Of(p, Kept(t)))
  BY <1>1, EntryTells
<1>4. /\ Live(p, Sent) = SumFunction(sent) /\ Live(p, Recv) = SumFunction(recv)
      /\ Live(p, Tcp) = SumFunction(tcp) /\ Live(p, Udp) = SumFunction(udp)
  BY DEF Live, Sent, Recv, Tcp, Udp
<1>. HIDE DEF sent, recv, tcp, udp
<1>5. /\ SumFunction(sent) = CountRows(DirOf, "EGRESS", RowsOf(Acknowledged, p))
      /\ SumFunction(recv) = CountRows(DirOf, "INGRESS", RowsOf(Acknowledged, p))
  BY <1>1, <1>2, <1>3, RowsByTracker
<1>6. /\ SumFunction(tcp) = CountRows(ProtoOf, "TCP", RowsOf(Acknowledged, p))
      /\ SumFunction(udp) = CountRows(ProtoOf, "UDP", RowsOf(Acknowledged, p))
  BY <1>1, <1>2, <1>3, RowsByTracker
<1>. QED BY <1>4, <1>5, <1>6 DEF Egress, Ingress, CountRows

(* Rows counted process by process. *)
LEMMA RowsByPid ==
  ASSUME FlowsOK, NEW f, NEW v, NEW w, DOMAIN w = Pids,
         \A p \in Pids : w[p] = CountRows(f, v, RowsOf(Acknowledged, p))
  PROVE  SumFunction(w) = CountRows(f, v, Acknowledged)
<1>. DEFINE R == {r \in Acknowledged : f[r.flow] = v}
            key == [r \in R |-> PidOf[r.flow]]
<1>1. /\ Acknowledged \subseteq AllRows
      /\ \A r \in AllRows : r.flow \in Metrics
  BY RowsAreFlows
<1>2. key \in [R -> Pids]
  BY <1>1 DEF Pids
<1>3. IsFiniteSet(R)
  <2>1. R \in SUBSET AllRows
    BY <1>1
  <2>. HIDE DEF R
  <2>. QED BY <2>1, RowsFinite
<1>4. ASSUME NEW p \in Pids
      PROVE  w[p] = Cardinality({r \in R : key[r] = p})
  <2>1. {r \in RowsOf(Acknowledged, p) : f[r.flow] = v} = {r \in R : key[r] = p}
    BY DEF RowsOf
  <2>. HIDE DEF key, R
  <2>. QED BY <2>1 DEF CountRows
<1>. HIDE DEF R, key
<1>5. SumFunction(w) = Cardinality(R)
  BY <1>2, <1>3, <1>4, PidsFinite, SumOfParts
<1>. QED BY <1>5 DEF R, CountRows

(* What is stored and what has been acknowledged differ by the rows lost     *)
(* under returned inserts and those left by failed ones.                     *)
LEMMA Balance ==
  ASSUME FlowsOK, NEW f, NEW v, NEW p
  PROVE  /\ CountRows(f, v, DOMAIN stored) + CountRows(f, v, undone)
              = CountRows(f, v, Acknowledged) + CountRows(f, v, residue)
         /\ CountRows(f, v, RowsOf(DOMAIN stored, p)) + CountRows(f, v, RowsOf(undone, p))
              = CountRows(f, v, RowsOf(Acknowledged, p)) + CountRows(f, v, RowsOf(residue, p))
<1>1. ASSUME NEW P \in SUBSET AllRows
      PROVE  Cardinality(P \intersect DOMAIN stored) + Cardinality(P \intersect undone)
               = Cardinality(P \intersect Acknowledged) + Cardinality(P \intersect residue)
  <2>. DEFINE A == P \intersect (DOMAIN stored \ residue)
              B == P \intersect residue
              C == P \intersect undone
  <2>1. A \in SUBSET AllRows /\ B \in SUBSET AllRows /\ C \in SUBSET AllRows
    OBVIOUS
  <2>2. IsFiniteSet(A) /\ IsFiniteSet(B) /\ IsFiniteSet(C)
    <3>. HIDE DEF A, B, C
    <3>. QED BY <2>1, RowsFinite
  <2>3. residue \subseteq DOMAIN stored /\ undone \intersect DOMAIN stored = {}
    BY DEF FlowsOK
  <2>4. /\ A \intersect B = {} /\ A \union B = P \intersect DOMAIN stored
        /\ A \intersect C = {} /\ A \union C = P \intersect Acknowledged
    BY <2>3 DEF Acknowledged
  <2>. HIDE DEF A, B
  <2>5. /\ Cardinality(A) \in Nat /\ Cardinality(B) \in Nat
        /\ Cardinality(A \union B) = Cardinality(A) + Cardinality(B)
    BY <2>2, <2>4, DisjointCount
  <2>. HIDE DEF C
  <2>6. /\ Cardinality(C) \in Nat
        /\ Cardinality(A \union C) = Cardinality(A) + Cardinality(C)
    BY <2>2, <2>4, DisjointCount
  <2>7. /\ Cardinality(P \intersect DOMAIN stored) = Cardinality(A) + Cardinality(B)
        /\ Cardinality(P \intersect Acknowledged) = Cardinality(A) + Cardinality(C)
    BY <2>4, <2>5, <2>6
  <2>. QED BY <2>5, <2>6, <2>7 DEF B, C
<1>2. /\ DOMAIN stored \subseteq AllRows /\ residue \subseteq AllRows
      /\ undone \subseteq AllRows /\ Acknowledged \subseteq AllRows
  BY RowsAreFlows
<1>3. CountRows(f, v, DOMAIN stored) + CountRows(f, v, undone)
        = CountRows(f, v, Acknowledged) + CountRows(f, v, residue)
  <2>. DEFINE P == {r \in AllRows : f[r.flow] = v}
  <2>1. \A R \in SUBSET AllRows : CountRows(f, v, R) = Cardinality(P \intersect R)
    <3>1. \A R \in SUBSET AllRows : {r \in R : f[r.flow] = v} = P \intersect R
      OBVIOUS
    <3>. QED BY <3>1 DEF CountRows
  <2>2. P \in SUBSET AllRows
    OBVIOUS
  <2>. HIDE DEF P
  <2>. QED BY <1>1, <1>2, <2>1, <2>2
<1>4. CountRows(f, v, RowsOf(DOMAIN stored, p)) + CountRows(f, v, RowsOf(undone, p))
        = CountRows(f, v, RowsOf(Acknowledged, p)) + CountRows(f, v, RowsOf(residue, p))
  <2>. DEFINE P == {r \in AllRows : PidOf[r.flow] = p /\ f[r.flow] = v}
  <2>1. \A R \in SUBSET AllRows : CountRows(f, v, RowsOf(R, p)) = Cardinality(P \intersect R)
    <3>1. \A R \in SUBSET AllRows : {r \in RowsOf(R, p) : f[r.flow] = v} = P \intersect R
      BY DEF RowsOf
    <3>. QED BY <3>1 DEF CountRows
  <2>2. P \in SUBSET AllRows
    OBVIOUS
  <2>. HIDE DEF P
  <2>. QED BY <1>1, <1>2, <2>1, <2>2
<1>. QED BY <1>3, <1>4

(* Rows counted remote address by remote address. *)
LEMMA RowsByRemote ==
  ASSUME NEW rows, IsFiniteSet(rows)
  PROVE  SumFunction([g \in GetRemoteIpBreakdown(rows) |-> g.total]) = Cardinality(rows)
<1>. DEFINE of(r) == {q \in rows : q.dst = r.dst /\ ProtoOf[q.flow] = ProtoOf[r.flow]}
            rec(r) == [ip |-> r.dst, proto |-> ProtoOf[r.flow], total |-> Cardinality(of(r))]
            K == GetRemoteIpBreakdown(rows)
            key == [r \in rows |-> rec(r)]
            w == [g \in K |-> g.total]
<1>1. K = {rec(r) : r \in rows}
  BY DEF GetRemoteIpBreakdown
<1>2. key \in Surjection(rows, K) /\ key \in [rows -> K]
  BY <1>1 DEF Surjection
<1>3. IsFiniteSet(K)
  <2>. HIDE DEF K, key
  <2>. QED BY <1>2, FS_Surjection
<1>4. ASSUME NEW g \in K
      PROVE  w[g] = Cardinality({r \in rows : key[r] = g})
  <2>1. PICK r \in rows : g = rec(r)
    BY <1>1
  <2>2. ASSUME NEW q \in rows
        PROVE  key[q] = g <=> q \in of(r)
    <3>1. ASSUME q \in of(r)
          PROVE  rec(q) = rec(r)
      <4>1. q.dst = r.dst /\ ProtoOf[q.flow] = ProtoOf[r.flow]
        BY <3>1
      <4>2. of(q) = of(r)
        BY <4>1
      <4>. QED BY <4>1, <4>2
    <3>2. ASSUME rec(q) = rec(r)
          PROVE  q \in of(r)
      <4>1. rec(q).ip = rec(r).ip /\ rec(q).proto = rec(r).proto
        BY <3>2
      <4>. QED BY <4>1
    <3>3. key[q] = rec(q)
      OBVIOUS
    <3>. HIDE DEF key, rec, of
    <3>. QED BY <2>1, <3>1, <3>2, <3>3
  <2>3. {q \in rows : key[q] = g} = of(r)
    <3>1. of(r) \subseteq rows
      OBVIOUS
    <3>. HIDE DEF key, of, rec
    <3>. QED BY <2>2, <3>1
  <2>4. w[g] = Cardinality(of(r))
    BY <2>1
  <2>. HIDE DEF key, of, rec, w
  <2>. QED BY <2>3, <2>4
<1>5. DOMAIN w = K
  OBVIOUS
<1>. HIDE DEF K, key, w
<1>6. SumFunction(w) = Cardinality(rows)
  BY <1>2, <1>3, <1>4, <1>5, SumOfParts
<1>. QED BY <1>6 DEF w, K

(* Over the time of the sessions, and while no row is ahead of the clock,    *)
(* the queries and the session maps add up to the same: per process and      *)
(* direction, per protocol, and over the remote addresses, for any number of *)
(* trackers (src/storage/db.py against src/core/aggregator.py), but for the  *)
(* rows that a connection shared with requests has rolled back under inserts *)
(* that returned or kept of inserts that raised, which are accounted for one *)
(* by one.                                                                   *)
THEOREM ReportsTellSessions == Spec => []ReportsMatchSessions
<1>. DEFINE rows == Recent(Start + MaxTicks)
            dist == GetProtocolDistribution(rows)
            bytes(x) == IF x \in DOMAIN dist THEN dist[x] ELSE 0
            total(T) == HistoryTotal(T).sent + HistoryTotal(T).recv
            of(S, p) == {r \in S : PidOf[r.flow] = p}
            over(S, x) == Cardinality({r \in S : ProtoOf[r.flow] = x})
            tcp == {r \in rows : ProtoOf[r.flow] = "TCP"}
<1>1. ASSUME Books, rows = DOMAIN stored,
             NEW T \in History("ALL"), NEW T6 \in History("TCP")
      PROVE  /\ \A p \in Pids :
                  LET h == HistoryTotal({g \in T : g.pid = p})
                  IN  /\ h.sent + Egress(of(undone, p))
                           = Live(p, Sent) + Egress(of(residue, p))
                      /\ h.recv + Ingress(of(undone, p))
                           = Live(p, Recv) + Ingress(of(residue, p))
             /\ total(T6) = bytes("TCP")
             /\ bytes("TCP") + over(undone, "TCP")
                  = SumFunction([p \in Pids |-> Live(p, Tcp)]) + over(residue, "TCP")
             /\ bytes("UDP") + over(undone, "UDP")
                  = SumFunction([p \in Pids |-> Live(p, Udp)]) + over(residue, "UDP")
             /\ total(T) = SumFunction([g \in GetRemoteIpBreakdown(rows) |-> g.total])
  <2>1. /\ FlowsOK /\ IsFiniteSet(rows) /\ IsFiniteSet(tcp)
        /\ \A r \in rows : r.flow \in Metrics
        /\ \A r \in tcp : r.flow \in Metrics
    <3>1. FlowsOK
      BY <1>1 DEF Books
    <3>2. DOMAIN stored \subseteq AllRows /\ \A r \in DOMAIN stored : r.flow \in Metrics
      BY <3>1, RowsAreFlows
    <3>3. IsFiniteSet(rows)
      BY <1>1, <3>1, <3>2, RowsFinite
    <3>4. IsFiniteSet(tcp)
      <4>. HIDE DEF rows
      <4>. QED BY <3>3, FS_Subset
    <3>. HIDE DEF rows
    <3>. QED BY <1>1, <3>1, <3>2, <3>3, <3>4
  <2>2. T = TopProcesses(rows)
    <3>1. {r \in rows : Passes("ALL", r.flow)} = rows
      BY DEF Passes
    <3>2. T \in GetTopProcesses(rows, Cardinality(Metrics))
      BY <3>1 DEF History, Report
    <3>. HIDE DEF rows
    <3>. QED BY <2>1, <3>2, AllGroups
  <2>3. T6 = TopProcesses(tcp)
    <3>1. {r \in rows : Passes("TCP", r.flow)} = tcp
      BY DEF Passes
    <3>2. T6 \in GetTopProcesses(tcp, Cardinality(Metrics))
      BY <3>1 DEF History, Report
    <3>. HIDE DEF rows, tcp
    <3>. QED BY <2>1, <3>2, AllGroups
  <2>. HIDE DEF rows
  <2>4. ASSUME NEW p \in Pids, NEW h, h = HistoryTotal({g \in T : g.pid = p})
        PROVE  /\ h.sent + Egress(of(undone, p)) = Live(p, Sent) + Egress(of(residue, p))
               /\ h.recv + Ingress(of(undone, p)) = Live(p, Recv) + Ingress(of(residue, p))
    <3>1. {g \in T : g.pid = p} = TopProcesses(RowsOf(DOMAIN stored, p))
      BY <1>1, <2>2, GroupsOfPid
    <3>2. IsFiniteSet(RowsOf(DOMAIN stored, p))
      <4>1. RowsOf(DOMAIN stored, p) \in SUBSET AllRows
        BY DEF RowsOf, AllRows
      <4>. QED BY <2>1, <4>1, RowsFinite
    <3>3. h = [sent |-> Egress(RowsOf(DOMAIN stored, p)), recv |-> Ingress(RowsOf(DOMAIN stored, p))]
      BY <2>4, <3>1, <3>2, TotalOfGroups
    <3>4. /\ Live(p, Sent) = Egress(RowsOf(Acknowledged, p))
          /\ Live(p, Recv) = Ingress(RowsOf(Acknowledged, p))
      BY <1>1, LiveTells
    <3>5. \A R : /\ Egress(RowsOf(R, p)) = CountRows(DirOf, "EGRESS", RowsOf(R, p))
                 /\ Ingress(RowsOf(R, p)) = CountRows(DirOf, "INGRESS", RowsOf(R, p))
                 /\ of(R, p) = RowsOf(R, p)
      BY DEF Egress, Ingress, CountRows, RowsOf
    <3>6. h.sent + Egress(of(undone, p)) = Live(p, Sent) + Egress(of(residue, p))
      <4>1. CountRows(DirOf, "EGRESS", RowsOf(DOMAIN stored, p))
                + CountRows(DirOf, "EGRESS", RowsOf(undone, p))
              = CountRows(DirOf, "EGRESS", RowsOf(Acknowledged, p))
                + CountRows(DirOf, "EGRESS", RowsOf(residue, p))
        BY <2>1, Balance
      <4>. HIDE DEF of
      <4>. QED BY <3>3, <3>4, <3>5, <4>1
    <3>7. h.recv + Ingress(of(undone, p)) = Live(p, Recv) + Ingress(of(residue, p))
      <4>1. CountRows(DirOf, "INGRESS", RowsOf(DOMAIN stored, p))
                + CountRows(DirOf, "INGRESS", RowsOf(undone, p))
              = CountRows(DirOf, "INGRESS", RowsOf(Acknowledged, p))
                + CountRows(DirOf, "INGRESS", RowsOf(residue, p))
        BY <2>1, Balance
      <4>. HIDE DEF of
      <4>. QED BY <3>3, <3>4, <3>5, <4>1
    <3>. QED BY <3>6, <3>7
  <2>5. ASSUME NEW x
        PROVE  bytes(x) = CountRows(ProtoOf, x, DOMAIN stored)
    <3>1. CASE x \in DOMAIN dist
      BY <1>1, <3>1 DEF GetProtocolDistribution, CountRows
    <3>2. CASE x \notin DOMAIN dist
      <4>1. {r \in rows : ProtoOf[r.flow] = x} = {}
        BY <3>2 DEF GetProtocolDistribution
      <4>. QED BY <1>1, <3>2, <4>1, FS_EmptySet DEF CountRows
    <3>. QED BY <3>1, <3>2
  <2>6. total(T6) = bytes("TCP")
    <3>1. total(T6) = Cardinality(tcp)
      <4>. HIDE DEF tcp
      <4>. QED BY <2>1, <2>3, TotalOfGroups, BothWays
    <3>. QED BY <1>1, <2>5, <3>1 DEF CountRows
  <2>7. ASSUME NEW x, NEW w, DOMAIN w = Pids,
               \A p \in Pids : w[p] = CountRows(ProtoOf, x, RowsOf(Acknowledged, p))
        PROVE  bytes(x) + over(undone, x) = SumFunction(w) + over(residue, x)
    <3>1. SumFunction(w) = CountRows(ProtoOf, x, Acknowledged)
      BY <2>1, <2>7, RowsByPid
    <3>2. over(undone, x) = CountRows(ProtoOf, x, undone)
      BY DEF CountRows
    <3>3. over(residue, x) = CountRows(ProtoOf, x, residue)
      BY DEF CountRows
    <3>4. CountRows(ProtoOf, x, DOMAIN stored) + CountRows(ProtoOf, x, undone)
            = CountRows(ProtoOf, x, Acknowledged) + CountRows(ProtoOf, x, residue)
      BY <2>1, Balance
    <3>5. bytes(x) = CountRows(ProtoOf, x, DOMAIN stored)
      BY <2>5
    <3>. HIDE DEF bytes, over
    <3>. QED BY <3>1, <3>2, <3>3, <3>4, <3>5
  <2>8. bytes("TCP") + over(undone, "TCP")
          = SumFunction([p \in Pids |-> Live(p, Tcp)]) + over(residue, "TCP")
    <3>. DEFINE w == [p \in Pids |-> Live(p, Tcp)]
    <3>1. \A p \in Pids : w[p] = CountRows(ProtoOf, "TCP", RowsOf(Acknowledged, p))
      BY <1>1, LiveTells
    <3>2. DOMAIN w = Pids
      OBVIOUS
    <3>. HIDE DEF w, bytes, over
    <3>3. bytes("TCP") + over(undone, "TCP") = SumFunction(w) + over(residue, "TCP")
      BY <2>7, <3>1, <3>2
    <3>. QED BY <3>3 DEF w
  <2>9. bytes("UDP") + over(undone, "UDP")
          = SumFunction([p \in Pids |-> Live(p, Udp)]) + over(residue, "UDP")
    <3>. DEFINE w == [p \in Pids |-> Live(p, Udp)]
    <3>1. \A p \in Pids : w[p] = CountRows(ProtoOf, "UDP", RowsOf(Acknowledged, p))
      BY <1>1, LiveTells
    <3>2. DOMAIN w = Pids
      OBVIOUS
    <3>. HIDE DEF w, bytes, over
    <3>3. bytes("UDP") + over(undone, "UDP") = SumFunction(w) + over(residue, "UDP")
      BY <2>7, <3>1, <3>2
    <3>. QED BY <3>3 DEF w
  <2>10. total(T) = SumFunction([g \in GetRemoteIpBreakdown(rows) |-> g.total])
    BY <2>1, <2>2, TotalOfGroups, BothWays, RowsByRemote
  <2>. QED BY <2>4, <2>6, <2>8, <2>9, <2>10
<1>2. Books => ReportsMatchSessions
  BY <1>1 DEF ReportsMatchSessions
<1>. QED BY <1>2, BooksKept, PTL
=============================================================================
