-------------------------- MODULE Attribution_proofs --------------------------
(***************************************************************************)
(* Proofs about the names flows are stored under, for any PIDs, names, TTL *)
(* and traffic.                                                            *)
(***************************************************************************)
EXTENDS Attribution, SequenceTheorems, TLAPS

Flows   == [pid : Pids, comm : Comms, at : Times]
Records == [pid : Pids, comm : Names, raised : Times, asked : Times]
Entries == [comm : Names, seen : Times]

(* A lookup's own answer is a name if either alternative is. *)
LEMMA OrNames == \A c \in Comms, d \in Names : Or(c, d) \in Names
BY DEF Or, Names

-----------------------------------------------------------------------------
(* Type correctness. *)

(* A lookup has a metric to look up, and a name if it has read one.          *)
LookupOK == /\ step # "idle" => queue # <<>>
            /\ step = "cmdline" => found \in Comms

Typed == TypeOK /\ LookupOK

LEMMA TypeInit == Init => Typed
<1>. SUFFICES ASSUME Init
              PROVE  Typed
  OBVIOUS
<1>1. 1 \in Times /\ 0 \in Times
  BY AttributionAssumption DEF Times
<1>2. now \in Times /\ asked \in Times /\ named \in [Pids -> [Comms -> Times]]
  BY <1>1 DEF Init
<1>. QED BY <1>2 DEF Init, Typed, TypeOK, LookupOK

(* The metric a lookup is for. *)
LEMMA HeadTyped ==
  ASSUME Typed, queue # <<>>
  PROVE  /\ Flow \in Flows
         /\ Tail(queue) \in Seq(Flows)
<1>1. queue \in Seq(Flows)
  BY DEF Typed, TypeOK, Flows
<1>. QED BY <1>1, HeadTailProperties DEF Flow

LEMMA AttributeTyped ==
  ASSUME Typed, queue # <<>>, NEW c \in Names, NEW t \in Times, Attribute(c, t)
  PROVE  /\ records' \in Seq(Records) /\ queue' \in Seq(Flows)
         /\ step' = "idle" /\ asked' \in Times /\ found' = NoProcess
<1>1. [pid |-> Flow.pid, comm |-> c, raised |-> Flow.at, asked |-> t] \in Records
  BY HeadTyped DEF Flows, Records
<1>2. records \in Seq(Records)
  BY DEF Typed, TypeOK, Records
<1>3. 0 \in Times
  BY AttributionAssumption DEF Times
<1>. QED BY <1>1, <1>2, <1>3, HeadTyped DEF Attribute

LEMMA ResolveTyped ==
  ASSUME Typed, queue # <<>>, NEW c \in Names, Resolve(c)
  PROVE  Typed'
<1>1. /\ records' \in Seq(Records) /\ queue' \in Seq(Flows)
      /\ step' = "idle" /\ asked' \in Times /\ found' = NoProcess
  BY AttributeTyped DEF Resolve, Typed, TypeOK
<1>2. DOMAIN cache' \subseteq Pids /\ \A p \in DOMAIN cache' : cache'[p] \in Entries
  BY HeadTyped DEF Resolve, Typed, TypeOK, Flows, Entries
<1>3. UNCHANGED world
  BY DEF Resolve
<1>. QED BY <1>1, <1>2, <1>3
         DEF Typed, TypeOK, LookupOK, world, Flows, Records, Entries

LEMMA TypeNext == Typed /\ [Next]_vars => Typed'
<1>. SUFFICES ASSUME Typed, [Next]_vars
              PROVE  Typed'
  OBVIOUS
<1>1. CASE Tick
  <2>1. now' \in Times
    BY <1>1, AttributionAssumption DEF Tick, Times, Typed, TypeOK
  <2>2. named' \in [Pids -> [Comms -> Times]]
    BY <1>1, <2>1 DEF Tick, Typed, TypeOK
  <2>. QED BY <1>1, <2>1, <2>2 DEF Tick, Typed, TypeOK, LookupOK, get
<1>2. ASSUME NEW p \in Pids, Exit(p)
      PROVE  Typed'
  BY <1>2 DEF Exit, Typed, TypeOK, LookupOK, get
<1>3. ASSUME NEW p \in Pids, NEW c \in Comms, Rename(p, c)
      PROVE  Typed'
  BY <1>3 DEF Rename, Typed, TypeOK, LookupOK, get
<1>4. ASSUME NEW p \in Pids, NEW c \in Comms, Raise(p, c)
      PROVE  Typed'
  <2>1. [pid |-> p, comm |-> c, at |-> now] \in Flows
    BY DEF Typed, TypeOK, Flows
  <2>2. queue' \in Seq(Flows) /\ queue' # <<>>
    BY <1>4, <2>1 DEF Raise, Typed, TypeOK, Flows
  <2>3. named' \in [Pids -> [Comms -> Times]]
    BY <1>4 DEF Raise, Typed, TypeOK
  <2>. QED BY <1>4, <2>2, <2>3 DEF Raise, Typed, TypeOK, LookupOK, Flows, get
<1>5. CASE Hit
  <2>1. /\ Flow.pid \in DOMAIN cache /\ now \in Times
        /\ cache[Flow.pid] \in Entries
    BY <1>5 DEF Hit, Cached, Typed, TypeOK, Entries
  <2>2. /\ records' \in Seq(Records) /\ queue' \in Seq(Flows)
        /\ step' = "idle" /\ asked' \in Times /\ found' = NoProcess
    BY <1>5, <2>1, AttributeTyped DEF Hit, Entries
  <2>3. DOMAIN cache' \subseteq Pids /\ \A p \in DOMAIN cache' : cache'[p] \in Entries
    BY <1>5, <2>1 DEF Hit, Typed, TypeOK, Entries
  <2>. QED BY <1>5, <2>2, <2>3
           DEF Hit, Typed, TypeOK, LookupOK, world, Flows, Records, Entries
<1>6. CASE Miss \/ Exists \/ ReadComm \/ CmdlineGone
  <2>1. Flow.pid \in Pids
    BY <1>6, HeadTyped DEF Miss, Exists, ReadComm, CmdlineGone, Typed, LookupOK, Flows
  <2>. QED BY <1>6, <2>1 DEF Miss, Exists, ReadComm, CmdlineGone, Typed, TypeOK,
                             LookupOK, world
<1>7. CASE ReadCmdline
  <2>1. queue # <<>> /\ found \in Comms /\ Flow.comm \in Names
    BY <1>7, HeadTyped DEF ReadCmdline, Typed, LookupOK, Flows, Names
  <2>. QED BY <1>7, <2>1, OrNames, ResolveTyped DEF ReadCmdline
<1>8. CASE AskPsutil
  <2>1. queue # <<>> /\ proc[Flow.pid] \in Comms /\ Flow.comm \in Names
    BY <1>8, HeadTyped DEF AskPsutil, Typed, TypeOK, LookupOK, Flows, Names
  <2>. QED BY <1>8, <2>1, OrNames, ResolveTyped DEF AskPsutil
<1>9. CASE FallBack
  <2>1. queue # <<>> /\ Flow.comm \in Comms /\ PidName \in Names
    BY <1>9, HeadTyped DEF FallBack, Typed, LookupOK, Flows, Names
  <2>. QED BY <1>9, <2>1, OrNames, ResolveTyped DEF FallBack
<1>10. CASE UNCHANGED vars
  BY <1>10 DEF vars, world, get, Typed, TypeOK, LookupOK
<1>. QED BY <1>1, <1>2, <1>3, <1>4, <1>5, <1>6, <1>7, <1>8, <1>9, <1>10 DEF Next

(* Type correctness of process table, queue, cache and records. *)
THEOREM TypeCorrect == Spec => []TypeOK
<1>1. Typed => TypeOK
  BY DEF Typed
<1>. QED BY <1>1, TypeInit, TypeNext, PTL DEF Spec

-----------------------------------------------------------------------------
(* Where a name comes from. *)

(* A PID that is in use has its name now, and names are given in the past.   *)
NamedOK == \A p \in Pids : /\ proc[p] \in Comms => named[p][proc[p]] = now
                           /\ \A c \in Comms : named[p][c] <= now

(* A metric in the queue carries a name its PID had, and so does a lookup    *)
(* that has read one.                                                        *)
QueueOK == \A i \in DOMAIN queue :
             /\ queue[i].at <= now
             /\ named[queue[i].pid][queue[i].comm] >= queue[i].at
FoundOK == step = "cmdline" => named[Flow.pid][found] >= Flow.at

(* PID p has had name c since time t, "pid_<n>" standing for none. *)
Had(p, c, t) == named[p][IF c = PidName THEN Empty ELSE c] >= t

(* Record i is the last one of PID p. *)
LastOf(p, i) == /\ i \in DOMAIN records /\ records[i].pid = p
                /\ \A k \in DOMAIN records : k > i => records[k].pid # p

(* A cache entry is what the last record of its PID was made from.           *)
CacheOK == \A p \in DOMAIN cache : \E i \in DOMAIN records :
             /\ LastOf(p, i)
             /\ records[i].comm = cache[p].comm /\ records[i].asked = cache[p].seen

Named == NamedOK /\ QueueOK /\ FoundOK /\ CacheOK /\ NamedByLookups

LEMMA NamedInit == Init => Named
<1>. SUFFICES ASSUME Init
              PROVE  Named
  OBVIOUS
<1>1. /\ queue = <<>> /\ cache = <<>> /\ records = <<>> /\ now = 1
      /\ step = "idle" /\ \A p \in Pids : proc[p] = NoProcess
      /\ \A p \in Pids, c \in Comms : named[p][c] = 0
  BY DEF Init
<1>. QED BY <1>1, AttributionAssumption
         DEF Named, NamedOK, QueueOK, FoundOK, CacheOK, NamedByLookups

(* Names are only ever given, later than those before. *)
LEMMA WorldNames ==
  ASSUME Typed, Named, Tick \/ \E p \in Pids : Exit(p) \/ \E c \in Comms : Rename(p, c)
  PROVE  /\ now' >= now
         /\ \A p \in Pids, c \in Comms : named'[p][c] >= named[p][c]
         /\ NamedOK'
<1>1. /\ now \in Nat /\ named \in [Pids -> [Comms -> Nat]]
      /\ proc \in [Pids -> Comms \union {NoProcess}]
  BY AttributionAssumption DEF Typed, TypeOK, Times
<1>2. CASE Tick
  BY <1>1, <1>2 DEF Tick, Named, NamedOK
<1>3. ASSUME NEW p \in Pids, Exit(p)
      PROVE  now' >= now /\ named' = named /\ NamedOK'
  BY <1>1, <1>3, AttributionAssumption DEF Exit, Named, NamedOK
<1>4. ASSUME NEW p \in Pids, NEW c \in Comms, Rename(p, c)
      PROVE  /\ now' = now
             /\ \A q \in Pids, d \in Comms : named'[q][d] >= named[q][d]
             /\ NamedOK'
  <2>1. \A q \in Pids, d \in Comms :
          named'[q][d] = IF q = p /\ d = c THEN now ELSE named[q][d]
    BY <1>1, <1>4 DEF Rename
  <2>2. now' = now /\ \A q \in Pids : proc'[q] = IF q = p THEN c ELSE proc[q]
    BY <1>1, <1>4 DEF Rename
  <2>. QED BY <1>1, <1>4, <2>1, <2>2 DEF Named, NamedOK
<1>. QED BY <1>1, <1>2, <1>3, <1>4

(* ... so they still explain every flow. *)
LEMMA WorldKeepsNames ==
  ASSUME Typed, Named, Tick \/ \E p \in Pids : Exit(p) \/ \E c \in Comms : Rename(p, c)
  PROVE  Named'
<1>1. UNCHANGED <<queue, cache, get, records>>
  BY DEF Tick, Exit, Rename
<1>2. /\ now \in Nat /\ named \in [Pids -> [Comms -> Nat]] /\ named' \in [Pids -> [Comms -> Nat]]
      /\ now' \in Nat
  BY TypeNext, AttributionAssumption DEF Next, Typed, TypeOK, Times
<1>3. queue \in Seq(Flows) /\ records \in Seq(Records)
  BY DEF Typed, TypeOK, Flows, Records
<1>4. /\ \A i \in DOMAIN queue :
           queue[i].pid \in Pids /\ queue[i].comm \in Comms /\ queue[i].at \in Nat
      /\ \A i \in DOMAIN records :
           records[i].pid \in Pids /\ records[i].comm \in Names /\ records[i].raised \in Nat
  <2>1. /\ \A i \in DOMAIN queue : queue[i] \in Flows
        /\ \A i \in DOMAIN records : records[i] \in Records
    BY <1>3
  <2>. QED BY <2>1, AttributionAssumption DEF Flows, Records, Times
<1>5. QueueOK'
  BY <1>1, <1>2, <1>4, WorldNames DEF Named, QueueOK
<1>6. FoundOK'
  <2>1. step = "cmdline" => Flow.pid \in Pids /\ Flow.at \in Nat /\ found \in Comms
    BY HeadTyped, AttributionAssumption DEF Typed, LookupOK, Flows, Times
  <2>. QED BY <1>1, <1>2, <2>1, WorldNames DEF Named, FoundOK, Flow, get
<1>7. CacheOK'
  BY <1>1 DEF Named, CacheOK, LastOf
<1>8. NamedByLookups'
  <2>1. \A i \in DOMAIN records : Resolved(records[i]) => Resolved(records[i])'
    BY <1>1, <1>2, <1>4, WorldNames, AttributionAssumption DEF Resolved, Names
  <2>. QED BY <1>1, <2>1 DEF Named, NamedByLookups, Refreshes
<1>. QED BY <1>5, <1>6, <1>7, <1>8, WorldNames DEF Named

(* An event is raised under the name of the thread that made the call.       *)
LEMMA RaiseNames ==
  ASSUME Typed, Named, NEW p \in Pids, NEW c \in Comms, Raise(p, c)
  PROVE  Named'
<1>. DEFINE e == [pid |-> p, comm |-> c, at |-> now]
<1>1. UNCHANGED <<now, proc, cache, step, found, records>>
  BY DEF Raise, get
<1>2. /\ queue \in Seq(Flows) /\ records \in Seq(Records) /\ now \in Nat
      /\ named \in [Pids -> [Comms -> Nat]] /\ proc \in [Pids -> Comms \union {NoProcess}]
  BY AttributionAssumption DEF Typed, TypeOK, Flows, Records, Times
<1>3. \A q \in Pids, d \in Comms :
        named'[q][d] = IF q = p /\ d = c THEN now ELSE named[q][d]
  BY <1>2 DEF Raise
<1>4. \A q \in Pids, d \in Comms : named'[q][d] >= named[q][d]
  BY <1>2, <1>3 DEF Named, NamedOK
<1>5. /\ DOMAIN queue' = 1 .. Len(queue) + 1 /\ DOMAIN queue = 1 .. Len(queue)
      /\ \A i \in DOMAIN queue : queue'[i] = queue[i]
      /\ queue'[Len(queue) + 1] = e
  <2>1. e \in Flows
    BY DEF Typed, TypeOK, Flows
  <2>. QED BY <1>2, <2>1 DEF Raise
<1>6. NamedOK'
  <2>. SUFFICES ASSUME NEW q \in Pids
                PROVE  /\ proc[q] \in Comms => named'[q][proc[q]] = now
                       /\ \A d \in Comms : named'[q][d] <= now
    BY <1>1 DEF NamedOK
  <2>1. /\ proc[q] \in Comms => named[q][proc[q]] = now
        /\ \A d \in Comms : named[q][d] <= now
    BY DEF Named, NamedOK
  <2>2. ASSUME NEW d \in Comms, named[q][d] <= now
        PROVE  /\ named'[q][d] <= now
               /\ named[q][d] = now => named'[q][d] = now
    <3>1. named'[q][d] = IF q = p /\ d = c THEN now ELSE named[q][d]
      BY <1>3
    <3>2. named[q][d] \in Nat /\ now \in Nat
      BY <1>2
    <3>. QED BY <2>2, <3>1, <3>2
  <2>. HIDE DEF e
  <2>. QED BY <2>1, <2>2
<1>7. QueueOK'
  <2>. SUFFICES ASSUME NEW i \in DOMAIN queue'
                PROVE  /\ queue'[i].at <= now'
                       /\ named'[queue'[i].pid][queue'[i].comm] >= queue'[i].at
    BY DEF QueueOK
  <2>1. CASE i \in DOMAIN queue
    <3>1. queue[i].pid \in Pids /\ queue[i].comm \in Comms /\ queue[i].at \in Nat
      <4>1. queue[i] \in Flows
        BY <1>2, <2>1
      <4>. QED BY <4>1, AttributionAssumption DEF Flows, Times
    <3>2. named'[queue[i].pid][queue[i].comm] \in Nat
      BY <1>2, <1>3, <3>1
    <3>3. /\ queue[i].at <= now
          /\ named[queue[i].pid][queue[i].comm] >= queue[i].at
      BY <2>1 DEF Named, QueueOK
    <3>4. named'[queue[i].pid][queue[i].comm] >= named[queue[i].pid][queue[i].comm]
      BY <1>4, <3>1
    <3>5. named[queue[i].pid][queue[i].comm] \in Nat
      BY <1>2, <3>1
    <3>6. named'[queue[i].pid][queue[i].comm] >= queue[i].at
      BY <3>1, <3>2, <3>3, <3>4, <3>5
    <3>. QED BY <1>1, <1>5, <2>1, <3>3, <3>6
  <2>2. CASE i = Len(queue) + 1
    BY <1>1, <1>2, <1>3, <1>5, <2>2
  <2>. QED BY <1>5, <2>1, <2>2
<1>8. FoundOK'
  <2>. SUFFICES ASSUME step = "cmdline"
                PROVE  named'[Flow.pid][found] >= Flow.at /\ Flow' = Flow
    BY <1>1 DEF FoundOK
  <2>1. queue # <<>> /\ found \in Comms /\ Flow \in Flows
    BY HeadTyped DEF Typed, LookupOK
  <2>2. Flow.pid \in Pids /\ Flow.at \in Nat
    BY <2>1, AttributionAssumption DEF Flows, Times
  <2>3. Head(queue') = Head(queue)
    BY <1>2, <1>5, <2>1 DEF Raise
  <2>4. named[Flow.pid][found] \in Nat /\ named'[Flow.pid][found] \in Nat
    BY <1>2, <1>3, <2>1, <2>2
  <2>. QED BY <1>4, <2>1, <2>2, <2>3, <2>4 DEF Named, FoundOK, Flow
<1>9. CacheOK'
  BY <1>1 DEF Named, CacheOK, LastOf
<1>10. NamedByLookups'
  <2>1. ASSUME NEW i \in DOMAIN records, Resolved(records[i])
        PROVE  Resolved(records[i])'
    <3>1. records[i] \in Records
      BY <1>2
    <3>2. PICK d \in Comms :
            d = IF records[i].comm = PidName THEN Empty ELSE records[i].comm
      BY <3>1, AttributionAssumption DEF Records, Names
    <3>3. records[i].pid \in Pids /\ records[i].raised \in Nat
      BY <3>1, AttributionAssumption DEF Records, Times
    <3>4. named[records[i].pid][d] \in Nat /\ named'[records[i].pid][d] \in Nat
      BY <1>2, <1>3, <3>2, <3>3
    <3>5. named[records[i].pid][d] >= records[i].raised
      BY <2>1, <3>2 DEF Resolved
    <3>6. named'[records[i].pid][d] >= records[i].raised
      BY <1>4, <3>2, <3>3, <3>4, <3>5
    <3>. QED BY <1>1, <3>2, <3>6 DEF Resolved
  <2>. QED BY <1>1, <2>1 DEF Named, NamedByLookups, Refreshes
<1>. QED BY <1>6, <1>7, <1>8, <1>9, <1>10 DEF Named

(* A lookup that is under way has attributed nothing yet. *)
LEMMA LookupNames ==
  ASSUME Typed, Named, Miss \/ Exists \/ ReadComm \/ CmdlineGone
  PROVE  Named'
<1>1. UNCHANGED <<world, queue, cache, records>>
  BY DEF Miss, Exists, ReadComm, CmdlineGone
<1>2. NamedOK' /\ QueueOK' /\ CacheOK' /\ NamedByLookups'
  BY <1>1 DEF world, Named, NamedOK, QueueOK, CacheOK, LastOf, NamedByLookups, Resolved,
              Refreshes
<1>3. FoundOK'
  <2>. SUFFICES ASSUME step' = "cmdline"
                PROVE  named[Flow.pid][found'] >= Flow.at
    BY <1>1 DEF FoundOK, Flow, world
  <2>1. step = "comm" /\ proc[Flow.pid] # NoProcess /\ found' = proc[Flow.pid]
    BY DEF Miss, Exists, ReadComm, CmdlineGone
  <2>2. queue # <<>> /\ Flow \in Flows
    BY <2>1, HeadTyped DEF Typed, LookupOK
  <2>3. Flow.at <= now
    <3>1. 1 \in DOMAIN queue /\ Flow = queue[1]
      BY <2>2 DEF Flow, Typed, TypeOK
    <3>. QED BY <3>1 DEF Named, QueueOK
  <2>4. proc[Flow.pid] \in Comms /\ named[Flow.pid][proc[Flow.pid]] = now
    BY <2>1, <2>2 DEF Typed, TypeOK, Flows, Named, NamedOK
  <2>. QED BY <2>1, <2>3, <2>4
<1>. QED BY <1>2, <1>3 DEF Named

(* What a new record does to the ones before it: nothing. *)
LEMMA AttributeNames ==
  ASSUME Typed, Named, queue # <<>>, NEW c \in Names, NEW t \in Times, Attribute(c, t),
         UNCHANGED world,
         \/ Had(Flow.pid, c, Flow.at)
         \/ \E i \in DOMAIN records : /\ LastOf(Flow.pid, i) /\ records[i].comm = c
                                      /\ t < records[i].asked + TTL,
         /\ DOMAIN cache' = DOMAIN cache \union {Flow.pid}
         /\ \A p \in DOMAIN cache : p # Flow.pid => cache'[p] = cache[p]
         /\ cache'[Flow.pid].comm = c /\ cache'[Flow.pid].seen = t
  PROVE  Named'
<1>. DEFINE r == [pid |-> Flow.pid, comm |-> c, raised |-> Flow.at, asked |-> t]
<1>1. /\ records \in Seq(Records) /\ queue \in Seq(Flows) /\ Flow \in Flows
      /\ r \in Records
  BY HeadTyped DEF Typed, TypeOK, Flows, Records
<1>2. PICK n \in Nat : n = Len(records) + 1
  BY <1>1
<1>3. /\ DOMAIN records = 1 .. n - 1 /\ DOMAIN records' = 1 .. n
      /\ records'[n] = r /\ \A i \in DOMAIN records : records'[i] = records[i]
  BY <1>1, <1>2 DEF Attribute
<1>4. NamedOK' /\ FoundOK'
  BY DEF Named, NamedOK, FoundOK, Attribute, world
<1>5. QueueOK'
  <2>1. /\ queue' = Tail(queue) /\ DOMAIN queue = 1 .. Len(queue)
        /\ Len(queue') = Len(queue) - 1 /\ DOMAIN queue' = 1 .. Len(queue')
        /\ \A i \in 1 .. Len(queue') : queue'[i] = queue[i + 1]
    BY <1>1, HeadTailProperties DEF Attribute
  <2>2. \A i \in DOMAIN queue' : i + 1 \in DOMAIN queue
    BY <1>1, <2>1
  <2>. QED BY <2>1, <2>2 DEF Named, QueueOK, world
<1>6. CacheOK'
  <2>. SUFFICES ASSUME NEW p \in DOMAIN cache'
                PROVE  \E i \in DOMAIN records' :
                         /\ LastOf(p, i)'
                         /\ records'[i].comm = cache'[p].comm
                         /\ records'[i].asked = cache'[p].seen
    BY DEF CacheOK
  <2>1. CASE p = Flow.pid
    <3>1. n \in DOMAIN records' /\ LastOf(p, n)'
      BY <1>2, <1>3, <2>1 DEF LastOf
    <3>. QED BY <1>3, <2>1, <3>1
  <2>2. CASE p # Flow.pid
    <3>1. PICK i \in DOMAIN records : /\ LastOf(p, i)
                                      /\ records[i].comm = cache[p].comm
                                      /\ records[i].asked = cache[p].seen
      BY <2>2 DEF Named, CacheOK
    <3>2. i \in DOMAIN records' /\ LastOf(p, i)'
      BY <1>3, <2>2, <3>1 DEF LastOf
    <3>. QED BY <1>3, <2>2, <3>1, <3>2
  <2>. QED BY <2>1, <2>2
<1>7. NamedByLookups'
  <2>. SUFFICES ASSUME NEW j \in DOMAIN records'
                PROVE  \/ Resolved(records[j])'
                       \/ \E i \in DOMAIN records' :
                            Refreshes(i, j)' /\ records'[i].comm = records'[j].comm
    BY DEF NamedByLookups
  <2>1. CASE j \in DOMAIN records
    <3>1. CASE Resolved(records[j])
      BY <1>3, <2>1, <3>1 DEF Resolved, world
    <3>2. CASE \E i \in DOMAIN records :
                 Refreshes(i, j) /\ records[i].comm = records[j].comm
      <4>1. PICK i \in DOMAIN records :
                   Refreshes(i, j) /\ records[i].comm = records[j].comm
        BY <3>2
      <4>2. Refreshes(i, j)'
        BY <1>3, <2>1, <4>1 DEF Refreshes
      <4>. QED BY <1>3, <2>1, <4>1, <4>2
    <3>. QED BY <2>1, <3>1, <3>2 DEF Named, NamedByLookups
  <2>2. CASE j = n
    <3>1. CASE Had(Flow.pid, c, Flow.at)
      BY <1>3, <2>2, <3>1 DEF Resolved, Had, world
    <3>2. CASE \E i \in DOMAIN records : /\ LastOf(Flow.pid, i) /\ records[i].comm = c
                                         /\ t < records[i].asked + TTL
      <4>1. PICK i \in DOMAIN records : /\ LastOf(Flow.pid, i) /\ records[i].comm = c
                                        /\ t < records[i].asked + TTL
        BY <3>2
      <4>2. Refreshes(i, j)'
        BY <1>2, <1>3, <2>2, <4>1 DEF Refreshes, LastOf
      <4>. QED BY <1>3, <2>2, <4>1, <4>2
    <3>. QED BY <3>1, <3>2
  <2>. QED BY <1>3, <2>1, <2>2
<1>. QED BY <1>4, <1>5, <1>6, <1>7 DEF Named

LEMMA ResolveNames ==
  ASSUME Typed, Named, queue # <<>>, NEW c \in Names, Resolve(c),
         Had(Flow.pid, c, Flow.at)
  PROVE  Named'
<1>1. Attribute(c, asked) /\ asked \in Times /\ UNCHANGED world
  BY DEF Resolve, Typed, TypeOK
<1>2. /\ DOMAIN cache' = DOMAIN cache \union {Flow.pid}
      /\ \A p \in DOMAIN cache : p # Flow.pid => cache'[p] = cache[p]
      /\ cache'[Flow.pid].comm = c /\ cache'[Flow.pid].seen = asked
  BY DEF Resolve
<1>. QED BY <1>1, <1>2, AttributeNames

LEMMA HitNames ==
  ASSUME Typed, Named, Hit
  PROVE  Named'
<1>. DEFINE e == cache[Flow.pid]
<1>1. /\ queue # <<>> /\ Flow.pid \in DOMAIN cache /\ now < e.seen + TTL
      /\ Attribute(e.comm, now) /\ UNCHANGED world
  BY DEF Hit, Cached
<1>2. e \in Entries /\ now \in Times
  BY <1>1 DEF Typed, TypeOK, Entries
<1>3. /\ DOMAIN cache' = DOMAIN cache \union {Flow.pid}
      /\ \A p \in DOMAIN cache : p # Flow.pid => cache'[p] = cache[p]
      /\ cache'[Flow.pid].comm = e.comm /\ cache'[Flow.pid].seen = now
  BY <1>1, <1>2 DEF Hit, Entries
<1>4. \E i \in DOMAIN records : /\ LastOf(Flow.pid, i) /\ records[i].comm = e.comm
                                /\ now < records[i].asked + TTL
  BY <1>1 DEF Named, CacheOK
<1>5. e.comm \in Names
  BY <1>2 DEF Entries
<1>. HIDE DEF e
<1>. QED BY <1>1, <1>2, <1>3, <1>4, <1>5, AttributeNames

LEMMA NamedNext == Typed /\ Named /\ [Next]_vars => Named'
<1>. SUFFICES ASSUME Typed, Named, [Next]_vars
              PROVE  Named'
  OBVIOUS
<1>1. queue # <<>> => /\ Flow \in Flows /\ Flow.at <= now
                      /\ named[Flow.pid][Flow.comm] >= Flow.at
  <2>. SUFFICES ASSUME queue # <<>>
                PROVE  /\ Flow \in Flows /\ Flow.at <= now
                       /\ named[Flow.pid][Flow.comm] >= Flow.at
    OBVIOUS
  <2>1. 1 \in DOMAIN queue /\ Flow = queue[1]
    BY DEF Flow, Typed, TypeOK
  <2>. QED BY <2>1, HeadTyped DEF Named, QueueOK
<1>2. \A c \in Comms : named[Flow.pid][c] >= Flow.at => Had(Flow.pid, c, Flow.at)
  BY AttributionAssumption DEF Had
<1>3. CASE ReadCmdline
  <2>1. /\ queue # <<>> /\ found \in Comms /\ Flow.comm \in Comms
        /\ Had(Flow.pid, found, Flow.at) /\ Had(Flow.pid, Flow.comm, Flow.at)
    BY <1>1, <1>2, <1>3 DEF ReadCmdline, Typed, LookupOK, Named, FoundOK, Flows
  <2>. QED BY <1>3, <2>1, ResolveNames DEF ReadCmdline, Or, Names
<1>4. CASE AskPsutil
  <2>1. queue # <<>> /\ Flow.pid \in Pids /\ proc[Flow.pid] \in Comms /\ Flow.comm \in Comms
    BY <1>1, <1>4 DEF AskPsutil, Typed, TypeOK, LookupOK, Flows
  <2>2. named[Flow.pid][proc[Flow.pid]] >= Flow.at
    BY <1>1, <2>1 DEF Named, NamedOK
  <2>3. Had(Flow.pid, proc[Flow.pid], Flow.at) /\ Had(Flow.pid, Flow.comm, Flow.at)
    BY <1>1, <1>2, <2>1, <2>2
  <2>. QED BY <1>4, <2>1, <2>3, ResolveNames DEF AskPsutil, Or, Names
<1>6. CASE FallBack
  <2>1. queue # <<>> /\ Flow.comm \in Comms /\ Had(Flow.pid, Flow.comm, Flow.at)
    BY <1>1, <1>2, <1>6 DEF FallBack, Typed, LookupOK, Flows
  <2>2. Flow.comm = Empty => Had(Flow.pid, PidName, Flow.at)
    BY <1>1, <2>1 DEF Had
  <2>. QED BY <1>6, <2>1, <2>2, ResolveNames DEF FallBack, Or, Names
<1>5. CASE UNCHANGED vars
  BY <1>5 DEF vars, world, get, Named, NamedOK, QueueOK, FoundOK, Flow, CacheOK, LastOf,
              NamedByLookups, Resolved, Refreshes
<1>. QED BY <1>3, <1>4, <1>5, <1>6, WorldKeepsNames, RaiseNames, LookupNames, HitNames
         DEF Next

(* A stored name is one its PID had when the call was made or later, or      *)
(* repeats a lookup of the same PID less than TTL earlier (ProcessCache.get, *)
(* _resolve_pid): none is invented or borrowed from another PID.             *)
THEOREM NamesComeFromLookups == Spec => []NamedByLookups
<1>1. Named => NamedByLookups
  BY DEF Named
<1>. QED BY <1>1, TypeInit, TypeNext, NamedInit, NamedNext, PTL DEF Spec
=============================================================================
