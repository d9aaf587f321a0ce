----------------------------- MODULE Attribution -----------------------------
(***************************************************************************)
(* Which command name a flow is stored under: the kernel's comm travels    *)
(* with the event (src/bpf/tracker.bpf.c), and ProcessCache.get            *)
(* (src/core/process_cache.py), called for each metric that passes the     *)
(* filters (src/core/aggregator.py), replaces it by what /proc or psutil   *)
(* say of the PID when the batch is processed, or by a cached answer.      *)
(* Meanwhile processes exec, exit and hand their PID on.                   *)
(*                                                                         *)
(* Time is the clock the cache reads, in ticks; it does not step back.     *)
(***************************************************************************)
EXTENDS Naturals, Sequences

CONSTANTS Pids,
          Comms,       \* what a process or a thread may call itself
          Empty,       \* the empty name, which prctl allows and strip() leaves
          PidName,     \* "pid_<n>", n the PID asked for
          NoProcess,   \* what a PID nobody has is named
          TTL,         \* ttl_seconds
          MaxTime,     \* bound: ticks of the clock
          MaxFlows     \* bound: events raised

ASSUME AttributionAssumption == /\ {TTL, MaxTime} \subseteq Nat \ {0}
                                /\ MaxFlows \in Nat
                                /\ Empty \in Comms
                                /\ PidName \notin Comms
                                /\ NoProcess \notin Comms

VARIABLES now,
          proc,      \* [Pids -> Comms \union {NoProcess}]: the process table
          named,     \* history: [Pids -> [Comms -> when it, or a thread of it
                     \* that made a call, was last so named, 0 = never]]
          queue,     \* metrics not yet attributed, in the order of the poll
          cache,     \* self._cache: pid -> its comm and last_seen
          step,      \* where get() is
          asked,     \* the time _resolve_pid read
          found,     \* the comm read from /proc
          records    \* history: metrics attributed, in order

world == <<now, proc, named>>
get   == <<step, asked, found>>
vars  == <<world, queue, cache, get, records>>

Init == /\ now = 1
        /\ proc = [p \in Pids |-> NoProcess]
        /\ named = [p \in Pids |-> [c \in Comms |-> 0]]
        /\ queue = <<>>
        /\ cache = <<>>
        /\ step = "idle" /\ asked = 0 /\ found = NoProcess
        /\ records = <<>>

-----------------------------------------------------------------------------
(* The machine. *)
Tick == /\ now < MaxTime
        /\ now' = now + 1
        /\ named' = [p \in Pids |-> [c \in Comms |-> IF proc[p] = c THEN now + 1
                                                     ELSE named[p][c]]]
        /\ UNCHANGED <<proc, queue, cache, get, records>>

(* A process is forked under a free PID, or execs another program. *)
Rename(p, c) == /\ proc[p] # c
                /\ proc' = [proc EXCEPT ![p] = c]
                /\ named' = [named EXCEPT ![p][c] = now]
                /\ UNCHANGED <<now, queue, cache, get, records>>

Exit(p) == /\ proc[p] # NoProcess
           /\ proc' = [proc EXCEPT ![p] = NoProcess]
           /\ UNCHANGED <<now, named, queue, cache, get, records>>

(* A probe fires: the event carries the PID and the comm of the calling     *)
(* thread, which need not be the one /proc/<pid>/comm shows, the first's.    *)
Raise(p, c) == /\ proc[p] # NoProcess
               /\ Len(records) + Len(queue) < MaxFlows
               /\ queue' = Append(queue, [pid |-> p, comm |-> c, at |-> now])
               /\ named' = [named EXCEPT ![p][c] = now]
               /\ UNCHANGED <<now, proc, cache, get, records>>

-----------------------------------------------------------------------------
(* ProcessCache.get for the metric at the head of the batch. *)
Flow == Head(queue)

(* c or d *)
Or(c, d) == IF c = Empty THEN d ELSE c

(* get(), asked at time t, returns comm c; the record is built with it. *)
Attribute(c, t) == /\ records' = Append(records, [pid |-> Flow.pid, comm |-> c,
                                                  raised |-> Flow.at, asked |-> t])
                   /\ queue' = Tail(queue)
                   /\ step' = "idle" /\ asked' = 0 /\ found' = NoProcess

(* Fault: an entry is valid for as long as it is in the cache. *)
AlwaysCached(p) == p \in DOMAIN cache

Cached(p) == p \in DOMAIN cache /\ now < cache[p].seen + TTL

Hit == /\ step = "idle" /\ queue # <<>>
       /\ Cached(Flow.pid)
       /\ cache' = [cache EXCEPT ![Flow.pid].seen = now]
       /\ Attribute(cache[Flow.pid].comm, now)
       /\ UNCHANGED world

Miss == /\ step = "idle" /\ queue # <<>>
        /\ ~Cached(Flow.pid)
        /\ step' = "exists"
        /\ UNCHANGED <<world, queue, cache, asked, found, records>>

(* _resolve_pid: its own time, then os.path.exists("/proc/<pid>/comm"). *)
Exists == /\ step = "exists"
          /\ asked' = now
          /\ step' = IF proc[Flow.pid] # NoProcess THEN "comm" ELSE "psutil"
          /\ UNCHANGED <<world, queue, cache, found, records>>

(* Fault: the file is read whether or not the process is still there. *)
ReadCommBlind == /\ step = "comm"
                 /\ found' = proc[Flow.pid]
                 /\ step' = "cmdline"
                 /\ UNCHANGED <<world, queue, cache, asked, records>>

(* open and read; the process may be gone, and the IOError is swallowed. *)
ReadComm == /\ step = "comm"
            /\ \/ /\ proc[Flow.pid] # NoProcess
                  /\ found' = proc[Flow.pid]
                  /\ step' = "cmdline"
               \/ /\ proc[Flow.pid] = NoProcess
                  /\ step' = "psutil"
                  /\ UNCHANGED found
            /\ UNCHANGED <<world, queue, cache, asked, records>>

(* self._cache[pid] = info; return info *)
Resolve(c) == /\ cache' = [p \in DOMAIN cache \union {Flow.pid} |->
                             IF p = Flow.pid THEN [comm |-> c, seen |-> asked]
                             ELSE cache[p]]
              /\ Attribute(c, asked)
              /\ UNCHANGED world

(* The command line is read too, or is found missing. *)
ReadCmdline == /\ step = "cmdline"
               /\ Resolve(Or(found, Flow.comm))

(* The process exits between the second exists() and its open(): IOError,    *)
(* and the comm already read is thrown away.                                 *)
CmdlineGone == /\ step = "cmdline" /\ proc[Flow.pid] = NoProcess
               /\ step' = "psutil"
               /\ UNCHANGED <<world, queue, cache, asked, found, records>>

(* psutil finds whoever has the PID now. *)
AskPsutil == /\ step = "psutil" /\ proc[Flow.pid] # NoProcess
             /\ Resolve(Or(proc[Flow.pid], Flow.comm))

(* psutil is not installed, finds nobody, or may not look: the kernel's comm.*)
FallBack == /\ step = "psutil"
            /\ Resolve(Or(Flow.comm, PidName))

Next == \/ Tick
        \/ \E p \in Pids : Exit(p) \/ \E c \in Comms : Rename(p, c) \/ Raise(p, c)
        \/ Hit \/ Miss \/ Exists \/ ReadComm \/ ReadCmdline \/ CmdlineGone
        \/ AskPsutil \/ FallBack

Spec == Init /\ [][Next]_vars

-----------------------------------------------------------------------------
Times == 0 .. MaxTime
Names == Comms \union {PidName}

TypeOK == /\ now \in Times
          /\ proc \in [Pids -> Comms \union {NoProcess}]
          /\ named \in [Pids -> [Comms -> Times]]
          /\ queue \in Seq([pid : Pids, comm : Comms, at : Times])
          /\ DOMAIN cache \subseteq Pids
          /\ \A p \in DOMAIN cache : cache[p] \in [comm : Names, seen : Times]
          /\ step \in {"idle", "exists", "comm", "cmdline", "psutil"}
          /\ asked \in Times /\ found \in Comms \union {NoProcess}
          /\ records \in Seq([pid : Pids, comm : Names, raised : Times, asked : Times])

(* The PID, or the thread that made the call, had this name when the call    *)
(* was made or afterwards; "pid_<n>" stands for one without a name.          *)
Resolved(r) ==
  named[r.pid][IF r.comm = PidName THEN Empty ELSE r.comm] >= r.raised

(* Lookups i < j of one PID with nothing in between, less than TTL apart.    *)
Refreshes(i, j) ==
  /\ i < j /\ records[i].pid = records[j].pid
  /\ \A k \in i + 1 .. j - 1 : records[k].pid # records[i].pid
  /\ records[j].asked < records[i].asked + TTL

(* A name is never invented and never borrowed from another PID: each flow   *)
(* carries a name its PID had when the call was made or later, or the name   *)
(* of the lookup before it, made less than TTL earlier.  So a PID that was   *)
(* silent for TTL is never stored under its former owner's name, and a       *)
(* process that died unseen keeps the name the kernel saw.                   *)
NamedByLookups ==
  \A j \in DOMAIN records :
    \/ Resolved(records[j])
    \/ \E i \in DOMAIN records : Refreshes(i, j) /\ records[i].comm = records[j].comm
=============================================================================
