------------------------------- MODULE Daemon -------------------------------
(***************************************************************************)
(* The background daemon: run.sh --daemon, --stop and --status             *)
(* (Code/run.sh) around the collection loop of main() (src/main.py).  The  *)
(* scripts know a daemon only by the number in .tracker.pid, test it with  *)
(* kill -0 and end it with SIGTERM; the daemon's handler only clears       *)
(* `running`, which the loop reads once per cycle.  A script is a sequence *)
(* of steps and other scripts may run meanwhile.                           *)
(*                                                                         *)
(* Without root the daemon runs under sudo: it belongs to root, and an     *)
(* ordinary kill -0 on it fails, as on a process that does not exist.      *)
(* External: the shell, signals, sudo.  PIDs are not reused.               *)
(***************************************************************************)
EXTENDS Naturals

CONSTANTS MaxDaemons,   \* bound: daemons launched
          Scripts,      \* terminals run.sh is called from
          Root,         \* whether EUID is 0 there
          NoFile

Daemons == 1 .. MaxDaemons

ASSUME DaemonAssumption == /\ MaxDaemons \in Nat /\ Root \in BOOLEAN
                           /\ NoFile \notin Daemons

VARIABLES launched,    \* daemons launched so far
          pc,          \* [Daemons -> where main() is]
          running,     \* [Daemons -> BOOLEAN]
          held,        \* [Daemons -> what it has open: "db", "probes"]
          unsaved,     \* [Daemons -> a batch is polled and not stored]
          how,         \* [Daemons -> how it ended]
          pidFile,     \* .tracker.pid
          sc, saw,     \* [Scripts -> where run.sh is; the PID it has]
          told,        \* history: daemons --stop has sent SIGTERM to
          overlap      \* history: two scripts have run at the same time

main   == <<pc, running, held, unsaved, how>>
script == <<sc, saw>>
vars   == <<launched, main, pidFile, script, told, overlap>>

Init == /\ launched = 0
        /\ pc = [d \in Daemons |-> "none"]
        /\ running = [d \in Daemons |-> FALSE]
        /\ held = [d \in Daemons |-> {}]
        /\ unsaved = [d \in Daemons |-> FALSE]
        /\ how = [d \in Daemons |-> "none"]
        /\ pidFile = NoFile
        /\ sc = [s \in Scripts |-> "idle"] /\ saw = [s \in Scripts |-> NoFile]
        /\ told = {} /\ overlap = FALSE

Alive(d) == pc[d] \notin {"none", "exited"}

-----------------------------------------------------------------------------
(* main() *)
Goto(d, l) == pc' = [pc EXCEPT ![d] = l]

(* main() goes from line l to line m. *)
At(d, l, m) == /\ pc[d] = l /\ Goto(d, m)
               /\ UNCHANGED <<launched, pidFile, script, told, overlap>>

(* DatabaseManager(...), loader.load(), signal.signal(...), running = True   *)
Load(d) == /\ At(d, "loading", "loop")
           /\ held' = [held EXCEPT ![d] = {"db", "probes"}]
           /\ running' = [running EXCEPT ![d] = TRUE]
           /\ UNCHANGED <<unsaved, how>>

(* load() raises: sys.exit(1), before the try. *)
LoadFails(d) == /\ At(d, "loading", "exited")
                /\ held' = [held EXCEPT ![d] = {"db"}]
                /\ how' = [how EXCEPT ![d] = "unloaded"]
                /\ UNCHANGED <<running, unsaved>>

(* Fault: the loop does not look at the flag. *)
LoopForever(d) == /\ At(d, "loop", "sleep")
                  /\ UNCHANGED <<running, held, unsaved, how>>

(* while running: *)
Loop(d) == /\ At(d, "loop", IF running[d] THEN "sleep" ELSE "finally")
           /\ UNCHANGED <<running, held, unsaved, how>>

(* time.sleep goes on after a handled signal; then the poll drains the       *)
(* loader and the batch is the loop's alone.                                 *)
PollFlows(d) == /\ At(d, "sleep", "insert")
                /\ unsaved' = [unsaved EXCEPT ![d] = TRUE]
                /\ UNCHANGED <<running, held, how>>

Insert(d) == /\ At(d, "insert", "render")
             /\ unsaved' = [unsaved EXCEPT ![d] = FALSE]
             /\ UNCHANGED <<running, held, how>>

Render(d) == /\ At(d, "render", "loop")
             /\ UNCHANGED <<running, held, unsaved, how>>

(* Fault: an error in the loop ends the process on the spot. *)
CycleRaisesOut(d) == /\ \E l \in {"insert", "render"} : At(d, l, "exited")
                     /\ how' = [how EXCEPT ![d] = "failed"]
                     /\ UNCHANGED <<running, held, unsaved>>

(* An error of the database or the display ends the daemon. *)
CycleRaises(d) == /\ \E l \in {"insert", "render"} : At(d, l, "finally")
                  /\ how' = [how EXCEPT ![d] = "failed"]
                  /\ UNCHANGED <<running, held, unsaved>>

(* finally: loader.cleanup() ... *)
Cleanup(d) == /\ At(d, "finally", "close")
              /\ held' = [held EXCEPT ![d] = @ \ {"probes"}]
              /\ UNCHANGED <<running, unsaved, how>>

(* ... db_manager.close(), and the process ends. *)
Close(d) == /\ At(d, "close", "exited")
            /\ held' = [held EXCEPT ![d] = @ \ {"db"}]
            /\ how' = [how EXCEPT ![d] = IF @ = "none" THEN "clean" ELSE @]
            /\ UNCHANGED <<running, unsaved>>

(* The process is killed; what it holds is left to the kernel. *)
Killed(d) == /\ Goto(d, "exited")
             /\ how' = [how EXCEPT ![d] = "killed"]
             /\ UNCHANGED <<running, held, unsaved>>

(* SIGKILL, the OOM killer, a reboot. *)
Die(d) == /\ Alive(d)
          /\ Killed(d)
          /\ UNCHANGED <<launched, pidFile, script, told, overlap>>

MainStep(d) == \/ Load(d) \/ LoadFails(d) \/ Loop(d) \/ PollFlows(d) \/ Insert(d)
               \/ Render(d) \/ CycleRaises(d) \/ Cleanup(d) \/ Close(d)

(* Fault: the handler raises, which unwinds the loop. *)
TermUnwinds(d) == IF pc[d] \in {"loop", "sleep", "insert", "render"}
                  THEN Goto(d, "finally") /\ UNCHANGED <<running, held, unsaved, how>>
                  ELSE UNCHANGED main

(* SIGTERM: fatal until the handler is installed, the flag afterwards. *)
Term(d) == \/ pc[d] = "loading" /\ Killed(d)
           \/ /\ pc[d] # "loading" /\ Alive(d)
              /\ running' = [running EXCEPT ![d] = FALSE]
              /\ UNCHANGED <<pc, held, unsaved, how>>
           \/ ~Alive(d) /\ UNCHANGED main

-----------------------------------------------------------------------------
(* run.sh *)

(* kill -0 "$(cat "$PID_FILE")" *)
Answers(d) == Root /\ d # NoFile /\ Alive(d)

(* A script is called from a terminal ... *)
Begin(s, l) == /\ sc[s] = "idle"
               /\ sc' = [sc EXCEPT ![s] = l]
               /\ overlap' = (overlap \/ \E r \in Scripts \ {s} : sc[r] # "idle")

(* ... takes its next step ... *)
Step(s, l, m) == /\ sc[s] = l
                 /\ sc' = [sc EXCEPT ![s] = m]
                 /\ UNCHANGED overlap

(* ... and returns. *)
Return(s, l) == Step(s, l, "idle") /\ saw' = [saw EXCEPT ![s] = NoFile]

(* start_daemon: already running, or ... *)
StartCheck(s) == /\ ~Answers(pidFile)
                 /\ Begin(s, "launch")
                 /\ UNCHANGED <<launched, main, pidFile, saw, told>>

(* ... nohup python3 src/main.py & ... *)
StartLaunch(s) == /\ launched < MaxDaemons
                  /\ Step(s, "launch", "write")
                  /\ launched' = launched + 1
                  /\ saw' = [saw EXCEPT ![s] = launched + 1]
                  /\ Goto(launched + 1, "loading")
                  /\ UNCHANGED <<running, held, unsaved, how, pidFile, told>>

(* Fault: echo $? > "$PID_FILE" *)
StartWriteStatus(s) == /\ Return(s, "write")
                       /\ pidFile' = 0
                       /\ UNCHANGED <<launched, main, told>>

(* ... echo $! > "$PID_FILE" *)
StartWrite(s) == /\ Return(s, "write")
                 /\ pidFile' = saw[s]
                 /\ UNCHANGED <<launched, main, told>>

(* stop_daemon: PID="$(cat "$PID_FILE")", then kill -0 "$PID" *)
StopRead(s) == /\ pidFile # NoFile
               /\ Begin(s, "probe")
               /\ saw' = [saw EXCEPT ![s] = pidFile]
               /\ UNCHANGED <<launched, main, pidFile, told>>

StopProbe(s) == /\ Step(s, "probe", IF Answers(saw[s]) THEN "kill" ELSE "remove")
                /\ UNCHANGED <<launched, main, pidFile, saw, told>>

(* Fault: the branch of a live daemon only removes the file. *)
StopForgets(s) == /\ Step(s, "kill", "remove")
                  /\ UNCHANGED <<launched, main, pidFile, saw, told>>

(* kill "$PID" || true: it does not wait for the process to end.             *)
StopKill(s) == /\ Step(s, "kill", "remove")
               /\ Term(saw[s])
               /\ told' = told \union {saw[s]}
               /\ UNCHANGED <<launched, pidFile, saw>>

(* rm -f "$PID_FILE": "stopped successfully", or "stale PID file". *)
StopRemove(s) == /\ Return(s, "remove")
                 /\ pidFile' = NoFile
                 /\ UNCHANGED <<launched, main, told>>

(* status_daemon prints its answer and returns. *)
Status(s) == /\ Begin(s, IF Answers(pidFile) THEN "active" ELSE "inactive")
             /\ UNCHANGED <<launched, main, pidFile, saw, told>>

StatusReturns(s) == /\ \E l \in {"active", "inactive"} : Return(s, l)
                    /\ UNCHANGED <<launched, main, pidFile, told>>

ScriptStep(s) == \/ StartCheck(s) \/ StartLaunch(s) \/ StartWrite(s)
                 \/ StopRead(s) \/ StopProbe(s) \/ StopKill(s) \/ StopRemove(s)
                 \/ Status(s) \/ StatusReturns(s)

Next == \/ \E d \in Daemons : MainStep(d) \/ Die(d)
        \/ \E s \in Scripts : ScriptStep(s)

Spec == Init /\ [][Next]_vars

(* A daemon is scheduled, and its sleep, its poll and its insert (5 s busy   *)
(* timeout) end.  Nobody need run a script or finish one.                    *)
FairSpec == Spec /\ \A d \in Daemons : WF_vars(MainStep(d))

-----------------------------------------------------------------------------
TypeOK == /\ launched \in 0 .. MaxDaemons
          /\ pc \in [Daemons -> {"none", "loading", "loop", "sleep", "insert", "render",
                                 "finally", "close", "exited"}]
          /\ running \in [Daemons -> BOOLEAN]
          /\ held \in [Daemons -> SUBSET {"db", "probes"}]
          /\ unsaved \in [Daemons -> BOOLEAN]
          /\ how \in [Daemons -> {"none", "unloaded", "clean", "failed", "killed"}]
          /\ pidFile \in Daemons \union {NoFile}
          /\ sc \in [Scripts -> {"idle", "launch", "write", "probe", "kill", "remove",
                                 "active", "inactive"}]
          /\ saw \in [Scripts -> Daemons \union {NoFile}]
          /\ told \subseteq Daemons
          /\ overlap \in BOOLEAN

(* A daemon that ends without an error has stored all it polled, at whatever *)
(* point of its cycle the signal came.                                       *)
StopsWithNothingUnsaved == \A d \in Daemons : how[d] = "clean" => ~unsaved[d]

(* Unless it is killed, a daemon that has loaded leaves neither its probes   *)
(* nor its database connection open, whether a signal or an error ends it.   *)
LeavesNothingOpen == \A d \in Daemons :
                       pc[d] = "exited" /\ how[d] \in {"clean", "failed"} => held[d] = {}

(* With scripts run one after the other, every daemon nobody has stopped is  *)
(* the one the PID file names, or is about to name: --stop can reach it.     *)
Unattended(d) == Alive(d) /\ d \notin told
NoOrphan == ~overlap => \A d \in Daemons : Unattended(d) =>
              pidFile = d \/ \E s \in Scripts : sc[s] = "write" /\ saw[s] = d

(* "Daemon is INACTIVE" (run.sh): no daemon is collecting that has not been  *)
(* told to stop.                                                             *)
InactiveIsTrue == ~overlap => \A s \in Scripts : sc[s] = "inactive" =>
                    \A d \in Daemons : ~Unattended(d)

(* "Daemon stopped successfully" comes true: a daemon told to stop ends.     *)
StoppedEnds == \A d \in Daemons : (d \in told) ~> (pc[d] = "exited")
=============================================================================
