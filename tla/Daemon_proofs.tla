---------------------------- MODULE Daemon_proofs ----------------------------
(***************************************************************************)
(* Proofs about the daemon and its control script, for any number of       *)
(* daemons and terminals.                                                  *)
(***************************************************************************)
EXTENDS Daemon, TLAPS

Lines == {"none", "loading", "loop", "sleep", "insert", "render", "finally", "close",
          "exited"}
Ends  == {"none", "unloaded", "clean", "failed", "killed"}
Places == {"idle", "launch", "write", "probe", "kill", "remove", "active", "inactive"}

-----------------------------------------------------------------------------
(* Type correctness. *)

(* A script that is past reading the PID file, or has launched, has a PID.   *)
HasPid == \A s \in Scripts : sc[s] \in {"write", "probe", "kill", "remove"}
                               => saw[s] \in Daemons

Typed == TypeOK /\ HasPid

LEMMA TypeInit == Init => Typed
<1>. SUFFICES ASSUME Init PROVE Typed
  OBVIOUS
<1>1. launched \in 0 .. MaxDaemons
  BY DaemonAssumption DEF Init
<1>2. /\ \A s \in Scripts : sc[s] = "idle"
      /\ sc \in [Scripts -> {"idle"}] /\ saw \in [Scripts -> {NoFile}]
  BY DEF Init
<1>3. /\ pc \in [Daemons -> {"none"}] /\ how \in [Daemons -> {"none"}]
      /\ running \in [Daemons -> {FALSE}] /\ unsaved \in [Daemons -> {FALSE}]
      /\ held \in [Daemons -> {{}}]
  BY DEF Init
<1>4. pidFile = NoFile /\ told = {} /\ overlap = FALSE
  BY DEF Init
<1>. QED BY <1>1, <1>2, <1>3, <1>4 DEF Typed, TypeOK, HasPid

LEMMA MainTyped ==
  ASSUME Typed, NEW d \in Daemons, MainStep(d) \/ Die(d)
  PROVE  Typed'
<1>1. UNCHANGED <<launched, pidFile, script, told, overlap>>
  BY DEF MainStep, Load, LoadFails, Loop, PollFlows, Insert, Render, CycleRaises,
         Cleanup, Close, Die, At
<1>2. /\ pc \in [Daemons -> Lines] /\ running \in [Daemons -> BOOLEAN]
      /\ held \in [Daemons -> SUBSET {"db", "probes"}]
      /\ unsaved \in [Daemons -> BOOLEAN] /\ how \in [Daemons -> Ends]
  BY DEF Typed, TypeOK, Lines, Ends
<1>3. pc' \in [Daemons -> Lines]
  BY <1>2 DEF MainStep, Load, LoadFails, Loop, PollFlows, Insert, Render, CycleRaises,
              Cleanup, Close, Die, Killed, At, Goto, Lines
<1>4. running' \in [Daemons -> BOOLEAN] /\ unsaved' \in [Daemons -> BOOLEAN]
  BY <1>2 DEF MainStep, Load, LoadFails, Loop, PollFlows, Insert, Render, CycleRaises,
              Cleanup, Close, Die, Killed
<1>5. held' \in [Daemons -> SUBSET {"db", "probes"}]
  BY <1>2 DEF MainStep, Load, LoadFails, Loop, PollFlows, Insert, Render, CycleRaises,
              Cleanup, Close, Die, Killed
<1>6. how' \in [Daemons -> Ends]
  BY <1>2 DEF MainStep, Load, LoadFails, Loop, PollFlows, Insert, Render, CycleRaises,
              Cleanup, Close, Die, Killed, Ends
<1>. QED BY <1>1, <1>3, <1>4, <1>5, <1>6
         DEF Typed, TypeOK, HasPid, script, Lines, Ends

LEMMA ScriptTyped ==
  ASSUME Typed, NEW s \in Scripts, ScriptStep(s)
  PROVE  Typed'
<1>1. CASE StartCheck(s)
  BY <1>1 DEF StartCheck, Begin, Typed, TypeOK, HasPid, main
<1>2. CASE StartLaunch(s)
  <2>1. launched + 1 \in Daemons
    BY <1>2, DaemonAssumption DEF StartLaunch, Daemons, Typed, TypeOK
  <2>2. launched' \in 0 .. MaxDaemons
    BY <1>2, DaemonAssumption DEF StartLaunch, Typed, TypeOK
  <2>. QED BY <1>2, <2>1, <2>2 DEF StartLaunch, Step, Goto, Typed, TypeOK, HasPid
<1>3. CASE StartWrite(s)
  BY <1>3 DEF StartWrite, Return, Step, Typed, TypeOK, HasPid, main
<1>4. CASE StopRead(s)
  BY <1>4 DEF StopRead, Begin, Typed, TypeOK, HasPid, main
<1>5. CASE StopProbe(s)
  BY <1>5 DEF StopProbe, Step, Typed, TypeOK, HasPid, main
<1>6. CASE StopKill(s)
  <2>1. saw[s] \in Daemons
    BY <1>6 DEF StopKill, Step, Typed, HasPid
  <2>2. /\ pc' \in [Daemons -> Lines] /\ running' \in [Daemons -> BOOLEAN]
        /\ how' \in [Daemons -> Ends] /\ UNCHANGED <<held, unsaved>>
    BY <1>6, <2>1 DEF StopKill, Term, Killed, Goto, main, Typed, TypeOK, Lines, Ends
  <2>. QED BY <1>6, <2>1, <2>2 DEF StopKill, Step, Typed, TypeOK, HasPid, Lines, Ends
<1>7. CASE StopRemove(s)
  BY <1>7 DEF StopRemove, Return, Step, Typed, TypeOK, HasPid, main
<1>8. CASE Status(s)
  BY <1>8 DEF Status, Begin, Typed, TypeOK, HasPid, main
<1>9. CASE StatusReturns(s)
  BY <1>9 DEF StatusReturns, Return, Step, Typed, TypeOK, HasPid, main
<1>. QED BY <1>1, <1>2, <1>3, <1>4, <1>5, <1>6, <1>7, <1>8, <1>9 DEF ScriptStep

LEMMA TypeNext == Typed /\ [Next]_vars => Typed'
<1>. SUFFICES ASSUME Typed, [Next]_vars
              PROVE  Typed'
  OBVIOUS
<1>1. CASE UNCHANGED vars
  BY <1>1 DEF vars, main, script, Typed, TypeOK, HasPid
<1>. QED BY <1>1, MainTyped, ScriptTyped DEF Next

(* Type correctness of daemons, scripts and PID file. *)
THEOREM TypeCorrect == Spec => []TypeOK
<1>1. Typed => TypeOK
  BY DEF Typed
<1>. QED BY <1>1, TypeInit, TypeNext, PTL DEF Spec

-----------------------------------------------------------------------------
(* How a daemon ends. *)

(* A batch is unsaved only before its insert or after an error; the ends are *)
(* told apart; probes go before the database.                                *)
Ending(d) == /\ unsaved[d] => pc[d] = "insert" \/ how[d] \in {"failed", "killed"}
             /\ pc[d] \notin {"finally", "close", "exited"} => how[d] = "none"
             /\ pc[d] \in {"finally", "close"} => how[d] \in {"none", "failed"}
             /\ how[d] = "clean" => ~unsaved[d]
             /\ pc[d] = "close" => held[d] \subseteq {"db"}
             /\ pc[d] = "exited" /\ how[d] \in {"clean", "failed"} => held[d] = {}

(* A daemon that is not launched yet has no line. *)
Unlaunched == \A d \in Daemons : d > launched => pc[d] = "none"

AllEnding == Unlaunched /\ \A d \in Daemons : Ending(d)

LEMMA EndingInit == Init => AllEnding
BY DEF Init, AllEnding, Ending, Unlaunched

LEMMA MainEnds ==
  ASSUME Typed, AllEnding, NEW d \in Daemons, MainStep(d) \/ Die(d)
  PROVE  AllEnding'
<1>1. /\ pc \in [Daemons -> Lines] /\ running \in [Daemons -> BOOLEAN]
      /\ held \in [Daemons -> SUBSET {"db", "probes"}]
      /\ unsaved \in [Daemons -> BOOLEAN] /\ how \in [Daemons -> Ends]
  BY DEF Typed, TypeOK, Lines, Ends
<1>2. ASSUME NEW e \in Daemons \ {d}
      PROVE  /\ pc'[e] = pc[e] /\ held'[e] = held[e]
             /\ unsaved'[e] = unsaved[e] /\ how'[e] = how[e]
  BY <1>1 DEF MainStep, Load, LoadFails, Loop, PollFlows, Insert, Render, CycleRaises,
              Cleanup, Close, Die, Killed, At, Goto
<1>3. Ending(d)
  BY DEF AllEnding
<1>4. Ending(d)'
  <2>1. CASE Load(d)        BY <2>1, <1>1, <1>3 DEF Load, At, Goto, Ending
  <2>2. CASE LoadFails(d)   BY <2>2, <1>1, <1>3 DEF LoadFails, At, Goto, Ending
  <2>3. CASE Loop(d)        BY <2>3, <1>1, <1>3 DEF Loop, At, Goto, Ending
  <2>4. CASE PollFlows(d)   BY <2>4, <1>1, <1>3 DEF PollFlows, At, Goto, Ending
  <2>5. CASE Insert(d)      BY <2>5, <1>1, <1>3 DEF Insert, At, Goto, Ending
  <2>6. CASE Render(d)      BY <2>6, <1>1, <1>3 DEF Render, At, Goto, Ending
  <2>7. CASE CycleRaises(d) BY <2>7, <1>1, <1>3 DEF CycleRaises, At, Goto, Ending
  <2>8. CASE Cleanup(d)     BY <2>8, <1>1, <1>3 DEF Cleanup, At, Goto, Ending
  <2>9. CASE Close(d)       BY <2>9, <1>1, <1>3 DEF Close, At, Goto, Ending
  <2>10. CASE Die(d)        BY <2>10, <1>1, <1>3 DEF Die, Killed, Goto, Ending
  <2>. QED BY <2>1, <2>2, <2>3, <2>4, <2>5, <2>6, <2>7, <2>8, <2>9, <2>10 DEF MainStep
<1>5. launched' = launched /\ pc[d] # "none"
  BY DEF MainStep, Load, LoadFails, Loop, PollFlows, Insert, Render, CycleRaises,
         Cleanup, Close, Die, Alive, At
<1>. QED BY <1>2, <1>4, <1>5 DEF AllEnding, Ending, Unlaunched

(* A script reaches a daemon by launching it or by SIGTERM. *)
LEMMA ScriptEnds ==
  ASSUME Typed, AllEnding, NEW s \in Scripts, ScriptStep(s)
  PROVE  AllEnding'
<1>1. /\ pc \in [Daemons -> Lines] /\ how \in [Daemons -> Ends]
  BY DEF Typed, TypeOK, Lines, Ends
<1>2. CASE StartLaunch(s)
  <2>. DEFINE n == launched + 1
  <2>1. n \in Daemons /\ n > launched /\ launched' = n
    BY <1>2, DaemonAssumption DEF StartLaunch, Daemons, Typed, TypeOK
  <2>2. pc[n] = "none" /\ how[n] = "none" /\ ~unsaved[n]
    BY <2>1 DEF AllEnding, Unlaunched, Ending
  <2>3. pc' = [pc EXCEPT ![n] = "loading"] /\ UNCHANGED <<held, unsaved, how>>
    BY <1>2 DEF StartLaunch, Goto
  <2>4. ASSUME NEW d \in Daemons PROVE Ending(d)'
    BY <1>1, <2>1, <2>2, <2>3 DEF AllEnding, Ending
  <2>5. Unlaunched'
    BY <1>1, <2>1, <2>3 DEF AllEnding, Unlaunched, Daemons, Typed, TypeOK
  <2>. QED BY <2>4, <2>5 DEF AllEnding
<1>3. CASE StopKill(s)
  <2>1. saw[s] \in Daemons
    BY <1>3 DEF StopKill, Step, Typed, HasPid
  <2>. QED BY <1>1, <1>3, <2>1 DEF StopKill, Term, Killed, Goto, main, Alive, AllEnding,
              Ending, Unlaunched
<1>4. CASE UNCHANGED <<launched, main>>
  BY <1>4 DEF main, AllEnding, Ending, Unlaunched
<1>. QED BY <1>2, <1>3, <1>4 DEF ScriptStep, StartCheck, StartWrite, StopRead, StopProbe,
            StopRemove, Status, StatusReturns

LEMMA EndingNext == Typed /\ AllEnding /\ [Next]_vars => AllEnding'
<1>. SUFFICES ASSUME Typed, AllEnding, [Next]_vars
              PROVE  AllEnding'
  OBVIOUS
<1>1. CASE UNCHANGED vars
  BY <1>1 DEF vars, main, AllEnding, Ending, Unlaunched
<1>. QED BY <1>1, MainEnds, ScriptEnds DEF Next

(* A daemon that ends without an error has stored all it polled, wherever in *)
(* its cycle SIGTERM came (sig_handler, main.py).                            *)
THEOREM NothingUnsaved == Spec => []StopsWithNothingUnsaved
<1>1. AllEnding => StopsWithNothingUnsaved
  BY DEF AllEnding, Ending, StopsWithNothingUnsaved
<1>. QED BY <1>1, TypeInit, TypeNext, EndingInit, EndingNext, PTL DEF Spec

(* Unless it is killed, a daemon that had loaded ends with its probes and    *)
(* its database released (the finally of main()).                            *)
THEOREM NothingOpen == Spec => []LeavesNothingOpen
<1>1. AllEnding => LeavesNothingOpen
  BY DEF AllEnding, Ending, LeavesNothingOpen
<1>. QED BY <1>1, TypeInit, TypeNext, EndingInit, EndingNext, PTL DEF Spec

-----------------------------------------------------------------------------
(* Whether --stop can reach every daemon. *)

(* One script at a time: while it launches nobody is unattended; what it     *)
(* launched it will write; what it stops is what the file names, and is      *)
(* attended to before the file goes.                                         *)
Attended ==
  ~overlap =>
    /\ \A s, r \in Scripts : sc[s] # "idle" /\ sc[r] # "idle" => s = r
    /\ \A s \in Scripts :
         /\ sc[s] = "launch" => \A d \in Daemons : ~Unattended(d)
         /\ sc[s] = "write" => \A d \in Daemons : Unattended(d) => d = saw[s]
         /\ sc[s] \in {"probe", "kill", "remove"} => saw[s] = pidFile
         /\ sc[s] = "remove" => ~Unattended(saw[s])
    /\ \A d \in Daemons : Unattended(d) =>
         pidFile = d \/ \E s \in Scripts : sc[s] = "write" /\ saw[s] = d

LEMMA AttendedInit == Init => Attended
BY DEF Init, Attended, Unattended, Alive

(* No step of a daemon makes one that has ended live. *)
LEMMA MainAttends ==
  ASSUME Typed, Attended, NEW d \in Daemons, MainStep(d) \/ Die(d)
  PROVE  Attended'
<1>1. pc[d] \notin {"none", "exited"}
  BY DEF MainStep, Load, LoadFails, Loop, PollFlows, Insert, Render, CycleRaises,
         Cleanup, Close, Die, Alive, At
<1>2. \A e \in Daemons : Unattended(e)' => Unattended(e)
  <2>1. \A e \in Daemons \ {d} : pc'[e] = pc[e]
    BY DEF Typed, TypeOK, MainStep, Load, LoadFails, Loop, PollFlows, Insert, Render,
           CycleRaises, Cleanup, Close, Die, Killed, At, Goto
  <2>2. told' = told
    BY DEF MainStep, Load, LoadFails, Loop, PollFlows, Insert, Render, CycleRaises,
           Cleanup, Close, Die, At
  <2>. QED BY <1>1, <2>1, <2>2 DEF Unattended, Alive
<1>3. UNCHANGED <<sc, saw, pidFile, overlap>>
  BY DEF MainStep, Load, LoadFails, Loop, PollFlows, Insert, Render, CycleRaises,
         Cleanup, Close, Die, At, script
<1>. QED BY <1>2, <1>3 DEF Attended, Typed, HasPid

LEMMA ScriptAttends ==
  ASSUME Root, Typed, Attended, NEW s \in Scripts, ScriptStep(s)
  PROVE  Attended'
<1>. SUFFICES ASSUME ~overlap'
              PROVE  Attended'
  BY DEF Attended
<1>1. ~overlap
  BY DEF ScriptStep, StartCheck, StartLaunch, StartWrite, StopRead, StopProbe, StopKill,
         StopRemove, Status, StatusReturns, Begin, Return, Step
<1>2. sc \in [Scripts -> Places] /\ saw \in [Scripts -> Daemons \union {NoFile}]
  BY DEF Typed, TypeOK, Places
<1>3. CASE StartCheck(s)
  BY <1>1, <1>2, <1>3, DaemonAssumption
     DEF StartCheck, Begin, Answers, main, Attended, Unattended, Alive
<1>4. CASE StartLaunch(s)
  <2>1. launched + 1 \in Daemons
    BY <1>4, DaemonAssumption DEF StartLaunch, Daemons, Typed, TypeOK
  <2>2. pc \in [Daemons -> Lines]
    BY DEF Typed, TypeOK, Lines
  <2>. QED BY <1>1, <1>2, <1>4, <2>1, <2>2
           DEF StartLaunch, Step, Goto, Attended, Unattended, Alive
<1>5. CASE StartWrite(s)
  BY <1>1, <1>2, <1>5 DEF StartWrite, Return, Step, main, Attended, Unattended, Alive
<1>6. CASE StopRead(s)
  BY <1>1, <1>2, <1>6 DEF StopRead, Begin, main, Attended, Unattended, Alive
<1>7. CASE StopProbe(s)
  <2>1. saw[s] # NoFile
    BY <1>7, DaemonAssumption DEF StopProbe, Step, Typed, HasPid
  <2>. QED BY <1>1, <1>2, <1>7, <2>1
           DEF StopProbe, Step, Answers, main, Attended, Unattended, Alive
<1>8. CASE StopKill(s)
  <2>1. saw[s] \in Daemons
    BY <1>8 DEF StopKill, Step, Typed, HasPid
  <2>2. /\ \A d \in Daemons : Unattended(d)' => Unattended(d)
        /\ ~Unattended(saw[s])'
    BY <1>8, <2>1 DEF StopKill, Term, Killed, Goto, main, Unattended, Alive, Typed, TypeOK
  <2>. QED BY <1>1, <1>2, <1>8, <2>1, <2>2 DEF StopKill, Step, Attended
<1>9. CASE StopRemove(s)
  BY <1>1, <1>2, <1>9 DEF StopRemove, Return, Step, main, Attended, Unattended, Alive
<1>10. CASE Status(s)
  BY <1>1, <1>2, <1>10 DEF Status, Begin, main, Attended, Unattended, Alive
<1>11. CASE StatusReturns(s)
  BY <1>1, <1>2, <1>11 DEF StatusReturns, Return, Step, main, Attended, Unattended, Alive
<1>. QED BY <1>3, <1>4, <1>5, <1>6, <1>7, <1>8, <1>9, <1>10, <1>11 DEF ScriptStep

LEMMA AttendedNext == Root /\ Typed /\ Attended /\ [Next]_vars => Attended'
<1>. SUFFICES ASSUME Root, Typed, Attended, [Next]_vars
              PROVE  Attended'
  OBVIOUS
<1>1. CASE UNCHANGED vars
  BY <1>1 DEF vars, main, script, Attended, Unattended, Alive
<1>. QED BY <1>1, MainAttends, ScriptAttends DEF Next

(* For root, with scripts run one after the other, every running daemon that *)
(* was not told to stop is the one the PID file names or is about to name    *)
(* (run.sh).  For an ordinary user it is not so.                             *)
THEOREM EveryDaemonNamed == ASSUME Root PROVE Spec => []NoOrphan
<1>1. Attended => NoOrphan
  BY DEF Attended, NoOrphan
<1>2. Typed /\ Attended /\ [Next]_vars => Attended'
  BY AttendedNext
<1>. QED BY <1>1, <1>2, TypeInit, TypeNext, AttendedInit, PTL DEF Spec
=============================================================================
