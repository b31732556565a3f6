------------------------------ MODULE LifeProofs ------------------------------
(***************************************************************************)
(* SysInit implements SystemLife, with and without the rc scripts: a step  *)
(* of sysinit or of its environment is one of the life's steps, or changes *)
(* nothing that the life speaks of.                                        *)
(***************************************************************************)
EXTENDS TrackingProofs

Boot == {"STATE_RUN_S_STARTUP", "STATE_RUN_RC_STARTUP", "STATE_START_SESSIONS"}
Serving == {"STATE_MESSAGE_LOOP"}
Closes == {"STATE_STOP_SESSIONS", "STATE_RUN_RC_SHUTDOWN"}

LEMMA PhaseTable ==
  ASSUME NEW s, NEW label
  PROVE  /\ label = "off" => Phase(s, label) = "off"
         /\ label = "exited" => Phase(s, label) = "dead"
         /\ label \notin {"off", "exited"} =>
              /\ s \in Boot => Phase(s, label) = "boot"
              /\ s \in Serving => Phase(s, label) = "serving"
              /\ s \in Closes => Phase(s, label) = "closing"
              /\ s \notin Boot \cup Serving \cup Closes => Phase(s, label) = "down"
BY DEF Phase, Boot, Serving, Closes

LEMMA LoginsAre == logins = {<<image[p], p>> : p \in {q \in Pid : LoggedIn(q)}}
BY DEF logins, LoggedIn, Live

LEMMA LoginsKept ==
  ASSUME \A p \in Pid : LoggedIn(p)' <=> LoggedIn(p),
         \A p \in Pid : LoggedIn(p) => image'[p] = image[p]
  PROVE  logins' = logins
BY DEF logins, LoggedIn, Live

LEMMA LoginsEnd ==
  ASSUME NEW p \in Pid, LoggedIn(p), ~LoggedIn(p)',
         \A q \in Pid \ {p} : /\ LoggedIn(q)' <=> LoggedIn(q)
                              /\ LoggedIn(q) => image'[q] = image[q]
  PROVE  <<image[p], p>> \in logins /\ logins' = logins \ {<<image[p], p>>}
BY DEF logins, LoggedIn, Live

LEMMA LoginsBegin ==
  ASSUME NEW p \in Pid, ~LoggedIn(p), LoggedIn(p)',
         \A q \in Pid \ {p} : /\ LoggedIn(q)' <=> LoggedIn(q)
                              /\ LoggedIn(q) => image'[q] = image[q]
  PROVE  logins' = logins \cup {<<image'[p], p>>}
BY DEF logins, LoggedIn, Live

-----------------------------------------------------------------------------
\* Until the shutdown script is in memory nobody has logged in: a start that
\* fails goes straight to the end.
NobodyYet == s_shutdown_script = NULL => logins = {}

LifeInv == CommonInv /\ StartInv /\ TrackingInv /\ LastWaitInv /\ NobodyYet

FreeLine(l) == \A x \in logins : x[1] # l

(* How the logins change in a step, whichever it is. *)
LoginsStep ==
  \/ logins' = logins
  \/ /\ \/ state = "STATE_START_SESSIONS" /\ UNCHANGED pc
        \/ RcEnabled /\ InRc /\ pc' = "collected"
     /\ pc \in {"start", "collect"} /\ UNCHANGED state
     /\ \E l \in Tty, p \in Pid : /\ FreeLine(l) /\ \A x \in logins : x[2] # p
                                  /\ logins' = logins \cup {<<l, p>>}
  \/ /\ Up /\ UNCHANGED <<state, pc>>
     /\ \E x \in logins : logins' = logins \ {x}

LEMMA LifeLogin ==
  ASSUME CommonInv, NEW s \in Tty, NEW p \in Pid, start_getty(s, p),
         \A q \in Pid : LoggedIn(q) => image[q] # s
  PROVE  /\ FreeLine(s) /\ \A x \in logins : x[2] # p
         /\ logins' = logins \cup {<<s, p>>}
<1>0. ProcTypeOK
  BY DEF CommonInv, TypeInv, TypeOK
<1>1. /\ pstate[p] = "free" /\ pstate' = [pstate EXCEPT ![p] = "running"]
      /\ image' = [image EXCEPT ![p] = s]
  BY DEF start_getty, Fork
<1>2. ~LoggedIn(p) /\ LoggedIn(p)' /\ image'[p] = s
  BY <1>0, <1>1 DEF LoggedIn, Live, Alive, ProcTypeOK
<1>3. \A q \in Pid \ {p} : /\ LoggedIn(q)' <=> LoggedIn(q)
                           /\ LoggedIn(q) => image'[q] = image[q]
  BY <1>0, <1>1 DEF LoggedIn, Live, ProcTypeOK
<1>4. logins' = logins \cup {<<s, p>>}
  BY <1>2, <1>3, LoginsBegin
<1>5. ASSUME NEW x \in logins PROVE x[1] # s /\ x[2] # p
  <2>1. PICK q \in Pid : LoggedIn(q) /\ x = <<image[q], q>>
    BY <1>5, LoginsAre
  <2> QED
    BY <1>2, <2>1
<1> QED
  BY <1>4, <1>5 DEF FreeLine

\* No step of sysinit ends a login: it only asks them to go.
LEMMA SysinitEndsNoLogin ==
  ASSUME CommonInv, SysinitStep, NEW p \in Pid, LoggedIn(p)
  PROVE  LoggedIn(p)' /\ image'[p] = image[p]
<1>0. ProcTypeOK
  BY DEF CommonInv, TypeInv, TypeOK
<1>1. CASE UNCHANGED procVars
  BY <1>1 DEF procVars, LoggedIn, Live
<1>2. ASSUME NEW q \in Pid, NEW img, Fork(q, img)
      PROVE  LoggedIn(p)' /\ image'[p] = image[p]
  BY <1>0, <1>2 DEF Fork, LoggedIn, Live, Alive, ProcTypeOK
<1>3. ASSUME NEW ps \in SUBSET Zombies, Reap(ps)
      PROVE  LoggedIn(p)' /\ image'[p] = image[p]
  BY <1>0, <1>3 DEF Reap, Zombies, LoggedIn, Live, Alive, ProcTypeOK
<1>4. CASE Hangup
  BY <1>0, <1>4 DEF Hangup, LoggedIn, Live, Alive, ProcTypeOK
<1>5. CASE RcNext
  <2>1. CASE RcWait
    <3>1. CASE \E q \in Pid : pstate[q] = "zombie" /\ Reap({q})
      BY <1>3, <3>1 DEF Zombies
    <3>2. CASE \E q \in Pid : /\ pstate[q] = "stopped"
                              /\ pstate' = [pstate EXCEPT ![q] = "reported"]
                              /\ UNCHANGED image
      BY <1>0, <3>2 DEF LoggedIn, Live, Alive, ProcTypeOK
    <3> QED
      BY <2>1, <3>1, <3>2 DEF RcWait
  <2>2. CASE RcCollected
    <3>1. UNCHANGED procVars
          \/ /\ pstate' = [pstate EXCEPT ![pid] = IF @ = "reported" THEN "running" ELSE @]
             /\ UNCHANGED image
      BY <2>2 DEF RcCollected
    <3>2. CASE /\ pstate' = [pstate EXCEPT ![pid] = IF @ = "reported" THEN "running"
                                                    ELSE @]
               /\ UNCHANGED image
      BY <1>0, <3>2 DEF LoggedIn, Live, Alive, ProcTypeOK
    <3> QED
      BY <1>1, <3>1, <3>2
  <2>3. CASE RcFork \/ RcReapNohang
    BY <1>1, <1>2, <1>3, <2>3 DEF RcFork, ForkFails, RcReapNohang
  <2> QED
    BY <1>5, <2>1, <2>2, <2>3 DEF RcNext
<1>6. CASE ReaperNext
  <2>1. Hangup \/ (\E q \in Zombies : Reap({q})) \/ UNCHANGED procVars
    BY <1>6 DEF ReaperNext, ReaperKill, ReaperWait, ReaperCollected, Failure,
       StateShutdown
  <2> QED
    BY <1>1, <1>3, <1>4, <2>1
<1>7. CASE RunSNext \/ SessionsNext
  <2>1. (\E q \in Pid : \E img : Fork(q, img)) \/ UNCHANGED procVars
    BY <1>7
       DEF RunSNext, LoadStartup, LoadShutdown, BeginShutdownScript, s_cmd_start,
           s_cmd_waitfor, s_cmd_mount, s_cmd_createport, s_cmd_other, ScriptDone,
           ForkFails, SessionsNext, BeginSessions, alloc_session, SessionsAllocated,
           StartSession, SessionsStarted, StopSessions, collect_process, start_getty
  <2> QED
    BY <1>1, <1>2, <2>1
<1> QED
  BY <1>1, <1>5, <1>6, <1>7 DEF SysinitStep, SkipRcStartup, SkipRcShutdown

\* Gettys are started by the starting loop and, where main() runs the rc scripts,
\* when a child is collected meanwhile: in the reaper every session is marked.
LEMMA LifeSessions ==
  ASSUME LifeInv, SysinitStep, SessionsNext
  PROVE  LoginsStep
<1>0. /\ CommonInv /\ StartInv /\ TrackingInv /\ LoginsTracked
      /\ session_list \subseteq Tty /\ PointsInv
  BY DEF LifeInv, TrackingInv, CommonInv, TypeInv, TypeOK, SessionsTypeOK
<1>1. CASE UNCHANGED procVars
  BY <1>1, LoginsKept DEF LoginsStep, LoggedIn, Live, procVars
<1>2. ASSUME StartSession, NEW p \in Pid, start_getty(sp, p), UNCHANGED ctlVars
      PROVE  LoginsStep
  <2>1. /\ state = "STATE_START_SESSIONS" /\ pc = "start" /\ UNCHANGED <<state, pc>>
        /\ sp \in session_list /\ se_process[sp] = NoPid
    BY <1>0, <1>2, StartFree DEF StartSession, At, ctlVars
  <2>2. \A q \in Pid : LoggedIn(q) => image[q] # sp
    BY <1>0, <2>1, NothingElseIsAGetty DEF LoginsTracked, LoggedIn
  <2> QED
    BY <1>0, <1>2, <2>1, <2>2, LifeLogin DEF LoginsStep
<1>3. ASSUME collect_process, find_session(wpid) # NULL,
             find_session(wpid) \notin se_shutdown,
             NEW p \in Pid, start_getty(find_session(wpid), p)
      PROVE  LoginsStep
  <2>1. /\ pc = "collect" /\ pc' = "collected" /\ UNCHANGED state
    BY <1>3 DEF collect_process, Goto
  <2>2. /\ find_session(wpid) \in session_list
        /\ \A q \in Pid : LoggedIn(q) => image[q] # find_session(wpid)
    BY <1>0, <1>3, <2>1, TrackedFound
  <2>3. RcEnabled /\ InRc
    BY <1>0, <1>3, <2>1, <2>2 DEF PointsInv, LifeInv, LastWaitInv
  <2> QED
    BY <1>0, <1>3, <2>1, <2>2, <2>3, LifeLogin DEF LoginsStep
<1> QED
  BY <1>1, <1>2, <1>3
     DEF SessionsNext, BeginSessions, alloc_session, SessionsAllocated, StartSession,
         SessionsStarted, StopSessions, collect_process, ForkFails

LEMMA LifeProcesses ==
  ASSUME LifeInv, ProcStep
  PROVE  LoginsStep
<1>0. ProcTypeOK /\ ORPHAN \notin Tty
  BY NothingElseIsAGetty DEF LifeInv, CommonInv, TypeInv, TypeOK
<1>1. Up /\ UNCHANGED <<state, pc>>
  BY DEF ProcStep, ctlVars
<1>2. PICK p \in Pid : Exit(p) \/ (\E q \in Pid : Orphan(p, q)) \/ Nohup(p) \/ Stop(p)
  BY DEF ProcStep, ProcNext
<1>3. \A q \in Pid \ {p} : /\ LoggedIn(q)' <=> LoggedIn(q)
                           /\ LoggedIn(q) => image'[q] = image[q]
  BY <1>0, <1>2 DEF Exit, Orphan, Nohup, Stop, LoggedIn, Live, Alive, ProcTypeOK
<1>4. (LoggedIn(p)' => LoggedIn(p)) /\ (LoggedIn(p) => image'[p] = image[p])
  BY <1>0, <1>2 DEF Exit, Orphan, Nohup, Stop, LoggedIn, Live, Alive, ProcTypeOK
<1>5. CASE LoggedIn(p)' <=> LoggedIn(p)
  BY <1>3, <1>4, <1>5, LoginsKept DEF LoginsStep
<1>6. CASE LoggedIn(p) /\ ~LoggedIn(p)'
  BY <1>1, <1>3, <1>6, LoginsEnd DEF LoginsStep
<1> QED
  BY <1>4, <1>5, <1>6

LEMMA LoginsChange ==
  ASSUME LifeInv, [Next]_vars
  PROVE  LoginsStep
<1>1. CASE SysinitStep /\ ~SessionsNext
  <2>1. \A p \in Pid : /\ LoggedIn(p)' <=> LoggedIn(p)
                       /\ LoggedIn(p) => image'[p] = image[p]
    BY <1>1, SysinitEndsNoLogin, OnlySessionsStartLogins DEF LifeInv
  <2> QED
    BY <2>1, LoginsKept DEF LoginsStep
<1>2. CASE SysinitStep /\ SessionsNext
  BY <1>2, LifeSessions
<1>3. CASE ProcStep
  BY <1>3, LifeProcesses
<1>4. CASE (\E p \in Pid : MountStep(p)) \/ ClientStep \/ UNCHANGED vars
  <2>1. UNCHANGED procVars
    BY <1>4 DEF MountStep, Mount, ClientStep, vars
  <2> QED
    BY <2>1, LoginsKept DEF LoginsStep, LoggedIn, Live, procVars
<1> QED
  BY <1>1, <1>2, <1>3, <1>4 DEF Next

-----------------------------------------------------------------------------
LEMMA NobodyStep ==
  ASSUME LifeInv, [Next]_vars
  PROVE  NobodyYet'
<1> SUFFICES ASSUME s_shutdown_script' = NULL PROVE logins' = {}
  BY DEF NobodyYet
<1>1. s_shutdown_script = NULL
  <2>1. s_shutdown_script' = s_shutdown_script \/ LoadShutdown
    BY DEF Next, SysinitStep, RunSNext, LoadStartup, BeginShutdownScript, s_cmd_start,
       s_cmd_waitfor, s_cmd_mount, s_cmd_createport, s_cmd_other, ScriptDone, Line,
       SkipRcStartup, SkipRcShutdown, MountStep, Mount, ClientStep, ProcStep, vars,
       scriptVars
  <2>2. LoadShutdown => s_shutdown_script = NULL
    BY DEF LoadShutdown, At, LifeInv, CommonInv, TypeInv, ScriptsInv
  <2> QED
    BY <2>1, <2>2
<1>2. logins = {} /\ state # "STATE_START_SESSIONS" /\ ~InRc
  BY <1>1 DEF LifeInv, NobodyYet, CommonInv, TypeInv, ScriptsInv, InRc
<1> QED
  BY <1>2, LoginsChange DEF LoginsStep

\* What a step does to the phase and to what was granted.
PhaseMoves(before, after) ==
  \/ after = before /\ UNCHANGED <<shutdown, shutdown_how>>
  \/ /\ before = "boot" /\ after \in {"serving", "closing", "dead"}
     /\ UNCHANGED <<shutdown, shutdown_how>>
  \/ /\ before = "boot" /\ after = "down" /\ logins = {}
     /\ UNCHANGED <<shutdown, shutdown_how>>
  \/ /\ before = "serving" /\ after = "serving"
     /\ shutdown' = TRUE /\ shutdown_how' \in How
  \/ /\ before = "serving" /\ after = "closing" /\ shutdown
     /\ UNCHANGED <<shutdown, shutdown_how>>
  \/ /\ before = "closing" /\ after = "down"
     /\ UNCHANGED <<shutdown, shutdown_how>>
  \/ /\ before = "down" /\ after = "dead"
     /\ UNCHANGED <<shutdown, shutdown_how>>
  \/ /\ before = "down" /\ after = "off" /\ logins = {}
     /\ UNCHANGED <<shutdown, shutdown_how>>

LEMMA PhaseScripts ==
  ASSUME LifeInv, Up, RunSNext, UNCHANGED <<shutdown, shutdown_how>>
  PROVE  PhaseMoves(Phase(state, pc), Phase(state', pc'))
<1> USE DEF At, Goto, Return, Up
<1>0. PointsInv /\ ScriptsInv
  BY DEF LifeInv, CommonInv, TypeInv
<1>1. state \in {"STATE_RUN_S_STARTUP", "STATE_RUN_S_SHUTDOWN"}
  BY <1>0 DEF PointsInv, RunSNext, LoadStartup, LoadShutdown, BeginShutdownScript,
     s_cmd_start, s_cmd_waitfor, s_cmd_mount, s_cmd_createport, s_cmd_other,
     ScriptDone, Line
<1>2. \/ state' = state /\ pc' # "off"
      \/ /\ state = "STATE_RUN_S_STARTUP" /\ pc' = "switch"
         /\ state' = "STATE_RUN_RC_STARTUP"
      \/ /\ state = "STATE_RUN_S_STARTUP" /\ pc' = "switch"
         /\ state' = "STATE_FAILURE" /\ pc \in {"switch", "load_shutdown"}
      \/ /\ state = "STATE_RUN_S_SHUTDOWN" /\ pc' = "switch"
         /\ state' \in {"STATE_FAILURE", "STATE_REAPER"}
  BY <1>1 DEF RunSNext, LoadStartup, LoadShutdown, LoadFailed, BeginShutdownScript,
     s_cmd_start, s_cmd_waitfor, s_cmd_mount, s_cmd_createport, s_cmd_other,
     ScriptDone, Line, NextLine
<1>3. state = "STATE_RUN_S_STARTUP" /\ pc \in {"switch", "load_shutdown"} => logins = {}
  BY <1>0 DEF ScriptsInv, LifeInv, NobodyYet
<1>4. /\ state = "STATE_RUN_S_STARTUP" => Phase(state, pc) = "boot"
      /\ state = "STATE_RUN_S_SHUTDOWN" => Phase(state, pc) = "down"
  BY PhaseTable DEF Boot, Serving, Closes
<1>5. \/ pc' \notin {"off", "exited"}
      \/ pc' = "exited" /\ Phase(state', pc') = "dead"
  BY <1>2, PhaseTable
<1>6. pc' \notin {"off", "exited"} =>
        /\ state' \in {"STATE_RUN_S_STARTUP", "STATE_RUN_RC_STARTUP"}
             => Phase(state', pc') = "boot"
        /\ state' \in {"STATE_RUN_S_SHUTDOWN", "STATE_FAILURE", "STATE_REAPER"}
             => Phase(state', pc') = "down"
  BY PhaseTable DEF Boot, Serving, Closes
<1> QED
  BY <1>1, <1>2, <1>3, <1>4, <1>5, <1>6 DEF PhaseMoves

LEMMA PhaseSessions ==
  ASSUME CommonInv, Up, SessionsNext \/ RcNext \/ SkipRcStartup \/ SkipRcShutdown,
         UNCHANGED <<shutdown, shutdown_how>>
  PROVE  PhaseMoves(Phase(state, pc), Phase(state', pc'))
<1> USE DEF At, Goto, Return, Up
<1>1. /\ pc \notin {"off", "exited"} /\ pc' \notin {"off", "exited"}
      /\ \/ state' = state
         \/ /\ state \in {"STATE_RUN_RC_STARTUP", "STATE_START_SESSIONS"}
            /\ state' \in {"STATE_START_SESSIONS", "STATE_RUN_RC_SHUTDOWN",
                           "STATE_MESSAGE_LOOP"}
         \/ /\ state = "STATE_STOP_SESSIONS"
            /\ state' = "STATE_RUN_RC_SHUTDOWN"
         \/ /\ state = "STATE_RUN_RC_SHUTDOWN"
            /\ state' = "STATE_RUN_S_SHUTDOWN"
  BY DEF SessionsNext, BeginSessions, alloc_session, SessionsAllocated, StartSession,
     SessionsStarted, StopSessions, collect_process, ctlVars, started_session_cnt,
     RcNext, RcFork, RcReapNohang, RcWait, RcCollected, RcReturns, InRc, SkipRcStartup,
     SkipRcShutdown
<1>2. CASE state' = state
  <2>1. Phase(state', pc') = Phase(state, pc)
    BY <1>1, <1>2, PhaseTable DEF Boot, Serving, Closes
  <2> QED
    BY <2>1 DEF PhaseMoves
<1>3. /\ state \in {"STATE_RUN_RC_STARTUP", "STATE_START_SESSIONS"}
           => Phase(state, pc) = "boot"
      /\ state \in Closes => Phase(state, pc) = "closing"
      /\ state' \in {"STATE_START_SESSIONS", "STATE_RUN_RC_STARTUP"}
           => Phase(state', pc') = "boot"
      /\ state' = "STATE_MESSAGE_LOOP" => Phase(state', pc') = "serving"
      /\ state' \in Closes => Phase(state', pc') = "closing"
      /\ state' = "STATE_RUN_S_SHUTDOWN" => Phase(state', pc') = "down"
  BY <1>1, PhaseTable DEF Boot, Serving, Closes
<1> QED
  BY <1>1, <1>2, <1>3 DEF PhaseMoves, Closes

LEMMA PhaseLoop ==
  ASSUME CommonInv, [Next]_vars, Up, LoopNext
  PROVE  PhaseMoves(Phase(state, pc), Phase(state', pc'))
<1> USE DEF At, Goto, Return, Up
<1>1. state = "STATE_MESSAGE_LOOP" /\ Phase(state, pc) = "serving"
  BY PhaseTable
     DEF LoopNext, EnterLoop, Wakeup, LeaveLoop, GetMsg, NoMoreMessages, HandleShutdown,
         HandleOther, Serving
<1>2. CASE HandleShutdown
  <2>1. LoopTypeOK'
    BY CommonStep DEF CommonInv, TypeInv, TypeOK
  <2>2. /\ shutdown' = TRUE /\ shutdown_how' \in How
        /\ state' = state /\ pc' = "getmsg"
    BY <1>2, <2>1 DEF HandleShutdown, LoopTypeOK
  <2>3. Phase(state', pc') = "serving"
    BY <1>1, <2>2, PhaseTable DEF Serving
  <2> QED
    BY <1>1, <2>2, <2>3 DEF PhaseMoves
<1>3. CASE LeaveLoop
  <2>1. /\ state' = "STATE_STOP_SESSIONS" /\ pc' = "switch" /\ shutdown
        /\ UNCHANGED <<shutdown, shutdown_how>>
    BY <1>3 DEF LeaveLoop, loopVars
  <2>2. Phase(state', pc') = "closing"
    BY <2>1, PhaseTable DEF Closes
  <2> QED
    BY <1>1, <2>1, <2>2 DEF PhaseMoves
<1>4. CASE EnterLoop \/ Wakeup \/ GetMsg \/ NoMoreMessages \/ HandleOther
  <2>1. /\ state' = state /\ pc' \notin {"off", "exited"}
        /\ UNCHANGED <<shutdown, shutdown_how>>
    BY <1>4 DEF EnterLoop, Wakeup, GetMsg, NoMoreMessages, HandleOther, loopVars
  <2>2. Phase(state', pc') = "serving"
    BY <1>1, <2>1, PhaseTable DEF Serving
  <2> QED
    BY <1>1, <2>1, <2>2 DEF PhaseMoves
<1> QED
  BY <1>2, <1>3, <1>4 DEF LoopNext

LEMMA PhaseReaper ==
  ASSUME LifeInv, Up, ReaperNext, UNCHANGED <<shutdown, shutdown_how>>
  PROVE  PhaseMoves(Phase(state, pc), Phase(state', pc'))
<1> USE DEF At, Goto, Return, Up
<1>1. /\ state \in {"STATE_REAPER", "STATE_FAILURE", "STATE_SHUTDOWN"}
      /\ Phase(state, pc) = "down"
  BY PhaseTable
     DEF ReaperNext, ReaperKill, ReaperWait, ReaperCollected, Failure, StateShutdown,
         Boot, Serving, Closes
<1>2. CASE ~StateShutdown
  <2>1. state' \in {"STATE_REAPER", "STATE_SHUTDOWN"} /\ pc' \notin {"off", "exited"}
    BY <1>2 DEF ReaperNext, ReaperKill, ReaperWait, ReaperCollected, Failure
  <2>2. Phase(state', pc') = "down"
    BY <2>1, PhaseTable DEF Boot, Serving, Closes
  <2> QED
    BY <1>1, <2>2 DEF PhaseMoves
<1>3. CASE StateShutdown
  <2>1. logins = {}
    BY <1>3 DEF StateShutdown, LifeInv, LastWaitInv, CleanPoweroff, NobodyYet, logins
  <2>2. Phase(state', pc') = "off"
    BY <1>3, PhaseTable DEF StateShutdown
  <2> QED
    BY <1>1, <2>1, <2>2 DEF PhaseMoves
<1> QED
  BY <1>2, <1>3

LEMMA PhaseStep ==
  ASSUME LifeInv, [Next]_vars
  PROVE  PhaseMoves(Phase(state, pc), Phase(state', pc'))
<1> USE DEF loopVars
<1>0. CommonInv
  BY DEF LifeInv
<1>1. CASE SysinitStep
  <2>1. CASE LoopNext
    BY <1>0, <1>1, <2>1, PhaseLoop DEF SysinitStep
  <2>2. CASE UNCHANGED <<shutdown, shutdown_how>>
            /\ (SessionsNext \/ RcNext \/ SkipRcStartup \/ SkipRcShutdown)
    BY <1>0, <1>1, <2>2, PhaseSessions DEF SysinitStep
  <2>3. CASE UNCHANGED <<shutdown, shutdown_how>> /\ RunSNext
    BY <1>1, <2>3, PhaseScripts DEF SysinitStep
  <2>4. CASE UNCHANGED <<shutdown, shutdown_how>> /\ ReaperNext
    BY <1>1, <2>4, PhaseReaper DEF SysinitStep
  <2> QED
    BY <1>1, <2>1, <2>2, <2>3, <2>4 DEF SysinitStep, SkipRcStartup, SkipRcShutdown
<1>2. CASE ProcStep \/ (\E p \in Pid : MountStep(p)) \/ ClientStep \/ UNCHANGED vars
  <2>1. UNCHANGED <<state, pc, shutdown, shutdown_how>>
    BY <1>2 DEF ProcStep, MountStep, ClientStep, vars, ctlVars
  <2> QED
    BY <2>1 DEF PhaseMoves
<1> QED
  BY <1>1, <1>2 DEF Next

\* Where the logins change, nothing else does.
LEMMA PhaseStays ==
  ASSUME LifeInv, [Next]_vars, logins' # logins
  PROVE  /\ Phase(state', pc') = Phase(state, pc)
         /\ UNCHANGED <<shutdown, shutdown_how>>
<1>1. ~LoopNext \/ ~UNCHANGED procVars
  BY LoginsKept DEF LoggedIn, Live, procVars
<1>2. UNCHANGED <<shutdown, shutdown_how>>
  BY <1>1
     DEF Next, SysinitStep, SkipRcStartup, SkipRcShutdown, ProcStep, MountStep,
         ClientStep, vars, loopVars
<1>3. CASE UNCHANGED <<state, pc>>
  BY <1>2, <1>3
<1>4. CASE UNCHANGED state /\ pc \in {"start", "collect"} /\ pc' = "collected"
  BY <1>2, <1>4, PhaseTable
<1> QED
  BY <1>3, <1>4, LoginsChange DEF LoginsStep

LEMMA LifeStep ==
  ASSUME LifeInv, [Next]_vars
  PROVE  [Life!Next]_(Life!lifeVars)
<1> USE DEF Life!lifeVars
<1>1. CASE logins' = logins
  <2>1. CASE \E h \in How : Life!Grant(h)
    BY <2>1 DEF Life!Next
  <2>2. CASE Life!Serve \/ Life!Close \/ Life!GoDown \/ Life!PowerOff \/ Life!Die
    BY <2>2 DEF Life!Next
  <2>3. \/ Life!Serve \/ Life!Close \/ Life!GoDown \/ Life!PowerOff \/ Life!Die
        \/ \E h \in How : Life!Grant(h)
        \/ UNCHANGED <<Phase(state, pc), logins, shutdown, shutdown_how>>
    BY <1>1, PhaseStep
       DEF PhaseMoves, Life!Serve, Life!Close, Life!GoDown, Life!PowerOff, Life!Die,
           Life!Grant
  <2> QED
    BY <2>1, <2>2, <2>3
<1>2. CASE logins' # logins
  <2>1. /\ Phase(state', pc') = Phase(state, pc)
        /\ UNCHANGED <<shutdown, shutdown_how>>
    BY <1>2, PhaseStays
  <2>2. CASE /\ \/ state = "STATE_START_SESSIONS"
                \/ RcEnabled /\ InRc
             /\ pc \in {"start", "collect"}
             /\ \E l \in Tty, p \in Pid : /\ FreeLine(l) /\ \A x \in logins : x[2] # p
                                          /\ logins' = logins \cup {<<l, p>>}
    <3>1. PICK l \in Tty, p \in Pid : /\ FreeLine(l) /\ \A x \in logins : x[2] # p
                                     /\ logins' = logins \cup {<<l, p>>}
      BY <2>2
    <3>2. \/ Phase(state, pc) = "boot"
          \/ RcEnabled /\ Phase(state, pc) = "closing"
      BY <2>2, PhaseTable DEF Boot, Closes, InRc
    <3>3. Life!Login(l, p)
      BY <2>1, <3>1, <3>2 DEF Life!Login, FreeLine
    <3> QED
      BY <3>3 DEF Life!Next
  <2>3. CASE Up /\ \E x \in logins : logins' = logins \ {x}
    <3>1. PICK x \in logins : logins' = logins \ {x}
      BY <2>3
    <3>2. Phase(state, pc) \notin {"off", "dead"}
      <4>1. pc \notin {"off", "exited"}
        BY <2>3 DEF Up
      <4> QED
        BY <4>1, PhaseTable
    <3>3. Life!Logout(x)
      BY <2>1, <3>1, <3>2 DEF Life!Logout
    <3> QED
      BY <3>3 DEF Life!Next
  <2> QED
    BY <1>2, <2>2, <2>3, LoginsChange DEF LoginsStep
<1> QED
  BY <1>1, <1>2

LEMMA LifeInitially == Init => Life!Init /\ NobodyYet
<1> SUFFICES ASSUME Init PROVE Life!Init /\ NobodyYet
  OBVIOUS
<1>1. logins = {}
  BY NothingElseIsAGetty DEF Init, ProcInit, logins, Live, Alive
<1>2. Phase(state, pc) = "boot"
  BY PhaseTable DEF Init, CtlInit, Boot
<1> QED
  BY <1>1, <1>2 DEF Init, LoopInit, Life!Init, NobodyYet

\* sysinit implements SystemLife: logins start on free lines during the boot or
\* while rc.shutdown runs, none once the reaper marks the sessions; service ends
\* only by a grant or never begins, and the power goes off when the last login is
\* gone.  Without the rc scripts whatever fails; with them as long as no process
\* is stopped, which starts a second login on its line, and the handler of the
\* initial file system does not exit by itself, which may leave a stale ECHILD to
\* end the reaper early.
THEOREM SysInitImplementsLife ==
  ASSUME RcEnabled => Faults \cap {"stop", "ifs"} = {}
  PROVE  Spec => LifeSpec
<1>1. Spec => [](CommonInv /\ StartInv /\ TrackingInv)
  BY TrackingInvariant
<1>2. Spec => []LastWaitInv
  <2>1. Spec => [](CommonInv /\ PoweroffInv)
    BY PoweroffInvariant
  <2>2. PoweroffInv => LastWaitInv
    BY DEF PoweroffInv
  <2> QED
    BY <2>1, <2>2, PTL
<1>3. Init => Life!Init /\ NobodyYet
  BY LifeInitially
<1>4. LifeInv /\ [Next]_vars => NobodyYet' /\ [Life!Next]_(Life!lifeVars)
  BY NobodyStep, LifeStep
<1>5. LifeInv <=> (CommonInv /\ StartInv /\ TrackingInv) /\ LastWaitInv /\ NobodyYet
  BY DEF LifeInv
<1> QED
  BY <1>1, <1>2, <1>3, <1>4, <1>5, PTL DEF Spec, LifeSpec, Life!Spec
=============================================================================
