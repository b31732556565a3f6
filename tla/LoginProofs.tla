----------------------------- MODULE LoginProofs -----------------------------
(***************************************************************************)
(* LoginInv is inductive in the program as it is, without the rc scripts:  *)
(* how sessions, their gettys and the last processes of the system relate. *)
(***************************************************************************)
EXTENDS RequestProofs

USE DEF At, Goto, Return, Logged, listVars, startVars, waitVars, sessionVars, procVars, mountVars

LEMMA NothingElseIsAGetty ==
  /\ \A img \in Path \cup {IFS, RC, ORPHAN, NoImage} : img \notin Tty
  /\ \A p \in Pid : p # NoPid
BY ImageAssumption, NoPidAssumption

-----------------------------------------------------------------------------
(* StartInv, with and without the rc scripts. *)

LEMMA ListKept ==
  ASSUME [Next]_vars, ~SessionsNext
  PROVE  UNCHANGED <<session_list, se_process, sp>>
BY DEF Next, SysinitStep, RcNext, RcFork, RcReapNohang, RcWait, RcCollected,
       ReaperNext, ReaperKill,
       ReaperWait, ReaperCollected, Failure, StateShutdown, SkipRcStartup,
       SkipRcShutdown, ProcStep, MountStep, ClientStep, LoopNext, vars, sessionVars

LEMMA StillStarting ==
  ASSUME CommonInv, [Next]_vars, Starting'
  PROVE  Starting /\ ~StartSession
<1>0. PointsInv
  BY DEF CommonInv, TypeInv
<1>1. CASE SysinitStep
  <2>1. CASE RunSNext \/ SkipRcStartup \/ SkipRcShutdown
    BY <1>0, <2>1
       DEF PointsInv, Starting, RunSNext, LoadStartup, LoadShutdown, LoadFailed,
           BeginShutdownScript, s_cmd_start, s_cmd_waitfor, s_cmd_mount,
           s_cmd_createport, s_cmd_other, ScriptDone, Line, NextLine, SkipRcStartup,
           SkipRcShutdown, StartSession
  <2>2. CASE RcNext
    BY <1>0, <2>2
       DEF PointsInv, Starting, RcNext, RcFork, RcReapNohang, RcWait, RcCollected,
           RcReturns, InRc, ctlVars, StartSession
  <2>3. CASE SessionsNext
    BY <1>0, <2>3
       DEF PointsInv, Starting, SessionsNext, BeginSessions, alloc_session,
           SessionsAllocated, StartSession, SessionsStarted, StopSessions,
           collect_process, ctlVars, started_session_cnt
  <2>4. CASE LoopNext \/ ReaperNext
    BY <2>4
       DEF Starting, LoopNext, EnterLoop, Wakeup, LeaveLoop, GetMsg, NoMoreMessages,
           HandleShutdown, HandleOther, ReaperNext, ReaperKill, ReaperWait,
           ReaperCollected, Failure, StateShutdown, StartSession
  <2> QED
    BY <1>1, <2>1, <2>2, <2>3, <2>4 DEF SysinitStep
<1>2. CASE UNCHANGED ctlVars
  BY <1>2 DEF ctlVars, Starting, StartSession
<1> QED
  BY <1>1, <1>2 DEF Next, ProcStep, MountStep, ClientStep, vars

\* The loop that starts the sessions is entered and left only by itself.
LEMMA StartEnds ==
  ASSUME CommonInv, [Next]_vars, ~SessionsNext
  PROVE  /\ pc' = "start" => pc = "start"
         /\ state' = "STATE_MESSAGE_LOOP" => state = "STATE_MESSAGE_LOOP"
         /\ pc' = "collect" => wpid' \in Pid \/ (pc = "collect" /\ wpid' = wpid)
<1>0. PointsInv
  BY DEF CommonInv, TypeInv
<1>1. CASE SysinitStep
  <2>1. CASE RunSNext \/ SkipRcStartup \/ SkipRcShutdown
    BY <1>0, <2>1
       DEF PointsInv, RunSNext, LoadStartup, LoadShutdown, LoadFailed,
           BeginShutdownScript, s_cmd_start, s_cmd_waitfor, s_cmd_mount,
           s_cmd_createport, s_cmd_other, ScriptDone, Line, NextLine, SkipRcStartup,
           SkipRcShutdown
  <2>2. CASE RcNext
    BY <2>2 DEF RcNext, RcFork, RcReapNohang, RcWait, RcCollected, RcReturns, InRc, ctlVars
  <2>3. CASE LoopNext \/ ReaperNext
    BY <2>3
       DEF LoopNext, EnterLoop, Wakeup, LeaveLoop, GetMsg, NoMoreMessages,
           HandleShutdown, HandleOther, ReaperNext, ReaperKill, ReaperWait, Zombies,
           ReaperCollected, Failure, StateShutdown
  <2> QED
    BY <1>1, <2>1, <2>2, <2>3 DEF SysinitStep
<1>2. CASE UNCHANGED <<ctlVars, sessionVars>>
  BY <1>2 DEF ctlVars
<1> QED
  BY <1>1, <1>2 DEF Next, ProcStep, MountStep, ClientStep, vars

\* While sessions are started no child is found to be one's getty.
LEMMA NothingToCollect ==
  ASSUME CommonInv, StartInv, collect_process, Starting
  PROVE  UNCHANGED listVars
<1> DEFINE found == {t \in session_list : se_process[t] = wpid}
<1>1. found = {}
  BY NothingElseIsAGetty
     DEF CommonInv, TypeInv, TypeOK, SessionsTypeOK, StartInv, StartedSoFar,
         collect_process
<1>2. find_session(wpid) = NULL
  BY <1>1 DEF find_session, LIST_HEAD
<1> QED
  BY <1>2 DEF collect_process

LEMMA StartInit == Init => StartInv
BY DEF Init, CtlInit, SessionsInit, StartInv, StartedSoFar

LEMMA StartSessions ==
  ASSUME CommonInv, StartInv, SessionsNext
  PROVE  StartInv'
<1>0. /\ session_list \in SUBSET Tty /\ se_process \in [Tty -> Pid \cup {NoPid}]
      /\ sp \in Tty \cup {NULL} /\ Tty \subseteq Nat /\ NULL \notin Tty
  BY TtyAssumption DEF CommonInv, TypeInv, TypeOK, SessionsTypeOK
<1> USE DEF StartInv, StartedSoFar, Starting
<1>1. CASE BeginSessions \/ alloc_session
  BY <1>0, <1>1 DEF BeginSessions, alloc_session, Forget, ctlVars
<1>2. CASE SessionsAllocated
  <2>1. session_list # {} =>
          /\ LIST_HEAD(session_list) \in session_list
          /\ \A t \in session_list : t >= LIST_HEAD(session_list)
    BY <1>0, HeadOfList
  <2> QED
    BY <1>0, <1>2, <2>1 DEF SessionsAllocated
<1>3. CASE Return("STATE_RUN_RC_SHUTDOWN")
  BY <1>3
<1>4. ASSUME StartSession, NEW p \in Pid, start_getty(sp, p), sp' = LIST_NEXT(sp),
             UNCHANGED ctlVars
      PROVE  StartInv'
  <2> DEFINE rest == {t \in session_list : t > sp}
  <2>0. /\ sp \in session_list /\ pc = "start" /\ state = "STATE_START_SESSIONS"
        /\ se_process' = [se_process EXCEPT ![sp] = p]
        /\ UNCHANGED <<session_list, pc, state>>
    BY <1>4 DEF StartSession, start_getty, ctlVars
  <2>1. /\ rest = {} => sp' = NULL
        /\ rest # {} => sp' \in rest /\ \A t \in rest : sp' <= t
    BY <1>0, <1>4, HeadOfList DEF LIST_NEXT
  <2>2. ASSUME NEW s \in session_list
        PROVE  se_process'[s] = NoPid <=> s \in rest
    <3>1. s \in Nat /\ sp \in Nat /\ p # NoPid
      BY <1>0, <2>0, NothingElseIsAGetty
    <3>2. se_process[s] = NoPid <=> s >= sp
      BY <1>0, <2>0
    <3>3. se_process'[s] = IF s = sp THEN p ELSE se_process[s]
      BY <1>0, <2>0
    <3> QED
      BY <3>1, <3>2, <3>3
  <2>3. sp' = NULL => rest = {}
    BY <1>0, <2>1
  <2>4. ASSUME sp' # NULL, NEW s \in session_list
        PROVE  s \in rest <=> s >= sp'
    <3>1. sp' \in rest /\ s \in Nat /\ sp' \in Nat /\ sp \in Nat
      BY <1>0, <2>0, <2>1, <2>4
    <3>2. s \in rest => sp' <= s
      BY <2>1, <3>1
    <3> QED
      BY <3>1, <3>2
  <2> QED
    BY <2>0, <2>1, <2>2, <2>3, <2>4
<1>5. CASE SessionsStarted \/ StopSessions
  BY <1>5 DEF SessionsStarted, StopSessions
<1>6. CASE collect_process
  <2>1. /\ state' = state /\ state # "STATE_MESSAGE_LOOP"
        /\ pc = "collect" /\ pc' = "collected"
    BY <1>6 DEF collect_process, CommonInv, TypeInv, PointsInv, InRc
  <2>2. Starting => UNCHANGED listVars
    BY <1>6, NothingToCollect
  <2> QED
    BY <2>1, <2>2
<1> QED
  BY <1>1, <1>2, <1>3, <1>4, <1>5, <1>6
     DEF SessionsNext, StartSession, started_session_cnt

LEMMA StartStep ==
  ASSUME CommonInv, StartInv, [Next]_vars
  PROVE  StartInv'
<1>1. CASE ~SessionsNext
  BY <1>1, ListKept, StillStarting, StartEnds DEF StartInv, StartedSoFar
<1> QED
  BY <1>1, StartSessions

LEMMA StartFree ==
  ASSUME CommonInv, StartInv, pc = "start", sp # NULL
  PROVE  sp \in session_list /\ se_process[sp] = NoPid
<1>1. sp \in Nat
  BY TtyAssumption DEF CommonInv, TypeInv, TypeOK, SessionsTypeOK
<1> QED
  BY <1>1 DEF StartInv, StartedSoFar

\* The loop that starts the sessions never stands still on one.
THEOREM StartLoopNeverStands == Spec => []StartLoopAdvances
<1>1. Init => CommonInv /\ StartInv
  BY CommonInit, StartInit
<1>2. CommonInv /\ StartInv /\ [Next]_vars => (CommonInv /\ StartInv)'
  BY CommonStep, StartStep
<1>3. CommonInv /\ StartInv => StartLoopAdvances
  BY StartFree DEF StartLoopAdvances
<1> QED
  BY <1>1, <1>2, <1>3, PTL DEF Spec

-----------------------------------------------------------------------------
(* SessionsInv, one lemma for each module's steps. *)

LEMMA SessionsRunS ==
  ASSUME CommonInv, SessionsInv, RunSNext,
         UNCHANGED <<clientVars, sessionVars, loopVars, pid>>
  PROVE  SessionsInv'
<1> USE DEF SessionsInv
<1>0. /\ session_list \subseteq Tty /\ se_process \in [Tty -> Pid \cup {NoPid}]
      /\ ProcTypeOK /\ src \in Seq(Command)
  BY DEF CommonInv, TypeInv, TypeOK, SessionsTypeOK, RunSTypeOK
<1>1. /\ pc \notin {"collect", "start"} /\ pc' \notin {"collect", "start"}
      /\ state' # "STATE_MESSAGE_LOOP" /\ (Starting' => Starting)
  BY DEF RunSNext, LoadStartup, LoadShutdown, LoadFailed, BeginShutdownScript,
     s_cmd_start, s_cmd_waitfor, s_cmd_mount, s_cmd_createport, s_cmd_other,
     ScriptDone, Line, NextLine, Starting, CommonInv, TypeInv, PointsInv
<1>2. SessionOwnsProcess' /\ LoginsTracked'
  <2>1. CASE \E p \in Pid : Fork(p, Head(src).arg) /\ Head(src).arg \in Path
    <3>1. PICK p \in Pid : Fork(p, Head(src).arg) /\ Head(src).arg \in Path
      BY <2>1
    <3>2. \A q \in Pid :
            \/ pstate[q] = "free" /\ q = p /\ image'[q] \notin Tty
            \/ pstate'[q] = pstate[q] /\ image'[q] = image[q]
      BY <1>0, <3>1, NothingElseIsAGetty DEF Fork, ProcTypeOK
    <3>3. SessionOwnsProcess'
      BY <1>0, <1>1, <3>2 DEF SessionOwnsProcess
    <3>4. LoginsTracked'
      BY <1>0, <1>1, <3>2 DEF LoginsTracked, Live, Alive
    <3> QED
      BY <3>3, <3>4
  <2>2. CASE UNCHANGED procVars
    BY <1>1, <2>2 DEF SessionOwnsProcess, LoginsTracked, Live
  <2>3. ASSUME s_cmd_start, ~UNCHANGED procVars
        PROVE  \E p \in Pid : Fork(p, Head(src).arg) /\ Head(src).arg \in Path
    <3>1. Head(src) \in Command
      BY <1>0, <2>3 DEF s_cmd_start, Line
    <3>2. Head(src).arg \in Path \cup {NULL}
      BY <3>1 DEF Command
    <3> QED
      BY <2>3, <3>2 DEF s_cmd_start, ForkFails
  <2>4. s_cmd_start \/ UNCHANGED procVars
    BY DEF RunSNext, LoadStartup, LoadShutdown, BeginShutdownScript, s_cmd_waitfor,
       s_cmd_mount, s_cmd_createport, s_cmd_other, ScriptDone
  <2> QED
    BY <2>1, <2>2, <2>3, <2>4
<1> QED
  BY <1>1, <1>2 DEF ProcessesDistinct, loopVars

LEMMA NoGettyYet ==
  ASSUME StartInv, LoginsTracked, Starting
  PROVE  \A p \in Pid : p \in Live => image[p] \notin Tty
<1> SUFFICES ASSUME NEW p \in Pid, p \in Live, image[p] \in Tty PROVE FALSE
  OBVIOUS
<1>1. se_process[image[p]] = p
  BY DEF LoginsTracked
<1>2. se_process[image[p]] = NoPid
  BY DEF StartInv, StartedSoFar
<1> QED
  BY <1>1, <1>2, NothingElseIsAGetty

LEMMA SessionsStart ==
  ASSUME CommonInv, StartInv, SessionsInv, StartSession, UNCHANGED loopVars
  PROVE  SessionsInv'
<1>0. /\ session_list \in SUBSET Tty /\ se_process \in [Tty -> Pid \cup {NoPid}]
      /\ ProcTypeOK /\ sp \in Tty /\ Tty \subseteq Nat
  BY TtyAssumption DEF CommonInv, TypeInv, TypeOK, SessionsTypeOK, StartSession
<1>1. /\ pc = "start" /\ state = "STATE_START_SESSIONS" /\ sp \in session_list
      /\ se_process[sp] = NoPid
  BY <1>0, StartFree DEF StartSession
<1>2. CASE ForkFails /\ sp' = NULL /\ UNCHANGED listVars
           /\ Return("STATE_RUN_RC_SHUTDOWN")
  BY <1>1, <1>2
     DEF SessionsInv, SessionOwnsProcess, LoginsTracked, Live, ProcessesDistinct,
         Starting, ForkFails, loopVars
<1>3. ASSUME NEW p \in Pid, start_getty(sp, p), sp' = LIST_NEXT(sp),
             UNCHANGED ctlVars
      PROVE  SessionsInv'
  <2>1. /\ pstate[p] = "free" /\ pstate' = [pstate EXCEPT ![p] = "running"]
        /\ image' = [image EXCEPT ![p] = sp]
        /\ se_process' = [se_process EXCEPT ![sp] = p]
        /\ UNCHANGED <<session_list, pc, state>>
    BY <1>3 DEF start_getty, Fork, ctlVars
  <2>2. \A s \in session_list : se_process[s] # p
    BY <1>1, <2>1, NothingElseIsAGetty DEF SessionsInv, SessionOwnsProcess
  <2>3. SessionOwnsProcess'
    BY <1>0, <1>1, <2>1, <2>2 DEF SessionsInv, SessionOwnsProcess, ProcTypeOK
  <2>4. LoginsTracked'
    <3> SUFFICES ASSUME NEW q \in Pid, q \in Live', image'[q] \in Tty
                 PROVE  image'[q] \in session_list /\ se_process'[image'[q]] = q
      BY <2>1 DEF LoginsTracked, Live
    <3>1. CASE q = p
      BY <1>0, <1>1, <2>1, <3>1 DEF ProcTypeOK
    <3>2. CASE q # p
      <4>1. q \in Live /\ image'[q] = image[q]
        BY <1>0, <2>1, <3>2 DEF Live, ProcTypeOK
      <4>2. image[q] \in session_list /\ se_process[image[q]] = q
        BY <4>1 DEF SessionsInv, LoginsTracked
      <4> QED
        BY <1>0, <1>1, <2>1, <4>1, <4>2, NothingElseIsAGetty
    <3> QED
      BY <3>1, <3>2
  <2>5. ProcessesDistinct'
    BY <1>0, <1>1, <2>1, <2>2 DEF SessionsInv, ProcessesDistinct
  <2> QED
    BY <1>1, <2>1, <2>3, <2>4, <2>5 DEF SessionsInv, Starting, loopVars
<1> QED
  BY <1>2, <1>3 DEF StartSession, started_session_cnt

LEMMA SessionsCollect ==
  ASSUME CommonInv, LoginInv, ~RcEnabled, collect_process, UNCHANGED loopVars
  PROVE  /\ SessionsInv'
         /\ UNCHANGED procVars /\ Logged /\ session_list' \subseteq session_list
         /\ session_list' \subseteq se_shutdown'
<1> DEFINE found == {t \in session_list : se_process[t] = wpid}
           s == find_session(wpid)
<1>0. /\ session_list \in SUBSET Tty /\ found \in SUBSET Tty
      /\ se_process \in [Tty -> Pid \cup {NoPid}] /\ NULL \notin Tty
  BY TtyAssumption DEF CommonInv, TypeInv, TypeOK, SessionsTypeOK
<1>1. /\ state = "STATE_REAPER" /\ pc = "collect" /\ pc' = "collected"
      /\ state' = state /\ wpid \in Pid /\ image[wpid] \notin Tty
      /\ session_list \subseteq se_shutdown
  BY DEF CommonInv, TypeInv, PointsInv, LoginInv, ReaperInv, LastWaitInv, collect_process
<1>2. (found = {} => s = NULL) /\ (found # {} => s \in found)
  BY <1>0, HeadOfList DEF find_session
<1>3. \A t \in session_list : se_process[t] = wpid => t = s
  BY <1>0, <1>1, <1>2, NothingElseIsAGetty
     DEF LoginInv, SessionsInv, ProcessesDistinct
<1>4. /\ UNCHANGED procVars /\ Logged
      /\ \/ s = NULL /\ UNCHANGED listVars
         \/ s # NULL /\ s \in session_list /\ Forget({s})
  BY <1>0, <1>1, <1>2 DEF collect_process, free_session
<1>5. /\ session_list' = session_list \ {s}
      /\ \A t \in session_list' : se_process'[t] = se_process[t]
      /\ \A t \in Tty \ session_list' : se_process'[t] = NoPid
      /\ session_list' \subseteq se_shutdown'
  BY <1>0, <1>1, <1>4 DEF Forget, LoginInv, SessionsInv, ProcessesDistinct
<1>6. SessionOwnsProcess'
  BY <1>0, <1>1, <1>3, <1>4, <1>5 DEF LoginInv, SessionsInv, SessionOwnsProcess
<1>7. LoginsTracked'
  <2> SUFFICES ASSUME NEW p \in Pid, p \in Live, image[p] \in Tty
               PROVE  image[p] \in session_list' /\ se_process'[image[p]] = p
    BY <1>4 DEF LoginsTracked, Live
  <2>1. image[p] \in session_list /\ se_process[image[p]] = p
    BY DEF LoginInv, SessionsInv, LoginsTracked
  <2>2. image[p] # s
    BY <1>0, <1>1, <1>2, <2>1
  <2> QED
    BY <1>5, <2>1, <2>2
<1>8. ProcessesDistinct' /\ ~Starting'
  BY <1>1, <1>5 DEF LoginInv, SessionsInv, ProcessesDistinct, Starting
<1> QED
  BY <1>1, <1>4, <1>5, <1>6, <1>7, <1>8 DEF SessionsInv, loopVars

LEMMA SessionsSessions ==
  ASSUME CommonInv, LoginInv, ~RcEnabled, SessionsNext, UNCHANGED loopVars
  PROVE  SessionsInv'
<1>0. /\ StartInv /\ SessionsInv /\ session_list \subseteq Tty
      /\ se_process \in [Tty -> Pid \cup {NoPid}]
  BY DEF LoginInv, CommonInv, TypeInv, TypeOK, SessionsTypeOK
<1>1. CASE BeginSessions \/ alloc_session
  <2>1. /\ Starting /\ Starting' /\ pc' = "alloc" /\ UNCHANGED <<procVars, loopVars>>
    BY <1>1 DEF BeginSessions, alloc_session, ctlVars, Starting
  <2>2. /\ \A s \in Tty : se_process[s] = NoPid /\ se_process'[s] = NoPid
        /\ session_list' \subseteq Tty
    BY <1>0, <1>1, <2>1, TtyAssumption
       DEF StartInv, StartedSoFar, BeginSessions, alloc_session, Forget
  <2>3. LoginsTracked'
    BY <1>0, <2>1, NoGettyYet DEF SessionsInv, LoginsTracked, Live
  <2> QED
    BY <1>0, <2>1, <2>2, <2>3
       DEF SessionsInv, SessionOwnsProcess, ProcessesDistinct, loopVars
<1>2. CASE SessionsAllocated \/ SessionsStarted \/ StopSessions
  BY <1>0, <1>2
     DEF SessionsAllocated, SessionsStarted, StopSessions, SessionsInv,
         SessionOwnsProcess, LoginsTracked, Live, ProcessesDistinct, Starting, loopVars
<1>3. CASE StartSession
  BY <1>0, <1>3, SessionsStart
<1>4. CASE collect_process
  BY <1>4, SessionsCollect
<1> QED
  BY <1>1, <1>2, <1>3, <1>4 DEF SessionsNext

LEMMA SessionsReaper ==
  ASSUME CommonInv, SessionsInv, ReaperNext, UNCHANGED loopVars
  PROVE  SessionsInv'
<1>0. /\ session_list \subseteq Tty /\ se_process \in [Tty -> Pid \cup {NoPid}]
      /\ ProcTypeOK
  BY DEF CommonInv, TypeInv, TypeOK, SessionsTypeOK
<1>1. /\ UNCHANGED <<session_list, se_process>> /\ pc \notin {"collect", "start"}
      /\ pc' # "start" /\ state' # "STATE_MESSAGE_LOOP" /\ ~Starting'
  BY DEF ReaperNext, ReaperKill, ReaperWait, ReaperCollected, Failure, StateShutdown,
         Starting
<1>2. SessionOwnsProcess' /\ LoginsTracked'
  <2>1. CASE ReaperKill \/ ReaperCollected \/ Failure \/ StateShutdown
    <3>1. UNCHANGED image /\ pc' # "collect"
          /\ \A p \in Pid : /\ pstate[p] # "free" => pstate'[p] # "free"
                            /\ pstate'[p] \in Alive => pstate[p] \in Alive
      BY <1>0, <2>1
         DEF ReaperKill, Hangup, ReaperCollected, Failure, StateShutdown, ProcTypeOK,
             Alive
    <3>2. SessionOwnsProcess'
      BY <1>0, <1>1, <3>1, NothingElseIsAGetty DEF SessionsInv, SessionOwnsProcess
    <3>3. LoginsTracked'
      BY <1>1, <3>1 DEF SessionsInv, LoginsTracked, Live
    <3> QED
      BY <3>2, <3>3
  <2>2. CASE ReaperWait /\ UNCHANGED procVars
    BY <1>1, <2>2
       DEF ReaperWait, SessionsInv, SessionOwnsProcess, LoginsTracked, Live
  <2>3. ASSUME NEW p \in Zombies, Reap({p}), wpid' = p, pc' = "collect"
        PROVE  SessionOwnsProcess' /\ LoginsTracked'
    <3>1. /\ \A q \in Pid : q # p => pstate'[q] = pstate[q] /\ image'[q] = image[q]
          /\ pstate'[p] = "free" /\ p \in Pid
      BY <2>3 DEF Reap, Zombies
    <3>2. SessionOwnsProcess'
      BY <1>0, <1>1, <2>3, <3>1 DEF SessionsInv, SessionOwnsProcess
    <3>3. LoginsTracked'
      BY <1>1, <3>1 DEF SessionsInv, LoginsTracked, Live, Alive
    <3> QED
      BY <3>2, <3>3
  <2> QED
    BY <2>1, <2>2, <2>3 DEF ReaperNext, ReaperWait
<1> QED
  BY <1>1, <1>2
     DEF SessionsInv, ProcessesDistinct, loopVars

LEMMA SessionsLoop ==
  ASSUME CommonInv, SessionsInv, LoopNext,
         UNCHANGED <<procVars, scriptVars, fdVars, sessionVars, pid>>
  PROVE  SessionsInv'
<1>1. /\ ~Starting' /\ pc \notin {"collect", "start"} /\ pc' \notin {"collect", "start"}
      /\ state = "STATE_MESSAGE_LOOP"
  BY DEF LoopNext, EnterLoop, Wakeup, LeaveLoop, GetMsg, NoMoreMessages,
         HandleShutdown, HandleOther, Starting
<1> QED
  BY <1>1
     DEF SessionsInv, SessionOwnsProcess, LoginsTracked, Live, ProcessesDistinct

LEMMA SessionsSkip ==
  ASSUME SessionsInv, SkipRcStartup \/ SkipRcShutdown
  PROVE  SessionsInv'
BY DEF SkipRcStartup, SkipRcShutdown, SessionsInv, SessionOwnsProcess, LoginsTracked,
       Live, ProcessesDistinct, Starting, loopVars

LEMMA SessionsProcesses ==
  ASSUME CommonInv, SessionsInv, ProcStep
  PROVE  SessionsInv'
<1>0. /\ session_list \subseteq Tty /\ se_process \in [Tty -> Pid \cup {NoPid}]
      /\ ProcTypeOK
  BY DEF CommonInv, TypeInv, TypeOK, SessionsTypeOK
<1>1. UNCHANGED <<ctlVars, sessionVars, loopVars>>
  BY DEF ProcStep
<1>2. \A p \in Pid :
        \/ pstate[p] = "free" /\ image'[p] = ORPHAN
        \/ pstate[p] = "free" /\ pstate'[p] = "free"
        \/ pstate[p] # "free" /\ pstate'[p] # "free" /\ image'[p] = image[p]
           /\ (pstate'[p] \in Alive => pstate[p] \in Alive)
  <2>1. PICK p \in Pid : Exit(p) \/ (\E q \in Pid : Orphan(p, q)) \/ Nohup(p) \/ Stop(p)
    BY DEF ProcStep, ProcNext
  <2>2. CASE Exit(p)
    BY <1>0, <2>2 DEF Exit, Live, Alive, ProcTypeOK
  <2>3. CASE \E q \in Pid : Orphan(p, q)
    BY <1>0, <2>3 DEF Orphan, Alive, ProcTypeOK
  <2>4. CASE Nohup(p) \/ Stop(p)
    BY <1>0, <2>4 DEF Nohup, Stop, Alive, ProcTypeOK
  <2> QED
    BY <2>1, <2>2, <2>3, <2>4
<1>3. SessionOwnsProcess'
  BY <1>0, <1>1, <1>2 DEF SessionsInv, SessionOwnsProcess, ctlVars
<1>4. LoginsTracked'
  BY <1>0, <1>1, <1>2, NothingElseIsAGetty
     DEF SessionsInv, LoginsTracked, Live, Alive
<1> QED
  BY <1>1, <1>3, <1>4
     DEF SessionsInv, ProcessesDistinct, Starting, ctlVars, loopVars

-----------------------------------------------------------------------------
(* LastWaitInv, and with it ReaperInv. *)

\* What waitpid() has returned is gone: at most its pid is in use again, by an
\* orphan, for sysinit itself forks nothing before it has collected the child.
LEMMA CollectedIsGone ==
  ASSUME CommonInv, [Next]_vars, pc' = "collect",
         pc = "collect" => wpid \in Pid /\ image[wpid] \notin Tty,
         RcEnabled => \A p \in Pid : pstate[p] # "stopped"
  PROVE  wpid' \in Pid /\ image'[wpid'] \notin Tty
<1>0. ProcTypeOK /\ ORPHAN \notin Tty /\ NoImage \notin Tty
  BY NothingElseIsAGetty DEF CommonInv, TypeInv, TypeOK
<1>1. CASE RcWait /\ RcEnabled
  <2>1. PICK p \in Pid : wpid' = p /\ Reap({p})
    BY <1>1 DEF RcWait
  <2> QED
    BY <1>0, <2>1 DEF Reap
<1>2. CASE ReaperWait
  <2>1. PICK p \in Zombies : wpid' = p /\ Reap({p})
    BY <1>2 DEF ReaperWait
  <2> QED
    BY <1>0, <2>1 DEF Reap, Zombies
<1>3. CASE ProcStep
  <2>1. wpid' = wpid /\ pc = "collect"
    BY <1>3 DEF ProcStep, sessionVars, waitVars, ctlVars
  <2>2. \A p \in Pid : image'[p] \in {image[p], ORPHAN}
    BY <1>0, <1>3 DEF ProcStep, ProcNext, Exit, Orphan, Nohup, Stop, ProcTypeOK
  <2> QED
    BY <1>0, <2>1, <2>2
<1>4. CASE (\E p \in Pid : MountStep(p)) \/ ClientStep \/ UNCHANGED vars
  <2>1. UNCHANGED <<pc, wpid, image>>
    BY <1>4 DEF MountStep, ClientStep, vars, sessionVars, waitVars, ctlVars, procVars
  <2> QED
    BY <2>1
<1>5. CASE SysinitStep /\ ~ReaperWait /\ ~(RcWait /\ RcEnabled)
  <2>1. FALSE
    BY <1>5
       DEF SysinitStep, RunSNext, LoadStartup, LoadShutdown, LoadFailed,
           BeginShutdownScript, s_cmd_start, s_cmd_waitfor, s_cmd_mount,
           s_cmd_createport, s_cmd_other, ScriptDone, Line, NextLine, SkipRcStartup,
           SkipRcShutdown, RcNext, RcFork, RcReapNohang, RcCollected, RcReturns,
           SessionsNext, BeginSessions, alloc_session, SessionsAllocated,
           StartSession, SessionsStarted, StopSessions, collect_process, ctlVars,
           LoopNext, EnterLoop, Wakeup, LeaveLoop, GetMsg, NoMoreMessages,
           HandleShutdown, HandleOther, ReaperNext, ReaperKill, ReaperCollected,
           Failure, StateShutdown
  <2> QED
    BY <2>1
<1> QED
  BY <1>1, <1>2, <1>3, <1>4, <1>5 DEF Next

\* Before the reaper there is little to keep: errno is not ECHILD.
LEMMA BeforeReaper ==
  ASSUME LastWaitInv, state \notin {"STATE_REAPER", "STATE_SHUTDOWN"},
         errno' \in {errno, "other"},
         state' = "STATE_REAPER" => pc' = "switch",
         state' # "STATE_SHUTDOWN"
  PROVE  LastWaitInv'
BY DEF LastWaitInv, CleanPoweroff

LEMMA LastWaitRunS ==
  ASSUME CommonInv, LastWaitInv, RunSNext
  PROVE  LastWaitInv'
<1>1. state \in {"STATE_RUN_S_STARTUP", "STATE_RUN_S_SHUTDOWN"}
  BY DEF CommonInv, TypeInv, PointsInv, RunSNext, LoadStartup, LoadShutdown,
         BeginShutdownScript, s_cmd_start, s_cmd_waitfor, s_cmd_mount,
         s_cmd_createport, s_cmd_other, ScriptDone, Line
<1>2. errno' \in {errno, "other"}
  BY DEF RunSNext, LoadStartup, LoadShutdown, LoadFailed, BeginShutdownScript,
         s_cmd_start, s_cmd_waitfor, s_cmd_mount, s_cmd_createport, s_cmd_other,
         ScriptDone, Line, NextLine, ForkFails
<1>3. /\ state' = "STATE_REAPER" => pc' = "switch"
      /\ state' # "STATE_SHUTDOWN"
  BY <1>1
     DEF RunSNext, LoadStartup, LoadShutdown, LoadFailed, BeginShutdownScript,
         s_cmd_start, s_cmd_waitfor, s_cmd_mount, s_cmd_createport, s_cmd_other,
         ScriptDone, Line, NextLine
<1> QED
  BY <1>1, <1>2, <1>3, BeforeReaper

\* In the reaper whoever waitpid() returned is at most forgotten.
LEMMA LastWaitCollect ==
  ASSUME CommonInv, LastWaitInv, collect_process
  PROVE  LastWaitInv'
<1> DEFINE s == find_session(wpid)
<1>0. /\ session_list \in SUBSET Tty /\ {t \in session_list : se_process[t] = wpid} \in SUBSET Tty
      /\ pc = "collect" /\ pc' = "collected" /\ state' = state
      /\ state \in {"STATE_REAPER", "STATE_RUN_RC_STARTUP", "STATE_RUN_RC_SHUTDOWN"}
      /\ errno' \in {errno, "other"}
  BY DEF CommonInv, TypeInv, TypeOK, SessionsTypeOK, PointsInv, InRc, collect_process,
         ForkFails
<1>1. CASE state = "STATE_REAPER"
  <2>1. s # NULL => s \in session_list
    BY <1>0, HeadOfList DEF find_session, LIST_HEAD
  <2>2. UNCHANGED listVars \/ free_session(s)
    BY <1>0, <1>1, <2>1 DEF LastWaitInv, collect_process
  <2>3. session_list' \subseteq se_shutdown' /\ errno' # "ECHILD"
    BY <1>0, <1>1, <2>2 DEF LastWaitInv, free_session, Forget
  <2> QED
    BY <1>0, <1>1, <2>3 DEF LastWaitInv, CleanPoweroff
<1>2. CASE state # "STATE_REAPER"
  BY <1>0, <1>2, BeforeReaper
<1> QED
  BY <1>1, <1>2

LEMMA LastWaitSessions ==
  ASSUME CommonInv, LastWaitInv, SessionsNext
  PROVE  LastWaitInv'
<1>1. CASE ~collect_process
  <2>1. /\ state \in {"STATE_START_SESSIONS", "STATE_STOP_SESSIONS"}
        /\ state' \notin {"STATE_REAPER", "STATE_SHUTDOWN"}
        /\ errno' \in {errno, "other"}
    BY <1>1
       DEF SessionsNext, BeginSessions, alloc_session, SessionsAllocated, StartSession,
           SessionsStarted, StopSessions, ForkFails, ctlVars, started_session_cnt
  <2> QED
    BY <2>1, BeforeReaper
<1> QED
  BY <1>1, LastWaitCollect

LEMMA LastWaitReaper ==
  ASSUME CommonInv, LastWaitInv, ReaperNext, UNCHANGED scriptVars
  PROVE  LastWaitInv'
<1> USE DEF LastWaitInv, CleanPoweroff, scriptVars
<1>1. CASE ReaperKill
  <2>1. session_list' \subseteq se_shutdown'
    BY <1>1 DEF ReaperKill, MarkSessions
  <2> QED
    BY <1>1, <2>1 DEF ReaperKill, Live
<1>2. CASE ReaperWait
  BY <1>2 DEF ReaperWait, NoChild
<1>3. CASE ReaperCollected
  BY <1>3 DEF ReaperCollected, ReapedAll, NoChild, Live, Alive
<1>4. CASE Failure
  BY <1>4 DEF Failure, CommonInv, TypeInv, ScriptsInv
<1>5. CASE StateShutdown
  BY <1>5 DEF StateShutdown, Live
<1> QED
  BY <1>1, <1>2, <1>3, <1>4, <1>5 DEF ReaperNext

LEMMA LastWaitLoop ==
  ASSUME CommonInv, LastWaitInv, LoopNext
  PROVE  LastWaitInv'
<1>1. /\ state = "STATE_MESSAGE_LOOP"
      /\ state' \in {"STATE_MESSAGE_LOOP", "STATE_STOP_SESSIONS"}
      /\ errno' \in {errno, "other"}
  BY DEF LoopNext, EnterLoop, Wakeup, LeaveLoop, GetMsg, NoMoreMessages,
         HandleShutdown, HandleOther
<1> QED
  BY <1>1, BeforeReaper

LEMMA LastWaitProcesses ==
  ASSUME LastWaitInv, ProcStep
  PROVE  LastWaitInv'
<1>1. UNCHANGED <<ctlVars, scriptVars, sessionVars>>
  BY DEF ProcStep
<1>2. Live # {} /\ ~NoChild
  BY DEF ProcStep, ProcNext, Exit, Orphan, Nohup, Stop, Live, NoChild, Alive
<1> QED
  BY <1>1, <1>2 DEF LastWaitInv, CleanPoweroff, ctlVars, scriptVars

\* What is left to show, where the rc scripts run, is that they see no ECHILD.
LEMMA LastWaitStep ==
  ASSUME CommonInv, LastWaitInv, [Next]_vars,
         RcEnabled /\ RcNext => errno' # "ECHILD"
  PROVE  LastWaitInv'
<1>1. CASE SysinitStep
  <2>1. CASE SkipRcStartup \/ SkipRcShutdown
    BY <2>1, BeforeReaper DEF SkipRcStartup, SkipRcShutdown
  <2>2. CASE RcEnabled /\ RcNext
    <3>1. /\ state \in {"STATE_RUN_RC_STARTUP", "STATE_RUN_RC_SHUTDOWN"}
          /\ state' \notin {"STATE_REAPER", "STATE_SHUTDOWN"}
      BY <2>2
         DEF RcNext, RcFork, RcReapNohang, RcWait, RcCollected, RcReturns, InRc, ctlVars
    <3>2. errno' \in {errno, "other"}
      <4>1. errno' \in {errno, "ECHILD", "other"}
        BY <2>2
           DEF RcNext, RcFork, RcReapNohang, RcWait, RcCollected, ForkFails, ctlVars
      <4> QED
        BY <2>2, <4>1
    <3> QED
      BY <3>1, <3>2, BeforeReaper
  <2> QED
    BY <1>1, <2>1, <2>2, LastWaitRunS, LastWaitSessions, LastWaitLoop, LastWaitReaper
       DEF SysinitStep
<1>2. CASE ProcStep
  BY <1>2, LastWaitProcesses
<1>3. CASE (\E p \in Pid : MountStep(p)) \/ ClientStep \/ UNCHANGED vars
  <2>1. UNCHANGED <<ctlVars, procVars, sessionVars, s_shutdown_script>>
    BY <1>3 DEF MountStep, Mount, ClientStep, vars, scriptVars
  <2> QED
    BY <2>1 DEF LastWaitInv, CleanPoweroff, NoChild, Live, ctlVars
<1> QED
  BY <1>1, <1>2, <1>3 DEF Next

-----------------------------------------------------------------------------
LEMMA LoginInit == Init => LoginInv
<1> SUFFICES ASSUME Init PROVE LoginInv
  OBVIOUS
<1>1. SessionsInv
  BY NothingElseIsAGetty
     DEF Init, CtlInit, ProcInit, SessionsInit, LoopInit, SessionsInv,
         SessionOwnsProcess, LoginsTracked, Live, Alive, ProcessesDistinct, Starting
<1>2. ReaperInv
  BY DEF Init, CtlInit, ReaperInv, LastWaitInv, CleanPoweroff
<1> QED
  BY <1>1, <1>2, StartInit DEF LoginInv

LEMMA SessionsStutter ==
  ASSUME SessionsInv, UNCHANGED <<ctlVars, procVars, sessionVars, loopVars>>
  PROVE  SessionsInv'
BY DEF SessionsInv, SessionOwnsProcess, LoginsTracked, Live, ProcessesDistinct,
       Starting, ctlVars, loopVars

LEMMA LoginStep == CommonInv /\ LoginInv /\ ~RcEnabled /\ [Next]_vars => LoginInv'
<1> SUFFICES ASSUME CommonInv, LoginInv, ~RcEnabled, [Next]_vars PROVE LoginInv'
  OBVIOUS
<1>0. StartInv /\ SessionsInv /\ ReaperInv
  BY DEF LoginInv
<1>1. StartInv' /\ ReaperInv'
  BY <1>0, StartStep, LastWaitStep, CollectedIsGone DEF ReaperInv
<1>2. CASE SysinitStep
  <2>1. CASE RunSNext /\ UNCHANGED <<clientVars, sessionVars, loopVars, pid>>
    BY <1>0, <1>1, <2>1, SessionsRunS DEF LoginInv
  <2>2. CASE SkipRcStartup \/ SkipRcShutdown
    BY <1>0, <1>1, <2>2, SessionsSkip DEF LoginInv
  <2>3. CASE SessionsNext /\ UNCHANGED <<scriptVars, fdVars, clientVars, loopVars, pid>>
    BY <1>1, <2>3, SessionsSessions DEF LoginInv
  <2>4. CASE LoopNext /\ UNCHANGED <<procVars, scriptVars, fdVars, sessionVars, pid>>
    BY <1>0, <1>1, <2>4, SessionsLoop DEF LoginInv
  <2>5. CASE ReaperNext /\ UNCHANGED <<scriptVars, fdVars, clientVars, loopVars, pid>>
    BY <1>0, <1>1, <2>5, SessionsReaper DEF LoginInv
  <2> QED
    BY <1>2, <2>1, <2>2, <2>3, <2>4, <2>5 DEF SysinitStep
<1>3. CASE ProcStep
  BY <1>0, <1>1, <1>3, SessionsProcesses DEF LoginInv
<1>4. CASE (\E p \in Pid : MountStep(p)) \/ ClientStep \/ UNCHANGED vars
  <2>1. UNCHANGED <<ctlVars, procVars, sessionVars, loopVars>>
    BY <1>4 DEF MountStep, ClientStep, vars
  <2> QED
    BY <1>0, <1>1, <2>1, SessionsStutter DEF LoginInv
<1> QED
  BY <1>2, <1>3, <1>4 DEF Next

\* The inductive invariant of main() as it is: the sessions and their processes,
\* from the loop that starts them to the reaper.
THEOREM LoginInvariant ==
  ASSUME ~RcEnabled
  PROVE  Spec => [](CommonInv /\ LoginInv)
<1>1. Init => CommonInv /\ LoginInv
  BY CommonInit, LoginInit
<1>2. CommonInv /\ LoginInv /\ [Next]_vars => (CommonInv /\ LoginInv)'
  BY CommonStep, LoginStep
<1> QED
  BY <1>1, <1>2, PTL DEF Spec

-----------------------------------------------------------------------------
(* The theorems about the program as it is. *)

\* A session on the list has no process, its own getty, or the child that
\* waitpid() returned just now.
THEOREM SessionsOwnTheirProcess ==
  ASSUME ~RcEnabled
  PROVE  Spec => []SessionOwnsProcess
<1>1. LoginInv => SessionOwnsProcess
  BY DEF LoginInv, SessionsInv
<1> QED
  BY <1>1, LoginInvariant, PTL

\* Every live getty belongs to the session of its line.
THEOREM EveryLoginIsTracked ==
  ASSUME ~RcEnabled
  PROVE  Spec => []LoginsTracked
<1>1. LoginInv => LoginsTracked
  BY DEF LoginInv, SessionsInv
<1> QED
  BY <1>1, LoginInvariant, PTL

\* Nothing is left alive when the system is halted after a shutdown sequence,
\* whatever crashed, was left behind, ignored SIGHUP or could not be forked.
THEOREM PoweroffIsClean ==
  ASSUME ~RcEnabled
  PROVE  Spec => []CleanPoweroff
<1>1. LoginInv => CleanPoweroff
  BY DEF LoginInv, ReaperInv, LastWaitInv
<1> QED
  BY <1>1, LoginInvariant, PTL

\* No getty is started once a shutdown was granted.
THEOREM NoLoginDuringShutdown ==
  ASSUME ~RcEnabled
  PROVE  Spec => NoLoginAfterShutdown
<1> DEFINE Same == shutdown =>
             \A p \in Pid : image'[p] \in Tty => image'[p] = image[p]
<1>1. ASSUME CommonInv, LoginInv, [Next]_vars, shutdown,
             NEW p \in Pid, image'[p] \in Tty
      PROVE  image'[p] = image[p]
  <2>0. /\ ProcTypeOK /\ src \in Seq(Command) /\ pc # "start"
        /\ Tty \cap {NoImage, ORPHAN} = {} /\ Tty \cap Path = {}
    BY <1>1, NothingElseIsAGetty
       DEF CommonInv, TypeInv, TypeOK, RunSTypeOK, LoginInv, SessionsInv
  <2>1. CASE s_cmd_start /\ ~UNCHANGED procVars
    <3>1. Head(src) \in Command /\ Head(src).arg # NULL
          /\ \E q \in Pid : Fork(q, Head(src).arg)
      BY <2>0, <2>1 DEF s_cmd_start, Line, ForkFails
    <3>2. Head(src).arg \in Path
      BY <3>1 DEF Command
    <3> QED
      BY <1>1, <2>0, <3>1, <3>2 DEF Fork, ProcTypeOK
  <2>2. CASE \E ps : Reap(ps)
    BY <1>1, <2>0, <2>2 DEF Reap
  <2>3. CASE ProcStep
    BY <1>1, <2>0, <2>3
       DEF ProcStep, ProcNext, Exit, Orphan, Nohup, Stop, ProcTypeOK
  <2>4. CASE UNCHANGED image
    BY <2>4
  <2>5. CASE RunSNext
    <3>1. (s_cmd_start /\ ~UNCHANGED procVars) \/ UNCHANGED procVars
      BY <2>5 DEF RunSNext, LoadStartup, LoadShutdown, BeginShutdownScript,
         s_cmd_waitfor, s_cmd_mount, s_cmd_createport, s_cmd_other, ScriptDone
    <3> QED
      BY <2>1, <2>4, <3>1
  <2>6. CASE SessionsNext /\ UNCHANGED loopVars
    <3>1. CASE collect_process
      BY <1>1, <2>4, <2>6, <3>1, SessionsCollect
    <3>2. CASE ~collect_process
      BY <2>0, <2>4, <2>6, <3>2
         DEF SessionsNext, BeginSessions, alloc_session, SessionsAllocated,
             StartSession, SessionsStarted, StopSessions
    <3> QED
      BY <3>1, <3>2
  <2>7. CASE ReaperNext
    BY <2>2, <2>4, <2>7
       DEF ReaperNext, ReaperKill, Hangup, ReaperWait, ReaperCollected, Failure,
           StateShutdown
  <2> QED
    BY <1>1, <2>3, <2>4, <2>5, <2>6, <2>7
       DEF Next, SysinitStep, SkipRcStartup, SkipRcShutdown, MountStep, Mount,
           ClientStep, vars
<1>2. CommonInv /\ LoginInv /\ [Next]_vars => [Same]_vars
  BY <1>1
<1> QED
  BY <1>2, LoginInvariant, PTL DEF Spec, NoLoginAfterShutdown
=============================================================================
