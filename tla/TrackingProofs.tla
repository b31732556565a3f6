---------------------------- MODULE TrackingProofs ----------------------------
(***************************************************************************)
(* What stays true when main() runs the rc scripts.  TrackingInv: although *)
(* forks fail and pids of processes that are gone stay in se_process, each *)
(* login is tracked, as long as no process is stopped.  PoweroffInv: the   *)
(* reaper waits for all, as long as the IFS does not exit by itself.       *)
(***************************************************************************)
EXTENDS LoginProofs

\* A process that is a login.
LoggedIn(p) == p \in Live /\ image[p] \in Tty

LEMMA TrackedKept ==
  ASSUME LoginsTracked, UNCHANGED <<session_list, se_process>>,
         \A p \in Pid : LoggedIn(p)' => LoggedIn(p) /\ image'[p] = image[p]
  PROVE  LoginsTracked'
BY DEF LoginsTracked, LoggedIn, Live

LEMMA OnlySessionsStartLogins ==
  ASSUME CommonInv, [Next]_vars, ~SessionsNext,
         NEW p \in Pid, LoggedIn(p)'
  PROVE  LoggedIn(p) /\ image'[p] = image[p]
<1>0. ProcTypeOK /\ src \in Seq(Command)
  BY DEF CommonInv, TypeInv, TypeOK, RunSTypeOK
<1>1. CASE UNCHANGED procVars
  BY <1>1 DEF procVars, LoggedIn, Live
<1>2. ASSUME NEW q \in Pid, NEW img \in Image \ Tty, Fork(q, img)
      PROVE  LoggedIn(p) /\ image'[p] = image[p]
  BY <1>0, <1>2 DEF Fork, LoggedIn, Live, Alive, ProcTypeOK
<1>3. ASSUME NEW ps \in SUBSET Zombies, Reap(ps)
      PROVE  LoggedIn(p) /\ image'[p] = image[p]
  BY <1>0, <1>3 DEF Reap, Zombies, LoggedIn, Live, Alive, ProcTypeOK
<1>4. CASE RunSNext
  <2>1. CASE s_cmd_start /\ ~UNCHANGED procVars
    <3>1. Head(src) \in Command /\ Head(src).arg # NULL
      BY <1>0, <2>1 DEF s_cmd_start, Line
    <3>2. Head(src).arg \in Image \ Tty
      BY <3>1, NothingElseIsAGetty DEF Command, Image
    <3> QED
      BY <1>2, <2>1, <3>2 DEF s_cmd_start, ForkFails
  <2>2. (s_cmd_start /\ ~UNCHANGED procVars) \/ UNCHANGED procVars
    BY <1>4 DEF RunSNext, LoadStartup, LoadShutdown, BeginShutdownScript, s_cmd_waitfor,
       s_cmd_mount, s_cmd_createport, s_cmd_other, ScriptDone
  <2> QED
    BY <1>1, <2>1, <2>2
<1>5. CASE RcNext
  <2>1. CASE RcFork
    <3>1. RC \in Image \ Tty
      BY NothingElseIsAGetty DEF Image
    <3> QED
      BY <1>1, <1>2, <2>1, <3>1 DEF RcFork, ForkFails
  <2>4. CASE RcReapNohang
    BY <1>1, <1>3, <2>4 DEF RcReapNohang
  <2>2. CASE RcWait
    <3>1. CASE \E q \in Pid : pstate[q] = "zombie" /\ Reap({q})
      BY <1>3, <3>1 DEF Zombies
    <3>2. CASE \E q \in Pid : /\ pstate[q] = "stopped"
                              /\ pstate' = [pstate EXCEPT ![q] = "reported"]
                              /\ UNCHANGED image
      BY <1>0, <3>2 DEF LoggedIn, Live, Alive, ProcTypeOK
    <3> QED
      BY <2>2, <3>1, <3>2 DEF RcWait
  <2>3. CASE RcCollected
    <3>1. UNCHANGED procVars
          \/ /\ pstate' = [pstate EXCEPT ![pid] = IF @ = "reported" THEN "running" ELSE @]
             /\ UNCHANGED image
      BY <2>3 DEF RcCollected
    <3>2. CASE /\ pstate' = [pstate EXCEPT ![pid] = IF @ = "reported" THEN "running"
                                                    ELSE @]
               /\ UNCHANGED image
      BY <1>0, <3>2 DEF LoggedIn, Live, Alive, ProcTypeOK
    <3> QED
      BY <1>1, <3>1, <3>2
  <2> QED
    BY <1>5, <2>1, <2>2, <2>3, <2>4 DEF RcNext
<1>6. CASE ReaperNext
  <2>1. CASE Hangup
    BY <1>0, <2>1 DEF Hangup, LoggedIn, Live, Alive, ProcTypeOK
  <2>2. Hangup \/ (\E q \in Zombies : Reap({q})) \/ UNCHANGED procVars
    BY <1>6 DEF ReaperNext, ReaperKill, ReaperWait, ReaperCollected, Failure,
       StateShutdown
  <2> QED
    BY <1>1, <1>3, <2>1, <2>2
<1>7. CASE ProcStep
  BY <1>0, <1>7, NothingElseIsAGetty
     DEF ProcStep, ProcNext, Exit, Orphan, Nohup, Stop, LoggedIn, Live, Alive, ProcTypeOK
<1> QED
  BY <1>1, <1>4, <1>5, <1>6, <1>7
     DEF Next, SysinitStep, SkipRcStartup, SkipRcShutdown, MountStep, Mount, ClientStep,
         LoopNext, vars

-----------------------------------------------------------------------------
\* A getty that is started for a session without a live one is tracked.
LEMMA TrackedStart ==
  ASSUME CommonInv, LoginsTracked, NEW s \in session_list, NEW p \in Pid,
         start_getty(s, p),
         \A q \in Pid : LoggedIn(q) => image[q] # s
  PROVE  LoginsTracked'
<1>0. ProcTypeOK /\ session_list \subseteq Tty
      /\ se_process \in [Tty -> Pid \cup {NoPid}]
  BY DEF CommonInv, TypeInv, TypeOK, SessionsTypeOK
<1>1. /\ pstate[p] = "free" /\ pstate' = [pstate EXCEPT ![p] = "running"]
      /\ image' = [image EXCEPT ![p] = s]
      /\ se_process' = [se_process EXCEPT ![s] = p]
      /\ session_list' = session_list
  BY DEF start_getty, Fork
<1> SUFFICES ASSUME NEW q \in Pid, q \in Live', image'[q] \in Tty
             PROVE  image'[q] \in session_list /\ se_process'[image'[q]] = q
  BY <1>1 DEF LoginsTracked, Live
<1>2. CASE q = p
  BY <1>0, <1>1, <1>2 DEF ProcTypeOK
<1>3. CASE q # p
  <2>1. q \in Live /\ image'[q] = image[q] /\ image[q] # s
    BY <1>0, <1>1, <1>3 DEF LoggedIn, Live, ProcTypeOK
  <2>2. image[q] \in session_list /\ se_process[image[q]] = q
    BY <1>1, <2>1 DEF LoginsTracked
  <2> QED
    BY <1>0, <1>1, <2>1, <2>2
<1> QED
  BY <1>2, <1>3

\* The session that collect_process() finds, if any, has no live getty.
LEMMA TrackedFound ==
  ASSUME CommonInv, TrackingInv, pc = "collect", find_session(wpid) # NULL
  PROVE  /\ find_session(wpid) \in session_list
         /\ se_process[find_session(wpid)] = wpid
         /\ \A q \in Pid : LoggedIn(q) => image[q] # find_session(wpid)
<1> DEFINE found == {t \in session_list : se_process[t] = wpid}
<1>0. found \in SUBSET Tty
  BY DEF CommonInv, TypeInv, TypeOK, SessionsTypeOK
<1>1. find_session(wpid) \in found
  BY <1>0, HeadOfList DEF find_session, LIST_HEAD
<1>2. wpid \in Pid /\ image[wpid] \notin Tty
  BY DEF TrackingInv
<1> QED
  BY <1>1, <1>2 DEF TrackingInv, LoginsTracked, LoggedIn

LEMMA TrackedCollect ==
  ASSUME CommonInv, TrackingInv, collect_process
  PROVE  LoginsTracked'
<1> DEFINE s == find_session(wpid)
<1>0. session_list \subseteq Tty /\ wpid \in Pid /\ pc = "collect"
  BY DEF CommonInv, TypeInv, TypeOK, SessionsTypeOK, TrackingInv, collect_process
<1>1. CASE UNCHANGED <<procVars, listVars>>
  BY <1>1, TrackedKept DEF procVars, listVars, TrackingInv, LoggedIn, Live
<1>2. CASE s # NULL
  <2>1. s \in session_list /\ se_process[s] = wpid
        /\ \A q \in Pid : LoggedIn(q) => image[q] # s
    BY <1>0, <1>2, TrackedFound
  <2>3. CASE free_session(s) /\ UNCHANGED procVars
    <3>1. /\ session_list' = session_list \ {s}
          /\ \A t \in session_list \ {s} : se_process'[t] = se_process[t]
      BY <1>0, <2>3 DEF free_session, Forget
    <3> QED
      BY <2>1, <2>3, <3>1 DEF TrackingInv, LoginsTracked, LoggedIn, Live, procVars
  <2>4. CASE \E p \in Pid : start_getty(s, p)
    BY <2>1, <2>4, TrackedStart DEF TrackingInv
  <2> QED
    BY <1>1, <1>2, <2>3, <2>4 DEF collect_process, ForkFails
<1> QED
  BY <1>1, <1>2 DEF collect_process

LEMMA TrackedSessions ==
  ASSUME CommonInv, StartInv, TrackingInv, SessionsNext
  PROVE  LoginsTracked'
<1>0. session_list \subseteq Tty /\ se_process \in [Tty -> Pid \cup {NoPid}]
  BY DEF CommonInv, TypeInv, TypeOK, SessionsTypeOK
<1>1. CASE UNCHANGED <<procVars, listVars>>
  BY <1>1, TrackedKept DEF procVars, listVars, TrackingInv, LoggedIn, Live
<1>2. CASE alloc_session
  <2>1. UNCHANGED procVars /\ Starting
    BY <1>2 DEF alloc_session, Starting, At
  <2>2. \A p \in Pid : ~LoggedIn(p)
    BY <2>1, NoGettyYet DEF TrackingInv, LoggedIn
  <2> QED
    BY <2>1, <2>2 DEF LoginsTracked, LoggedIn, Live, procVars
<1>3. CASE StartSession /\ \E p \in Pid : start_getty(sp, p)
  <2>1. sp \in session_list /\ se_process[sp] = NoPid
    BY <1>3, StartFree DEF StartSession, At
  <2>2. \A q \in Pid : LoggedIn(q) => image[q] # sp
    BY <2>1, NothingElseIsAGetty DEF TrackingInv, LoginsTracked, LoggedIn
  <2> QED
    BY <1>3, <2>1, <2>2, TrackedStart DEF TrackingInv
<1>4. CASE collect_process
  BY <1>4, TrackedCollect
<1> QED
  BY <1>1, <1>2, <1>3, <1>4
     DEF SessionsNext, BeginSessions, SessionsAllocated, StartSession, ForkFails,
         SessionsStarted, StopSessions, sessionVars

-----------------------------------------------------------------------------
(* That nothing is stopped, and the invariant as a whole.                   *)

LEMMA NothingStopped ==
  ASSUME CommonInv, TrackingInv, [Next]_vars, RcEnabled, "stop" \notin Faults
  PROVE  \A p \in Pid : pstate'[p] # "stopped"
<1>0. ProcTypeOK /\ \A p \in Pid : pstate[p] # "stopped"
  BY DEF CommonInv, TypeInv, TypeOK, TrackingInv
<1>1. CASE UNCHANGED procVars
  BY <1>0, <1>1 DEF procVars
<1>2. CASE \E p \in Pid : \E img : Fork(p, img)
  BY <1>0, <1>2 DEF Fork, ProcTypeOK
<1>3. CASE \E ps : Reap(ps)
  BY <1>0, <1>3 DEF Reap
<1>4. CASE Hangup
  BY <1>0, <1>4 DEF Hangup
<1>5. CASE ProcStep
  BY <1>0, <1>5 DEF ProcStep, ProcNext, Exit, Orphan, Nohup, Stop, ProcTypeOK
<1>6. CASE RcNext
  <2>1. CASE RcFork
    BY <1>1, <1>2, <2>1 DEF RcFork, ForkFails
  <2>4. CASE RcReapNohang
    BY <1>1, <1>3, <2>4 DEF RcReapNohang
  <2>2. CASE RcWait
    BY <1>0, <1>3, <2>2 DEF RcWait
  <2>3. CASE RcCollected
    BY <1>0, <1>1, <2>3 DEF RcCollected, ProcTypeOK
  <2> QED
    BY <1>6, <2>1, <2>2, <2>3, <2>4 DEF RcNext
<1>7. CASE RunSNext \/ SessionsNext \/ ReaperNext
  BY <1>1, <1>2, <1>3, <1>4, <1>7
     DEF RunSNext, LoadStartup, LoadShutdown, BeginShutdownScript, s_cmd_start,
         s_cmd_waitfor, s_cmd_mount, s_cmd_createport, s_cmd_other, ScriptDone,
         ForkFails, SessionsNext, BeginSessions, alloc_session, SessionsAllocated,
         StartSession, SessionsStarted, StopSessions, collect_process, start_getty,
         ReaperNext, ReaperKill, ReaperWait, ReaperCollected, Failure, StateShutdown
<1> QED
  BY <1>1, <1>5, <1>6, <1>7
     DEF Next, SysinitStep, SkipRcStartup, SkipRcShutdown, MountStep, Mount, ClientStep,
         vars

-----------------------------------------------------------------------------
LEMMA TrackingInit == Init => TrackingInv
BY NothingElseIsAGetty
   DEF Init, CtlInit, ProcInit, SessionsInit, TrackingInv, LoginsTracked, Live, Alive

LEMMA TrackingStep ==
  ASSUME CommonInv, StartInv, TrackingInv, [Next]_vars, RcEnabled => "stop" \notin Faults
  PROVE  TrackingInv'
<1>1. LoginsTracked'
  <2>1. CASE SessionsNext
    BY <2>1, TrackedSessions
  <2>2. CASE ~SessionsNext
    BY <2>2, ListKept, OnlySessionsStartLogins, TrackedKept DEF TrackingInv
  <2> QED
    BY <2>1, <2>2
<1> QED
  BY <1>1, CollectedIsGone, NothingStopped DEF TrackingInv

\* What waitpid() has just returned is no getty any more, nor does any process
\* that is stopped pass for one that ended, so that collect_process() only ever
\* restarts a login that is gone.
THEOREM TrackingInvariant ==
  ASSUME RcEnabled => "stop" \notin Faults
  PROVE  Spec => [](CommonInv /\ StartInv /\ TrackingInv)
<1>1. Init => CommonInv /\ StartInv /\ TrackingInv
  BY CommonInit, StartInit, TrackingInit
<1>2. CommonInv /\ StartInv /\ TrackingInv /\ [Next]_vars => (CommonInv /\ StartInv /\ TrackingInv)'
  BY CommonStep, StartStep, TrackingStep
<1> QED
  BY <1>1, <1>2, PTL DEF Spec

\* Every live getty belongs to the session of its line also when main() runs the
\* rc scripts: a restart that fails leaves a pid behind (collect_process()), as
\* do the zombies that do_run_rc() reaps when its fork() fails, but such a pid,
\* reused or not, never takes a session from a login that runs.
THEOREM EveryLoginIsTrackedWithRc ==
  ASSUME RcEnabled => "stop" \notin Faults
  PROVE  Spec => []LoginsTracked
<1>1. Spec => [](CommonInv /\ StartInv /\ TrackingInv)
  BY TrackingInvariant
<1>2. TrackingInv => LoginsTracked
  BY DEF TrackingInv
<1> QED
  BY <1>1, <1>2, PTL
-----------------------------------------------------------------------------
(* CleanPoweroff: the first handler keeps waitpid() from saying ECHILD.     *)

\* Nobody but the reaper makes the first handler go.
LEMMA HandlerStays ==
  ASSUME CommonInv, FirstHandlerLives, [Next]_vars, ~ReaperKill, "ifs" \notin Faults
  PROVE  FirstHandlerLives'
<1> USE DEF At, Goto, Return
<1>0. ProcTypeOK
  BY DEF CommonInv, TypeInv, TypeOK
<1>1. PICK h \in Pid : image[h] = IFS /\ pstate[h] \in Alive \ {"dying"}
  BY DEF FirstHandlerLives
<1> SUFFICES image'[h] = IFS /\ pstate'[h] \in Alive \ {"dying"}
  BY DEF FirstHandlerLives
<1>2. CASE UNCHANGED procVars
  BY <1>1, <1>2 DEF procVars
<1>3. ASSUME NEW q \in Pid, NEW img, Fork(q, img)
      PROVE  image'[h] = IFS /\ pstate'[h] \in Alive \ {"dying"}
  BY <1>0, <1>1, <1>3 DEF Fork, Alive, ProcTypeOK
<1>4. ASSUME NEW ps \in SUBSET Zombies, Reap(ps)
      PROVE  image'[h] = IFS /\ pstate'[h] \in Alive \ {"dying"}
  BY <1>0, <1>1, <1>4 DEF Reap, Zombies, Alive
<1>5. CASE ProcStep
  <2>1. ~MayExit(h)
    BY <1>1, ImageAssumption DEF MayExit
  <2> QED
    BY <1>0, <1>1, <1>5, <2>1
       DEF ProcStep, ProcNext, Exit, Orphan, Nohup, Stop, Live, Alive, ProcTypeOK
<1>6. CASE RcNext
  <2>1. CASE RcWait
    BY <1>0, <1>1, <1>4, <2>1 DEF RcWait, Zombies, Alive, ProcTypeOK
  <2>2. CASE RcCollected
    BY <1>0, <1>1, <1>2, <2>2 DEF RcCollected, Alive, procVars, ProcTypeOK
  <2> QED
    BY <1>2, <1>3, <1>4, <1>6, <2>1, <2>2 DEF RcNext, RcFork, ForkFails, RcReapNohang
<1>7. CASE RunSNext \/ SessionsNext \/ ReaperNext
  BY <1>2, <1>3, <1>4, <1>7
     DEF RunSNext, LoadStartup, LoadShutdown, BeginShutdownScript, s_cmd_start,
         s_cmd_waitfor, s_cmd_mount, s_cmd_createport, s_cmd_other, ScriptDone,
         ForkFails, SessionsNext, BeginSessions, alloc_session, SessionsAllocated,
         StartSession, SessionsStarted, StopSessions, collect_process, start_getty,
         ReaperNext, ReaperWait, ReaperCollected, Failure, StateShutdown
<1> QED
  BY <1>2, <1>5, <1>6, <1>7
     DEF Next, SysinitStep, SkipRcStartup, SkipRcShutdown, MountStep, Mount, ClientStep,
         vars

\* From the reaper on nothing leads back.
LEMMA NoWayBack ==
  ASSUME CommonInv, [Next]_vars, Closing \/ ReaperKill
  PROVE  Closing'
<1> USE DEF At, Goto, Return, Closing
<1>0. PointsInv /\ state \in {"STATE_REAPER", "STATE_SHUTDOWN", "STATE_FAILURE"}
      /\ (state = "STATE_REAPER" => pc # "switch" \/ ReaperKill)
  BY DEF CommonInv, TypeInv, ReaperKill
<1>1. CASE SysinitStep
  <2>1. ~RunSNext
    BY <1>0
       DEF PointsInv, RunSNext, LoadStartup, LoadShutdown, BeginShutdownScript,
           s_cmd_start, s_cmd_waitfor, s_cmd_mount, s_cmd_createport, s_cmd_other,
           ScriptDone, Line
  <2>2. ~LoopNext /\ ~RcNext /\ ~SkipRcStartup /\ ~SkipRcShutdown
    BY <1>0 DEF LoopNext, EnterLoop, Wakeup, LeaveLoop, GetMsg, NoMoreMessages,
           HandleShutdown, HandleOther, RcNext, RcFork, RcReapNohang, RcWait,
           RcCollected, InRc,
           SkipRcStartup, SkipRcShutdown
  <2>3. CASE SessionsNext
    BY <1>0, <2>3
       DEF SessionsNext, BeginSessions, alloc_session, SessionsAllocated, StartSession,
           SessionsStarted, StopSessions, collect_process
  <2>4. CASE ReaperNext
    BY <1>0, <2>4
       DEF ReaperNext, ReaperKill, ReaperWait, ReaperCollected, Failure, StateShutdown
  <2> QED
    BY <1>1, <2>1, <2>2, <2>3, <2>4 DEF SysinitStep
<1>2. CASE UNCHANGED ctlVars
  BY <1>0, <1>2 DEF ctlVars, ReaperKill
<1> QED
  BY <1>1, <1>2 DEF Next, ProcStep, MountStep, ClientStep, vars

LEMMA PoweroffInit == Init => PoweroffInv
BY DEF Init, CtlInit, ProcInit, PoweroffInv, LastWaitInv, CleanPoweroff,
       FirstHandlerLives, Alive

LEMMA PoweroffStep ==
  ASSUME CommonInv, PoweroffInv, [Next]_vars, RcEnabled => "ifs" \notin Faults
  PROVE  PoweroffInv'
<1>1. ASSUME RcEnabled, RcNext PROVE errno' # "ECHILD"
  <2>1. FirstHandlerLives /\ errno # "ECHILD"
    BY <1>1
       DEF PoweroffInv, Closing, LastWaitInv, RcNext, RcFork, RcReapNohang, RcWait,
           RcCollected, InRc
  <2>2. Live # {}
    BY <2>1 DEF FirstHandlerLives, Live
  <2> QED
    BY <1>1, <2>1, <2>2
       DEF RcNext, RcFork, RcReapNohang, RcWait, RcCollected, ForkFails, ctlVars
<1>2. LastWaitInv'
  BY <1>1, LastWaitStep DEF PoweroffInv
<1>3. CASE RcEnabled /\ FirstHandlerLives /\ ~ReaperKill
  BY <1>2, <1>3, HandlerStays DEF PoweroffInv
<1>4. CASE Closing \/ ReaperKill
  BY <1>2, <1>4, NoWayBack DEF PoweroffInv
<1>5. CASE ~RcEnabled
  BY <1>2, <1>5 DEF PoweroffInv
<1> QED
  BY <1>3, <1>4, <1>5 DEF PoweroffInv

\* errno says ECHILD in the reaper's loop only when no child is left, and in it no
\* session is restarted.  Without the rc scripts this holds whatever fails, for
\* nobody else calls waitpid().  With them it is proved under the condition that
\* the handler of the initial file system does not exit by itself ("ifs"; drivers
\* may): then it lives until the reaper asks everybody to go, so that whatever
\* waitpid() do_run_rc() calls finds a child.  The condition is needed: once that
\* handler and every other child has ended, a failed fork() of the rc shell leaves
\* an ECHILD that ends the reaper's loop after the first child it collects, though
\* s.shutdown may have started more.
THEOREM PoweroffInvariant ==
  ASSUME RcEnabled => "ifs" \notin Faults
  PROVE  Spec => [](CommonInv /\ PoweroffInv)
<1>1. Init => CommonInv /\ PoweroffInv
  BY CommonInit, PoweroffInit
<1>2. CommonInv /\ PoweroffInv /\ [Next]_vars => (CommonInv /\ PoweroffInv)'
  BY CommonStep, PoweroffStep
<1> QED
  BY <1>1, <1>2, PTL DEF Spec

\* Nothing is left alive when the system is halted after a shutdown sequence,
\* whatever drivers crash, is left behind, is stopped, ignores SIGHUP or cannot be
\* forked.  Where main() runs the rc scripts this needs the handler of the initial
\* file system not to exit by itself.
THEOREM PoweroffIsCleanWithRc ==
  ASSUME RcEnabled => "ifs" \notin Faults
  PROVE  Spec => []CleanPoweroff
<1>1. Spec => [](CommonInv /\ PoweroffInv)
  BY PoweroffInvariant
<1>2. PoweroffInv => CleanPoweroff
  BY DEF PoweroffInv, LastWaitInv
<1> QED
  BY <1>1, <1>2, PTL
=============================================================================
