-------------------------- MODULE SysInitInvariants --------------------------
(***************************************************************************)
(* The inductive invariants behind the safety properties of SysInit.       *)
(* CommonInv and StartInv hold with and without the rc scripts,            *)
(* TrackingInv while no process is stopped; PoweroffInv needs the IFS to   *)
(* stay where the rc scripts run; LoginInv is about the program as it is,  *)
(* where main() runs no rc script, so that only the reaper collects        *)
(* children.                                                               *)
(***************************************************************************)
EXTENDS SysInitProperties

\* Which handler each program point belongs to.
PointsInv ==
  /\ pc = "load_shutdown" => state = "STATE_RUN_S_STARTUP"
  /\ pc = "script" => state \in {"STATE_RUN_S_STARTUP", "STATE_RUN_S_SHUTDOWN"}
  /\ pc \in {"alloc", "start"} => state = "STATE_START_SESSIONS"
  /\ pc \in {"kevent", "getmsg", "handle"} => state = "STATE_MESSAGE_LOOP"
  /\ pc = "nohang" => RcEnabled /\ InRc
  /\ pc \in {"waitpid", "collect", "collected"} =>
       state = "STATE_REAPER" \/ (RcEnabled /\ InRc)

\* What is loaded when: the startup script first, both before a line runs.
ScriptsInv ==
  /\ pc = "load_shutdown" => s_startup_script # NULL
  /\ state = "STATE_RUN_S_STARTUP" /\ pc \in {"switch", "load_shutdown"} =>
       s_shutdown_script = NULL
  /\ state = "STATE_FAILURE" => s_shutdown_script = NULL
  /\ state \notin {"STATE_RUN_S_STARTUP", "STATE_FAILURE", "STATE_SHUTDOWN"}
       \/ pc = "script" => s_shutdown_script # NULL

\* Type correctness is inductive together with these two.
TypeInv == TypeOK /\ PointsInv /\ ScriptsInv

\* The loop holds a request exactly while it handles it, and it has been told to
\* end if and only if a client was granted a shutdown.
RequestsInv ==
  /\ msgid # NoClient <=> pc = "handle"
  /\ RequestsConserved
  /\ shutdown <=> \E c \in Client : reply[c] = "ok"

CommonInv == TypeInv /\ RequestsInv

-----------------------------------------------------------------------------
Starting ==
  \/ state \in {"STATE_RUN_S_STARTUP", "STATE_RUN_RC_STARTUP"}
  \/ state = "STATE_START_SESSIONS" /\ pc # "start"

\* How far state_start_sessions() has come: to sp, in the order of the list.
StartedSoFar ==
  /\ Starting => \A s \in Tty : se_process[s] = NoPid
  /\ pc = "start" /\ sp # NULL =>
       /\ sp \in session_list
       /\ \A s \in session_list : se_process[s] = NoPid <=> s >= sp
  /\ pc = "start" /\ sp = NULL => \A s \in session_list : se_process[s] # NoPid

\* What waitpid() returned for collect_process() is a pid.
StartInv ==
  /\ StartedSoFar
  /\ pc = "collect" => wpid \in Pid

(* What is left of the sessions' order when the rc scripts are restored and *)
(* forks fail: a session may keep the pid of a process that is gone, but a  *)
(* live getty is always found under its own.                                *)
TrackingInv ==
  /\ LoginsTracked
  /\ pc = "collect" => wpid \in Pid /\ image[wpid] \notin Tty
  /\ RcEnabled => \A p \in Pid : pstate[p] # "stopped"

\* In the reaper every session is marked, so that nobody is started any more,
\* and errno says ECHILD only when there is really no child.
LastWaitInv ==
  /\ state = "STATE_REAPER" /\ pc # "switch" => session_list \subseteq se_shutdown
  /\ errno = "ECHILD" =>
       \/ state = "STATE_REAPER" /\ pc = "collected" /\ NoChild
       \/ state = "STATE_SHUTDOWN"
  /\ CleanPoweroff

\* The process that was there before sysinit, and serves the first root.
FirstHandlerLives ==
  \E p \in Pid : image[p] = IFS /\ pstate[p] \in Alive \ {"dying"}

\* All processes have been asked to go, or nothing is left to be done.
Closing ==
  \/ state \in {"STATE_SHUTDOWN", "STATE_FAILURE"}
  \/ state = "STATE_REAPER" /\ pc # "switch"

(* Why no earlier waitpid() says ECHILD, though with the rc scripts there    *)
(* are some: until the reaper asks everybody to go, one process stays.       *)
PoweroffInv == LastWaitInv /\ (RcEnabled => Closing \/ FirstHandlerLives)

-----------------------------------------------------------------------------
(* The rest is about main() as it is: ~RcEnabled. *)

\* No pid is kept for two sessions, nor for one that is not on the list.
ProcessesDistinct ==
  /\ \A s \in Tty \ session_list : se_process[s] = NoPid
  /\ \A s, t \in session_list :
       se_process[s] = se_process[t] => s = t \/ se_process[s] = NoPid

SessionsInv ==
  /\ SessionOwnsProcess
  /\ LoginsTracked
  /\ ProcessesDistinct
  /\ shutdown => ~Starting /\ pc # "start"

\* A process that waitpid() has just returned is not a getty: at most its pid
\* is in use again, by an orphan.
ReaperInv ==
  /\ pc = "collect" => wpid \in Pid /\ image[wpid] \notin Tty
  /\ LastWaitInv

LoginInv == StartInv /\ SessionsInv /\ ReaperInv
=============================================================================
