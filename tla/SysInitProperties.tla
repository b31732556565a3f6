-------------------------- MODULE SysInitProperties --------------------------
(***************************************************************************)
(* What sysinit has to get right, stated over the state of SysInit.        *)
(***************************************************************************)
EXTENDS SysInit

-----------------------------------------------------------------------------
(* Safety. *)

\* The session list never points at a process that is not the session's own:
\* se_process is 0, or the session's getty, dead or alive, or the child that
\* waitpid() has just returned.  Pids are reused, so a stale se_process would
\* make collect_process() (sessions.c) mistake a stranger for a login.
SessionOwnsProcess ==
  \A s \in session_list :
    \/ se_process[s] = NoPid
    \/ pc = "collect" /\ wpid = se_process[s]
    \/ pstate[se_process[s]] # "free" /\ image[se_process[s]] = s

\* Every live getty is the process of a session on the list, so no line has
\* two of them and the reaper frees each session with its process.
LoginsTracked ==
  \A p \in Live :
    image[p] \in Tty => /\ image[p] \in session_list
                        /\ se_process[image[p]] = p

\* A system that came as far as to load its scripts is halted with no process
\* left alive: all have been collected by state_reaper(), whatever was started,
\* adopted or restarted before.
CleanPoweroff ==
  state = "STATE_SHUTDOWN" /\ s_shutdown_script # NULL => Live = {}

\* The loop of state_start_sessions() never meets a session that has a process:
\* its "continue" would keep it on that session for ever.
StartLoopAdvances ==
  pc = "start" /\ sp # NULL =>
    sp \in session_list /\ se_process[sp] = NoPid

\* The shutdown script is in memory whenever the shutdown sequence is entered,
\* by request or by a failed start: state_run_s_shutdown() never fails for it.
ShutdownScriptLoaded ==
  state \in {"STATE_RUN_RC_SHUTDOWN", "STATE_RUN_S_SHUTDOWN", "STATE_REAPER"}
    => s_shutdown_script # NULL

\* No request is lost or answered twice: one that was sent is in exactly one
\* place, the queue, the hands of the loop, or among the answered.
RequestsConserved ==
  \A c \in Client :
    /\ c \in queue => c # msgid /\ reply[c] = "none"
    /\ c = msgid => reply[c] = "none"
    /\ request[c] # NoRequest <=> c \in queue \/ c = msgid \/ reply[c] # "none"

GrantedNow(c) == reply[c] # "ok" /\ reply'[c] = "ok"

\* The client that is granted last decides the way down: by default the system
\* halts, each grant replaces the way by the one that client asked for, and
\* nothing else between the boot and shutdown_os() changes it.  Of a client whose
\* body is too short for a way (NoHow) nothing is said: message_loop.c ignores
\* what readmsg() returned and takes what lies on its stack.
HowWasRequested ==
  /\ ~shutdown /\ shutdown_how = HALT
  /\ [][/\ \A c \in Client :
             GrantedNow(c) =>
               /\ shutdown'
               /\ request[c].how # NoHow => shutdown_how' = request[c].how
        /\ UNCHANGED <<shutdown, shutdown_how>> \/ \E c \in Client : GrantedNow(c)]_vars

\* Once a shutdown was granted no getty is started any more, though the
\* sessions are only marked SE_SHUTDOWN when the reaper runs.
NoLoginAfterShutdown ==
  [][shutdown => \A p \in Pid : image'[p] \in Tty => image'[p] = image[p]]_vars

-----------------------------------------------------------------------------
(* Liveness, under FairSpec. *)

\* A granted shutdown is carried out: the system reaches shutdown_os().
ShutdownCompletes ==
  (\E c \in Client : reply[c] = "ok") ~> pc = "off"

\* A request that is queued while the loop runs, with its port and its kqueue, is
\* answered, or comes so late that the loop has already been told to end.
RequestsServed ==
  \A c \in Client :
    (state = "STATE_MESSAGE_LOOP" /\ portid = "open" /\ kq = "open" /\ c \in queue)
      ~> (reply[c] # "none" \/ shutdown)

\* The system comes up: sysinit reaches its message loop.
BootCompletes == <>(state = "STATE_MESSAGE_LOOP")

-----------------------------------------------------------------------------
(* The life of the system as the people at the terminals see it. *)

Phase(s, label) ==
  CASE label = "off" -> "off"
    [] label = "exited" -> "dead"
    [] label \notin {"off", "exited"}
       /\ s \in {"STATE_RUN_S_STARTUP", "STATE_RUN_RC_STARTUP",
                 "STATE_START_SESSIONS"} -> "boot"
    [] label \notin {"off", "exited"} /\ s = "STATE_MESSAGE_LOOP" -> "serving"
    [] label \notin {"off", "exited"}
       /\ s \in {"STATE_STOP_SESSIONS", "STATE_RUN_RC_SHUTDOWN"} -> "closing"
    [] OTHER -> "down"

logins == {<<image[p], p>> : p \in {q \in Live : image[q] \in Tty}}

Life == INSTANCE SystemLife WITH Terminal <- Tty, Process <- Pid, DefaultHow <- HALT,
                                 Respawn <- RcEnabled,
                                 phase <- Phase(state, pc),
                                 granted <- shutdown, how <- shutdown_how

\* The state machine of main() implements SystemLife: no login starts but on a
\* free line, during the boot or while rc.shutdown runs, service ends only by a
\* grant, and the power goes off only when the last login is gone.
LifeSpec == Life!Spec

-----------------------------------------------------------------------------
(* The service that clients of the message port see. *)

RightAnswers(r) == IF r.kind = "shutdown" THEN {"ok"} ELSE {"ENOTSUP"}

Service == INSTANCE RequestService WITH Answers <- [r \in Request |-> RightAnswers(r)],
                                        answer <- reply, NoAnswer <- "none", ended <- ~Up

\* The message loop implements RequestService from the creation of the port to the
\* power off: a client that asks for a shutdown is granted it and any other is
\* refused, once, whoever else is queued and however process 1 ends.
PortService == Service!Spec

-----------------------------------------------------------------------------
(* What documents and comments of the repository say, and the code does not. *)

\* README.md on the message loop: "This shall also cleanup after any terminated
\* sessions or zombie processes."
ZombiesCollected ==
  \A p \in Pid :
    state = "STATE_MESSAGE_LOOP" /\ pstate[p] = "zombie"
      ~> pstate[p] # "zombie" \/ state # "STATE_MESSAGE_LOOP"

\* shutdown.c sends three death_sigs in turn, the last of which nobody can
\* ignore, and then warns of processes that "would not die": the reaper ends.
ReaperEnds == state = "STATE_REAPER" ~> pc = "off"

\* state_start_sessions() gives up if a getty cannot be started while
\* started_session_cnt is 0, and else goes on with those it has: it gives up only
\* when no session has a process.
GivesUpOnlyIdle ==
  state = "STATE_RUN_RC_SHUTDOWN" /\ ~shutdown =>
    \A s \in session_list : se_process[s] = NoPid

\* sessions.c on collect_process(): "Collect exit status for a child process.
\* If an exiting login, start a new login running."  So a line has one login.
OneLoginPerLine ==
  \A p, q \in Live : image[p] \in Tty /\ image[p] = image[q] => p = q
=============================================================================
