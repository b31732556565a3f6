------------------------------ MODULE InitState ------------------------------
(***************************************************************************)
(* The control state every part of sysinit shares: which init_state_t the  *)
(* loop of main() is in, how far the handler of that state has come, and   *)
(* the C library's errno.                                                  *)
(*                                                                         *)
(* sysinit is one thread.  A step of it ends where it makes a system call, *)
(* so that the other processes of the system can act between two of them.  *)
(***************************************************************************)
CONSTANT NULL   \* the null pointer

VARIABLES
  state,   \* the variable of main(): the state whose handler runs
  pc,      \* the point the handler has reached; "switch" is main()'s switch
  errno    \* "ECHILD" or "other": the one value the code depends on

ctlVars == <<state, pc, errno>>

InitStates ==
  {"STATE_RUN_S_STARTUP", "STATE_RUN_RC_STARTUP", "STATE_START_SESSIONS",
   "STATE_MESSAGE_LOOP", "STATE_STOP_SESSIONS", "STATE_RUN_RC_SHUTDOWN",
   "STATE_RUN_S_SHUTDOWN", "STATE_REAPER", "STATE_SHUTDOWN", "STATE_FAILURE"}

Labels ==
  {"switch",                            \* main.c, between two handlers
   "nohang",                            \* run_rc.c, after a failed fork()
   "load_shutdown", "script",           \* run_s.c
   "alloc", "start",                    \* sessions.c
   "kevent", "getmsg", "handle",        \* message_loop.c
   "waitpid", "collect", "collected",   \* run_rc.c and shutdown.c
   "off",                               \* shutdown_os() was called
   "exited"}                            \* sysinit itself called exit()

\* The system runs until sysinit halts it, or dies and leaves no process 1.
Up == pc \notin {"off", "exited"}

At(s, label) == state = s /\ pc = label

Goto(label) == pc' = label /\ UNCHANGED state

\* A handler returns: main() switches on the state it returned.
Return(s) == state' = s /\ pc' = "switch"

\* Calls that succeed or are not looked at, logging among them, may set errno.
Logged == errno' \in {errno, "other"}

CtlInit ==
  /\ state = "STATE_RUN_S_STARTUP"
  /\ pc = "switch"
  /\ errno = "other"

CtlTypeOK ==
  /\ state \in InitStates
  /\ pc \in Labels
  /\ errno \in {"ECHILD", "other"}
=============================================================================
