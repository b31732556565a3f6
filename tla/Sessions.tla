------------------------------ MODULE Sessions ------------------------------
(***************************************************************************)
(* sessions.c: the session list, one session per usable line of /etc/ttys, *)
(* and the getty that runs for each.                                       *)
(*                                                                         *)
(* A session is named by its se_index, its line in /etc/ttys.  Sessions    *)
(* enter the list at its tail in that order and keep it, so the list is    *)
(* the set of its members, its head the least, the next of one the least   *)
(* that is greater.                                                        *)
(***************************************************************************)
EXTENDS ProcessTable, Naturals

CONSTANTS
  NTty,      \* lines in /etc/ttys
  TtyOn      \* the lines that are on and have a name and a getty

ASSUME TtyAssumption ==
  /\ NTty \in Nat
  /\ Tty = 0 .. NTty - 1
  /\ TtyOn \subseteq Tty
  /\ NULL \notin Tty

VARIABLES
  session_list,     \* the sessions on the list
  se_process,       \* the getty of each session, or NoPid
  se_shutdown,      \* the sessions whose se_flags have SE_SHUTDOWN
  session_index,    \* state_start_sessions(): the line being read
  sp,               \* state_start_sessions(): the session being started
  wpid, status      \* what waitpid() returned last, for collect_process()

listVars == <<session_list, se_process, se_shutdown>>
startVars == <<session_index, sp>>
waitVars == <<wpid, status>>
sessionVars == <<listVars, startVars, waitVars>>

\* How a child ended: _exit(0), another end, or it is only stopped.
Statuses == {"success", "failure", "stopped"}

SessionsInit ==
  /\ session_list = {}
  /\ se_process = [s \in Tty |-> NoPid]
  /\ se_shutdown = {}
  /\ session_index = 0
  /\ sp = NULL
  /\ wpid = NoPid
  /\ status = "success"

SessionsTypeOK ==
  /\ session_list \subseteq Tty
  /\ se_process \in [Tty -> Pid \cup {NoPid}]
  /\ se_shutdown \subseteq Tty
  /\ session_index \in 0 .. NTty
  /\ sp \in Tty \cup {NULL}
  /\ wpid \in Pid \cup {NoPid}
  /\ status \in Statuses

-----------------------------------------------------------------------------
\* The head of the list of the sessions in S, or NULL.
LIST_HEAD(S) ==
  IF S = {} THEN NULL ELSE CHOOSE s \in S : \A t \in S : s <= t

\* Mutant: the loop does not move on.
LIST_NEXT_Same(s) == LIST_HEAD({t \in session_list : t >= s})

LIST_NEXT(s) == LIST_HEAD({t \in session_list : t > s})

find_session(p) == LIST_HEAD({s \in session_list : se_process[s] = p})

\* A descriptor that is gone keeps nothing.
Forget(S) ==
  /\ session_list' = session_list \ S
  /\ se_process' = [s \in Tty |-> IF s \in S THEN NoPid ELSE se_process[s]]
  /\ se_shutdown' = se_shutdown \ S

\* Mutant: the session is freed but stays on the list.
free_session_Linked(s) == Forget({})

free_session(s) == Forget({s})

\* Mutant: the pid is not kept.
start_getty_Forgotten(s, p) ==
  /\ Fork(p, s)
  /\ UNCHANGED listVars

\* start_getty() forks p, which the caller keeps in se_process.
start_getty(s, p) ==
  /\ Fork(p, s)
  /\ se_process' = [se_process EXCEPT ![s] = p]
  /\ UNCHANGED <<session_list, se_shutdown>>

-----------------------------------------------------------------------------
(* do_setttyent() opens /etc/ttys; that it failed would show only in        *)
(* getttyent() finding no line.                                             *)
BeginSessions ==
  /\ At("STATE_START_SESSIONS", "switch")
  /\ session_index' = 0
  /\ Goto("alloc")
  /\ UNCHANGED <<errno, procVars, listVars, sp, waitVars>>

\* Mutant: one line too many.
getttyent_PastEnd == session_index <= NTty

\* getttyent() returns another line.
getttyent == session_index < NTty

(* alloc_session() for one line: it is added, or passed over because it is  *)
(* off or memory is short.  When setupargv() fails, free_session() unlinks  *)
(* a session that was never linked: its null links can empty the list.      *)
alloc_session ==
  /\ At("STATE_START_SESSIONS", "alloc")
  /\ getttyent
  /\ session_index' = session_index + 1
  /\ \/ /\ session_index \in TtyOn
        /\ session_list' = session_list \cup {session_index}
        /\ UNCHANGED <<se_process, se_shutdown>>
     \/ /\ session_index \notin TtyOn \/ "memory" \in Faults
        /\ UNCHANGED listVars
     \/ /\ session_index \in TtyOn
        /\ "memory" \in Faults
        /\ Forget(session_list)
  /\ UNCHANGED <<ctlVars, procVars, sp, waitVars>>

(* getttyent() returns NULL, at the end of /etc/ttys or where reading fails. *)
SessionsAllocated ==
  /\ At("STATE_START_SESSIONS", "alloc")
  /\ ~getttyent \/ "io" \in Faults
  /\ session_index' = 0
  /\ \/ /\ session_list = {}
        /\ Return("STATE_RUN_RC_SHUTDOWN")
        /\ UNCHANGED sp
     \/ /\ session_list # {}
        /\ sp' = LIST_HEAD(session_list)
        /\ Goto("start")
  /\ UNCHANGED <<errno, procVars, listVars, waitVars>>

\* Declared and tested in state_start_sessions(), never incremented.
started_session_cnt == 0

(* One turn of the loop that starts the gettys.  A session that had a       *)
(* process would keep the loop on it for ever: no step.                     *)
StartSession ==
  /\ At("STATE_START_SESSIONS", "start")
  /\ sp # NULL
  /\ se_process[sp] = NoPid
  /\ \/ /\ \E p \in Pid : start_getty(sp, p)
        /\ sp' = LIST_NEXT(sp)
        /\ UNCHANGED ctlVars
     \/ /\ ForkFails
        /\ sp' = NULL
        /\ Return(IF started_session_cnt = 0
                  THEN "STATE_RUN_RC_SHUTDOWN"
                  ELSE "STATE_MESSAGE_LOOP")
        /\ UNCHANGED listVars
  /\ UNCHANGED <<session_index, waitVars>>

SessionsStarted ==
  /\ At("STATE_START_SESSIONS", "start")
  /\ sp = NULL
  /\ Return("STATE_MESSAGE_LOOP")
  /\ UNCHANGED <<errno, procVars, sessionVars>>

\* state_stop_sessions() stops nothing.
StopSessions ==
  /\ At("STATE_STOP_SESSIONS", "switch")
  /\ Return("STATE_RUN_RC_SHUTDOWN")
  /\ UNCHANGED <<errno, procVars, sessionVars>>

-----------------------------------------------------------------------------
(* collect_process(wpid, status), called after waitpid() returned wpid.  It *)
(* never looks at status, and it logs, which may change errno.              *)
collect_process ==
  LET s == find_session(wpid) IN
  /\ pc = "collect"
  /\ Goto("collected")
  /\ \/ /\ s = NULL
        /\ Logged
        /\ UNCHANGED <<procVars, listVars>>
     \/ /\ s # NULL
        /\ s \in se_shutdown
        /\ free_session(s)
        /\ Logged
        /\ UNCHANGED procVars
     \/ /\ s # NULL
        /\ s \notin se_shutdown
        /\ \/ /\ \E p \in Pid : start_getty(s, p)
              /\ Logged
           \/ ForkFails /\ UNCHANGED listVars
  /\ UNCHANGED <<startVars, waitVars>>

SessionsNext ==
  \/ BeginSessions
  \/ alloc_session
  \/ SessionsAllocated
  \/ StartSession
  \/ SessionsStarted
  \/ StopSessions
  \/ collect_process
=============================================================================
