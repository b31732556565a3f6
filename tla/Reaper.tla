------------------------------- MODULE Reaper -------------------------------
(***************************************************************************)
(* shutdown.c: the last states of sysinit.  The reaper asks every process  *)
(* to end, waits until it has no child left, and the system is halted.     *)
(***************************************************************************)
EXTENDS Sessions

\* Mutant: the sessions are not marked.
MarkSessions_Not == UNCHANGED se_shutdown

MarkSessions == se_shutdown' = se_shutdown \cup session_list

(* All sessions are marked and SIGHUP is sent.  ESRCH: there is nobody to   *)
(* signal, which may or may not count zombies.                              *)
ReaperKill ==
  /\ At("STATE_REAPER", "switch")
  /\ MarkSessions
  /\ \/ /\ ~NoChild
        /\ Hangup
        /\ Goto("waitpid")
        /\ UNCHANGED errno
     \/ /\ Live = {}
        /\ Return("STATE_SHUTDOWN")
        /\ errno' = "other"
        /\ UNCHANGED procVars
  /\ UNCHANGED <<session_list, se_process, startVars, waitVars>>

\* waitpid(-1, &status, 0) blocks until a child is a zombie or there is none.
ReaperWait ==
  /\ At("STATE_REAPER", "waitpid")
  /\ \/ \E p \in Zombies :
          /\ Reap({p})
          /\ wpid' = p
          /\ status' \in {"success", "failure"}
          /\ Goto("collect")
          /\ UNCHANGED errno
     \/ /\ NoChild
        /\ errno' = "ECHILD"
        /\ Goto("collected")
        /\ UNCHANGED <<procVars, waitVars>>
  /\ UNCHANGED <<listVars, startVars>>

\* Mutant: the loop runs once.
ReapedAll_Once == TRUE

\* Mutant: the loop never ends.
ReapedAll_Never == FALSE

\* The loop around waitpid() ends on ECHILD, whichever call left that there.
ReapedAll == errno = "ECHILD"

(* The for loop over SIGHUP, SIGTERM and SIGKILL returns in its first turn. *)
ReaperCollected ==
  /\ At("STATE_REAPER", "collected")
  /\ \/ ~ReapedAll /\ Goto("waitpid")
     \/ ReapedAll /\ Return("STATE_SHUTDOWN")
  /\ wpid' = NoPid
  /\ status' = "success"
  /\ UNCHANGED <<errno, procVars, listVars, startVars>>

Failure ==
  /\ At("STATE_FAILURE", "switch")
  /\ Return("STATE_SHUTDOWN")
  /\ UNCHANGED <<errno, procVars, sessionVars>>

\* shutdown_os() does not return; if it did, the process would spin.
StateShutdown ==
  /\ At("STATE_SHUTDOWN", "switch")
  /\ Goto("off")
  /\ UNCHANGED <<errno, procVars, sessionVars>>

ReaperNext ==
  \/ ReaperKill
  \/ ReaperWait
  \/ ReaperCollected
  \/ Failure
  \/ StateShutdown
=============================================================================
