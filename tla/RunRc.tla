-------------------------------- MODULE RunRc --------------------------------
(***************************************************************************)
(* run_rc.c: runs /etc/rc.startup or /etc/rc.shutdown in a shell and waits *)
(* for it, collecting every other child that changes state meanwhile.      *)
(***************************************************************************)
EXTENDS Sessions

VARIABLE pid    \* the shell that do_run_rc() waits for

InRc == state \in {"STATE_RUN_RC_STARTUP", "STATE_RUN_RC_SHUTDOWN"}

\* do_run_rc() succeeded or not: only the startup script's result counts.
RcReturns(succeeded) ==
  /\ pid' = NoPid
  /\ Return(CASE state = "STATE_RUN_RC_SHUTDOWN" -> "STATE_RUN_S_SHUTDOWN"
              [] state = "STATE_RUN_RC_STARTUP" ->
                   IF succeeded THEN "STATE_START_SESSIONS"
                   ELSE "STATE_RUN_RC_SHUTDOWN")

RcFork ==
  /\ InRc
  /\ pc = "switch"
  /\ \/ /\ \E p \in Pid : Fork(p, RC) /\ pid' = p
        /\ Goto("waitpid")
        /\ UNCHANGED errno
     \/ /\ ForkFails
        /\ Goto("nohang")
        /\ UNCHANGED pid
  /\ UNCHANGED sessionVars

(* After fork() failed: waitpid(-1, NULL, WNOHANG) reaps zombies unseen, one *)
(* by one, until there is none at the moment of the call, and the script is *)
(* given up.  errno is ECHILD if no child is left at all.                   *)
RcReapNohang ==
  /\ InRc
  /\ pc = "nohang"
  /\ \/ /\ \E p \in Zombies : Reap({p})
        /\ UNCHANGED <<ctlVars, pid>>
     \/ /\ Zombies = {}
        /\ errno' = IF Live = {} THEN "ECHILD" ELSE errno
        /\ RcReturns(FALSE)
        /\ UNCHANGED procVars
  /\ UNCHANGED sessionVars

(* waitpid(-1, &status, WUNTRACED) returns a child that ended, or one that  *)
(* was stopped and not yet reported.                                        *)
RcWait ==
  /\ InRc
  /\ pc = "waitpid"
  /\ \E p \in Pid :
       /\ wpid' = p
       /\ \/ /\ pstate[p] = "zombie"
             /\ Reap({p})
             /\ status' \in {"success", "failure"}
          \/ /\ pstate[p] = "stopped"
             /\ pstate' = [pstate EXCEPT ![p] = "reported"]
             /\ status' = "stopped"
             /\ UNCHANGED image
  /\ Goto("collect")
  /\ UNCHANGED <<errno, listVars, startVars, pid>>

\* After collect_process(): is it the shell, and has it ended?
RcCollected ==
  /\ InRc
  /\ pc = "collected"
  /\ \/ /\ wpid = pid /\ status # "stopped"
        /\ RcReturns(status = "success")
        /\ UNCHANGED procVars
     \/ /\ wpid = pid /\ status = "stopped"
        /\ pstate' = [pstate EXCEPT ![pid] = IF @ = "reported" THEN "running"
                                             ELSE @]
        /\ Goto("waitpid")
        /\ UNCHANGED <<image, pid>>
     \/ /\ wpid # pid
        /\ Goto("waitpid")
        /\ UNCHANGED <<procVars, pid>>
  /\ wpid' = NoPid
  /\ status' = "success"
  /\ UNCHANGED <<errno, listVars, startVars>>

RcNext == RcFork \/ RcReapNohang \/ RcWait \/ RcCollected
=============================================================================
