------------------------------- MODULE SysInit -------------------------------
(***************************************************************************)
(* sysinit, process 1 of CheviotOS, in its environment: the state machine  *)
(* of main.c over the handlers of the other modules, the processes it      *)
(* starts and adopts, and the clients of its message port.                 *)
(***************************************************************************)
EXTENDS RunS, RunRc, MessageLoop, Reaper

(* main.c has the calls of the two rc states commented out behind a FIXME   *)
(* and goes straight on to the state they return when they succeed.  FALSE  *)
(* is that program; TRUE is the one with the two calls restored.            *)
CONSTANT RcEnabled

ASSUME RcEnabledAssumption == RcEnabled \in BOOLEAN

vars == <<ctlVars, procVars, scriptVars, fdVars, clientVars, sessionVars,
          loopVars, pid>>

Init ==
  /\ CtlInit
  /\ ProcInit
  /\ RunSInit
  /\ PortInit
  /\ SessionsInit
  /\ LoopInit
  /\ pid = NoPid

TypeOK ==
  /\ CtlTypeOK
  /\ ProcTypeOK
  /\ RunSTypeOK
  /\ PortTypeOK
  /\ SessionsTypeOK
  /\ LoopTypeOK
  /\ pid \in Pid \cup {NoPid}

-----------------------------------------------------------------------------
(* The cases of main() that call no handler. *)

SkipRcStartup ==
  /\ At("STATE_RUN_RC_STARTUP", "switch")
  /\ ~RcEnabled
  /\ Return("STATE_START_SESSIONS")
  /\ UNCHANGED <<errno, procVars, scriptVars, fdVars, clientVars, sessionVars,
                 loopVars, pid>>

SkipRcShutdown ==
  /\ At("STATE_RUN_RC_SHUTDOWN", "switch")
  /\ ~RcEnabled
  /\ Return("STATE_RUN_S_SHUTDOWN")
  /\ UNCHANGED <<errno, procVars, scriptVars, fdVars, clientVars, sessionVars,
                 loopVars, pid>>

\* One step of sysinit, up to its next system call.
SysinitStep ==
  /\ Up
  /\ \/ RunSNext /\ UNCHANGED <<clientVars, sessionVars, loopVars, pid>>
     \/ SkipRcStartup
     \/ SkipRcShutdown
     \/ RcEnabled /\ RcNext
        /\ UNCHANGED <<scriptVars, fdVars, clientVars, loopVars>>
     \/ SessionsNext
        /\ UNCHANGED <<scriptVars, fdVars, clientVars, loopVars, pid>>
     \/ LoopNext /\ UNCHANGED <<procVars, scriptVars, fdVars, sessionVars, pid>>
     \/ ReaperNext
        /\ UNCHANGED <<scriptVars, fdVars, clientVars, loopVars, pid>>

(* The other processes of the system act between any two steps of sysinit.  *)
ProcStep ==
  /\ Up
  /\ ProcNext
  /\ UNCHANGED <<ctlVars, scriptVars, fdVars, clientVars, sessionVars,
                 loopVars, pid>>

MountStep(p) ==
  /\ Up
  /\ Mount(p)
  /\ UNCHANGED <<ctlVars, procVars, fdVars, clientVars, sessionVars, loopVars,
                 pid>>

ClientStep ==
  /\ Up
  /\ \E c \in Client, r \in Request : Send(c, r)
  /\ UNCHANGED <<ctlVars, procVars, scriptVars, fdVars, sessionVars, loopVars,
                 pid>>

Next ==
  \/ SysinitStep
  \/ ProcStep
  \/ \E p \in Pid : MountStep(p)
  \/ ClientStep

Spec == Init /\ [][Next]_vars

(* sysinit is one runnable thread, so the scheduler runs it: weak fairness  *)
(* of its step.  A process that a signal ends does end, an rc script ends,  *)
(* and a driver that stays alive mounts its path.  Nothing else has to      *)
(* happen: no client has to ask, no login has to end.                       *)
EndStep(p) ==
  /\ pstate[p] = "dying" \/ (image[p] = RC /\ pstate[p] # "stopped")
  /\ Up
  /\ Exit(p)
  /\ UNCHANGED <<ctlVars, scriptVars, fdVars, clientVars, sessionVars,
                 loopVars, pid>>

Fairness ==
  /\ WF_vars(SysinitStep)
  /\ \A p \in Pid : WF_vars(EndStep(p)) /\ WF_vars(MountStep(p))

FairSpec == Spec /\ Fairness
=============================================================================
