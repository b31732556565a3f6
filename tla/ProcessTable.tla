----------------------------- MODULE ProcessTable -----------------------------
(***************************************************************************)
(* The kernel's process table, as far as the calls sysinit makes can tell: *)
(* fork(), _exit(), waitpid(-1), kill(-1, SIGHUP) and kill(pid, SIGCONT).  *)
(* The kernel is not part of this repository: this module is its           *)
(* environment, written from how the code uses these calls.                *)
(*                                                                         *)
(* The table lists the children of sysinit.  A process that a child leaves *)
(* behind joins the table when the child exits (Orphan): process 1 adopts  *)
(* it.  A pid is free for reuse from the moment waitpid() has returned it. *)
(***************************************************************************)
EXTENDS InitState

CONSTANTS
  Pid,       \* the pids other than 1
  NoPid,     \* 0: no process
  Tty,       \* the lines of /etc/ttys: the image of a getty is its line
  Path,      \* mount points: the image of a driver is the path it mounts
  IFS,       \* the initial file system's handler, forked before sysinit's exec
  RC,        \* the shell that runs an rc script
  ORPHAN,    \* a process some child left behind
  NoImage,
  Faults     \* which misfortunes the environment is allowed

ASSUME NoPidAssumption == NoPid \notin Pid

\* A getty is told from every other program, and the IFS from a driver.
ASSUME ImageAssumption ==
  /\ Tty \cap (Path \cup {IFS, RC, ORPHAN, NoImage}) = {}
  /\ IFS \notin Path

ASSUME FaultsAssumption ==
  Faults \subseteq {"fork",      \* fork() fails although a pid is free
                    "crash",     \* a driver exits by itself
                    "ifs",       \* the IFS exits by itself
                    "orphan",    \* a child leaves a process behind
                    "nohup",     \* a process ignores SIGHUP
                    "stop",      \* a process is stopped by a signal
                    "io",        \* a file cannot be opened or read whole
                    "memory",    \* malloc() or asprintf() fails
                    "port"}      \* the message port or kqueue is refused

VARIABLES
  pstate,    \* status of each pid
  image      \* what each process runs

procVars == <<pstate, image>>

Image == Tty \cup Path \cup {IFS, RC, ORPHAN, NoImage}

(* "dying" has been sent a SIGHUP that will end it, "nohup" ignores SIGHUP, *)
(* "stopped" is stopped and "reported" stopped with waitpid() told so.      *)
Alive == {"running", "nohup", "dying", "stopped", "reported"}

Live == {p \in Pid : pstate[p] \in Alive}

NoChild == \A p \in Pid : pstate[p] = "free"

ProcInit ==
  \E p \in Pid :
    /\ pstate = [q \in Pid |-> IF q = p THEN "running" ELSE "free"]
    /\ image = [q \in Pid |-> IF q = p THEN IFS ELSE NoImage]

ProcTypeOK ==
  /\ pstate \in [Pid -> Alive \cup {"free", "zombie"}]
  /\ image \in [Pid -> Image]

-----------------------------------------------------------------------------
(* System calls of sysinit, to be used inside its actions. *)

\* fork() returns p and the child execs img (or will exit: see Exit).
Fork(p, img) ==
  /\ pstate[p] = "free"
  /\ pstate' = [pstate EXCEPT ![p] = "running"]
  /\ image' = [image EXCEPT ![p] = img]

\* fork() returns -1.
ForkFails ==
  /\ \/ "fork" \in Faults
     \/ \A p \in Pid : pstate[p] # "free"
  /\ errno' = "other"
  /\ UNCHANGED procVars

\* waitpid() returns the zombies in ps and forgets them.
Reap(ps) ==
  /\ pstate' = [p \in Pid |-> IF p \in ps THEN "free" ELSE pstate[p]]
  /\ image' = [p \in Pid |-> IF p \in ps THEN NoImage ELSE image[p]]

Zombies == {p \in Pid : pstate[p] = "zombie"}

\* kill(-1, SIGHUP); a stopped process does not act on it.
Hangup ==
  /\ pstate' = [p \in Pid |-> IF pstate[p] = "running" THEN "dying"
                              ELSE pstate[p]]
  /\ UNCHANGED image

-----------------------------------------------------------------------------
(* What the processes do by themselves. *)

\* Drivers and the IFS are meant to stay until they are told to go.
MayExit(p) ==
  \/ image[p] = IFS /\ "ifs" \in Faults
  \/ image[p] \in Path /\ "crash" \in Faults
  \/ image[p] \notin Path \cup {IFS}
  \/ pstate[p] = "dying"

Exit(p) ==
  /\ p \in Live
  /\ MayExit(p)
  /\ pstate' = [pstate EXCEPT ![p] = "zombie"]
  /\ UNCHANGED image

\* A process exits and sysinit adopts a child q of it, which got the same
\* signals, and which ignores SIGHUP if an rc shell started it (run_rc.c makes
\* the shell ignore it, and exec keeps that).
Orphan(p, q) ==
  /\ "orphan" \in Faults
  /\ pstate[p] \in {"running", "dying"}
  /\ MayExit(p)
  /\ image[p] # ORPHAN
  /\ pstate[q] = "free"
  /\ LET started == IF image[p] = RC THEN "nohup" ELSE pstate[p]
     IN  pstate' = [pstate EXCEPT ![p] = "zombie", ![q] = started]
  /\ image' = [image EXCEPT ![q] = ORPHAN]

\* A process chooses to ignore SIGHUP.
Nohup(p) ==
  /\ "nohup" \in Faults
  /\ pstate[p] = "running"
  /\ pstate' = [pstate EXCEPT ![p] = "nohup"]
  /\ UNCHANGED image

\* A process is stopped, by job control or a debugger.
Stop(p) ==
  /\ "stop" \in Faults
  /\ pstate[p] = "running"
  /\ pstate' = [pstate EXCEPT ![p] = "stopped"]
  /\ UNCHANGED image

ProcNext ==
  \E p \in Pid :
    \/ Exit(p)
    \/ \E q \in Pid : Orphan(p, q)
    \/ Nohup(p)
    \/ Stop(p)
=============================================================================
