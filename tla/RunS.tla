-------------------------------- MODULE RunS --------------------------------
(***************************************************************************)
(* run_s.c: the interpreter of /etc/s.startup and /etc/s.shutdown.  Both   *)
(* files are read before the first line runs, because the root file system *)
(* may be gone when the second is needed.  A line is one command; what a   *)
(* command returns is ignored, so a failed line is like one not written.   *)
(*                                                                         *)
(* A line is abstracted to its command and the arguments that matter to    *)
(* later lines: the driver to start (named by the path it mounts) and mount *)
(* paths.  Every command without such an effect (mknod, chdir, sleep, a    *)
(* comment, an unknown word, setenv, which the interpreter does not know)  *)
(* is "other".  How lines are cut into words is in ScriptText.             *)
(***************************************************************************)
EXTENDS MessagePort, Sequences, Naturals

CONSTANTS
  StartupScript,    \* the lines of /etc/s.startup
  ShutdownScript,   \* the lines of /etc/s.shutdown
  Garbage           \* what may follow the part of a script that was read

Command ==
  [cmd : {"start", "waitfor", "pivot", "renamemount", "createport", "other"},
   arg : Path \cup {NULL},       \* the first argument, if there is one
   arg2 : Path \cup {NULL}]      \* the second

ASSUME ScriptsAssumption ==
  /\ StartupScript \in Seq(Command)
  /\ ShutdownScript \in Seq(Command)
  /\ Garbage \subseteq Seq(Command)
  /\ NULL \notin Seq(Command)
  /\ NULL \notin Path

VARIABLES
  s_startup_script,    \* the text of the startup script, once it is read
  s_shutdown_script,   \* the text of the shutdown script, once it is read
  src,                 \* the lines s_readline() has not returned yet
  mounts,              \* the paths at which something is mounted
  starting             \* the drivers that have not mounted their path yet

mountVars == <<mounts, starting>>
scriptVars == <<s_startup_script, s_shutdown_script, src, mountVars>>

RunSInit ==
  /\ s_startup_script = NULL
  /\ s_shutdown_script = NULL
  /\ src = <<>>
  /\ mounts = {}
  /\ starting = {}

RunSTypeOK ==
  /\ s_startup_script \in Seq(Command) \cup {NULL}
  /\ s_shutdown_script \in Seq(Command) \cup {NULL}
  /\ src \in Seq(Command)
  /\ mounts \subseteq Path
  /\ starting \subseteq Pid

-----------------------------------------------------------------------------
(* What load_bootstrap_file() may leave in the buffer.  The result of       *)
(* read() is ignored: after a short read the rest of the buffer is what     *)
(* malloc() found there, which ends the line that was cut and may hold      *)
(* lines of its own.                                                        *)
load_bootstrap_file(file) ==
  {file} \cup IF "io" \in Faults
              THEN {SubSeq(file, 1, k) \o rest :
                      k \in 0 .. Len(file) - 1, rest \in Garbage}
              ELSE {}

\* Mutant: the failure is taken for one the shutdown scripts can follow.
LoadFailed_Halfway ==
  /\ {"io", "memory"} \cap Faults # {}
  /\ Return("STATE_RUN_RC_SHUTDOWN")

\* open(), fstat() or malloc() fails: no buffer.
LoadFailed ==
  /\ {"io", "memory"} \cap Faults # {}
  /\ Return("STATE_FAILURE")

LoadStartup ==
  /\ At("STATE_RUN_S_STARTUP", "switch")
  /\ \/ /\ s_startup_script' \in load_bootstrap_file(StartupScript)
        /\ Goto("load_shutdown")
     \/ /\ LoadFailed
        /\ UNCHANGED s_startup_script
  /\ UNCHANGED <<errno, procVars, s_shutdown_script, src, mountVars,
                 fdVars>>

LoadShutdown ==
  /\ At("STATE_RUN_S_STARTUP", "load_shutdown")
  /\ \/ /\ s_shutdown_script' \in load_bootstrap_file(ShutdownScript)
        /\ src' = s_startup_script
        /\ Goto("script")
     \/ /\ LoadFailed
        /\ UNCHANGED <<s_shutdown_script, src>>
  /\ UNCHANGED <<errno, procVars, s_startup_script, mountVars, fdVars>>

\* state_run_s_shutdown() refuses a script that was never loaded.
BeginShutdownScript ==
  /\ At("STATE_RUN_S_SHUTDOWN", "switch")
  /\ \/ /\ s_shutdown_script # NULL
        /\ src' = s_shutdown_script
        /\ Goto("script")
     \/ /\ s_shutdown_script = NULL
        /\ Return("STATE_FAILURE")
        /\ UNCHANGED src
  /\ UNCHANGED <<errno, procVars, s_startup_script, s_shutdown_script,
                 mountVars, fdVars>>

-----------------------------------------------------------------------------
\* The next line is a cmd: process_bootstrap_script() takes it off the text.
Line(cmd) ==
  /\ pc = "script"
  /\ src # <<>>
  /\ Head(src).cmd = cmd
  /\ src' = Tail(src)
  /\ UNCHANGED <<s_startup_script, s_shutdown_script>>

NextLine == UNCHANGED <<state, pc>>

s_cmd_start ==
  /\ Line("start")
  /\ \/ /\ Head(src).arg # NULL
        /\ \E p \in Pid : /\ Fork(p, Head(src).arg)
                          /\ starting' = starting \cup {p}
        /\ UNCHANGED errno
     \/ /\ Head(src).arg # NULL
        /\ ForkFails
        /\ UNCHANGED starting
     \/ /\ Head(src).arg = NULL
        /\ UNCHANGED <<errno, procVars, starting>>
  /\ NextLine
  /\ UNCHANGED <<mounts, fdVars>>

\* Polls ismount() until it says 1; without a path it ends process 1.
s_cmd_waitfor ==
  /\ Line("waitfor")
  /\ \/ /\ Head(src).arg \in mounts
        /\ NextLine
     \/ /\ Head(src).arg = NULL
        /\ pc' = "exited"
        /\ UNCHANGED state
  /\ UNCHANGED <<errno, procVars, mountVars, fdVars>>

(* The paths mounted after pivotroot(new_root, old_root): what was mounted   *)
(* at new_root is the root now, and the old root is at old_root.            *)
pivotroot(new_root, old_root) ==
  IF new_root \in mounts /\ old_root # NULL
  THEN (mounts \ {new_root}) \cup {old_root}
  ELSE mounts

\* Mutant: the two arguments are swapped.
renamemount_Swapped(new_path, old_path) ==
  IF old_path # NULL /\ new_path \in mounts
  THEN (mounts \ {new_path}) \cup {old_path}
  ELSE mounts

\* The paths mounted after renamemount(new_path, old_path).
renamemount(new_path, old_path) ==
  IF new_path # NULL /\ old_path \in mounts
  THEN (mounts \ {old_path}) \cup {new_path}
  ELSE mounts

s_cmd_mount ==
  /\ \/ /\ Line("pivot")
        /\ mounts' = pivotroot(Head(src).arg, Head(src).arg2)
     \/ /\ Line("renamemount")
        /\ mounts' = renamemount(Head(src).arg, Head(src).arg2)
  /\ Logged
  /\ NextLine
  /\ UNCHANGED <<procVars, starting, fdVars>>

\* portid is overwritten even when the port is refused, kq only after it.
s_cmd_createport ==
  /\ Line("createport")
  /\ CreateMsgPort
  /\ \/ portid' = "failed" /\ UNCHANGED kq
     \/ portid' = "open" /\ kq' = "open"
     \/ portid' = "open" /\ "port" \in Faults /\ kq' = "failed"
  /\ Logged
  /\ NextLine
  /\ UNCHANGED <<procVars, mountVars>>

\* A system call whose only trace may be errno, or nothing at all.
s_cmd_other ==
  /\ Line("other")
  /\ Logged
  /\ NextLine
  /\ UNCHANGED <<procVars, mountVars, fdVars>>

\* s_readline() returns NULL: the script has succeeded, whatever its lines did.
ScriptDone ==
  /\ pc = "script"
  /\ src = <<>>
  /\ Return(IF state = "STATE_RUN_S_STARTUP"
            THEN "STATE_RUN_RC_STARTUP"
            ELSE "STATE_REAPER")
  /\ UNCHANGED <<errno, procVars, scriptVars, fdVars>>

RunSNext ==
  \/ LoadStartup
  \/ LoadShutdown
  \/ BeginShutdownScript
  \/ s_cmd_start
  \/ s_cmd_waitfor
  \/ s_cmd_mount
  \/ s_cmd_createport
  \/ s_cmd_other
  \/ ScriptDone

-----------------------------------------------------------------------------
\* A driver that was started mounts its path, once (the environment's step).
Mount(p) ==
  /\ p \in starting
  /\ starting' = starting \ {p}
  /\ pstate[p] \in {"running", "nohup"}
  /\ image[p] \in Path \ mounts
  /\ mounts' = mounts \cup {image[p]}
  /\ UNCHANGED <<s_startup_script, s_shutdown_script, src>>
=============================================================================
