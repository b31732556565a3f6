------------------------------ MODULE SystemLife ------------------------------
(***************************************************************************)
(* What process 1 promises the people at the terminals: the system boots,  *)
(* serves until a shutdown is granted, goes down and is switched off when  *)
(* nobody is logged in any more.  Logins begin during the boot, one on a   *)
(* line, and end when they like; those that end may be started again only  *)
(* while the system closes, if it runs a script then.                      *)
(***************************************************************************)
CONSTANTS
  Terminal,     \* the terminal lines
  Process,      \* identifies a login
  How,          \* the ways to go down
  DefaultHow,
  Respawn       \* are logins started again while the system closes?

VARIABLES
  phase,        \* "boot", "serving", "closing", "down", "off", or "dead":
                \* process 1 is gone
  logins,       \* the logins that run, pairs of a line and a process
  granted,      \* was a shutdown granted?
  how           \* the way it was asked for

lifeVars == <<phase, logins, granted, how>>

Init ==
  /\ phase = "boot"
  /\ logins = {}
  /\ granted = FALSE
  /\ how = DefaultHow

Login(l, p) ==
  /\ phase = "boot" \/ (Respawn /\ phase = "closing")
  /\ \A x \in logins : x[1] # l /\ x[2] # p
  /\ logins' = logins \cup {<<l, p>>}
  /\ UNCHANGED <<phase, granted, how>>

Logout(x) ==
  /\ phase \notin {"off", "dead"}
  /\ logins' = logins \ {x}
  /\ UNCHANGED <<phase, granted, how>>

Serve ==
  /\ phase = "boot"
  /\ phase' = "serving"
  /\ UNCHANGED <<logins, granted, how>>

\* The last of several grants decides the way down.
Grant(h) ==
  /\ phase = "serving"
  /\ granted' = TRUE
  /\ how' = h
  /\ UNCHANGED <<phase, logins>>

\* The system closes when it was told to, or could not come up.
Close ==
  /\ phase = "boot" \/ (phase = "serving" /\ granted)
  /\ phase' = "closing"
  /\ UNCHANGED <<logins, granted, how>>

\* From here on no login begins.  The way from the boot is that of a system
\* without its scripts, where none has begun.
GoDown ==
  /\ phase = "closing" \/ (phase = "boot" /\ logins = {})
  /\ phase' = "down"
  /\ UNCHANGED <<logins, granted, how>>

PowerOff ==
  /\ phase = "down"
  /\ logins = {}
  /\ phase' = "off"
  /\ UNCHANGED <<logins, granted, how>>

\* A script ends process 1.
Die ==
  /\ phase \in {"boot", "down"}
  /\ phase' = "dead"
  /\ UNCHANGED <<logins, granted, how>>

Next ==
  \/ \E l \in Terminal, p \in Process : Login(l, p)
  \/ \E x \in logins : Logout(x)
  \/ Serve
  \/ \E h \in How : Grant(h)
  \/ Close
  \/ GoDown
  \/ PowerOff
  \/ Die

Spec == Init /\ [][Next]_lifeVars
=============================================================================
