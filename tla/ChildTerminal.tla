---------------------------- MODULE ChildTerminal ----------------------------
(***************************************************************************)
(* How a child of sysinit gets its terminal: start_getty(), and do_run_rc()*)
(* for the shell of an rc script, call setctty(), which opens the terminal *)
(* and calls login_tty(), and exec.  Before them, what process 1 has open: *)
(* init_sysinit().                                                         *)
(*                                                                         *)
(* The kernel is the environment: a process cannot get a controlling       *)
(* terminal unless it leads a session, open() and F_DUPFD return the least *)
(* free descriptor.                                                        *)
(***************************************************************************)
EXTENDS GettyLine

CONSTANTS
  OPEN_MAX,      \* descriptors a process can have
  HIGH           \* 20: where setctty() wants the terminal

ASSUME OpenMaxAssumption == OPEN_MAX \in Nat /\ HIGH \in 3 .. OPEN_MAX

VARIABLES
  kind,          \* what is forked: "getty" or "rc"
  initfds,       \* the descriptors of process 1: "closed" or "sysinit"
  fds,           \* those of the child, "tty" is its terminal
  leader,        \* does the child lead a session?
  ctty,          \* has it the terminal for its controlling terminal?
  fd,            \* setctty(): the terminal's descriptor
  std_fd,        \* login_tty(): in_fd, out_fd, err_fd
  code           \* what the child exits with

ttyVars == <<fds, leader, ctty, fd, std_fd, code>>
vars == <<pc, argVars, kind, initfds, ttyVars>>

Fd == 0 .. OPEN_MAX - 1
Std == 0 .. 2
NoFd == OPEN_MAX

\* The least free descriptor from a number on, or NoFd.
Free(n) ==
  LET free == {f \in Fd : f >= n /\ fds[f] = "closed"}
  IN IF free = {} THEN NoFd ELSE CHOOSE f \in free : \A g \in free : f <= g

Init ==
  /\ pc = "init_sysinit"
  /\ GettyInit
  /\ kind \in {"getty", "rc"}
  /\ initfds \in [Fd -> {"closed", "sysinit"}]
  /\ fds = initfds
  /\ leader = FALSE
  /\ ctty = FALSE
  /\ fd = NoFd
  /\ std_fd = [n \in Std |-> NoFd]
  /\ code = 0

-----------------------------------------------------------------------------
(* close(stdin) and the like are given FILE pointers, which are no          *)
(* descriptors: they close nothing.  sysinit exits if it is not run by root *)
(* or not as process 1.                                                     *)
init_sysinit ==
  /\ pc = "init_sysinit"
  /\ \/ pc' = IF kind = "getty" THEN "setupargv" ELSE "fork"
     \/ "root" \in Faults /\ pc' = "failed"
  /\ UNCHANGED <<argVars, kind, initfds, ttyVars>>

Exits(n) == pc' = "exited" /\ code' = n

\* The child has what process 1 had.
Fork ==
  /\ pc = "fork"
  /\ pc' = "setsid"
  /\ UNCHANGED <<argVars, kind, initfds, ttyVars>>

\* setctty() only warns when setsid() fails.
Setsid ==
  /\ pc = "setsid"
  /\ pc' = "open"
  /\ \/ leader' = TRUE
     \/ "setsid" \in Faults /\ UNCHANGED leader
  /\ UNCHANGED <<argVars, kind, initfds, fds, ctty, fd, std_fd, code>>

OpenTty ==
  /\ pc = "open"
  /\ \/ /\ Free(0) # NoFd
        /\ fds' = [fds EXCEPT ![Free(0)] = "tty"]
        /\ fd' = Free(0)
        /\ pc' = "F_DUPFD"
        /\ UNCHANGED code
     \/ /\ Free(0) = NoFd \/ "open" \in Faults
        /\ Exits(1)
        /\ UNCHANGED <<fds, fd>>
  /\ UNCHANGED <<argVars, kind, initfds, leader, ctty, std_fd>>

\* Mutant: the low descriptor is not closed.
Moved_Open(high) == [fds EXCEPT ![high] = "tty"]

\* The terminal is moved out of the way of the descriptors 0 to 2.
Moved(high) == [fds EXCEPT ![high] = "tty", ![fd] = "closed"]

\* Mutant: any free descriptor will do.
Least_Any == 0

\* The argument of F_DUPFD.
Least == HIGH

DupHigh ==
  /\ pc = "F_DUPFD"
  /\ \/ /\ Free(Least) # NoFd
        /\ fds' = Moved(Free(Least))
        /\ fd' = Free(Least)
        /\ pc' = "TIOCSCTTY"
        /\ UNCHANGED code
     \/ /\ Free(Least) = NoFd \/ "F_DUPFD" \in Faults
        /\ fds' = [fds EXCEPT ![fd] = "closed"]
        /\ fd' = NoFd
        /\ Exits(1)
  /\ UNCHANGED <<argVars, kind, initfds, leader, ctty, std_fd>>

\* Mutant: a terminal that is refused is only logged.
Refused_Logged == pc' = "dup2" /\ UNCHANGED code

\* Mutant: login_tty()'s -1 is what the child exits with.
Refused_Minus == Exits(255)

\* setctty() exits when login_tty() returns -1.
Refused == Exits(2)

\* login_tty() calls setsid() once more, which fails for the leader of a session.
ControlTty ==
  /\ pc = "TIOCSCTTY"
  /\ \/ leader' = TRUE
     \/ "setsid" \in Faults /\ UNCHANGED leader
  /\ \/ /\ leader'
        /\ ctty' = TRUE
        /\ pc' = "dup2"
        /\ UNCHANGED code
     \/ /\ ~leader' \/ "TIOCSCTTY" \in Faults
        /\ Refused
        /\ UNCHANGED ctty
  /\ UNCHANGED <<argVars, kind, initfds, fds, fd, std_fd>>

(* The three calls of dup2(), of which those in failed return -1.  Only     *)
(* then is fd closed, and login_tty() succeeds all the same.                *)
DupStd ==
  /\ pc = "dup2"
  /\ \E failed \in SUBSET Std :
       /\ "dup2" \in Faults \/ failed = {}
       /\ std_fd' = [n \in Std |-> IF n \in failed THEN NoFd ELSE n]
       /\ fds' = [n \in Fd |-> IF n = fd /\ failed # {} THEN "closed"
                               ELSE IF n \in Std \ failed THEN "tty"
                               ELSE fds[n]]
  /\ pc' = "exec"
  /\ UNCHANGED <<argVars, kind, initfds, leader, ctty, fd, code>>

\* execve() and execv() keep descriptors, session and terminal.
Exec ==
  /\ pc = "exec"
  /\ \/ pc' = "image" /\ UNCHANGED code
     \/ "exec" \in Faults /\ Exits(IF kind = "getty" THEN 8 ELSE 5)
  /\ UNCHANGED <<argVars, kind, initfds, fds, leader, ctty, fd, std_fd>>

Next ==
  \/ init_sysinit
  \/ SetupArgv /\ UNCHANGED <<kind, initfds, ttyVars>>
  \/ construct_argv /\ UNCHANGED <<kind, initfds, ttyVars>>
  \/ Fork
  \/ Setsid
  \/ OpenTty
  \/ DupHigh
  \/ ControlTty
  \/ DupStd
  \/ Exec

Spec == Init /\ [][Next]_vars

-----------------------------------------------------------------------------
TypeOK ==
  /\ GettyTypeOK
  /\ pc \in {"init_sysinit", "setupargv", "construct_argv", "freed", "fork",
             "failed", "setsid", "open", "F_DUPFD", "TIOCSCTTY", "dup2", "exec",
             "image", "exited"}
  /\ kind \in {"getty", "rc"}
  /\ initfds \in [Fd -> {"closed", "sysinit"}]
  /\ fds \in [Fd -> {"closed", "sysinit", "tty"}]
  /\ leader \in BOOLEAN
  /\ ctty \in BOOLEAN
  /\ fd \in Fd \cup {NoFd}
  /\ std_fd \in [Std -> Std \cup {NoFd}]
  /\ code \in {0, 1, 2, 5, 8}

\* A getty is given the words of its line, in order, and after them those of its
\* terminal's name, however they are separated, and a NULL behind them.
ArgvAsWritten ==
  kind = "getty" /\ pc = "image" =>
    IsArgvOf(argv, typ.ty_getty \o <<BLANK>> \o typ.ty_name)

\* No login, and no rc script, runs without its controlling terminal: whichever
\* of setctty()'s and login_tty()'s calls fail, and whatever process 1 has open.
ImageControlsTerminal == pc = "image" => leader /\ ctty

\* Its standard descriptors are the terminal if dup2() said so: no close() takes
\* one back, though open() returns one of them if process 1 has it closed.
StandardIsTerminal ==
  pc = "image" => \A n \in Std : std_fd[n] = n => fds[n] = "tty"

\* Apart from those it has what process 1 had: the terminal is left open but
\* once, and beyond HIGH, and nothing of process 1 was closed in passing.
OnlyTerminalAdded ==
  pc = "image" =>
    /\ \A n \in Fd \ Std : fds[n] # initfds[n] => n >= HIGH /\ fds[n] = "tty"
    /\ \A n, m \in Fd \ Std : fds[n] = "tty" /\ fds[m] = "tty" => n = m
    /\ \A n \in Std : std_fd[n] = NoFd => fds[n] = initfds[n]
=============================================================================
