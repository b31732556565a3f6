----------------------------- MODULE MessageLoop -----------------------------
(***************************************************************************)
(* message_loop.c: sysinit waits for requests on its port and leaves the   *)
(* loop when it has been told to shut down.                                *)
(***************************************************************************)
EXTENDS MessagePort

VARIABLES
  msgid,          \* the client whose request getmsg() returned
  shutdown,       \* the global shutdown
  shutdown_how    \* the global shutdown_how

loopVars == <<msgid, shutdown, shutdown_how>>

LoopInit ==
  /\ msgid = NoClient
  /\ shutdown = FALSE
  /\ shutdown_how = HALT

LoopTypeOK ==
  /\ msgid \in Client \cup {NoClient}
  /\ shutdown \in BOOLEAN
  /\ shutdown_how \in How

-----------------------------------------------------------------------------
\* The port is added to the kqueue.
EnterLoop ==
  /\ At("STATE_MESSAGE_LOOP", "switch")
  /\ Goto("kevent")
  /\ errno' = "other"
  /\ UNCHANGED <<clientVars, loopVars>>

(* kevent() returns the port.  Without a port or a kqueue it returns an     *)
(* error at once and the loop spins: no step.                               *)
Wakeup ==
  /\ At("STATE_MESSAGE_LOOP", "kevent")
  /\ ~shutdown
  /\ portid = "open" /\ kq = "open"
  /\ queue # {}
  /\ Goto("getmsg")
  /\ errno' = "other"
  /\ UNCHANGED <<clientVars, loopVars>>

\* Mutant: the flag is not tested.
LeaveLoop_Untested ==
  /\ At("STATE_MESSAGE_LOOP", "kevent")
  /\ Return("STATE_STOP_SESSIONS")
  /\ UNCHANGED <<errno, clientVars, loopVars>>

LeaveLoop ==
  /\ At("STATE_MESSAGE_LOOP", "kevent")
  /\ shutdown
  /\ Return("STATE_STOP_SESSIONS")
  /\ UNCHANGED <<errno, clientVars, loopVars>>

GetMsg ==
  /\ At("STATE_MESSAGE_LOOP", "getmsg")
  /\ \E c \in queue :
       /\ msgid' = c
       /\ queue' = queue \ {c}
  /\ Goto("handle")
  /\ UNCHANGED <<errno, request, reply, shutdown, shutdown_how>>

\* getmsg() finds nothing: back to the test of shutdown.
NoMoreMessages ==
  /\ At("STATE_MESSAGE_LOOP", "getmsg")
  /\ queue = {}
  /\ Goto("kevent")
  /\ UNCHANGED <<errno, clientVars, loopVars>>

\* Mutant: once a way is decided it stays.
sysinit_req_how_First(c) ==
  IF shutdown THEN {shutdown_how}
  ELSE IF request[c].how = NoHow THEN How ELSE {request[c].how}

(* What shutdown_how may become: the result of readmsg() is ignored, so of   *)
(* a body that is too short for a how the loop reads what its stack holds.  *)
sysinit_req_how(c) ==
  IF request[c].how = NoHow THEN How ELSE {request[c].how}

\* Every request of the sysinit subclass is taken for a shutdown.
HandleShutdown ==
  /\ At("STATE_MESSAGE_LOOP", "handle")
  /\ request[msgid].kind = "shutdown"
  /\ shutdown_how' \in sysinit_req_how(msgid)
  /\ shutdown' = TRUE
  /\ ReplyMsg(msgid, "ok")
  /\ msgid' = NoClient
  /\ Goto("getmsg")
  /\ UNCHANGED <<errno, request, queue>>

\* Mutant: the request is dropped.
NotSupported_Silent == UNCHANGED reply

\* Mutant: the error does not reach the client.
NotSupported_Granted == ReplyMsg(msgid, "ok")

NotSupported == ReplyMsg(msgid, "ENOTSUP")

HandleOther ==
  /\ At("STATE_MESSAGE_LOOP", "handle")
  /\ request[msgid].kind # "shutdown"
  /\ NotSupported
  /\ msgid' = NoClient
  /\ Goto("getmsg")
  /\ UNCHANGED <<errno, request, queue, shutdown, shutdown_how>>

LoopNext ==
  \/ EnterLoop
  \/ Wakeup
  \/ LeaveLoop
  \/ GetMsg
  \/ NoMoreMessages
  \/ HandleShutdown
  \/ HandleOther
=============================================================================
