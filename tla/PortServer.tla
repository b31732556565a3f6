----------------------------- MODULE PortServer -----------------------------
(***************************************************************************)
(* What the servers automount, nettcpip, syslog and sysinfo share: they    *)
(* mount a message port, then take requests from it until a SIGTERM.  Each *)
(* step goes up to the next system call.  Their handlers of CMD_SENDIO are *)
(* in modules SysInfo and Servers.                                         *)
(***************************************************************************)
EXTENDS Naturals

CONSTANTS
  Client,     \* each sends one request
  NoClient,
  Size,       \* the sizes a request's body may have
  ARG_MAX,    \* the size of req_buf
  Faults      \* which calls may fail

ASSUME ServerNoClientAssumption == NoClient \notin Client
ASSUME SizeAssumption == Size \subseteq Nat /\ ARG_MAX \in Nat

VARIABLES
  pc,         \* the next call of main()
  shutdown,   \* the global the signal handler sets
  mounted,    \* is there a port at the server's path?
  registered, \* is the port registered with the kqueue?
  request,    \* what each client asks
  queue,      \* the clients whose request is queued at the port
  msgid,      \* whose request main() has taken
  reply       \* what each client was answered

serverVars == <<pc, shutdown, mounted, registered, request, queue, msgid, reply>>

\* The first word of a request's text, as strtok() finds it.
Word == {"", "#", "help", "getinfo", "other"}

\* readable: will readmsg() of its body succeed?
Request ==
  {r \in [cmd : {"CMD_SENDIO", "other"}, word : Word, ssize : Size,
          readable : BOOLEAN] :
     /\ r.ssize = 0 => (r.word = "" /\ r.readable)
     /\ ~r.readable =>
          ("readmsg" \in Faults /\ r.cmd = "CMD_SENDIO" /\ r.word = "")}

NoRequest == [cmd |-> "none", word |-> "", ssize |-> 0, readable |-> TRUE]

\* Error codes, and what sysinfo writes before it replies with its length.
Text == {"", "ERROR", "OK: help", "OK: getinfo"}
Answer == {"ENOTSUP", "ENOSYS", "E2BIG"} \cup Text
NoAnswer == "none"

\* Before sigaction() a SIGTERM has its default effect.
Unguarded == {"process_args", "createmsgport", "kqueue", "sigaction"}
Handling == {"switch", "readmsg", "writemsg"}
Points == Unguarded \cup Handling
          \cup {"EV_SET", "while", "kevent", "blocked", "getmsg", "ended"}

ServerInit ==
  /\ pc = "process_args"
  /\ shutdown = FALSE
  /\ mounted = FALSE
  /\ registered = FALSE
  /\ request = [c \in Client |-> NoRequest]
  /\ queue = {}
  /\ msgid = NoClient
  /\ reply = [c \in Client |-> NoAnswer]

ServerTypeOK ==
  /\ pc \in Points
  /\ shutdown \in BOOLEAN
  /\ mounted \in BOOLEAN
  /\ registered \in BOOLEAN
  /\ request \in [Client -> Request \cup {NoRequest}]
  /\ queue \subseteq Client
  /\ msgid \in Client \cup {NoClient}
  /\ reply \in [Client -> Answer \cup {NoAnswer}]

-----------------------------------------------------------------------------
(* init() *)

\* A step from one call to the next that changes nothing else.
Goto(from, to) ==
  /\ pc = from
  /\ pc' = to
  /\ UNCHANGED <<shutdown, mounted, registered, request, queue, msgid, reply>>

\* process_args(): without a path to mount the server panics.
ProcessArgs ==
  \/ Goto("process_args", "createmsgport")
  \/ "args" \in Faults /\ Goto("process_args", "ended")

\* mount_device(): clients can find the port from here on.
MountDevice ==
  \/ /\ pc = "createmsgport"
     /\ pc' = "kqueue"
     /\ mounted' = TRUE
     /\ UNCHANGED <<shutdown, registered, request, queue, msgid, reply>>
  \/ "port" \in Faults /\ Goto("createmsgport", "ended")

CreateKqueue ==
  \/ Goto("kqueue", "sigaction")
  \/ "port" \in Faults /\ Goto("kqueue", "ended")

Sigaction ==
  \/ Goto("sigaction", "EV_SET")
  \/ "sigaction" \in Faults /\ Goto("sigaction", "ended")

\* The result of this kevent() is ignored.
Register ==
  \/ /\ pc = "EV_SET"
     /\ pc' = "while"
     /\ registered' = TRUE
     /\ UNCHANGED <<shutdown, mounted, request, queue, msgid, reply>>
  \/ "register" \in Faults /\ Goto("EV_SET", "while")

-----------------------------------------------------------------------------
(* The loop of main() *)

\* Mutant: the loop does not look at the flag.
TestShutdown_Forever == Goto("while", "kevent")

TestShutdown ==
  \/ shutdown /\ Goto("while", "ended")
  \/ ~shutdown /\ Goto("while", "kevent")

\* kevent() is entered, then returns once a request is queued.
EnterKevent == Goto("kevent", "blocked")

Wakeup == registered /\ queue # {} /\ Goto("blocked", "getmsg")

GetMsg(c) ==
  /\ pc = "getmsg"
  /\ c \in queue
  /\ pc' = "switch"
  /\ queue' = queue \ {c}
  /\ msgid' = c
  /\ UNCHANGED <<shutdown, mounted, registered, request, reply>>

\* getmsg() returns 0 once the port is empty.
NoMoreMessages == queue = {} /\ Goto("getmsg", "while")

\* Anything but 0 or the size of a request ends the server.
GetMsgFails == "getmsg" \in Faults /\ Goto("getmsg", "ended")

\* replymsg(), then the next getmsg().
ReplyMsg(answer) ==
  /\ reply' = [reply EXCEPT ![msgid] = answer]
  /\ msgid' = NoClient
  /\ pc' = "getmsg"
  /\ UNCHANGED <<shutdown, mounted, registered, request, queue>>

IsSendio == request[msgid].cmd = "CMD_SENDIO"

\* Mutant: the unknown command is logged but not answered.
UnknownCommand_Silent == pc = "switch" /\ ~IsSendio /\ Goto("switch", "getmsg")

UnknownCommand == pc = "switch" /\ ~IsSendio /\ ReplyMsg("ENOTSUP")

-----------------------------------------------------------------------------
(* Signals and clients *)

\* Mutant: the handler ends the server on the spot.
sigterm_handler_Exits ==
  /\ shutdown' = TRUE
  /\ pc' = "ended"

\* SIGTERM sets the flag; a server blocked in kevent() returns from it.
sigterm_handler ==
  /\ shutdown' = TRUE
  /\ pc' = IF pc = "blocked" THEN "while" ELSE pc

Sigterm ==
  /\ pc # "ended"
  /\ ~shutdown
  /\ \/ pc \in Unguarded /\ pc' = "ended" /\ UNCHANGED shutdown
     \/ pc \notin Unguarded /\ sigterm_handler
  /\ UNCHANGED <<mounted, registered, request, queue, msgid, reply>>

\* The kernel queues a client's request; it blocks until the reply.
Send(c, r) ==
  /\ mounted
  /\ pc # "ended"
  /\ request[c] = NoRequest
  /\ request' = [request EXCEPT ![c] = r]
  /\ queue' = queue \cup {c}
  /\ UNCHANGED <<pc, shutdown, mounted, registered, msgid, reply>>

InitStep == ProcessArgs \/ MountDevice \/ CreateKqueue \/ Sigaction \/ Register

LoopStep ==
  \/ TestShutdown \/ EnterKevent \/ Wakeup \/ NoMoreMessages \/ GetMsgFails
  \/ UnknownCommand
  \/ \E c \in Client : GetMsg(c)
=============================================================================
