----------------------------- MODULE MessagePort -----------------------------
(***************************************************************************)
(* The message port at SYSINIT_PATH and the clients that send to it.  The  *)
(* kernel queues a client's request, wakes the kqueue the port is          *)
(* registered with for as long as a request is queued (the code does not   *)
(* set EV_CLEAR), and blocks the client until its request is replied to.   *)
(* The kernel is external: this is what the calls in run_s.c and           *)
(* message_loop.c ask of it.                                               *)
(***************************************************************************)
EXTENDS ProcessTable

CONSTANTS
  Client,     \* each sends one request
  How,        \* the ways to shut down
  HALT,       \* SHUTDOWN_HALT, the initial value of shutdown_how
  NoHow,      \* a body too short to hold u.shutdown.how
  NoClient

ASSUME HaltAssumption == HALT \in How /\ NoHow \notin How
ASSUME NoClientAssumption == NoClient \notin Client

VARIABLES
  portid,     \* the global portid: a port, the initial 0, or a refusal
  kq,         \* the global kq, likewise
  port,       \* has a port been mounted at SYSINIT_PATH?
  request,    \* what each client asks
  queue,      \* the clients whose request is queued at the port
  reply       \* what each client was answered

fdVars == <<portid, kq, port>>
clientVars == <<request, queue, reply>>

Descriptors == {"unset", "open", "failed"}

(* req.cmd is CMD_SENDIO with subclass MSG_SUBCLASS_SYSINIT ("shutdown"),   *)
(* CMD_SENDIO with another subclass ("sendio"), or something else.          *)
Request == [kind : {"shutdown"}, how : How \cup {NoHow}]
           \cup [kind : {"sendio", "unknown"}, how : {NoHow}]

NoRequest == [kind |-> "none", how |-> NoHow]

PortInit ==
  /\ portid = "unset"
  /\ kq = "unset"
  /\ port = FALSE
  /\ request = [c \in Client |-> NoRequest]
  /\ queue = {}
  /\ reply = [c \in Client |-> "none"]

PortTypeOK ==
  /\ portid \in Descriptors
  /\ kq \in Descriptors
  /\ port \in BOOLEAN
  /\ request \in [Client -> Request \cup {NoRequest}]
  /\ queue \subseteq Client
  /\ reply \in [Client -> {"none", "ok", "ENOTSUP"}]

-----------------------------------------------------------------------------
\* createmsgport(SYSINIT_PATH): a path can carry only one port.
CreateMsgPort ==
  \/ /\ ~port
     /\ port' = TRUE
     /\ portid' = "open"
  \/ /\ port \/ "port" \in Faults
     /\ portid' = "failed"
     /\ UNCHANGED port

\* A client sends a request; it blocks until the reply.
Send(c, r) ==
  /\ port
  /\ request[c] = NoRequest
  /\ request' = [request EXCEPT ![c] = r]
  /\ queue' = queue \cup {c}
  /\ UNCHANGED reply

\* replymsg(): the client of the request goes on with the answer.
ReplyMsg(c, answer) == reply' = [reply EXCEPT ![c] = answer]
=============================================================================
