------------------------------- MODULE Servers -------------------------------
(***************************************************************************)
(* The four servers: the shared loop over each one's handler of CMD_SENDIO. *)
(* That they implement the service of RequestService is checked and proved *)
(* of each.                                                                *)
(***************************************************************************)
EXTENDS SysInfo

CONSTANT Program   \* which of the servers this is

ASSUME ProgramAssumption ==
  Program \in {"automount", "nettcpip", "syslog", "sysinfo"}

vars == <<serverVars, bufVars>>

Init == ServerInit /\ BufInit

TypeOK == ServerTypeOK /\ BufTypeOK

\* Mutant: a break is missing, what is answered is that of the default case.
SkeletonSendio_NoBreak ==
  /\ pc = "switch"
  /\ IsSendio
  /\ ReplyMsg("ENOTSUP")

\* The handler of the three servers that are still skeletons.
SkeletonSendio ==
  /\ pc = "switch"
  /\ IsSendio
  /\ ReplyMsg("ENOSYS")

ServerStep ==
  \/ (InitStep \/ LoopStep) /\ UNCHANGED bufVars
  \/ Program # "sysinfo" /\ SkeletonSendio /\ UNCHANGED bufVars
  \/ Program = "sysinfo" /\ SysInfoSendio

Next ==
  \/ ServerStep
  \/ Sigterm /\ UNCHANGED bufVars
  \/ (\E c \in Client, r \in Request : Send(c, r)) /\ UNCHANGED bufVars

Spec == Init /\ [][Next]_vars

(* The server is one runnable thread; nobody has to ask or to signal.       *)
FairSpec == Spec /\ WF_vars(ServerStep)

-----------------------------------------------------------------------------
(* The answers that are right for a request: the one to what it asks.  The  *)
(* code does better than this for no request but one whose body cannot be   *)
(* read: that one gets the answer to whatever an earlier client left in     *)
(* req_buf, so any text is allowed for it, and for no other.                *)
RightAnswers(r) ==
  IF r.cmd # "CMD_SENDIO" THEN {"ENOTSUP"}
  ELSE IF Program # "sysinfo" THEN {"ENOSYS"}
  ELSE IF r.ssize > ARG_MAX THEN {"E2BIG"}
  ELSE IF ~r.readable THEN Text
  ELSE CASE r.word = "help" -> {"OK: help"}
         [] r.word = "getinfo" -> {"OK: getinfo"}
         [] r.word = "" -> {"ERROR"}
         [] r.word \in {"#", "other"} -> {""}

Service == INSTANCE RequestService WITH
  Answers <- [r \in Request |-> RightAnswers(r)],
  answer <- reply,
  ended <- pc = "ended"

(* A request is answered at most once, with the answer to what that client  *)
(* asked and not to what an earlier one did, unless its own body cannot be  *)
(* read (see RightAnswers), and the server never comes back once it has     *)
(* ended: main(), cmd_sendio() and the two buffers.                         *)
ServiceSafety == Service!Spec

(* Whoever has sent a request is answered unless the server ends: a request *)
(* that comes while another is handled, between init() and the registration *)
(* of the port, or just before kevent() is not overlooked.                  *)
ServiceLive == Service!FairSpec

(* A SIGTERM ends the server without another message, unless it falls       *)
(* between the test of shutdown and kevent(): then the next request does.   *)
TermEnds ==
  (shutdown /\ (queue # {} \/ pc \notin {"kevent", "blocked"}))
    ~> (pc = "ended")

(* A request is queued, being handled or answered, and only one of these;   *)
(* nobody is answered who did not ask, and neither a SIGTERM nor a failing  *)
(* call drops the request in hand (main()).                                 *)
RequestsHeld ==
  /\ msgid # NoClient <=> pc \in Handling
  /\ msgid \notin queue
  /\ \A c \in Client :
       /\ (c \in queue \/ c = msgid)
            <=> (request[c] # NoRequest /\ reply[c] = NoAnswer)
       /\ reply[c] # NoAnswer => request[c] # NoRequest

(* The inductive invariant: types, where requests are, that sysinfo looks   *)
(* at the body of a request only if it is one of CMD_SENDIO that fits       *)
(* req_buf, and that resp_buf holds a right answer to the request in hand   *)
(* when it is sent, whatever req_buf and resp_buf held before.              *)
ServerInv ==
  /\ TypeOK
  /\ RequestsHeld
  /\ pc \in {"readmsg", "writemsg"} =>
       /\ Program = "sysinfo"
       /\ IsSendio
       /\ ~TooBig(request[msgid])
  /\ pc = "writemsg" => resp_buf \in RightAnswers(request[msgid])
=============================================================================
