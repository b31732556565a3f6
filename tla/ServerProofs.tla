---------------------------- MODULE ServerProofs ----------------------------
(***************************************************************************)
(* Each of the four servers implements RequestService, for any number of   *)
(* clients, any sizes of requests and buffers and any set of faults.  Which *)
(* answers are right is said by RightAnswers: the one to the request's own *)
(* command, and any text if the request's body cannot be read.             *)
(***************************************************************************)
EXTENDS Servers, TLAPS

LEMMA NoRequestIsNone == NoRequest \notin Request
BY DEF NoRequest, Request

LEMMA RequestFields ==
  ASSUME NEW r \in Request
  PROVE  r.word \in Word /\ r.ssize \in Nat
BY SizeAssumption DEF Request

LEMMA RightAnswersAreAnswers ==
  ASSUME NEW r \in Request
  PROVE  RightAnswers(r) \subseteq Answer
BY RequestFields DEF RightAnswers, Answer, Text, Word

LEMMA NoAnswerIsNone == NoAnswer \notin Answer
BY DEF NoAnswer, Answer, Text

(* Whatever readmsg() leaves in req_buf is a first word. *)
LEMMA ReceivedIsWord ==
  ASSUME BufTypeOK, NEW r \in Request
  PROVE  Received(r) \subseteq Word
BY RequestFields DEF BufTypeOK, Received, Cut, Word

LEMMA ResponseIsText ==
  ASSUME NEW word \in Word
  PROVE  Response(word) \in Text
BY DEF Response, Subcommand, Text, Word

(* The text made for what was received is right for the request: the word   *)
(* is the request's own, or its body cannot be read and any text is right.  *)
LEMMA ResponseIsRight ==
  ASSUME Program = "sysinfo", BufTypeOK,
         NEW r \in Request, r.cmd = "CMD_SENDIO", ~TooBig(r),
         NEW word \in Received(r)
  PROVE  Response(word) \in RightAnswers(r)
<1>1. Response(word) \in Text
  BY ReceivedIsWord, ResponseIsText
<1>2. r.word \in Word /\ ~(r.ssize > ARG_MAX)
  BY RequestFields DEF TooBig
<1>3. CASE ~r.readable
  BY <1>1, <1>2, <1>3 DEF RightAnswers
<1>4. CASE r.readable
  <2>1. word = r.word
    BY <1>4 DEF Received
  <2>2. QED
    BY <1>2, <1>4, <2>1 DEF RightAnswers, Response, Subcommand, Word
<1>5. QED
  BY <1>3, <1>4

-----------------------------------------------------------------------------
LEMMA InitServerInv == Init => ServerInv
BY ServerNoClientAssumption
   DEF Init, ServerInit, BufInit, ServerInv, TypeOK, ServerTypeOK, BufTypeOK,
       RequestsHeld, Points, Unguarded, Handling, Word, Text

(* What an answer to the request in hand preserves, whoever gives it. *)
LEMMA ReplyKeepsInv ==
  ASSUME ServerInv, pc \in Handling, NEW a \in Answer, ReplyMsg(a),
         UNCHANGED bufVars
  PROVE  ServerInv'
<1> USE NoAnswerIsNone, ServerNoClientAssumption
    DEF ServerInv, ReplyMsg, bufVars
<1>1. msgid \in Client /\ msgid \notin queue
  BY DEF RequestsHeld, TypeOK, ServerTypeOK
<1>2. TypeOK'
  BY DEF TypeOK, ServerTypeOK, BufTypeOK, Points
<1>3. RequestsHeld'
  BY <1>1 DEF RequestsHeld, TypeOK, ServerTypeOK, Handling
<1>4. QED
  BY <1>2, <1>3

(* Steps from one call to another that change nothing else. *)
LEMMA GotoKeepsInv ==
  ASSUME ServerInv, NEW from, NEW to \in Points, Goto(from, to),
         from \in Handling <=> to \in Handling, to \notin {"readmsg", "writemsg"},
         UNCHANGED bufVars
  PROVE  ServerInv'
BY DEF ServerInv, Goto, bufVars, TypeOK, ServerTypeOK, BufTypeOK, RequestsHeld

LEMMA InitStepKeepsInv ==
  ASSUME ServerInv, InitStep, UNCHANGED bufVars
  PROVE  ServerInv'
<1>1. CASE ProcessArgs
  BY <1>1, GotoKeepsInv DEF ProcessArgs, Points, Unguarded, Handling
<1>2. CASE MountDevice
  <2>1. CASE Goto("createmsgport", "ended")
    BY <2>1, GotoKeepsInv DEF Points, Unguarded, Handling
  <2>2. CASE ~Goto("createmsgport", "ended")
    BY <1>2, <2>2 DEF MountDevice, ServerInv, bufVars, TypeOK, ServerTypeOK,
       BufTypeOK, RequestsHeld, Points, Unguarded, Handling
  <2>3. QED
    BY <2>1, <2>2
<1>3. CASE CreateKqueue
  BY <1>3, GotoKeepsInv DEF CreateKqueue, Points, Unguarded, Handling
<1>4. CASE Sigaction
  BY <1>4, GotoKeepsInv DEF Sigaction, Points, Unguarded, Handling
<1>5. CASE Register
  <2>1. CASE Goto("EV_SET", "while")
    BY <2>1, GotoKeepsInv DEF Points, Unguarded, Handling
  <2>2. CASE ~Goto("EV_SET", "while")
    BY <1>5, <2>2 DEF Register, ServerInv, bufVars, TypeOK, ServerTypeOK,
       BufTypeOK, RequestsHeld, Points, Unguarded, Handling
  <2>3. QED
    BY <2>1, <2>2
<1>6. QED
  BY <1>1, <1>2, <1>3, <1>4, <1>5 DEF InitStep

LEMMA LoopStepKeepsInv ==
  ASSUME ServerInv, LoopStep, UNCHANGED bufVars
  PROVE  ServerInv'
<1>1. CASE TestShutdown
  BY <1>1, GotoKeepsInv DEF TestShutdown, Points, Unguarded, Handling
<1>2. CASE EnterKevent
  BY <1>2, GotoKeepsInv DEF EnterKevent, Points, Unguarded, Handling
<1>3. CASE Wakeup
  BY <1>3, GotoKeepsInv DEF Wakeup, Points, Unguarded, Handling
<1>4. CASE NoMoreMessages
  BY <1>4, GotoKeepsInv DEF NoMoreMessages, Points, Unguarded, Handling
<1>5. CASE GetMsgFails
  BY <1>5, GotoKeepsInv DEF GetMsgFails, Points, Unguarded, Handling
<1>6. CASE UnknownCommand
  BY <1>6, ReplyKeepsInv DEF UnknownCommand, Handling, Answer
<1>7. ASSUME NEW c \in Client, GetMsg(c)
      PROVE  ServerInv'
  <2> USE <1>7, ServerNoClientAssumption DEF ServerInv, GetMsg, bufVars
  <2>1. TypeOK'
    BY DEF TypeOK, ServerTypeOK, BufTypeOK, Points, Handling
  <2>2. RequestsHeld'
    BY DEF RequestsHeld, TypeOK, ServerTypeOK, Handling
  <2>3. QED
    BY <2>1, <2>2
<1>8. QED
  BY <1>1, <1>2, <1>3, <1>4, <1>5, <1>6, <1>7 DEF LoopStep

LEMMA SkeletonKeepsInv ==
  ASSUME ServerInv, SkeletonSendio, UNCHANGED bufVars
  PROVE  ServerInv'
BY ReplyKeepsInv DEF SkeletonSendio, Handling, Answer

(* The request in hand is one that was made. *)
LEMMA HandledIsRequest ==
  ASSUME ServerInv, pc \in Handling
  PROVE  msgid \in Client /\ request[msgid] \in Request /\ reply[msgid] = NoAnswer
BY DEF ServerInv, RequestsHeld, TypeOK, ServerTypeOK

LEMMA SysInfoKeepsInv ==
  ASSUME ServerInv, Program = "sysinfo", SysInfoSendio
  PROVE  ServerInv'
<1>1. CASE RefuseBig
  BY <1>1, ReplyKeepsInv DEF RefuseBig, Handling, Answer
<1>2. CASE BeginSendio
  BY <1>2 DEF BeginSendio, Goto, ServerInv, bufVars, TypeOK, ServerTypeOK,
     BufTypeOK, RequestsHeld, IsSendio, Points, Handling
<1>3. CASE ReadMsg
  <2> DEFINE r == request[msgid]
  <2>1. /\ r \in Request /\ r.cmd = "CMD_SENDIO" /\ ~TooBig(r) /\ BufTypeOK
    BY <1>3, HandledIsRequest
       DEF ReadMsg, Goto, ServerInv, IsSendio, Handling, TypeOK
  <2>2. req_buf' \in Word /\ resp_buf' \in RightAnswers(r)
    BY <1>3, <2>1, ReceivedIsWord, ResponseIsRight DEF ReadMsg
  <2>3. resp_buf' \in Text
    BY <1>3, <2>2, ResponseIsText DEF ReadMsg
  <2>4. TypeOK'
    BY <1>3, <2>2, <2>3 DEF ReadMsg, Goto, ServerInv, TypeOK, ServerTypeOK,
       BufTypeOK, Points, Handling
  <2>5. RequestsHeld'
    BY <1>3 DEF ReadMsg, Goto, ServerInv, RequestsHeld, Handling
  <2>6. QED
    BY <1>3, <2>2, <2>4, <2>5 DEF ReadMsg, Goto, ServerInv, IsSendio, TooBig,
       RightAnswers
<1>4. CASE WriteMsg
  <2>1. resp_buf \in Answer
    BY DEF ServerInv, TypeOK, BufTypeOK, Answer
  <2>2. QED
    BY <1>4, <2>1, ReplyKeepsInv DEF WriteMsg, Handling
<1>5. QED
  BY <1>1, <1>2, <1>3, <1>4 DEF SysInfoSendio

LEMMA SigtermKeepsInv ==
  ASSUME ServerInv, Sigterm, UNCHANGED bufVars
  PROVE  ServerInv'
<1> USE DEF Sigterm, ServerInv, bufVars
<1>1. pc' \in Handling <=> pc \in Handling
  BY DEF sigterm_handler, Unguarded, Handling
<1>2. TypeOK'
  BY DEF sigterm_handler, TypeOK, ServerTypeOK, BufTypeOK, Points, Unguarded
<1>3. RequestsHeld'
  BY <1>1 DEF RequestsHeld
<1>4. pc' \in {"readmsg", "writemsg"} => pc' = pc
  BY DEF sigterm_handler
<1>5. QED
  BY <1>2, <1>3, <1>4 DEF IsSendio, TooBig, RightAnswers

LEMMA SendKeepsInv ==
  ASSUME ServerInv, NEW c \in Client, NEW r \in Request, Send(c, r),
         UNCHANGED bufVars
  PROVE  ServerInv'
<1> USE NoRequestIsNone, ServerNoClientAssumption DEF ServerInv, Send, bufVars
<1>1. c # msgid /\ c \notin queue /\ reply[c] = NoAnswer
  BY DEF RequestsHeld, TypeOK, ServerTypeOK
<1>2. TypeOK'
  BY DEF TypeOK, ServerTypeOK, BufTypeOK
<1>3. RequestsHeld'
  BY <1>1 DEF RequestsHeld, TypeOK, ServerTypeOK
<1>4. msgid \in Client => request'[msgid] = request[msgid]
  BY <1>1 DEF TypeOK, ServerTypeOK
<1>5. QED
  BY <1>2, <1>3, <1>4 DEF RequestsHeld, TypeOK, ServerTypeOK, IsSendio, TooBig,
     RightAnswers, Handling
-----------------------------------------------------------------------------
LEMMA StepKeepsInv == ServerInv /\ [Next]_vars => ServerInv'
<1> SUFFICES ASSUME ServerInv, [Next]_vars PROVE ServerInv'
  OBVIOUS
<1>1. CASE ServerStep
  BY <1>1, InitStepKeepsInv, LoopStepKeepsInv, SkeletonKeepsInv, SysInfoKeepsInv
     DEF ServerStep
<1>2. CASE Sigterm /\ UNCHANGED bufVars
  BY <1>2, SigtermKeepsInv
<1>3. ASSUME NEW c \in Client, NEW r \in Request, Send(c, r), UNCHANGED bufVars
      PROVE  ServerInv'
  BY <1>3, SendKeepsInv
<1>4. CASE UNCHANGED vars
  <2>1. UNCHANGED <<TypeOK, RequestsHeld>>
    BY <1>4 DEF vars, serverVars, bufVars, TypeOK, ServerTypeOK, BufTypeOK,
       RequestsHeld
  <2>2. QED
    BY <1>4, <2>1 DEF vars, serverVars, bufVars, ServerInv, IsSendio
<1>5. QED
  BY <1>1, <1>2, <1>3, <1>4 DEF Next

THEOREM ServerInvariant == Spec => []ServerInv
<1>1. QED
  BY InitServerInv, StepKeepsInv, PTL DEF Spec

(* A request that was sent is queued, in hand or answered, and only one of  *)
(* these, at every point of main() and cmd_sendio().                        *)
THEOREM RequestsAreHeld == Spec => []RequestsHeld
<1>1. ServerInv => RequestsHeld
  BY DEF ServerInv
<1>2. QED
  BY <1>1, ServerInvariant, PTL

-----------------------------------------------------------------------------
(* Refinement: sending is asking, a reply is a right answer, the end of the *)
(* process is the end of the service; every other step is a stutter.        *)

LEMMA ReplyIsRespond ==
  ASSUME ServerInv, pc \in Handling, NEW a \in RightAnswers(request[msgid]),
         ReplyMsg(a)
  PROVE  Service!Next
<1>1. msgid \in Client /\ request[msgid] \in Request /\ reply[msgid] = NoAnswer
  BY HandledIsRequest
<1>2. request[msgid] # NoRequest
  BY <1>1, NoRequestIsNone
<1>3. pc # "ended" /\ pc' # "ended"
  BY DEF Handling, ReplyMsg
<1>4. Service!Respond(msgid)
  BY <1>1, <1>2, <1>3 DEF Service!Respond, ReplyMsg
<1>5. QED
  BY <1>1, <1>4 DEF Service!Next

LEMMA QuietStep ==
  ASSUME UNCHANGED <<request, reply>>, pc # "ended"
  PROVE  [Service!Next]_(Service!vars)
BY DEF Service!Next, Service!End, Service!vars

LEMMA GotoIsQuiet ==
  ASSUME NEW from, NEW to, Goto(from, to), from # "ended"
  PROVE  [Service!Next]_(Service!vars)
BY QuietStep DEF Goto

LEMMA ServerStepRefines ==
  ASSUME ServerInv, ServerStep
  PROVE  [Service!Next]_(Service!vars)
<1>1. CASE InitStep
  BY <1>1, QuietStep
     DEF InitStep, ProcessArgs, MountDevice, CreateKqueue, Sigaction, Register,
         Goto
<1>2. CASE UnknownCommand
  <2>1. "ENOTSUP" \in RightAnswers(request[msgid])
    BY <1>2 DEF UnknownCommand, IsSendio, RightAnswers
  <2>2. QED
    BY <1>2, <2>1, ReplyIsRespond DEF UnknownCommand, Handling
<1>3. CASE LoopStep /\ ~UnknownCommand
  BY <1>3, QuietStep
     DEF LoopStep, TestShutdown, EnterKevent, Wakeup, NoMoreMessages,
         GetMsgFails, GetMsg, Goto
<1>4. CASE Program # "sysinfo" /\ SkeletonSendio
  <2>1. "ENOSYS" \in RightAnswers(request[msgid])
    BY <1>4 DEF SkeletonSendio, IsSendio, RightAnswers
  <2>2. QED
    BY <1>4, <2>1, ReplyIsRespond DEF SkeletonSendio, Handling
<1>5. CASE Program = "sysinfo" /\ RefuseBig
  <2>1. "E2BIG" \in RightAnswers(request[msgid])
    BY <1>5 DEF RefuseBig, IsSendio, TooBig, RightAnswers
  <2>2. QED
    BY <1>5, <2>1, ReplyIsRespond DEF RefuseBig, Handling
<1>6. CASE BeginSendio \/ ReadMsg
  BY <1>6, QuietStep DEF BeginSendio, ReadMsg, Goto
<1>7. CASE WriteMsg
  BY <1>7, ReplyIsRespond DEF WriteMsg, ServerInv, Handling
<1>8. QED
  BY <1>1, <1>2, <1>3, <1>4, <1>5, <1>6, <1>7 DEF ServerStep, SysInfoSendio

LEMMA SigtermRefines ==
  ASSUME Sigterm
  PROVE  [Service!Next]_(Service!vars)
BY QuietStep DEF Sigterm

LEMMA SendRefines ==
  ASSUME NEW c \in Client, NEW r \in Request, Send(c, r)
  PROVE  [Service!Next]_(Service!vars)
<1>1. Service!Ask(c)
  BY DEF Service!Ask, Send
<1>2. QED
  BY <1>1 DEF Service!Next

(* Each server answers a request at most once and does nothing after its    *)
(* end: main() and cmd_sendio() of all four, for any clients, sizes and     *)
(* faults.  The answer is the one to that client's own request, whatever    *)
(* was asked before it, if readmsg() of its body succeeds.  If it fails the *)
(* theorem promises no more than that the answer is one of sysinfo's texts: *)
(* the code may give it the answer to an earlier client's command.          *)
THEOREM ServersServe == Spec => ServiceSafety
<1>1. Init => Service!Init
  BY DEF Init, ServerInit, Service!Init
<1>2. ServerInv /\ [Next]_vars => [Service!Next]_(Service!vars)
  <2> SUFFICES ASSUME ServerInv, [Next]_vars
               PROVE  [Service!Next]_(Service!vars)
    OBVIOUS
  <2>1. CASE UNCHANGED vars
    BY <2>1 DEF vars, serverVars, Service!vars
  <2>2. QED
    BY <2>1, ServerStepRefines, SigtermRefines, SendRefines DEF Next
<1>3. QED
  BY <1>1, <1>2, ServerInvariant, PTL DEF Spec, ServiceSafety, Service!Spec
=============================================================================
