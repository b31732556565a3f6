--------------------------- MODULE RequestService ---------------------------
(***************************************************************************)
(* What a server with a message port promises its clients: each request is *)
(* answered once, with one of the answers that are right for it, until the *)
(* server ends.  An abstract specification: module Servers implements it,   *)
(* and so does the message loop of SysInit.                                *)
(***************************************************************************)
CONSTANTS
  Client,
  Request,
  NoRequest,
  Answers,    \* the answers that are right for each request
  NoAnswer

VARIABLES
  request,    \* what each client asks
  answer,     \* what each client was answered
  ended       \* has the server ended?

vars == <<request, answer, ended>>

Init ==
  /\ request = [c \in Client |-> NoRequest]
  /\ answer = [c \in Client |-> NoAnswer]
  /\ ended = FALSE

\* A client asks for something.
Ask(c) ==
  /\ ~ended
  /\ request[c] = NoRequest
  /\ \E r \in Request : request' = [request EXCEPT ![c] = r]
  /\ UNCHANGED <<answer, ended>>

\* It is given an answer that is right.
Respond(c) ==
  /\ ~ended
  /\ request[c] # NoRequest
  /\ answer[c] = NoAnswer
  /\ \E a \in Answers[request[c]] : answer' = [answer EXCEPT ![c] = a]
  /\ UNCHANGED <<request, ended>>

\* The server ends; whoever still waits is not answered any more.
End ==
  /\ ~ended
  /\ ended' = TRUE
  /\ UNCHANGED <<request, answer>>

Next == End \/ \E c \in Client : Ask(c) \/ Respond(c)

Spec == Init /\ [][Next]_vars

\* Nobody waits for ever.
FairSpec == Spec /\ \A c \in Client : WF_vars(Respond(c))
=============================================================================
