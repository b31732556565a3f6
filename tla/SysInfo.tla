------------------------------- MODULE SysInfo -------------------------------
(***************************************************************************)
(* sysinfo's handler of CMD_SENDIO: read a command into req_buf, leave the *)
(* answer in resp_buf, send it.  Both buffers are globals and outlive the  *)
(* request.  A buffer's content is what tells commands and answers apart:  *)
(* the first word of req_buf, the text in resp_buf.                        *)
(***************************************************************************)
EXTENDS PortServer

VARIABLES req_buf, resp_buf

bufVars == <<req_buf, resp_buf>>

BufInit == req_buf = "" /\ resp_buf = ""

BufTypeOK == req_buf \in Word /\ resp_buf \in Text

-----------------------------------------------------------------------------
(* The result of readmsg() is ignored.  When it fails req_buf keeps what an *)
(* earlier request left there, cut where the new one ends: "help" to "he",  *)
(* "helpme" to "help".                                                      *)
Cut(word) ==
  {"", word} \cup
    (CASE word \in {"help", "getinfo"} -> {"other"}
       [] word = "other" -> {"help", "getinfo"}
       [] OTHER -> {})

Received(r) == IF r.readable THEN {r.word} ELSE Cut(req_buf)

(* A comment or a word that is no command leaves resp_buf as it is. *)
Subcommand(word, resp) ==
  CASE word = "" -> "ERROR"
    [] word = "help" -> "OK: help"
    [] word = "getinfo" -> "OK: getinfo"
    [] OTHER -> resp

\* Mutant: resp_buf is not emptied first.
Response_Leftover(word) == Subcommand(word, resp_buf)

\* resp_buf is emptied before the command is looked at.
Response(word) == Subcommand(word, "")

\* Mutant: a body of one byte more than req_buf is taken.
TooBig_OneMore(r) == r.ssize > ARG_MAX + 1

TooBig(r) == r.ssize > ARG_MAX

-----------------------------------------------------------------------------
RefuseBig ==
  /\ pc = "switch"
  /\ IsSendio
  /\ TooBig(request[msgid])
  /\ ReplyMsg("E2BIG")
  /\ UNCHANGED bufVars

BeginSendio ==
  /\ pc = "switch"
  /\ IsSendio
  /\ ~TooBig(request[msgid])
  /\ Goto("switch", "readmsg")
  /\ UNCHANGED bufVars

ReadMsg ==
  /\ Goto("readmsg", "writemsg")
  /\ req_buf' \in Received(request[msgid])
  /\ resp_buf' = Response(req_buf')

\* writemsg(), then replymsg() with the length of what was written.
WriteMsg ==
  /\ pc = "writemsg"
  /\ ReplyMsg(resp_buf)
  /\ UNCHANGED bufVars

SysInfoSendio == RefuseBig \/ BeginSendio \/ ReadMsg \/ WriteMsg
=============================================================================
