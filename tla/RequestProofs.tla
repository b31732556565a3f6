---------------------------- MODULE RequestProofs ----------------------------
(***************************************************************************)
(* CommonInv is inductive: the types with the program points and scripts   *)
(* that are loaded at each, and what the requests look like, with and      *)
(* without the rc scripts.  One lemma per module of SysInit for the types, *)
(* then the requests, then the theorems; the last is that the clients of   *)
(* sysinit's port are served as RequestService says.                       *)
(***************************************************************************)
EXTENDS SysInitInvariants, WellFoundedInduction, TLAPS

USE DEF At, Goto, Return, Logged, InRc

LEMMA ScriptPrefixes ==
  ASSUME NEW file \in Seq(Command), NEW text \in load_bootstrap_file(file)
  PROVE  text \in Seq(Command) /\ text # NULL
<1>1. \A k \in 0 .. Len(file) - 1 : SubSeq(file, 1, k) \in Seq(Command)
  OBVIOUS
<1>2. ASSUME NEW k \in 0 .. Len(file) - 1, NEW rest \in Garbage
      PROVE  SubSeq(file, 1, k) \o rest \in Seq(Command)
  <2>1. SubSeq(file, 1, k) \in Seq(Command) /\ rest \in Seq(Command)
    BY <1>1, ScriptsAssumption
  <2> QED
    BY <2>1
<1>3. text \in Seq(Command)
  <2>1. CASE text = file
    BY <2>1
  <2>2. CASE text # file
    <3>1. PICK k \in 0 .. Len(file) - 1, rest \in Garbage :
             text = SubSeq(file, 1, k) \o rest
      BY <2>2, SMTT(30) DEF load_bootstrap_file
    <3> QED
      BY <1>2, <3>1
  <2> QED
    BY <2>1, <2>2
<1> QED
  BY <1>3, ScriptsAssumption

\* Natural numbers are well ordered, so a list that is not empty has a head.
LEMMA HeadOfList ==
  ASSUME NEW S \in SUBSET Tty
  PROVE  /\ S = {} => LIST_HEAD(S) = NULL
         /\ S # {} => LIST_HEAD(S) \in S /\ \A t \in S : LIST_HEAD(S) <= t
<1> DEFINE R == {ss \in Nat \X Nat : ss[1] < ss[2]}
<1>0. \A a, b \in Nat : <<a, b>> \in R <=> a < b
  OBVIOUS
<1>1. IsWellFoundedOn(R, Nat)
  BY NatLessThanWellFounded DEF OpToRel
<1> HIDE DEF R
<1>2. ASSUME S # {}
      PROVE  \E s \in S : \A t \in S : s <= t
  <2>1. S \subseteq Nat
    BY TtyAssumption
  <2>2. PICK s \in S : \A t \in S : ~(<<t, s>> \in R)
    BY <1>1, <1>2, <2>1, WFMin
  <2>3. \A t \in S : s <= t
    <3>1. ASSUME NEW t \in S PROVE s <= t
      <4>1. s \in Nat /\ t \in Nat /\ ~(t < s)
        BY <1>0, <2>1, <2>2
      <4> QED
        BY <4>1
    <3> QED
      BY <3>1
  <2> QED
    BY <2>3
<1> QED
  BY <1>2 DEF LIST_HEAD

LEMMA TypeInit == Init => TypeInv
<1> SUFFICES ASSUME Init PROVE TypeInv
  OBVIOUS
<1>1. CtlTypeOK /\ PointsInv
  BY DEF Init, CtlInit, CtlTypeOK, PointsInv, Labels, InitStates
<1>2. ProcTypeOK
  BY DEF Init, ProcInit, ProcTypeOK, Alive, Image
<1>3. RunSTypeOK /\ ScriptsInv
  BY DEF Init, CtlInit, RunSInit, RunSTypeOK, ScriptsInv
<1>4. PortTypeOK
  BY DEF Init, PortInit, PortTypeOK, Descriptors
<1>5. SessionsTypeOK
  BY TtyAssumption DEF Init, SessionsInit, SessionsTypeOK, Statuses
<1>6. LoopTypeOK
  BY HaltAssumption DEF Init, LoopInit, LoopTypeOK
<1> QED
  BY <1>1, <1>2, <1>3, <1>4, <1>5, <1>6 DEF Init, TypeOK, TypeInv

LEMMA ForkType ==
  ASSUME ProcTypeOK, NEW p \in Pid, NEW img \in Image, Fork(p, img)
  PROVE  ProcTypeOK'
BY DEF ProcTypeOK, Fork, Alive

LEMMA ReapType ==
  ASSUME ProcTypeOK, NEW ps, Reap(ps)
  PROVE  ProcTypeOK'
BY DEF ProcTypeOK, Reap, Image
-----------------------------------------------------------------------------
(* One lemma for each module's steps. *)

LEMMA RunSType ==
  ASSUME TypeInv, RunSNext, UNCHANGED <<clientVars, sessionVars, loopVars, pid>>
  PROVE  TypeInv'
<1> USE DEF TypeInv, TypeOK, PointsInv, ScriptsInv, CtlTypeOK, InitStates, Labels,
        mountVars
<1>0. /\ PortTypeOK' <=> portid' \in Descriptors /\ kq' \in Descriptors
                         /\ port' \in BOOLEAN
      /\ SessionsTypeOK' /\ LoopTypeOK' /\ pid' \in Pid \cup {NoPid}
  BY DEF PortTypeOK, clientVars, sessionVars, SessionsTypeOK, loopVars, LoopTypeOK,
         listVars, startVars, waitVars
<1>1. CASE LoadStartup
  <2>1. RunSTypeOK'
    BY <1>1, ScriptPrefixes, ScriptsAssumption DEF LoadStartup, RunSTypeOK, LoadFailed
  <2>2. ScriptsInv'
    BY <1>1, ScriptPrefixes, ScriptsAssumption DEF LoadStartup, LoadFailed
  <2> QED
    BY <1>0, <1>1, <2>1, <2>2
       DEF LoadStartup, LoadFailed, procVars, fdVars, ProcTypeOK, PortTypeOK
<1>2. CASE LoadShutdown
  <2>1. RunSTypeOK'
    BY <1>2, ScriptPrefixes, ScriptsAssumption DEF LoadShutdown, RunSTypeOK, LoadFailed
  <2>2. ScriptsInv'
    BY <1>2, ScriptPrefixes, ScriptsAssumption DEF LoadShutdown, LoadFailed
  <2> QED
    BY <1>0, <1>2, <2>1, <2>2
       DEF LoadShutdown, LoadFailed, procVars, fdVars, ProcTypeOK, PortTypeOK
<1>3. CASE BeginShutdownScript
  BY <1>0, <1>3 DEF BeginShutdownScript, RunSTypeOK, procVars, fdVars, ProcTypeOK, PortTypeOK
<1>4. ASSUME NEW c, Line(c)
      PROVE  /\ Head(src) \in Command
             /\ src' \in Seq(Command)
             /\ UNCHANGED <<s_startup_script, s_shutdown_script>>
  BY <1>4 DEF Line, RunSTypeOK
<1>5. CASE s_cmd_start
  <2>1. Head(src).arg \in Path \cup {NULL}
    BY <1>4, <1>5 DEF s_cmd_start, Command
  <2>2. ProcTypeOK' /\ errno' \in {"ECHILD", "other"}
    BY <2>1, <1>5, ForkType DEF s_cmd_start, Image, ForkFails, procVars, ProcTypeOK
  <2> QED
    BY <1>0, <1>4, <1>5, <2>2
       DEF s_cmd_start, RunSTypeOK, NextLine, fdVars, PortTypeOK, Line
<1>6. CASE s_cmd_waitfor
  BY <1>0, <1>4, <1>6
     DEF s_cmd_waitfor, RunSTypeOK, NextLine, fdVars, PortTypeOK, Line, procVars, ProcTypeOK
<1>7. CASE s_cmd_mount
  <2>1. mounts' \subseteq Path /\ starting' \subseteq Pid
    BY <1>4, <1>7 DEF s_cmd_mount, pivotroot, renamemount, Command, RunSTypeOK
  <2> QED
    BY <1>0, <1>4, <1>7, <2>1
       DEF s_cmd_mount, RunSTypeOK, NextLine, fdVars, PortTypeOK, Line, procVars, ProcTypeOK
<1>8. CASE s_cmd_createport
  <2>1. PortTypeOK'
    BY <1>0, <1>8 DEF s_cmd_createport, CreateMsgPort, PortTypeOK, Descriptors
  <2> QED
    BY <1>0, <1>4, <1>8, <2>1
       DEF s_cmd_createport, RunSTypeOK, NextLine, Line, procVars, ProcTypeOK
<1>9. CASE s_cmd_other
  BY <1>0, <1>4, <1>9
     DEF s_cmd_other, RunSTypeOK, NextLine, fdVars, PortTypeOK, Line, procVars, ProcTypeOK
<1>10. CASE ScriptDone
  BY <1>0, <1>10
     DEF ScriptDone, RunSTypeOK, scriptVars, fdVars, PortTypeOK, procVars, ProcTypeOK
<1> QED
  BY <1>1, <1>2, <1>3, <1>5, <1>6, <1>7, <1>8, <1>9, <1>10 DEF RunSNext

LEMMA SessionsType ==
  ASSUME TypeInv, SessionsNext,
         UNCHANGED <<scriptVars, fdVars, clientVars, loopVars, pid>>
  PROVE  TypeInv'
<1> USE TtyAssumption
    DEF TypeInv, TypeOK, PointsInv, ScriptsInv, CtlTypeOK, InitStates, Labels,
        listVars, startVars, waitVars, sessionVars, procVars, ctlVars
<1>0. /\ RunSTypeOK' /\ PortTypeOK' /\ LoopTypeOK' /\ pid' \in Pid \cup {NoPid}
      /\ UNCHANGED <<s_startup_script, s_shutdown_script>>
  BY DEF RunSTypeOK, PortTypeOK, LoopTypeOK, scriptVars, mountVars, fdVars, clientVars, loopVars
<1>1. CASE BeginSessions
  BY <1>0, <1>1 DEF BeginSessions, SessionsTypeOK, ProcTypeOK
<1>2. CASE alloc_session
  <2>1. ProcTypeOK' /\ session_index' \in 0 .. NTty
    BY <1>2 DEF alloc_session, getttyent, SessionsTypeOK, ProcTypeOK
  <2>2. /\ session_list' \subseteq Tty
        /\ se_process' \in [Tty -> Pid \cup {NoPid}]
        /\ se_shutdown' \subseteq Tty
    <3>1. CASE UNCHANGED listVars
      BY <3>1 DEF SessionsTypeOK
    <3>2. CASE Forget(session_list)
      BY <3>2 DEF Forget, SessionsTypeOK
    <3>3. CASE /\ session_list' = session_list \cup {session_index}
               /\ session_index \in TtyOn
               /\ UNCHANGED <<se_process, se_shutdown>>
      BY <3>3 DEF SessionsTypeOK
    <3> QED
      BY <1>2, <3>1, <3>2, <3>3 DEF alloc_session
  <2> QED
    BY <1>0, <1>2, <2>1, <2>2 DEF alloc_session, SessionsTypeOK
<1>3. CASE SessionsAllocated
  <2>1. sp' \in Tty \cup {NULL}
    <3>1. session_list \in SUBSET Tty
      BY DEF SessionsTypeOK
    <3>2. session_list # {} => LIST_HEAD(session_list) \in Tty
      BY <3>1, HeadOfList
    <3> QED
      BY <1>3, <3>2 DEF SessionsAllocated, SessionsTypeOK
  <2> QED
    BY <1>0, <1>3, <2>1 DEF SessionsAllocated, SessionsTypeOK, ProcTypeOK
<1>4. CASE StartSession
  <2>1. LIST_NEXT(sp) \in Tty \cup {NULL}
    <3>1. {t \in session_list : t > sp} \in SUBSET Tty
      BY DEF SessionsTypeOK
    <3> QED
      BY <3>1, HeadOfList DEF LIST_NEXT
  <2>2. ProcTypeOK' /\ se_process' \in [Tty -> Pid \cup {NoPid}]
    BY <1>4, ForkType
       DEF StartSession, start_getty, ForkFails, SessionsTypeOK, ProcTypeOK, Image
  <2> QED
    BY <1>0, <1>4, <2>1, <2>2
       DEF StartSession, start_getty, ForkFails, SessionsTypeOK
<1>5. CASE SessionsStarted
  BY <1>0, <1>5 DEF SessionsStarted, SessionsTypeOK, ProcTypeOK
<1>6. CASE StopSessions
  BY <1>0, <1>6 DEF StopSessions, SessionsTypeOK, ProcTypeOK
<1>7. CASE collect_process
  <2> DEFINE s == find_session(wpid)
  <2>1. s \in Tty \cup {NULL}
    <3>1. {t \in session_list : se_process[t] = wpid} \in SUBSET Tty
      BY DEF SessionsTypeOK
    <3> QED
      BY <3>1, HeadOfList DEF find_session
  <2>2. ProcTypeOK'
    BY <1>7, <2>1, ForkType
       DEF collect_process, start_getty, ForkFails, ProcTypeOK, Image
  <2>3. /\ session_list' \subseteq Tty
        /\ se_process' \in [Tty -> Pid \cup {NoPid}]
        /\ se_shutdown' \subseteq Tty
    BY <1>7, <2>1
       DEF collect_process, start_getty, free_session, Forget, SessionsTypeOK
  <2>4. errno' \in {"ECHILD", "other"} /\ Goto("collected")
    BY <1>7 DEF collect_process, ForkFails
  <2> QED
    BY <1>0, <1>7, <2>2, <2>3, <2>4 DEF collect_process, SessionsTypeOK
<1> QED
  BY <1>1, <1>2, <1>3, <1>4, <1>5, <1>6, <1>7 DEF SessionsNext

LEMMA RcType ==
  ASSUME TypeInv, RcEnabled, RcNext,
         UNCHANGED <<scriptVars, fdVars, clientVars, loopVars>>
  PROVE  TypeInv'
<1> USE DEF TypeInv, TypeOK, PointsInv, ScriptsInv, CtlTypeOK, InitStates, Labels,
        listVars, startVars, waitVars, sessionVars, procVars
<1>0. /\ RunSTypeOK' /\ PortTypeOK' /\ LoopTypeOK'
      /\ UNCHANGED <<s_startup_script, s_shutdown_script>>
  BY DEF RunSTypeOK, PortTypeOK, LoopTypeOK, scriptVars, mountVars, fdVars, clientVars, loopVars
<1>1. CASE RcFork
  <2>1. ProcTypeOK'
    BY <1>1, ForkType DEF RcFork, ForkFails, ProcTypeOK, Image
  <2>2. SessionsTypeOK'
    BY <1>1 DEF RcFork, SessionsTypeOK
  <2> QED
    BY <1>0, <1>1, <2>1, <2>2 DEF RcFork, ForkFails
<1>4. CASE RcReapNohang
  <2>1. ProcTypeOK'
    BY <1>4, ReapType DEF RcReapNohang, ProcTypeOK
  <2>2. SessionsTypeOK'
    BY <1>4 DEF RcReapNohang, SessionsTypeOK
  <2> QED
    BY <1>0, <1>4, <2>1, <2>2 DEF RcReapNohang, RcReturns, ctlVars
<1>2. CASE RcWait
  <2>1. ProcTypeOK'
    BY <1>2, ReapType DEF RcWait, ProcTypeOK, Alive
  <2>2. SessionsTypeOK'
    BY <1>2 DEF RcWait, SessionsTypeOK, Statuses
  <2> QED
    BY <1>0, <1>2, <2>1, <2>2 DEF RcWait
<1>3. CASE RcCollected
  <2>1. ProcTypeOK'
    BY <1>3 DEF RcCollected, ProcTypeOK, Alive
  <2>2. SessionsTypeOK'
    BY <1>3 DEF RcCollected, SessionsTypeOK, Statuses
  <2> QED
    BY <1>0, <1>3, <2>1, <2>2 DEF RcCollected, RcReturns
<1> QED
  BY <1>1, <1>2, <1>3, <1>4 DEF RcNext

LEMMA ReaperType ==
  ASSUME TypeInv, ReaperNext,
         UNCHANGED <<scriptVars, fdVars, clientVars, loopVars, pid>>
  PROVE  TypeInv'
<1> USE DEF TypeInv, TypeOK, PointsInv, ScriptsInv, CtlTypeOK, InitStates, Labels,
        listVars, startVars, waitVars, sessionVars, procVars
<1>0. /\ RunSTypeOK' /\ PortTypeOK' /\ LoopTypeOK' /\ pid' \in Pid \cup {NoPid}
      /\ UNCHANGED <<s_startup_script, s_shutdown_script>>
  BY DEF RunSTypeOK, PortTypeOK, LoopTypeOK, scriptVars, mountVars, fdVars, clientVars, loopVars
<1>1. CASE ReaperKill
  BY <1>0, <1>1
     DEF ReaperKill, MarkSessions, Hangup, SessionsTypeOK, ProcTypeOK, Alive
<1>2. CASE ReaperWait
  <2>1. ProcTypeOK'
    BY <1>2, ReapType DEF ReaperWait, ProcTypeOK
  <2>2. SessionsTypeOK'
    BY <1>2 DEF ReaperWait, Zombies, SessionsTypeOK, Statuses
  <2> QED
    BY <1>0, <1>2, <2>1, <2>2 DEF ReaperWait
<1>3. CASE ReaperCollected
  BY <1>0, <1>3 DEF ReaperCollected, SessionsTypeOK, Statuses, ProcTypeOK
<1>4. CASE Failure
  BY <1>0, <1>4 DEF Failure, SessionsTypeOK, ProcTypeOK
<1>5. CASE StateShutdown
  BY <1>0, <1>5 DEF StateShutdown, SessionsTypeOK, ProcTypeOK
<1> QED
  BY <1>1, <1>2, <1>3, <1>4, <1>5 DEF ReaperNext

LEMMA LoopType ==
  ASSUME TypeInv, msgid # NoClient <=> pc = "handle", LoopNext,
         UNCHANGED <<procVars, scriptVars, fdVars, sessionVars, pid>>
  PROVE  TypeInv'
<1> USE DEF TypeInv, TypeOK, PointsInv, ScriptsInv, CtlTypeOK, InitStates, Labels,
        clientVars, loopVars
<1>0. /\ RunSTypeOK' /\ ProcTypeOK' /\ SessionsTypeOK' /\ pid' \in Pid \cup {NoPid}
      /\ UNCHANGED <<s_startup_script, s_shutdown_script, portid, kq, port>>
  BY DEF RunSTypeOK, ProcTypeOK, SessionsTypeOK, scriptVars, mountVars, fdVars, procVars,
         sessionVars, listVars, startVars, waitVars
<1>1. CASE EnterLoop
  BY <1>0, <1>1 DEF EnterLoop, PortTypeOK, LoopTypeOK
<1>2. CASE Wakeup
  BY <1>0, <1>2 DEF Wakeup, PortTypeOK, LoopTypeOK
<1>3. CASE LeaveLoop
  BY <1>0, <1>3 DEF LeaveLoop, PortTypeOK, LoopTypeOK
<1>4. CASE GetMsg
  BY <1>0, <1>4 DEF GetMsg, PortTypeOK, LoopTypeOK
<1>5. CASE NoMoreMessages
  BY <1>0, <1>5 DEF NoMoreMessages, PortTypeOK, LoopTypeOK
<1>6. CASE HandleShutdown
  <2>1. msgid \in Client /\ request[msgid] \in Request
    BY <1>6, HaltAssumption DEF HandleShutdown, PortTypeOK, LoopTypeOK, NoRequest
  <2>2. request[msgid].how \in How \cup {NoHow}
    BY <2>1 DEF Request
  <2>3. shutdown_how' \in How
    BY <1>6, <2>2 DEF HandleShutdown, sysinit_req_how
  <2> QED
    BY <1>0, <1>6, <2>3 DEF HandleShutdown, ReplyMsg, PortTypeOK, LoopTypeOK
<1>7. CASE HandleOther
  BY <1>0, <1>7 DEF HandleOther, NotSupported, ReplyMsg, PortTypeOK, LoopTypeOK
<1> QED
  BY <1>1, <1>2, <1>3, <1>4, <1>5, <1>6, <1>7 DEF LoopNext

LEMMA SkipType ==
  ASSUME TypeInv, SkipRcStartup \/ SkipRcShutdown
  PROVE  TypeInv'
BY DEF TypeInv, TypeOK, PointsInv, ScriptsInv, CtlTypeOK, InitStates, Labels,
       SkipRcStartup, SkipRcShutdown, RunSTypeOK, scriptVars, mountVars, ProcTypeOK, procVars,
       PortTypeOK, fdVars, clientVars, SessionsTypeOK, sessionVars, listVars,
       startVars, waitVars, LoopTypeOK, loopVars

\* The environment's steps leave sysinit's own state alone.
LEMMA EnvironmentType ==
  ASSUME TypeInv, ProcStep \/ (\E p \in Pid : MountStep(p)) \/ ClientStep
  PROVE  TypeInv'
<1>1. /\ UNCHANGED <<ctlVars, fdVars, sessionVars, loopVars, pid>>
      /\ UNCHANGED <<s_startup_script, s_shutdown_script, src>>
  BY DEF ProcStep, MountStep, ClientStep, Mount, scriptVars
<1>2. ProcTypeOK'
  <2>1. CASE ProcStep
    BY <2>1 DEF TypeInv, TypeOK, ProcStep, ProcNext, Exit, Orphan, Nohup, Stop,
                ProcTypeOK, Alive, Image
  <2>2. CASE UNCHANGED procVars
    BY <2>2 DEF TypeInv, TypeOK, ProcTypeOK, procVars
  <2> QED
    BY <2>1, <2>2 DEF MountStep, ClientStep
<1>3. mounts' \subseteq Path /\ starting' \subseteq Pid
  BY DEF TypeInv, TypeOK, RunSTypeOK, ProcStep, MountStep, ClientStep, Mount,
         scriptVars, mountVars
<1>4. PortTypeOK'
  <2>1. CASE ClientStep
    BY <2>1 DEF TypeInv, TypeOK, ClientStep, Send, PortTypeOK, fdVars
  <2>2. CASE UNCHANGED <<fdVars, clientVars>>
    BY <2>2 DEF TypeInv, TypeOK, PortTypeOK, fdVars, clientVars
  <2> QED
    BY <2>1, <2>2 DEF ProcStep, MountStep
<1> QED
  BY <1>1, <1>2, <1>3, <1>4
     DEF TypeInv, TypeOK, CtlTypeOK, PointsInv, ScriptsInv, RunSTypeOK, ctlVars,
         SessionsTypeOK, sessionVars, listVars, startVars, waitVars, LoopTypeOK,
         loopVars

-----------------------------------------------------------------------------
(* The requests and the way the system goes down.                          *)

HIDE DEF Logged, InRc

\* A step that leaves the requests alone and is not one of the loop's.
LEMMA RequestsFrame ==
  ASSUME RequestsInv, UNCHANGED <<clientVars, loopVars>>,
         pc' = "handle" <=> pc = "handle"
  PROVE  RequestsInv'
BY DEF RequestsInv, RequestsConserved, clientVars, loopVars

LEMMA RequestsOther ==
  ASSUME TypeInv, RequestsInv,
         RunSNext \/ SessionsNext \/ RcNext \/ ReaperNext \/ SkipRcStartup
           \/ SkipRcShutdown,
         UNCHANGED <<clientVars, loopVars>>
  PROVE  RequestsInv'
<1>1. pc # "handle" /\ pc' # "handle"
  <2>1. CASE RunSNext
    BY <2>1 DEF RunSNext, LoadStartup, LoadShutdown, LoadFailed, BeginShutdownScript,
       s_cmd_start, s_cmd_waitfor, s_cmd_mount, s_cmd_createport, s_cmd_other,
       ScriptDone, Line, NextLine
  <2>2. CASE SessionsNext
    BY <2>2 DEF SessionsNext, BeginSessions, alloc_session, SessionsAllocated,
       StartSession, SessionsStarted, StopSessions, collect_process, ctlVars
  <2>3. CASE RcNext
    BY <2>3 DEF RcNext, RcFork, RcReapNohang, RcReturns, RcWait, RcCollected, ctlVars
  <2>4. CASE ReaperNext
    BY <2>4 DEF ReaperNext, ReaperKill, ReaperWait, ReaperCollected, Failure,
       StateShutdown
  <2>5. CASE SkipRcStartup \/ SkipRcShutdown
    BY <2>5 DEF SkipRcStartup, SkipRcShutdown
  <2> QED
    BY <2>1, <2>2, <2>3, <2>4, <2>5
<1> QED
  BY <1>1, RequestsFrame

LEMMA RequestsLoop ==
  ASSUME TypeInv, RequestsInv, LoopNext
  PROVE  RequestsInv'
<1> USE DEF clientVars, loopVars
<1>0. /\ PortTypeOK /\ LoopTypeOK
  BY DEF TypeInv, TypeOK
<1>1. CASE EnterLoop \/ Wakeup \/ LeaveLoop \/ NoMoreMessages
  BY <1>1, RequestsFrame DEF EnterLoop, Wakeup, LeaveLoop, NoMoreMessages
<1>2. CASE GetMsg
  <2>1. PICK c \in queue : msgid' = c /\ queue' = queue \ {c}
    BY <1>2 DEF GetMsg
  <2>2. c \in Client /\ c # NoClient
    BY <1>0, <2>1, NoClientAssumption DEF PortTypeOK
  <2>3. UNCHANGED <<request, reply, shutdown, shutdown_how>> /\ msgid = NoClient
        /\ pc' = "handle"
    BY <1>2 DEF GetMsg, RequestsInv
  <2>4. RequestsConserved'
    BY <1>0, <2>1, <2>2, <2>3, NoClientAssumption
       DEF RequestsInv, RequestsConserved, PortTypeOK
  <2> QED
    BY <2>1, <2>2, <2>3, <2>4 DEF RequestsInv
<1>3. ASSUME NEW answer \in {"ok", "ENOTSUP"},
             At("STATE_MESSAGE_LOOP", "handle"), ReplyMsg(msgid, answer),
             msgid' = NoClient, UNCHANGED <<request, queue>>
      PROVE  /\ RequestsConserved'
             /\ msgid \in Client /\ reply[msgid] = "none"
             /\ \A c \in Client : reply'[c] = IF c = msgid THEN answer ELSE reply[c]
  <2>1. msgid \in Client /\ reply[msgid] = "none" /\ request[msgid] # NoRequest
    BY <1>0, <1>3 DEF RequestsInv, RequestsConserved, LoopTypeOK
  <2>2. \A c \in Client : reply'[c] = IF c = msgid THEN answer ELSE reply[c]
    BY <1>0, <1>3, <2>1 DEF ReplyMsg, PortTypeOK
  <2>3. RequestsConserved'
    BY <1>0, <1>3, <2>1, <2>2, NoClientAssumption DEF RequestsInv, RequestsConserved
  <2> QED
    BY <2>1, <2>2, <2>3
<1>4. CASE HandleShutdown
  <2>1. /\ RequestsConserved'
        /\ msgid \in Client /\ reply[msgid] = "none"
        /\ \A c \in Client : reply'[c] = IF c = msgid THEN "ok" ELSE reply[c]
    BY <1>3, <1>4 DEF HandleShutdown
  <2> QED
    BY <1>4, <2>1 DEF HandleShutdown, RequestsInv
<1>5. CASE HandleOther
  <2>1. /\ RequestsConserved'
        /\ msgid \in Client /\ reply[msgid] = "none"
        /\ \A c \in Client : reply'[c] = IF c = msgid THEN "ENOTSUP" ELSE reply[c]
    BY <1>3, <1>5 DEF HandleOther, NotSupported
  <2>2. (\E c \in Client : reply'[c] = "ok") <=> (\E c \in Client : reply[c] = "ok")
    BY <2>1
  <2> QED
    BY <1>5, <2>1, <2>2 DEF HandleOther, RequestsInv
<1> QED
  BY <1>1, <1>2, <1>4, <1>5 DEF LoopNext

LEMMA RequestsEnvironment ==
  ASSUME TypeInv, RequestsInv,
         ProcStep \/ (\E p \in Pid : MountStep(p)) \/ ClientStep
  PROVE  RequestsInv'
<1>1. CASE ProcStep \/ (\E p \in Pid : MountStep(p))
  BY <1>1, RequestsFrame DEF ProcStep, MountStep, ctlVars
<1>2. CASE ClientStep
  <2>1. PICK c \in Client, r \in Request : Send(c, r)
    BY <1>2 DEF ClientStep
  <2>2. /\ request[c] = NoRequest
        /\ \A d \in Client : request'[d] = IF d = c THEN r ELSE request[d]
        /\ queue' = queue \cup {c}
        /\ UNCHANGED <<reply, msgid, shutdown, shutdown_how, pc>>
    BY <1>2, <2>1
       DEF Send, TypeInv, TypeOK, PortTypeOK, ClientStep, loopVars, ctlVars
  <2>3. r # NoRequest
    BY DEF Request, NoRequest
  <2>4. c \notin queue /\ c # msgid /\ reply[c] = "none"
    BY <2>2 DEF RequestsInv, RequestsConserved
  <2>5. RequestsConserved'
    BY <2>2, <2>3, <2>4 DEF RequestsInv, RequestsConserved
  <2> QED
    BY <2>2, <2>5 DEF RequestsInv
<1> QED
  BY <1>1, <1>2

-----------------------------------------------------------------------------
LEMMA CommonInit == Init => CommonInv
<1> SUFFICES ASSUME Init PROVE RequestsInv
  BY TypeInit DEF CommonInv
<1> QED
  BY NoClientAssumption
     DEF Init, CtlInit, PortInit, LoopInit, RequestsInv, RequestsConserved,
         NoRequest

LEMMA CommonStep == CommonInv /\ [Next]_vars => CommonInv'
<1> SUFFICES ASSUME CommonInv, [Next]_vars PROVE CommonInv'
  OBVIOUS
<1>0. TypeInv /\ RequestsInv /\ (msgid # NoClient <=> pc = "handle")
  BY DEF CommonInv, RequestsInv
<1>1. CASE SysinitStep
  <2>1. CASE RunSNext /\ UNCHANGED <<clientVars, sessionVars, loopVars, pid>>
    BY <1>0, <2>1, RunSType, RequestsOther DEF CommonInv
  <2>2. CASE SkipRcStartup \/ SkipRcShutdown
    BY <1>0, <2>2, SkipType, RequestsOther DEF CommonInv, SkipRcStartup, SkipRcShutdown
  <2>3. CASE RcEnabled /\ RcNext /\ UNCHANGED <<scriptVars, fdVars, clientVars, loopVars>>
    BY <1>0, <2>3, RcType, RequestsOther DEF CommonInv
  <2>4. CASE SessionsNext /\ UNCHANGED <<scriptVars, fdVars, clientVars, loopVars, pid>>
    BY <1>0, <2>4, SessionsType, RequestsOther DEF CommonInv
  <2>5. CASE LoopNext /\ UNCHANGED <<procVars, scriptVars, fdVars, sessionVars, pid>>
    BY <1>0, <2>5, LoopType, RequestsLoop DEF CommonInv
  <2>6. CASE ReaperNext /\ UNCHANGED <<scriptVars, fdVars, clientVars, loopVars, pid>>
    BY <1>0, <2>6, ReaperType, RequestsOther DEF CommonInv
  <2> QED
    BY <1>1, <2>1, <2>2, <2>3, <2>4, <2>5, <2>6 DEF SysinitStep
<1>2. CASE ProcStep \/ (\E p \in Pid : MountStep(p)) \/ ClientStep
  BY <1>0, <1>2, EnvironmentType, RequestsEnvironment DEF CommonInv
<1>3. CASE UNCHANGED vars
  <2> USE <1>3 DEF vars, ctlVars, procVars, scriptVars, mountVars, fdVars, clientVars,
                   sessionVars, listVars, startVars, waitVars, loopVars
  <2>1. TypeInv'
    BY <1>0 DEF TypeInv, TypeOK, CtlTypeOK, ProcTypeOK, RunSTypeOK, PortTypeOK,
                SessionsTypeOK, LoopTypeOK, PointsInv, ScriptsInv, InRc
  <2>2. RequestsInv'
    BY <1>0, RequestsFrame
  <2> QED
    BY <2>1, <2>2 DEF CommonInv
<1> QED
  BY <1>1, <1>2, <1>3 DEF Next

\* The inductive invariant of main() with or without the rc scripts: types, where
\* each handler may be, which scripts are loaded, who holds a request.
THEOREM CommonInvariant == Spec => []CommonInv
BY CommonInit, CommonStep, PTL DEF Spec

-----------------------------------------------------------------------------
\* Every variable keeps its type, for every number of pids, clients and lines
\* and for any two scripts.
THEOREM TypeCorrect == Spec => []TypeOK
<1>1. CommonInv => TypeOK
  BY DEF CommonInv, TypeInv
<1> QED
  BY <1>1, CommonInvariant, PTL

\* Both scripts are in memory before the first line runs, so the shutdown
\* sequence, entered by request or because the start failed, finds its own.
THEOREM ShutdownScriptIsLoaded == Spec => []ShutdownScriptLoaded
<1>1. CommonInv => ShutdownScriptLoaded
  BY DEF CommonInv, TypeInv, ScriptsInv, ShutdownScriptLoaded
<1> QED
  BY <1>1, CommonInvariant, PTL

\* A request is queued, in the hands of the loop or answered, and answered once.
THEOREM NoRequestIsLost == Spec => []RequestsConserved
<1>1. CommonInv => RequestsConserved
  BY DEF CommonInv, RequestsInv
<1> QED
  BY <1>1, CommonInvariant, PTL

\* Only the loop changes how the system goes down, and only as it grants.
LEMMA HowStep ==
  ASSUME CommonInv, [Next]_vars
  PROVE  /\ \A c \in Client :
              GrantedNow(c) =>
                /\ shutdown'
                /\ request[c].how # NoHow => shutdown_how' = request[c].how
         /\ UNCHANGED <<shutdown, shutdown_how>> \/ \E c \in Client : GrantedNow(c)
<1>1. CASE HandleShutdown
  <2>1. msgid \in Client /\ reply[msgid] = "none" /\ reply \in [Client -> {"none", "ok", "ENOTSUP"}]
    BY <1>1 DEF HandleShutdown, CommonInv, TypeInv, TypeOK, PortTypeOK, LoopTypeOK,
                RequestsInv, RequestsConserved
  <2>2. \A c \in Client : GrantedNow(c) <=> c = msgid
    BY <1>1, <2>1 DEF HandleShutdown, ReplyMsg, GrantedNow
  <2>3. /\ shutdown'
        /\ request[msgid].how # NoHow => shutdown_how' = request[msgid].how
    BY <1>1 DEF HandleShutdown, sysinit_req_how
  <2> QED
    BY <2>1, <2>2, <2>3
<1>2. CASE HandleOther
  <2>1. msgid \in Client /\ reply \in [Client -> {"none", "ok", "ENOTSUP"}]
    BY <1>2 DEF HandleOther, CommonInv, TypeInv, TypeOK, PortTypeOK, LoopTypeOK,
                RequestsInv
  <2>2. \A c \in Client : ~GrantedNow(c)
    BY <1>2, <2>1 DEF HandleOther, NotSupported, ReplyMsg, GrantedNow
  <2> QED
    BY <1>2, <2>2 DEF HandleOther
<1>3. CASE UNCHANGED <<reply, shutdown, shutdown_how>>
  BY <1>3 DEF GrantedNow
<1>4. CASE LoopNext /\ ~HandleShutdown /\ ~HandleOther
  BY <1>3, <1>4
     DEF LoopNext, EnterLoop, Wakeup, LeaveLoop, GetMsg, NoMoreMessages, clientVars, loopVars
<1> QED
  BY <1>1, <1>2, <1>3, <1>4
     DEF Next, SysinitStep, SkipRcStartup, SkipRcShutdown, ProcStep, MountStep, Mount,
         ClientStep, Send, LoopNext, vars, clientVars, loopVars

\* The way the system goes down is that of the client granted last, as long as the
\* bodies of the requests hold one, and the default if none was granted.
THEOREM ShutdownAsRequested == Spec => HowWasRequested
<1> DEFINE AsGranted ==
      /\ \A c \in Client :
           GrantedNow(c) =>
             /\ shutdown'
             /\ request[c].how # NoHow => shutdown_how' = request[c].how
      /\ UNCHANGED <<shutdown, shutdown_how>> \/ \E c \in Client : GrantedNow(c)
<1>1. Init => ~shutdown /\ shutdown_how = HALT
  BY DEF Init, LoopInit
<1>2. CommonInv /\ [Next]_vars => [AsGranted]_vars
  BY HowStep
<1> QED
  BY <1>1, <1>2, CommonInvariant, PTL DEF Spec, HowWasRequested
-----------------------------------------------------------------------------
(* Refinement of RequestService.                                           *)

\* A step at which no client asks and nobody is answered ends the service or is
\* unseen.
LEMMA QuietService ==
  ASSUME Up, UNCHANGED <<request, reply>>
  PROVE  [Service!Next]_(Service!vars)
BY DEF Service!Next, Service!End, Service!vars

LEMMA AnswerIsRespond ==
  ASSUME CommonInv, At("STATE_MESSAGE_LOOP", "handle"), Goto("getmsg"),
         NEW a \in RightAnswers(request[msgid]), ReplyMsg(msgid, a),
         UNCHANGED request
  PROVE  Service!Next
<1>1. msgid \in Client /\ reply[msgid] = "none" /\ request[msgid] \in Request
  BY DEF CommonInv, TypeInv, TypeOK, PortTypeOK, LoopTypeOK, RequestsInv,
         RequestsConserved
<1>2. request[msgid] # NoRequest
  BY <1>1 DEF Request, NoRequest
<1>3. Up /\ Up'
  BY DEF Up
<1>4. Service!Respond(msgid)
  BY <1>1, <1>2, <1>3 DEF Service!Respond, ReplyMsg
<1> QED
  BY <1>1, <1>4 DEF Service!Next

LEMMA SysinitServes ==
  ASSUME CommonInv, SysinitStep
  PROVE  [Service!Next]_(Service!vars)
<1>1. CASE HandleShutdown
  <2>1. "ok" \in RightAnswers(request[msgid])
    BY <1>1 DEF HandleShutdown, RightAnswers
  <2> QED
    BY <1>1, <2>1, AnswerIsRespond DEF HandleShutdown
<1>2. CASE HandleOther
  <2>1. "ENOTSUP" \in RightAnswers(request[msgid])
    BY <1>2 DEF HandleOther, RightAnswers
  <2> QED
    BY <1>2, <2>1, AnswerIsRespond DEF HandleOther, NotSupported
<1>3. CASE LoopNext /\ ~HandleShutdown /\ ~HandleOther
  BY <1>3, QuietService
     DEF SysinitStep, LoopNext, EnterLoop, Wakeup, LeaveLoop, GetMsg, NoMoreMessages,
         clientVars
<1> QED
  BY <1>1, <1>2, <1>3, QuietService
     DEF SysinitStep, SkipRcStartup, SkipRcShutdown, clientVars

LEMMA EnvironmentServes ==
  ASSUME ProcStep \/ (\E p \in Pid : MountStep(p)) \/ ClientStep
  PROVE  [Service!Next]_(Service!vars)
<1>1. CASE ClientStep
  <2>1. PICK c \in Client, r \in Request : Send(c, r)
    BY <1>1 DEF ClientStep
  <2>2. Up /\ Up'
    BY <1>1 DEF ClientStep, ctlVars, Up
  <2>3. Service!Ask(c)
    BY <2>1, <2>2 DEF Service!Ask, Send
  <2> QED
    BY <2>3 DEF Service!Next
<1> QED
  BY <1>1, QuietService DEF ProcStep, MountStep, clientVars

\* sysinit implements RequestService: whoever asks for a shutdown is granted it and
\* whoever asks for something else is refused, each once, for any clients, any
\* scripts, any way that process 1 ends, and with or without the rc scripts.
THEOREM SysinitServesClients == Spec => PortService
<1>1. Init => Service!Init
  BY DEF Init, PortInit, CtlInit, Service!Init, Up
<1>2. CommonInv /\ [Next]_vars => [Service!Next]_(Service!vars)
  <2> SUFFICES ASSUME CommonInv, [Next]_vars
               PROVE  [Service!Next]_(Service!vars)
    OBVIOUS
  <2>1. CASE UNCHANGED vars
    BY <2>1 DEF vars, ctlVars, clientVars, Service!vars, Up
  <2> QED
    BY <2>1, SysinitServes, EnvironmentServes DEF Next
<1> QED
  BY <1>1, <1>2, CommonInvariant, PTL DEF Spec, PortService, Service!Spec
=============================================================================
