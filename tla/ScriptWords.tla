----------------------------- MODULE ScriptWords -----------------------------
(***************************************************************************)
(* What a line of a script says: its words, by where they stand, and the   *)
(* command they are.  Nothing here is said of how run_s.c finds them;      *)
(* ScriptMeaning says in which order the lines are carried out.            *)
(***************************************************************************)
EXTENDS CString

CONSTANTS
  Letter,      \* the characters that have no meaning to s_tokenize()
  START,       \* the letter that stands for "start"
  WAITFOR,     \* the one for "waitfor"
  MKNOD,       \* and the one for "mknod"
  DEVICE,      \* what the type of a device begins with: "c" or "b"
  Arity        \* the arguments of each command but start, by its letter

BLANK == "blank"
QUOTE == "quote"
HASH == "hash"
CR == "cr"
NL == "nl"

ASSUME LetterAssumption == Letter \cap {BLANK, QUOTE, HASH, CR, NL} = {}

ASSUME CommandAssumption ==
  /\ START \in Letter \ DOMAIN Arity
  /\ {WAITFOR, MKNOD} \subseteq DOMAIN Arity /\ DOMAIN Arity \subseteq Letter
  /\ Arity \in [DOMAIN Arity -> Nat]
  /\ Arity[WAITFOR] = 1 /\ Arity[MKNOD] = 3

Char == Letter \cup {BLANK, QUOTE, HASH, CR, NL}
Text == Seq(Char)

\* The names of the commands; createport is one, which takes no arguments.
Known == {<<c>> : c \in {START} \cup DOMAIN Arity}

-----------------------------------------------------------------------------
(* A word that begins at f goes up to a blank, or up to a quote if it       *)
(* begins with one.                                                         *)
Stop(s, f) == IF s[f] = QUOTE THEN QUOTE ELSE BLANK

First(s, f) == IF s[f] = QUOTE THEN f + 1 ELSE f

\* Where that blank or quote is, or would be.
End(s, f) ==
  CHOOSE e \in First(s, f) .. Len(s) + 1 :
    /\ \A i \in First(s, f) .. e - 1 : s[i] # Stop(s, f)
    /\ e <= Len(s) => s[e] = Stop(s, f)

WordAt(s, f) == SubSeq(s, First(s, f), End(s, f) - 1)

Marks(s) == {i \in 1 .. Len(s) : s[i] # BLANK}

\* Words begin at F: each is over before the next, and no mark is in none.
BeginAt(s, F) ==
  /\ \A f, g \in F : f < g => End(s, f) < g
  /\ \A i \in Marks(s) : \E f \in F : f <= i /\ i <= End(s, f)

Begins(s) == CHOOSE F \in SUBSET Marks(s) : BeginAt(s, F)

Words(s) ==
  LET F == Begins(s)
  IN [n \in 1 .. Cardinality(F) |-> WordAt(s, CHOOSE f \in F : Counted(F, f) = n)]

-----------------------------------------------------------------------------
\* How many words a command needs: start its program, each other its arguments.
Needed(ws) == IF ws[1] = <<START>> THEN 2 ELSE Arity[ws[1][1]] + 1

IsCommand(ws) == ws # <<>> /\ ws[1] \in Known

\* A mknod of something that is no device.
Refused(ws) == ws[1] = <<MKNOD>> /\ (ws[4] = <<>> \/ Head(ws[4]) \notin DEVICE)

\* What the words say: a command with all of them, or with as many as it takes.
Said(ws) ==
  IF ~IsCommand(ws) \/ Len(ws) < Needed(ws) \/ Refused(ws) THEN <<>>
  ELSE IF ws[1] = <<START>> THEN <<ws>>
  ELSE <<SubSeq(ws, 1, Needed(ws))>>

Commands(line) == Said(Words(line))

\* A waitfor without a path: sysinit exits.
Exits(line) ==
  LET ws == Words(line)
  IN IsCommand(ws) /\ ws[1] = <<WAITFOR>> /\ Len(ws) < Needed(ws)
=============================================================================
