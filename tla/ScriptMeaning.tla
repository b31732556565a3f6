---------------------------- MODULE ScriptMeaning ----------------------------
(***************************************************************************)
(* What process_bootstrap_script() promises of a script: its lines are     *)
(* taken in order, each once, and each has done what it says before the    *)
(* next is taken, up to the end of the script, to a line that says to exit *)
(* or to one that is too long.  An abstract specification: ScriptText      *)
(* implements it.                                                          *)
(***************************************************************************)
EXTENDS Naturals, Sequences

CONSTANTS
  Input,          \* the scripts
  LineEnd,        \* the characters that end a line
  LINEBUF,        \* no line may have so many characters
  Commands(_),    \* what a line says: a sequence of commands
  Exits(_),       \* does it say to exit?
  NULL

VARIABLES
  rest,           \* the lines that have not been taken
  line,           \* the line that was taken and is carried out, or NULL
  done,           \* the commands that were carried out
  ended

vars == <<rest, line, done, ended>>

Init ==
  /\ rest \in Input
  /\ line = NULL
  /\ done = <<>>
  /\ ended = FALSE

\* The line that rest begins with has n characters.
LineOf(n) ==
  /\ \A i \in 1 .. n : rest[i] \notin LineEnd
  /\ n < Len(rest) => rest[n + 1] \in LineEnd

TakeLine ==
  /\ ~ended /\ line = NULL /\ rest # <<>>
  /\ \E n \in 0 .. Len(rest) :
       /\ LineOf(n)
       /\ rest' = SubSeq(rest, n + 2, Len(rest))
       /\ IF n < LINEBUF THEN line' = SubSeq(rest, 1, n) /\ UNCHANGED ended
          ELSE ended' = TRUE /\ UNCHANGED line
  /\ UNCHANGED done

CarryOut ==
  /\ line # NULL
  /\ done' = done \o Commands(line)
  /\ ended' = Exits(line)
  /\ line' = NULL
  /\ UNCHANGED rest

EndOfScript ==
  /\ ~ended /\ line = NULL /\ rest = <<>>
  /\ ended' = TRUE
  /\ UNCHANGED <<rest, line, done>>

Next == TakeLine \/ CarryOut \/ EndOfScript

Spec == Init /\ [][Next]_vars
=============================================================================
