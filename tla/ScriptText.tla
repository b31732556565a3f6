------------------------------ MODULE ScriptText ------------------------------
(***************************************************************************)
(* run_s.c: how the text of a script becomes commands with arguments.      *)
(* process_bootstrap_script() takes a line off the text with s_readline(), *)
(* which copies it to linebuf, and s_tokenize() cuts that line into words; *)
(* s_cmd_start() collects them in start_argv, the other commands take a    *)
(* fixed number, createport none.  A command ends with the system call it  *)
(* stands for; RunS begins where this ends, with what these calls do.      *)
(*                                                                         *)
(* A pointer to a word is the word's text: nothing reads a word after the  *)
(* next line was copied over it.  A command's name is one letter.          *)
(***************************************************************************)
EXTENDS ScriptWords

CONSTANTS
  LINEBUF,     \* sizeof linebuf
  ARG_SZ,      \* entries of start_argv
  NULL,
  Input        \* the texts of scripts

\* start_argv has an entry for each two characters that linebuf can hold.
ASSUME BufferAssumption ==
  /\ LINEBUF \in Nat \ {0}
  /\ ARG_SZ \in Nat \ {0}
  /\ LINEBUF <= 2 * ARG_SZ
  /\ NULL \notin Text

ASSUME InputAssumption == Input \subseteq Text

VARIABLES
  input,        \* the script that is run
  pc,           \* "readline", "command", "words", "fork", "call", or how it
                \* ended: "end", "exit" or "overrun"
  src,          \* the rest of the script
  linebuf,      \* the line that was read
  ch,           \* s_tokenize(): the rest of the line
  cmd,          \* the command of the line
  start_argv,   \* the words of a start command
  t,            \* s_cmd_start(): the index in start_argv
  args,         \* the words another command has taken
  executed      \* the commands, with their arguments, that came to the system
                \* call they stand for, whatever that returned

lineVars == <<src, linebuf>>
argVars == <<start_argv, t, args>>
vars == <<input, pc, lineVars, ch, cmd, argVars, executed>>

Argv == 0 .. ARG_SZ - 1

Init ==
  /\ input \in Input
  /\ pc = "readline"
  /\ src = input
  /\ linebuf = <<>>
  /\ ch = <<>>
  /\ cmd = <<>>
  /\ start_argv = [i \in Argv |-> NULL]
  /\ t = 0
  /\ args = <<>>
  /\ executed = <<>>

-----------------------------------------------------------------------------
\* Mutant: a line ends at a newline only.
LineEnd_NewlineOnly == {NL}

LineEnd == {CR, NL}

\* Mutant: src stays at the end of the line.
s_readline_Stuck(s) == [line |-> Upto(s, Before(s, LineEnd)),
                        rest |-> After(s, Before(s, LineEnd))]

\* The line, and the text behind the character that ends it.
s_readline(s) == [line |-> Upto(s, Before(s, LineEnd)),
                  rest |-> After(s, Before(s, LineEnd) + 1)]

(* The next word of a line, which ends at a blank, or at a quote if it      *)
(* begins with one; or NULL.                                                *)
Word(s, stop) == [tok |-> Upto(s, Before(s, stop)),
                  rest |-> After(s, Before(s, stop) + 1)]

Unblank(s) == After(s, Before(s, Char \ {BLANK}))

Quoted(s) == Word(Tail(s), {QUOTE})

\* Mutant: at the end of the line there is always one more, empty, word.
NoWord_Empty == [tok |-> <<>>, rest |-> <<>>]

NoWord == [tok |-> NULL, rest |-> <<>>]

s_tokenize(s) ==
  LET word == Unblank(s) IN
  IF word = <<>> THEN NoWord
  ELSE IF Head(word) = QUOTE THEN Quoted(word)
  ELSE Word(word, {BLANK})

-----------------------------------------------------------------------------
(* s_readline() does not look at the size of linebuf: a line that leaves no *)
(* room for its terminator overwrites what lies behind, and nothing is said *)
(* of the program after that.                                               *)
ReadLine ==
  /\ pc = "readline"
  /\ src # <<>>
  /\ LET r == s_readline(src) IN
       /\ linebuf' = r.line
       /\ src' = r.rest
       /\ ch' = r.line
       /\ pc' = IF Len(r.line) < LINEBUF THEN "command" ELSE "overrun"
  /\ UNCHANGED <<input, cmd, argVars, executed>>

EndOfScript ==
  /\ pc = "readline"
  /\ src = <<>>
  /\ pc' = "end"
  /\ UNCHANGED <<input, lineVars, ch, cmd, argVars, executed>>

\* Mutant: a line without a word is not passed over.
Ignored_NotBlank(tok) == tok # NULL /\ (tok = <<>> \/ Head(tok) = HASH)

\* A blank line, an empty first word, a comment.
Ignored(tok) == tok = NULL \/ tok = <<>> \/ Head(tok) = HASH

TakeCommand ==
  /\ pc = "command"
  /\ LET r == s_tokenize(ch) IN
       /\ ch' = r.rest
       /\ IF Ignored(r.tok) THEN pc' = "readline" /\ UNCHANGED cmd
          ELSE /\ cmd' = r.tok
               /\ pc' = IF r.tok \notin Known THEN "readline"
                        ELSE IF r.tok # <<START>> /\ Arity[r.tok[1]] = 0 THEN "call"
                        ELSE "words"
  /\ t' = 0
  /\ args' = <<>>
  /\ UNCHANGED <<input, lineVars, start_argv, executed>>

\* Mutant: the NULL that ends the words is not kept.
StoreWord_NotNull(tok) ==
  start_argv' = IF tok = NULL THEN start_argv ELSE [start_argv EXCEPT ![t] = tok]

StoreWord(tok) == start_argv' = [start_argv EXCEPT ![t] = tok]

\* One turn of the loop of s_cmd_start().
s_cmd_start ==
  /\ pc = "words"
  /\ cmd = <<START>>
  /\ LET r == s_tokenize(ch) IN
       /\ ch' = r.rest
       /\ StoreWord(r.tok)
       /\ t' = t + 1
       /\ pc' = IF r.tok = NULL \/ t + 1 = ARG_SZ THEN "fork" ELSE "words"
  /\ UNCHANGED <<input, lineVars, cmd, args, executed>>

\* What execve() makes of start_argv: the words before the first NULL.
Arguments ==
  LET n == CHOOSE n \in 0 .. ARG_SZ :
             /\ \A i \in 0 .. n - 1 : start_argv[i] # NULL
             /\ n < ARG_SZ => start_argv[n] = NULL
  IN [i \in 1 .. n |-> start_argv[i - 1]]

\* fork() and the child's execve().
Execute ==
  /\ pc = "fork"
  /\ executed' = IF start_argv[0] = NULL THEN executed
                 ELSE Append(executed, <<cmd>> \o Arguments)
  /\ pc' = "readline"
  /\ UNCHANGED <<input, lineVars, ch, cmd, argVars>>

(* A command with a fixed number of arguments takes its next one; without   *)
(* it, it returns, waitfor exits; with the last it comes to its work.       *)
s_cmd_fixed ==
  /\ pc = "words"
  /\ cmd # <<START>>
  /\ LET r == s_tokenize(ch) IN
       /\ ch' = r.rest
       /\ IF r.tok = NULL
          THEN /\ pc' = IF cmd = <<WAITFOR>> THEN "exit" ELSE "readline"
               /\ UNCHANGED args
          ELSE /\ args' = Append(args, r.tok)
               /\ pc' = IF Len(args) + 1 = Arity[cmd[1]] THEN "call" ELSE "words"
  /\ UNCHANGED <<input, lineVars, cmd, start_argv, t, executed>>

\* The system call of a command, but for that of a mknod of no device.
Call ==
  /\ pc = "call"
  /\ cmd # <<WAITFOR>>
  /\ executed' = IF Refused(<<cmd>> \o args) THEN executed
                 ELSE Append(executed, <<cmd>> \o args)
  /\ pc' = "readline"
  /\ UNCHANGED <<input, lineVars, ch, cmd, argVars>>

\* ismount() says that something is mounted on the path that waitfor polls, which
\* may never be.
s_cmd_waitfor ==
  /\ pc = "call"
  /\ cmd = <<WAITFOR>>
  /\ executed' = Append(executed, <<cmd>> \o args)
  /\ pc' = "readline"
  /\ UNCHANGED <<input, lineVars, ch, cmd, argVars>>

Steps ==
  \/ ReadLine
  \/ EndOfScript
  \/ TakeCommand
  \/ s_cmd_start
  \/ Execute
  \/ s_cmd_fixed
  \/ Call

Next == Steps \/ s_cmd_waitfor

Spec == Init /\ [][Next]_vars

\* sysinit runs, and its system calls return; but nobody need mount what waitfor
\* waits for.
FairSpec == Spec /\ WF_vars(Steps)

-----------------------------------------------------------------------------
TypeOK ==
  /\ input \in Text
  /\ pc \in {"readline", "command", "words", "fork", "call", "end", "exit", "overrun"}
  /\ src \in Text /\ linebuf \in Text /\ ch \in Text /\ cmd \in Text
  /\ start_argv \in [Argv -> Text \cup {NULL}]
  /\ t \in 0 .. ARG_SZ
  /\ args \in Seq(Text)
  /\ executed \in Seq(Seq(Text))

\* execve() finds the NULL that ends start_argv: the loop of s_cmd_start() stops
\* at ARG_SZ without writing one, but a line that fits linebuf never has so many
\* words, be they empty or unseparated quotes.
ArgvTerminated == pc = "fork" => \E i \in Argv : start_argv[i] = NULL

Meaning == INSTANCE ScriptMeaning WITH
  LineEnd <- {CR, NL},
  rest <- src,
  line <- IF pc \in {"command", "words", "fork", "call"} THEN linebuf ELSE NULL,
  done <- executed,
  ended <- pc \in {"end", "exit", "overrun"}

\* process_bootstrap_script() implements ScriptMeaning: the lines are carried out
\* in order, each once, as the commands its words say, whatever separates and quotes
\* them, up to the call with these words; only a line that says nothing, or a mknod
\* of no device, is passed over; and no word comes from an earlier line, from
\* start_argv or from s_tokenize()'s ch.
AsWritten == Meaning!Spec

TooLong(s) ==
  \E i \in 1 .. Len(s) - LINEBUF + 1 :
    \A j \in i .. i + LINEBUF - 1 : s[j] \notin {CR, NL}

\* linebuf is overrun by a script that has a line of LINEBUF characters or more,
\* and by no other: s_readline() never joins lines, nor takes one that just fits.
OverrunByLongLines ==
  /\ pc = "overrun" => TooLong(input)
  /\ pc = "end" => ~TooLong(input)

\* Every script ends, exits, overruns linebuf or waits for ever in a waitfor:
\* s_readline() and s_tokenize() always move on.
ScriptEnds ==
  \/ <>(pc \in {"end", "exit", "overrun"})
  \/ <>[](pc = "call" /\ cmd = <<WAITFOR>>)
=============================================================================
