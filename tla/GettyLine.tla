------------------------------ MODULE GettyLine ------------------------------
(***************************************************************************)
(* sessions.c: setupargv() and construct_argv() make the arguments of a    *)
(* getty out of its line in /etc/ttys, one turn of strtok() at a time.     *)
(***************************************************************************)
EXTENDS CString

CONSTANTS
  Char,      \* the characters of a line
  BLANK, TAB,
  NULL,
  Ttyent,    \* records with ty_getty and ty_name
  Faults     \* which calls may fail

ASSUME CharAssumption == {BLANK, TAB} \subseteq Char

ASSUME TtyentAssumption ==
  /\ NULL \notin Seq(Char)
  /\ \A e \in Ttyent : e.ty_getty \in Seq(Char) /\ e.ty_name \in Seq(Char)

ASSUME CallsAssumption ==
  Faults \subseteq {"root", "memory", "setsid", "open", "F_DUPFD", "TIOCSCTTY",
                    "dup2", "exec"}

VARIABLES
  pc,          \* the next call
  typ,         \* the line
  command,     \* se_getty: the text that is cut into words
  save,        \* where strtok() goes on
  argv,        \* se_getty_argv: what was stored, in order
  size         \* the entries it was allocated

argVars == <<typ, command, save, argv, size>>

GettyInit ==
  /\ typ \in Ttyent
  /\ command = <<>>
  /\ save = <<>>
  /\ argv = <<>>
  /\ size = 0

GettyTypeOK ==
  /\ typ.ty_getty \in Seq(Char) /\ typ.ty_name \in Seq(Char)
  /\ command \in Seq(Char)
  /\ save \in Seq(Char)
  /\ argv \in Seq(Seq(Char) \cup {NULL})
  /\ size \in Nat

-----------------------------------------------------------------------------
separators == {BLANK, TAB}

\* The next word and what follows the separator that ends it; or NULL.
strtok(s) ==
  LET word == After(s, Before(s, Char \ separators))
      n == Before(word, separators)
  IN IF word = <<>> THEN [tok |-> NULL, rest |-> <<>>]
     ELSE [tok |-> Upto(word, n), rest |-> After(word, n + 1)]

\* Mutant: room for the words but not for the NULL.
Allocated_NoNull(s) == (Len(s) + 1) \div 2

\* Every word but the last has a separator behind it.
Allocated(s) == (Len(s) + 1) \div 2 + 1

\* A command line that cannot be had leaves the line without a session.
SetupArgv ==
  /\ pc = "setupargv"
  /\ \/ /\ command' = typ.ty_getty \o <<BLANK>> \o typ.ty_name
        /\ save' = command'
        /\ size' = Allocated(command')
        /\ pc' = "construct_argv"
     \/ /\ "memory" \in Faults
        /\ pc' = "freed"
        /\ UNCHANGED <<command, save, size>>
  /\ UNCHANGED <<typ, argv>>

\* Mutant: the first word is left to be found again.
Rest_Unmoved(r) == IF argv = <<>> THEN save ELSE r.rest

Rest(r) == r.rest

construct_argv ==
  /\ pc = "construct_argv"
  /\ LET r == strtok(save) IN
       /\ argv' = Append(argv, r.tok)
       /\ save' = Rest(r)
       /\ pc' = CASE r.tok # NULL -> "construct_argv"
                  [] r.tok = NULL /\ argv = <<>> -> "freed"
                  [] r.tok = NULL /\ argv # <<>> -> "fork"
  /\ UNCHANGED <<typ, command, size>>

-----------------------------------------------------------------------------
(* What the words of a text are, by where they begin. *)

Begins(s) ==
  {b \in 1 .. Len(s) : s[b] \notin separators /\ (b > 1 => s[b - 1] \in separators)}

\* How many words begin in the first n characters.
WordCount(s, n) == Counted(Begins(s), n)

IsWordAt(w, s, b) ==
  LET e == b + Len(w) - 1
  IN /\ w = SubSeq(s, b, e)
     /\ \A i \in b .. e : s[i] \notin separators
     /\ e < Len(s) => s[e + 1] \in separators

\* The words of s, in order, and a NULL.
IsArgvOf(a, s) ==
  /\ Len(a) = WordCount(s, Len(s)) + 1
  /\ \A b \in Begins(s) : IsWordAt(a[WordCount(s, b)], s, b)
  /\ a[Len(a)] = NULL

\* construct_argv() never stores beyond what it allocated, NULL included.
ArgvFits == Len(argv) <= size
=============================================================================
