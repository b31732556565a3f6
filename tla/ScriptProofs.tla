----------------------------- MODULE ScriptProofs -----------------------------
(***************************************************************************)
(* Of every script, and every size of linebuf: the words of a start line   *)
(* fit start_argv with the NULL that ends them, linebuf is overrun by the  *)
(* scripts that have a line too long, and by no other, and the script is   *)
(* carried out line by line, each as the command that its words are:       *)
(* ScriptText implements ScriptMeaning.                                    *)
(***************************************************************************)
EXTENDS ScriptText, CStringProofs

USE DEF Text

-----------------------------------------------------------------------------
(* What the string operators return.                                       *)

LEMMA WordUses ==
  ASSUME NEW s \in Text, NEW stop
  PROVE  /\ Word(s, stop).tok \in Text
         /\ Word(s, stop).rest \in Text
         /\ Word(s, stop).rest # <<>> =>
              Len(Word(s, stop).rest) = Len(s) - Len(Word(s, stop).tok) - 1
<1> DEFINE n == Before(s, stop)
<1>1. n \in 0 .. Len(s) /\ Len(s) \in Nat
  BY BeforeFinds
<1> HIDE DEF n
<1>2. Upto(s, n) \in Text /\ Len(Upto(s, n)) = n
  BY <1>1, UptoType
<1>3. n + 1 \in Nat
  BY <1>1
<1>4. /\ After(s, n + 1) \in Text
      /\ Len(After(s, n + 1)) = IF n + 1 <= Len(s) THEN Len(s) - (n + 1) ELSE 0
  BY <1>3, AfterType
<1>5. After(s, n + 1) # <<>> => Len(After(s, n + 1)) = Len(s) - n - 1
  BY <1>1, <1>4, EmptyString
<1> QED
  BY <1>2, <1>4, <1>5 DEF Word, n

\* A word takes two characters of its line, or the rest of it.
LEMMA TokenUses ==
  ASSUME NEW s \in Text
  PROVE  /\ s_tokenize(s).tok \in Text \cup {NULL}
         /\ s_tokenize(s).rest \in Text
         /\ s = <<>> => s_tokenize(s).tok = NULL
         /\ s_tokenize(s).tok = NULL => s_tokenize(s).rest = <<>>
         /\ s_tokenize(s).tok # NULL /\ s_tokenize(s).rest # <<>> =>
              Len(s_tokenize(s).rest) + 2 <= Len(s)
<1> DEFINE b == Before(s, Char \ {BLANK})
           word == Unblank(s)
           r == s_tokenize(s)
<1>0. b \in 0 .. Len(s) /\ Len(s) \in Nat
  BY BeforeFinds
<1>1. /\ word \in Text
      /\ Len(word) = Len(s) - b
      /\ \A i \in 1 .. Len(s) - b : word[i] = s[b + i]
  <2> HIDE DEF b
  <2>1. b \in Nat /\ b <= Len(s)
    BY <1>0
  <2> QED
    BY <2>1, AfterType DEF Unblank, b
<1>2. Len(word) \in Nat /\ Len(word) <= Len(s)
  <2> HIDE DEF b, word
  <2> QED
    BY <1>0, <1>1
<1> HIDE DEF b, word, r
<1>3. CASE word = <<>>
  <2>1. r = [tok |-> NULL, rest |-> <<>>]
    BY <1>3 DEF s_tokenize, NoWord, word, r
  <2>2. <<>> \in Text
    BY EmptySeq
  <2> QED
    BY <2>1, <2>2 DEF r
<1>4. CASE word # <<>> /\ Head(word) = QUOTE
  <2>1. /\ Tail(word) \in Text
        /\ Len(Tail(word)) = Len(word) - 1
    BY <1>1, <1>4, HeadTailProperties
  <2>2. r = Word(Tail(word), {QUOTE})
    BY <1>4 DEF s_tokenize, Quoted, word, r
  <2>3. /\ r.tok \in Text /\ r.rest \in Text
        /\ r.rest # <<>> => Len(r.rest) = Len(Tail(word)) - Len(r.tok) - 1
    BY <2>1, <2>2, WordUses
  <2>4. s # <<>>
    BY <1>1, <1>2, <1>4, EmptyString, <1>0
  <2>5. Len(r.tok) \in Nat /\ Len(r.rest) \in Nat
    BY <2>3
  <2>6. r.rest # <<>> => Len(r.rest) + 2 <= Len(s)
    <3> DEFINE W == Len(Tail(word))
               k == Len(r.tok)
               n == Len(r.rest)
    <3>1. k \in Nat /\ n \in Nat /\ W \in Nat
      BY <2>1, <2>5
    <3>2. r.rest # <<>> => n = W - k - 1
      BY <2>3
    <3>3. W = Len(word) - 1
      BY <2>1
    <3> HIDE DEF W, k, n
    <3>4. W < Len(s) /\ W <= Len(s) /\ Len(s) \in Nat
      BY <1>0, <1>2, <3>1, <3>3
    <3> QED
      BY <3>1, <3>2, <3>4, Fewer DEF n
  <2> QED
    BY <2>3, <2>4, <2>6, BufferAssumption DEF r
<1>5. CASE word # <<>> /\ Head(word) # QUOTE
  <2>1. r = Word(word, {BLANK})
    BY <1>5 DEF s_tokenize, word, r
  <2>2. /\ r.tok \in Text /\ r.rest \in Text
        /\ r.rest # <<>> => Len(r.rest) = Len(word) - Len(r.tok) - 1
    BY <1>1, <2>1, WordUses
  <2>3. s # <<>> /\ Len(word) > 0
    BY <1>0, <1>1, <1>2, <1>5, EmptyString
  <2>4. b < Len(s) /\ s[b + 1] # BLANK
    <3>1. b < Len(s)
      BY <1>0, <1>1, <2>3
    <3> QED
      BY <3>1, BeforeFinds DEF b
  <2>5. word[1] # BLANK
    BY <1>0, <1>1, <2>4
  <2>6. r.tok # <<>>
    <3> DEFINE n == Before(word, {BLANK})
    <3>1. /\ n \in 0 .. Len(word)
          /\ n < Len(word) => word[n + 1] \in {BLANK}
      BY <1>1, BeforeFinds
    <3>2. n # 0
      BY <2>3, <2>5, <3>1
    <3>3. Len(Upto(word, n)) = n
      BY <1>1, <3>1, UptoType
    <3>4. r.tok = Upto(word, n)
      BY <2>1 DEF Word
    <3> HIDE DEF n
    <3> QED
      BY <2>2, <3>2, <3>3, <3>4, EmptyString
  <2>7. Len(r.tok) \in Nat \ {0} /\ Len(r.rest) \in Nat
    BY <2>2, <2>6, EmptyString
  <2>8. r.rest # <<>> => Len(r.rest) + 2 <= Len(s)
    <3> DEFINE W == Len(word)
               k == Len(r.tok)
               n == Len(r.rest)
    <3>1. k \in Nat /\ k > 0 /\ n \in Nat /\ W \in Nat
      BY <1>2, <2>7
    <3>2. r.rest # <<>> => n = W - k - 1
      BY <2>2
    <3> HIDE DEF W, k, n
    <3>3. W <= Len(s) /\ Len(s) \in Nat
      BY <1>0, <1>2 DEF W
    <3> QED
      BY <3>1, <3>2, <3>3, Fewer DEF n
  <2> QED
    BY <2>2, <2>3, <2>8, BufferAssumption DEF r
<1> QED
  BY <1>3, <1>4, <1>5

LEMMA LineType ==
  ASSUME NEW s \in Text
  PROVE  /\ s_readline(s).line \in Text
         /\ Len(s_readline(s).line) = Before(s, LineEnd)
         /\ s_readline(s).rest = After(s, Before(s, LineEnd) + 1)
         /\ s_readline(s).rest \in Text
<1>1. Before(s, LineEnd) \in 0 .. Len(s) /\ Len(s) \in Nat
  BY BeforeFinds
<1>2. Before(s, LineEnd) + 1 \in Nat
  BY <1>1
<1> QED
  BY <1>1, <1>2, UptoType, AfterType DEF s_readline

LEMMA ArgumentsType ==
  ASSUME start_argv \in [Argv -> Text \cup {NULL}]
  PROVE  Arguments \in Seq(Text) /\ (Arguments = <<>> <=> start_argv[0] = NULL)
<1> DEFINE P(n) == /\ \A i \in 0 .. n - 1 : start_argv[i] # NULL
                   /\ n < ARG_SZ => start_argv[n] = NULL
           S == {n \in 0 .. ARG_SZ : n < ARG_SZ => start_argv[n] = NULL}
<1>1. S \in SUBSET Nat /\ S # {}
  <2>1. ARG_SZ \in Nat /\ ~(ARG_SZ < ARG_SZ)
    BY BufferAssumption
  <2>2. ARG_SZ \in S
    BY <2>1
  <2>3. 0 .. ARG_SZ \subseteq Nat
    BY <2>1
  <2>4. \A n \in S : n \in 0 .. ARG_SZ
    OBVIOUS
  <2> HIDE DEF S
  <2> QED
    BY <2>2, <2>3, <2>4
<1>2. PICK n \in S : \A m \in S : n <= m
  BY <1>1, LeastNumber
<1>3. ASSUME NEW i \in 0 .. n - 1 PROVE start_argv[i] # NULL
  <2>1. i \in 0 .. ARG_SZ /\ i < n /\ i < ARG_SZ
    BY <1>2, BufferAssumption
  <2>2. i \notin S
    BY <1>1, <1>2, <2>1
  <2> QED
    BY <2>1, <2>2
<1>4. n \in 0 .. ARG_SZ /\ P(n)
  BY <1>2, <1>3
<1> DEFINE c == CHOOSE m \in 0 .. ARG_SZ : P(m)
<1>5. c \in 0 .. ARG_SZ /\ P(c)
  BY <1>4
<1>6. Arguments = [i \in 1 .. c |-> start_argv[i - 1]]
  BY DEF Arguments
<1> HIDE DEF c
<1>7. ASSUME NEW i \in 1 .. c PROVE start_argv[i - 1] \in Text
  <2>1. i - 1 \in 0 .. c - 1 /\ i - 1 \in Argv
    BY <1>5, BufferAssumption DEF Argv
  <2> QED
    BY <1>5, <2>1
<1>8. c \in Nat
  BY <1>5, BufferAssumption
<1>9. Arguments \in Seq(Text) /\ Len(Arguments) = c
  BY <1>6, <1>7, <1>8, IsASeq
<1>10. c = 0 <=> start_argv[0] = NULL
  <2>1. c > 0 => 0 \in 0 .. c - 1
    BY <1>8
  <2> QED
    BY <1>5, <1>8, <2>1, BufferAssumption
<1> QED
  BY <1>9, <1>10, EmptySeq

-----------------------------------------------------------------------------
(* The words of a line fit start_argv.                                     *)

(* Each word that was taken, and the command is the first, has used two     *)
(* characters of the line, save that the last may have used but one.        *)
RoomInv ==
  /\ pc \in {"command", "words"} => Len(linebuf) < LINEBUF
  /\ pc = "command" => ch = linebuf
  /\ pc = "words" /\ cmd = <<START>> =>
       /\ 2 * (t + 1) <= Len(linebuf) + 1
       /\ ch # <<>> => 2 * (t + 1) + Len(ch) <= Len(linebuf)

WordsInv == TypeOK /\ RoomInv /\ ArgvTerminated

LEMMA WordsInit == Init => WordsInv
<1> SUFFICES ASSUME Init PROVE WordsInv
  OBVIOUS
<1>1. <<>> \in Text /\ input \in Text
  BY EmptySeq, InputAssumption DEF Init
<1> QED
  BY <1>1, BufferAssumption
     DEF Init, WordsInv, TypeOK, RoomInv, ArgvTerminated

LEMMA WordsNext == WordsInv /\ [Next]_vars => WordsInv'
<1> SUFFICES ASSUME WordsInv, [Next]_vars PROVE WordsInv'
  OBVIOUS
<1> USE DEF WordsInv
<1>0. <<>> \in Text /\ Len(linebuf) \in Nat /\ Len(ch) \in Nat
  BY EmptySeq DEF TypeOK
<1>1. CASE ReadLine
  <2>1. /\ s_readline(src).line \in Text
        /\ s_readline(src).rest \in Text
    BY LineType DEF TypeOK
  <2> QED
    BY <1>1, <2>1
       DEF ReadLine, argVars, TypeOK, RoomInv, ArgvTerminated
<1>2. CASE EndOfScript
  BY <1>2 DEF EndOfScript, lineVars, argVars, TypeOK, RoomInv, ArgvTerminated
<1>3. CASE TakeCommand
  <2> DEFINE r == s_tokenize(ch)
  <2>1. /\ r.tok \in Text \cup {NULL} /\ r.rest \in Text
        /\ ch = <<>> => r.tok = NULL
        /\ r.tok # NULL /\ r.rest # <<>> => Len(r.rest) + 2 <= Len(ch)
    BY TokenUses DEF TypeOK
  <2> HIDE DEF r
  <2>2. /\ pc = "command" /\ ch' = r.rest /\ t' = 0 /\ args' = <<>>
        /\ UNCHANGED <<input, src, linebuf, start_argv, executed>>
        /\ IF Ignored(r.tok) THEN pc' = "readline" /\ UNCHANGED cmd
           ELSE cmd' = r.tok /\ pc' \in {"words", "call", "readline"}
    BY <1>3 DEF TakeCommand, lineVars, r
  <2>3. TypeOK'
    <3>1. r.tok # NULL => cmd' \in Text
      BY <2>1, <2>2 DEF TypeOK
    <3>2. r.tok = NULL => cmd' \in Text
      BY <2>2 DEF TypeOK, Ignored
    <3>3. t' \in 0 .. ARG_SZ /\ args' \in Seq(Text)
      BY <2>2, EmptySeq, BufferAssumption
    <3> QED
      BY <2>1, <2>2, <3>1, <3>2, <3>3 DEF TypeOK
  <2>4. RoomInv'
    <3> SUFFICES ASSUME pc' = "words"
                 PROVE  RoomInv'
      BY <2>2 DEF RoomInv
    <3>1. r.tok # NULL /\ ch = linebuf /\ Len(linebuf) < LINEBUF
      BY <2>2 DEF Ignored, RoomInv
    <3>2. Len(linebuf) > 0
      BY <1>0, <2>1, <3>1, EmptyString DEF TypeOK
    <3>3. Len(r.rest) \in Nat
      BY <2>1
    <3>4. t' = 0 /\ linebuf' = linebuf /\ ch' = r.rest
      BY <2>2
    <3>5. r.rest # <<>> => Len(r.rest) + 2 <= Len(linebuf)
      BY <2>1, <3>1
    <3>6. 2 * (0 + 1) <= Len(linebuf) + 1
      BY <1>0, <3>2
    <3> QED
      BY <1>0, <3>1, <3>3, <3>4, <3>5, <3>6 DEF RoomInv
  <2> QED
    BY <2>2, <2>3, <2>4 DEF ArgvTerminated
<1>4. CASE s_cmd_start
  <2> DEFINE r == s_tokenize(ch)
  <2>1. /\ r.tok \in Text \cup {NULL} /\ r.rest \in Text
        /\ ch = <<>> => r.tok = NULL
        /\ r.tok # NULL /\ r.rest # <<>> => Len(r.rest) + 2 <= Len(ch)
    BY TokenUses DEF TypeOK
  <2> HIDE DEF r
  <2>2. /\ pc = "words" /\ cmd = <<START>> /\ ch' = r.rest /\ t' = t + 1
        /\ start_argv' = [start_argv EXCEPT ![t] = r.tok]
        /\ pc' = IF r.tok = NULL \/ t + 1 = ARG_SZ THEN "fork" ELSE "words"
        /\ UNCHANGED <<input, src, linebuf, cmd, args, executed>>
    BY <1>4 DEF s_cmd_start, StoreWord, lineVars, r
  <2>3. /\ 2 * (t + 1) <= Len(linebuf) + 1 /\ Len(linebuf) < LINEBUF
        /\ ch # <<>> => 2 * (t + 1) + Len(ch) <= Len(linebuf)
        /\ t \in Nat
    BY <2>2, BufferAssumption DEF RoomInv, TypeOK
  <2>4. t \in Argv /\ t + 1 \in 0 .. ARG_SZ
    BY <1>0, <2>3, BufferAssumption DEF Argv
  <2>5. TypeOK'
    <3>1. start_argv' \in [Argv -> Text \cup {NULL}]
      BY <2>1, <2>2, <2>4 DEF TypeOK
    <3> QED
      BY <2>1, <2>2, <2>4, <3>1 DEF TypeOK
  <2>6. CASE r.tok = NULL
    <3>1. pc' = "fork" /\ start_argv'[t] = NULL
      BY <2>2, <2>4, <2>6 DEF TypeOK
    <3> QED
      BY <2>4, <2>5, <3>1 DEF RoomInv, ArgvTerminated
  <2>7. CASE r.tok # NULL
    <3>1. ch # <<>> /\ Len(r.rest) \in Nat
      BY <2>1, <2>7
    <3>2. Len(ch) > 0
      BY <1>0, <3>1, EmptyString DEF TypeOK
    <3>3. 2 * (t + 1) + Len(ch) <= Len(linebuf)
      BY <2>3, <3>1
    <3>4. 2 * (t + 1 + 1) <= Len(linebuf) + 1
      BY <1>0, <2>3, <3>2, <3>3
    <3>5. r.rest # <<>> => 2 * (t + 1 + 1) + Len(r.rest) <= Len(linebuf)
      <4> DEFINE n == Len(r.rest)
                 c == Len(ch)
                 l == Len(linebuf)
      <4>1. n \in Nat /\ c \in Nat /\ l \in Nat /\ 2 * (t + 1) + c <= l
        BY <1>0, <3>1, <3>3
      <4>2. r.rest # <<>> => n + 2 <= c
        BY <2>1, <2>7
      <4> HIDE DEF n, c, l
      <4>3. n + 2 <= c => 2 * (t + 1 + 1) + n <= l
        BY <2>3, <4>1
      <4> QED
        BY <4>2, <4>3 DEF n, l
    <3>6. t + 1 # ARG_SZ
      BY <1>0, <2>3, <3>4, BufferAssumption
    <3>7. pc' = "words"
      BY <2>2, <2>7, <3>6
    <3> QED
      BY <2>2, <2>3, <2>5, <3>4, <3>5, <3>7 DEF RoomInv, ArgvTerminated
  <2> QED
    BY <2>6, <2>7
<1>5. CASE Execute
  <2>1. executed' \in Seq(Seq(Text))
    <3>1. Arguments \in Seq(Text)
      BY ArgumentsType DEF TypeOK
    <3>2. <<cmd>> \o Arguments \in Seq(Text)
      BY <3>1 DEF TypeOK
    <3> QED
      BY <1>5, <3>2 DEF Execute, TypeOK
  <2> QED
    BY <1>5, <2>1
       DEF Execute, lineVars, argVars, TypeOK, RoomInv, ArgvTerminated
<1>6. CASE s_cmd_fixed
  <2> DEFINE r == s_tokenize(ch)
  <2>1. r.tok \in Text \cup {NULL} /\ r.rest \in Text
    BY TokenUses DEF TypeOK
  <2> HIDE DEF r
  <2>2. /\ pc = "words" /\ cmd # <<START>> /\ ch' = r.rest
        /\ UNCHANGED <<input, src, linebuf, cmd, start_argv, t, executed>>
        /\ pc' \in {"readline", "exit", "words", "call"}
        /\ r.tok = NULL => UNCHANGED args
        /\ r.tok # NULL => args' = Append(args, r.tok)
    BY <1>6 DEF s_cmd_fixed, lineVars, r
  <2>3. args' \in Seq(Text)
    <3>1. args \in Seq(Text)
      BY DEF TypeOK
    <3>2. CASE r.tok = NULL
      BY <2>2, <3>1, <3>2
    <3>3. CASE r.tok # NULL
      <4>1. r.tok \in Text
        BY <2>1, <3>3
      <4>2. Append(args, r.tok) \in Seq(Text)
        BY <3>1, <4>1, AppendType
      <4> QED
        BY <2>2, <3>3, <4>2
    <3> QED
      BY <3>2, <3>3
  <2> QED
    BY <2>1, <2>2, <2>3 DEF TypeOK, RoomInv, ArgvTerminated
<1>7. CASE Call \/ s_cmd_waitfor
  <2>1. /\ pc' = "readline"
        /\ UNCHANGED <<input, src, linebuf, ch, cmd, start_argv, t, args>>
        /\ executed' = executed \/ executed' = Append(executed, <<cmd>> \o args)
    BY <1>7 DEF Call, s_cmd_waitfor, lineVars, argVars
  <2>2. executed \in Seq(Seq(Text)) /\ <<cmd>> \o args \in Seq(Text)
    BY DEF TypeOK
  <2>3. executed' \in Seq(Seq(Text))
    BY <2>1, <2>2, AppendType
  <2> QED
    BY <2>1, <2>3 DEF TypeOK, RoomInv, ArgvTerminated
<1>8. CASE UNCHANGED vars
  BY <1>8 DEF vars, lineVars, argVars, TypeOK, RoomInv, ArgvTerminated
<1> QED
  BY <1>1, <1>2, <1>3, <1>4, <1>5, <1>6, <1>7, <1>8 DEF Next, Steps

LEMMA WordsAlways == Spec => []WordsInv
<1>1. Init => WordsInv
  BY WordsInit
<1>2. WordsInv /\ [Next]_vars => WordsInv'
  BY WordsNext
<1> QED
  BY <1>1, <1>2, PTL DEF Spec

\* Every variable of the interpreter keeps its type: no command is carried out
\* with NULL for an argument.
THEOREM ScriptTypeCorrect == Spec => []TypeOK
<1>1. WordsInv => TypeOK
  BY DEF WordsInv
<1> QED
  BY <1>1, WordsAlways, PTL

\* Whatever the scripts and the sizes of linebuf and start_argv, if there is an
\* entry for each two characters: execve() is given a start_argv that a NULL ends.
THEOREM StartArgvFits == Spec => []ArgvTerminated
<1>1. WordsInv => ArgvTerminated
  BY DEF WordsInv
<1> QED
  BY <1>1, WordsAlways, PTL

-----------------------------------------------------------------------------
(* The words of a command.                                                 *)

\* Where the stop of the word w is, which begins at f, or would be.
Ends(w, s, f) == f + Len(w) + (IF s[f] = QUOTE THEN 1 ELSE 0)

IsWordAt(w, s, f) ==
  LET e == Ends(w, s, f)
  IN /\ s[f] # BLANK
     /\ e <= Len(s) + 1
     /\ w = SubSeq(s, e - Len(w), e - 1)
     /\ \A i \in e - Len(w) .. e - 1 : s[i] # Stop(s, f)
     /\ e <= Len(s) => s[e] = Stop(s, f)

\* The words ws begin at F and leave nothing but blanks of the first k characters.
IsCut(ws, s, k, F) ==
  LET word(f) == ws[Counted(F, f)]
  IN /\ Len(ws) = Cardinality(F)
     /\ \A f \in F : IsWordAt(word(f), s, f)
     /\ \A f, g \in F : f < g => Ends(word(f), s, f) < g
     /\ \A i \in 1 .. k :
          s[i] = BLANK \/ \E f \in F : f <= i /\ i <= Ends(word(f), s, f)

\* The word that begins at f, and s_tokenize()'s ch at e behind it.
Found(r, s, f, e) ==
  /\ IsWordAt(r.tok, s, f)
  /\ \/ Ends(r.tok, s, f) = e
     \/ Ends(r.tok, s, f) = e + 1 /\ e = Len(s)
  /\ r.rest = After(s, e)

\* The n characters behind the first q, up to stop.
Piece(r, s, q, stop, n) ==
  /\ q + n <= Len(s)
  /\ \A i \in q + 1 .. q + n : s[i] # stop
  /\ q + n < Len(s) => s[q + n + 1] = stop
  /\ r.tok \in Text /\ Len(r.tok) = n
  /\ r.tok = SubSeq(s, q + 1, q + n)
  /\ r.rest = After(s, IF q + n + 1 <= Len(s) THEN q + n + 1 ELSE Len(s))

LEMMA WordPiece ==
  ASSUME NEW s \in Text, NEW q \in 0 .. Len(s), NEW stop
  PROVE  \E n \in Nat : Piece(Word(After(s, q), {stop}), s, q, stop, n)
<1> DEFINE v == After(s, q)
           S == {stop}
           n == Before(v, S)
           r == Word(v, S)
<1>1. r.tok = Upto(v, n) /\ r.rest = After(v, n + 1)
  BY DEF Word
<1>2. v = After(s, q) /\ n = Before(v, S) /\ \A c : c \in S <=> c = stop
  OBVIOUS
<1> HIDE DEF v, n, S, r
<1>3. /\ n \in Nat /\ q + n <= Len(s)
      /\ \A i \in q + 1 .. q + n : s[i] \notin S
      /\ q + n < Len(s) => s[q + n + 1] \in S
      /\ Upto(v, n) \in Text /\ Len(Upto(v, n)) = n
      /\ Upto(v, n) = SubSeq(s, q + 1, q + n)
      /\ After(v, n + 1)
           = After(s, IF q + n + 1 <= Len(s) THEN q + n + 1 ELSE Len(s))
  BY <1>2, PieceAt
<1> QED
  BY <1>1, <1>2, <1>3 DEF r, v, S, Piece

LEMMA WordFinds ==
  ASSUME NEW s \in Text, NEW f \in 1 .. Len(s), s[f] # BLANK,
         NEW q, q = IF s[f] = QUOTE THEN f ELSE f - 1,
         NEW r, r = Word(After(s, q), {Stop(s, f)})
  PROVE  r.tok \in Text /\ \E e \in f .. Len(s) : Found(r, s, f, e)
<1> DEFINE L == Len(s)
           stop == Stop(s, f)
<1>1. L \in Nat /\ f \in 1 .. L /\ q \in 0 .. L /\ q \in Nat /\ (q = f \/ q = f - 1)
  <2>1. Len(s) \in Nat
    OBVIOUS
  <2> QED
    BY <2>1
<1>2. PICK n \in Nat : Piece(r, s, q, stop, n)
  <2>1. r = Word(After(s, q), {stop}) /\ q \in 0 .. Len(s)
    BY <1>1
  <2> HIDE DEF stop, L
  <2> QED
    BY <2>1, WordPiece
<1> DEFINE e == IF q + n + 1 <= L THEN q + n + 1 ELSE L
<1>3. L = Len(s) /\ r.rest = After(s, e)
  BY <1>2 DEF Piece
<1>4. q + n <= L /\ n \in Nat
  BY <1>2 DEF Piece
<1>5. /\ \A i \in q + 1 .. q + n : s[i] # stop
      /\ q + n < L => s[q + n + 1] = stop
  BY <1>2 DEF Piece
<1>6. r.tok \in Text /\ Len(r.tok) = n /\ r.tok = SubSeq(s, q + 1, q + n)
  BY <1>2 DEF Piece
<1> HIDE DEF stop, L, e
<1>7. Ends(r.tok, s, f) = q + n + 1
  <2>1. s[f] = QUOTE => f + n + 1 = q + n + 1
    BY <1>1, <1>4
  <2>2. s[f] # QUOTE => f + n + 0 = q + n + 1
    BY <1>1, <1>4
  <2> QED
    BY <1>6, <2>1, <2>2 DEF Ends
<1>8. IsWordAt(r.tok, s, f)
  <2>1. /\ q + n + 1 <= L + 1 /\ q + n + 1 - n = q + 1 /\ q + n + 1 - 1 = q + n
        /\ (q + n + 1 <= L => q + n < L)
    BY <1>1, <1>4
  <2> DEFINE x == q + n + 1
  <2>2. x - n = q + 1 /\ x - 1 = q + n /\ x <= L + 1
    BY <1>1, <1>4, <2>1
  <2>4. x <= L => s[x] = stop
    BY <1>5, <2>1
  <2>3. Ends(r.tok, s, f) = x
    BY <1>7
  <2> HIDE DEF x
  <2> QED
    BY <1>3, <1>5, <1>6, <2>2, <2>3, <2>4 DEF IsWordAt, stop
<1>9. e \in f .. L
  <2>1. CASE s[f] = QUOTE
    BY <1>1, <1>4, <2>1 DEF e
  <2>2. CASE s[f] # QUOTE
    <3>1. q = f - 1 /\ s[f] # stop
      BY <1>1, <2>2 DEF stop, Stop
    <3>2. n # 0
      <4>1. n = 0 => q + n < L /\ q + n + 1 = f
        BY <1>1, <3>1
      <4> QED
        BY <1>5, <3>1, <4>1
    <3> QED
      BY <1>1, <1>4, <3>1, <3>2 DEF e
  <2> QED
    BY <2>1, <2>2
<1>10. q + n + 1 = e \/ (q + n + 1 = e + 1 /\ e = L)
  BY <1>1, <1>4 DEF e
<1>11. Found(r, s, f, e)
  BY <1>3, <1>7, <1>8, <1>10 DEF Found
<1> QED
  BY <1>6, <1>9, <1>11 DEF L

\* s_tokenize() passes over nothing but blanks, and takes the word behind them.
LEMMA TokenFinds ==
  ASSUME NEW s \in Text, NEW k \in 0 .. Len(s), NEW r, r = s_tokenize(After(s, k))
  PROVE  \/ /\ r.tok = NULL
            /\ \A i \in k + 1 .. Len(s) : s[i] = BLANK
         \/ /\ r.tok \in Text
            /\ \E f \in k + 1 .. Len(s) :
                 /\ \A i \in k + 1 .. f - 1 : s[i] = BLANK
                 /\ \E e \in f .. Len(s) : Found(r, s, f, e)
<1> DEFINE L == Len(s)
           u == After(s, k)
           m == Before(u, Char \ {BLANK})
           word == After(u, m)
           p == k + m
           f == p + 1
<1>1. /\ L \in Nat /\ k \in 0 .. L /\ k \in Nat
      /\ \A i \in 1 .. L : s[i] \in Char
  BY LenProperties
<1>2. r = IF word = <<>> THEN [tok |-> NULL, rest |-> <<>>]
          ELSE IF Head(word) = QUOTE THEN Word(Tail(word), {QUOTE})
          ELSE Word(word, {BLANK})
  BY DEF s_tokenize, Unblank, NoWord, Quoted
<1>3. /\ m \in Nat /\ k + m <= L
      /\ \A i \in k + 1 .. k + m : s[i] \notin Char \ {BLANK}
      /\ k + m < L => s[k + m + 1] \in Char \ {BLANK}
      /\ word = After(s, k + m)
  <2> HIDE DEF u
  <2>1. u = After(s, k)
    BY DEF u
  <2> QED
    BY <1>1, <2>1, PieceAt
<1> HIDE DEF m, u, word
<1>4. /\ p \in Nat /\ k <= p /\ p <= L /\ p \in 0 .. L
      /\ \A i \in k + 1 .. p : s[i] = BLANK
      /\ p < L => s[p + 1] # BLANK
  BY <1>1, <1>3
<1>5. /\ word = After(s, p) /\ word \in Text /\ Len(word) = L - p
      /\ \A i \in 1 .. L - p : word[i] = s[p + i]
  BY <1>1, <1>3, <1>4, AfterType
<1> HIDE DEF p
<1>6. CASE p = L
  <2>1. word = <<>>
    BY <1>1, <1>5, <1>6, EmptyString
  <2> QED
    BY <1>2, <1>4, <1>6, <2>1
<1>7. CASE p # L
  <2>1. p < L /\ f \in 1 .. L /\ f \in k + 1 .. L /\ f - 1 = p
    BY <1>1, <1>4, <1>7
  <2>2. word # <<>> /\ Head(word) = s[f]
    <3>1. 1 \in 1 .. L - p /\ Len(word) > 0
      BY <1>1, <1>4, <1>5, <2>1
    <3>2. word[1] = s[f]
      BY <1>5, <3>1
    <3> QED
      BY <1>5, <3>1, <3>2, EmptyString
  <2>3. s[f] # BLANK
    BY <1>4, <2>1
  <2>4. r.tok \in Text /\ \E e \in f .. L : Found(r, s, f, e)
    <3>1. CASE s[f] = QUOTE
      <4>1. Tail(word) = After(s, f)
        <5>1. Tail(word) = After(word, 1)
          BY <1>5, <2>2, TailAfter
        <5>2. p + 1 <= L
          BY <1>1, <2>1
        <5> QED
          BY <1>4, <1>5, <5>1, <5>2, AfterAfter
      <4>2. r = Word(After(s, f), {Stop(s, f)})
        BY <1>2, <2>2, <3>1, <4>1 DEF Stop
      <4> QED
        BY <2>1, <2>3, <3>1, <4>2, WordFinds
    <3>2. CASE s[f] # QUOTE
      <4>1. r = Word(After(s, f - 1), {Stop(s, f)})
        BY <1>2, <1>5, <2>1, <2>2, <3>2 DEF Stop
      <4> QED
        BY <2>1, <2>3, <3>2, <4>1, WordFinds
    <3> QED
      BY <3>1, <3>2
  <2>5. \A i \in k + 1 .. f - 1 : s[i] = BLANK
    BY <1>4, <2>1
  <2> HIDE DEF f
  <2> QED
    BY <2>1, <2>4, <2>5
<1> QED
  BY <1>6, <1>7
\* The words that are taken when s_tokenize()'s ch is behind the first k characters.
CutUpto(ws, s, k) ==
  /\ k \in 0 .. Len(s)
  /\ \E F \in SUBSET (1 .. k) :
       /\ IsCut(ws, s, k, F)
       /\ \A f \in F : Ends(ws[Counted(F, f)], s, f) <= k \/ k = Len(s)

LEMMA EndsType ==
  ASSUME NEW w \in Text, NEW s, NEW f \in Nat
  PROVE  Ends(w, s, f) \in Nat
<1>1. Len(w) \in Nat
  OBVIOUS
<1>2. f + Len(w) + 1 \in Nat /\ f + Len(w) + 0 \in Nat
  BY <1>1
<1>3. CASE s[f] = QUOTE
  BY <1>2, <1>3 DEF Ends
<1>4. CASE s[f] # QUOTE
  BY <1>2, <1>4 DEF Ends
<1> QED
  BY <1>3, <1>4

LEMMA NoCut ==
  ASSUME NEW s \in Text
  PROVE  CutUpto(<<>>, s, 0)
<1>1. 0 \in 0 .. Len(s) /\ Len(s) \in Nat
  OBVIOUS
<1>2. Cardinality({}) = 0
  BY FS_EmptySet
<1>3. IsCut(<<>>, s, 0, {})
  BY <1>2 DEF IsCut
<1> QED
  BY <1>1, <1>3 DEF CutUpto

LEMMA CutEnds ==
  ASSUME NEW s \in Text, NEW ws, NEW k, CutUpto(ws, s, k),
         \A i \in k + 1 .. Len(s) : s[i] = BLANK
  PROVE  CutUpto(ws, s, Len(s))
<1>1. Len(s) \in Nat /\ k \in Nat /\ k <= Len(s)
  BY DEF CutUpto
<1>2. PICK F \in SUBSET (1 .. k) :
        /\ IsCut(ws, s, k, F)
        /\ \A f \in F : Ends(ws[Counted(F, f)], s, f) <= k \/ k = Len(s)
  BY DEF CutUpto
<1>3. F \in SUBSET (1 .. Len(s)) /\ Len(s) \in 0 .. Len(s)
  BY <1>1
<1>4. ASSUME NEW i \in 1 .. Len(s)
      PROVE  i \in 1 .. k \/ s[i] = BLANK
  BY <1>1
<1>5. IsCut(ws, s, Len(s), F)
  BY <1>2, <1>4 DEF IsCut
<1> QED
  BY <1>3, <1>5 DEF CutUpto

\* One more word.
LEMMA CutMore ==
  ASSUME NEW s \in Text, NEW ws \in Seq(Text), NEW k, CutUpto(ws, s, k),
         NEW r, r.tok \in Text,
         NEW f \in k + 1 .. Len(s), \A i \in k + 1 .. f - 1 : s[i] = BLANK,
         NEW e \in f .. Len(s), Found(r, s, f, e)
  PROVE  CutUpto(Append(ws, r.tok), s, e)
<1> DEFINE us == Append(ws, r.tok)
<1>1. /\ Len(s) \in Nat /\ k \in Nat /\ k <= Len(s) /\ e \in Nat /\ f \in Nat
      /\ k < f /\ f <= e /\ e <= Len(s) /\ e \in 0 .. Len(s) /\ k # Len(s)
  BY DEF CutUpto
<1>2. PICK F \in SUBSET (1 .. k) :
        /\ IsCut(ws, s, k, F)
        /\ \A g \in F : Ends(ws[Counted(F, g)], s, g) <= k \/ k = Len(s)
  BY DEF CutUpto
<1> DEFINE G == F \cup {f}
<1>3. /\ F \in SUBSET Nat /\ IsFiniteSet(F) /\ f \notin F
      /\ \A g \in F : g <= k /\ g < f
  <2>1. 1 \in Int /\ k \in Int
    BY <1>1
  <2>2. IsFiniteSet(1 .. k)
    BY <2>1, FS_Interval
  <2>3. IsFiniteSet(F)
    BY <2>2, FS_Subset
  <2>4. \A g \in F : g \in Nat /\ g <= k /\ g < f
    BY <1>1
  <2> QED
    BY <1>1, <2>3, <2>4
<1>4. IsFiniteSet(G) /\ Cardinality(G) = Cardinality(F) + 1
  BY <1>3, FS_AddElement
<1>5. Len(ws) = Cardinality(F) /\ Len(ws) \in Nat
  BY <1>2 DEF IsCut
<1>6. \A g \in F : Counted(G, g) = Counted(F, g) /\ Counted(F, g) \in 1 .. Len(ws)
  <2> SUFFICES ASSUME NEW g \in F
               PROVE  Counted(G, g) = Counted(F, g) /\ Counted(F, g) \in 1 .. Len(ws)
    OBVIOUS
  <2>1. {h \in G : h <= g} = {h \in F : h <= g}
    BY <1>1, <1>3
  <2>2. {h \in F : h <= k} = F
    BY <1>3
  <2>3. Counted(F, k) = Len(ws)
    BY <1>5, <2>2 DEF Counted
  <2>4. Counted(F, g) \in 1 .. Counted(F, k)
    BY <1>1, <1>3, CountedNumber
  <2> QED
    BY <2>1, <2>3, <2>4 DEF Counted
<1>7. Counted(G, f) = Len(ws) + 1
  <2>1. {h \in G : h <= f} = G
    <3>1. \A h \in G : h <= f
      BY <1>1, <1>3
    <3> HIDE DEF G
    <3> QED
      BY <3>1
  <2> QED
    BY <1>4, <1>5, <2>1 DEF Counted
<1>8. /\ Len(us) = Len(ws) + 1 /\ us[Len(ws) + 1] = r.tok
      /\ \A i \in 1 .. Len(ws) : us[i] = ws[i]
  OBVIOUS
<1> HIDE DEF us, G
<1>9. /\ \A g \in F : us[Counted(G, g)] = ws[Counted(F, g)]
      /\ us[Counted(G, f)] = r.tok
  BY <1>6, <1>7, <1>8
<1>10. G \in SUBSET (1 .. e) /\ \A g \in G : g \in F \/ g = f
  BY <1>1, <1>3 DEF G
<1>11. /\ IsWordAt(r.tok, s, f) /\ e <= Ends(r.tok, s, f)
       /\ Ends(r.tok, s, f) <= e \/ e = Len(s)
  BY <1>1 DEF Found
<1>12. \A g \in F : Ends(us[Counted(G, g)], s, g) <= k
  BY <1>1, <1>2, <1>9
<1>13. \A g \in G : IsWordAt(us[Counted(G, g)], s, g)
  <2>1. \A g \in F : IsWordAt(us[Counted(G, g)], s, g)
    BY <1>2, <1>9 DEF IsCut
  <2> QED
    BY <1>9, <1>10, <1>11, <2>1
<1>14. ASSUME NEW g \in G, NEW h \in G, g < h
       PROVE  Ends(us[Counted(G, g)], s, g) < h
  <2>1. g \in F
    BY <1>1, <1>3, <1>10, <1>14
  <2>2. CASE h \in F
    BY <1>2, <1>9, <1>14, <2>1, <2>2 DEF IsCut
  <2>3. CASE h = f
    <3>1. Ends(us[Counted(G, g)], s, g) <= k
      BY <1>12, <2>1
    <3>2. Ends(us[Counted(G, g)], s, g) \in Nat
      <4>1. ws[Counted(F, g)] \in Text /\ g \in Nat
        BY <1>3, <1>6, <2>1
      <4> QED
        BY <1>9, <2>1, <4>1, EndsType
    <3> QED
      BY <1>1, <2>3, <3>1, <3>2
  <2> QED
    BY <1>10, <2>2, <2>3
<1>15. ASSUME NEW i \in 1 .. e
       PROVE  s[i] = BLANK \/ \E g \in G : g <= i /\ i <= Ends(us[Counted(G, g)], s, g)
  <2>1. CASE i <= k
    <3>1. s[i] = BLANK \/ \E g \in F : g <= i /\ i <= Ends(ws[Counted(F, g)], s, g)
      BY <1>1, <1>2, <2>1 DEF IsCut
    <3> QED
      BY <1>9, <3>1 DEF G
  <2>2. CASE k < i /\ i < f
    BY <1>1, <2>2
  <2>3. CASE f <= i
    <3>1. Ends(r.tok, s, f) \in Nat
      BY <1>1, EndsType
    <3>2. i <= Ends(us[Counted(G, f)], s, f)
      BY <1>1, <1>9, <1>11, <3>1
    <3> QED
      BY <2>3, <3>2 DEF G
  <2> QED
    BY <1>1, <2>1, <2>2, <2>3
<1>16. Len(us) = Cardinality(G)
  BY <1>4, <1>5, <1>8
<1>17. IsCut(us, s, e, G)
  BY <1>13, <1>14, <1>15, <1>16 DEF IsCut
<1>18. ASSUME NEW g \in G PROVE Ends(us[Counted(G, g)], s, g) <= e \/ e = Len(s)
  <2>1. CASE g = f
    BY <1>9, <1>11, <2>1
  <2>2. CASE g \in F
    <3>1. Ends(us[Counted(G, g)], s, g) <= k
      BY <1>12, <2>2
    <3>2. Ends(us[Counted(G, g)], s, g) \in Nat
      <4>1. ws[Counted(F, g)] \in Text /\ g \in Nat
        BY <1>3, <1>6, <2>2
      <4> QED
        BY <1>9, <2>2, <4>1, EndsType
    <3> QED
      BY <1>1, <3>1, <3>2
  <2> QED
    BY <1>10, <2>1, <2>2
<1> QED
  BY <1>1, <1>10, <1>17, <1>18 DEF CutUpto, us

\* What a call of s_tokenize() does to the words that are taken.
LEMMA CutGoesOn ==
  ASSUME NEW s \in Text, NEW ws \in Seq(Text), NEW k, CutUpto(ws, s, k),
         NEW r, r = s_tokenize(After(s, k))
  PROVE  /\ r.tok = NULL => CutUpto(ws, s, Len(s))
         /\ r.tok # NULL =>
              /\ r.tok \in Text
              /\ \E e \in 0 .. Len(s) :
                   r.rest = After(s, e) /\ CutUpto(Append(ws, r.tok), s, e)
<1>1. k \in 0 .. Len(s) /\ Len(s) \in Nat
  BY DEF CutUpto
<1>2. CASE /\ r.tok = NULL
           /\ \A i \in k + 1 .. Len(s) : s[i] = BLANK
  BY <1>2, CutEnds
<1>3. CASE /\ r.tok \in Text
           /\ \E f \in k + 1 .. Len(s) :
                /\ \A i \in k + 1 .. f - 1 : s[i] = BLANK
                /\ \E e \in f .. Len(s) : Found(r, s, f, e)
  <2>1. PICK f \in k + 1 .. Len(s) :
                /\ \A i \in k + 1 .. f - 1 : s[i] = BLANK
                /\ \E e \in f .. Len(s) : Found(r, s, f, e)
    BY <1>3
  <2>2. PICK e \in f .. Len(s) : Found(r, s, f, e)
    BY <2>1
  <2>3. CutUpto(Append(ws, r.tok), s, e)
    BY <1>3, <2>1, <2>2, CutMore
  <2>4. e \in 0 .. Len(s) /\ r.rest = After(s, e)
    BY <1>1, <2>2 DEF Found
  <2>5. r.tok # NULL
    BY <1>3, BufferAssumption
  <2> QED
    BY <1>3, <2>3, <2>4, <2>5
<1> QED
  BY <1>1, <1>2, <1>3, TokenFinds

-----------------------------------------------------------------------------
(* The words of a line are the words that s_tokenize() takes.              *)

LEMMA EndIs ==
  ASSUME NEW s \in Text, NEW f \in 1 .. Len(s), NEW w \in Text, IsWordAt(w, s, f)
  PROVE  End(s, f) = Ends(w, s, f) /\ WordAt(s, f) = w
<1> DEFINE b == First(s, f)
           e == Ends(w, s, f)
           P(d) == /\ \A i \in b .. d - 1 : s[i] # Stop(s, f)
                   /\ d <= Len(s) => s[d] = Stop(s, f)
<1>1. Len(s) \in Nat /\ Len(w) \in Nat /\ b \in Nat /\ e \in Nat
  BY EndsType DEF First
<1>2. e - Len(w) = b
  <2>1. f + Len(w) + 1 - Len(w) = f + 1 /\ f + Len(w) + 0 - Len(w) = f
    BY <1>1
  <2> QED
    BY <2>1 DEF Ends, First
<1>3. e \in b .. Len(s) + 1 /\ P(e) /\ w = SubSeq(s, b, e - 1)
  BY <1>1, <1>2 DEF IsWordAt
<1>4. ASSUME NEW d \in b .. Len(s) + 1, P(d) PROVE d = e
  <2>1. ~(d < e)
    <3>1. d < e => d \in b .. e - 1 /\ d <= Len(s)
      BY <1>1, <1>3
    <3> QED
      BY <1>3, <1>4, <3>1
  <2>2. ~(e < d)
    <3>1. e < d => e \in b .. d - 1 /\ e <= Len(s)
      BY <1>1, <1>3
    <3> QED
      BY <1>3, <1>4, <3>1
  <2> QED
    BY <1>1, <2>1, <2>2
<1>5. End(s, f) = CHOOSE d \in b .. Len(s) + 1 : P(d)
  BY DEF End
<1> HIDE DEF P, b, e
<1>6. End(s, f) = e
  BY <1>3, <1>4, <1>5
<1> QED
  BY <1>3, <1>6 DEF WordAt, b, e

LEMMA EndType ==
  ASSUME NEW s \in Text, NEW f \in Marks(s)
  PROVE  End(s, f) \in Nat
<1>1. f \in 1 .. Len(s) /\ f \in Nat /\ s[f] # BLANK
  BY DEF Marks
<1> DEFINE q == IF s[f] = QUOTE THEN f ELSE f - 1
           r == Word(After(s, q), {Stop(s, f)})
<1>2. r.tok \in Text /\ \E e \in f .. Len(s) : Found(r, s, f, e)
  BY <1>1, WordFinds
<1>3. IsWordAt(r.tok, s, f)
  BY <1>2 DEF Found
<1> HIDE DEF r
<1> QED
  BY <1>1, <1>2, <1>3, EndIs, EndsType

\* Two divisions of a line into words begin with the same ones.
LEMMA BeginsAgree ==
  ASSUME NEW s \in Text, NEW F \in SUBSET Marks(s), NEW G \in SUBSET Marks(s),
         BeginAt(s, F), BeginAt(s, G),
         NEW f \in F, \A g \in Marks(s) : g < f => (g \in F <=> g \in G)
  PROVE  f \in G
<1> SUFFICES ASSUME f \notin G PROVE FALSE
  OBVIOUS
<1>1. PICK g \in G : g <= f /\ f <= End(s, g)
  BY DEF BeginAt
<1>2. f \in Nat /\ g \in Nat /\ End(s, g) \in Nat
  BY EndType DEF Marks
<1>3. g < f
  BY <1>1, <1>2
<1>4. End(s, g) < f
  BY <1>3 DEF BeginAt
<1> QED
  BY <1>1, <1>2, <1>4

\* There are no two ways to divide a line into words.
LEMMA BeginsOnce ==
  ASSUME NEW s \in Text, NEW F \in SUBSET Marks(s), NEW G \in SUBSET Marks(s),
         BeginAt(s, F), BeginAt(s, G)
  PROVE  F = G
<1> DEFINE D == {f \in Marks(s) : ~(f \in F <=> f \in G)}
<1> SUFFICES ASSUME D # {} PROVE FALSE
  OBVIOUS
<1>1. D \in SUBSET Nat
  BY DEF Marks
<1>2. PICK f \in D : \A g \in D : f <= g
  <2> HIDE DEF D
  <2> QED
    BY <1>1, LeastNumber
<1>3. \A g \in Marks(s) : g < f => (g \in F <=> g \in G)
  <2> SUFFICES ASSUME NEW g \in Marks(s), g < f, g \in D PROVE FALSE
    OBVIOUS
  <2> QED
    BY <1>1, <1>2
<1>4. f \in F => f \in G
  BY <1>3, BeginsAgree
<1>5. f \in G => f \in F
  BY <1>3, BeginsAgree
<1> QED
  BY <1>2, <1>4, <1>5

LEMMA CutIsWords ==
  ASSUME NEW s \in Text, NEW ws \in Seq(Text), CutUpto(ws, s, Len(s))
  PROVE  Words(s) = ws
<1>1. PICK F \in SUBSET (1 .. Len(s)) : IsCut(ws, s, Len(s), F)
  BY DEF CutUpto
<1>2. /\ Len(s) \in Nat /\ F \in SUBSET Nat /\ IsFiniteSet(F)
      /\ Len(ws) = Cardinality(F) /\ Len(ws) \in Nat
  <2>1. 1 \in Int /\ Len(s) \in Int /\ Len(s) \in Nat /\ 1 .. Len(s) \subseteq Nat
    OBVIOUS
  <2>2. IsFiniteSet(1 .. Len(s))
    BY <2>1, FS_Interval
  <2>3. IsFiniteSet(F)
    BY <2>2, FS_Subset
  <2>4. Len(ws) = Cardinality(F)
    BY <1>1 DEF IsCut
  <2> QED
    BY <2>1, <2>3, <2>4
<1>3. \A f \in F : Counted(F, f) \in 1 .. Len(ws)
  <2>1. \A f \in F : f <= Len(s)
    BY <1>2
  <2>2. {h \in F : h <= Len(s)} = F
    BY <2>1
  <2>3. Counted(F, Len(s)) = Len(ws)
    BY <1>2, <2>2 DEF Counted
  <2> QED
    BY <1>2, <2>1, <2>3, CountedNumber
<1>4. ASSUME NEW f \in F
      PROVE  LET w == ws[Counted(F, f)]
             IN End(s, f) = Ends(w, s, f) /\ WordAt(s, f) = w /\ f \in Marks(s)
  <2>1. ws[Counted(F, f)] \in Text
    BY <1>3
  <2>2. IsWordAt(ws[Counted(F, f)], s, f) /\ s[f] # BLANK /\ f \in 1 .. Len(s)
    BY <1>1 DEF IsCut, IsWordAt
  <2> QED
    BY <2>1, <2>2, EndIs DEF Marks
<1>5. F \in SUBSET Marks(s) /\ BeginAt(s, F)
  BY <1>1, <1>4 DEF IsCut, BeginAt, Marks
<1>6. Begins(s) = F
  BY <1>5, BeginsOnce DEF Begins
<1>7. ASSUME NEW n \in 1 .. Len(ws)
      PROVE  WordAt(s, CHOOSE f \in F : Counted(F, f) = n) = ws[n]
  <2>1. \E f \in F : Counted(F, f) = n
    BY <1>2, EveryNumber
  <2> QED
    BY <1>4, <2>1
<1>8. Words(s) = [n \in 1 .. Len(ws) |-> WordAt(s, CHOOSE f \in F : Counted(F, f) = n)]
  BY <1>2, <1>6 DEF Words
<1>9. Words(s) = [n \in 1 .. Len(ws) |-> ws[n]]
  BY <1>7, <1>8
<1> QED
  BY <1>9

\* The words ws are the first of us.
IsBegin(ws, us) == Len(ws) <= Len(us) /\ \A i \in 1 .. Len(ws) : us[i] = ws[i]

\* Of all that s_tokenize() may take beyond ws, what leaves the least is the line's
\* words.
LEMMA CutBegins ==
  ASSUME NEW s \in Text, NEW ws \in Seq(Text), NEW k, CutUpto(ws, s, k)
  PROVE  Words(s) \in Seq(Text) /\ IsBegin(ws, Words(s))
<1> DEFINE L == Len(s)
           Reached(us, e) == CutUpto(us, s, e) /\ IsBegin(ws, us)
           D == {e \in 0 .. L : \E us \in Seq(Text) : Reached(us, e)}
           S == {L - e : e \in D}
<1>1. L \in Nat /\ k \in D
  BY DEF CutUpto, IsBegin
<1>2. S \in SUBSET Nat /\ S # {}
  <2>1. \A e \in D : L - e \in Nat
    BY <1>1
  <2> HIDE DEF D
  <2> QED
    BY <1>1, <2>1
<1>3. PICK n \in S : \A m \in S : n <= m
  <2> HIDE DEF S
  <2> QED
    BY <1>2, LeastNumber
<1>4. PICK e \in 0 .. L : n = L - e /\ \E us \in Seq(Text) : Reached(us, e)
  BY <1>3
<1>5. PICK us \in Seq(Text) : CutUpto(us, s, e) /\ IsBegin(ws, us)
  BY <1>4
<1>6. ASSUME NEW d \in e + 1 .. L, CutUpto(Append(us, s_tokenize(After(s, e)).tok), s, d),
             s_tokenize(After(s, e)).tok \in Text
      PROVE  FALSE
  <2> DEFINE vs == Append(us, s_tokenize(After(s, e)).tok)
  <2>1. vs \in Seq(Text) /\ IsBegin(ws, vs)
    BY <1>5, <1>6 DEF IsBegin
  <2>2. L - d \in S
    <3>1. d \in 0 .. L
      BY <1>1
    <3> HIDE DEF vs
    <3> QED
      BY <1>6, <2>1, <3>1 DEF vs
  <2>3. n <= L - d
    BY <1>3, <2>2
  <2> QED
    BY <1>1, <1>4, <2>3
<1> HIDE DEF D, S, L
<1>7. CutUpto(us, s, Len(s))
  <2> DEFINE r == s_tokenize(After(s, e))
  <2>1. e \in 0 .. Len(s) /\ L = Len(s)
    BY DEF L
  <2>2. CASE \A i \in e + 1 .. Len(s) : s[i] = BLANK
    BY <1>5, <2>2, CutEnds
  <2>3. CASE /\ r.tok \in Text
             /\ \E f \in e + 1 .. Len(s) :
                  /\ \A i \in e + 1 .. f - 1 : s[i] = BLANK
                  /\ \E d \in f .. Len(s) : Found(r, s, f, d)
    <3>1. PICK f \in e + 1 .. Len(s) :
                  /\ \A i \in e + 1 .. f - 1 : s[i] = BLANK
                  /\ \E d \in f .. Len(s) : Found(r, s, f, d)
      BY <2>3
    <3>2. PICK d \in f .. Len(s) : Found(r, s, f, d)
      BY <3>1
    <3> HIDE DEF r
    <3>3. CutUpto(Append(us, r.tok), s, d)
      BY <1>5, <2>3, <3>1, <3>2, CutMore
    <3>4. d \in e + 1 .. L
      BY <1>1, <2>1
    <3> QED
      BY <1>6, <2>3, <3>3, <3>4 DEF r
  <2> QED
    BY <2>1, <2>2, <2>3, TokenFinds
<1> QED
  BY <1>5, <1>7, CutIsWords

-----------------------------------------------------------------------------
(* linebuf and the lines of the script.                                    *)

\* No LINEBUF characters that begin within the first k are free of a line's end.
ShortLines(s, k) ==
  \A i \in 1 .. Len(s) - LINEBUF + 1 :
    i <= k => \E j \in i .. i + LINEBUF - 1 : s[j] \in LineEnd

\* src is what follows a line of the script, and up to there no line is too long;
\* linebuf holds the line that is carried out.
PlaceInv ==
  /\ pc # "overrun" =>
       \E k \in 0 .. Len(input) :
         /\ src = After(input, k)
         /\ ShortLines(input, k)
  /\ OverrunByLongLines

LEMMA PlaceInit == Init => PlaceInv
<1> SUFFICES ASSUME Init PROVE PlaceInv
  OBVIOUS
<1> DEFINE s == input
<1>1. s \in Text /\ Len(s) \in Nat /\ src = s /\ pc = "readline"
  BY InputAssumption DEF Init
<1>2. After(s, 0) = s
  BY <1>1, AfterNone
<1>3. ShortLines(s, 0)
  BY <1>1 DEF ShortLines
<1> QED
  BY <1>1, <1>2, <1>3 DEF PlaceInv, OverrunByLongLines

LEMMA PlaceNext == TypeOK /\ PlaceInv /\ [Next]_vars => PlaceInv'
<1> SUFFICES ASSUME TypeOK, PlaceInv, [Next]_vars PROVE PlaceInv'
  OBVIOUS
<1> DEFINE s == input
<1>0. s \in Text /\ Len(s) \in Nat
  BY DEF TypeOK
<1>1. CASE ReadLine
  <2> DEFINE n == Before(src, LineEnd)
  <2>1. PICK k \in 0 .. Len(s) :
          /\ src = After(s, k)
          /\ ShortLines(s, k)
    BY <1>1 DEF PlaceInv, ReadLine
  <2>2. /\ input' = input
        /\ linebuf' = Upto(src, n)
        /\ src' = After(src, n + 1)
        /\ src # <<>>
    BY <1>1 DEF ReadLine, s_readline
  <2>3. pc' = IF n < LINEBUF THEN "command" ELSE "overrun"
    BY <1>1, LineType DEF ReadLine, TypeOK
  <2>4. n = Before(src, LineEnd)
    OBVIOUS
  <2>5. k \in Nat /\ k < Len(s)
    <3>1. k \in Nat /\ k <= Len(s)
      BY <1>0, <2>1
    <3>2. Len(src) = Len(s) - k /\ src \in Text
      BY <1>0, <2>1, <3>1, AfterType
    <3>3. Len(src) # 0
      BY <2>2, <3>2, EmptyString
    <3> QED
      BY <1>0, <3>1, <3>2, <3>3
  <2> HIDE DEF n, s
  <2>6. /\ n \in Nat /\ k + n <= Len(s)
        /\ \A i \in k + 1 .. k + n : s[i] \notin LineEnd
        /\ k + n < Len(s) => s[k + n + 1] \in LineEnd
        /\ Upto(src, n) \in Text /\ Len(Upto(src, n)) = n
        /\ Upto(src, n) = SubSeq(s, k + 1, k + n)
        /\ After(src, n + 1) = After(s, IF k + n + 1 <= Len(s) THEN k + n + 1 ELSE Len(s))
    BY <1>0, <2>1, <2>4, PieceAt
  <2>7. CASE n < LINEBUF
    <3> DEFINE e == IF k + n + 1 <= Len(s) THEN k + n + 1 ELSE Len(s)
    <3>1. /\ e \in 0 .. Len(s) /\ e <= k + n + 1
          /\ k + n <= e
      BY <1>0, <2>5, <2>6
    <3>2. ShortLines(s, e)
      <4> SUFFICES ASSUME NEW i \in 1 .. Len(s) - LINEBUF + 1, i <= e
                   PROVE  \E j \in i .. i + LINEBUF - 1 : s[j] \in LineEnd
        BY DEF ShortLines
      <4>1. CASE i <= k
        BY <2>1, <4>1 DEF ShortLines
      <4>2. CASE i > k
        <5>1. k + n + 1 <= Len(s) /\ k + n + 1 \in i .. i + LINEBUF - 1
          BY <1>0, <2>5, <2>6, <2>7, <3>1, <4>2, BufferAssumption
        <5>2. s[k + n + 1] \in LineEnd
          BY <1>0, <2>5, <2>6, <5>1
        <5> QED
          BY <5>1, <5>2
      <4> QED
        BY <1>0, <2>5, <4>1, <4>2, BufferAssumption
    <3>4. src' = After(s, e)
      BY <2>2, <2>6
    <3> HIDE DEF e
    <3>5. pc' = "command" /\ input' = s
      BY <2>2, <2>3, <2>7 DEF s
    <3> QED
      BY <2>1, <3>1, <3>2, <3>4, <3>5 DEF PlaceInv, OverrunByLongLines
  <2>8. CASE ~(n < LINEBUF)
    <3>1. k + 1 \in 1 .. Len(s) - LINEBUF + 1
      BY <1>0, <2>5, <2>6, <2>8, BufferAssumption
    <3>2. ASSUME NEW j \in k + 1 .. k + 1 + LINEBUF - 1 PROVE s[j] \notin {CR, NL}
      <4>1. j \in k + 1 .. k + n
        BY <2>5, <2>6, <2>8, BufferAssumption
      <4> QED
        BY <2>6, <4>1 DEF LineEnd
    <3>3. TooLong(s)
      BY <3>1, <3>2 DEF TooLong
    <3> QED
      BY <2>2, <2>3, <2>8, <3>3 DEF PlaceInv, OverrunByLongLines, s
  <2> QED
    BY <2>7, <2>8
<1>2. CASE EndOfScript
  <2>1. PICK k \in 0 .. Len(s) : src = After(s, k) /\ ShortLines(s, k)
    BY <1>2 DEF PlaceInv, EndOfScript
  <2>2. k = Len(s)
    <3>0. k \in Nat /\ k <= Len(s)
      BY <1>0, <2>1
    <3>1. Len(src) = Len(s) - k /\ k \in Nat
      BY <1>0, <2>1, <3>0, AfterType
    <3>2. Len(src) = 0
      BY <1>2, EmptyString DEF EndOfScript, TypeOK
    <3> QED
      BY <1>0, <3>1, <3>2
  <2>3. ~TooLong(s)
    <3> SUFFICES ASSUME NEW i \in 1 .. Len(s) - LINEBUF + 1
                 PROVE  \E j \in i .. i + LINEBUF - 1 : s[j] \in {CR, NL}
      BY DEF TooLong
    <3>1. i <= k
      BY <1>0, <2>2, BufferAssumption
    <3> QED
      BY <2>1, <3>1 DEF ShortLines, LineEnd
  <2>4. pc' = "end" /\ UNCHANGED <<input, src>>
    BY <1>2 DEF EndOfScript, lineVars
  <2> QED
    BY <2>1, <2>3, <2>4 DEF PlaceInv, OverrunByLongLines
<1>3. ASSUME UNCHANGED <<input, src, linebuf>>, pc \in {"command", "words", "fork", "call"},
             pc' \in {"readline", "command", "words", "fork", "call", "exit"}
      PROVE  PlaceInv'
  BY <1>3 DEF PlaceInv, OverrunByLongLines
<1>4. CASE TakeCommand
  BY <1>3, <1>4 DEF TakeCommand, lineVars
<1>5. CASE s_cmd_start
  BY <1>3, <1>5 DEF s_cmd_start, lineVars
<1>6. CASE Execute
  BY <1>3, <1>6 DEF Execute, lineVars
<1>7. CASE s_cmd_fixed \/ Call \/ s_cmd_waitfor
  BY <1>3, <1>7 DEF s_cmd_fixed, Call, s_cmd_waitfor, lineVars
<1>8. CASE UNCHANGED vars
  BY <1>8 DEF vars, lineVars, PlaceInv, OverrunByLongLines
<1> QED
  BY <1>1, <1>2, <1>4, <1>5, <1>6, <1>7, <1>8 DEF Next, Steps

\* Whatever the scripts and the size of linebuf: s_readline() overruns linebuf if
\* it runs a script that has a line of LINEBUF characters, and only then.
THEOREM LinebufHoldsShortLines == Spec => []OverrunByLongLines
<1>1. Init => PlaceInv
  BY PlaceInit
<1>2. TypeOK /\ PlaceInv /\ [Next]_vars => PlaceInv'
  BY PlaceNext
<1>3. WordsInv => TypeOK
  BY DEF WordsInv
<1>4. PlaceInv => OverrunByLongLines
  BY DEF PlaceInv
<1> QED
  BY <1>1, <1>2, <1>3, <1>4, WordsAlways, PTL DEF Spec
-----------------------------------------------------------------------------
(* Every command is carried out as it is written.                          *)

\* Arguments, of any start_argv.
ArgumentsOf(a) ==
  LET n == CHOOSE n \in 0 .. ARG_SZ :
             /\ \A i \in 0 .. n - 1 : a[i] # NULL
             /\ n < ARG_SZ => a[n] = NULL
  IN [i \in 1 .. n |-> a[i - 1]]

LEMMA ArgumentsUpto ==
  ASSUME NEW a, NEW n \in Argv, a[n] = NULL, \A i \in 0 .. n - 1 : a[i] # NULL
  PROVE  ArgumentsOf(a) = [i \in 1 .. n |-> a[i - 1]]
<1> DEFINE P(m) == /\ \A i \in 0 .. m - 1 : a[i] # NULL
                   /\ m < ARG_SZ => a[m] = NULL
           c == CHOOSE m \in 0 .. ARG_SZ : P(m)
<1>1. n \in 0 .. ARG_SZ /\ n < ARG_SZ /\ ARG_SZ \in Nat /\ n \in Nat
  BY BufferAssumption DEF Argv
<1>2. P(n)
  OBVIOUS
<1>3. c \in 0 .. ARG_SZ /\ P(c)
  BY <1>1, <1>2
<1>4. ArgumentsOf(a) = [i \in 1 .. c |-> a[i - 1]]
  BY DEF ArgumentsOf
<1> HIDE DEF c
<1>5. ~(n \in 0 .. c - 1) /\ ~(c < ARG_SZ /\ c \in 0 .. n - 1)
  BY <1>3
<1>6. c = n
  BY <1>1, <1>3, <1>5
<1> QED
  BY <1>4, <1>6

LEMMA AppendBehind ==
  ASSUME NEW S, NEW s \in Seq(S), NEW c \in S, NEW e \in S
  PROVE  /\ <<c>> \o Append(s, e) = Append(<<c>> \o s, e)
         /\ <<c>> \o s \in Seq(S)
  OBVIOUS

LEMMA AppendLonger ==
  ASSUME NEW S, NEW s \in Seq(S), NEW e \in S
  PROVE  Append(s, e) \in Seq(S) /\ Len(Append(s, e)) = Len(s) + 1
OBVIOUS

\* The words that the command of the line has taken.
Taken == IF cmd = <<START>> THEN [i \in 1 .. t |-> start_argv[i - 1]] ELSE args

TokensInv ==
  /\ pc \in {"words", "call"} =>
       /\ Taken \in Seq(Text)
       /\ \E k \in 0 .. Len(linebuf) :
            ch = After(linebuf, k) /\ CutUpto(<<cmd>> \o Taken, linebuf, k)
  /\ pc = "fork" =>
       cmd = <<START>> /\ CutUpto(<<cmd>> \o Arguments, linebuf, Len(linebuf))

LEMMA TokensBegin ==
  ASSUME WordsInv, TakeCommand
  PROVE  TokensInv'
<1> DEFINE r == s_tokenize(ch)
<1>1. /\ pc = "command" /\ ch' = r.rest /\ t' = 0 /\ args' = <<>>
      /\ linebuf' = linebuf
      /\ IF Ignored(r.tok) THEN pc' = "readline"
         ELSE cmd' = r.tok /\ pc' \in {"words", "call", "readline"}
  BY DEF TakeCommand, lineVars
<1>2. linebuf \in Text /\ ch = linebuf
  BY <1>1 DEF WordsInv, TypeOK, RoomInv
<1>3. r = s_tokenize(After(linebuf, 0))
  BY <1>2, AfterNone
<1> SUFFICES ASSUME pc' \in {"words", "call"} PROVE TokensInv'
  BY <1>1 DEF TokensInv
<1> HIDE DEF r
<1>4. r.tok # NULL /\ cmd' = r.tok
  BY <1>1 DEF Ignored
<1>5. <<>> \in Seq(Text) /\ CutUpto(<<>>, linebuf, 0)
  BY <1>2, NoCut
<1>6. /\ r.tok \in Text
      /\ \E e \in 0 .. Len(linebuf) :
           r.rest = After(linebuf, e) /\ CutUpto(Append(<<>>, r.tok), linebuf, e)
  BY <1>2, <1>3, <1>4, <1>5, CutGoesOn
<1>7. Taken' = <<>>
  <2>1. [i \in 1 .. 0 |-> start_argv'[i - 1]] = <<>>
    OBVIOUS
  <2> QED
    BY <1>1, <2>1 DEF Taken
<1>8. <<cmd'>> \o <<>> = Append(<<>>, r.tok)
  BY <1>4, <1>6
<1>9. (<<cmd>> \o Taken)' = Append(<<>>, r.tok)
  BY <1>7, <1>8
<1>10. /\ Taken' \in Seq(Text)
       /\ \E k \in 0 .. Len(linebuf') :
            ch' = After(linebuf', k) /\ CutUpto((<<cmd>> \o Taken)', linebuf', k)
  BY <1>1, <1>5, <1>6, <1>7, <1>9
<1> QED
  BY <1>10 DEF TokensInv

LEMMA TokensStart ==
  ASSUME WordsInv, WordsInv', TokensInv, s_cmd_start
  PROVE  TokensInv'
<1> DEFINE r == s_tokenize(ch)
           ws == <<cmd>> \o Taken
<1>1. /\ pc = "words" /\ cmd = <<START>> /\ cmd' = cmd /\ ch' = r.rest
      /\ start_argv' = [start_argv EXCEPT ![t] = r.tok]
      /\ t' = t + 1 /\ linebuf' = linebuf
      /\ pc' \in {"fork", "words"}
      /\ r.tok = NULL => pc' = "fork"
      /\ pc' = "fork" => r.tok = NULL \/ t + 1 = ARG_SZ
  BY DEF s_cmd_start, StoreWord, lineVars
<1>2. /\ linebuf \in Text /\ cmd \in Text
      /\ start_argv \in [Argv -> Text \cup {NULL}] /\ t \in 0 .. ARG_SZ
      /\ Taken \in Seq(Text)
  BY <1>1 DEF WordsInv, TypeOK, TokensInv
<1>3. PICK k \in 0 .. Len(linebuf) : ch = After(linebuf, k) /\ CutUpto(ws, linebuf, k)
  BY <1>1 DEF TokensInv
<1>4. ws \in Seq(Text)
  BY <1>2, AppendBehind
<1>5. Taken = [i \in 1 .. t |-> start_argv[i - 1]] /\ t \in Nat
  BY <1>1, <1>2, BufferAssumption DEF Taken
<1>6. t \in Argv
  <2>1. Len(linebuf) \in Nat /\ 2 * (t + 1) <= Len(linebuf) + 1 /\ Len(linebuf) < LINEBUF
    BY <1>1, <1>2 DEF WordsInv, RoomInv
  <2> QED
    BY <1>5, <2>1, BufferAssumption DEF Argv
<1>7. r = s_tokenize(After(linebuf, k))
  BY <1>3
<1> HIDE DEF r, ws
<1>8. /\ r.tok = NULL => CutUpto(ws, linebuf, Len(linebuf))
      /\ r.tok # NULL =>
           /\ r.tok \in Text
           /\ \E e \in 0 .. Len(linebuf) :
                r.rest = After(linebuf, e) /\ CutUpto(Append(ws, r.tok), linebuf, e)
  BY <1>2, <1>3, <1>4, <1>7, CutGoesOn
<1>9. \A i \in 0 .. t - 1 : start_argv[i] \in Text /\ start_argv'[i] = start_argv[i]
  <2> SUFFICES ASSUME NEW i \in 0 .. t - 1
               PROVE  start_argv[i] \in Text /\ start_argv'[i] = start_argv[i]
    OBVIOUS
  <2>1. i + 1 \in 1 .. t /\ i \in Argv /\ i # t /\ i + 1 - 1 = i
    BY <1>5, <1>6, BufferAssumption DEF Argv
  <2>2. Taken[i + 1] = start_argv[i]
    BY <1>5, <2>1
  <2>3. Len(Taken) = t
    BY <1>5, <1>2
  <2>4. Taken[i + 1] \in Text
    BY <1>2, <2>1, <2>3
  <2> QED
    BY <1>1, <1>2, <2>1, <2>2, <2>4
<1>10. start_argv'[t] = r.tok
  BY <1>1, <1>2, <1>6
<1>11. CASE r.tok = NULL
  <2>1. Arguments' = [i \in 1 .. t |-> start_argv'[i - 1]]
    <3>1. \A i \in 0 .. t - 1 : start_argv'[i] # NULL
      BY <1>9, BufferAssumption
    <3>2. ArgumentsOf(start_argv') = [i \in 1 .. t |-> start_argv'[i - 1]]
      BY <1>6, <1>10, <1>11, <3>1, ArgumentsUpto
    <3> QED
      BY <3>2 DEF Arguments, ArgumentsOf
  <2>2. \A i \in 1 .. t : start_argv'[i - 1] = start_argv[i - 1]
    <3>1. \A i \in 1 .. t : i - 1 \in 0 .. t - 1
      BY <1>5
    <3> QED
      BY <1>9, <3>1
  <2>3. Arguments' = Taken
    BY <1>5, <2>1, <2>2
  <2>4. (<<cmd>> \o Arguments)' = ws
    BY <1>1, <2>3 DEF ws
  <2> QED
    BY <1>1, <1>8, <1>11, <2>4 DEF TokensInv
<1>12. CASE r.tok # NULL
  <2>1. pc' = "words"
    <3> SUFFICES ASSUME pc' = "fork", t + 1 = ARG_SZ PROVE FALSE
      BY <1>1, <1>12
    <3>1. PICK i \in Argv : start_argv'[i] = NULL
      BY DEF WordsInv, ArgvTerminated
    <3>2. i \in 0 .. t - 1 \/ i = t
      BY <1>5 DEF Argv
    <3> QED
      BY <1>8, <1>9, <1>10, <1>12, <3>1, <3>2, BufferAssumption
  <2>2. Taken' = Append(Taken, r.tok)
    <3>1. Taken' = [i \in 1 .. t + 1 |-> start_argv'[i - 1]]
      BY <1>1 DEF Taken
    <3>2. ASSUME NEW i \in 1 .. t + 1
          PROVE  start_argv'[i - 1] = IF i <= t THEN start_argv[i - 1] ELSE r.tok
      <4>1. CASE i <= t
        <5>1. i - 1 \in 0 .. t - 1
          BY <1>5, <4>1
        <5> QED
          BY <1>9, <4>1, <5>1
      <4>2. CASE ~(i <= t)
        <5>1. i - 1 = t
          BY <1>5, <4>2
        <5> QED
          BY <1>10, <4>2, <5>1
      <4> QED
        BY <4>1, <4>2
    <3>3. Taken' = [i \in 1 .. t + 1 |-> IF i <= t THEN start_argv[i - 1] ELSE r.tok]
      BY <3>1, <3>2
    <3>4. Append([i \in 1 .. t |-> start_argv[i - 1]], r.tok)
            = [i \in 1 .. t + 1 |-> IF i <= t THEN start_argv[i - 1] ELSE r.tok]
      BY <1>5
    <3> QED
      BY <1>5, <3>3, <3>4
  <2>3. (<<cmd>> \o Taken)' = Append(ws, r.tok) /\ Taken' \in Seq(Text)
    BY <1>1, <1>2, <1>8, <1>12, <2>2, AppendBehind DEF ws
  <2>4. \E e \in 0 .. Len(linebuf') :
          ch' = After(linebuf', e) /\ CutUpto((<<cmd>> \o Taken)', linebuf', e)
    BY <1>1, <1>8, <1>12, <2>3
  <2> QED
    BY <2>1, <2>3, <2>4 DEF TokensInv
<1> QED
  BY <1>11, <1>12

\* What another command has taken with its next word, or has found to be all.
LEMMA TokensFixed ==
  ASSUME WordsInv, TokensInv, s_cmd_fixed, NEW r, r = s_tokenize(ch)
  PROVE  /\ r.tok = NULL => CutUpto(<<cmd>> \o args, linebuf, Len(linebuf))
         /\ r.tok # NULL =>
              /\ args' \in Seq(Text) /\ Len(args') = Len(args) + 1
              /\ \E e \in 0 .. Len(linebuf) :
                   ch' = After(linebuf, e) /\ CutUpto(<<cmd>> \o args', linebuf, e)
<1> DEFINE ws == <<cmd>> \o args
<1>1. /\ pc = "words" /\ cmd # <<START>> /\ ch' = r.rest
      /\ r.tok # NULL => args' = Append(args, r.tok)
  BY DEF s_cmd_fixed
<1>2. linebuf \in Text /\ cmd \in Text /\ args \in Seq(Text) /\ Taken = args
  BY <1>1 DEF WordsInv, TypeOK, Taken
<1>3. PICK k \in 0 .. Len(linebuf) : ch = After(linebuf, k) /\ CutUpto(ws, linebuf, k)
  BY <1>1, <1>2 DEF TokensInv
<1>4. ws \in Seq(Text)
  BY <1>2, AppendBehind
<1>5. r = s_tokenize(After(linebuf, k))
  BY <1>3
<1> HIDE DEF ws
<1>6. /\ r.tok = NULL => CutUpto(ws, linebuf, Len(linebuf))
      /\ r.tok # NULL =>
           /\ r.tok \in Text
           /\ \E e \in 0 .. Len(linebuf) :
                r.rest = After(linebuf, e) /\ CutUpto(Append(ws, r.tok), linebuf, e)
  BY <1>2, <1>3, <1>4, <1>5, CutGoesOn
<1>7. ASSUME r.tok # NULL
      PROVE  /\ args' \in Seq(Text) /\ Len(args') = Len(args) + 1
             /\ <<cmd>> \o args' = Append(ws, r.tok)
  <2>1. r.tok \in Text /\ args' = Append(args, r.tok)
    BY <1>1, <1>6, <1>7
  <2>2. <<cmd>> \o args' = Append(ws, r.tok)
    BY <1>2, <2>1, AppendBehind DEF ws
  <2>3. args' \in Seq(Text) /\ Len(args') = Len(args) + 1
    BY <1>2, <2>1, AppendLonger
  <2> QED
    BY <2>2, <2>3
<1> QED
  BY <1>1, <1>6, <1>7 DEF ws

LEMMA TokensNext == WordsInv /\ WordsInv' /\ TokensInv /\ [Next]_vars => TokensInv'
<1> SUFFICES ASSUME WordsInv, WordsInv', TokensInv, [Next]_vars PROVE TokensInv'
  OBVIOUS
<1>1. CASE ReadLine
  BY <1>1 DEF ReadLine, TokensInv
<1>2. CASE EndOfScript
  BY <1>2 DEF EndOfScript, TokensInv
<1>3. CASE TakeCommand
  BY <1>3, TokensBegin
<1>4. CASE s_cmd_start
  BY <1>4, TokensStart
<1>5. CASE Execute
  BY <1>5 DEF Execute, TokensInv
<1>6. CASE s_cmd_fixed
  <2> SUFFICES ASSUME pc' \in {"words", "call"} PROVE TokensInv'
    BY <1>6 DEF s_cmd_fixed, TokensInv
  <2>1. s_tokenize(ch).tok # NULL /\ UNCHANGED <<linebuf, cmd>> /\ cmd # <<START>>
    BY <1>6 DEF s_cmd_fixed, lineVars
  <2>2. Taken' = args'
    BY <2>1 DEF Taken
  <2> QED
    BY <1>6, <2>1, <2>2, TokensFixed DEF TokensInv
<1>7. CASE Call \/ s_cmd_waitfor
  BY <1>7 DEF Call, s_cmd_waitfor, TokensInv
<1>8. CASE UNCHANGED vars
  BY <1>8 DEF vars, lineVars, argVars, TokensInv, Taken, Arguments
<1> QED
  BY <1>1, <1>2, <1>3, <1>4, <1>5, <1>6, <1>7, <1>8 DEF Next, Steps

-----------------------------------------------------------------------------
(* Refinement: every line is carried out as ScriptMeaning has it.          *)

\* The command that collects its words is one, and still needs some; the one that
\* is called has them.
NeedsInv ==
  /\ pc = "words" =>
       cmd \in Known /\ (cmd # <<START>> => Len(args) < Arity[cmd[1]])
  /\ pc = "call" =>
       cmd \in Known /\ cmd # <<START>> /\ Len(args) = Arity[cmd[1]]

MeaningInv == WordsInv /\ TokensInv /\ NeedsInv

LEMMA NeedsNext == WordsInv /\ NeedsInv /\ [Next]_vars => NeedsInv'
<1> SUFFICES ASSUME WordsInv, NeedsInv, [Next]_vars, pc' \in {"words", "call"}
             PROVE  NeedsInv'
  BY DEF NeedsInv
<1>1. CASE TakeCommand
  <2>1. /\ cmd' \in Known /\ args' = <<>>
        /\ pc' = IF cmd' # <<START>> /\ Arity[cmd'[1]] = 0 THEN "call" ELSE "words"
    BY <1>1 DEF TakeCommand
  <2>2. ASSUME cmd' # <<START>> PROVE Arity[cmd'[1]] \in Nat
    <3>1. cmd'[1] \in DOMAIN Arity
      BY <2>1, <2>2 DEF Known
    <3> QED
      BY <3>1, CommandAssumption
  <2>3. Len(args') = 0
    BY <2>1
  <2>4. CASE cmd' # <<START>> /\ Arity[cmd'[1]] = 0
    BY <2>1, <2>3, <2>4 DEF NeedsInv
  <2>5. CASE cmd' = <<START>>
    BY <2>1, <2>5 DEF NeedsInv
  <2>6. CASE cmd' # <<START>> /\ Arity[cmd'[1]] # 0
    <3>1. Len(args') < Arity[cmd'[1]] /\ pc' = "words"
      BY <2>1, <2>2, <2>3, <2>6
    <3> QED
      BY <2>1, <3>1 DEF NeedsInv
  <2> QED
    BY <2>4, <2>5, <2>6
<1>2. CASE s_cmd_start
  BY <1>2 DEF s_cmd_start, NeedsInv
<1>3. CASE s_cmd_fixed
  <2>1. /\ pc = "words" /\ cmd # <<START>> /\ cmd' = cmd
        /\ args' = Append(args, s_tokenize(ch).tok)
        /\ pc' = IF Len(args) + 1 = Arity[cmd[1]] THEN "call" ELSE "words"
    BY <1>3 DEF s_cmd_fixed
  <2>2. cmd \in Known /\ Len(args) < Arity[cmd[1]] /\ args \in Seq(Text)
    BY <2>1 DEF NeedsInv, WordsInv, TypeOK
  <2>3. cmd[1] \in DOMAIN Arity
    BY <2>1, <2>2 DEF Known
  <2>4. Arity[cmd[1]] \in Nat /\ Len(args) \in Nat /\ Len(args') = Len(args) + 1
    BY <2>1, <2>2, <2>3, CommandAssumption
  <2> QED
    BY <2>1, <2>2, <2>4 DEF NeedsInv
<1>4. CASE UNCHANGED vars
  BY <1>4 DEF vars, argVars, NeedsInv
<1> QED
  BY <1>1, <1>2, <1>3, <1>4
     DEF Next, Steps, ReadLine, EndOfScript, Execute, Call, s_cmd_waitfor

LEMMA MeaningAlways == Spec => []MeaningInv
<1>1. Init => MeaningInv
  BY WordsInit DEF Init, MeaningInv, TokensInv, NeedsInv
<1>2. MeaningInv /\ [Next]_vars => MeaningInv'
  BY WordsNext, TokensNext, NeedsNext DEF MeaningInv
<1> QED
  BY <1>1, <1>2, PTL DEF Spec

\* Words behind a first one.
LEMMA Behind ==
  ASSUME NEW S, NEW c \in S, NEW s \in Seq(S)
  PROVE  Len(<<c>> \o s) = Len(s) + 1 /\ (<<c>> \o s)[1] = c /\ Len(s) \in Nat
OBVIOUS

LEMMA AppendNothing ==
  ASSUME NEW S, NEW s \in Seq(S)
  PROVE  s \o <<>> = s
OBVIOUS

LEMMA AppendOne ==
  ASSUME NEW S, NEW s \in Seq(S), NEW e \in S
  PROVE  s \o <<e>> = Append(s, e)
OBVIOUS

LEMMA SameBegin ==
  ASSUME NEW S, NEW s \in Seq(S), NEW u \in Seq(S), Len(u) <= Len(s),
         \A i \in 1 .. Len(u) : s[i] = u[i]
  PROVE  SubSeq(s, 1, Len(u)) = u
OBVIOUS

\* What words that begin with those of a known command say.
LEMMA KnownSays ==
  ASSUME NEW c \in Known, NEW us \in Seq(Text), NEW ws \in Seq(Text),
         IsBegin(<<c>> \o us, ws)
  PROVE  /\ ws[1] = c /\ IsCommand(ws) /\ Len(ws) >= Len(us) + 1
         /\ Needed(ws) = IF c = <<START>> THEN 2 ELSE Arity[c[1]] + 1
         /\ Needed(ws) \in Nat
<1> DEFINE x == <<c>> \o us
<1>0. c \in Text
  <2>1. PICK d \in {START} \cup DOMAIN Arity : c = <<d>>
    BY DEF Known
  <2>2. d \in Char
    BY <2>1, CommandAssumption DEF Char
  <2> QED
    BY <2>1, <2>2
<1>1. Len(x) = Len(us) + 1 /\ x[1] = c /\ Len(us) \in Nat /\ Len(ws) \in Nat
  BY <1>0, Behind
<1> HIDE DEF x
<1>2. Len(x) <= Len(ws) /\ \A i \in 1 .. Len(x) : ws[i] = x[i]
  BY DEF IsBegin, x
<1>3. ws[1] = c /\ Len(ws) >= Len(us) + 1 /\ ws # <<>>
  <2>1. Len(x) \in Nat /\ 1 <= Len(x)
    BY <1>1
  <2>2. Len(ws) # 0 /\ Len(ws) >= Len(us) + 1
    BY <1>1, <1>2
  <2>3. 1 \in 1 .. Len(x)
    BY <2>1
  <2>4. ws # <<>>
    BY <2>2
  <2> QED
    BY <1>1, <1>2, <2>2, <2>3, <2>4
<1>4. c # <<START>> => Arity[c[1]] + 1 \in Nat
  <2>1. c # <<START>> => c[1] \in DOMAIN Arity
    BY DEF Known
  <2> QED
    BY <2>1, CommandAssumption
<1> QED
  BY <1>3, <1>4 DEF IsCommand, Needed

\* The line is done with.
LEMMA LineDone ==
  ASSUME MeaningInv, pc \in {"command", "words", "fork", "call"},
         pc' \in {"readline", "exit"}, UNCHANGED src,
         executed' = executed \o Commands(linebuf),
         pc' = "exit" <=> Exits(linebuf)
  PROVE  Meaning!Next
<1>1. linebuf # NULL
  BY BufferAssumption DEF MeaningInv, WordsInv, TypeOK
<1>2. Exits(linebuf) \in BOOLEAN
  BY DEF Exits
<1>3. Meaning!CarryOut
  BY <1>1, <1>2 DEF Meaning!CarryOut
<1> QED
  BY <1>3 DEF Meaning!Next

LEMMA ReadLineTakes ==
  ASSUME MeaningInv, ReadLine
  PROVE  Meaning!Next
<1> DEFINE n == Before(src, LineEnd)
           r == s_readline(src)
<1>1. /\ src \in Text /\ n \in 0 .. Len(src) /\ n \in Nat
      /\ \A i \in 1 .. n : src[i] \notin {CR, NL}
      /\ n < Len(src) => src[n + 1] \in {CR, NL}
  <2>1. src \in Text /\ Len(src) \in Nat
    BY DEF MeaningInv, WordsInv, TypeOK
  <2> QED
    BY <2>1, BeforeFinds DEF LineEnd
<1>2. r.line = SubSeq(src, 1, n) /\ r.rest = SubSeq(src, n + 2, Len(src)) /\ Len(r.line) = n
  <2>1. n + 1 + 1 = n + 2
    BY <1>1
  <2>2. r.line = Upto(src, n) /\ r.rest = After(src, n + 1)
    BY DEF s_readline
  <2>3. Len(r.line) = n
    BY <1>1, LineType
  <2> HIDE DEF n, r
  <2> QED
    BY <2>1, <2>2, <2>3 DEF Upto, After
<1> HIDE DEF n, r
<1>3. /\ pc = "readline" /\ src # <<>> /\ linebuf' = r.line /\ src' = r.rest
      /\ pc' = IF n < LINEBUF THEN "command" ELSE "overrun"
      /\ UNCHANGED executed
  BY <1>2 DEF ReadLine, r
<1>4. Meaning!LineOf(n)
  BY <1>1 DEF Meaning!LineOf
<1>5. Meaning!TakeLine
  BY <1>1, <1>2, <1>3, <1>4 DEF Meaning!TakeLine
<1> QED
  BY <1>5 DEF Meaning!Next

\* A line is passed over that says nothing.
LEMMA TakeCommandPasses ==
  ASSUME MeaningInv, TakeCommand, pc' = "readline"
  PROVE  Meaning!Next
<1> DEFINE r == s_tokenize(ch)
           W == Words(linebuf)
<1>1. pc = "command" /\ linebuf \in Text /\ ch = linebuf /\ UNCHANGED <<src, executed>>
  BY DEF TakeCommand, MeaningInv, WordsInv, TypeOK, RoomInv, lineVars
<1>2. r = s_tokenize(After(linebuf, 0)) /\ <<>> \in Seq(Text) /\ CutUpto(<<>>, linebuf, 0)
  BY <1>1, AfterNone, NoCut
<1>3. Ignored(r.tok) \/ r.tok \notin Known
  BY DEF TakeCommand
<1> HIDE DEF r, W
<1>4. /\ r.tok = NULL => CutUpto(<<>>, linebuf, Len(linebuf))
      /\ r.tok # NULL => /\ r.tok \in Text
                         /\ \E e \in 0 .. Len(linebuf) :
                              r.rest = After(linebuf, e) /\ CutUpto(Append(<<>>, r.tok), linebuf, e)
  BY <1>1, <1>2, CutGoesOn
<1>5. CASE r.tok = NULL
  <2>1. W = <<>>
    BY <1>1, <1>2, <1>4, <1>5, CutIsWords DEF W
  <2>2. ~IsCommand(W)
    BY <2>1 DEF IsCommand
  <2>3. Commands(linebuf) = <<>> /\ ~Exits(linebuf)
    BY <2>2 DEF Commands, Said, Exits, W
  <2>4. executed' = executed \o Commands(linebuf)
    BY <1>1, <2>3, AppendNothing DEF MeaningInv, WordsInv, TypeOK
  <2> QED
    BY <1>1, <2>3, <2>4, LineDone
<1>6. CASE r.tok # NULL
  <2> DEFINE x == Append(<<>>, r.tok)
  <2>1. x \in Seq(Text) /\ Len(x) = 1 /\ x[1] = r.tok
    BY <1>4, <1>6
  <2>2. PICK e \in 0 .. Len(linebuf) : CutUpto(x, linebuf, e)
    BY <1>4, <1>6
  <2> HIDE DEF x
  <2>3. W \in Seq(Text) /\ IsBegin(x, W)
    BY <1>1, <2>1, <2>2, CutBegins DEF W
  <2>4. W[1] = r.tok
    BY <2>1, <2>3 DEF IsBegin
  <2>5. r.tok \notin Known
    <3> SUFFICES ASSUME r.tok \in Known PROVE FALSE
      OBVIOUS
    <3>1. PICK c \in {START} \cup DOMAIN Arity : r.tok = <<c>>
      BY DEF Known
    <3>2. c # HASH
      BY LetterAssumption, CommandAssumption
    <3> QED
      BY <1>3, <1>6, <3>1, <3>2 DEF Ignored
  <2>6. ~IsCommand(W)
    BY <2>4, <2>5 DEF IsCommand
  <2>7. Commands(linebuf) = <<>> /\ ~Exits(linebuf)
    BY <2>6 DEF Commands, Said, Exits, W
  <2>8. executed' = executed \o Commands(linebuf)
    BY <1>1, <2>7, AppendNothing DEF MeaningInv, WordsInv, TypeOK
  <2> QED
    BY <1>1, <2>7, <2>8, LineDone
<1> QED
  BY <1>5, <1>6

\* A start line is carried out with all its words, if there is one to start.
LEMMA ExecuteCarriesOut ==
  ASSUME MeaningInv, Execute
  PROVE  Meaning!Next
<1> DEFINE x == <<cmd>> \o Arguments
<1>1. /\ pc = "fork" /\ pc' = "readline" /\ UNCHANGED src
      /\ executed' = IF start_argv[0] = NULL THEN executed ELSE Append(executed, x)
  BY DEF Execute, lineVars
<1>2. /\ cmd = <<START>> /\ cmd \in Text /\ linebuf \in Text
      /\ executed \in Seq(Seq(Text)) /\ CutUpto(x, linebuf, Len(linebuf))
  BY <1>1 DEF MeaningInv, WordsInv, TypeOK, TokensInv
<1>3. Arguments \in Seq(Text) /\ (Arguments = <<>> <=> start_argv[0] = NULL)
  BY ArgumentsType DEF MeaningInv, WordsInv, TypeOK
<1>4. x \in Seq(Text) /\ Len(x) = Len(Arguments) + 1 /\ Len(Arguments) \in Nat
  BY <1>2, <1>3, AppendBehind
<1>5. cmd \in Known
  BY <1>2 DEF Known
<1>6. IsBegin(x, x)
  BY <1>4 DEF IsBegin
<1>7. x[1] = <<START>> /\ IsCommand(x) /\ Needed(x) = 2
  BY <1>2, <1>3, <1>4, <1>5, <1>6, KnownSays
<1> HIDE DEF x
<1>8. Words(linebuf) = x
  BY <1>2, <1>4, CutIsWords
<1>9. <<WAITFOR>> # <<START>> /\ <<MKNOD>> # <<START>>
  BY CommandAssumption
<1>10. Len(x) < 2 <=> start_argv[0] = NULL
  BY <1>3, <1>4, EmptySeq
<1>11. Commands(linebuf) = IF start_argv[0] = NULL THEN <<>> ELSE <<x>>
  <2>1. ~Refused(x)
    BY <1>7, <1>9 DEF Refused
  <2> QED
    BY <1>7, <1>8, <1>10, <2>1 DEF Commands, Said
<1>12. executed' = executed \o Commands(linebuf)
  <2>1. CASE start_argv[0] = NULL
    <3>1. executed' = executed /\ Commands(linebuf) = <<>>
      BY <1>1, <1>11, <2>1
    <3> QED
      BY <1>2, <3>1, AppendNothing
  <2>2. CASE start_argv[0] # NULL
    <3>1. executed' = Append(executed, x) /\ Commands(linebuf) = <<x>>
      BY <1>1, <1>11, <2>2
    <3> QED
      BY <1>2, <1>4, <3>1, AppendOne
  <2> QED
    BY <2>1, <2>2
<1>13. ~Exits(linebuf)
  BY <1>7, <1>8, <1>9 DEF Exits
<1> QED
  BY <1>1, <1>12, <1>13, LineDone

\* A line whose words end before its command has all of them says nothing, and a
\* waitfor exits.
LEMMA FixedGoesWithout ==
  ASSUME MeaningInv, s_cmd_fixed
  PROVE  [Meaning!Next]_(Meaning!vars)
<1> DEFINE r == s_tokenize(ch)
           W == Words(linebuf)
<1>1. /\ pc = "words" /\ cmd # <<START>> /\ UNCHANGED <<src, linebuf, executed>>
      /\ r.tok = NULL => pc' = IF cmd = <<WAITFOR>> THEN "exit" ELSE "readline"
      /\ r.tok # NULL => pc' \in {"call", "words"}
  BY DEF s_cmd_fixed, lineVars
<1>2. /\ linebuf \in Text /\ cmd \in Text /\ args \in Seq(Text) /\ cmd \in Known
      /\ executed \in Seq(Seq(Text)) /\ Len(args) < Arity[cmd[1]] /\ Len(args) \in Nat
  BY <1>1 DEF MeaningInv, WordsInv, TypeOK, NeedsInv
<1>3. Arity[cmd[1]] \in Nat
  <2>1. cmd[1] \in DOMAIN Arity
    BY <1>1, <1>2 DEF Known
  <2> QED
    BY <2>1, CommandAssumption
<1>4. r.tok = NULL => CutUpto(<<cmd>> \o args, linebuf, Len(linebuf))
  BY TokensFixed DEF MeaningInv
<1> HIDE DEF r, W
<1>5. CASE r.tok = NULL
  <2> DEFINE x == <<cmd>> \o args
  <2>1. x \in Seq(Text) /\ Len(x) = Len(args) + 1 /\ IsBegin(x, x)
    <3>1. x \in Seq(Text) /\ Len(x) = Len(args) + 1
      BY <1>2, AppendBehind, Behind
    <3> QED
      BY <3>1 DEF IsBegin
  <2>2. x[1] = cmd /\ IsCommand(x) /\ Needed(x) = Arity[cmd[1]] + 1
    BY <1>1, <1>2, <2>1, KnownSays
  <2> HIDE DEF x
  <2>3. W = x
    BY <1>2, <1>4, <1>5, <2>1, CutIsWords DEF x, W
  <2>4. Len(x) < Needed(x)
    BY <1>2, <1>3, <2>1, <2>2
  <2>5. Commands(linebuf) = <<>> /\ (Exits(linebuf) <=> cmd = <<WAITFOR>>)
    BY <2>2, <2>3, <2>4 DEF Commands, Said, Exits, W
  <2>6. executed' = executed \o Commands(linebuf)
    BY <1>1, <1>2, <2>5, AppendNothing
  <2> QED
    BY <1>1, <1>5, <2>5, <2>6, LineDone
<1>6. CASE r.tok # NULL
  BY <1>1, <1>6 DEF Meaning!vars
<1> QED
  BY <1>5, <1>6

\* The command that is called, and its arguments, are what the line says, unless it
\* is a mknod that is refused.
LEMMA CallSays ==
  ASSUME MeaningInv, pc = "call", NEW x, x = <<cmd>> \o args
  PROVE  /\ Commands(linebuf) = IF Refused(x) THEN <<>> ELSE <<x>>
         /\ ~Exits(linebuf)
         /\ x \in Seq(Text)
<1> DEFINE W == Words(linebuf)
           n == Arity[cmd[1]] + 1
<1>1. /\ linebuf \in Text /\ cmd \in Text /\ args \in Seq(Text)
      /\ cmd \in Known /\ cmd # <<START>> /\ Len(args) = Arity[cmd[1]]
  BY DEF MeaningInv, WordsInv, TypeOK, NeedsInv
<1>2. x \in Seq(Text) /\ Len(x) = n /\ n \in Nat /\ 1 <= n /\ x[1] = cmd
  <2>1. Len(x) = Len(args) + 1 /\ Len(args) \in Nat /\ x[1] = cmd
    BY <1>1, Behind
  <2>2. x \in Seq(Text)
    BY <1>1, AppendBehind
  <2> QED
    BY <1>1, <2>1, <2>2
<1>3. PICK k \in 0 .. Len(linebuf) : CutUpto(x, linebuf, k)
  <2>1. Taken = args
    BY <1>1 DEF Taken
  <2> QED
    BY <2>1 DEF MeaningInv, TokensInv
<1>4. W \in Seq(Text) /\ IsBegin(x, W)
  BY <1>1, <1>2, <1>3, CutBegins DEF W
<1> HIDE DEF W
<1>5. W[1] = cmd /\ IsCommand(W) /\ Len(W) >= n /\ Needed(W) = n /\ Len(W) \in Nat
  <2>1. IsBegin(<<cmd>> \o args, W)
    BY <1>4
  <2>2. /\ W[1] = cmd /\ IsCommand(W) /\ Len(W) >= Len(args) + 1
        /\ Needed(W) = IF cmd = <<START>> THEN 2 ELSE Arity[cmd[1]] + 1
    BY <1>1, <1>4, <2>1, KnownSays
  <2>3. Len(W) \in Nat
    BY <1>4
  <2> QED
    BY <1>1, <2>2, <2>3
<1>6. \A i \in 1 .. n : W[i] = x[i]
  BY <1>2, <1>4 DEF IsBegin
<1>7. Refused(W) <=> Refused(x)
  <2>1. W[1] = x[1]
    BY <1>2, <1>5
  <2>2. cmd = <<MKNOD>> => n = 4 /\ W[4] = x[4]
    <3> SUFFICES ASSUME cmd = <<MKNOD>> PROVE n = 4 /\ W[4] = x[4]
      OBVIOUS
    <3>1. cmd[1] = MKNOD
      OBVIOUS
    <3>2. n = 4
      BY <3>1, CommandAssumption
    <3>3. 4 \in 1 .. n
      BY <3>2
    <3> QED
      BY <1>6, <3>2, <3>3
  <2> QED
    BY <1>2, <2>1, <2>2 DEF Refused
<1>8. SubSeq(W, 1, n) = x
  <2>1. Len(x) = n /\ Len(x) <= Len(W)
    BY <1>2, <1>5
  <2> HIDE DEF n
  <2> QED
    BY <1>2, <1>4, <1>6, <2>1, SameBegin
<1>9. ~(Len(W) < Needed(W))
  BY <1>2, <1>5
<1>10. Commands(linebuf) = Said(W) /\ W[1] # <<START>>
  BY <1>1, <1>5 DEF Commands, W
<1> HIDE DEF n
<1>11. Commands(linebuf) = IF Refused(x) THEN <<>> ELSE <<x>>
  BY <1>5, <1>7, <1>8, <1>9, <1>10 DEF Said
<1>12. ~Exits(linebuf)
  BY <1>9 DEF Exits, W
<1> QED
  BY <1>2, <1>11, <1>12

LEMMA CallCarriesOut ==
  ASSUME MeaningInv, Call \/ s_cmd_waitfor
  PROVE  Meaning!Next
<1> DEFINE x == <<cmd>> \o args
<1>1. /\ pc = "call" /\ pc' = "readline" /\ UNCHANGED src
      /\ executed' = IF Refused(x) THEN executed ELSE Append(executed, x)
  <2>1. CASE Call
    BY <2>1 DEF Call, lineVars
  <2>2. CASE s_cmd_waitfor
    <3>1. cmd = <<WAITFOR>> /\ cmd # <<MKNOD>>
      BY <2>2, CommandAssumption DEF s_cmd_waitfor
    <3>2. args \in Seq(Text) /\ cmd \in Text
      BY DEF MeaningInv, WordsInv, TypeOK
    <3>3. x[1] = cmd
      BY <3>2, Behind
    <3>4. ~Refused(x)
      BY <3>1, <3>3 DEF Refused
    <3> QED
      BY <2>2, <3>4 DEF s_cmd_waitfor, lineVars
  <2> QED
    BY <2>1, <2>2
<1>2. /\ Commands(linebuf) = IF Refused(x) THEN <<>> ELSE <<x>>
      /\ ~Exits(linebuf)
      /\ x \in Seq(Text)
  BY <1>1, CallSays
<1>3. executed \in Seq(Seq(Text))
  BY DEF MeaningInv, WordsInv, TypeOK
<1> HIDE DEF x
<1>4. executed' = executed \o Commands(linebuf)
  <2>1. CASE Refused(x)
    BY <1>1, <1>2, <1>3, <2>1, AppendNothing
  <2>2. CASE ~Refused(x)
    BY <1>1, <1>2, <1>3, <2>2, AppendOne
  <2> QED
    BY <2>1, <2>2
<1> QED
  BY <1>1, <1>2, <1>4, LineDone

\* Every script is carried out as it is written, whatever it says, up to the first line
\* that linebuf cannot hold, for all sizes with LINEBUF <= 2 * ARG_SZ and all commands
\* with any number of arguments: its lines in order, each once, each up to the system
\* call of the command that its words are; no word is lost, joined, cut in two or left
\* over from another line, and nothing is passed over but what is no command, has too
\* few words or would make a node of no device.
THEOREM ScriptsMeanWhatTheySay == Spec => AsWritten
<1>1. Init => Meaning!Init
  BY DEF Init, Meaning!Init
<1>2. MeaningInv /\ [Next]_vars => [Meaning!Next]_(Meaning!vars)
  <2> SUFFICES ASSUME MeaningInv, [Next]_vars
               PROVE  [Meaning!Next]_(Meaning!vars)
    OBVIOUS
  <2>1. CASE ReadLine
    BY <2>1, ReadLineTakes
  <2>2. CASE EndOfScript
    <3>1. Meaning!EndOfScript
      BY <2>2 DEF EndOfScript, lineVars, Meaning!EndOfScript
    <3> QED
      BY <3>1 DEF Meaning!Next
  <2>3. CASE TakeCommand
    <3>1. CASE pc' = "readline"
      BY <2>3, <3>1, TakeCommandPasses
    <3>2. CASE pc' # "readline"
      BY <2>3, <3>2 DEF TakeCommand, lineVars, Meaning!vars
    <3> QED
      BY <3>1, <3>2
  <2>4. CASE s_cmd_start
    BY <2>4 DEF s_cmd_start, lineVars, Meaning!vars
  <2>5. CASE Execute
    BY <2>5, ExecuteCarriesOut
  <2>6. CASE s_cmd_fixed
    BY <2>6, FixedGoesWithout
  <2>7. CASE Call \/ s_cmd_waitfor
    BY <2>7, CallCarriesOut
  <2>8. CASE UNCHANGED vars
    BY <2>8 DEF vars, lineVars, Meaning!vars
  <2> QED
    BY <2>1, <2>2, <2>3, <2>4, <2>5, <2>6, <2>7, <2>8 DEF Next, Steps
<1> QED
  BY <1>1, <1>2, MeaningAlways, PTL DEF Spec, AsWritten, Meaning!Spec
=============================================================================
