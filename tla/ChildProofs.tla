----------------------------- MODULE ChildProofs -----------------------------
(***************************************************************************)
(* Of every line of /etc/ttys, every number of descriptors and whatever is *)
(* open in process 1: construct_argv() keeps to what it allocated and      *)
(* stores the words of the line, and a child that execs has its terminal   *)
(* and what process 1 had, no more.                                        *)
(***************************************************************************)
EXTENDS ChildTerminal, CStringProofs

-----------------------------------------------------------------------------
(* The arguments of a getty.                                               *)

\* A word takes two characters of its line, or the rest of it.
LEMMA StrtokUses ==
  ASSUME NEW s \in Seq(Char)
  PROVE  /\ strtok(s).tok \in Seq(Char) \cup {NULL}
         /\ strtok(s).rest \in Seq(Char)
         /\ s = <<>> => strtok(s).tok = NULL
         /\ strtok(s).tok # NULL /\ strtok(s).rest # <<>> =>
              Len(strtok(s).rest) + 2 <= Len(s)
<1> DEFINE b == Before(s, Char \ separators)
           word == After(s, b)
           n == Before(word, separators)
           tok == Upto(word, n)
           rest == After(word, n + 1)
           r == strtok(s)
<1>1. b \in 0 .. Len(s) /\ Len(s) \in Nat
  BY BeforeFinds
<1>2. b < Len(s) => s[b + 1] \notin separators
  BY BeforeFinds
<1> HIDE DEF b
<1>3. /\ word \in Seq(Char)
      /\ Len(word) = Len(s) - b
      /\ \A i \in 1 .. Len(s) - b : word[i] = s[b + i]
  <2>1. b \in Nat /\ b <= Len(s)
    BY <1>1
  <2> QED
    BY <2>1, AfterType
<1>4. r = IF word = <<>> THEN [tok |-> NULL, rest |-> <<>>]
          ELSE [tok |-> tok, rest |-> rest]
  BY DEF strtok, b
<1> HIDE DEF word, r
<1>5. Len(word) \in Nat /\ Len(word) <= Len(s)
  BY <1>1, <1>3
<1>6. CASE word = <<>>
  BY <1>4, <1>6, EmptySeq DEF r
<1>7. CASE word # <<>>
  <2>1. Len(word) > 0 /\ b < Len(s)
    BY <1>1, <1>3, <1>5, <1>7, EmptyString
  <2>2. word[1] \notin separators
    BY <1>1, <1>2, <1>3, <2>1
  <2>3. /\ n \in 0 .. Len(word)
        /\ n < Len(word) => word[n + 1] \in separators
    BY <1>3, BeforeFinds
  <2> HIDE DEF n
  <2>4. n \in Nat /\ n > 0 /\ n + 1 \in Nat
    BY <1>5, <2>1, <2>2, <2>3
  <2>5. tok \in Seq(Char)
    BY <1>3, <2>3, UptoType
  <2>6. /\ rest \in Seq(Char)
        /\ Len(rest) = IF n + 1 <= Len(word) THEN Len(word) - (n + 1) ELSE 0
    BY <1>3, <2>4, AfterType
  <2> HIDE DEF tok, rest
  <2>7. rest # <<>> => Len(rest) + 2 <= Len(s)
    <3> SUFFICES ASSUME rest # <<>> PROVE Len(rest) + 2 <= Len(s)
      OBVIOUS
    <3>1. Len(rest) # 0
      BY <2>6, EmptyString
    <3>2. Len(rest) = Len(word) - (n + 1)
      BY <2>6, <3>1
    <3> QED
      BY <1>1, <1>5, <2>4, <3>2
  <2>8. s # <<>>
    BY <1>1, <2>1, EmptyString
  <2>9. r.tok = tok /\ r.rest = rest
    BY <1>4, <1>7
  <2> QED
    BY <2>5, <2>6, <2>7, <2>8, <2>9 DEF r
<1> QED
  BY <1>6, <1>7

(* Each word that was stored has used two characters of the command line,   *)
(* save that the last may have used but one.                                *)
ArgvInv ==
  /\ GettyTypeOK
  /\ ArgvFits
  /\ pc \in {"init_sysinit", "setupargv"} => argv = <<>>
  /\ pc = "construct_argv" =>
       /\ size = Allocated(command)
       /\ 2 * Len(argv) <= Len(command) + 1
       /\ save # <<>> => 2 * Len(argv) + Len(save) <= Len(command)

LEMMA ArgvInit == Init => ArgvInv
<1> SUFFICES ASSUME Init PROVE ArgvInv
  OBVIOUS
<1>1. typ.ty_getty \in Seq(Char) /\ typ.ty_name \in Seq(Char)
  BY TtyentAssumption DEF Init, GettyInit
<1>2. <<>> \in Seq(Char) /\ <<>> \in Seq(Seq(Char) \cup {NULL}) /\ Len(<<>>) = 0
  BY EmptySeq
<1> QED
  BY <1>1, <1>2 DEF Init, GettyInit, ArgvInv, GettyTypeOK, ArgvFits

LEMMA ArgvNext == ArgvInv /\ [Next]_vars => ArgvInv'
<1> SUFFICES ASSUME ArgvInv, [Next]_vars PROVE ArgvInv'
  OBVIOUS
<1>0. /\ Len(argv) \in Nat /\ Len(save) \in Nat /\ Len(command) \in Nat
      /\ size \in Nat /\ Len(argv) <= size
  BY DEF ArgvInv, GettyTypeOK, ArgvFits
<1>1. CASE SetupArgv
  <2>1. /\ pc = "setupargv" /\ argv = <<>> /\ UNCHANGED <<typ, argv>>
    BY <1>1 DEF SetupArgv, ArgvInv
  <2>2. CASE UNCHANGED <<command, save, size>> /\ pc' = "freed"
    BY <2>1, <2>2 DEF ArgvInv, GettyTypeOK, ArgvFits
  <2>3. CASE /\ command' = typ.ty_getty \o <<BLANK>> \o typ.ty_name
             /\ save' = command'
             /\ size' = Allocated(command')
             /\ pc' = "construct_argv"
    <3>1. command' \in Seq(Char)
      BY <2>3, CharAssumption DEF ArgvInv, GettyTypeOK
    <3>2. Len(command') \in Nat /\ Len(argv') = 0
      BY <2>1, <3>1, EmptySeq
    <3>3. size' \in Nat
      <4>1. \A n \in Nat : (n + 1) \div 2 + 1 \in Nat
        OBVIOUS
      <4>2. size' = (Len(command') + 1) \div 2 + 1
        BY <2>3 DEF Allocated
      <4> QED
        BY <3>2, <4>1, <4>2
    <3>4. GettyTypeOK' /\ ArgvFits'
      <4>1. argv' \in Seq(Seq(Char) \cup {NULL}) /\ typ' = typ
        BY <2>1 DEF ArgvInv, GettyTypeOK
      <4>2. save' \in Seq(Char)
        BY <2>3, <3>1
      <4>3. Len(argv') <= size'
        BY <3>2, <3>3
      <4> QED
        BY <3>1, <3>3, <4>1, <4>2, <4>3 DEF ArgvInv, GettyTypeOK, ArgvFits
    <3>5. /\ 2 * Len(argv') <= Len(command') + 1
          /\ 2 * Len(argv') + Len(save') <= Len(command')
      <4>1. save' = command'
        BY <2>3
      <4> QED
        BY <3>2, <4>1
    <3>6. size' = Allocated(command)'
      BY <2>3 DEF Allocated
    <3> QED
      BY <2>3, <3>4, <3>5, <3>6 DEF ArgvInv
  <2> QED
    BY <1>1, <2>2, <2>3 DEF SetupArgv
<1>2. CASE construct_argv
  <2> DEFINE r == strtok(save)
  <2>1. /\ r.tok \in Seq(Char) \cup {NULL} /\ r.rest \in Seq(Char)
        /\ save = <<>> => r.tok = NULL
        /\ r.tok # NULL /\ r.rest # <<>> => Len(r.rest) + 2 <= Len(save)
    BY StrtokUses DEF ArgvInv, GettyTypeOK
  <2> HIDE DEF r
  <2>2. /\ pc = "construct_argv"
        /\ argv' = Append(argv, r.tok)
        /\ save' = r.rest
        /\ UNCHANGED <<typ, command, size>>
        /\ r.tok # NULL => pc' = "construct_argv"
        /\ r.tok = NULL => pc' \in {"freed", "fork"}
    BY <1>2 DEF construct_argv, Rest, r
  <2>3. /\ size = Allocated(command)
        /\ 2 * Len(argv) <= Len(command) + 1
        /\ save # <<>> => 2 * Len(argv) + Len(save) <= Len(command)
    BY <2>2 DEF ArgvInv
  <2>4. Len(argv) + 1 <= size
    BY <1>0, <2>3 DEF Allocated
  <2>5. argv' \in Seq(Seq(Char) \cup {NULL}) /\ Len(argv') = Len(argv) + 1
    BY <2>1, <2>2 DEF ArgvInv, GettyTypeOK
  <2>6. GettyTypeOK' /\ ArgvFits'
    BY <2>1, <2>2, <2>4, <2>5 DEF ArgvInv, GettyTypeOK, ArgvFits
  <2>7. ASSUME r.tok # NULL
        PROVE  /\ 2 * Len(argv') <= Len(command) + 1
               /\ r.rest # <<>> => 2 * Len(argv') + Len(r.rest) <= Len(command)
    <3> DEFINE l == Len(save)
               n == Len(r.rest)
               a == Len(argv)
               c == Len(command)
    <3>1. save # <<>> /\ l > 0 /\ n \in Nat
      BY <1>0, <2>1, <2>7, EmptyString DEF ArgvInv, GettyTypeOK
    <3>2. 2 * a + l <= c /\ a \in Nat /\ c \in Nat /\ l \in Nat
      BY <1>0, <2>3, <3>1
    <3>3. r.rest # <<>> => n + 2 <= l
      BY <2>1, <2>7
    <3> HIDE DEF l, n, a, c
    <3>4. 2 * (a + 1) <= c + 1
      BY <3>1, <3>2
    <3>5. n + 2 <= l => 2 * (a + 1) + n <= c
      BY <3>1, <3>2
    <3> QED
      BY <2>5, <3>3, <3>4, <3>5 DEF a, c, n
  <2> QED
    BY <2>2, <2>3, <2>6, <2>7 DEF ArgvInv
<1>3. CASE UNCHANGED argVars /\ pc' # "construct_argv" /\ (pc' = "setupargv" => pc = "init_sysinit")
                             /\ pc' # "init_sysinit"
  BY <1>3 DEF ArgvInv, GettyTypeOK, ArgvFits, argVars
<1>4. CASE UNCHANGED vars
  BY <1>4 DEF vars, argVars, ArgvInv, GettyTypeOK, ArgvFits
<1> QED
  BY <1>1, <1>2, <1>3, <1>4
     DEF Next, init_sysinit, Fork, Setsid, OpenTty, DupHigh, ControlTty, Refused,
         DupStd, Exec, Exits

\* Whatever the lines of /etc/ttys, and however they are separated: the words of
\* a getty's command line and the NULL fit what construct_argv() allocated.
THEOREM GettyArgvFits == Spec => []ArgvFits
<1>1. Init => ArgvInv
  BY ArgvInit
<1>2. ArgvInv /\ [Next]_vars => ArgvInv'
  BY ArgvNext
<1>3. ArgvInv => ArgvFits
  BY DEF ArgvInv
<1> QED
  BY <1>1, <1>2, <1>3, PTL DEF Spec

-----------------------------------------------------------------------------
(* The words of a getty.                                                   *)

\* A place strtok() may go on from: no word is cut in two there.
AtEdge(s, k) ==
  /\ k \in 0 .. Len(s)
  /\ k = 0 \/ k = Len(s) \/ s[k] \in separators

\* strtok() skips no word and ends the one it finds where the word ends.
LEMMA StrtokFinds ==
  ASSUME NEW s \in Seq(Char), NEW k, AtEdge(s, k)
  PROVE  \/ /\ strtok(After(s, k)).tok = NULL
            /\ \A b \in Begins(s) : b <= k
         \/ /\ strtok(After(s, k)).tok # NULL
            /\ \E b \in Begins(s) : \E e \in 0 .. Len(s) :
                 /\ k < b /\ b <= e
                 /\ IsWordAt(strtok(After(s, k)).tok, s, b)
                 /\ strtok(After(s, k)).rest = After(s, e)
                 /\ AtEdge(s, e)
                 /\ \A c \in Begins(s) : c <= e => c <= k \/ c = b
<1> DEFINE L == Len(s)
           u == After(s, k)
           m == Before(u, Char \ separators)
           p == k + m
           word == After(u, m)
           n == Before(word, separators)
           r == strtok(u)
<1>1. /\ L \in Nat /\ k \in 0 .. L /\ k \in Nat /\ \A i \in 1 .. L : s[i] \in Char
      /\ k = 0 \/ k = L \/ s[k] \in separators
  BY LenProperties DEF AtEdge
<1>2. r = IF word = <<>> THEN [tok |-> NULL, rest |-> <<>>]
          ELSE [tok |-> Upto(word, n), rest |-> After(word, n + 1)]
  BY DEF strtok
<1> HIDE DEF r, u
<1>3. /\ m \in Nat /\ k + m <= L
      /\ \A i \in k + 1 .. k + m : s[i] \notin Char \ separators
      /\ k + m < L => s[k + m + 1] \in Char \ separators
      /\ word = After(s, k + m)
  BY <1>1, PieceAt DEF u
<1> HIDE DEF m, word
<1>4. /\ p \in Nat /\ k <= p /\ p <= L /\ p \in 0 .. L
      /\ \A i \in k + 1 .. p : s[i] \in separators
      /\ p < L => s[p + 1] \notin separators
  BY <1>1, <1>3
<1>5. word = After(s, p) /\ word \in Seq(Char) /\ Len(word) = L - p
  BY <1>1, <1>3, <1>4, AfterType
<1> HIDE DEF p
<1>6. CASE p = L
  <2>1. word = <<>>
    BY <1>1, <1>5, <1>6, EmptyString
  <2>2. r.tok = NULL
    BY <1>2, <2>1
  <2>3. \A b \in Begins(s) : b <= k
    BY <1>1, <1>4, <1>6 DEF Begins
  <2> QED
    BY <2>2, <2>3 DEF r, u
<1>7. CASE p # L
  <2> DEFINE b == p + 1
             tok == Upto(word, n)
             rest == After(word, n + 1)
             e == IF p + n + 1 <= L THEN p + n + 1 ELSE L
  <2>1. word # <<>>
    BY <1>1, <1>4, <1>5, <1>7, EmptyString
  <2>2. r.tok = tok /\ r.rest = rest
    BY <1>2, <2>1
  <2>3. b \in Begins(s)
    <3>1. b \in 1 .. L /\ s[b] \notin separators /\ b - 1 = p
      BY <1>1, <1>4, <1>7
    <3>2. b > 1 => s[p] \in separators
      BY <1>1, <1>4, <1>7
    <3> QED
      BY <3>1, <3>2 DEF Begins
  <2>4. /\ n \in Nat /\ p + n <= L
        /\ \A i \in b .. p + n : s[i] \notin separators
        /\ p + n < L => s[p + n + 1] \in separators
        /\ tok \in Seq(Char) /\ Len(tok) = n
        /\ tok = SubSeq(s, b, p + n)
        /\ rest = After(s, e)
    <3>1. n = Before(word, separators) /\ p \in 0 .. Len(s) /\ word = After(s, p)
      BY <1>4, <1>5
    <3> HIDE DEF n, L
    <3>2. /\ n \in Nat /\ p + n <= Len(s)
          /\ \A i \in p + 1 .. p + n : s[i] \notin separators
          /\ p + n < Len(s) => s[p + n + 1] \in separators
          /\ Upto(word, n) \in Seq(Char) /\ Len(Upto(word, n)) = n
          /\ Upto(word, n) = SubSeq(s, p + 1, p + n)
          /\ After(word, n + 1)
               = After(s, IF p + n + 1 <= Len(s) THEN p + n + 1 ELSE Len(s))
      BY <3>1, PieceAt
    <3> QED
      BY <3>2 DEF L
  <2> HIDE DEF n, tok, rest
  <2>5. n > 0
    BY <1>1, <1>4, <1>7, <2>4
  <2>6. tok # NULL
    BY <2>4, TtyentAssumption
  <2>7. IsWordAt(tok, s, b)
    <3>1. b + Len(tok) - 1 = p + n
      BY <1>4, <2>4
    <3> QED
      BY <2>4, <3>1 DEF IsWordAt
  <2>8. e \in 0 .. L /\ k < b /\ b <= e /\ AtEdge(s, e)
    BY <1>1, <1>4, <2>4, <2>5 DEF AtEdge
  <2>9. ASSUME NEW c \in Begins(s), c <= e, ~(c <= k) PROVE c = b
    <3>1. /\ c \in 1 .. L /\ s[c] \notin separators
          /\ c > 1 => s[c - 1] \in separators
      BY DEF Begins
    <3>2. ~(c \in k + 1 .. p)
      BY <1>4, <3>1
    <3>3. c >= b /\ c <= p + n + 1
      BY <1>1, <1>4, <2>4, <2>9, <3>1, <3>2
    <3>4. c # p + n + 1
      BY <1>1, <1>4, <2>4, <3>1
    <3>5. ~(c - 1 \in b .. p + n)
      <4>1. c > 1 \/ ~(c - 1 \in b .. p + n)
        BY <1>4, <2>4, <3>1
      <4> QED
        BY <2>4, <3>1, <4>1
    <3> QED
      BY <1>4, <2>4, <3>1, <3>3, <3>4, <3>5
  <2> HIDE DEF e, b
  <2>10. r.tok # NULL
    BY <2>2, <2>6
  <2>11. /\ e \in 0 .. Len(s) /\ b \in Begins(s) /\ k < b /\ b <= e
         /\ IsWordAt(r.tok, s, b) /\ r.rest = After(s, e) /\ AtEdge(s, e)
         /\ \A c \in Begins(s) : c <= e => c <= k \/ c = b
    BY <2>2, <2>3, <2>4, <2>7, <2>8, <2>9
  <2> QED
    BY <2>10, <2>11 DEF r, u
<1> QED
  BY <1>6, <1>7

LEMMA BeginsType ==
  ASSUME NEW s \in Seq(Char)
  PROVE  Begins(s) \in SUBSET Nat /\ IsFiniteSet(Begins(s))
<1>1. 1 \in Int /\ Len(s) \in Int
  OBVIOUS
<1>2. IsFiniteSet(1 .. Len(s))
  BY <1>1, FS_Interval
<1>3. Begins(s) \subseteq 1 .. Len(s)
  BY DEF Begins
<1> QED
  BY <1>2, <1>3, FS_Subset

Line == typ.ty_getty \o <<BLANK>> \o typ.ty_name

\* Those of the words of the line that begin in its first k characters are stored.
Stored(k) ==
  /\ AtEdge(Line, k)
  /\ save = After(Line, k)
  /\ Len(argv) = WordCount(Line, k)
  /\ \A b \in Begins(Line) : b <= k => IsWordAt(argv[WordCount(Line, b)], Line, b)

HasArgv == {"fork", "setsid", "open", "F_DUPFD", "TIOCSCTTY", "dup2", "exec", "image"}

WordsInv ==
  /\ pc = "construct_argv" => command = Line /\ \E k \in Nat : Stored(k)
  /\ kind = "getty" /\ pc \in HasArgv => IsArgvOf(argv, Line)

LEMMA LineType == ArgvInv => Line \in Seq(Char)
  BY CharAssumption DEF ArgvInv, GettyTypeOK, Line

LEMMA WordsBegin ==
  ASSUME ArgvInv, ArgvInv', SetupArgv
  PROVE  pc' = "construct_argv" => command' = Line' /\ Stored(0)'
<1> SUFFICES ASSUME pc' = "construct_argv" PROVE command' = Line' /\ Stored(0)'
  OBVIOUS
<1>1. /\ command' = Line /\ save' = Line /\ argv' = argv /\ typ' = typ /\ argv = <<>>
  BY DEF SetupArgv, ArgvInv, Line
<1>2. Line' = Line /\ Line \in Seq(Char)
  BY <1>1, LineType DEF Line
<1> DEFINE s == Line
<1> HIDE DEF s
<1>3. s \in Seq(Char) /\ Len(s) \in Nat
  BY <1>2 DEF s
<1>4. s = After(s, 0)
  BY <1>3, AfterNone
<1>5. {b \in Begins(s) : b <= 0} = {}
  BY DEF Begins
<1>6. WordCount(s, 0) = 0
  BY <1>5, FS_EmptySet DEF WordCount, Counted
<1>7. AtEdge(s, 0)
  BY <1>3 DEF AtEdge
<1>8. \A b \in Begins(s) : ~(b <= 0)
  BY <1>5
<1>9. Len(argv') = 0
  BY <1>1
<1> QED
  BY <1>1, <1>2, <1>4, <1>6, <1>7, <1>8, <1>9 DEF Stored, s

LEMMA WordsGoOn ==
  ASSUME ArgvInv, construct_argv, command = Line, NEW k \in Nat, Stored(k)
  PROVE  /\ pc' = "construct_argv" => command' = Line' /\ \E e \in Nat : Stored(e)'
         /\ pc' = "fork" => IsArgvOf(argv, Line)'
<1> DEFINE s == Line
           r == strtok(save)
<1>1. /\ argv' = Append(argv, r.tok)
      /\ save' = r.rest
      /\ r.tok # NULL => pc' = "construct_argv"
      /\ r.tok = NULL => pc' \in {"freed", "fork"}
      /\ command' = command /\ Line' = Line
  BY DEF construct_argv, Rest, Line
<1>2. s \in Seq(Char) /\ Len(s) \in Nat /\ k <= Len(s)
  BY LineType DEF Stored, AtEdge
<1>3. argv \in Seq(Seq(Char) \cup {NULL})
  BY DEF ArgvInv, GettyTypeOK
<1>4. /\ AtEdge(s, k) /\ r = strtok(After(s, k))
      /\ Len(argv) = WordCount(s, k)
      /\ \A b \in Begins(s) : b <= k => IsWordAt(argv[WordCount(s, b)], s, b)
  BY DEF Stored
<1>5. Line' = s /\ command' = s
  BY <1>1
<1> HIDE DEF s, r
<1>6. /\ Len(argv') = WordCount(s, k) + 1
      /\ argv'[WordCount(s, k) + 1] = r.tok
      /\ \A i \in 1 .. WordCount(s, k) : argv'[i] = argv[i]
  <2>1. r.tok \in Seq(Char) \cup {NULL}
    BY StrtokUses DEF r, ArgvInv, GettyTypeOK
  <2> QED
    BY <1>1, <1>3, <1>4, <2>1
<1>7. \A b \in Begins(s) : b <= k => IsWordAt(argv'[WordCount(s, b)], s, b)
  <2> SUFFICES ASSUME NEW b \in Begins(s), b <= k
               PROVE  IsWordAt(argv'[WordCount(s, b)], s, b)
    OBVIOUS
  <2>1. k \in Nat
    BY <1>2
  <2>2. WordCount(s, b) \in 1 .. WordCount(s, k)
    BY <1>2, <2>1, BeginsType, CountedNumber DEF WordCount
  <2> QED
    BY <1>4, <1>6, <2>2
<1>8. CASE /\ r.tok = NULL
           /\ \A b \in Begins(s) : b <= k
  <2>1. {b \in Begins(s) : b <= Len(s)} = {b \in Begins(s) : b <= k}
    BY <1>8 DEF Begins
  <2>2. WordCount(s, Len(s)) = WordCount(s, k)
    BY <2>1 DEF WordCount, Counted
  <2>3. IsArgvOf(argv', s)
    BY <1>6, <1>7, <1>8, <2>2 DEF IsArgvOf
  <2> QED
    BY <1>1, <1>5, <1>8, <2>3
<1>9. CASE /\ r.tok # NULL
           /\ \E b \in Begins(s) : \E e \in 0 .. Len(s) :
                /\ k < b /\ b <= e
                /\ IsWordAt(r.tok, s, b)
                /\ r.rest = After(s, e)
                /\ AtEdge(s, e)
                /\ \A c \in Begins(s) : c <= e => c <= k \/ c = b
  <2>1. PICK b \in Begins(s) : \E e \in 0 .. Len(s) :
                /\ k < b /\ b <= e
                /\ IsWordAt(r.tok, s, b)
                /\ r.rest = After(s, e)
                /\ AtEdge(s, e)
                /\ \A c \in Begins(s) : c <= e => c <= k \/ c = b
    BY <1>9
  <2>2. PICK e \in 0 .. Len(s) :
                /\ k < b /\ b <= e
                /\ IsWordAt(r.tok, s, b)
                /\ r.rest = After(s, e)
                /\ AtEdge(s, e)
                /\ \A c \in Begins(s) : c <= e => c <= k \/ c = b
    BY <2>1
  <2>3. e \in Nat
    BY <1>2
  <2>4. WordCount(s, b) = WordCount(s, k) + 1 /\ WordCount(s, e) = WordCount(s, k) + 1
    BY <1>2, <2>2, <2>3, BeginsType, CountedNext DEF WordCount
  <2>5. \A c \in Begins(s) : c <= e => IsWordAt(argv'[WordCount(s, c)], s, c)
    BY <1>6, <1>7, <2>2, <2>4
  <2>6. Stored(e)'
    BY <1>1, <1>5, <1>6, <2>2, <2>4, <2>5 DEF Stored
  <2> QED
    BY <1>1, <1>5, <1>9, <2>3, <2>6
<1> QED
  BY <1>2, <1>4, <1>8, <1>9, StrtokFinds

LEMMA WordsNext == ArgvInv /\ ArgvInv' /\ WordsInv /\ [Next]_vars => WordsInv'
<1> SUFFICES ASSUME ArgvInv, ArgvInv', WordsInv, [Next]_vars PROVE WordsInv'
  OBVIOUS
<1>1. CASE init_sysinit
  BY <1>1 DEF init_sysinit, WordsInv, HasArgv
<1>2. CASE SetupArgv /\ UNCHANGED <<kind, initfds, ttyVars>>
  <2>1. pc' \in {"construct_argv", "freed"}
    BY <1>2 DEF SetupArgv
  <2>2. pc' = "construct_argv" => command' = Line' /\ \E k \in Nat : Stored(k)'
    BY <1>2, WordsBegin
  <2> QED
    BY <2>1, <2>2 DEF WordsInv, HasArgv
<1>3. CASE construct_argv /\ UNCHANGED <<kind, initfds, ttyVars>>
  <2>1. pc = "construct_argv" /\ pc' \in {"construct_argv", "freed", "fork"}
    BY <1>3 DEF construct_argv
  <2>2. command = Line
    BY <2>1 DEF WordsInv
  <2>3. PICK k \in Nat : Stored(k)
    BY <2>1 DEF WordsInv
  <2>4. /\ pc' = "construct_argv" => command' = Line' /\ \E e \in Nat : Stored(e)'
        /\ pc' = "fork" => IsArgvOf(argv, Line)'
    BY <1>3, <2>2, <2>3, WordsGoOn
  <2> QED
    BY <2>1, <2>4 DEF WordsInv, HasArgv
<1>4. ASSUME UNCHANGED argVars, kind' = kind, pc' # "construct_argv",
             pc' \in HasArgv => pc \in HasArgv
      PROVE  WordsInv'
  <2>1. argv' = argv /\ Line' = Line
    BY <1>4 DEF argVars, Line
  <2> QED
    BY <1>4, <2>1 DEF WordsInv
<1>5. CASE Fork \/ Setsid \/ OpenTty \/ DupHigh \/ ControlTty \/ DupStd \/ Exec
  <2>1. UNCHANGED argVars /\ kind' = kind
    BY <1>5 DEF Fork, Setsid, OpenTty, DupHigh, ControlTty, DupStd, Exec
  <2>2. pc \in HasArgv /\ pc' # "construct_argv"
    BY <1>5 DEF Fork, Setsid, OpenTty, DupHigh, ControlTty, Refused, DupStd, Exec,
                Exits, HasArgv
  <2> QED
    BY <1>4, <2>1, <2>2
<1>6. CASE UNCHANGED vars
  BY <1>6 DEF vars, argVars, WordsInv, Stored, Line
<1> QED
  BY <1>1, <1>2, <1>3, <1>5, <1>6 DEF Next

\* Whatever is written in /etc/ttys: a getty is given the words of its line and
\* of its terminal's name, each of them whole, in order, none twice and no other.
THEOREM GettyArgvAsWritten == Spec => []ArgvAsWritten
<1>1. Init => ArgvInv /\ WordsInv
  BY ArgvInit DEF Init, WordsInv, HasArgv
<1>2. ArgvInv /\ WordsInv /\ [Next]_vars => (ArgvInv /\ WordsInv)'
  BY ArgvNext, WordsNext
<1>3. WordsInv => ArgvAsWritten
  BY DEF WordsInv, ArgvAsWritten, Line, HasArgv
<1> QED
  BY <1>1, <1>2, <1>3, PTL DEF Spec

-----------------------------------------------------------------------------
(* The terminal of a child.                                                *)

LEMMA FreeFinds ==
  ASSUME NEW n \in Nat, Free(n) # NoFd
  PROVE  Free(n) \in Fd /\ Free(n) >= n /\ fds[Free(n)] = "closed"
<1> DEFINE S == {f \in Fd : f >= n /\ fds[f] = "closed"}
<1>1. S \subseteq Nat
  BY OpenMaxAssumption DEF Fd
<1>2. S # {}
  BY DEF Free
<1>3. PICK h \in S : \A g \in S : h <= g
  BY <1>1, <1>2, LeastNumber
<1>4. Free(n) = CHOOSE f \in S : \A g \in S : f <= g
  BY <1>2 DEF Free
<1> QED
  BY <1>3, <1>4

\* What process 1 has, and the terminal at one descriptor that it has closed.
TtyAt(f) ==
  /\ f \in Fd
  /\ initfds[f] = "closed"
  /\ fds = [initfds EXCEPT ![f] = "tty"]

Before_open == {"init_sysinit", "setupargv", "construct_argv", "fork",
                "setsid", "open"}

(* Where the terminal is open at each point, and that the child has it for  *)
(* its controlling terminal once login_tty() goes on to dup2().             *)
TtyInv ==
  /\ initfds \in [Fd -> {"closed", "sysinit"}]
  /\ pc \in Before_open => fds = initfds
  /\ pc = "F_DUPFD" => TtyAt(fd)
  /\ pc \in {"TIOCSCTTY", "dup2"} => TtyAt(fd) /\ fd >= HIGH
  /\ pc \in {"dup2", "exec", "image"} => leader /\ ctty
  /\ pc \in {"exec", "image"} =>
       /\ \A n \in Std : std_fd[n] = n => fds[n] = "tty"
       /\ \A n \in Fd \ Std : fds[n] # initfds[n] => n >= HIGH /\ fds[n] = "tty"
       /\ \A n, m \in Fd \ Std : fds[n] = "tty" /\ fds[m] = "tty" => n = m
       /\ \A n \in Std : std_fd[n] = NoFd => fds[n] = initfds[n]

LEMMA TtyInit == Init => TtyInv
  BY DEF Init, TtyInv, Before_open

LEMMA TtyNext == TtyInv /\ [Next]_vars => TtyInv'
<1> SUFFICES ASSUME TtyInv, [Next]_vars PROVE TtyInv'
  OBVIOUS
<1>0. /\ OPEN_MAX \in Nat /\ HIGH \in Nat /\ HIGH > 2 /\ Std \subseteq Fd
      /\ Std = {0, 1, 2} /\ Fd \subseteq Nat /\ NoFd \notin Fd
      /\ \A n \in Std : n < HIGH
  BY OpenMaxAssumption DEF Std, Fd, NoFd
<1>1. ASSUME initfds' = initfds, fds' = fds, pc \in Before_open,
             pc' \in Before_open \cup {"freed", "failed"}
      PROVE  TtyInv'
  BY <1>1 DEF TtyInv, Before_open
<1>2. CASE init_sysinit
  <2>1. /\ initfds' = initfds /\ fds' = fds /\ pc \in Before_open
        /\ pc' \in Before_open \cup {"freed", "failed"}
    BY <1>2 DEF init_sysinit, Before_open, ttyVars
  <2> QED
    BY <1>1, <2>1
<1>3. CASE SetupArgv /\ UNCHANGED <<kind, initfds, ttyVars>>
  <2>1. /\ initfds' = initfds /\ fds' = fds /\ pc \in Before_open
        /\ pc' \in Before_open \cup {"freed", "failed"}
    BY <1>3 DEF SetupArgv, Before_open, ttyVars
  <2> QED
    BY <1>1, <2>1
<1>4. CASE construct_argv /\ UNCHANGED <<kind, initfds, ttyVars>>
  <2>1. /\ initfds' = initfds /\ fds' = fds /\ pc \in Before_open
        /\ pc' \in Before_open \cup {"freed", "failed"}
    BY <1>4 DEF construct_argv, Before_open, ttyVars
  <2> QED
    BY <1>1, <2>1
<1>5. CASE Fork
  <2>1. /\ initfds' = initfds /\ fds' = fds /\ pc \in Before_open
        /\ pc' \in Before_open \cup {"freed", "failed"}
    BY <1>5 DEF Fork, Before_open, ttyVars
  <2> QED
    BY <1>1, <2>1
<1>6. CASE Setsid
  <2>1. /\ pc = "setsid" /\ pc' = "open"
        /\ UNCHANGED <<initfds, fds>>
    BY <1>6 DEF Setsid
  <2> QED
    BY <2>1 DEF TtyInv, Before_open
<1>7. CASE OpenTty
  <2> DEFINE f == Free(0)
  <2>1. CASE f # NoFd /\ pc' = "F_DUPFD"
    <3>1. f \in Fd /\ fds[f] = "closed" /\ fds = initfds
      BY <1>7, <2>1, FreeFinds DEF OpenTty, TtyInv, Before_open
    <3>2. /\ fds' = [fds EXCEPT ![f] = "tty"] /\ fd' = f
          /\ initfds' = initfds
      BY <1>7, <2>1 DEF OpenTty, Exits
    <3> HIDE DEF f
    <3>3. TtyAt(fd)'
      BY <3>1, <3>2 DEF TtyAt
    <3> QED
      BY <2>1, <3>2, <3>3 DEF TtyInv, Before_open
  <2>2. CASE pc' = "exited" /\ UNCHANGED initfds
    BY <2>2 DEF TtyInv, Before_open
  <2> QED
    BY <1>7, <2>1, <2>2 DEF OpenTty, Exits
<1>8. CASE DupHigh
  <2> DEFINE f == Free(HIGH)
  <2>1. CASE f # NoFd /\ pc' = "TIOCSCTTY"
    <3>1. f \in Fd /\ f >= HIGH /\ fds[f] = "closed"
      BY <1>0, <2>1, FreeFinds
    <3>2. TtyAt(fd)
      BY <1>8 DEF DupHigh, TtyInv
    <3>3. /\ fds' = [fds EXCEPT ![f] = "tty", ![fd] = "closed"] /\ fd' = f
          /\ initfds' = initfds
      BY <1>8, <2>1 DEF DupHigh, Exits, Moved, Least
    <3> HIDE DEF f
    <3>4. f # fd /\ initfds[f] = "closed"
      BY <3>1, <3>2 DEF TtyAt, TtyInv
    <3>5. fds' = [initfds EXCEPT ![f] = "tty"]
      BY <3>1, <3>2, <3>3, <3>4 DEF TtyAt, TtyInv
    <3>6. TtyAt(fd)'
      BY <3>1, <3>3, <3>4, <3>5 DEF TtyAt
    <3> QED
      BY <2>1, <3>1, <3>3, <3>6 DEF TtyInv, Before_open
  <2>2. CASE pc' = "exited" /\ UNCHANGED initfds
    BY <2>2 DEF TtyInv, Before_open
  <2> QED
    BY <1>8, <2>1, <2>2 DEF DupHigh, Exits, Least
<1>9. CASE ControlTty
  <2>1. CASE pc' = "dup2"
    <3>1. TtyAt(fd) /\ fd >= HIGH /\ UNCHANGED <<initfds, fds, fd>>
      BY <1>9 DEF ControlTty, TtyInv
    <3>2. leader' /\ ctty'
      BY <1>9, <2>1 DEF ControlTty, Refused, Exits
    <3>3. TtyAt(fd)' /\ fd' >= HIGH
      BY <3>1 DEF TtyAt
    <3> QED
      BY <2>1, <3>1, <3>2, <3>3 DEF TtyInv, Before_open
  <2>2. CASE pc' = "exited" /\ UNCHANGED initfds
    BY <2>2 DEF TtyInv, Before_open
  <2> QED
    BY <1>9, <2>1, <2>2 DEF ControlTty, Refused, Exits
<1>10. CASE DupStd
  <2>1. /\ pc = "dup2" /\ pc' = "exec" /\ UNCHANGED <<initfds, leader, ctty, fd>>
        /\ TtyAt(fd) /\ fd >= HIGH /\ leader /\ ctty
    BY <1>10 DEF DupStd, TtyInv
  <2>2. PICK failed \in SUBSET Std :
          /\ std_fd' = [n \in Std |-> IF n \in failed THEN NoFd ELSE n]
          /\ fds' = [n \in Fd |-> IF n = fd /\ failed # {} THEN "closed"
                                  ELSE IF n \in Std \ failed THEN "tty"
                                  ELSE fds[n]]
    BY <1>10 DEF DupStd
  <2>3. fd \notin Std
    BY <1>0, <2>1 DEF TtyAt
  <2>4. \A n \in Fd : n # fd => fds[n] = initfds[n]
    BY <2>1 DEF TtyAt, TtyInv
  <2>5. \A n \in Std : std_fd'[n] = n => fds'[n] = "tty"
    BY <1>0, <2>2, <2>3
  <2>6. ASSUME NEW n \in Fd \ Std
        PROVE  /\ n # fd => fds'[n] = initfds[n] /\ fds'[n] # "tty"
               /\ n = fd => fds'[n] \in {"tty", initfds[n]}
    BY <2>1, <2>2, <2>4 DEF TtyAt, TtyInv
  <2>7. \A n \in Fd \ Std : fds'[n] # initfds[n] => n >= HIGH /\ fds'[n] = "tty"
    BY <2>1, <2>6
  <2>8. \A n, m \in Fd \ Std : fds'[n] = "tty" /\ fds'[m] = "tty" => n = m
    BY <2>6
  <2>9. \A n \in Std : std_fd'[n] = NoFd => fds'[n] = initfds[n]
    BY <1>0, <2>2, <2>3, <2>4
  <2> QED
    BY <2>1, <2>5, <2>7, <2>8, <2>9 DEF TtyInv, Before_open
<1>11. CASE Exec
  <2>1. /\ pc = "exec" /\ pc' \in {"image", "exited"}
        /\ UNCHANGED <<initfds, fds, leader, ctty, std_fd>>
    BY <1>11 DEF Exec, Exits
  <2> QED
    BY <2>1 DEF TtyInv, Before_open
<1>12. CASE UNCHANGED vars
  BY <1>12 DEF vars, ttyVars, TtyInv, TtyAt, Before_open
<1> QED
  BY <1>2, <1>3, <1>4, <1>5, <1>6, <1>7, <1>8, <1>9, <1>10, <1>11, <1>12 DEF Next

LEMMA TtyAlways == Spec => []TtyInv
  BY TtyInit, TtyNext, PTL DEF Spec

\* Whatever fails, and whatever process 1 has open: a getty or an rc shell that
\* runs has its terminal for its controlling terminal.
THEOREM ImagesControlTheirTerminal == Spec => []ImageControlsTerminal
<1>1. TtyInv => ImageControlsTerminal
  BY DEF TtyInv, ImageControlsTerminal
<1> QED
  BY <1>1, TtyAlways, PTL

\* And for standard input, output and error.
THEOREM StandardIsAlwaysTerminal == Spec => []StandardIsTerminal
<1>1. TtyInv => StandardIsTerminal
  BY DEF TtyInv, StandardIsTerminal
<1> QED
  BY <1>1, TtyAlways, PTL

\* And once more beyond HIGH, and for the rest what process 1 had.
THEOREM NothingElseIsOpened == Spec => []OnlyTerminalAdded
<1>1. TtyInv => OnlyTerminalAdded
  BY DEF TtyInv, OnlyTerminalAdded
<1> QED
  BY <1>1, TtyAlways, PTL
-----------------------------------------------------------------------------
(* Types.                                                                  *)

\* What TypeOK says beside GettyTypeOK, which is part of ArgvInv.
ChildTypeOK ==
  /\ pc \in {"init_sysinit", "setupargv", "construct_argv", "freed", "fork",
             "failed", "setsid", "open", "F_DUPFD", "TIOCSCTTY", "dup2", "exec",
             "image", "exited"}
  /\ kind \in {"getty", "rc"}
  /\ initfds \in [Fd -> {"closed", "sysinit"}]
  /\ fds \in [Fd -> {"closed", "sysinit", "tty"}]
  /\ leader \in BOOLEAN
  /\ ctty \in BOOLEAN
  /\ fd \in Fd \cup {NoFd}
  /\ std_fd \in [Std -> Std \cup {NoFd}]
  /\ code \in {0, 1, 2, 5, 8}

LEMMA ChildTypeNext == ChildTypeOK /\ [Next]_vars => ChildTypeOK'
<1> SUFFICES ASSUME ChildTypeOK, [Next]_vars PROVE ChildTypeOK'
  OBVIOUS
<1> USE DEF ChildTypeOK
<1>1. CASE init_sysinit
  BY <1>1 DEF init_sysinit, ttyVars
<1>2. CASE SetupArgv /\ UNCHANGED <<kind, initfds, ttyVars>>
  BY <1>2 DEF SetupArgv, ttyVars
<1>3. CASE construct_argv /\ UNCHANGED <<kind, initfds, ttyVars>>
  BY <1>3 DEF construct_argv, ttyVars
<1>4. CASE Fork
  BY <1>4 DEF Fork, ttyVars
<1>5. CASE Setsid
  BY <1>5 DEF Setsid
<1>6. CASE OpenTty
  <2> DEFINE f == Free(0)
  <2>1. f # NoFd => f \in Fd
    BY FreeFinds
  <2> HIDE DEF f
  <2>2. \/ /\ f # NoFd /\ fds' = [fds EXCEPT ![f] = "tty"] /\ fd' = f
           /\ pc' = "F_DUPFD" /\ UNCHANGED code
        \/ pc' = "exited" /\ code' = 1 /\ UNCHANGED <<fds, fd>>
    BY <1>6 DEF OpenTty, Exits, f
  <2>3. UNCHANGED <<kind, initfds, leader, ctty, std_fd>>
    BY <1>6 DEF OpenTty
  <2> QED
    BY <2>1, <2>2, <2>3
<1>7. CASE DupHigh
  <2> DEFINE f == Free(HIGH)
  <2>1. f # NoFd => f \in Fd
    BY FreeFinds, OpenMaxAssumption
  <2> HIDE DEF f
  <2>2. \/ /\ f # NoFd /\ fds' = [fds EXCEPT ![f] = "tty", ![fd] = "closed"]
           /\ fd' = f /\ pc' = "TIOCSCTTY" /\ UNCHANGED code
        \/ /\ fds' = [fds EXCEPT ![fd] = "closed"] /\ fd' = NoFd
           /\ pc' = "exited" /\ code' = 1
    BY <1>7 DEF DupHigh, Exits, Moved, Least, f
  <2>3. UNCHANGED <<kind, initfds, leader, ctty, std_fd>>
    BY <1>7 DEF DupHigh
  <2> QED
    BY <2>1, <2>2, <2>3
<1>8. CASE ControlTty
  BY <1>8 DEF ControlTty, Refused, Exits
<1>9. CASE DupStd
  <2>1. PICK failed \in SUBSET Std :
          /\ std_fd' = [n \in Std |-> IF n \in failed THEN NoFd ELSE n]
          /\ fds' = [n \in Fd |-> IF n = fd /\ failed # {} THEN "closed"
                                  ELSE IF n \in Std \ failed THEN "tty"
                                  ELSE fds[n]]
    BY <1>9 DEF DupStd
  <2>2. std_fd' \in [Std -> Std \cup {NoFd}]
    BY <2>1
  <2>3. fds' \in [Fd -> {"closed", "sysinit", "tty"}]
    BY <2>1
  <2> QED
    BY <1>9, <2>2, <2>3 DEF DupStd
<1>10. CASE Exec
  BY <1>10 DEF Exec, Exits
<1>11. CASE UNCHANGED vars
  BY <1>11 DEF vars, ttyVars
<1> QED
  BY <1>1, <1>2, <1>3, <1>4, <1>5, <1>6, <1>7, <1>8, <1>9, <1>10, <1>11 DEF Next

\* Every variable of a child keeps its type; a child exits with the codes of
\* setctty() and of a failed exec, and with no other.
THEOREM ChildTypeCorrect == Spec => []TypeOK
<1>1. Init => ArgvInv /\ ChildTypeOK
  BY ArgvInit DEF Init, ChildTypeOK
<1>2. ArgvInv /\ ChildTypeOK /\ [Next]_vars => (ArgvInv /\ ChildTypeOK)'
  BY ArgvNext, ChildTypeNext
<1>3. ArgvInv /\ ChildTypeOK => TypeOK
  BY DEF ArgvInv, ChildTypeOK, TypeOK
<1> QED
  BY <1>1, <1>2, <1>3, PTL DEF Spec
=============================================================================
