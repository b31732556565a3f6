----------------------------- MODULE MCScriptText -----------------------------
(***************************************************************************)
(* Scripts for TLC: lines written in every style, and such as nobody would *)
(* write.                                                                  *)
(***************************************************************************)
EXTENDS ScriptText, TLC

\* pivot, waitfor, mknod and createport.
MCArity == ("p" :> 2) @@ ("w" :> 1) @@ ("m" :> 3) @@ ("o" :> 0)

(* A line is the sequence of its words; the first may be no command.        *)
Args == {<<"a">>, <<>>, <<"a", BLANK>>, <<HASH>>}

Lines == {<<c>> \o ws : c \in {<<"s">>, <<"p">>, <<"w">>, <<"o">>, <<HASH>>},
                        ws \in BoundedSeq(Args, 2)}

\* mknod of a device or none, and of too few words.
Nodes == {<<<<"m">>, <<"a">>, <<"a">>, type>> : type \in {<<"c">>, <<"b", "a">>, <<"a", "c">>, <<>>}}
           \cup {<<<<"m">>, <<"a">>, <<"c">>>>}

Scripts ==
  {<<l>> : l \in Lines \cup Nodes}
    \cup {<<l, c>> : l \in Lines \cup Nodes,
                     c \in {<<<<"s">>, <<"a">>>>, <<<<"w">>, <<"a">>>>, <<<<"o">>>>}}

Style == [lead : {<<>>, <<BLANK, BLANK>>}, gap : {<<BLANK>>, <<BLANK, BLANK>>},
          quotes : {"all", "needed"}, eol : {<<NL>>, <<CR, NL>>}]

Written(word, style) ==
  IF style.quotes = "all" \/ word = <<>> \/ Contains(word, BLANK)
  THEN <<QUOTE>> \o word \o <<QUOTE>>
  ELSE word

WrittenLine(line, style) ==
  style.lead
    \o FlattenSeq([i \in DOMAIN line |->
                     (IF i = 1 THEN <<>> ELSE style.gap) \o Written(line[i], style)])

\* The last line may lack its end.
WrittenScript(script, style, closed) ==
  FlattenSeq([i \in DOMAIN script |->
                WrittenLine(script[i], style)
                  \o IF i < Len(script) \/ closed THEN style.eol ELSE <<>>])

\* Scripts of lines, written in every style.
Styled ==
  {WrittenScript(script, style, closed) :
      script \in Scripts, style \in Style, closed \in BOOLEAN}

\* Words() is the inverse of writing: what it reads is what was written.
ASSUME WordsAreRead ==
  \A l \in Lines, style \in Style :
    Len(WrittenLine(l, style)) < LINEBUF => Words(WrittenLine(l, style)) = l

\* start lines of words, blanks and quotes in any order, up to one too long.
Crowded ==
  {<<"s", BLANK>> \o s :
      s \in UNION {[1 .. n -> {"a", BLANK, QUOTE}] : n \in {3, LINEBUF - 3}}}

\* Any few characters.
Arbitrary == BoundedSeq({"s", "w", BLANK, QUOTE, NL, CR}, 4)

\* Two lines, one of them too long if they were joined, or by itself.
Long ==
  {[i \in 1 .. n |-> "a"] \o e \o [i \in 1 .. m |-> "a"] :
      n \in 0 .. LINEBUF, m \in 0 .. LINEBUF, e \in {<<NL>>, <<CR>>, <<CR, NL>>}}

MCInput == Styled \cup Crowded \cup Arbitrary \cup Long
=============================================================================
