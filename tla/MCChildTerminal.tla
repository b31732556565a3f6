--------------------------- MODULE MCChildTerminal ---------------------------
(***************************************************************************)
(* Lines of /etc/ttys for TLC: up to three words, with every separator.  *)
(***************************************************************************)
EXTENDS ChildTerminal, TLC

Words == {<<"a">>, <<"a", "b">>}
Gaps == {<<BLANK>>, <<TAB>>, <<BLANK, TAB>>}

Written == [lead : {<<>>, <<TAB>>}, words : BoundedSeq(Words, 3), gap : Gaps,
            trail : {<<>>, <<BLANK>>}]

MCTtyent ==
  {[ty_getty |->
      w.lead \o FlattenSeq([i \in DOMAIN w.words |->
                              w.words[i] \o IF i < Len(w.words) THEN w.gap ELSE w.trail]),
    ty_name |-> <<"t">>] : w \in Written}
=============================================================================
