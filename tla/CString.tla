------------------------------- MODULE CString -------------------------------
(***************************************************************************)
(* A C string is the sequence of its characters, and a pointer into one is *)
(* the rest of it.                                                         *)
(***************************************************************************)
EXTENDS SequencesExt, Naturals

\* The number of characters before the first of stop, or the string's end.
Before(s, stop) ==
  CHOOSE n \in 0 .. Len(s) :
    /\ \A i \in 1 .. n : s[i] \notin stop
    /\ n < Len(s) => s[n + 1] \in stop

Upto(s, n) == SubSeq(s, 1, n)
After(s, n) == SubSeq(s, n + 1, Len(s))

\* How many of the places F are not beyond n.
Counted(F, n) == Cardinality({f \in F : f <= n})
=============================================================================
