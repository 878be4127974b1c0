------------------------------ MODULE Selection ------------------------------
(***************************************************************************)
(* The part of a sequence a loop keeps: `for x in s: if x in T: keep(x)`.  *)
(* The same as SelectSeq, with a set for the test and a recursive function *)
(* for the loop, so that theorems can be proved about it.                  *)
(***************************************************************************)
EXTENDS Naturals, Sequences

Select(s, T) ==
  LET kept[n \in 0 .. Len(s)] ==
        IF n = 0 THEN <<>>
        ELSE IF s[n] \in T THEN Append(kept[n - 1], s[n]) ELSE kept[n - 1]
  IN  kept[Len(s)]
=============================================================================
