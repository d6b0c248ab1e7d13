----------------------------- MODULE DmmLists ------------------------------
(***************************************************************************)
(* The linked lists of queue.h, as the sequences of what their cells stand *)
(* for: what a loop over a list finds and what a removal leaves.           *)
(***************************************************************************)
EXTENDS Naturals, Sequences, FiniteSets

\* What the cells of the list s stand for.
Members(s) == {s[i] : i \in DOMAIN s}

\* The list s after these cells have been removed, in its order.  (SelectSeq,
\* by the number of cells that come before each that stays.)
Kept(s, gone) ==
  LET stay   == {i \in DOMAIN s : s[i] \notin gone}
      Rank(i) == Cardinality({j \in stay : j <= i})
  IN  [k \in 1..Cardinality(stay) |-> s[CHOOSE i \in stay : Rank(i) = k]]

Without(s, x) == Kept(s, {x})

\* The first cell of s and the one after x, with nil for NULL; x is in s.
FirstOf(s, nil) == IF s = <<>> THEN nil ELSE s[1]
NextOf(s, x, nil) ==
  LET i == CHOOSE j \in DOMAIN s : s[j] = x
  IN  IF i = Len(s) THEN nil ELSE s[i + 1]
=============================================================================
