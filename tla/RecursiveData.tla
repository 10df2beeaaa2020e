---------------------------- MODULE RecursiveData ----------------------------
(* Functions by recursion that the provers can reason about.                  *)
EXTENDS Naturals, Sequences

(* The elements of a sequence that are in a set, in their order: what         *)
(* SelectSeq selects.                                                        *)
Kept(s, S) ==
  LET kept[n \in 0..Len(s)] == IF n = 0 THEN <<>>
                               ELSE IF s[n] \in S THEN Append(kept[n - 1], s[n]) ELSE kept[n - 1]
  IN  kept[Len(s)]

(* What step makes of a value and each element in turn: what FoldLeft does.   *)
Folded(step, base, s) ==
  LET folded[n \in 0..Len(s)] == IF n = 0 THEN base ELSE step[<<folded[n - 1], s[n]>>]
  IN  folded[Len(s)]

(* The powers of two. *)
TwoToThe[n \in Nat] == IF n = 0 THEN 1 ELSE 2 * TwoToThe[n - 1]
===============================================================================
