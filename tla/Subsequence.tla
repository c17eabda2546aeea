---------------------------- MODULE Subsequence ----------------------------
(* The elements of a sequence at some of its positions, in their order: what  *)
(* SelectSeq of the standard module gives, in a form that can be proved about. *)
EXTENDS Naturals, Sequences

Subsequence(s, positions) ==
    LET kept[n \in 0..Len(s)] ==
            IF n = 0 THEN << >>
            ELSE IF n \in positions THEN Append(kept[n - 1], s[n]) ELSE kept[n - 1]
    IN  kept[Len(s)]
=============================================================================
