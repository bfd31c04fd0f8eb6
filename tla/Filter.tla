------------------------------- MODULE Filter -------------------------------
(***************************************************************************)
(* JavaScript's Array.prototype.filter, which several parts of the page    *)
(* use, as a recursive function.                                           *)
(***************************************************************************)
EXTENDS Naturals, Sequences

\* What of s is in S, in the order of s.
Keep(s, S) ==
    LET kept[n \in 0..Len(s)] ==
            IF n = 0 THEN <<>>
            ELSE IF s[n] \in S THEN Append(kept[n - 1], s[n]) ELSE kept[n - 1]
    IN  kept[Len(s)]
=============================================================================
