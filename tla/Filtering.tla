------------------------------- MODULE Filtering -------------------------------
(***************************************************************************)
(* The filter of JavaScript's arrays.                                      *)
(***************************************************************************)
EXTENDS Naturals, Sequences

(* The lines at some of the positions, in their order.                     *)
Kept(lines, at) ==
  LET kept[n \in 0 .. Len(lines)] ==
        IF n = 0 THEN <<>>
        ELSE IF n \in at THEN Append(kept[n - 1], lines[n]) ELSE kept[n - 1]
  IN  kept[Len(lines)]
=============================================================================
