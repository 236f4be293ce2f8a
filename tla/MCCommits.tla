----------------------------- MODULE MCCommits -----------------------------
(* All vectors of up to four indexes out of four, ordered or not, so that   *)
(* two ranges may lie apart, touch, overlap or enclose one another.        *)
EXTENDS Commits

CONSTANTS Top, Longest

AllIndexes == UNION {[1..k -> 0..Top] : k \in 0..Longest}
=============================================================================
