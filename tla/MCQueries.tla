----------------------------- MODULE MCQueries -----------------------------
(* Two nodes, of which a goes down now and then; two posts that may be of   *)
(* one node and at work together, and a buffer that is full at once.       *)
EXTENDS Queries

CONSTANTS a, b
=============================================================================
