----------------------------- MODULE MCRequests -----------------------------
(* Node a asks node b twice, so that answers may cross; the queries and     *)
(* direct calls are a's.  A buffer of one place is full at once.           *)
EXTENDS Requests

CONSTANTS a, b, r1, r2, q, d

Callers == [c \in Call |-> a]
Peers == [c \in Request |-> b]
=============================================================================
