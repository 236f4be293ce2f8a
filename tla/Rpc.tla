-------------------------------- MODULE Rpc --------------------------------
(***************************************************************************)
(* What a request to a peer promises the task that makes it: the peer's    *)
(* handler takes it once at the most, perhaps after the caller has given   *)
(* up, and the caller returns once, with the answer the handler made for   *)
(* this very request or with an error.  Exchange relies on it.             *)
(***************************************************************************)
CONSTANTS Request, Answer

VARIABLES
  caller,   \* caller[c]: what the calling task sees
  taken,    \* the requests the receiver's handler has taken
  answer,   \* answer[c]: the answer the handler made, a set of one or none
  got       \* got[c]: the answer the caller has returned with, likewise

Ask(c) ==
  /\ caller[c] = "idle"
  /\ caller' = [caller EXCEPT ![c] = "waiting"]
  /\ UNCHANGED <<taken, answer, got>>

Take(c) ==
  /\ caller[c] # "idle"
  /\ c \notin taken
  /\ taken' = taken \cup {c}
  /\ \E A \in {{}} \cup {{a} : a \in Answer} : answer' = [answer EXCEPT ![c] = A]
  /\ UNCHANGED <<caller, got>>

Return(c) ==
  /\ caller[c] = "waiting"
  /\ answer[c] # {}
  /\ caller' = [caller EXCEPT ![c] = "ok"]
  /\ got' = [got EXCEPT ![c] = answer[c]]
  /\ UNCHANGED <<taken, answer>>

Fail(c) ==
  /\ caller[c] = "waiting"
  /\ caller' = [caller EXCEPT ![c] = "err"]
  /\ UNCHANGED <<taken, answer, got>>

Init ==
  /\ caller = [c \in Request |-> "idle"]
  /\ taken = {}
  /\ answer = [c \in Request |-> {}]
  /\ got = [c \in Request |-> {}]

Next == \E c \in Request : Ask(c) \/ Take(c) \/ Return(c) \/ Fail(c)

Spec == Init /\ [][Next]_<<caller, taken, answer, got>>
=============================================================================
