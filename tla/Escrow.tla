------------------------------- MODULE Escrow -------------------------------
(***************************************************************************)
(* What the exchange promises to both parties, without messages, tasks or  *)
(* statuses: commits are issued one against another, each once and for     *)
(* good, and a provider serves only those it was paid by.  The README's    *)
(* progressive commitment, reduced to the three rounds the code has.       *)
(***************************************************************************)
CONSTANTS Node, Id

VARIABLES
  issued,   \* commits given out; a commit cannot be taken back
  served    \* trades whose service a provider holds itself obliged to

escrowVars == <<issued, served>>

Commit == [kind: {"T1RequesterCommit", "T1ProviderCommit", "T2RequesterCommit"},
           from: Node, to: Node, id: Id]

(* The commit of the counterparty that a commit of this kind answers. *)
Answers(c) ==
  CASE c.kind = "T1ProviderCommit" ->
         {[kind |-> "T1RequesterCommit", from |-> c.to, to |-> c.from, id |-> c.id]}
    [] c.kind = "T2RequesterCommit" ->
         {[kind |-> "T1ProviderCommit", from |-> c.to, to |-> c.from, id |-> c.id]}
    [] OTHER -> {}

(* A trade is served for the peer that sent the last commit. *)
Paid == {x \in [provider: Node, requester: Node, id: Id] :
           [kind |-> "T2RequesterCommit", from |-> x.requester,
            to |-> x.provider, id |-> x.id] \in issued}

Init == issued = {} /\ served = {}

(* A peer hands out commits that answer commits it has been given. *)
Issue ==
  /\ issued \subseteq issued' /\ issued' \subseteq Commit
  /\ \A c \in issued' \ issued : Answers(c) \subseteq issued
  /\ UNCHANGED served

(* Obligations come and go (a trade may be restarted, a crash may forget    *)
(* it), always among what has been paid.                                   *)
Serve ==
  /\ served' \in SUBSET Paid
  /\ UNCHANGED issued

Next == Issue \/ Serve

Spec == Init /\ [][Next]_escrowVars
=============================================================================
