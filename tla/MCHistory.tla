----------------------------- MODULE MCHistory -----------------------------
(* Two wallets of one owner, in different epochs, and two loads.  Of wallet *)
(* 1 the peers know different commits; p1's record of wallet 2 still holds  *)
(* a commit of an earlier epoch of it, its record of wallet 1 one that the  *)
(* owner did not sign, as a peer stores what it was told before the checks. *)
(* p2 has no record of wallet 2.  Either both are known as providers of     *)
(* both wallets, or both of wallet 2 and nobody of wallet 1.                *)
EXTENDS History, TLC

CONSTANTS p1, p2, w1, w2, o1, o2

C(o, e, n) == [signer |-> o, epoch |-> e, u |-> n]

Commits == {C(o1, 1, 1), C(o1, 1, 2), C(o1, 2, 3), C(o1, 1, 4), C(o2, 1, 5)}
Owners == [w \in Wallet |-> o1]
Epochs == (w1 :> 1) @@ (w2 :> 2)
BothKnow == [w \in Wallet |-> {p1, p2}]
NoneOrBoth == (w1 :> {}) @@ (w2 :> {p1, p2})
Holders == (p1 :> {w1, w2}) @@ (p2 :> {w1})
Records ==
  (p1 :> ((w1 :> {C(o1, 1, 1), C(o2, 1, 5)}) @@ (w2 :> {C(o1, 2, 3), C(o1, 1, 4)}))) @@
  (p2 :> ((w1 :> {C(o1, 1, 2)}) @@ (w2 :> {})))
=============================================================================
