----------------------------- MODULE MCExchange -----------------------------
(***************************************************************************)
(* Small instances of Exchange for TLC.                                    *)
(***************************************************************************)
EXTENDS Exchange, TLC

CONSTANTS r1, p1, i1

(* One requester, one provider, one trade. *)
OneWant == {[requester |-> r1, provider |-> p1, id |-> i1]}

SlotSymmetry == Permutations(Rpc)
=============================================================================
