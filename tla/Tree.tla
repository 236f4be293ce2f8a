------------------------------- MODULE Tree --------------------------------
(***************************************************************************)
(* A sled tree of storage.rs, as the set of its values.  All trees of the  *)
(* code but the commit histories are keyed by the id in their values.      *)
(***************************************************************************)

(* insert replaces the value with the same id. *)
Insert(tree, v) == {u \in tree : u.id # v.id} \cup {v}

(* update_active_trade: an insert that only happens when the id is present. *)
UpdateTree(tree, v) == IF \E u \in tree : u.id = v.id THEN Insert(tree, v) ELSE tree
=============================================================================
