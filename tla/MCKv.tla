-------------------------------- MODULE MCKv --------------------------------
(***************************************************************************)
(* Instances of the key-value store.                                       *)
(***************************************************************************)
EXTENDS KvRefinement

Sym == Permutations(Keys) \cup Permutations(Vals)
=============================================================================
