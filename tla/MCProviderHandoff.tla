-------------------------- MODULE MCProviderHandoff --------------------------
(* ProviderHandoff with one managed and one direct provider. *)
EXTENDS ProviderHandoff, TLC

Interchangeable == Permutations(Requests)
=============================================================================
