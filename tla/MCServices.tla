---------------------------- MODULE MCServices -----------------------------
(* Clients, labels and blockers are interchangeable. *)
EXTENDS Services, TLC

Symmetry == Permutations(Client) \union Permutations(Label) \union Permutations(Blocker)
=============================================================================
