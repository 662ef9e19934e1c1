----------------------------- MODULE MCPipeline -----------------------------
(* Pipeline for TLC: the tickets of the safety run are interchangeable. *)
EXTENDS Pipeline, TLC

Tickets == Permutations(Ticket)
=============================================================================
