---------------------------- MODULE MCCanvasLock ----------------------------
(* CanvasLock for TLC: pids are interchangeable, and so are timestamps. *)
EXTENDS CanvasLock, TLC

Renamings == Permutations(Process) \union Permutations(Stamp)
=============================================================================
