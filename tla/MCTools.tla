------------------------------ MODULE MCTools ------------------------------
(* A small package, small pages, and hooks that are interchangeable. *)
EXTENDS Tools, TLC

(* The command belongs to an optional role, and the package of its own has *)
(* it too; the second version drops the workflow.  Both verification gates *)
(* begin with the same text.                                               *)
SmallShips ==
  [v \in 1..2 |-> IF v = 1 THEN <<<<"commands", 1>>, <<"workflows", 1>>>>
                           ELSE <<<<"commands", 1>>>>]
SmallCarries ==
  [pkg \in {"brief", "plan", "dev"} |->
     IF pkg = "brief" THEN <<<<"commands", 1>>>> ELSE <<<<"workflows", 1>>>>]
SmallRoles == {"strategist"}
SmallOwner == [p \in {"commands", "workflows", "agents"} \X Name |->
                 IF p[1] = "commands" THEN "brief" ELSE "setup"]
SmallFingerprint == [v \in 1..2 |-> 1]

(* Rows of elements, at the top and one level below. *)
Rows == UNION {[1..n -> Tag] : n \in 1..MaxSiblings}
SmallPages == {<<r, [i \in DOMAIN r |-> <<>>]>> : r \in Rows} \union
              {<<r, <<i>>>> : r \in [1..1 -> Tag], i \in Rows}

Symmetry == Permutations(Hook) \union Permutations(Id)
=============================================================================
