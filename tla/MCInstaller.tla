---------------------------- MODULE MCInstaller -----------------------------
(* One command and one workflow, the same in both versions. *)
EXTENDS Installer

SameShips == [v \in 1..MaxVersion |-> <<<<"commands", 1>>, <<"workflows", 1>>>>]
NoneCarried == [pkg \in {"brief", "plan", "dev"} |-> <<>>]
OwnedBySetup == [p \in {"commands", "workflows", "agents"} \X Name |-> "setup"]
OneFingerprint == [v \in 1..MaxVersion |-> 1]
=============================================================================
