--------------------------- MODULE DeliveryLedger ---------------------------
(***************************************************************************)
(* What progress.txt promises its readers (PR retry, rework detection,     *)
(* resume, the session report), with no pipeline in sight.  Each ticket    *)
(* has a level in the world and a level in the log:                        *)
(*   0  nothing of it is on the remote                                     *)
(*   1  its branch is on the remote                                        *)
(*   2  it has had a pull request                                          *)
(* The world only moves up, one level at a time.  The log may lag behind   *)
(* the world, and may fall back when a later attempt fails, but it never   *)
(* claims more than has happened.                                          *)
(***************************************************************************)
EXTENDS Naturals

CONSTANT Ticket

VARIABLES
  truth,  \* how far each ticket has got
  claim   \* how far its last log entry says it has got

ledger == <<truth, claim>>

Level == 0..2

LedgerInit ==
  /\ truth = [t \in Ticket |-> 0]
  /\ claim = [t \in Ticket |-> 0]

(* The ticket's branch is pushed, or its pull request opened. *)
Advance(t) ==
  /\ truth[t] < 2
  /\ truth' = [truth EXCEPT ![t] = @ + 1]
  /\ UNCHANGED claim

(* An entry is appended. *)
Record(t) ==
  /\ \E level \in 0..truth[t] : claim' = [claim EXCEPT ![t] = level]
  /\ UNCHANGED truth

LedgerNext == \E t \in Ticket : Advance(t) \/ Record(t)

LedgerSpec == LedgerInit /\ [][LedgerNext]_ledger

(***************************************************************************)
(* The log never leads the world: this is what the readers of progress.txt *)
(* rely on, and what every implementation of the ledger inherits.          *)
(***************************************************************************)
NeverLeads == \A t \in Ticket : claim[t] <= truth[t]

Typed ==
  /\ truth \in [Ticket -> Level]
  /\ claim \in [Ticket -> Level]

=============================================================================
