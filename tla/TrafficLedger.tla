---------------------------- MODULE TrafficLedger ----------------------------
(***************************************************************************)
(* What the traffic accounting of ovpn promises, with nothing said of how. *)
(* Bytes cross a user's counters; the ledger bills bytes that crossed and  *)
(* were not billed before, in whatever portions and as late as it likes.   *)
(* It never bills a byte twice, never bills one that was not sent, and     *)
(* never takes a billed byte back: the rolling 30d quota of the agent is   *)
(* computed from the billed bytes, so a byte billed twice cuts a user off  *)
(* early.  Bytes may stay unbilled: Xray keeps its counters in memory.     *)
(***************************************************************************)
EXTENDS Integers

CONSTANT Keys               \* the Xray counters: a user and a direction

VARIABLES sent,             \* sent[k]: bytes that crossed counter k
          billed            \* billed[k]: bytes recorded in user_traffic_total

ledgerVars == <<sent, billed>>

Init ==
  /\ sent = [k \in Keys |-> 0]
  /\ billed = [k \in Keys |-> 0]

\* More bytes cross the counters.
Send ==
  /\ sent' \in [Keys -> Nat]
  /\ \A k \in Keys : sent[k] <= sent'[k]
  /\ UNCHANGED billed

\* Some of the bytes that were sent and not billed are billed.
Bill ==
  /\ billed' \in [Keys -> Nat]
  /\ \A k \in Keys : billed[k] <= billed'[k] /\ billed'[k] <= sent[k]
  /\ UNCHANGED sent

Next == Send \/ Bill

Spec == Init /\ [][Next]_ledgerVars
=============================================================================
