---------------------------- MODULE AccessControl ----------------------------
(***************************************************************************)
(* What the agent promises about a user's quota and its access, with       *)
(* nothing said of passes, rows and calls.  To cut a user off is two steps *)
(* in two systems, out of Xray and then on record; to let it in again is   *)
(* two as well, in the same order.  Whatever comes between, only a user on *)
(* record and within its quota is let in, only such a user is struck off   *)
(* the record, only a user that is out is put on record; and no usage is   *)
(* measured that brings a user over its quota between the two steps that   *)
(* let it in.  So who is on record and over its quota is out, always.      *)
(***************************************************************************)
CONSTANT Users

VARIABLES live,             \* the users that Xray lets in
          blocked,          \* the users on record as blocked by the quota
          over              \* the users that are over their quota

accessVars == <<live, blocked, over>>

Init ==
  /\ live \subseteq Users
  /\ blocked \subseteq Users \ live
  /\ over = {}

Admit(u) ==
  /\ u \in blocked \ over
  /\ live' = live \union {u}
  /\ UNCHANGED <<blocked, over>>

Lift(u) ==
  /\ u \in blocked \ over
  /\ blocked' = blocked \ {u}
  /\ UNCHANGED <<live, over>>

\* By the quota, because the user has ended, or on request.
Evict(u) ==
  /\ live' = live \ {u}
  /\ UNCHANGED <<blocked, over>>

Block(u) ==
  /\ u \notin live
  /\ blocked' = blocked \union {u}
  /\ UNCHANGED <<live, over>>

\* Usage is billed, or days leave the rolling window.
Measure ==
  /\ over' \in SUBSET Users
  /\ (over' \ over) \intersect blocked \intersect live = {}
  /\ UNCHANGED <<live, blocked>>

Next ==
  \/ \E u \in Users : Admit(u) \/ Lift(u) \/ Evict(u) \/ Block(u)
  \/ Measure

Spec == Init /\ [][Next]_accessVars
=============================================================================
