----------------------------- MODULE MCServerFleet -----------------------------
(***************************************************************************)
(* Constants of ServerFleet for TLC.                                       *)
(***************************************************************************)
EXTENDS ServerFleet, TLC

\* Keys and names are only compared with each other; servers are ordered.
Interchangeable ==
  UNION {Permutations(S) : S \in {Idents, Names, Pairs, ServiceIds}}
=============================================================================
