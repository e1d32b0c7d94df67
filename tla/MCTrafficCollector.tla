-------------------------- MODULE MCTrafficCollector --------------------------
(* Instances of TrafficCollector for TLC.                                  *)
EXTENDS TrafficCollector

CONSTANT alice              \* a user

OneEmail == {alice}
=============================================================================
