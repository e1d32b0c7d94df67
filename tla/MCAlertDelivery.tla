---------------------------- MODULE MCAlertDelivery ----------------------------
(***************************************************************************)
(* Constants of AlertDelivery for TLC.                                     *)
(***************************************************************************)
EXTENDS AlertDelivery

\* No chat configured, two that take messages, and one behind one that refuses.
MCSettings == {<<>>, <<"family", "work">>, <<"dead", "family">>}
=============================================================================
