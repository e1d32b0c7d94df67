----------------------------- MODULE MCTelegramBot -----------------------------
(***************************************************************************)
(* Constants of TelegramBot for TLC.                                       *)
(***************************************************************************)
EXTENDS TelegramBot

\* Every word of the owner, a restart of the service that is checked through another,
\* and heal; of a stranger the word that would do most.
MCSaid ==
  [owner : {TRUE}, says : [kind : Words] \union [kind : {"heal"}]
                            \union [kind : {"restart"}, service : {Xray}]]
    \union [owner : {FALSE}, says : [kind : {"yes"}]]
=============================================================================
