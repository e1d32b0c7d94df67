----------------------------- MODULE AlertDelivery -----------------------------
(***************************************************************************)
(* The notifying side of ovpn-telegram-bot: Alertmanager posts what an      *)
(* alert has become, the agent and the CLI post events, and each POST is a  *)
(* handler of its own that sends the text to the notify chats one after     *)
(* another.                                                                *)
(*                                                                         *)
(* The poll loop appends the owner's chat to the list of chats while the    *)
(* handlers read it, with no lock: a handler that looks during the append   *)
(* may see the old list, the new one, or the new length over the old array. *)
(* Alertmanager (external) posts again until a POST is answered with 200;   *)
(* the agent and the CLI post an event once and ignore the answer.          *)
(***************************************************************************)
EXTENDS Integers, Sequences, FiniteSets, FiniteSetsExt, SequencesExt

CONSTANTS
  Settings,    \* the lists of chats OVPN_TELEGRAM_NOTIFY_CHAT_IDS may name
  Owner,       \* the owner's chat
  Dead,        \* a chat that refuses every message, as one that blocked the bot
  Stray,       \* what lies behind the array of the list: no chat
  MaxAlerts,   \* bound: changes of the alert, each a notification of its own
  MaxEvents,   \* bound: events of the agent and the CLI
  Handlers,    \* handlers that may run at a time
  MaxFaults    \* bound: failed sends, lost answers, callers that leave, crashes

Chats == {Owner, Dead} \union UNION {Range(s) : s \in Settings}
Alerts == 1 .. MaxAlerts
Notes == 1 .. MaxAlerts + MaxEvents  \* the alert's changes, then the events

ASSUME DeliveryAssumption ==
  /\ \A s \in Settings : s \in Seq(Range(s)) /\ IsInjective(s)
  /\ Stray \notin Chats /\ Owner # Dead
  /\ IsFiniteSet(Handlers)
  /\ {MaxAlerts, MaxEvents, MaxFaults} \subseteq Nat

Idle == [note |-> 0]

VARIABLES
  configured,  \* OVPN_TELEGRAM_NOTIFY_CHAT_IDS of this host
  \* memory of the bot
  chats,       \* notifyChats
  adding,      \* the poll loop is inside the append
  handler,     \* what each handler does: Idle, or a note on its way
  \* callers and the world
  alert,       \* the last change of the alert
  told,        \* the last change Alertmanager has had answered with 200
  events,      \* events posted so far
  faults,
  \* history
  got,         \* the notes each chat got
  again,       \* notes a chat got a second time though nothing had gone wrong with them
  troubled,    \* notes that met a refusal, a fault or a crash
  accepted     \* notes some handler ended with 200

list == <<configured, chats, adding>>
posts == <<alert, told, events>>
received == <<got, again>>
vars == <<list, posts, handler, faults, received, troubled, accepted>>

Busy == [note : Notes, todo : Seq(Chats \union {Stray}), failed : BOOLEAN, heard : BOOLEAN]

TypeOK ==
  /\ configured \in Settings /\ chats \in Seq(Chats) /\ IsInjective(chats)
  /\ handler \in [Handlers -> {Idle} \union Busy]
  /\ adding \in BOOLEAN /\ faults \in 0 .. MaxFaults
  /\ alert \in 0 .. MaxAlerts /\ told \in 0 .. alert /\ events \in 0 .. MaxEvents
  /\ got \in [Chats -> SUBSET Notes]
  /\ {again, troubled, accepted} \subseteq SUBSET Notes

Init ==
  /\ configured \in Settings /\ chats = configured /\ adding = FALSE
  /\ handler = [h \in Handlers |-> Idle]
  /\ alert = 0 /\ told = 0 /\ events = 0 /\ faults = 0
  /\ got = [c \in Chats |-> {}]
  /\ again = {} /\ troubled = {} /\ accepted = {}

Fault == faults < MaxFaults /\ faults' = faults + 1
---------------------------------------------------------------------------
(* The list of chats *)

\* Mutant of Unlisted: the owner's chat is appended again.
UnlistedAgain == Len(chats) < 4

\* A message of the owner, from a chat that is not in the list.
Unlisted == Owner \notin Range(chats)
Register ==
  /\ ~adding /\ Unlisted
  /\ adding' = TRUE
  /\ UNCHANGED <<configured, chats, posts, handler, faults, received, troubled, accepted>>

Registered ==
  /\ adding
  /\ adding' = FALSE /\ chats' = Append(chats, Owner)
  /\ UNCHANGED <<configured, posts, handler, faults, received, troubled, accepted>>

\* What a handler may see.  A new length over no array is a panic of the handler, which
\* its caller sees as an error, like the empty list.
Views == {chats} \union (IF adding THEN {Append(chats, Owner), Append(chats, Stray)} ELSE {})
---------------------------------------------------------------------------
(* A POST: the text is sent to one chat of the list after another, and the first     *)
(* error is the answer once all of them were tried.                                  *)

Begin(h, n) ==
  /\ handler[h] = Idle
  /\ \E view \in Views :
       handler' = [handler EXCEPT ![h] =
         [note |-> n, todo |-> view, failed |-> view = <<>>, heard |-> TRUE]]
  /\ UNCHANGED <<list, faults, received, troubled, accepted>>

\* Alertmanager has one notification of a group on its way at a time.
Waited(n) == \E h \in Handlers : handler[h].note = n /\ handler[h].heard
Post(h) ==
  /\ told < alert
  /\ \A n \in Alerts : ~Waited(n)
  /\ Begin(h, alert)
  /\ UNCHANGED posts

Notify(h) ==
  /\ events < MaxEvents
  /\ events' = events + 1
  /\ Begin(h, MaxAlerts + events + 1)
  /\ UNCHANGED <<alert, told>>

Sending(h) == handler[h] # Idle /\ handler[h].todo # <<>>
Target(h) == Head(handler[h].todo)
Refuses(c) == c \in {Dead, Stray}

\* The loop goes on to the next chat.
Turn(h, failed, heard) ==
  handler' = [handler EXCEPT ![h] =
    [note |-> @.note, todo |-> Tail(@.todo), failed |-> failed, heard |-> heard]]

Copied(h) ==
  LET n == handler[h].note IN
  /\ got' = [got EXCEPT ![Target(h)] = @ \union {n}]
  /\ again' = IF n \in got[Target(h)] \ troubled THEN again \union {n} ELSE again

\* Mutant of Delivered: the last error is the answer instead of the first.
DeliveredLast(h) ==
  /\ Copied(h)
  /\ Turn(h, FALSE, handler[h].heard)
  /\ UNCHANGED troubled

Delivered(h) ==
  /\ Copied(h)
  /\ Turn(h, handler[h].failed, handler[h].heard)
  /\ UNCHANGED troubled

\* Mutant of NotConfirmed: the first error ends the loop.
NotConfirmedStop(h) ==
  /\ handler' = [handler EXCEPT ![h].todo = <<>>, ![h].failed = TRUE]
  /\ troubled' = troubled \union {handler[h].note}

NotConfirmed(h) ==
  /\ Turn(h, TRUE, handler[h].heard)
  /\ troubled' = troubled \union {handler[h].note}

\* The context of a handler whose caller has left is cancelled: no send succeeds.
Send(h) ==
  /\ Sending(h)
  /\ IF handler[h].heard /\ ~Refuses(Target(h))
       THEN Delivered(h)
       ELSE NotConfirmed(h) /\ UNCHANGED received
  /\ UNCHANGED <<list, posts, faults, accepted>>

\* Telegram is out of reach, or has sent the message and the answer is lost.
SendFails(h) ==
  /\ Fault
  /\ Sending(h) /\ handler[h].heard /\ ~Refuses(Target(h))
  /\ NotConfirmed(h)
  /\ Copied(h) \/ UNCHANGED received
  /\ UNCHANGED <<list, posts, accepted>>

\* The caller gives up during a send: the agent after 3 s, Alertmanager as it restarts.
CallerLeaves(h) ==
  /\ Fault
  /\ Sending(h) /\ handler[h].heard
  /\ Turn(h, TRUE, FALSE)
  /\ troubled' = troubled \union {handler[h].note}
  /\ UNCHANGED received \/ (~Refuses(Target(h)) /\ Copied(h))
  /\ UNCHANGED <<list, posts, accepted>>

Ended(h) ==
  /\ handler[h] # Idle /\ handler[h].todo = <<>>
  /\ handler' = [handler EXCEPT ![h] = Idle]
  /\ accepted' = accepted \union (IF handler[h].failed THEN {} ELSE {handler[h].note})
  /\ UNCHANGED <<list, alert, events, received>>

\* 200 or 502; only Alertmanager acts on it.
Answer(h) ==
  /\ Ended(h)
  /\ told' = IF handler[h].note \in Alerts /\ ~handler[h].failed THEN handler[h].note ELSE told
  /\ UNCHANGED <<faults, troubled>>

\* The answer is lost: slow chats can outlast the server's WriteTimeout of 30 s.
AnswerLost(h) ==
  /\ Fault
  /\ Ended(h) /\ handler[h].heard
  /\ troubled' = troubled \union {handler[h].note}
  /\ UNCHANGED told
---------------------------------------------------------------------------
(* The rest of the bot, and the world *)

\* The alert fires or is resolved.
Change ==
  /\ alert < MaxAlerts /\ alert' = alert + 1
  /\ UNCHANGED <<list, told, events, handler, faults, received, troubled, accepted>>

\* Docker restarts the bot, with the configured chats and an empty memory.
Crash ==
  /\ Fault
  /\ chats' = configured /\ adding' = FALSE
  /\ handler' = [h \in Handlers |-> Idle]
  /\ troubled' = troubled \union {handler[h].note : h \in {g \in Handlers : handler[g] # Idle}}
  /\ UNCHANGED <<configured, posts, received, accepted>>
---------------------------------------------------------------------------
Next ==
  \/ Register \/ Registered
  \/ \E h \in Handlers :
       \/ Post(h) \/ Notify(h) \/ Send(h) \/ SendFails(h) \/ CallerLeaves(h)
       \/ Answer(h) \/ AnswerLost(h)
  \/ Change \/ Crash

\* Alertmanager keeps posting what has not been taken, and some handler goes on.
Spec == Init /\ [][Next]_vars
          /\ WF_vars(\E h \in Handlers : Post(h))
          /\ WF_vars(\E h \in Handlers : Send(h) \/ Answer(h))
---------------------------------------------------------------------------
(* A POST the bot answers with 200 has reached every configured chat, and somebody    *)
(* in any case, although the chats were sent to one by one, some of them fail, the    *)
(* list was being appended to, and other handlers run.                                *)
AcceptedIsDelivered ==
  /\ \A n \in accepted :
       /\ \E c \in Chats : n \in got[c]
       /\ \A c \in Range(configured) : n \in got[c]
  /\ told > 0 => told \in accepted

(* A chat gets a note twice only after some send of that note failed, its answer was  *)
(* lost, its caller left or the bot crashed: what goes well is told once, whatever    *)
(* the callers repeat and whoever registers.                                          *)
DuplicatesHaveACause == again = {}

(* Every configured chat that takes messages is told of a change of the alert, or of  *)
(* a later one, though another chat refuses all of them and answers are lost.         *)
EveryAlertArrives ==
  \A n \in Alerts :
    (alert >= n) ~> (\A c \in Range(configured) \ {Dead} : \E m \in n .. MaxAlerts : m \in got[c])
=============================================================================
