------------------------------ MODULE TelegramBot ------------------------------
(***************************************************************************)
(* The interactive side of ovpn-telegram-bot: updates of the owner's chat  *)
(* wait at Telegram, one loop fetches them in batches and handles them one  *)
(* by one, and a confirmed action restarts services and watches each come   *)
(* back while the next updates wait.                                       *)
(*                                                                         *)
(* Telegram keeps an update until getUpdates asks for a later one.  What    *)
(* the bot has seen, the action it waits to have confirmed and the prompt   *)
(* it waits to have answered are in its memory, which a crash clears.       *)
(* Replies are best effort and change nothing here; the chats the bot       *)
(* learns, and its health, are in AlertDelivery.                            *)
(***************************************************************************)
EXTENDS Integers, Sequences, FiniteSets, FiniteSetsExt

CONSTANTS
  Probed,        \* services with a check and a restart of their own, agent among them
  Agent, Xray,   \* ovpn-agent, and the service whose check is the agent's answer
  Said,          \* the updates that may be sent
  MaxUpdates,    \* bound: updates sent to the bot
  MaxPolls,      \* checks of a service before its deadline: 45 s, one every 3 s
  MaxFaults      \* bound: crashes of the bot and failures of services

Services == Probed \union {Xray}

\* What an update says.  A request for a restart or for heal is a command or a button;
\* "link" is the User link button, "text" neither a command nor a menu word, and
\* "read" every command, menu word and button that only shows something.
Asks == [kind : {"restart"}, service : Services] \union [kind : {"heal"}]
Words == {"yes", "no", "cancel", "link", "text", "read"}
Updates == [owner : BOOLEAN, says : Asks \union [kind : Words]]

ASSUME BotAssumption ==
  /\ Agent \in Probed /\ Xray \notin Probed
  /\ IsFiniteSet(Probed)
  /\ Said \subseteq Updates
  /\ MaxPolls \in Nat \ {0} /\ {MaxUpdates, MaxFaults} \subseteq Nat

None == [ask |-> 0]

VARIABLES
  sent,      \* the updates, numbered from 1 as Telegram numbers them
  forgotten, \* updates before this number are gone from Telegram
  \* memory of the bot
  offset,    \* what the next getUpdates asks for
  next, last,\* the rest of the batch in hand; none when next > last
  confirm,   \* the action that waits for a confirmation, and the update that asked
  prompt,    \* the update that asked for a link
  job,       \* the confirmed action being carried out
  \* the world
  up,        \* services that work
  faults,
  \* history
  handled,   \* updates handled to the end
  linked     \* the last link sent: who asked, and with which text

memory == <<offset, next, last, confirm, prompt, job>>
vars == <<sent, forgotten, memory, up, faults, handled, linked>>

Jobs == [ask : 1 .. MaxUpdates, by : 1 .. MaxUpdates, says : Asks,
         todo : SUBSET Services, now : Services \union {"none"}, polls : 0 .. MaxPolls]

TypeOK ==
  /\ sent \in Seq(Said) /\ Len(sent) <= MaxUpdates
  /\ {forgotten, next} \subseteq 1 .. MaxUpdates + 1
  /\ offset \in 0 .. MaxUpdates + 1 /\ last \in 0 .. MaxUpdates
  /\ confirm \in {None} \union [ask : 1 .. MaxUpdates, says : Asks]
  /\ prompt \in 0 .. MaxUpdates
  /\ job \in {None} \union Jobs
  /\ up \subseteq Services /\ faults \in 0 .. MaxFaults
  /\ handled \subseteq 1 .. MaxUpdates
  /\ linked \in [ask : 0 .. MaxUpdates, by : 0 .. MaxUpdates]

Init ==
  /\ sent = <<>> /\ forgotten = 1
  /\ offset = 0 /\ next = 1 /\ last = 0
  /\ confirm = None /\ prompt = 0 /\ job = None
  /\ up = Services /\ faults = 0
  /\ handled = {} /\ linked = [ask |-> 0, by |-> 0]

-----------------------------------------------------------------------------
(* pollLoop. *)

Send(update) ==
  /\ Len(sent) < MaxUpdates
  /\ sent' = Append(sent, update)
  /\ UNCHANGED <<forgotten, memory, up, faults, handled, linked>>

\* Mutant of Idle: the loop polls on while an action is carried out in the background.
IdleOrActing == next > last \/ job # None

Idle == next > last /\ job = None

\* getUpdates(offset): Telegram forgets what is before offset and answers with the rest.
Fetch ==
  /\ Idle
  /\ forgotten' = Max({forgotten, offset})
  /\ next' = forgotten' /\ last' = Len(sent)
  /\ UNCHANGED <<sent, offset, confirm, prompt, job, up, faults, handled, linked>>

\* The answer is lost, after Telegram has taken the offset.  (A request that is lost
\* changes nothing.)
LoseAnswer ==
  /\ Idle /\ faults < MaxFaults
  /\ forgotten' = Max({forgotten, offset})
  /\ faults' = faults + 1
  /\ UNCHANGED <<sent, memory, up, handled, linked>>

\* The update in hand is handled and the loop goes on to the next one.
Handled == /\ handled' = handled \union {next}
           /\ next' = next + 1
           /\ UNCHANGED last

\* An update is taken before it is handled: the offset is past it from here on.
Take(kinds) ==
  /\ next <= last /\ job = None
  /\ sent[next].owner /\ sent[next].says.kind \in kinds
  /\ offset' = Max({offset, next + 1})

\* isAllowed.
Ignore ==
  /\ next <= last /\ ~sent[next].owner
  /\ offset' = Max({offset, next + 1})
  /\ Handled
  /\ UNCHANGED <<sent, forgotten, confirm, prompt, job, up, faults, linked>>

Show ==
  /\ Take({"read"}) /\ Handled
  /\ UNCHANGED <<sent, forgotten, confirm, prompt, job, up, faults, linked>>

-----------------------------------------------------------------------------
(* Prompts and confirmations. *)

AskLink ==
  /\ Take({"link"}) /\ Handled
  /\ prompt' = next
  /\ UNCHANGED <<sent, forgotten, confirm, job, up, faults, linked>>

\* handlePromptInput, when a prompt waits: whether there is such a user or not, the
\* prompt is used up.
Answer ==
  /\ Take({"text"}) /\ Handled
  /\ prompt' = 0
  /\ linked' \in IF prompt = 0 THEN {linked} ELSE {linked, [ask |-> prompt, by |-> next]}
  /\ UNCHANGED <<sent, forgotten, confirm, job, up, faults>>

\* beginRestartConfirm and beginHealConfirm.
AskAction ==
  /\ Take({"restart", "heal"}) /\ Handled
  /\ confirm' = [ask |-> next, says |-> sent[next].says]
  /\ UNCHANGED <<sent, forgotten, prompt, job, up, faults, linked>>

\* Mutant of Cancel: only the prompt is dropped.
CancelPromptOnly ==
  /\ Take({"cancel"}) /\ Handled
  /\ prompt' = 0
  /\ UNCHANGED <<sent, forgotten, confirm, job, up, faults, linked>>

Cancel ==
  /\ Take({"cancel"}) /\ Handled
  /\ prompt' = 0 /\ confirm' = None
  /\ UNCHANGED <<sent, forgotten, job, up, faults, linked>>

Decline ==
  /\ Take({"no"}) /\ Handled
  /\ confirm' = None
  /\ UNCHANGED <<sent, forgotten, prompt, job, up, faults, linked>>

\* promptTTL and confirmTTL, also while updates wait.
Expire ==
  /\ \/ confirm # None /\ confirm' = None /\ UNCHANGED prompt
     \/ prompt # 0 /\ prompt' = 0 /\ UNCHANGED confirm
  /\ UNCHANGED <<sent, forgotten, offset, next, last, job, up, faults, handled, linked>>

-----------------------------------------------------------------------------
(* executeConfirm, heal and the restarts. *)

\* The check of Xray is what the agent says of it.
Healthy(service) == service \in up /\ (service = Xray => Agent \in up)

\* unhealthyRestartables: the check of Xray is not restartable, so heal leaves it.
Unhealthy == {s \in Probed : ~Healthy(s)}

Targets(says) == IF says.kind = "heal" THEN Unhealthy ELSE {says.service}

Confirm ==
  /\ Take({"yes"})
  /\ IF confirm = None \/ Targets(confirm.says) = {}
       THEN Handled /\ UNCHANGED job
       ELSE /\ job' = [ask |-> confirm.ask, by |-> next, says |-> confirm.says,
                       todo |-> Targets(confirm.says), now |-> "none", polls |-> 0]
            /\ UNCHANGED <<next, last, handled>>
  /\ confirm' = None
  /\ UNCHANGED <<sent, forgotten, prompt, up, faults, linked>>

\* The operator's Restart: Docker stops and starts the container, and reports an error
\* also when it only takes too long.  A service that was restarted may be up or not.
Restart ==
  /\ job # None /\ job.now = "none"
  /\ \E s \in job.todo, works, failed \in BOOLEAN :
       /\ up' = IF works THEN up \union {s} ELSE up \ {s}
       /\ job' = [job EXCEPT !.todo = @ \ {s}, !.now = IF failed THEN "none" ELSE s,
                             !.polls = 0]
  /\ UNCHANGED <<sent, forgotten, offset, next, last, confirm, prompt, faults, handled,
                 linked>>

Watching == job # None /\ job.now # "none"

\* Mutant of Watch: the deadline is never looked at.
WatchForever ==
  /\ Watching /\ Healthy(job.now)
  /\ job' = [job EXCEPT !.now = "none", !.polls = 0]
  /\ UNCHANGED <<sent, forgotten, offset, next, last, confirm, prompt, up, faults, handled,
                 linked>>

\* Mutant of Watch: one check after the deadline.
WatchLate ==
  /\ Watching
  /\ job' = IF Healthy(job.now) \/ job.polls > MaxPolls
              THEN [job EXCEPT !.now = "none", !.polls = 0]
              ELSE [job EXCEPT !.polls = @ + 1]
  /\ UNCHANGED <<sent, forgotten, offset, next, last, confirm, prompt, up, faults, handled,
                 linked>>

\* waitServiceHealthy.
Watch ==
  /\ Watching
  /\ job' = IF Healthy(job.now) \/ job.polls = MaxPolls
              THEN [job EXCEPT !.now = "none", !.polls = 0]
              ELSE [job EXCEPT !.polls = @ + 1]
  /\ UNCHANGED <<sent, forgotten, offset, next, last, confirm, prompt, up, faults, handled,
                 linked>>

Report ==
  /\ job # None /\ job.now = "none" /\ job.todo = {}
  /\ job' = None /\ Handled
  /\ UNCHANGED <<sent, forgotten, offset, confirm, prompt, up, faults, linked>>

-----------------------------------------------------------------------------
(* Faults. *)

Fault == faults < MaxFaults /\ faults' = faults + 1

\* Docker starts the bot again: it asks from offset 0, which is the oldest update that
\* Telegram still has.
Crash ==
  /\ Fault
  /\ offset' = 0 /\ next' = 1 /\ last' = 0
  /\ confirm' = None /\ prompt' = 0 /\ job' = None
  /\ UNCHANGED <<sent, forgotten, up, handled, linked>>

Fail ==
  /\ Fault
  /\ \E s \in up : up' = up \ {s}
  /\ UNCHANGED <<sent, forgotten, memory, handled, linked>>

\* A service that comes back by itself.
Recover ==
  /\ \E s \in Services \ up : up' = up \union {s}
  /\ UNCHANGED <<sent, forgotten, memory, faults, handled, linked>>

Handle == \/ Ignore \/ Show \/ AskLink \/ Answer \/ AskAction \/ Cancel \/ Decline
          \/ Confirm \/ Restart \/ Watch \/ Report

Next ==
  \/ \E update \in Said : Send(update)
  \/ Fetch \/ LoseAnswer \/ Handle \/ Expire \/ Crash \/ Fail \/ Recover

\* The loop runs as long as the process does, and no step of it waits without a timeout.
Fairness == WF_vars(Fetch) /\ WF_vars(Handle)

Spec == Init /\ [][Next]_vars /\ Fairness

-----------------------------------------------------------------------------
(* What the owner relies on. *)

From(first, end) == {sent[i].says.kind : i \in {j \in first + 1 .. end - 1 : sent[j].owner}}

\* Services are restarted as the owner asked and confirmed: the action is the last one
\* asked for before the confirmation, and it was not cancelled, declined or carried out
\* in between, however often updates are delivered.
OnlyConfirmedRuns ==
  job # None =>
    /\ job.ask < job.by
    /\ sent[job.ask] = [owner |-> TRUE, says |-> job.says]
    /\ sent[job.by].owner /\ sent[job.by].says.kind = "yes"
    /\ From(job.ask, job.by) \intersect {"restart", "heal", "yes", "no", "cancel"} = {}

\* A link, which is a credential, is sent for the first text after the owner pressed User
\* link and did not cancel.
OnlyAskedLinks ==
  linked.ask # 0 =>
    /\ sent[linked.ask].owner /\ sent[linked.ask].says.kind = "link"
    /\ sent[linked.by].owner
    /\ From(linked.ask, linked.by) \intersect {"text", "link", "cancel"} = {}

\* Nothing is restarted and no link is sent but at the owner's word.
OnlyAsked == OnlyConfirmedRuns /\ OnlyAskedLinks

\* Telegram forgets no update that the bot has not handled to the end, whatever answer is
\* lost and whenever the bot crashes.
ForgottenIsHandled == 1 .. forgotten - 1 \subseteq handled

\* Every update is handled: no action, with services that never come back, stops the loop.
EveryUpdateHandled ==
  \A i \in 1 .. MaxUpdates : i <= Len(sent) ~> i \in handled
=============================================================================
