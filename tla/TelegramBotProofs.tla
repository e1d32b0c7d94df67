--------------------------- MODULE TelegramBotProofs ---------------------------
(* Proofs about TelegramBot, for any services, updates and bounds.          *)
EXTENDS TelegramBot, SequenceTheorems, TLAPS

\* What the owner can say that opens, answers or closes a question; or a link prompt.
ActionWords == {"restart", "heal", "yes", "no", "cancel"}
LinkWords == {"text", "link", "cancel"}

\* The owner said none of these words between two updates.
Quiet(first, end, words) ==
  \A i \in first + 1 .. end - 1 : sent[i].owner => sent[i].says.kind \notin words

\* An update whose action runs is handled when it ends, though its offset is past.
Acting == IF job = None THEN 0 ELSE 1

\* The next getUpdates never asks past what has been handled.
Bounds ==
  /\ last <= Len(sent) /\ next <= Len(sent) + 1 /\ forgotten <= Len(sent) + 1
  /\ offset <= next + Acting
  /\ next <= last => forgotten <= next
  /\ 1 .. next - 1 \subseteq handled /\ 1 .. forgotten - 1 \subseteq handled

\* While a question is open the bot has not crashed: the updates since it was asked
\* were handled one after another, each once.
Steady == confirm # None \/ prompt # 0 => forgotten <= next /\ offset = next + Acting

\* An open question was asked for what the owner said, and not answered since.
Confirmable ==
  confirm # None =>
    /\ job = None /\ confirm.ask < next
    /\ sent[confirm.ask] = [owner |-> TRUE, says |-> confirm.says]
    /\ Quiet(confirm.ask, next, ActionWords)

\* So was an open link prompt.
Prompted ==
  prompt # 0 =>
    /\ prompt < next
    /\ sent[prompt].owner /\ sent[prompt].says.kind = "link"
    /\ Quiet(prompt, next, LinkWords)

\* What runs was asked for and then confirmed, with nothing in between.
Running ==
  job # None =>
    /\ next <= last /\ job.by = next /\ job.ask < next
    /\ sent[job.ask] = [owner |-> TRUE, says |-> job.says]
    /\ sent[next].owner /\ sent[next].says.kind = "yes"
    /\ Quiet(job.ask, next, ActionWords)

\* The last link was asked for, and given in answer to the prompt.
Linked ==
  linked.ask # 0 =>
    /\ linked.ask <= Len(sent) /\ linked.by \in 1 .. Len(sent)
    /\ sent[linked.ask].owner /\ sent[linked.ask].says.kind = "link"
    /\ sent[linked.by].owner
    /\ Quiet(linked.ask, linked.by, LinkWords)

\* The inductive invariant.
IInv == TypeOK /\ Bounds /\ Steady /\ Confirmable /\ Prompted /\ Running /\ Linked

-----------------------------------------------------------------------------
(* Facts about the operators.                                              *)

\* The later of two positions.
LEMMA MaxOfTwo ==
  ASSUME NEW a \in Int, NEW b \in Int
  PROVE  /\ Max({a, b}) \in {a, b} /\ Max({a, b}) \in Int
         /\ Max({a, b}) >= a /\ Max({a, b}) >= b
<1>1. \E x \in {a, b} : \A y \in {a, b} : x >= y
  OBVIOUS
<1>2. Max({a, b}) \in {a, b} /\ \A y \in {a, b} : Max({a, b}) >= y
  BY <1>1 DEF Max
<1> QED BY <1>2

\* The words between two updates, one by one.
LEMMA QuietIsNothingSaid ==
  ASSUME NEW first, NEW end, NEW words, Quiet(first, end, words)
  PROVE  From(first, end) \intersect words = {}
BY DEF Quiet, From

\* A word more.
LEMMA QuietGrows ==
  ASSUME NEW words, NEW first \in Int, NEW n \in Int, Quiet(first, n, words),
         sent[n].owner => sent[n].says.kind \notin words
  PROVE  Quiet(first, n + 1, words)
<1> SUFFICES ASSUME NEW i \in first + 1 .. n, sent[i].owner
             PROVE  sent[i].says.kind \notin words
  BY DEF Quiet
<1>1. CASE i = n
  BY <1>1
<1>2. CASE i # n
  BY <1>2 DEF Quiet
<1> QED BY <1>1, <1>2

\* The numbers that the state is made of.
LEMMA Numbers ==
  ASSUME TypeOK
  PROVE  /\ MaxUpdates \in Nat /\ MaxFaults \in Nat /\ MaxPolls \in Nat \ {0}
         /\ next \in 1 .. MaxUpdates + 1 /\ forgotten \in 1 .. MaxUpdates + 1
         /\ offset \in Nat /\ last \in Nat /\ prompt \in Nat
         /\ Len(sent) \in 0 .. MaxUpdates /\ sent \in Seq(Said) /\ Said \subseteq Updates
         /\ \A i \in 1 .. Len(sent) : sent[i] \in Said /\ sent[i].owner \in BOOLEAN
         /\ Acting \in {0, 1}
<1>1. /\ MaxUpdates \in Nat /\ MaxFaults \in Nat /\ MaxPolls \in Nat \ {0}
      /\ Said \subseteq Updates
  BY BotAssumption
<1>2. \A i \in 1 .. Len(sent) : sent[i] \in Said /\ sent[i].owner \in BOOLEAN
  BY <1>1 DEF TypeOK, Updates
<1>3. Acting \in {0, 1}
  BY DEF Acting
<1> QED BY <1>1, <1>2, <1>3 DEF TypeOK

\* A confirmation that waits, and an action being carried out.
LEMMA Fields ==
  ASSUME TypeOK
  PROVE  /\ confirm # None => /\ confirm.ask \in 1 .. MaxUpdates /\ confirm.says \in Asks
         /\ job # None => /\ job \in Jobs
                          /\ job.ask \in 1 .. MaxUpdates /\ job.by \in 1 .. MaxUpdates
                          /\ job.says \in Asks /\ job.todo \subseteq Services
                          /\ job.now \in Services \union {"none"} /\ job.polls \in 0 .. MaxPolls
         /\ linked.ask \in 0 .. MaxUpdates /\ linked.by \in 0 .. MaxUpdates
<1>1. linked.ask \in 0 .. MaxUpdates /\ linked.by \in 0 .. MaxUpdates
  BY DEF TypeOK
<1>2. confirm # None => /\ confirm.ask \in 1 .. MaxUpdates /\ confirm.says \in Asks
  BY DEF TypeOK
<1>3. job # None => job \in Jobs
  BY DEF TypeOK
<1> QED BY <1>1, <1>2, <1>3 DEF Jobs

-----------------------------------------------------------------------------
(* The invariant holds at first and is kept by every step.                 *)

\* A bot that starts has heard nothing.
LEMMA InvInit == Init => IInv
<1> SUFFICES ASSUME Init PROVE IInv
  OBVIOUS
<1>1. MaxUpdates \in Nat /\ MaxFaults \in Nat
  BY BotAssumption
<1>2. TypeOK
  BY <1>1 DEF Init, TypeOK
<1>3. Bounds /\ Steady /\ Confirmable /\ Prompted /\ Running /\ Linked
  BY DEF Init, Bounds, Steady, Confirmable, Prompted, Running, Linked, Acting
<1> QED BY <1>2, <1>3 DEF IInv

\* An update is handled at once: what waits is dropped, is kept unless the update is
\* a word that ends it, or is what the update asks.
LEMMA HandledStep ==
  ASSUME IInv, next <= last, job = None,
         offset' = Max({offset, next + 1}), Handled,
         UNCHANGED <<sent, forgotten, job, up, faults>>,
         \/ confirm' = None
         \/ /\ confirm' = confirm
            /\ sent[next].owner => sent[next].says.kind \notin ActionWords
         \/ /\ confirm' = [ask |-> next, says |-> sent[next].says]
            /\ sent[next].owner /\ sent[next].says \in Asks,
         \/ prompt' = 0
         \/ /\ prompt' = prompt
            /\ sent[next].owner => sent[next].says.kind \notin LinkWords
         \/ /\ prompt' = next
            /\ sent[next].owner /\ sent[next].says.kind = "link",
         \/ linked' = linked
         \/ /\ linked' = [ask |-> prompt, by |-> next]
            /\ prompt # 0 /\ sent[next].owner
  PROVE  IInv'
<1> USE DEF IInv
<1>1. /\ next' = next + 1 /\ last' = last /\ handled' = handled \union {next}
      /\ sent' = sent /\ forgotten' = forgotten /\ job' = None /\ up' = up /\ faults' = faults
      /\ next \in 1 .. Len(sent) /\ next <= MaxUpdates
  BY Numbers DEF Handled, Bounds
<1>2. offset <= next /\ offset' = next + 1
  <2>1. offset <= next /\ offset \in Int /\ next \in Int
    BY Numbers DEF Bounds, Acting
  <2>2. /\ Max({offset, next + 1}) \in {offset, next + 1}
        /\ Max({offset, next + 1}) >= next + 1
    BY <2>1, MaxOfTwo
  <2> QED BY <2>1, <2>2
<1>3. TypeOK'
  <2>1. confirm' \in {None} \union [ask : 1 .. MaxUpdates, says : Asks]
    BY <1>1, Numbers, SMTT(30) DEF TypeOK
  <2>2. prompt' \in 0 .. MaxUpdates
    BY <1>1, Numbers, SMTT(30) DEF TypeOK
  <2>3. linked' \in [ask : 0 .. MaxUpdates, by : 0 .. MaxUpdates]
    BY <1>1, Numbers DEF TypeOK
  <2>4. next' \in 1 .. MaxUpdates + 1 /\ offset' \in 0 .. MaxUpdates + 1
    BY <1>1, <1>2, Numbers
  <2>5. handled' \subseteq 1 .. MaxUpdates
    <3>1. handled \subseteq 1 .. MaxUpdates /\ next \in 1 .. MaxUpdates
      BY <1>1, Numbers DEF TypeOK
    <3> QED BY <1>1, <3>1
  <2> QED BY <1>1, <2>1, <2>2, <2>3, <2>4, <2>5 DEF TypeOK
<1>4. Bounds'
  <2>1. 1 .. next' - 1 \subseteq handled' /\ 1 .. forgotten' - 1 \subseteq handled'
    BY <1>1, Numbers, SMTT(30) DEF Bounds
  <2> QED BY <1>1, <1>2, <2>1, Numbers DEF Bounds, Acting
<1>5. Steady'
  BY <1>1, <1>2, Numbers DEF Steady, Bounds, Acting
<1>6. Confirmable'
  <2>1. CASE confirm' = None
    BY <2>1 DEF Confirmable
  <2>2. CASE /\ confirm' = confirm /\ confirm # None
             /\ sent[next].owner => sent[next].says.kind \notin ActionWords
    <3>1. Quiet(confirm.ask, next + 1, ActionWords)
      BY <2>2, Numbers, Fields, QuietGrows, SMTT(30) DEF Confirmable
    <3>2. Quiet(confirm.ask, next, ActionWords)'
      BY <1>1, <2>2, <3>1 DEF Quiet
    <3> QED BY <1>1, <2>2, <3>2, Numbers, Fields DEF Confirmable
  <2>3. CASE /\ confirm' = [ask |-> next, says |-> sent[next].says]
             /\ sent[next].owner /\ sent[next].says \in Asks
    <3>1. sent[next] \in Updates /\ sent[next] = [owner |-> TRUE, says |-> sent[next].says]
      BY <1>1, <2>3, Numbers DEF Updates
    <3>2. Quiet(confirm.ask, next, ActionWords)'
      BY <1>1, <2>3, Numbers DEF Quiet
    <3> QED BY <1>1, <2>3, <3>1, <3>2, Numbers DEF Confirmable
  <2> QED BY <2>1, <2>2, <2>3
<1>7. Prompted'
  <2>1. CASE prompt' = 0
    BY <2>1 DEF Prompted
  <2>2. CASE /\ prompt' = prompt /\ prompt # 0
             /\ sent[next].owner => sent[next].says.kind \notin LinkWords
    <3>1. Quiet(prompt, next + 1, LinkWords)
      BY <2>2, Numbers, QuietGrows DEF Prompted
    <3>2. Quiet(prompt, next, LinkWords)'
      BY <1>1, <2>2, <3>1 DEF Quiet
    <3> QED BY <1>1, <2>2, <3>2, Numbers DEF Prompted
  <2>3. CASE /\ prompt' = next
             /\ sent[next].owner /\ sent[next].says.kind = "link"
    <3>1. Quiet(prompt, next, LinkWords)'
      BY <1>1, <2>3, Numbers DEF Quiet
    <3> QED BY <1>1, <2>3, <3>1, Numbers DEF Prompted
  <2> QED BY <2>1, <2>2, <2>3
<1>8. Running'
  BY <1>1 DEF Running
<1>9. Linked'
  <2>1. CASE linked' = linked
    BY <1>1, <2>1 DEF Linked, Quiet
  <2>2. CASE /\ linked' = [ask |-> prompt, by |-> next]
             /\ prompt # 0 /\ sent[next].owner
    <3>1. Quiet(linked.ask, linked.by, LinkWords)'
      BY <1>1, <2>2 DEF Prompted, Quiet
    <3> QED BY <1>1, <2>2, <3>1, Numbers DEF Prompted, Linked
  <2> QED BY <2>1, <2>2
<1> QED BY <1>3, <1>4, <1>5, <1>6, <1>7, <1>8, <1>9

\* What Take leaves to be said of an update.
LEMMA TakenStep ==
  ASSUME IInv, NEW kinds, Take(kinds)
  PROVE  /\ next <= last /\ job = None /\ offset' = Max({offset, next + 1})
         /\ sent[next].owner /\ sent[next].says.kind \in kinds
         /\ next \in 1 .. Len(sent) /\ sent[next] \in Updates
         /\ kinds = {"restart", "heal"} => sent[next].says \in Asks
<1>1. /\ next <= last /\ job = None /\ offset' = Max({offset, next + 1})
      /\ sent[next].owner /\ sent[next].says.kind \in kinds
  BY DEF Take
<1>2. next \in 1 .. Len(sent) /\ sent[next] \in Updates
  BY <1>1, Numbers DEF IInv, Bounds
<1>3. kinds = {"restart", "heal"} => sent[next].says \in Asks
  <2>1. sent[next].says \in Asks \union [kind : Words]
    BY <1>2 DEF Updates
  <2>2. "restart" \notin Words /\ "heal" \notin Words
    BY DEF Words
  <2> QED BY <1>1, <2>1, <2>2
<1> QED BY <1>1, <1>2, <1>3

\* The updates that are handled at once.
LEMMA AtOnceStep ==
  ASSUME IInv, Ignore \/ Show \/ AskLink \/ Answer \/ AskAction \/ Cancel \/ Decline
  PROVE  IInv'
<1>1. CASE Ignore
  <2>1. /\ next <= last /\ ~sent[next].owner /\ offset' = Max({offset, next + 1}) /\ Handled
        /\ UNCHANGED <<sent, forgotten, confirm, prompt, job, up, faults, linked>>
    BY <1>1 DEF Ignore
  <2>2. job = None
    BY <2>1 DEF IInv, Running
  <2> QED BY <2>1, <2>2, HandledStep
<1>2. CASE Show
  <2>1. /\ Take({"read"}) /\ Handled
        /\ UNCHANGED <<sent, forgotten, confirm, prompt, job, up, faults, linked>>
    BY <1>2 DEF Show
  <2>2. sent[next].says.kind \notin ActionWords /\ sent[next].says.kind \notin LinkWords
    BY <2>1, TakenStep DEF ActionWords, LinkWords
  <2> QED BY <2>1, <2>2, TakenStep, HandledStep
<1>3. CASE AskLink
  <2>1. /\ Take({"link"}) /\ Handled /\ prompt' = next
        /\ UNCHANGED <<sent, forgotten, confirm, job, up, faults, linked>>
    BY <1>3 DEF AskLink
  <2>2. sent[next].says.kind = "link" /\ sent[next].says.kind \notin ActionWords
    BY <2>1, TakenStep DEF ActionWords
  <2> QED BY <2>1, <2>2, TakenStep, HandledStep
<1>4. CASE Answer
  <2>1. /\ Take({"text"}) /\ Handled /\ prompt' = 0
        /\ linked' = linked \/ (prompt # 0 /\ linked' = [ask |-> prompt, by |-> next])
        /\ UNCHANGED <<sent, forgotten, confirm, job, up, faults>>
    BY <1>4 DEF Answer
  <2>2. sent[next].owner /\ sent[next].says.kind \notin ActionWords
    BY <2>1, TakenStep DEF ActionWords
  <2> QED BY <2>1, <2>2, TakenStep, HandledStep
<1>5. CASE AskAction
  <2>1. /\ Take({"restart", "heal"}) /\ Handled
        /\ confirm' = [ask |-> next, says |-> sent[next].says]
        /\ UNCHANGED <<sent, forgotten, prompt, job, up, faults, linked>>
    BY <1>5 DEF AskAction
  <2>2. /\ sent[next].owner /\ sent[next].says \in Asks
        /\ sent[next].says.kind \notin LinkWords
    BY <2>1, TakenStep DEF LinkWords
  <2> QED BY <2>1, <2>2, TakenStep, HandledStep
<1>6. CASE Cancel
  <2>1. /\ Take({"cancel"}) /\ Handled /\ prompt' = 0 /\ confirm' = None
        /\ UNCHANGED <<sent, forgotten, job, up, faults, linked>>
    BY <1>6 DEF Cancel
  <2> QED BY <2>1, TakenStep, HandledStep
<1>7. CASE Decline
  <2>1. /\ Take({"no"}) /\ Handled /\ confirm' = None
        /\ UNCHANGED <<sent, forgotten, prompt, job, up, faults, linked>>
    BY <1>7 DEF Decline
  <2>2. sent[next].says.kind \notin LinkWords
    BY <2>1, TakenStep DEF LinkWords
  <2> QED BY <2>1, <2>2, TakenStep, HandledStep
<1> QED BY <1>1, <1>2, <1>3, <1>4, <1>5, <1>6, <1>7

\* The owner confirms: the action is what was asked for last, or there is none.
LEMMA ConfirmStep ==
  ASSUME IInv, Confirm
  PROVE  IInv'
<1>1. /\ Take({"yes"}) /\ confirm' = None
      /\ UNCHANGED <<sent, forgotten, prompt, up, faults, linked>>
  BY DEF Confirm
<1>2. /\ next <= last /\ job = None /\ offset' = Max({offset, next + 1})
      /\ sent[next].owner /\ sent[next].says.kind = "yes"
      /\ sent[next].says.kind \notin LinkWords
      /\ next \in 1 .. Len(sent) /\ next <= MaxUpdates
  <2>1. /\ next <= last /\ job = None /\ offset' = Max({offset, next + 1})
        /\ sent[next].owner /\ sent[next].says.kind \in {"yes"} /\ next \in 1 .. Len(sent)
    BY <1>1, TakenStep
  <2> QED BY <2>1, Numbers DEF LinkWords, IInv
<1>3. CASE Handled /\ job' = job
  BY <1>1, <1>2, <1>3, HandledStep
<1>4. CASE /\ confirm # None /\ UNCHANGED <<next, last, handled>>
           /\ job' = [ask |-> confirm.ask, by |-> next, says |-> confirm.says,
                      todo |-> Targets(confirm.says), now |-> "none", polls |-> 0]
  <2> USE DEF IInv
  <2>1. /\ confirm.ask \in 1 .. MaxUpdates /\ confirm.says \in Asks
        /\ confirm.ask < next /\ sent[confirm.ask] = [owner |-> TRUE, says |-> confirm.says]
        /\ Quiet(confirm.ask, next, ActionWords)
    BY <1>4, Fields DEF Confirmable
  <2>2. Targets(confirm.says) \subseteq Services
    BY <2>1 DEF Targets, Unhealthy, Services, Asks
  <2>3. job' \in Jobs
    BY <1>2, <1>4, <2>1, <2>2, Numbers DEF Jobs
  <2>4. job' # None /\ job'.ask = confirm.ask /\ job'.by = next /\ job'.says = confirm.says
    BY <1>4, <2>1 DEF None
  <2>5. offset <= next /\ offset \in Int /\ next \in Int
    BY <1>2, Numbers DEF Bounds, Acting
  <2>6. /\ Max({offset, next + 1}) \in {offset, next + 1}
        /\ Max({offset, next + 1}) >= next + 1
    BY <2>5, MaxOfTwo
  <2>7. offset' = next + 1 /\ Acting' = 1
    BY <1>2, <2>4, <2>5, <2>6 DEF Acting
  <2>8. TypeOK'
    <3>1. offset' \in 0 .. MaxUpdates + 1
      BY <1>2, <2>7, Numbers
    <3> QED BY <1>1, <1>4, <2>3, <3>1 DEF TypeOK
  <2>9. Bounds'
    BY <1>1, <1>4, <2>7, Numbers DEF Bounds
  <2>10. Steady'
    BY <1>1, <1>2, <1>4, <2>7 DEF Steady, Bounds
  <2>11. Confirmable' /\ Prompted' /\ Linked'
    BY <1>1, <1>4 DEF Confirmable, Prompted, Linked, Quiet
  <2>12. Running'
    BY <1>1, <1>2, <1>4, <2>1, <2>4 DEF Running, Quiet
  <2> QED BY <2>8, <2>9, <2>10, <2>11, <2>12
<1> QED BY <1>3, <1>4 DEF Confirm

\* The action goes on: the loop stays where it is.
LEMMA ActingStep ==
  ASSUME IInv, job # None, job' \in Jobs, job'.ask = job.ask, job'.by = job.by,
         job'.says = job.says, up' \subseteq Services,
         UNCHANGED <<sent, forgotten, offset, next, last, confirm, prompt, faults, handled,
                     linked>>
  PROVE  IInv'
<1> USE DEF IInv
<1>1. job' # None
  BY DEF Jobs, None
<1>2. TypeOK'
  BY DEF TypeOK
<1>3. Bounds' /\ Steady'
  BY <1>1 DEF Bounds, Steady, Acting
<1>4. Confirmable' /\ Prompted' /\ Linked'
  BY DEF Confirmable, Prompted, Linked, Quiet
<1>5. Running'
  BY <1>1 DEF Running, Quiet
<1> QED BY <1>2, <1>3, <1>4, <1>5

\* A restart.
LEMMA RestartStep ==
  ASSUME IInv, Restart
  PROVE  IInv'
<1> USE DEF IInv
<1>1. PICK s \in job.todo, works \in BOOLEAN, failed \in BOOLEAN :
        /\ up' = IF works THEN up \union {s} ELSE up \ {s}
        /\ job' = [job EXCEPT !.todo = @ \ {s}, !.now = IF failed THEN "none" ELSE s,
                              !.polls = 0]
  BY DEF Restart
<1>2. /\ job # None /\ job \in Jobs
      /\ UNCHANGED <<sent, forgotten, offset, next, last, confirm, prompt, faults, handled,
                     linked>>
  BY Fields DEF Restart
<1>3. s \in Services /\ 0 \in 0 .. MaxPolls
  BY <1>2, Fields, Numbers, SMTT(30)
<1>4. job' \in Jobs /\ job'.ask = job.ask /\ job'.by = job.by /\ job'.says = job.says
  BY <1>1, <1>2, <1>3 DEF Jobs
<1>5. up' \subseteq Services
  BY <1>1, <1>3 DEF TypeOK
<1> QED BY <1>2, <1>4, <1>5, ActingStep

\* A check of a service that was restarted.
LEMMA WatchStep ==
  ASSUME IInv, Watch
  PROVE  IInv'
<1> USE DEF IInv
<1>1. /\ job # None /\ job \in Jobs /\ up' = up
      /\ UNCHANGED <<sent, forgotten, offset, next, last, confirm, prompt, faults, handled,
                     linked>>
      /\ job' = IF Healthy(job.now) \/ job.polls = MaxPolls
                  THEN [job EXCEPT !.now = "none", !.polls = 0]
                  ELSE [job EXCEPT !.polls = @ + 1]
  BY Fields DEF Watch, Watching
<1>2. 0 \in 0 .. MaxPolls /\ (job.polls # MaxPolls => job.polls + 1 \in 0 .. MaxPolls)
  <2>1. job.polls \in 0 .. MaxPolls /\ MaxPolls \in Nat \ {0}
    BY <1>1, Fields, Numbers
  <2> QED BY <2>1
<1>3. job' \in Jobs /\ job'.ask = job.ask /\ job'.by = job.by /\ job'.says = job.says
  BY <1>1, <1>2 DEF Jobs
<1>4. up' \subseteq Services
  BY <1>1 DEF TypeOK
<1> QED BY <1>1, <1>3, <1>4, ActingStep

\* The action is over, and with it the update that confirmed it.
LEMMA ReportStep ==
  ASSUME IInv, Report
  PROVE  IInv'
<1> USE DEF IInv
<1>1. /\ job # None /\ job' = None /\ next' = next + 1 /\ last' = last
      /\ handled' = handled \union {next}
      /\ UNCHANGED <<sent, forgotten, offset, confirm, prompt, up, faults, linked>>
  BY DEF Report, Handled
<1>2. /\ next <= last /\ sent[next].owner /\ sent[next].says.kind \notin LinkWords
      /\ next \in 1 .. Len(sent) /\ next <= MaxUpdates /\ confirm = None
      /\ Acting = 1 /\ Acting' = 0
  BY <1>1, Numbers, SMTT(30) DEF Running, Bounds, Confirmable, Acting, LinkWords
<1>3. TypeOK'
  <2>1. handled' \subseteq 1 .. MaxUpdates
    <3>1. handled \subseteq 1 .. MaxUpdates /\ next \in 1 .. MaxUpdates
      BY <1>2, Numbers DEF TypeOK
    <3> QED BY <1>1, <3>1
  <2>2. next' \in 1 .. MaxUpdates + 1
    BY <1>1, <1>2, Numbers
  <2> QED BY <1>1, <2>1, <2>2 DEF TypeOK
<1>4. Bounds'
  <2>1. 1 .. next' - 1 \subseteq handled' /\ 1 .. forgotten' - 1 \subseteq handled'
    BY <1>1, <1>2, Numbers DEF Bounds
  <2> QED BY <1>1, <1>2, <2>1, Numbers DEF Bounds
<1>5. Steady'
  BY <1>1, <1>2, Numbers DEF Steady
<1>6. Confirmable' /\ Running'
  BY <1>1, <1>2 DEF Confirmable, Running
<1>7. Prompted'
  <2> SUFFICES ASSUME prompt # 0 PROVE Prompted'
    BY <1>1 DEF Prompted
  <2>1. Quiet(prompt, next + 1, LinkWords)
    BY <1>2, Numbers, QuietGrows DEF Prompted
  <2>2. Quiet(prompt, next, LinkWords)'
    BY <1>1, <2>1 DEF Quiet
  <2> QED BY <1>1, <2>2, Numbers DEF Prompted
<1>8. Linked'
  BY <1>1 DEF Linked, Quiet
<1> QED BY <1>3, <1>4, <1>5, <1>6, <1>7, <1>8

\* An update more: what was said before stays.
LEMMA SendStep ==
  ASSUME IInv, NEW update \in Said, Send(update)
  PROVE  IInv'
<1> USE DEF IInv
<1>1. /\ Len(sent) < MaxUpdates /\ sent' = Append(sent, update)
      /\ UNCHANGED <<forgotten, offset, next, last, confirm, prompt, job, up, faults,
                     handled, linked>>
  BY DEF Send, memory
<1>2. /\ sent' \in Seq(Said) /\ Len(sent') = Len(sent) + 1
      /\ \A i \in 1 .. Len(sent) : sent'[i] = sent[i]
  BY <1>1, Numbers
<1>3. TypeOK'
  BY <1>1, <1>2, Numbers, SMTT(30) DEF TypeOK
<1>4. Bounds' /\ Steady'
  BY <1>1, <1>2, Numbers DEF Bounds, Steady, Acting
<1>5. ASSUME NEW first \in Nat, NEW end \in Int, NEW words, end <= Len(sent) + 1,
             Quiet(first, end, words)
      PROVE  \A i \in first + 1 .. end - 1 : sent'[i].owner => sent'[i].says.kind \notin words
  <2> SUFFICES ASSUME NEW i \in first + 1 .. end - 1, sent'[i].owner
               PROVE  sent'[i].says.kind \notin words
    OBVIOUS
  <2>1. i \in 1 .. Len(sent)
    BY <1>5, Numbers
  <2>2. sent'[i] = sent[i]
    BY <1>2, <2>1
  <2> QED BY <1>5, <2>2 DEF Quiet
<1>6. Confirmable'
  <2> SUFFICES ASSUME confirm # None PROVE Confirmable'
    BY <1>1 DEF Confirmable
  <2>1. confirm.ask \in 1 .. Len(sent) /\ next <= Len(sent) + 1
    BY Numbers, Fields DEF Confirmable, Bounds
  <2>2. Quiet(confirm.ask, next, ActionWords)'
    BY <1>1, <1>5, <2>1, Numbers, SMTT(30) DEF Confirmable, Quiet
  <2> QED BY <1>1, <1>2, <2>1, <2>2 DEF Confirmable
<1>7. Prompted'
  <2> SUFFICES ASSUME prompt # 0 PROVE Prompted'
    BY <1>1 DEF Prompted
  <2>1. prompt \in 1 .. Len(sent) /\ next <= Len(sent) + 1
    BY Numbers DEF Prompted, Bounds
  <2>2. Quiet(prompt, next, LinkWords)'
    BY <1>1, <1>5, <2>1, Numbers, SMTT(30) DEF Prompted, Quiet
  <2> QED BY <1>1, <1>2, <2>1, <2>2 DEF Prompted
<1>8. Running'
  <2> SUFFICES ASSUME job # None PROVE Running'
    BY <1>1 DEF Running
  <2>1. job.ask \in 1 .. Len(sent) /\ next \in 1 .. Len(sent)
    BY Numbers, Fields, SMTT(30) DEF Running, Bounds
  <2>2. Quiet(job.ask, next, ActionWords)'
    BY <1>1, <1>5, <2>1, Numbers, SMTT(30) DEF Running, Quiet
  <2> QED BY <1>1, <1>2, <2>1, <2>2 DEF Running
<1>9. Linked'
  <2> SUFFICES ASSUME linked.ask # 0 PROVE Linked'
    BY <1>1 DEF Linked
  <2>1. /\ linked.ask \in 1 .. Len(sent) /\ linked.by \in 1 .. Len(sent)
        /\ Len(sent) \in Nat /\ Quiet(linked.ask, linked.by, LinkWords)
    BY Numbers, Fields DEF Linked
  <2>2. \A i \in linked.ask + 1 .. linked.by - 1 :
          sent'[i].owner => sent'[i].says.kind \notin LinkWords
    BY <1>5, <2>1
  <2>3. Quiet(linked.ask, linked.by, LinkWords)'
    BY <1>1, <2>2 DEF Quiet
  <2> QED BY <1>1, <1>2, <2>1, <2>3 DEF Linked
<1> QED BY <1>3, <1>4, <1>6, <1>7, <1>8, <1>9

\* Telegram forgets what is before the offset, which has been handled.
LEMMA ForgetStep ==
  ASSUME IInv, Idle, forgotten' = Max({forgotten, offset})
  PROVE  /\ forgotten' \in Int /\ forgotten' >= forgotten
         /\ forgotten' <= Len(sent) + 1 /\ 1 .. forgotten' - 1 \subseteq handled
         /\ forgotten' \in 1 .. MaxUpdates + 1
         /\ job = None /\ next > last /\ offset <= next
         /\ confirm # None \/ prompt # 0 => forgotten' = next
<1> USE DEF IInv
<1>1. job = None /\ next > last /\ offset <= next /\ offset \in Int /\ forgotten \in Int
      /\ next \in Int
  BY Numbers DEF Idle, Bounds, Acting
<1>2. /\ Max({forgotten, offset}) \in {forgotten, offset}
      /\ Max({forgotten, offset}) >= forgotten /\ Max({forgotten, offset}) >= offset
  BY <1>1, MaxOfTwo
<1>3. forgotten' \in {forgotten, offset} /\ forgotten' >= forgotten /\ forgotten' >= offset
  BY <1>2
<1>4. forgotten' <= Len(sent) + 1
  BY <1>1, <1>3, Numbers DEF Bounds
<1>5. 1 .. forgotten' - 1 \subseteq handled
  BY <1>1, <1>3, Numbers DEF Bounds
<1>6. forgotten' \in 1 .. MaxUpdates + 1
  BY <1>1, <1>3, <1>4, Numbers
<1>7. confirm # None \/ prompt # 0 => forgotten' = next
  BY <1>1, <1>3 DEF Steady, Acting
<1> QED BY <1>1, <1>3, <1>4, <1>5, <1>6, <1>7

\* A batch: it begins where the last one ended, unless nothing is waited for.
LEMMA FetchStep ==
  ASSUME IInv, Fetch
  PROVE  IInv'
<1> USE DEF IInv
<1>1. /\ Idle /\ forgotten' = Max({forgotten, offset}) /\ next' = forgotten' /\ last' = Len(sent)
      /\ UNCHANGED <<sent, offset, confirm, prompt, job, up, faults, handled, linked>>
  BY DEF Fetch
<1>2. /\ forgotten' \in Int /\ forgotten' >= forgotten /\ forgotten' <= Len(sent) + 1
      /\ 1 .. forgotten' - 1 \subseteq handled /\ forgotten' \in 1 .. MaxUpdates + 1
      /\ job = None
      /\ confirm # None \/ prompt # 0 => forgotten' = next
  BY <1>1, ForgetStep
<1>3. offset <= forgotten'
  <2>1. offset \in Int /\ forgotten \in Int
    BY Numbers
  <2> QED BY <1>1, <2>1, MaxOfTwo
<1>4. TypeOK'
  BY <1>1, <1>2, Numbers DEF TypeOK
<1>5. Bounds'
  <2>1. Acting = 0 /\ Acting' = 0 /\ Len(sent) \in Nat
    BY <1>1, <1>2, Numbers DEF Acting
  <2>2. 1 .. next' - 1 \subseteq handled' /\ 1 .. forgotten' - 1 \subseteq handled'
    BY <1>1, <1>2
  <2>3. last' <= Len(sent') /\ next' <= Len(sent') + 1 /\ forgotten' <= Len(sent') + 1
    BY <1>1, <1>2, <2>1
  <2>4. offset' <= next' + Acting' /\ forgotten' <= next'
    BY <1>1, <1>2, <1>3, <2>1, Numbers
  <2> QED BY <2>2, <2>3, <2>4 DEF Bounds
<1>6. Steady'
  BY <1>1, <1>2, Numbers DEF Steady, Acting
<1>7. Confirmable' /\ Prompted'
  BY <1>1, <1>2 DEF Confirmable, Prompted, Quiet
<1>8. Running' /\ Linked'
  BY <1>1, <1>2 DEF Running, Linked, Quiet
<1> QED BY <1>4, <1>5, <1>6, <1>7, <1>8

\* The answer to getUpdates is lost, what was acknowledged by it is not.
LEMMA LoseAnswerStep ==
  ASSUME IInv, LoseAnswer
  PROVE  IInv'
<1> USE DEF IInv
<1>1. /\ Idle /\ forgotten' = Max({forgotten, offset})
      /\ faults < MaxFaults /\ faults' = faults + 1
      /\ UNCHANGED <<sent, offset, next, last, confirm, prompt, job, up, handled, linked>>
  BY DEF LoseAnswer, memory
<1>2. /\ forgotten' \in Int /\ forgotten' >= forgotten /\ forgotten' <= Len(sent) + 1
      /\ 1 .. forgotten' - 1 \subseteq handled /\ forgotten' \in 1 .. MaxUpdates + 1
      /\ job = None /\ next > last
      /\ confirm # None \/ prompt # 0 => forgotten' = next
  BY <1>1, ForgetStep
<1>3. TypeOK'
  <2>1. MaxFaults \in Nat /\ faults \in 0 .. MaxFaults
    BY Numbers DEF TypeOK
  <2>2. faults' \in 0 .. MaxFaults
    BY <1>1, <2>1
  <2> QED BY <1>1, <1>2, <2>2 DEF TypeOK
<1>4. Bounds'
  <2>1. Acting' = Acting /\ next \in Int /\ last \in Int
    BY <1>1, Numbers DEF Acting
  <2>2. 1 .. next' - 1 \subseteq handled' /\ 1 .. forgotten' - 1 \subseteq handled'
    BY <1>1, <1>2 DEF Bounds
  <2>3. last' <= Len(sent') /\ next' <= Len(sent') + 1 /\ forgotten' <= Len(sent') + 1
    BY <1>1, <1>2 DEF Bounds
  <2>4. offset' <= next' + Acting' /\ ~(next' <= last')
    BY <1>1, <1>2, <2>1 DEF Bounds
  <2> QED BY <2>2, <2>3, <2>4 DEF Bounds
<1>5. Steady'
  BY <1>1, <1>2, Numbers DEF Steady, Acting
<1>6. Confirmable' /\ Prompted' /\ Running' /\ Linked'
  BY <1>1, <1>2 DEF Confirmable, Prompted, Running, Linked, Quiet
<1> QED BY <1>3, <1>4, <1>5, <1>6

\* The bot restarts: it waits for nothing, and asks for the oldest update.
LEMMA CrashStep ==
  ASSUME IInv, Crash
  PROVE  IInv'
<1> USE DEF IInv
<1>1. /\ faults < MaxFaults /\ faults' = faults + 1
      /\ offset' = 0 /\ next' = 1 /\ last' = 0 /\ confirm' = None /\ prompt' = 0 /\ job' = None
      /\ UNCHANGED <<sent, forgotten, up, handled, linked>>
  BY DEF Crash, Fault
<1>2. TypeOK'
  <2>1. MaxUpdates \in Nat /\ MaxFaults \in Nat /\ faults \in 0 .. MaxFaults
    BY Numbers DEF TypeOK
  <2>2. /\ offset' \in 0 .. MaxUpdates + 1 /\ next' \in 1 .. MaxUpdates + 1
        /\ last' \in 0 .. MaxUpdates /\ prompt' \in 0 .. MaxUpdates
        /\ faults' \in 0 .. MaxFaults
    BY <1>1, <2>1
  <2> QED BY <1>1, <2>2 DEF TypeOK
<1>3. Bounds'
  BY <1>1, Numbers DEF Bounds, Acting
<1>4. Steady' /\ Confirmable' /\ Prompted' /\ Running' /\ Linked'
  BY <1>1 DEF Steady, Confirmable, Prompted, Running, Linked, Quiet
<1> QED BY <1>2, <1>3, <1>4

\* A question times out, or a service fails or comes back.
LEMMA WorldStep ==
  ASSUME IInv, Expire \/ Fail \/ Recover
  PROVE  IInv'
<1> USE DEF IInv
<1>1. /\ UNCHANGED <<sent, forgotten, offset, next, last, job, handled, linked>>
      /\ confirm' \in {None, confirm} /\ prompt' \in {0, prompt}
      /\ up' \subseteq Services /\ faults' \in 0 .. MaxFaults
  <2>1. CASE Expire
    BY <2>1 DEF Expire, TypeOK
  <2>2. CASE Fail
    <3>1. faults' \in 0 .. MaxFaults
      BY <2>2, Numbers DEF Fail, Fault, TypeOK
    <3> QED BY <2>2, <3>1 DEF Fail, memory, TypeOK
  <2>3. CASE Recover
    BY <2>3 DEF Recover, memory, TypeOK
  <2> QED BY <2>1, <2>2, <2>3
<1>2. TypeOK'
  <2>1. /\ confirm' \in {None} \union [ask : 1 .. MaxUpdates, says : Asks]
        /\ prompt' \in 0 .. MaxUpdates
    BY <1>1, Numbers DEF TypeOK
  <2> QED BY <1>1, <2>1 DEF TypeOK
<1>3. Bounds' /\ Steady'
  BY <1>1 DEF Bounds, Steady, Acting
<1>4. Confirmable' /\ Prompted' /\ Running' /\ Linked'
  BY <1>1 DEF Confirmable, Prompted, Running, Linked, Quiet
<1> QED BY <1>2, <1>3, <1>4

\* Every step keeps the invariant.
LEMMA InvStep == IInv /\ [Next]_vars => IInv'
<1> SUFFICES ASSUME IInv, [Next]_vars PROVE IInv'
  OBVIOUS
<1>1. ASSUME NEW update \in Said, Send(update) PROVE IInv'
  BY <1>1, SendStep
<1>2. CASE Fetch
  BY <1>2, FetchStep
<1>3. CASE LoseAnswer
  BY <1>3, LoseAnswerStep
<1>4. CASE Handle
  BY <1>4, AtOnceStep, ConfirmStep, RestartStep, WatchStep, ReportStep DEF Handle
<1>5. CASE Expire \/ Fail \/ Recover
  BY <1>5, WorldStep
<1>6. CASE Crash
  BY <1>6, CrashStep
<1>7. CASE UNCHANGED vars
  BY <1>7 DEF vars, memory, IInv, TypeOK, Bounds, Steady, Confirmable, Prompted, Running,
    Linked, Quiet, Acting
<1> QED BY <1>1, <1>2, <1>3, <1>4, <1>5, <1>6, <1>7 DEF Next

\* The invariant holds in every reachable state.
LEMMA Invariance == Spec => []IInv
BY InvInit, InvStep, PTL DEF Spec

\* It says what the owner relies on.
LEMMA InvIsAsked == IInv => OnlyAsked
<1> SUFFICES ASSUME IInv PROVE OnlyAsked
  OBVIOUS
<1>1. OnlyConfirmedRuns
  <2> SUFFICES ASSUME job # None PROVE OnlyConfirmedRuns
    BY DEF OnlyConfirmedRuns
  <2>1. From(job.ask, next) \intersect ActionWords = {}
    BY QuietIsNothingSaid DEF IInv, Running
  <2> QED BY <2>1 DEF IInv, Running, OnlyConfirmedRuns, ActionWords
<1>2. OnlyAskedLinks
  <2> SUFFICES ASSUME linked.ask # 0 PROVE OnlyAskedLinks
    BY DEF OnlyAskedLinks
  <2>1. From(linked.ask, linked.by) \intersect LinkWords = {}
    BY QuietIsNothingSaid DEF IInv, Linked
  <2> QED BY <2>1 DEF IInv, Linked, OnlyAskedLinks, LinkWords
<1> QED BY <1>1, <1>2 DEF OnlyAsked

-----------------------------------------------------------------------------
(* The theorems.                                                           *)

\* Every variable keeps its type; an action is watched no longer than its deadline.
THEOREM TypeCorrect == Spec => []TypeOK
BY Invariance, PTL DEF IInv

\* An action is carried out, and a link sent, only as the owner asked, confirmed and
\* did not take back, over lost answers, crashes and updates that come again.
THEOREM OnlyAtTheOwnersWord == Spec => []OnlyAsked
BY Invariance, InvIsAsked, PTL

\* Telegram forgets no update that the bot has not handled to the end.
THEOREM NothingForgotten == Spec => []ForgottenIsHandled
<1>1. IInv => ForgottenIsHandled
  BY DEF IInv, Bounds, ForgottenIsHandled
<1> QED BY <1>1, Invariance, PTL

=============================================================================
