-------------------------- MODULE AlertDeliveryProofs --------------------------
(* Proofs about AlertDelivery, for every list of chats, any number of       *)
(* handlers, alerts, events and faults.                                     *)
EXTENDS AlertDelivery, SequenceTheorems, TLAPS

\* The configured chats stay in the list, and the owner's is added once.
ListInv ==
  /\ Range(configured) \subseteq Range(chats)
  /\ adding => Unlisted

\* The notes posted so far, alerts first.
Posted == 1 .. alert \union MaxAlerts + 1 .. MaxAlerts + events
Carries(h, n) == handler[h].note = n

\* A handler that has met no error has sent to every configured chat that it
\* has not still to send to, and to at least one chat if it is through.
Faithful(h) ==
  LET d == handler[h] IN
    handler[h] # Idle /\ ~d.failed =>
      /\ d.heard
      /\ \A c \in Range(configured) \ Range(d.todo) : d.note \in got[c]
      /\ d.todo = <<>> => \E c \in Chats : d.note \in got[c]

\* Alertmanager waits for one answer at a time, and for one that is new.
OneWaited ==
  \A h \in Handlers : handler[h].note \in Alerts /\ handler[h].heard =>
    /\ told < handler[h].note
    /\ \A g \in Handlers : handler[g].note \in Alerts /\ handler[g].heard => g = h

\* A note with which nothing has gone wrong is in the hands of one handler, which
\* has sent it to none of the chats that it has still to send to ...
FirstTime(h) ==
  LET d == handler[h] IN
    handler[h] # Idle /\ d.note \notin troubled =>
      /\ d.heard
      /\ IsInjective(d.todo)
      /\ \A c \in Chats \intersect Range(d.todo) : d.note \notin got[c]
      /\ d.failed => d.todo = <<>> /\ \A c \in Chats : d.note \notin got[c]
      /\ \A g \in Handlers : handler[g].note = d.note => g = h

\* ... or has been taken, so that it is not posted again.
NotRepeated ==
  \A n \in Alerts \ troubled : \A c \in Chats :
    n \in got[c] => n <= told \/ \E h \in Handlers : handler[h].note = n

\* The inductive invariant; the two properties are part of it.
IInv ==
  /\ TypeOK
  /\ ListInv
  /\ \A h \in Handlers : handler[h] # Idle => handler[h].note \in Posted
  /\ \A c \in Chats : got[c] \subseteq Posted
  /\ \A h \in Handlers : Faithful(h) /\ FirstTime(h)
  /\ OneWaited
  /\ NotRepeated
  /\ AcceptedIsDelivered
  /\ DuplicatesHaveACause

-----------------------------------------------------------------------------
(* Facts about sequences.                                                  *)

\* A list has its head and what its tail has.
LEMMA RangeOfTail ==
  ASSUME NEW S, NEW s \in Seq(S), s # <<>>
  PROVE  /\ Head(s) \in Range(s) /\ Head(s) \in S
         /\ Tail(s) \in Seq(S)
         /\ Range(s) = {Head(s)} \union Range(Tail(s))
<1>1. Len(s) \in Nat \ {0} /\ DOMAIN s = 1 .. Len(s) /\ Head(s) = s[1]
      /\ Tail(s) \in Seq(S) /\ DOMAIN Tail(s) = 1 .. Len(s) - 1
      /\ \A i \in 1 .. Len(s) - 1 : Tail(s)[i] = s[i + 1]
  OBVIOUS
<1>2. ASSUME NEW i \in DOMAIN s PROVE s[i] \in {Head(s)} \union Range(Tail(s))
  <2>1. CASE i = 1
    BY <1>1, <2>1
  <2>2. CASE i # 1
    <3>1. i - 1 \in DOMAIN Tail(s) /\ Tail(s)[i - 1] = s[i]
      BY <1>1, <2>2
    <3> QED BY <3>1 DEF Range
  <2> QED BY <2>1, <2>2
<1>3. ASSUME NEW i \in DOMAIN Tail(s) PROVE Tail(s)[i] \in Range(s)
  <2>1. i + 1 \in DOMAIN s /\ s[i + 1] = Tail(s)[i]
    BY <1>1
  <2> QED BY <2>1 DEF Range
<1>4. Head(s) \in Range(s)
  BY <1>1 DEF Range
<1>5. Head(s) \in S
  BY <1>1
<1> QED BY <1>1, <1>2, <1>3, <1>4, <1>5 DEF Range

\* A list with one more has what it had, and that one.
LEMMA RangeOfAppend ==
  ASSUME NEW S, NEW s \in Seq(S), NEW x
  PROVE  Range(Append(s, x)) = Range(s) \union {x}
<1>1. Len(s) \in Nat /\ DOMAIN s = 1 .. Len(s) /\ DOMAIN Append(s, x) = 1 .. Len(s) + 1
      /\ \A i \in 1 .. Len(s) : Append(s, x)[i] = s[i]
      /\ Append(s, x)[Len(s) + 1] = x
  OBVIOUS
<1>2. ASSUME NEW i \in DOMAIN Append(s, x) PROVE Append(s, x)[i] \in Range(s) \union {x}
  BY <1>1 DEF Range
<1>3. ASSUME NEW i \in DOMAIN s PROVE s[i] \in Range(Append(s, x))
  <2>1. i \in DOMAIN Append(s, x) /\ Append(s, x)[i] = s[i]
    BY <1>1
  <2> QED BY <2>1 DEF Range
<1>4. x \in Range(Append(s, x))
  <2>1. Len(s) + 1 \in DOMAIN Append(s, x)
    BY <1>1
  <2> QED BY <1>1, <2>1 DEF Range
<1> QED BY <1>2, <1>3, <1>4 DEF Range

\* What a list has is of its kind.
LEMMA RangeIsSubset ==
  ASSUME NEW S, NEW s \in Seq(S)
  PROVE  Range(s) \subseteq S
BY DEF Range

\* The tail of a list without duplicates has none, and not the head.
LEMMA InjectiveTail ==
  ASSUME NEW S, NEW s \in Seq(S), s # <<>>, IsInjective(s)
  PROVE  IsInjective(Tail(s)) /\ Head(s) \notin Range(Tail(s))
BY DEF IsInjective, Range

\* A list to which something new is added has no duplicates.
LEMMA InjectiveAppend ==
  ASSUME NEW S, NEW s \in Seq(S), IsInjective(s), NEW x, x \notin Range(s)
  PROVE  IsInjective(Append(s, x))
BY DEF IsInjective, Range

-----------------------------------------------------------------------------
(* Facts about the state.                                                  *)

\* Alerts and events are numbered from 1.
LEMMA NotesAreNumbers ==
  /\ MaxAlerts \in Nat /\ MaxEvents \in Nat /\ MaxFaults \in Nat
  /\ Notes \subseteq Nat \ {0} /\ Alerts \subseteq Notes
BY DeliveryAssumption DEF Notes, Alerts

\* What a handler at work holds.
LEMMA BusyFields ==
  ASSUME NEW d \in Busy
  PROVE  /\ d # Idle /\ d.note \in Notes /\ d.note # 0
         /\ d.todo \in Seq(Chats \union {Stray})
         /\ d.failed \in BOOLEAN /\ d.heard \in BOOLEAN
         /\ d = [note |-> d.note, todo |-> d.todo, failed |-> d.failed, heard |-> d.heard]
<1>1. d.note \in Notes /\ d.todo \in Seq(Chats \union {Stray})
      /\ d.failed \in BOOLEAN /\ d.heard \in BOOLEAN
      /\ d = [note |-> d.note, todo |-> d.todo, failed |-> d.failed, heard |-> d.heard]
  BY DEF Busy
<1>2. d.note # 0
  BY <1>1, NotesAreNumbers
<1> QED BY <1>1, <1>2 DEF Idle

\* A handler is at work or idle.
LEMMA HandlerIsBusy ==
  ASSUME TypeOK, NEW h \in Handlers
  PROVE  /\ handler[h] # Idle => handler[h] \in Busy
         /\ handler[h] = Idle => handler[h].note = 0
BY DEF TypeOK, Idle

\* A configured list has no duplicates.
LEMMA ConfiguredIsList ==
  ASSUME NEW s \in Settings
  PROVE  s \in Seq(Chats) /\ IsInjective(s)
<1>1. s \in Seq(Range(s)) /\ IsInjective(s)
  BY DeliveryAssumption
<1>2. Range(s) \subseteq Chats
  BY DEF Chats
<1> QED BY <1>1, <1>2, SeqMonotonic

\* Whatever a handler sees of the list, it sees every chat of it, and none twice.
LEMMA ViewsAreLists ==
  ASSUME TypeOK, ListInv, NEW view \in Views
  PROVE  /\ view \in Seq(Chats \union {Stray}) /\ IsInjective(view)
         /\ Range(configured) \subseteq Range(view)
<1>1. chats \in Seq(Chats) /\ IsInjective(chats) /\ Range(chats) \subseteq Chats
  BY RangeIsSubset DEF TypeOK
<1>2. chats \in Seq(Chats \union {Stray})
  BY <1>1, SeqMonotonic
<1>3. Owner \in Chats /\ Stray \notin Range(chats)
  BY <1>1, DeliveryAssumption DEF Chats
<1>4. CASE view = chats
  BY <1>1, <1>2, <1>4 DEF ListInv
<1>5. ASSUME NEW x \in {Owner, Stray}, adding, view = Append(chats, x)
      PROVE  view \in Seq(Chats \union {Stray}) /\ IsInjective(view)
             /\ Range(configured) \subseteq Range(view)
  <2>1. x \notin Range(chats) /\ x \in Chats \union {Stray}
    BY <1>3, <1>5 DEF ListInv, Unlisted
  <2>2. view \in Seq(Chats \union {Stray})
    BY <1>2, <1>5, <2>1
  <2>3. Range(view) = Range(chats) \union {x}
    BY <1>1, <1>5, RangeOfAppend
  <2>4. IsInjective(view)
    BY <1>1, <1>5, <2>1, InjectiveAppend
  <2> QED BY <2>2, <2>3, <2>4 DEF ListInv
<1> QED BY <1>4, <1>5 DEF Views

-----------------------------------------------------------------------------
(* The invariant holds at first and is kept by every step.                 *)

\* The notifier starts with what is configured.
LEMMA InvInit == Init => IInv
<1> SUFFICES ASSUME Init PROVE IInv
  OBVIOUS
<1>1. \A h \in Handlers : handler[h] = Idle /\ handler[h].note = 0
  BY DEF Init, Idle
<1>2. TypeOK
  <2>1. chats \in Seq(Chats) /\ IsInjective(chats)
    BY ConfiguredIsList DEF Init
  <2>2. handler \in [Handlers -> {Idle} \union Busy]
    BY DEF Init
  <2>3. got \in [Chats -> SUBSET Notes] /\ {again, troubled, accepted} \subseteq SUBSET Notes
    BY DEF Init
  <2>4. /\ faults \in 0 .. MaxFaults /\ alert \in 0 .. MaxAlerts /\ told \in 0 .. alert
        /\ events \in 0 .. MaxEvents /\ adding \in BOOLEAN /\ configured \in Settings
    <3>1. /\ faults = 0 /\ alert = 0 /\ told = 0 /\ events = 0
          /\ adding = FALSE /\ configured \in Settings
      BY DEF Init
    <3>2. 0 \in 0 .. MaxFaults /\ 0 \in 0 .. MaxAlerts /\ 0 \in 0 .. 0 /\ 0 \in 0 .. MaxEvents
      BY NotesAreNumbers
    <3> QED BY <3>1, <3>2
  <2> QED BY <2>1, <2>2, <2>3, <2>4 DEF TypeOK
<1>3. ListInv
  BY DEF Init, ListInv
<1>4. OneWaited /\ NotRepeated /\ AcceptedIsDelivered /\ DuplicatesHaveACause
  BY <1>1, NotesAreNumbers DEF Init, OneWaited, NotRepeated, AcceptedIsDelivered,
    DuplicatesHaveACause
<1>5. \A h \in Handlers : Faithful(h) /\ FirstTime(h)
  BY <1>1 DEF Faithful, FirstTime
<1>6. \A c \in Chats : got[c] \subseteq Posted
  BY DEF Init
<1> QED BY <1>1, <1>2, <1>3, <1>4, <1>5, <1>6 DEF IInv

\* A POST arrives: its note is new to everybody, or something went wrong with it.
LEMMA BeginStep ==
  ASSUME IInv, NEW h \in Handlers, NEW n \in Notes, Begin(h, n),
         alert' = alert, told' = told, events' \in 0 .. MaxEvents,
         Posted \subseteq Posted', n \in Posted',
         n \notin troubled => /\ \A c \in Chats : n \notin got[c]
                            /\ \A g \in Handlers : handler[g].note # n,
         n \in Alerts => /\ told < n
                         /\ \A g \in Handlers : ~(handler[g].note \in Alerts /\ handler[g].heard)
  PROVE  IInv'
<1> USE DEF IInv
<1>1. PICK view \in Views : handler' = [handler EXCEPT ![h] =
         [note |-> n, todo |-> view, failed |-> view = <<>>, heard |-> TRUE]]
  BY DEF Begin
<1>2. view \in Seq(Chats \union {Stray}) /\ IsInjective(view)
      /\ Range(configured) \subseteq Range(view)
  BY ViewsAreLists
<1> DEFINE d == [note |-> n, todo |-> view, failed |-> view = <<>>, heard |-> TRUE]
<1>3. d \in Busy
  BY <1>2 DEF Busy
<1>4. /\ UNCHANGED <<configured, chats, adding, faults, got, again, troubled, accepted>>
      /\ handler[h] = Idle
  BY DEF Begin, list, received
<1>5. /\ handler'[h] = d /\ d # Idle
      /\ \A g \in Handlers \ {h} : handler'[g] = handler[g]
      /\ handler' \in [Handlers -> {Idle} \union Busy]
  BY <1>1, <1>3, BusyFields DEF TypeOK
<1>6. TypeOK'
  BY <1>4, <1>5 DEF TypeOK
<1>7. ListInv'
  BY <1>4 DEF ListInv, Unlisted
<1>8. (\A g \in Handlers : handler[g] # Idle => handler[g].note \in Posted)'
  BY <1>5
<1>9. (\A c \in Chats : got[c] \subseteq Posted)'
  BY <1>4
<1>10. (\A g \in Handlers : Faithful(g))'
  <2> SUFFICES ASSUME NEW g \in Handlers, handler'[g] # Idle, ~handler'[g].failed
               PROVE  Faithful(g)'
    BY DEF Faithful
  <2>1. CASE g # h
    BY <1>4, <1>5, <2>1 DEF Faithful
  <2>2. CASE g = h
    <3>1. /\ d.note = n /\ d.todo = view /\ d.heard = TRUE
          /\ d.failed = (view = <<>>)
      OBVIOUS
    <3>2. handler'[g] = d /\ ~d.failed
      BY <1>5, <2>2
    <3>3. view # <<>>
      BY <3>1, <3>2
    <3> HIDE DEF d
    <3> QED BY <1>2, <1>4, <3>1, <3>2, <3>3 DEF Faithful
  <2> QED BY <2>1, <2>2
<1>11. (\A g \in Handlers : FirstTime(g))'
  <2> SUFFICES ASSUME NEW g \in Handlers, handler'[g] # Idle, handler'[g].note \notin troubled'
               PROVE  FirstTime(g)'
    BY DEF FirstTime
  <2>1. CASE g # h
    <3>1. handler'[h].note = n /\ (n = handler[g].note => n \in troubled)
      BY <1>5
    <3> QED BY <1>4, <1>5, <2>1, <3>1 DEF FirstTime
  <2>2. CASE g = h
    <3>1. /\ d.note = n /\ d.todo = view /\ d.heard = TRUE
          /\ d.failed = (view = <<>>)
      OBVIOUS
    <3>2. n \notin troubled
      BY <1>4, <1>5, <2>2
    <3>3. d.failed => view = <<>>
      BY <3>1
    <3> HIDE DEF d
    <3> QED BY <1>2, <1>4, <1>5, <2>2, <3>1, <3>2, <3>3 DEF FirstTime
  <2> QED BY <2>1, <2>2
<1>12. OneWaited'
  BY <1>5 DEF OneWaited
<1>13. NotRepeated'
  <2> SUFFICES ASSUME NEW m \in Alerts \ troubled, NEW c \in Chats, m \in got[c]
               PROVE  m <= told \/ \E g \in Handlers : handler'[g].note = m
    BY <1>4 DEF NotRepeated, Alerts
  <2>1. m <= told \/ \E g \in Handlers : handler[g].note = m
    BY DEF NotRepeated
  <2>2. handler[h].note # m
    BY <1>4, HandlerIsBusy, NotesAreNumbers
  <2> QED BY <1>5, <2>1, <2>2
<1>14. AcceptedIsDelivered' /\ DuplicatesHaveACause'
  BY <1>4 DEF AcceptedIsDelivered, DuplicatesHaveACause
<1> QED BY <1>6, <1>7, <1>8, <1>9, <1>10, <1>11, <1>12, <1>13, <1>14

\* A turn of the loop over the chats: the note is sent to the chat at the head,
\* or something goes wrong, and then it may have been sent or not.
LEMMA TurnStep ==
  ASSUME IInv, NEW h \in Handlers, Sending(h),
         NEW failed \in BOOLEAN, NEW heard \in BOOLEAN, Turn(h, failed, heard),
         heard => handler[h].heard,
         \/ /\ Target(h) \in Chats /\ Copied(h) /\ troubled' = troubled
            /\ failed = handler[h].failed /\ heard = handler[h].heard
         \/ /\ UNCHANGED received \/ (Target(h) \in Chats /\ Copied(h))
            /\ failed /\ troubled' = troubled \union {handler[h].note},
         UNCHANGED <<list, posts, accepted>>, faults' \in 0 .. MaxFaults
  PROVE  IInv'
<1> USE DEF IInv
<1> DEFINE n == handler[h].note
           c0 == Target(h)
           d == [note |-> n, todo |-> Tail(handler[h].todo), failed |-> failed, heard |-> heard]
           Fine == troubled' = troubled /\ d.failed = handler[h].failed
                   /\ d.heard = handler[h].heard
           Trouble == d.failed /\ troubled' = troubled \union {n}
<1>0. /\ d.note = n /\ d.todo = Tail(handler[h].todo) /\ d.failed = failed /\ d.heard = heard
      /\ handler' = [handler EXCEPT ![h] = d]
  BY DEF Turn
<1>00. d \in Busy
  <2>1. handler[h] \in Busy /\ handler[h].todo # <<>>
    BY HandlerIsBusy DEF Sending
  <2>2. n \in Notes /\ Tail(handler[h].todo) \in Seq(Chats \union {Stray})
    BY <2>1, BusyFields, RangeOfTail
  <2> QED BY <2>2 DEF Busy
<1> HIDE DEF d
<1>1. /\ UNCHANGED <<configured, chats, adding, alert, told, events, accepted>>
      /\ handler[h] \in Busy /\ handler[h] # Idle /\ handler[h].todo # <<>>
      /\ n \in Notes /\ n \in Posted
  BY HandlerIsBusy, BusyFields DEF list, posts, Sending
<1>2. /\ c0 \in Range(handler[h].todo)
      /\ Range(handler[h].todo) = {c0} \union Range(d.todo)
  BY <1>0, <1>1, BusyFields, RangeOfTail DEF Target
<1>3. /\ handler'[h] = d /\ d # Idle
      /\ \A g \in Handlers \ {h} : handler'[g] = handler[g]
      /\ handler' \in [Handlers -> {Idle} \union Busy]
  BY <1>0, <1>00, BusyFields DEF TypeOK
<1>4. \/ Fine /\ c0 \in Chats /\ Copied(h)
      \/ Trouble /\ (UNCHANGED <<got, again>> \/ (c0 \in Chats /\ Copied(h)))
  BY <1>0 DEF received
<1>5. c0 \in Chats /\ n \notin troubled => n \notin got[c0]
  BY <1>1, <1>2 DEF FirstTime
<1>6. /\ again' = again
      /\ got' \in [Chats -> SUBSET Notes]
      /\ \A c \in Chats : got[c] \subseteq got'[c] /\ got'[c] \subseteq got[c] \union {n}
      /\ \A c \in Chats \ {c0} : got'[c] = got[c]
      /\ (c0 \in Chats /\ n \in got'[c0]) \/ Trouble
  <2>1. CASE c0 \in Chats /\ Copied(h)
    BY <1>1, <1>4, <1>5, <2>1 DEF Copied, TypeOK
  <2>2. CASE ~(c0 \in Chats /\ Copied(h))
    BY <1>4, <2>2 DEF TypeOK
  <2> QED BY <2>1, <2>2
<1>7. TypeOK'
  BY <1>1, <1>3, <1>4, <1>6 DEF TypeOK
<1>8. ListInv'
  BY <1>1 DEF ListInv, Unlisted
<1>9. (\A g \in Handlers : handler[g] # Idle => handler[g].note \in Posted)'
  BY <1>0, <1>1, <1>3 DEF Posted
<1>10. (\A c \in Chats : got[c] \subseteq Posted)'
  BY <1>1, <1>6 DEF Posted
<1>11. (\A g \in Handlers : Faithful(g))'
  <2> SUFFICES ASSUME NEW g \in Handlers PROVE Faithful(g)'
    OBVIOUS
  <2>1. Range(configured) \subseteq Chats
    BY ConfiguredIsList, RangeIsSubset DEF TypeOK
  <2>2. CASE g # h
    BY <1>1, <1>3, <1>6, <2>1, <2>2 DEF Faithful
  <2>3. CASE g = h
    BY <1>0, <1>1, <1>2, <1>3, <1>4, <1>6, <2>1, <2>3 DEF Faithful
  <2> QED BY <2>2, <2>3
<1>12. (\A g \in Handlers : FirstTime(g))'
  <2> SUFFICES ASSUME NEW g \in Handlers, handler'[g] # Idle, handler'[g].note \notin troubled'
               PROVE  FirstTime(g)'
    BY DEF FirstTime
  <2>1. \A x \in Handlers : handler'[x].note = handler[x].note
    BY <1>0, <1>3
  <2>2. CASE g # h
    BY <1>1, <1>3, <1>4, <1>6, <2>1, <2>2 DEF FirstTime
  <2>3. CASE g = h
    <3>1. n \notin troubled /\ Fine
      BY <1>0, <1>3, <1>4, <2>3
    <3>2. /\ handler[h].heard /\ IsInjective(handler[h].todo) /\ ~handler[h].failed
          /\ \A c \in Chats \intersect Range(handler[h].todo) : n \notin got[c]
          /\ \A x \in Handlers : handler[x].note = n => x = h
      BY <1>1, <3>1 DEF FirstTime
    <3>3. IsInjective(d.todo) /\ c0 \notin Range(d.todo)
      BY <1>0, <1>1, <3>2, BusyFields, InjectiveTail DEF Target
    <3>4. \A c \in Chats \intersect Range(d.todo) : n \notin got'[c]
      BY <1>2, <1>6, <3>2, <3>3
    <3> QED BY <1>3, <2>1, <2>3, <3>1, <3>2, <3>3, <3>4 DEF FirstTime
  <2> QED BY <2>2, <2>3
<1>13. OneWaited'
  BY <1>0, <1>1, <1>3 DEF OneWaited
<1>14. NotRepeated'
  BY <1>0, <1>1, <1>3, <1>4, <1>6 DEF NotRepeated
<1>15. AcceptedIsDelivered'
  <2>1. Range(configured) \subseteq Chats
    BY ConfiguredIsList, RangeIsSubset DEF TypeOK
  <2> QED BY <1>1, <1>6, <2>1 DEF AcceptedIsDelivered
<1>16. DuplicatesHaveACause'
  BY <1>6 DEF DuplicatesHaveACause
<1> QED BY <1>7, <1>8, <1>9, <1>10, <1>11, <1>12, <1>13, <1>14, <1>15, <1>16

\* An answer: the handler is free, and what was accepted is somebody's.
LEMMA EndStep ==
  ASSUME IInv, NEW h \in Handlers, Ended(h),
         \/ /\ told' = IF handler[h].note \in Alerts /\ ~handler[h].failed
                         THEN handler[h].note ELSE told
            /\ troubled' = troubled
         \/ /\ told' = told /\ troubled' = troubled \union {handler[h].note},
         faults' \in 0 .. MaxFaults
  PROVE  IInv'
<1> USE DEF IInv
<1> DEFINE n == handler[h].note
<1>1. /\ UNCHANGED <<configured, chats, adding, alert, events, got, again>>
      /\ handler[h] \in Busy /\ handler[h] # Idle /\ handler[h].todo = <<>>
      /\ handler' = [handler EXCEPT ![h] = Idle]
      /\ n \in Notes /\ n \in Posted
      /\ handler[h].failed \in BOOLEAN
  BY HandlerIsBusy, BusyFields DEF Ended, list, received
<1>2. /\ handler'[h] = Idle /\ handler'[h].note = 0
      /\ \A g \in Handlers \ {h} : handler'[g] = handler[g]
      /\ handler' \in [Handlers -> {Idle} \union Busy]
  BY <1>1 DEF TypeOK, Idle
<1>3. /\ accepted \subseteq accepted' /\ accepted' \subseteq accepted \union {n}
      /\ n \in accepted' \ accepted => ~handler[h].failed
      /\ ~handler[h].failed => n \in accepted'
  BY <1>1 DEF Ended
<1>4. \/ told' = told
      \/ told' = n /\ n \in Alerts /\ ~handler[h].failed /\ troubled' = troubled
  OBVIOUS
<1>5. troubled \subseteq troubled' /\ troubled' \subseteq troubled \union {n}
  OBVIOUS
<1>6. n \in Alerts => n \in 1 .. alert
  BY <1>1, NotesAreNumbers DEF Posted, Alerts, TypeOK
<1>7. told' = n /\ told' # told => told < n
  BY <1>1, <1>4 DEF OneWaited, Faithful
<1>8. told' \in 0 .. alert /\ told <= told'
  BY <1>4, <1>6, <1>7 DEF TypeOK
<1>9. TypeOK'
  BY <1>1, <1>2, <1>3, <1>5, <1>8 DEF TypeOK
<1>10. ListInv'
  BY <1>1 DEF ListInv, Unlisted
<1>11. (\A g \in Handlers : handler[g] # Idle => handler[g].note \in Posted)'
  BY <1>1, <1>2 DEF Posted
<1>12. (\A c \in Chats : got[c] \subseteq Posted)'
  BY <1>1 DEF Posted
<1>13. (\A g \in Handlers : Faithful(g))'
  BY <1>1, <1>2 DEF Faithful
<1>14. (\A g \in Handlers : FirstTime(g))'
  <2> SUFFICES ASSUME NEW g \in Handlers, handler'[g] # Idle, handler'[g].note \notin troubled'
               PROVE  FirstTime(g)'
    BY DEF FirstTime
  <2>1. g # h /\ handler'[g] = handler[g] /\ handler[g].note \notin troubled
    BY <1>2, <1>5
  <2>2. \A x \in Handlers : handler'[x].note = handler[g].note => handler[x].note = handler[g].note
    BY <1>2, <2>1, HandlerIsBusy, BusyFields
  <2> QED BY <1>1, <2>1, <2>2 DEF FirstTime
<1>15. OneWaited'
  <2> SUFFICES ASSUME NEW g \in Handlers, handler'[g].note \in Alerts, handler'[g].heard
               PROVE  told' < handler'[g].note
                      /\ \A x \in Handlers :
                           handler'[x].note \in Alerts /\ handler'[x].heard => x = g
    BY DEF OneWaited, Alerts
  <2>1. \A x \in Handlers : handler'[x].note \in Alerts => x # h /\ handler'[x] = handler[x]
    BY <1>2, NotesAreNumbers
  <2>2. told' = told
    <3>1. CASE told' = n /\ n \in Alerts /\ ~handler[h].failed
      <4>1. handler[h].heard
        BY <1>1, <3>1 DEF Faithful
      <4> QED BY <2>1, <3>1, <4>1 DEF OneWaited
    <3> QED BY <1>4, <3>1
  <2> QED BY <2>1, <2>2 DEF OneWaited
<1>16. NotRepeated'
  <2> SUFFICES ASSUME NEW m \in Alerts \ troubled', NEW c \in Chats, m \in got[c]
               PROVE  m <= told' \/ \E g \in Handlers : handler'[g].note = m
    BY <1>1 DEF NotRepeated, Alerts
  <2>1. m <= told \/ \E g \in Handlers : handler[g].note = m
    BY <1>5 DEF NotRepeated
  <2>2. CASE m = n
    <3>1. ~handler[h].failed
      BY <1>1, <1>5, <2>2 DEF FirstTime
    <3>2. told' = n
      BY <2>2, <3>1
    <3> QED BY <1>8, <2>2, <3>2 DEF TypeOK
  <2>3. CASE m # n
    BY <1>2, <1>8, <2>1, <2>3, NotesAreNumbers DEF TypeOK
  <2> QED BY <2>2, <2>3
<1>17. AcceptedIsDelivered'
  <2>1. Range(configured) \subseteq Chats
    BY ConfiguredIsList, RangeIsSubset DEF TypeOK
  <2>2. Range(handler[h].todo) = {}
    BY <1>1 DEF Range
  <2>3. n \in accepted' \ accepted =>
          /\ \E c \in Chats : n \in got[c]
          /\ \A c \in Range(configured) : n \in got[c]
    BY <1>1, <1>3, <2>2 DEF Faithful
  <2>4. told' > 0 => told' \in accepted'
    BY <1>3, <1>4 DEF AcceptedIsDelivered
  <2> QED BY <1>1, <1>3, <2>3, <2>4 DEF AcceptedIsDelivered
<1>18. DuplicatesHaveACause'
  BY <1>1 DEF DuplicatesHaveACause
<1> QED BY <1>9, <1>10, <1>11, <1>12, <1>13, <1>14, <1>15, <1>16, <1>17, <1>18

\* The list is appended to: the handlers keep the lists that they have seen.
LEMMA ListStep ==
  ASSUME IInv, Register \/ Registered
  PROVE  IInv'
<1> USE DEF IInv
<1>1. UNCHANGED <<configured, posts, handler, faults, received, troubled, accepted>>
  BY DEF Register, Registered
<1>2. UNCHANGED <<alert, told, events, got, again>>
  BY <1>1 DEF posts, received
<1>3. chats' \in Seq(Chats) /\ IsInjective(chats)' /\ ListInv' /\ adding' \in BOOLEAN
  <2>1. CASE Register
    BY <1>1, <2>1 DEF Register, TypeOK, ListInv, Unlisted
  <2>2. CASE Registered
    <3>1. chats \in Seq(Chats) /\ IsInjective(chats) /\ Owner \in Chats
          /\ Owner \notin Range(chats) /\ chats' = Append(chats, Owner) /\ adding' = FALSE
      BY <2>2 DEF Registered, TypeOK, ListInv, Unlisted, Chats
    <3>2. chats' \in Seq(Chats) /\ IsInjective(chats')
      BY <3>1, InjectiveAppend
    <3>3. Range(chats') = Range(chats) \union {Owner}
      BY <3>1, RangeOfAppend
    <3> QED BY <1>1, <3>1, <3>2, <3>3 DEF ListInv
  <2> QED BY <2>1, <2>2
<1>4. TypeOK'
  BY <1>1, <1>2, <1>3 DEF TypeOK
<1>5. (\A h \in Handlers : handler[h] # Idle => handler[h].note \in Posted)'
      /\ (\A c \in Chats : got[c] \subseteq Posted)'
  BY <1>1, <1>2 DEF Posted
<1>6. (\A h \in Handlers : Faithful(h) /\ FirstTime(h))'
  BY <1>1, <1>2 DEF Faithful, FirstTime
<1>7. OneWaited' /\ NotRepeated' /\ AcceptedIsDelivered' /\ DuplicatesHaveACause'
  BY <1>1, <1>2 DEF OneWaited, NotRepeated, AcceptedIsDelivered, DuplicatesHaveACause
<1> QED BY <1>3, <1>4, <1>5, <1>6, <1>7

\* The bot restarts: everything that was under way has met trouble.
LEMMA CrashStep ==
  ASSUME IInv, Crash
  PROVE  IInv'
<1> USE DEF IInv
<1>1. /\ UNCHANGED <<configured, alert, told, events, got, again, accepted>>
      /\ chats' = configured /\ adding' = FALSE
      /\ handler' = [h \in Handlers |-> Idle]
      /\ troubled' = troubled \union {handler[h].note : h \in {g \in Handlers : handler[g] # Idle}}
      /\ faults < MaxFaults /\ faults' = faults + 1
  BY DEF Crash, Fault, posts, received
<1>2. \A h \in Handlers : handler'[h] = Idle /\ handler'[h].note = 0
  BY <1>1 DEF Idle
<1>3. \A h \in Handlers : handler[h] # Idle => handler[h].note \in Notes
  BY HandlerIsBusy, BusyFields
<1>4. troubled \subseteq troubled' /\ troubled' \subseteq Notes
      /\ \A h \in Handlers : handler[h] # Idle => handler[h].note \in troubled'
  BY <1>1, <1>3 DEF TypeOK
<1>5. TypeOK'
  <2>1. chats' \in Seq(Chats) /\ IsInjective(chats')
    BY <1>1, ConfiguredIsList DEF TypeOK
  <2>2. faults' \in 0 .. MaxFaults
    BY <1>1, NotesAreNumbers DEF TypeOK
  <2>3. handler' \in [Handlers -> {Idle} \union Busy]
    BY <1>1
  <2> QED BY <1>1, <1>4, <2>1, <2>2, <2>3 DEF TypeOK
<1>6. ListInv'
  BY <1>1 DEF ListInv
<1>7. (\A h \in Handlers : handler[h] # Idle => handler[h].note \in Posted)'
      /\ (\A c \in Chats : got[c] \subseteq Posted)'
  BY <1>1, <1>2 DEF Posted
<1>8. (\A h \in Handlers : Faithful(h) /\ FirstTime(h))'
  BY <1>2 DEF Faithful, FirstTime
<1>9. OneWaited'
  BY <1>2, NotesAreNumbers DEF OneWaited
<1>10. NotRepeated'
  <2> SUFFICES ASSUME NEW m \in Alerts \ troubled', NEW c \in Chats, m \in got[c]
               PROVE  m <= told
    BY <1>1 DEF NotRepeated, Alerts
  <2>1. m <= told \/ \E h \in Handlers : handler[h].note = m
    BY <1>4 DEF NotRepeated
  <2>2. \A h \in Handlers : handler[h].note # m
    BY <1>4, HandlerIsBusy, NotesAreNumbers
  <2> QED BY <2>1, <2>2
<1>11. AcceptedIsDelivered' /\ DuplicatesHaveACause'
  BY <1>1 DEF AcceptedIsDelivered, DuplicatesHaveACause
<1> QED BY <1>5, <1>6, <1>7, <1>8, <1>9, <1>10, <1>11

\* The alert changes: there is one more note that nobody has got.
LEMMA ChangeStep ==
  ASSUME IInv, Change
  PROVE  IInv'
<1> USE DEF IInv
<1>1. /\ UNCHANGED <<configured, chats, adding, told, events, handler, faults, got, again,
                     troubled, accepted>>
      /\ alert < MaxAlerts /\ alert' = alert + 1
  BY DEF Change, list, received
<1>2. alert \in Nat /\ alert' \in 0 .. MaxAlerts /\ told \in 0 .. alert'
  BY <1>1, NotesAreNumbers DEF TypeOK
<1>3. Posted \subseteq Posted'
  BY <1>1, <1>2, NotesAreNumbers DEF Posted
<1>4. TypeOK'
  BY <1>1, <1>2 DEF TypeOK
<1>5. ListInv'
  BY <1>1 DEF ListInv, Unlisted
<1>6. (\A h \in Handlers : handler[h] # Idle => handler[h].note \in Posted)'
      /\ (\A c \in Chats : got[c] \subseteq Posted)'
  BY <1>1, <1>3
<1>7. (\A h \in Handlers : Faithful(h) /\ FirstTime(h))'
  BY <1>1 DEF Faithful, FirstTime
<1>8. OneWaited' /\ NotRepeated' /\ AcceptedIsDelivered' /\ DuplicatesHaveACause'
  BY <1>1 DEF OneWaited, NotRepeated, AcceptedIsDelivered, DuplicatesHaveACause
<1> QED BY <1>4, <1>5, <1>6, <1>7, <1>8

\* What a fault costs.
LEMMA FaultIsCounted ==
  ASSUME TypeOK, Fault
  PROVE  faults' \in 0 .. MaxFaults
BY NotesAreNumbers DEF TypeOK, Fault

\* Alertmanager posts an alert, for the first time or again.
LEMMA PostStep ==
  ASSUME IInv, NEW h \in Handlers, Post(h)
  PROVE  IInv'
<1> USE DEF IInv
<1>1. /\ told < alert /\ (\A n \in Alerts : ~Waited(n)) /\ Begin(h, alert)
      /\ UNCHANGED <<alert, told, events>>
  BY DEF Post, posts
<1>2. alert \in Alerts /\ alert \in Notes /\ alert \in Posted /\ Posted' = Posted
  BY <1>1, NotesAreNumbers DEF TypeOK, Alerts, Posted
<1>3. \A g \in Handlers : ~(handler[g].note \in Alerts /\ handler[g].heard)
  BY <1>1 DEF Waited
<1>4. alert \notin troubled => /\ \A c \in Chats : alert \notin got[c]
                              /\ \A g \in Handlers : handler[g].note # alert
  <2> SUFFICES ASSUME alert \notin troubled
               PROVE  /\ \A c \in Chats : alert \notin got[c]
                      /\ \A g \in Handlers : handler[g].note # alert
    OBVIOUS
  <2>1. \A g \in Handlers : handler[g].note # alert
    <3> SUFFICES ASSUME NEW g \in Handlers, handler[g].note = alert PROVE FALSE
      OBVIOUS
    <3>1. handler[g] # Idle
      BY <1>2, HandlerIsBusy, NotesAreNumbers
    <3>2. handler[g].heard
      BY <3>1 DEF FirstTime
    <3> QED BY <1>2, <1>3, <3>2
  <2>2. \A c \in Chats : alert \notin got[c]
    BY <1>1, <1>2, <2>1 DEF NotRepeated, TypeOK
  <2> QED BY <2>1, <2>2
<1>5. events' \in 0 .. MaxEvents
  BY <1>1 DEF TypeOK
<1> QED BY <1>1, <1>2, <1>3, <1>4, <1>5, BeginStep

\* An event of the CLI is posted once.
LEMMA NotifyStep ==
  ASSUME IInv, NEW h \in Handlers, Notify(h)
  PROVE  IInv'
<1> USE DEF IInv
<1> DEFINE n == MaxAlerts + events + 1
<1>1. /\ events < MaxEvents /\ events' = events + 1 /\ Begin(h, n)
      /\ UNCHANGED <<alert, told>>
  BY DEF Notify
<1>2. /\ n \in Notes /\ n \notin Posted /\ n \in Posted' /\ n \notin Alerts /\ n # 0
      /\ Posted \subseteq Posted' /\ events' \in 0 .. MaxEvents
  BY <1>1, NotesAreNumbers DEF TypeOK, Notes, Alerts, Posted
<1>3. \A c \in Chats : n \notin got[c]
  BY <1>2
<1>4. \A g \in Handlers : handler[g].note # n
  BY <1>2, HandlerIsBusy
<1> HIDE DEF n
<1> QED BY <1>1, <1>2, <1>3, <1>4, BeginStep

\* The chats that a handler sends to are those of the list, or no chat.
LEMMA TargetIsChat ==
  ASSUME TypeOK, NEW h \in Handlers, Sending(h), ~Refuses(Target(h))
  PROVE  Target(h) \in Chats
<1>1. handler[h] \in Busy /\ handler[h].todo # <<>>
  BY HandlerIsBusy DEF Sending
<1>2. Target(h) \in Chats \union {Stray}
  BY <1>1, BusyFields, RangeOfTail DEF Target
<1> QED BY <1>2 DEF Refuses

\* A message reaches its chat.
LEMMA SendStep ==
  ASSUME IInv, NEW h \in Handlers, Send(h)
  PROVE  IInv'
<1> USE DEF IInv
<1>1. /\ Sending(h) /\ handler[h] \in Busy /\ handler[h].failed \in BOOLEAN
      /\ handler[h].heard \in BOOLEAN /\ faults' \in 0 .. MaxFaults
      /\ UNCHANGED <<list, posts, accepted>>
  BY HandlerIsBusy, BusyFields DEF Send, Sending, TypeOK
<1>2. CASE handler[h].heard /\ ~Refuses(Target(h))
  <2>1. /\ Copied(h) /\ troubled' = troubled /\ Turn(h, handler[h].failed, handler[h].heard)
    BY <1>2 DEF Send, Delivered
  <2>2. Target(h) \in Chats
    BY <1>1, <1>2, TargetIsChat
  <2> QED BY <1>1, <2>1, <2>2, TurnStep
<1>3. CASE ~(handler[h].heard /\ ~Refuses(Target(h)))
  <2>1. /\ Turn(h, TRUE, handler[h].heard) /\ UNCHANGED received
        /\ troubled' = troubled \union {handler[h].note}
    BY <1>3 DEF Send, NotConfirmed
  <2> QED BY <1>1, <2>1, TurnStep, TRUE \in BOOLEAN
<1> QED BY <1>2, <1>3

\* A message is refused, lost, or its answer is.
LEMMA SendFailsStep ==
  ASSUME IInv, NEW h \in Handlers, SendFails(h)
  PROVE  IInv'
<1> USE DEF IInv
<1>1. /\ Sending(h) /\ handler[h] \in Busy /\ handler[h].heard \in BOOLEAN
      /\ ~Refuses(Target(h)) /\ (Copied(h) \/ UNCHANGED received)
      /\ Turn(h, TRUE, handler[h].heard) /\ troubled' = troubled \union {handler[h].note}
      /\ UNCHANGED <<list, posts, accepted>>
  BY HandlerIsBusy, BusyFields DEF SendFails, NotConfirmed, Sending
<1>2. faults' \in 0 .. MaxFaults
  BY FaultIsCounted DEF SendFails
<1>3. Target(h) \in Chats
  BY <1>1, TargetIsChat
<1> QED BY <1>1, <1>2, <1>3, TurnStep, TRUE \in BOOLEAN

\* The caller gives up while its handler waits for Telegram.
LEMMA CallerLeavesStep ==
  ASSUME IInv, NEW h \in Handlers, CallerLeaves(h)
  PROVE  IInv'
<1> USE DEF IInv
<1>1. /\ Sending(h) /\ handler[h] \in Busy /\ handler[h].heard
      /\ UNCHANGED received \/ (~Refuses(Target(h)) /\ Copied(h))
      /\ Turn(h, TRUE, FALSE) /\ troubled' = troubled \union {handler[h].note}
      /\ UNCHANGED <<list, posts, accepted>>
  BY HandlerIsBusy DEF CallerLeaves, Sending
<1>2. faults' \in 0 .. MaxFaults
  BY FaultIsCounted DEF CallerLeaves
<1>3. ~Refuses(Target(h)) => Target(h) \in Chats
  BY <1>1, TargetIsChat
<1> QED BY <1>1, <1>2, <1>3, TurnStep, TRUE \in BOOLEAN, FALSE \in BOOLEAN

\* Every step keeps the invariant.
LEMMA InvStep == IInv /\ [Next]_vars => IInv'
<1> SUFFICES ASSUME IInv, [Next]_vars PROVE IInv'
  OBVIOUS
<1>1. CASE Register \/ Registered
  BY <1>1, ListStep
<1>2. ASSUME NEW h \in Handlers, Post(h) PROVE IInv'
  BY <1>2, PostStep
<1>3. ASSUME NEW h \in Handlers, Notify(h) PROVE IInv'
  BY <1>3, NotifyStep
<1>4. ASSUME NEW h \in Handlers, Send(h) PROVE IInv'
  BY <1>4, SendStep
<1>5. ASSUME NEW h \in Handlers, SendFails(h) PROVE IInv'
  BY <1>5, SendFailsStep
<1>6. ASSUME NEW h \in Handlers, CallerLeaves(h) PROVE IInv'
  BY <1>6, CallerLeavesStep
<1>7. ASSUME NEW h \in Handlers, Answer(h) PROVE IInv'
  BY <1>7, EndStep DEF Answer, IInv, TypeOK
<1>8. ASSUME NEW h \in Handlers, AnswerLost(h) PROVE IInv'
  BY <1>8, EndStep, FaultIsCounted DEF AnswerLost, IInv
<1>9. CASE Change
  BY <1>9, ChangeStep
<1>10. CASE Crash
  BY <1>10, CrashStep
<1>11. CASE UNCHANGED vars
  BY <1>11 DEF vars, list, posts, received, IInv, TypeOK, ListInv, Unlisted, Posted,
    Faithful, FirstTime, OneWaited, NotRepeated, AcceptedIsDelivered, DuplicatesHaveACause
<1> QED BY <1>1, <1>2, <1>3, <1>4, <1>5, <1>6, <1>7, <1>8, <1>9, <1>10, <1>11 DEF Next

\* The invariant always holds.
LEMMA Invariance == Spec => []IInv
BY InvInit, InvStep, PTL DEF Spec

-----------------------------------------------------------------------------
(* The theorems.                                                           *)

\* Every variable keeps its type: the list of chats never holds a chat twice nor
\* the stray one, and a handler never carries anything but a note on its way.
THEOREM TypeCorrect == Spec => []TypeOK
BY Invariance, PTL DEF IInv

\* A POST that the bot answers with 200 has reached every configured chat, and
\* somebody in any case, however the handlers interleave, the sends fail, the
\* callers leave and the owner's chat is appended meanwhile.
THEOREM AcceptedDelivered == Spec => []AcceptedIsDelivered
BY Invariance, PTL DEF IInv

\* No chat gets a note twice unless a send of it failed, its answer was lost, its
\* caller left or the bot crashed.
THEOREM DuplicatesCaused == Spec => []DuplicatesHaveACause
BY Invariance, PTL DEF IInv

=============================================================================
