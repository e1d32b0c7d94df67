------------------------ MODULE TrafficCollectorProofs ------------------------
(* Proofs about TrafficCollector, for every set of users and every bound.  *)
EXTENDS TrafficCollector, FiniteSetTheorems, WellFoundedInduction, TLAPS

\* A difference is a number of bytes, reset or not.
LEMMA DeltaIsNat ==
  ASSUME NEW prev \in Nat \union {NoRow}, NEW current \in Nat
  PROVE  Delta(prev, current) \in Nat
BY DEF Delta, IsReset, NoRow

\* An hour that is modelled is an hour of a day that is modelled.
LEMMA DayOfHour == \A h \in Hours : DayOf(h) \in Days
<1> SUFFICES ASSUME NEW h \in Hours PROVE DayOf(h) \in Days
  OBVIOUS
<1>1. h \in Nat /\ LastHour \in Nat /\ h <= LastHour /\ HoursPerDay \in Nat \ {0}
  BY BoundsAssumption DEF Hours
<1>2. h \div HoursPerDay \in Nat /\ LastHour \div HoursPerDay \in Nat
  BY <1>1
<1>3. h \div HoursPerDay <= LastHour \div HoursPerDay
  BY <1>1, Z3
<1> QED BY <1>2, <1>3 DEF DayOf, Days

\* An agent that starts with an empty database is well typed.
LEMMA TypeInit == Init => TypeOK
BY BoundsAssumption DEF Init, TypeOK, NoBytes, Hours, Days, NoKey, NoRow, PcValues

\* Every action preserves the types; that the counter that is being written is
\* one of Xray's is DeltaIsCurrent.
LEMMA TypeStep == TypeOK /\ DeltaIsCurrent /\ [Next]_vars => TypeOK'
<1> SUFFICES ASSUME TypeOK, DeltaIsCurrent, [Next]_vars PROVE TypeOK'
  OBVIOUS
<1> USE DEF TypeOK, PcValues
<1>0. {LastHour, MaxRestarts, MaxCrashes, MaxErrors} \subseteq Nat
  BY BoundsAssumption
<1>1. ASSUME NEW c \in Callers, Call(c) PROVE TypeOK'
  BY <1>1 DEF Call, Goto, xrayVars, dbVars, localVars, worldVars
<1>2. ASSUME NEW c \in Callers, Lock(c) PROVE TypeOK'
  BY <1>2 DEF Lock, Goto, xrayVars, dbVars, localVars, worldVars
<1>3. ASSUME NEW c \in Callers, Query(c) PROVE TypeOK'
  BY <1>3 DEF Query, Goto, xrayVars, dbVars, localVars, worldVars
<1>4. ASSUME NEW c \in Callers, Return(c), UNCHANGED <<xrayVars, dbVars, hour, sent, restarts, crashes>>,
             errors' \in 0 .. MaxErrors
      PROVE TypeOK'
  BY <1>4, BoundsAssumption, SMTT(30) DEF Return, Goto, xrayVars, dbVars, NoBytes, Hours
<1>5. ASSUME NEW c \in Callers, QueryUnreachable(c) \/ Finish(c) PROVE TypeOK'
  BY <1>4, <1>5 DEF QueryUnreachable, Finish, worldVars
<1>6. ASSUME NEW c \in Callers, Fail(c) PROVE TypeOK'
  BY <1>4, <1>6, BoundsAssumption DEF Fail
<1>7. ASSUME NEW c \in Callers, ReadCounter(c) PROVE TypeOK'
  <2>1. PICK k \in NextKeys(c) :
           /\ key' = [key EXCEPT ![c] = k]
           /\ delta' = [delta EXCEPT ![c] = Delta(counterState[k], seen[c][k])]
           /\ Goto(c, IF IsReset(counterState[k], seen[c][k]) THEN "mark" ELSE "write")
    BY <1>7 DEF ReadCounter
  <2>2. k \in Keys
    BY <2>1 DEF NextKeys
  <2>3. Delta(counterState[k], seen[c][k]) \in Nat
    BY <2>2, DeltaIsNat
  <2> QED BY <1>7, <2>1, <2>2, <2>3 DEF ReadCounter, Goto, xrayVars, dbVars, worldVars
<1>8. ASSUME NEW c \in Callers, MarkReset(c) PROVE TypeOK'
  BY <1>8 DEF MarkReset, Goto, xrayVars, dbVars, localVars, worldVars
<1>9. ASSUME NEW c \in Callers, AddDeltaAndAdvanceCounter(c) PROVE TypeOK'
  <2>0. key[c] \in todo[c]
    BY <1>9 DEF DeltaIsCurrent, AddDeltaAndAdvanceCounter
  <2>1. key[c] \in Keys /\ delta[c] \in Nat /\ at[c] \in Hours /\ DayOf(at[c]) \in Days
    BY <2>0, DayOfHour
  <2>2. hourly' \in [Keys -> [Hours -> Nat]]
    BY <1>9, <2>1 DEF AddDeltaAndAdvanceCounter, AddDelta
  <2>3. daily' \in [Keys -> [Days -> Nat]]
    BY <1>9, <2>1 DEF AddDeltaAndAdvanceCounter, AddDelta
  <2>4. total' \in [Keys -> Nat] /\ counterState' \in [Keys -> Nat \union {NoRow}]
    BY <1>9, <2>1 DEF AddDeltaAndAdvanceCounter, AddDelta
  <2> QED BY <1>9, <2>2, <2>3, <2>4 DEF AddDeltaAndAdvanceCounter, Goto, xrayVars, worldVars
<1>10. ASSUME NEW k \in Keys, Traffic(k) PROVE TypeOK'
  BY <1>10 DEF Traffic, dbVars, localVars
<1>11. CASE XrayStop
  <2>1. restarts' \in 0 .. MaxRestarts
    BY <1>0, <1>11 DEF XrayStop
  <2>2. counter' \in [Keys -> Nat] /\ xrayUp' \in BOOLEAN
    BY <1>11 DEF XrayStop, NoBytes
  <2> QED BY <1>11, <2>1, <2>2 DEF XrayStop, dbVars, localVars
<1>12. CASE XrayStart
  BY <1>12 DEF XrayStart, dbVars, localVars, worldVars
<1>13. CASE AgentCrash
  BY <1>13, BoundsAssumption DEF AgentCrash, NoBytes, Hours, xrayVars, dbVars
<1>14. CASE HourPasses
  BY <1>14, BoundsAssumption, SMTT(30) DEF HourPasses, Hours, xrayVars, dbVars, localVars
<1>15. CASE UNCHANGED vars
  BY <1>15 DEF vars, xrayVars, dbVars, localVars, worldVars
<1>16. ASSUME NEW c \in Callers, Cycle(c) PROVE TypeOK'
  BY <1>2, <1>3, <1>5, <1>6, <1>7, <1>8, <1>9, <1>16 DEF Cycle
<1>17. CASE World
  BY <1>10, <1>11, <1>12, <1>13, <1>14, <1>17 DEF World
<1> HIDE DEF TypeOK
<1> QED BY <1>1, <1>15, <1>16, <1>17 DEF Next

-----------------------------------------------------------------------------

\* Before anything crossed a counter nothing is billed and nobody collects.
LEMMA InvInit == Init => IInv
<1> SUFFICES ASSUME Init PROVE IInv
  OBVIOUS
<1>1. TypeOK
  BY TypeInit
<1>2. SingleFlight
  BY CallersAssumption DEF Init, SingleFlight
<1>3. CountersAreSent /\ BilledIsCovered
  BY DEF Init, CountersAreSent, BilledIsCovered, Covered, EarlierRuns, NoBytes, NoRow
<1>4. CycleIsCovered /\ DeltaIsCurrent
  BY DEF Init, CycleIsCovered, DeltaIsCurrent, Collecting
<1>5. NoResetYet /\ NothingLostButByRestart
  BY DEF Init, NoResetYet, NothingLostButByRestart, Collecting, NoBytes, NoRow
<1> QED BY <1>1, <1>2, <1>3, <1>4, <1>5 DEF IInv

\* While nobody writes the database and Xray's counters stand still, what a
\* caller reads or forgets disturbs only what is said of that caller.
LEMMA CallStep ==
  ASSUME IInv, NEW c \in Callers, Call(c) \/ Lock(c) \/ MarkReset(c)
  PROVE  IInv'
<1> USE DEF IInv
<1>1. TypeOK'
  BY TypeStep DEF Next, Cycle
<1>2. /\ UNCHANGED <<counter, counterState, total, sent, restarts, seen, todo, key, delta>>
      /\ Collecting(c)' => Collecting(c)
      /\ \A d \in Callers \ {c} : pc'[d] = pc[d]
      /\ pc'[c] \in {"mark", "write"} => pc[c] \in {"mark", "write"}
  BY DEF Call, Lock, MarkReset, Goto, TypeOK, Collecting, xrayVars, dbVars, localVars, worldVars
<1>3. SingleFlight'
  BY CallersAssumption
  DEF Call, Lock, MarkReset, Goto, SingleFlight, TypeOK, xrayVars, dbVars, localVars,
      worldVars
<1>4. CountersAreSent' /\ BilledIsCovered' /\ NothingLostButByRestart'
  BY <1>2
  DEF CountersAreSent, BilledIsCovered, Covered, EarlierRuns, NothingLostButByRestart
<1>5. CycleIsCovered'
  BY <1>2 DEF CycleIsCovered, Collecting, Covered, EarlierRuns
<1>6. DeltaIsCurrent'
  BY <1>2 DEF DeltaIsCurrent
<1>7. NoResetYet'
  BY <1>2 DEF NoResetYet, Collecting
<1> QED BY <1>1, <1>3, <1>4, <1>5, <1>6, <1>7

\* A cycle that returns leaves the tables as they are and the mutex free.
LEMMA ReturnStep ==
  ASSUME IInv, TypeOK', NEW c \in Callers, pc[c] \notin {"idle", "lock"}, Return(c),
         UNCHANGED <<xrayVars, dbVars, sent, restarts>>
  PROVE  IInv'
<1> USE DEF IInv
<1>1. /\ UNCHANGED <<counter, counterState, total, sent, restarts>>
      /\ pc' = [pc EXCEPT ![c] = "idle"]
      /\ mu' = Nobody
      /\ \A d \in Callers \ {c} :
            seen'[d] = seen[d] /\ todo'[d] = todo[d] /\ key'[d] = key[d] /\ delta'[d] = delta[d]
  BY DEF Return, Goto, xrayVars, dbVars, TypeOK
<1>2. pc'[c] = "idle" /\ \A d \in Callers \ {c} : pc'[d] = pc[d]
  BY <1>1 DEF TypeOK
<1>3. SingleFlight'
  BY <1>1, <1>2, CallersAssumption DEF SingleFlight
<1>4. CountersAreSent' /\ BilledIsCovered' /\ NothingLostButByRestart'
  BY <1>1
  DEF CountersAreSent, BilledIsCovered, Covered, EarlierRuns, NothingLostButByRestart
<1>5. CycleIsCovered'
  BY <1>1, <1>2 DEF CycleIsCovered, Collecting, Covered, EarlierRuns
<1>6. DeltaIsCurrent'
  BY <1>1, <1>2 DEF DeltaIsCurrent
<1>7. NoResetYet'
  BY <1>1, <1>2 DEF NoResetYet, Collecting
<1> QED BY <1>3, <1>4, <1>5, <1>6, <1>7

\* What a cycle reads from Xray covers what it is going to bill.
LEMMA QueryStep ==
  ASSUME IInv, NEW c \in Callers, Query(c)
  PROVE  IInv'
<1> USE DEF IInv
<1>1. TypeOK'
  BY TypeStep DEF Next, Cycle
<1>2. /\ UNCHANGED <<counter, counterState, total, sent, restarts, key, delta, mu>>
      /\ pc' = [pc EXCEPT ![c] = "read"]
      /\ seen'[c] = counter
      /\ \A d \in Callers \ {c} : seen'[d] = seen[d] /\ todo'[d] = todo[d]
  BY DEF Query, Goto, xrayVars, dbVars, worldVars, TypeOK
<1>3. pc'[c] = "read" /\ \A d \in Callers \ {c} : pc'[d] = pc[d]
  BY <1>2 DEF TypeOK
<1>4. SingleFlight'
  BY <1>2, <1>3 DEF SingleFlight, Query
<1>5. CountersAreSent' /\ BilledIsCovered' /\ NothingLostButByRestart'
  BY <1>2
  DEF CountersAreSent, BilledIsCovered, Covered, EarlierRuns, NothingLostButByRestart
<1>6. CycleIsCovered'
  <2>1. ASSUME NEW k \in Keys
        PROVE  total[k] + Delta(counterState[k], counter[k]) <= Covered(k, counter[k])
    BY DEF BilledIsCovered, Covered, EarlierRuns, Delta, IsReset, TypeOK, NoRow
  <2>2. todo'[c] \subseteq Keys
    BY <1>1 DEF TypeOK
  <2> QED BY <1>2, <1>3, <2>1, <2>2 DEF CycleIsCovered, Collecting, Covered, EarlierRuns
<1>7. DeltaIsCurrent'
  BY <1>2, <1>3 DEF DeltaIsCurrent
<1>8. NoResetYet'
  BY <1>1, <1>2, <1>3 DEF NoResetYet, Collecting, TypeOK
<1> QED BY <1>1, <1>4, <1>5, <1>6, <1>7, <1>8

\* consumeCounter computes the difference from the row as it stands.
LEMMA ReadStep ==
  ASSUME IInv, NEW c \in Callers, ReadCounter(c)
  PROVE  IInv'
<1> USE DEF IInv
<1>1. TypeOK'
  BY TypeStep DEF Next, Cycle
<1>2. PICK k \in todo[c] :
         /\ key' = [key EXCEPT ![c] = k]
         /\ delta' = [delta EXCEPT ![c] = Delta(counterState[k], seen[c][k])]
         /\ Goto(c, IF IsReset(counterState[k], seen[c][k]) THEN "mark" ELSE "write")
  BY DEF ReadCounter, NextKeys
<1>3. /\ UNCHANGED <<counter, counterState, total, sent, restarts, seen, todo, mu>>
      /\ pc[c] = "read" /\ pc'[c] \in {"mark", "write"}
      /\ key'[c] = k /\ delta'[c] = Delta(counterState[k], seen[c][k])
      /\ \A d \in Callers \ {c} : pc'[d] = pc[d] /\ key'[d] = key[d] /\ delta'[d] = delta[d]
  BY <1>2 DEF ReadCounter, Goto, xrayVars, dbVars, worldVars, TypeOK
<1>4. SingleFlight'
  BY <1>3 DEF SingleFlight
<1>5. CountersAreSent' /\ BilledIsCovered' /\ NothingLostButByRestart'
  BY <1>3
  DEF CountersAreSent, BilledIsCovered, Covered, EarlierRuns, NothingLostButByRestart
<1>6. CycleIsCovered'
  BY <1>3 DEF CycleIsCovered, Collecting, Covered, EarlierRuns
<1>7. DeltaIsCurrent'
  BY <1>3 DEF DeltaIsCurrent
<1>8. NoResetYet'
  BY <1>3 DEF NoResetYet, Collecting
<1> QED BY <1>1, <1>4, <1>5, <1>6, <1>7, <1>8

\* The write: what is billed becomes covered by the value that is stored.  The
\* mutex keeps every other caller's view of the row from going stale.
LEMMA WriteStep ==
  ASSUME IInv, NEW c \in Callers, AddDeltaAndAdvanceCounter(c)
  PROVE  IInv'
<1> USE DEF IInv
<1>1. TypeOK'
  BY TypeStep DEF Next, Cycle
<1> DEFINE k == key[c]
           v == seen[c][k]
<1>2. pc[c] = "write" /\ k \in todo[c] /\ k \in Keys /\ v \in Nat
      /\ delta[c] = Delta(counterState[k], v)
  BY DEF AddDeltaAndAdvanceCounter, DeltaIsCurrent, TypeOK
<1>3. /\ UNCHANGED <<counter, sent, restarts, mu, seen>>
      /\ total' = [total EXCEPT ![k] = @ + delta[c]]
      /\ counterState' = [counterState EXCEPT ![k] = v]
      /\ todo' = [todo EXCEPT ![c] = @ \ {k}]
      /\ pc' = [pc EXCEPT ![c] = "read"]
  BY DEF AddDeltaAndAdvanceCounter, AddDelta, Goto, xrayVars, worldVars
<1>4. /\ pc'[c] = "read" /\ todo'[c] = todo[c] \ {k}
      /\ \A d \in Callers \ {c} : pc'[d] = pc[d] /\ todo'[d] = todo[d]
      /\ total'[k] = total[k] + Delta(counterState[k], v) /\ counterState'[k] = v
      /\ \A j \in Keys \ {k} : total'[j] = total[j] /\ counterState'[j] = counterState[j]
  BY <1>2, <1>3 DEF TypeOK
<1>5. SingleFlight'
  BY <1>2, <1>3, <1>4 DEF SingleFlight
<1>6. \A d \in Callers \ {c} : ~Collecting(d) /\ ~Collecting(d)'
  BY <1>2, <1>4 DEF SingleFlight, Collecting
<1>7. CountersAreSent'
  BY <1>3 DEF CountersAreSent
<1>8. Collecting(c)
  BY <1>2 DEF Collecting
<1>9. BilledIsCovered'
  <2>1. total'[k] <= Covered(k, v)
    BY <1>2, <1>4, <1>8 DEF CycleIsCovered
  <2> QED BY <1>3, <1>4, <2>1 DEF BilledIsCovered, Covered, EarlierRuns
<1>10. CycleIsCovered'
  <2>1. todo[c] \subseteq Keys
    BY DEF TypeOK
  <2> QED BY <1>3, <1>4, <1>6, <1>8, <2>1 DEF CycleIsCovered, Covered, EarlierRuns
<1>11. DeltaIsCurrent'
  BY <1>4, <1>6 DEF DeltaIsCurrent, Collecting
<1>12. NoResetYet'
  <2>1. todo[c] \subseteq Keys
    BY DEF TypeOK
  <2> QED BY <1>2, <1>3, <1>4, <1>6, <1>8, <2>1 DEF NoResetYet
<1>13. NothingLostButByRestart'
  <2>1. ASSUME restarts = 0 PROVE total'[k] = v
    <3>1. counterState[k] <= v
      BY <1>2, <1>8, <2>1 DEF NoResetYet
    <3> QED BY <1>2, <1>4, <2>1, <3>1
            DEF NothingLostButByRestart, Delta, IsReset, TypeOK, NoRow
  <2> QED BY <1>2, <1>3, <1>4, <2>1 DEF NothingLostButByRestart, NoRow
<1> QED BY <1>1, <1>5, <1>7, <1>9, <1>10, <1>11, <1>12, <1>13

\* Traffic: a counter that grows covers more.
LEMMA TrafficStep ==
  ASSUME IInv, NEW k \in Keys, Traffic(k)
  PROVE  IInv'
<1> USE DEF IInv
<1>1. TypeOK'
  BY TypeStep DEF Next, World
<1>2. /\ UNCHANGED <<counterState, total, restarts, mu, pc, seen, todo, key, delta>>
      /\ counter'[k] = counter[k] + 1 /\ sent'[k] = sent[k] + 1
      /\ \A j \in Keys \ {k} : counter'[j] = counter[j] /\ sent'[j] = sent[j]
  BY DEF Traffic, dbVars, localVars, TypeOK
<1>3. \A j \in Keys : counter[j] \in Nat /\ sent[j] \in Nat /\ total[j] \in Nat
                      /\ counterState[j] \in Nat \union {NoRow}
  BY DEF TypeOK
<1>4. SingleFlight' /\ NothingLostButByRestart'
  BY <1>2 DEF SingleFlight, NothingLostButByRestart
<1>5. CountersAreSent'
  BY <1>2, <1>3 DEF CountersAreSent
<1>6. BilledIsCovered'
  BY <1>2, <1>3 DEF BilledIsCovered, Covered, EarlierRuns, NoRow
<1>7. CycleIsCovered'
  <2> SUFFICES ASSUME NEW c \in Callers, Collecting(c)', NEW j \in todo'[c]
               PROVE  (total[j] + Delta(counterState[j], seen[c][j]) <= Covered(j, seen[c][j]))'
    BY DEF CycleIsCovered
  <2>1. j \in Keys /\ j \in todo[c] /\ Collecting(c) /\ seen[c][j] \in Nat
    BY <1>2 DEF TypeOK, Collecting
  <2>2. total[j] + Delta(counterState[j], seen[c][j]) <= Covered(j, seen[c][j])
    BY <2>1 DEF CycleIsCovered
  <2>3. Delta(counterState[j], seen[c][j]) \in Nat
    BY <1>3, <2>1, DeltaIsNat
  <2> QED BY <1>2, <1>3, <2>1, <2>2, <2>3 DEF Covered, EarlierRuns, NoRow
<1>8. DeltaIsCurrent'
  BY <1>2 DEF DeltaIsCurrent
<1>9. NoResetYet'
  <2>1. ASSUME restarts = 0, NEW j \in Keys
        PROVE  counterState'[j] <= counter'[j]
    BY <1>2, <1>3, <2>1 DEF NoResetYet, NoRow
  <2>2. ASSUME restarts = 0, NEW c \in Callers, Collecting(c), NEW j \in todo[c]
        PROVE  counterState'[j] <= seen'[c][j] /\ seen'[c][j] <= counter'[j]
    <3>1. j \in Keys /\ seen[c][j] \in Nat
      BY DEF TypeOK
    <3>2. counterState[j] <= seen[c][j] /\ seen[c][j] <= counter[j]
      BY <2>2 DEF NoResetYet
    <3> QED BY <1>2, <1>3, <3>1, <3>2
  <2> QED BY <1>2, <2>1, <2>2 DEF NoResetYet, Collecting
<1> QED BY <1>1, <1>4, <1>5, <1>6, <1>7, <1>8, <1>9

\* A stop of Xray: every byte that was sent is now of an earlier run, and what
\* any value covered, all bytes that were sent cover.
LEMMA StopStep ==
  ASSUME IInv, XrayStop
  PROVE  IInv'
<1> USE DEF IInv
<1>1. TypeOK'
  BY TypeStep DEF Next, World
<1>2. /\ UNCHANGED <<counterState, total, sent, mu, pc, seen, todo, key, delta>>
      /\ \A j \in Keys : counter'[j] = 0
      /\ restarts' # 0
  BY DEF XrayStop, NoBytes, dbVars, localVars, TypeOK
<1>3. \A j \in Keys : counter[j] \in Nat /\ sent[j] \in Nat /\ total[j] \in Nat
                      /\ counterState[j] \in Nat \union {NoRow} /\ counter[j] <= sent[j]
  BY DEF TypeOK, CountersAreSent
<1>4. SingleFlight' /\ NothingLostButByRestart' /\ NoResetYet'
  BY <1>2 DEF SingleFlight, NothingLostButByRestart, NoResetYet
<1>5. CountersAreSent'
  BY <1>2, <1>3 DEF CountersAreSent
<1>6. BilledIsCovered'
  BY <1>2, <1>3 DEF BilledIsCovered, Covered, EarlierRuns, NoRow
<1>7. CycleIsCovered'
  <2> SUFFICES ASSUME NEW c \in Callers, Collecting(c)', NEW j \in todo'[c]
               PROVE  (total[j] + Delta(counterState[j], seen[c][j]) <= Covered(j, seen[c][j]))'
    BY DEF CycleIsCovered
  <2>1. j \in Keys /\ j \in todo[c] /\ Collecting(c) /\ seen[c][j] \in Nat
    BY <1>2 DEF TypeOK, Collecting
  <2>2. total[j] + Delta(counterState[j], seen[c][j]) <= Covered(j, seen[c][j])
    BY <2>1 DEF CycleIsCovered
  <2>3. Delta(counterState[j], seen[c][j]) \in Nat
    BY <1>3, <2>1, DeltaIsNat
  <2> QED BY <1>2, <1>3, <2>1, <2>2, <2>3 DEF Covered, EarlierRuns, NoRow
<1>8. DeltaIsCurrent'
  BY <1>2 DEF DeltaIsCurrent
<1> QED BY <1>1, <1>4, <1>5, <1>6, <1>7, <1>8

\* After a crash of the agent nobody collects; the database tells the truth.
LEMMA CrashStep ==
  ASSUME IInv, AgentCrash
  PROVE  IInv'
<1> USE DEF IInv
<1>1. TypeOK'
  BY TypeStep DEF Next, World
<1>2. /\ UNCHANGED <<counter, counterState, total, sent, restarts>>
      /\ mu' = Nobody
      /\ \A c \in Callers : pc'[c] = "idle"
  BY DEF AgentCrash, xrayVars, dbVars
<1>3. SingleFlight'
  BY <1>2, CallersAssumption DEF SingleFlight
<1>4. CountersAreSent' /\ BilledIsCovered' /\ NothingLostButByRestart'
  BY <1>2
  DEF CountersAreSent, BilledIsCovered, Covered, EarlierRuns, NothingLostButByRestart
<1>5. CycleIsCovered' /\ DeltaIsCurrent' /\ NoResetYet'
  BY <1>2 DEF CycleIsCovered, DeltaIsCurrent, NoResetYet, Collecting
<1> QED BY <1>1, <1>3, <1>4, <1>5

\* Xray comes up, an hour passes, or nothing happens: nothing that the
\* invariant is about changes.
LEMMA IdleStep ==
  ASSUME IInv, XrayStart \/ HourPasses \/ UNCHANGED vars
  PROVE  IInv'
<1> USE DEF IInv
<1>1. TypeOK'
  BY TypeStep DEF Next, World
<1>2. UNCHANGED <<counter, counterState, total, sent, restarts, mu, pc, seen, todo, key, delta>>
  BY DEF XrayStart, HourPasses, vars, xrayVars, dbVars, localVars, worldVars
<1> QED
  BY <1>1, <1>2 DEF SingleFlight, CountersAreSent, BilledIsCovered, Covered, EarlierRuns,
    CycleIsCovered, DeltaIsCurrent, NoResetYet, Collecting, NothingLostButByRestart

\* One lemma per kind of step, put together along Next.
LEMMA InvStep == IInv /\ [Next]_vars => IInv'
<1> SUFFICES ASSUME IInv, [Next]_vars PROVE IInv'
  OBVIOUS
<1>1. TypeOK'
  BY TypeStep DEF IInv
<1>2. ASSUME NEW c \in Callers, QueryUnreachable(c) \/ Finish(c) \/ Fail(c) PROVE IInv'
  BY <1>1, <1>2, ReturnStep DEF QueryUnreachable, Finish, Fail, worldVars
<1>3. ASSUME NEW c \in Callers, Call(c) \/ Cycle(c) PROVE IInv'
  BY <1>2, <1>3, CallStep, QueryStep, ReadStep, WriteStep DEF Cycle
<1>4. CASE World
  BY <1>4, TrafficStep, StopStep, CrashStep, IdleStep DEF World
<1> QED BY <1>3, <1>4, IdleStep DEF Next

\* The inductive invariant, which the safety theorems project.
LEMMA Invariance == Spec => []IInv
BY InvInit, InvStep, PTL DEF Spec

\* Billed bytes were sent: what counter_state covers is part of what was sent.
LEMMA InvNoOverBilling == IInv => NoOverBilling
<1> SUFFICES ASSUME IInv, NEW k \in Keys PROVE total[k] <= sent[k]
  BY DEF NoOverBilling
<1>1. counter[k] \in Nat /\ sent[k] \in Nat /\ total[k] \in Nat
      /\ counterState[k] \in Nat \union {NoRow} /\ counter[k] <= sent[k]
  BY DEF IInv, TypeOK, CountersAreSent
<1>2. total[k] <= Covered(k, counterState[k])
  BY DEF IInv, BilledIsCovered
<1> QED BY <1>1, <1>2 DEF Covered, EarlierRuns, NoRow

-----------------------------------------------------------------------------

\* The variables keep their types, for any users, requests and bounds.
THEOREM TypeCorrect == Spec => []TypeOK
<1>1. IInv => TypeOK
  BY DEF IInv
<1> QED BY <1>1, Invariance, PTL

\* No byte is billed twice: concurrent cycles, restarts of Xray, crashes of the
\* agent and failing statements included (collector.go, store.go).
THEOREM NoOverBillingHolds == Spec => []NoOverBilling
BY InvNoOverBilling, Invariance, PTL

\* Until Xray restarts, counter_state and user_traffic_total agree.
THEOREM NothingLost == Spec => []NothingLostButByRestart
<1>1. IInv => NothingLostButByRestart
  BY DEF IInv
<1> QED BY <1>1, Invariance, PTL

\* Nothing sent and nothing billed is where the ledger starts.
LEMMA LedgerInit == Init => Ledger!Init
BY DEF Init, NoBytes, Ledger!Init

\* Traffic sends, AddDeltaAndAdvanceCounter bills, and nothing else shows.
LEMMA LedgerStep == IInv /\ IInv' /\ NoOverBilling' /\ [Next]_vars => [Ledger!Next]_Ledger!ledgerVars
<1> SUFFICES ASSUME IInv, IInv', NoOverBilling', [Next]_vars
             PROVE  Ledger!Next \/ UNCHANGED <<sent, total>>
  BY DEF Ledger!ledgerVars
<1>1. TypeOK /\ TypeOK'
  BY DEF IInv
<1>2. ASSUME NEW k \in Keys, Traffic(k) PROVE Ledger!Send
  BY <1>1, <1>2 DEF Traffic, dbVars, Ledger!Send, TypeOK
<1>3. ASSUME NEW c \in Callers, AddDeltaAndAdvanceCounter(c) PROVE Ledger!Bill
  <2>1. key[c] \in Keys /\ delta[c] \in Nat
    BY <1>1, <1>3 DEF IInv, DeltaIsCurrent, AddDeltaAndAdvanceCounter, TypeOK
  <2>2. /\ UNCHANGED sent
        /\ total' = [total EXCEPT ![key[c]] = @ + delta[c]]
    BY <1>3 DEF AddDeltaAndAdvanceCounter, AddDelta, worldVars
  <2> QED BY <1>1, <2>1, <2>2 DEF Ledger!Bill, TypeOK, NoOverBilling
<1>4. ASSUME NEW c \in Callers, Call(c) \/ Cycle(c)
      PROVE  AddDeltaAndAdvanceCounter(c) \/ UNCHANGED <<sent, total>>
  BY <1>4
  DEF Call, Cycle, Lock, Query, QueryUnreachable, ReadCounter, MarkReset, Finish, Fail,
    dbVars, worldVars
<1>5. CASE World
  BY <1>2, <1>5 DEF World, XrayStop, XrayStart, AgentCrash, HourPasses, dbVars, worldVars,
    Ledger!Next
<1> QED BY <1>3, <1>4, <1>5 DEF Next, vars, dbVars, worldVars, Ledger!Next

\* The collector implements the ledger.
THEOREM ImplementsLedger == Spec => LedgerSpec
<1>1. Init /\ [][Next]_vars /\ []IInv /\ []NoOverBilling => Ledger!Spec
  BY LedgerInit, LedgerStep, PTL DEF Ledger!Spec
<1> QED BY <1>1, Invariance, NoOverBillingHolds, PTL DEF Spec, LedgerSpec

-----------------------------------------------------------------------------
(* Sums over sets.  What is said of every set is said of the least one for *)
(* which it could fail.                                                    *)

\* The element that a sum takes next, and the sums of some sets: g[s] is that of s.
Some(s) == CHOOSE x \in s : TRUE
SumsUp(f, T, g) == g = [s \in T |-> IF s = {} THEN 0 ELSE f[Some(s)] + g[s \ {Some(s)}]]

\* What SumOf is defined to be.
LEMMA SumUnfolds ==
  ASSUME NEW f, NEW S
  PROVE  SumOf(f, S) = (CHOOSE g : SumsUp(f, SUBSET S, g))[S]
BY Zenon DEF SumOf, FoldFunctionOnSet, MapThenFoldSet, SumsUp, Some

\* A set of numbers that is not empty has a least one.
LEMMA LeastOf ==
  ASSUME NEW S, S \subseteq Nat, S # {}
  PROVE  \E n \in S : \A m \in S : n <= m
<1> DEFINE R == {ss \in Nat \X Nat : ss[1] < ss[2]}
<1>1. IsWellFoundedOn(R, Nat)
  BY NatLessThanWellFounded DEF OpToRel
<1>2. PICK n \in S : \A m \in S : ~(<<m, n>> \in R)
  BY <1>1, WFMin
<1>3. ASSUME NEW m \in S PROVE n <= m
  <2>1. n \in Nat /\ m \in Nat /\ ~(m < n)
    BY <1>2
  <2> QED BY <2>1
<1> QED BY <1>3

\* The subsets of a finite set, and what is left of one when an element is taken.
LEMMA Subsets ==
  ASSUME NEW S, IsFiniteSet(S), NEW s \in SUBSET S
  PROVE  /\ IsFiniteSet(s) /\ Cardinality(s) \in Nat
         /\ Cardinality(S) \in Nat /\ Cardinality(s) <= Cardinality(S)
         /\ Cardinality(s) = 0 <=> s = {}
         /\ s # {} => /\ Some(s) \in s /\ s \ {Some(s)} \in SUBSET S
                      /\ Cardinality(s \ {Some(s)}) = Cardinality(s) - 1
<1>1. IsFiniteSet(s) /\ Cardinality(s) <= Cardinality(S)
  BY FS_Subset
<1>2. Cardinality(s) \in Nat /\ Cardinality(S) \in Nat
  BY <1>1, FS_CardinalityType
<1>3. Cardinality(s) = 0 <=> s = {}
  BY <1>1, FS_EmptySet
<1>4. ASSUME s # {} PROVE Some(s) \in s
  BY <1>4 DEF Some
<1>5. ASSUME s # {}
      PROVE  s \ {Some(s)} \in SUBSET S /\ Cardinality(s \ {Some(s)}) = Cardinality(s) - 1
  <2>1. Some(s) \in s
    BY <1>4, <1>5
  <2> QED BY <1>1, <2>1, FS_RemoveElement
<1> QED BY <1>1, <1>2, <1>3, <1>4, <1>5

\* There are such sums: those of small sets give those of sets with one more.
LEMMA SumsExist ==
  ASSUME NEW f, NEW S, IsFiniteSet(S)
  PROVE  \E g : SumsUp(f, SUBSET S, g)
<1> DEFINE UpTo(n) == {s \in SUBSET S : Cardinality(s) <= n}
           Bad == {n \in Nat : ~\E g : SumsUp(f, UpTo(n), g)}
<1>1. 0 \notin Bad
  <2> DEFINE g == [s \in UpTo(0) |-> 0]
  <2>1. ASSUME NEW s \in UpTo(0) PROVE s = {}
    <3>1. s \in SUBSET S /\ Cardinality(s) <= 0
      OBVIOUS
    <3>2. Cardinality(s) \in Nat /\ (Cardinality(s) = 0 <=> s = {})
      BY <3>1, Subsets
    <3> QED BY <3>1, <3>2
  <2>2. g = [s \in UpTo(0) |-> IF s = {} THEN 0 ELSE f[Some(s)] + g[s \ {Some(s)}]]
    BY <2>1
  <2>3. SumsUp(f, UpTo(0), g)
    BY <2>2 DEF SumsUp
  <2> QED BY <2>3
<1>2. ASSUME NEW n \in Nat, n \notin Bad PROVE n + 1 \notin Bad
  <2>1. PICK h : SumsUp(f, UpTo(n), h)
    BY <1>2
  <2> DEFINE g == [s \in UpTo(n + 1) |-> IF s = {} THEN 0 ELSE f[Some(s)] + h[s \ {Some(s)}]]
  <2>2. ASSUME NEW s \in UpTo(n + 1), s # {}
        PROVE  g[s \ {Some(s)}] = h[s \ {Some(s)}]
    <3> DEFINE t == s \ {Some(s)}
    <3>1. Cardinality(s) \in Nat /\ t \in SUBSET S /\ Cardinality(t) = Cardinality(s) - 1
      BY <2>2, Subsets
    <3>2. t \in UpTo(n) /\ t \in UpTo(n + 1)
      BY <3>1
    <3> HIDE DEF t, UpTo
    <3>3. h[t] = IF t = {} THEN 0 ELSE f[Some(t)] + h[t \ {Some(t)}]
      BY <2>1, <3>2 DEF SumsUp
    <3>4. g[t] = IF t = {} THEN 0 ELSE f[Some(t)] + h[t \ {Some(t)}]
      BY <3>2
    <3> QED BY <3>3, <3>4 DEF t
  <2>3. g = [s \in UpTo(n + 1) |-> IF s = {} THEN 0 ELSE f[Some(s)] + g[s \ {Some(s)}]]
    <3> HIDE DEF UpTo
    <3>1. \A s \in UpTo(n + 1) : g[s] = IF s = {} THEN 0 ELSE f[Some(s)] + g[s \ {Some(s)}]
      BY <2>2
    <3>2. g = [s \in UpTo(n + 1) |-> g[s]]
      OBVIOUS
    <3> HIDE DEF g
    <3> QED BY <3>1, <3>2
  <2>4. SumsUp(f, UpTo(n + 1), g)
    <3> HIDE DEF UpTo, g
    <3> QED BY <2>3 DEF SumsUp
  <2> HIDE DEF g, UpTo
  <2> QED BY <2>4
<1>3. Bad = {}
  <2> SUFFICES ASSUME Bad # {} PROVE FALSE
    OBVIOUS
  <2>1. Bad \subseteq Nat
    OBVIOUS
  <2> HIDE DEF Bad
  <2>2. PICK n \in Bad : \A m \in Bad : n <= m
    BY <2>1, LeastOf
  <2>3. n \in Nat /\ n # 0
    BY <1>1, <2>1, <2>2
  <2>4. n - 1 \in Nat /\ n - 1 \notin Bad
    BY <2>1, <2>2, <2>3
  <2>5. (n - 1) + 1 \notin Bad
    BY <1>2, <2>4
  <2> QED BY <2>2, <2>3, <2>5
<1>4. UpTo(Cardinality(S)) = SUBSET S /\ Cardinality(S) \in Nat
  BY Subsets
<1> QED BY <1>3, <1>4

\* So a sum is that of a smaller set, and one element more.
SumsOf(f, S, g) ==
  \A s \in SUBSET S : g[s] = IF s = {} THEN 0 ELSE f[Some(s)] + g[s \ {Some(s)}]
LEMMA SumOfSet ==
  ASSUME NEW f, NEW S, IsFiniteSet(S)
  PROVE  \E g : /\ SumOf(f, S) = g[S]
                /\ SumsOf(f, S, g)
<1> DEFINE g == CHOOSE g : SumsUp(f, SUBSET S, g)
<1>1. SumsUp(f, SUBSET S, g)
  BY SumsExist
<1>2. SumOf(f, S) = g[S]
  BY SumUnfolds
<1> HIDE DEF g
<1>3. \A s \in SUBSET S : g[s] = IF s = {} THEN 0 ELSE f[Some(s)] + g[s \ {Some(s)}]
  BY <1>1 DEF SumsUp
<1> QED BY <1>2, <1>3 DEF SumsOf

\* A sum of zeros is zero.
LEMMA SumOfZeros ==
  ASSUME NEW f, NEW S, IsFiniteSet(S), \A x \in S : f[x] = 0
  PROVE  SumOf(f, S) = 0
<1>1. PICK g : /\ SumOf(f, S) = g[S]
               /\ SumsOf(f, S, g)
  BY SumOfSet
<1> DEFINE Bad == {Cardinality(s) : s \in {s \in SUBSET S : g[s] # 0}}
<1>2. Bad = {}
  <2> SUFFICES ASSUME Bad # {} PROVE FALSE
    OBVIOUS
  <2>1. Bad \subseteq Nat
    <3>1. \A s \in SUBSET S : Cardinality(s) \in Nat
      BY Subsets
    <3> QED BY <3>1
  <2>2. PICK n \in Bad : \A m \in Bad : n <= m
    <3> HIDE DEF Bad
    <3> QED BY <2>1, LeastOf
  <2>3. PICK s \in SUBSET S : g[s] # 0 /\ Cardinality(s) = n
    BY <2>2
  <2>4. s # {} /\ g[s] = f[Some(s)] + g[s \ {Some(s)}]
    BY <1>1, <2>3 DEF SumsOf
  <2>5. Some(s) \in S /\ s \ {Some(s)} \in SUBSET S /\ Cardinality(s \ {Some(s)}) = n - 1
    BY <2>3, <2>4, Subsets
  <2>6. n - 1 \notin Bad
    <3> HIDE DEF Bad
    <3> QED BY <2>1, <2>2
  <2>7. g[s \ {Some(s)}] = 0
    BY <2>5, <2>6
  <2> QED BY <2>3, <2>4, <2>5, <2>7
<1> QED BY <1>1, <1>2

\* A sum grows by what is added to one of its elements.
LEMMA SumGrows ==
  ASSUME NEW f, NEW h, NEW S, IsFiniteSet(S), \A y \in S : f[y] \in Nat,
         NEW x, NEW n \in Nat, \A y \in S : h[y] = IF y = x THEN f[y] + n ELSE f[y]
  PROVE  /\ SumOf(h, S) = SumOf(f, S) + (IF x \in S THEN n ELSE 0)
         /\ SumOf(f, S) \in Nat
<1>1. PICK g : /\ SumOf(f, S) = g[S]
               /\ SumsOf(f, S, g)
  BY SumOfSet
<1>2. PICK k : /\ SumOf(h, S) = k[S]
               /\ SumsOf(h, S, k)
  BY SumOfSet
<1> DEFINE Good(s) == g[s] \in Nat /\ k[s] = g[s] + (IF x \in s THEN n ELSE 0)
           Bad == {Cardinality(s) : s \in {s \in SUBSET S : ~Good(s)}}
<1>3. Bad = {}
  <2> SUFFICES ASSUME Bad # {} PROVE FALSE
    OBVIOUS
  <2>1. Bad \subseteq Nat
    <3>1. \A s \in SUBSET S : Cardinality(s) \in Nat
      BY Subsets
    <3> QED BY <3>1
  <2>2. PICK m \in Bad : \A i \in Bad : m <= i
    <3> HIDE DEF Bad
    <3> QED BY <2>1, LeastOf
  <2>3. PICK s \in SUBSET S : ~Good(s) /\ Cardinality(s) = m
    BY <2>2
  <2>4. s # {}
    <3>1. g[{}] = 0 /\ k[{}] = 0
      BY <1>1, <1>2 DEF SumsOf
    <3>2. Good({})
      BY <3>1
    <3> HIDE DEF Good
    <3> QED BY <2>3, <3>2
  <2> DEFINE y == Some(s)
             t == s \ {Some(s)}
  <2>5. y \in s /\ y \in S /\ t \in SUBSET S /\ Cardinality(t) = m - 1
    BY <2>3, <2>4, Subsets
  <2>6. m - 1 \notin Bad
    <3> HIDE DEF Bad
    <3> QED BY <2>1, <2>2
  <2>7. Good(t)
    BY <2>5, <2>6
  <2>8. g[s] = f[y] + g[t] /\ k[s] = h[y] + k[t] /\ f[y] \in Nat
        /\ h[y] = (IF y = x THEN f[y] + n ELSE f[y])
    BY <1>1, <1>2, <2>4, <2>5 DEF SumsOf
  <2>9. x \in s <=> x = y \/ x \in t
    BY <2>5
  <2>10. ~(x = y /\ x \in t)
    OBVIOUS
  <2> HIDE DEF y, t
  <2>11. Good(s)
    BY <2>7, <2>8, <2>9, <2>10
  <2> QED BY <2>3, <2>11
<1>4. Good(S)
  BY <1>3
<1> QED BY <1>1, <1>2, <1>4

-----------------------------------------------------------------------------
(* The three aggregates.                                                   *)

HoursOf(d) == {h \in Hours : DayOf(h) = d}

\* Days and hours are counted.
LEMMA FiniteTimes == IsFiniteSet(Days) /\ \A d \in Days : IsFiniteSet(HoursOf(d))
<1>1. LastHour \in Nat /\ LastHour \div HoursPerDay \in Int
  BY BoundsAssumption
<1>2. IsFiniteSet(Hours) /\ IsFiniteSet(Days)
  BY <1>1, FS_Interval DEF Hours, Days
<1>3. \A d \in Days : HoursOf(d) \subseteq Hours
  BY DEF HoursOf
<1> QED BY <1>2, <1>3, FS_Subset

\* Empty tables agree.
LEMMA WindowsInit == Init => WindowsAgree
<1> SUFFICES ASSUME Init, NEW k \in Keys
             PROVE  /\ total[k] = SumOf(daily[k], Days)
                    /\ \A d \in Days : daily[k][d] = SumOf(hourly[k], HoursOf(d))
  BY DEF WindowsAgree, HoursOf
<1>1. /\ total[k] = 0 /\ \A d \in Days : daily[k][d] = 0
      /\ \A h \in Hours : hourly[k][h] = 0
  BY DEF Init, NoBytes
<1>2. SumOf(daily[k], Days) = 0
  BY <1>1, FiniteTimes, SumOfZeros
<1>3. ASSUME NEW d \in Days PROVE SumOf(hourly[k], HoursOf(d)) = 0
  <2>1. \A h \in HoursOf(d) : hourly[k][h] = 0
    BY <1>1 DEF HoursOf
  <2> QED BY <2>1, FiniteTimes, SumOfZeros
<1> QED BY <1>1, <1>2, <1>3

\* The transaction adds the same bytes to the hour of the cycle, to its day and to the
\* total, and to nothing else.
LEMMA WindowsWrite ==
  ASSUME IInv, WindowsAgree, NEW c \in Callers, AddDeltaAndAdvanceCounter(c)
  PROVE  WindowsAgree'
<1> DEFINE k0 == key[c]
           n == delta[c]
           h0 == at[c]
<1>1. k0 \in Keys /\ n \in Nat /\ h0 \in Hours /\ DayOf(h0) \in Days
  BY DayOfHour DEF IInv, TypeOK, DeltaIsCurrent, AddDeltaAndAdvanceCounter
<1>2. /\ hourly' = [hourly EXCEPT ![k0][h0] = @ + n]
      /\ daily' = [daily EXCEPT ![k0][DayOf(h0)] = @ + n]
      /\ total' = [total EXCEPT ![k0] = @ + n]
  BY DEF AddDeltaAndAdvanceCounter, AddDelta
<1> SUFFICES ASSUME NEW k \in Keys
             PROVE  /\ total'[k] = SumOf(daily'[k], Days)
                    /\ \A d \in Days : daily'[k][d] = SumOf(hourly'[k], HoursOf(d))
  BY DEF WindowsAgree, HoursOf
<1>3. /\ total[k] = SumOf(daily[k], Days) /\ total[k] \in Nat
      /\ \A d \in Days : daily[k][d] = SumOf(hourly[k], HoursOf(d)) /\ daily[k][d] \in Nat
      /\ \A h \in Hours : hourly[k][h] \in Nat
  BY DEF WindowsAgree, HoursOf, IInv, TypeOK
<1> HIDE DEF k0, n, h0
<1>4. CASE k # k0
  <2>1. total'[k] = total[k] /\ daily'[k] = daily[k] /\ hourly'[k] = hourly[k]
    BY <1>1, <1>2, <1>4 DEF IInv, TypeOK
  <2> QED BY <1>3, <2>1
<1>5. CASE k = k0
  <2>1. /\ total'[k] = total[k] + n
        /\ \A d \in Days : daily'[k][d] = IF d = DayOf(h0) THEN daily[k][d] + n ELSE daily[k][d]
        /\ \A h \in Hours : hourly'[k][h] = IF h = h0 THEN hourly[k][h] + n ELSE hourly[k][h]
    BY <1>1, <1>2, <1>5 DEF IInv, TypeOK
  <2>2. SumOf(daily'[k], Days) = SumOf(daily[k], Days) + n
    <3>1. SumOf(daily'[k], Days)
            = SumOf(daily[k], Days) + (IF DayOf(h0) \in Days THEN n ELSE 0)
      <4> DEFINE f == daily[k]
                 g == daily'[k]
                 d0 == DayOf(h0)
                 S == Days
      <4>1. /\ IsFiniteSet(S)
            /\ \A d \in S : f[d] \in Nat
            /\ \A d \in S : g[d] = IF d = d0 THEN f[d] + n ELSE f[d]
        BY <1>3, <2>1, FiniteTimes
      <4>2. n \in Nat
        BY <1>1
      <4> HIDE DEF f, g, d0, S
      <4>3. SumOf(g, S) = SumOf(f, S) + (IF d0 \in S THEN n ELSE 0)
        BY <4>1, <4>2, SumGrows
      <4> QED BY <4>3 DEF f, g, d0, S
    <3> QED BY <1>1, <3>1
  <2>3. ASSUME NEW d \in Days
        PROVE  daily'[k][d] = SumOf(hourly'[k], HoursOf(d))
    <3>1. \A h \in HoursOf(d) : /\ hourly[k][h] \in Nat
                                /\ hourly'[k][h] = IF h = h0 THEN hourly[k][h] + n ELSE hourly[k][h]
      BY <1>3, <2>1 DEF HoursOf
    <3>2. SumOf(hourly'[k], HoursOf(d))
            = SumOf(hourly[k], HoursOf(d)) + (IF h0 \in HoursOf(d) THEN n ELSE 0)
      <4> DEFINE f == hourly[k]
                 g == hourly'[k]
                 S == HoursOf(d)
      <4>1. /\ IsFiniteSet(S)
            /\ \A h \in S : f[h] \in Nat
            /\ \A h \in S : g[h] = IF h = h0 THEN f[h] + n ELSE f[h]
        BY <3>1, FiniteTimes
      <4> HIDE DEF f, g, S
      <4>2. SumOf(g, S) = SumOf(f, S) + (IF h0 \in S THEN n ELSE 0)
        BY <1>1, <4>1, SumGrows
      <4> QED BY <4>2 DEF f, g, S
    <3>3. h0 \in HoursOf(d) <=> d = DayOf(h0)
      BY <1>1 DEF HoursOf
    <3> QED BY <1>1, <1>3, <2>1, <3>2, <3>3
  <2> QED BY <1>3, <2>1, <2>2, <2>3
<1> QED BY <1>4, <1>5

\* Nothing else touches the tables.
LEMMA WindowsStep == IInv /\ WindowsAgree /\ [Next]_vars => WindowsAgree'
<1> SUFFICES ASSUME IInv, WindowsAgree, [Next]_vars PROVE WindowsAgree'
  OBVIOUS
<1>1. CASE UNCHANGED dbVars
  BY <1>1 DEF WindowsAgree, dbVars
<1>2. ASSUME NEW c \in Callers, Call(c) \/ Cycle(c)
      PROVE  AddDeltaAndAdvanceCounter(c) \/ UNCHANGED dbVars
  BY <1>2
  DEF Call, Cycle, Lock, Query, QueryUnreachable, ReadCounter, MarkReset, Finish, Fail
<1>3. CASE World
  BY <1>1, <1>3 DEF World, Traffic, XrayStop, XrayStart, AgentCrash, HourPasses
<1> QED BY <1>1, <1>2, <1>3, WindowsWrite DEF Next, vars

\* user_traffic_total is the sum of the days, and each day that of its hours, whatever
\* crashes or fails: the quota window and the reports are of the same traffic.
THEOREM WindowsHold == Spec => []WindowsAgree
BY WindowsInit, WindowsStep, Invariance, PTL DEF Spec
=============================================================================
