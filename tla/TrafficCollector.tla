--------------------------- MODULE TrafficCollector ---------------------------
(***************************************************************************)
(* The stats collector of ovpn-agent (internal/stats/collector.go) and the *)
(* tables it writes (internal/store/remote/store.go).                      *)
(*                                                                         *)
(* Xray keeps one cumulative counter per user and direction, in memory.    *)
(* A cycle of CollectOnce reads all of them in one call, and for each one  *)
(* reads the value stored by an earlier cycle, bills the difference and    *)
(* stores the new value.  The ticker goroutine and every POST /collect run *)
(* the same cycle, under the collector's mutex.  Xray may restart, the     *)
(* agent may crash and the database may fail between any two steps.        *)
(***************************************************************************)
EXTENDS Integers, FiniteSets, Functions

CONSTANTS
  Emails,                   \* users that have traffic counters
  Ticker,                   \* the goroutine of Collector.Run
  Requests,                 \* goroutines that serve POST /collect
  HoursPerDay,              \* 24 in the code; smaller when checked
  LastHour,                 \* bound: the hours 0..LastHour are modelled
  MaxBytes,                 \* bound: bytes per counter
  MaxRestarts,              \* bound: restarts of Xray
  MaxCrashes,               \* bound: crashes of the agent
  MaxErrors                 \* bound: failed database or API calls

ASSUME BoundsAssumption ==
  /\ HoursPerDay \in Nat \ {0}
  /\ {LastHour, MaxBytes, MaxRestarts, MaxCrashes, MaxErrors} \subseteq Nat

Callers == {Ticker} \union Requests
Nobody == "nobody"          \* the mutex is free

ASSUME CallersAssumption == Ticker \notin Requests /\ Nobody \notin Callers

Directions == {"uplink", "downlink"}
Keys == Emails \X Directions
Hours == 0 .. LastHour
Days == 0 .. (LastHour \div HoursPerDay)
DayOf(h) == h \div HoursPerDay

NoRow == -1                 \* the counter_state table has no row for a key
NoKey == <<>>                \* no counter is being consumed

VARIABLES
  (* Xray *)
  xrayUp,
  counter,                  \* counter[k]: the value of Xray's counter k
  (* the SQLite database of the agent *)
  counterState,             \* table counter_state: NoRow or a value
  hourly, daily, total,     \* tables user_traffic_hourly, _daily, _total
  (* the agent process *)
  mu,                       \* Collector.mu: the caller that holds it
  pc,                       \* what each caller is about to do
  seen,                     \* seen[c]: the counters c read from Xray
  at,                       \* at[c]: c's "now", taken after that read
  todo,                     \* todo[c]: the counters c has yet to consume
  key, delta,               \* the counter c is consuming and its difference
  (* the world *)
  hour,                     \* the wall clock
  sent,                     \* history: sent[k], bytes that crossed counter k
  restarts, crashes, errors \* faults so far

xrayVars == <<xrayUp, counter>>
dbVars == <<counterState, hourly, daily, total>>
localVars == <<seen, at, todo, key, delta>>
worldVars == <<hour, sent, restarts, crashes, errors>>
vars == <<xrayVars, dbVars, mu, pc, localVars, worldVars>>

PcValues == {"idle", "lock", "query", "read", "mark", "write"}

TypeOK ==
  /\ xrayUp \in BOOLEAN
  /\ counter \in [Keys -> Nat]
  /\ counterState \in [Keys -> Nat \union {NoRow}]
  /\ hourly \in [Keys -> [Hours -> Nat]]
  /\ daily \in [Keys -> [Days -> Nat]]
  /\ total \in [Keys -> Nat]
  /\ mu \in Callers \union {Nobody}
  /\ pc \in [Callers -> PcValues]
  /\ seen \in [Callers -> [Keys -> Nat]]
  /\ at \in [Callers -> Hours]
  /\ todo \in [Callers -> SUBSET Keys]
  /\ key \in [Callers -> Keys \union {NoKey}]
  /\ delta \in [Callers -> Nat]
  /\ hour \in Hours
  /\ sent \in [Keys -> Nat]
  /\ restarts \in 0 .. MaxRestarts
  /\ crashes \in 0 .. MaxCrashes
  /\ errors \in 0 .. MaxErrors

NoBytes == [k \in Keys |-> 0]

Init ==
  /\ xrayUp = TRUE
  /\ counter = NoBytes
  /\ counterState = [k \in Keys |-> NoRow]
  /\ hourly = [k \in Keys |-> [h \in Hours |-> 0]]
  /\ daily = [k \in Keys |-> [d \in Days |-> 0]]
  /\ total = NoBytes
  /\ mu = Nobody
  /\ pc = [c \in Callers |-> "idle"]
  /\ seen = [c \in Callers |-> NoBytes]
  /\ at = [c \in Callers |-> 0]
  /\ todo = [c \in Callers |-> {}]
  /\ key = [c \in Callers |-> NoKey]
  /\ delta = [c \in Callers |-> 0]
  /\ hour = 0
  /\ sent = NoBytes
  /\ restarts = 0 /\ crashes = 0 /\ errors = 0

-----------------------------------------------------------------------------
(* One cycle of CollectOnce.                                               *)

Goto(c, label) == pc' = [pc EXCEPT ![c] = label]

\* CollectOnce returns: the deferred Unlock, and the cycle's locals are gone.
Return(c) ==
  /\ mu' = Nobody
  /\ Goto(c, "idle")
  /\ seen' = [seen EXCEPT ![c] = NoBytes]
  /\ at' = [at EXCEPT ![c] = 0]
  /\ todo' = [todo EXCEPT ![c] = {}]
  /\ key' = [key EXCEPT ![c] = NoKey]
  /\ delta' = [delta EXCEPT ![c] = 0]

\* The ticker fires, or a POST /collect arrives.
Call(c) ==
  /\ pc[c] = "idle"
  /\ Goto(c, "lock")
  /\ UNCHANGED <<xrayVars, dbVars, mu, localVars, worldVars>>

\* Mutant of Lock: without the mutex.
LockNothing(c) ==
  /\ pc[c] = "lock"
  /\ mu' = c
  /\ Goto(c, "query")
  /\ UNCHANGED <<xrayVars, dbVars, localVars, worldVars>>

Lock(c) ==
  /\ pc[c] = "lock"
  /\ mu = Nobody
  /\ mu' = c
  /\ Goto(c, "query")
  /\ UNCHANGED <<xrayVars, dbVars, localVars, worldVars>>

\* Mutant of Query: users are found by their uplink counter alone.
QueryByUplink(c) ==
  /\ pc[c] = "query"
  /\ xrayUp
  /\ seen' = [seen EXCEPT ![c] = counter]
  /\ at' = [at EXCEPT ![c] = hour]
  /\ todo' = [todo EXCEPT ![c] = {k \in Keys : counter[<<k[1], "uplink">>] > 0}]
  /\ Goto(c, "read")
  /\ UNCHANGED <<xrayVars, dbVars, mu, key, delta, worldVars>>

\* Xray reports the users that have a counter; both directions of each are
\* consumed, a direction that has no counter with the value 0.
Query(c) ==
  /\ pc[c] = "query"
  /\ xrayUp
  /\ seen' = [seen EXCEPT ![c] = counter]
  /\ at' = [at EXCEPT ![c] = hour]
  /\ todo' = [todo EXCEPT ![c] =
                {k \in Keys : \E d \in Directions : counter[<<k[1], d>>] > 0}]
  /\ Goto(c, "read")
  /\ UNCHANGED <<xrayVars, dbVars, mu, key, delta, worldVars>>

\* Xray cannot be dialled, or QueryStats fails: nothing is collected.
QueryUnreachable(c) ==
  /\ pc[c] = "query"
  /\ ~xrayUp
  /\ Return(c)
  /\ UNCHANGED <<xrayVars, dbVars, worldVars>>

\* Users in the random order of Go's map iteration, uplink before downlink.
HalfDone(c) ==
  {e \in Emails : <<e, "uplink">> \notin todo[c] /\ <<e, "downlink">> \in todo[c]}
NextKeys(c) ==
  {k \in todo[c] : IF HalfDone(c) = {} THEN k[2] = "uplink" ELSE k[1] \in HalfDone(c)}

IsReset(prev, current) == prev # NoRow /\ current < prev
\* Mutants of Delta: a reset goes unnoticed; the counter is taken for a rate.
DeltaUnsigned(prev, current) == IF prev = NoRow THEN current ELSE current - prev
DeltaOfRate(prev, current) == current
Delta(prev, current) ==
  IF prev = NoRow \/ IsReset(prev, current) THEN current ELSE current - prev

\* consumeCounter, up to its first write.
ReadCounter(c) ==
  /\ pc[c] = "read"
  /\ \E k \in NextKeys(c) :
       /\ key' = [key EXCEPT ![c] = k]
       /\ delta' = [delta EXCEPT ![c] = Delta(counterState[k], seen[c][k])]
       /\ Goto(c, IF IsReset(counterState[k], seen[c][k]) THEN "mark" ELSE "write")
  /\ UNCHANGED <<xrayVars, dbVars, mu, seen, at, todo, worldVars>>

\* The reset is recorded in collector_meta (its value is not modelled).
MarkReset(c) ==
  /\ pc[c] = "mark"
  /\ Goto(c, "write")
  /\ UNCHANGED <<xrayVars, dbVars, mu, localVars, worldVars>>

\* Mutant of AddDelta: the daily row is found by the hour.
AddDeltaByHour(k, n, h) ==
  /\ hourly' = [hourly EXCEPT ![k][h] = @ + n]
  /\ daily' = [daily EXCEPT ![k][h] = @ + n]
  /\ total' = [total EXCEPT ![k] = @ + n]

\* AddDeltaAndAdvanceCounter: one transaction over four tables.
AddDelta(k, n, h) ==
  /\ hourly' = [hourly EXCEPT ![k][h] = @ + n]
  /\ daily' = [daily EXCEPT ![k][DayOf(h)] = @ + n]
  /\ total' = [total EXCEPT ![k] = @ + n]
AddDeltaAndAdvanceCounter(c) ==
  /\ pc[c] = "write"
  /\ AddDelta(key[c], delta[c], at[c])
  /\ counterState' = [counterState EXCEPT ![key[c]] = seen[c][key[c]]]
  /\ todo' = [todo EXCEPT ![c] = @ \ {key[c]}]
  /\ key' = [key EXCEPT ![c] = NoKey]
  /\ delta' = [delta EXCEPT ![c] = 0]
  /\ Goto(c, "read")
  /\ UNCHANGED <<xrayVars, mu, seen, at, worldVars>>

\* Every counter is consumed and last_collect_at is stored; the enforcement
\* that follows is the subject of AgentEnforcement.
Finish(c) ==
  /\ pc[c] = "read"
  /\ todo[c] = {}
  /\ Return(c)
  /\ UNCHANGED <<xrayVars, dbVars, worldVars>>

\* Mutant of Fail: the counter is advanced before, not with, the aggregates.
FailHalfway(c) ==
  /\ pc[c] \in {"query", "read", "mark", "write"}
  /\ errors < MaxErrors
  /\ errors' = errors + 1
  /\ Return(c)
  /\ IF pc[c] = "write"
     THEN counterState' = [counterState EXCEPT ![key[c]] = seen[c][key[c]]]
     ELSE UNCHANGED counterState
  /\ UNCHANGED <<xrayVars, hourly, daily, total, hour, sent, restarts, crashes>>

\* A statement or the API call fails: the cycle is abandoned where it stands.
Fail(c) ==
  /\ pc[c] \in {"query", "read", "mark", "write"}
  /\ errors < MaxErrors
  /\ errors' = errors + 1
  /\ Return(c)
  /\ UNCHANGED <<xrayVars, dbVars, hour, sent, restarts, crashes>>

Cycle(c) ==
  \/ Lock(c) \/ Query(c) \/ QueryUnreachable(c) \/ ReadCounter(c)
  \/ MarkReset(c) \/ AddDeltaAndAdvanceCounter(c) \/ Finish(c) \/ Fail(c)

-----------------------------------------------------------------------------
(* The world.                                                              *)

\* A user's traffic crosses a counter.
Traffic(k) ==
  /\ xrayUp
  /\ sent[k] < MaxBytes
  /\ counter' = [counter EXCEPT ![k] = @ + 1]
  /\ sent' = [sent EXCEPT ![k] = @ + 1]
  /\ UNCHANGED <<xrayUp, dbVars, mu, pc, localVars, hour, restarts, crashes, errors>>

XrayStop ==
  /\ xrayUp
  /\ restarts < MaxRestarts
  /\ restarts' = restarts + 1
  /\ xrayUp' = FALSE
  /\ counter' = NoBytes
  /\ UNCHANGED <<dbVars, mu, pc, localVars, hour, sent, crashes, errors>>

XrayStart ==
  /\ ~xrayUp
  /\ xrayUp' = TRUE
  /\ UNCHANGED <<counter, dbVars, mu, pc, localVars, worldVars>>

\* The agent dies and is started again: all but the database is lost.
AgentCrash ==
  /\ crashes < MaxCrashes
  /\ crashes' = crashes + 1
  /\ mu' = Nobody
  /\ pc' = [c \in Callers |-> "idle"]
  /\ seen' = [c \in Callers |-> NoBytes]
  /\ at' = [c \in Callers |-> 0]
  /\ todo' = [c \in Callers |-> {}]
  /\ key' = [c \in Callers |-> NoKey]
  /\ delta' = [c \in Callers |-> 0]
  /\ UNCHANGED <<xrayVars, dbVars, hour, sent, restarts, errors>>

HourPasses ==
  /\ hour < LastHour
  /\ hour' = hour + 1
  /\ UNCHANGED <<xrayVars, dbVars, mu, pc, localVars, sent, restarts, crashes, errors>>

World ==
  \/ \E k \in Keys : Traffic(k)
  \/ XrayStop \/ XrayStart \/ AgentCrash \/ HourPasses

Next == World \/ \E c \in Callers : Call(c) \/ Cycle(c)

Spec == Init /\ [][Next]_vars

\* The ticker keeps firing; a goroutine that runs is scheduled; the container
\* runtime starts Xray again.  Nobody is obliged to POST /collect.
Fairness ==
  /\ WF_vars(Call(Ticker))
  /\ \A c \in Callers : WF_vars(Cycle(c))
  /\ WF_vars(XrayStart)

FairSpec == Spec /\ Fairness

-----------------------------------------------------------------------------
(* Properties.                                                             *)

\* No byte is billed twice, whoever else collects, and whatever crashes or
\* restarts between the read of the counters and the write of the difference:
\* a user is never cut off for traffic that did not happen.
NoOverBilling == \A k \in Keys : total[k] <= sent[k]

\* Nothing but a restart of Xray loses traffic: until the first one, what is
\* billed is exactly the part of Xray's counter that counter_state covers.
NothingLostButByRestart ==
  restarts = 0 =>
    \A k \in Keys :
      total[k] = (IF counterState[k] = NoRow THEN 0 ELSE counterState[k])

\* The three aggregates tell one story: the quota window is summed from the
\* daily rows, the reports from the hourly and the total ones.
SumOf(f, S) == FoldFunctionOnSet(+, 0, f, S)
WindowsAgree ==
  \A k \in Keys :
    /\ total[k] = SumOf(daily[k], Days)
    /\ \A d \in Days : daily[k][d] = SumOf(hourly[k], {h \in Hours : DayOf(h) = d})

\* Without a restart of Xray every byte is billed in the end: a failed cycle,
\* a crash of the agent or a collector that waits for the mutex only delays it.
\* (Both sums only grow, so that this says of each n that n bytes that crossed
\* lead to n bytes that are billed.)
EverythingBilled ==
  \A k \in Keys : \A n \in 1 .. MaxBytes :
    []<>(sent[k] >= n => total[k] >= n \/ restarts > 0)

\* The collector implements the ledger: user_traffic_total never shrinks and
\* never exceeds what crossed the counter.
Ledger == INSTANCE TrafficLedger WITH Keys <- Keys, sent <- sent, billed <- total
LedgerSpec == Ledger!Spec

-----------------------------------------------------------------------------
(* Why NoOverBilling holds.  The bytes of a counter are those of the run of *)
(* Xray that is under way and those of earlier runs, which Xray forgot.     *)

EarlierRuns(k) == sent[k] - counter[k]

\* A value v that was read of counter k vouches for the earlier runs, and for
\* v bytes of this run unless the counter shows that v is of an earlier one.
Covered(k, v) ==
  EarlierRuns(k) + (IF v # NoRow /\ v <= counter[k] THEN v ELSE 0)

Collecting(c) == pc[c] \in {"read", "mark", "write"}

\* The mutex: whoever is past the lock holds it.
SingleFlight == \A c \in Callers : pc[c] \notin {"idle", "lock"} <=> mu = c

CountersAreSent == \A k \in Keys : counter[k] <= sent[k]

BilledIsCovered == \A k \in Keys : total[k] <= Covered(k, counterState[k])

\* What a cycle is about to bill is covered by what it read, though Xray may
\* have restarted since.
CycleIsCovered ==
  \A c \in Callers : Collecting(c) =>
    \A k \in todo[c] :
      total[k] + Delta(counterState[k], seen[c][k]) <= Covered(k, seen[c][k])

DeltaIsCurrent ==
  \A c \in Callers : pc[c] \in {"mark", "write"} =>
    /\ key[c] \in todo[c]
    /\ delta[c] = Delta(counterState[key[c]], seen[c][key[c]])

\* Until Xray restarts, counters only grow: no cycle sees a reset.
NoResetYet ==
  restarts = 0 =>
    /\ \A k \in Keys : counterState[k] <= counter[k]
    /\ \A c \in Callers : Collecting(c) =>
         \A k \in todo[c] :
           counterState[k] <= seen[c][k] /\ seen[c][k] <= counter[k]

IInv ==
  /\ TypeOK
  /\ SingleFlight
  /\ CountersAreSent
  /\ BilledIsCovered
  /\ CycleIsCovered
  /\ DeltaIsCurrent
  /\ NoResetYet
  /\ NothingLostButByRestart
=============================================================================
