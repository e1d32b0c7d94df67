------------------------ MODULE ConnectionDiagnostics ------------------------
(***************************************************************************)
(* The connection diagnostics of ovpn-agent: what the tailer's flush       *)
(* (RecordConnectionEvents) and its cleanup do to the tables of            *)
(* internal/store/remote/diagnostics.go while the operator starts and      *)
(* stops debug sessions through /diagnostics/debug/start and .../stop.     *)
(* How events get from the access log to a batch is AccessLogTailer.       *)
(*                                                                         *)
(* A flush reads the active sessions and counts their captured events in   *)
(* statements of their own and then writes in one transaction; a cleanup   *)
(* is one statement after the other.  Both run in the tailer's goroutine,  *)
(* the HTTP handlers in theirs.                                            *)
(***************************************************************************)
EXTENDS Integers, FiniteSets, Sequences, SequencesExt

CONSTANTS
  Emails, Sources,          \* users, and the networks they connect from
  SourceBucketCap,          \* buckets per user and hour
  DebugEventCap,            \* captured events per user
  Durations,                \* what requests of debug/start ask for
  DefaultDuration, SessionMax,
  Retention,                \* captured events are kept so long
  LastTime,                 \* bound: the clock
  MaxEvents,                \* bound: connections
  MaxStarts,                \* bound: sessions that are started
  MaxErrors                 \* bound: statements that fail

ASSUME BoundsAssumption ==
  /\ {SourceBucketCap, DebugEventCap, DefaultDuration, SessionMax} \subseteq Nat \ {0}
  /\ Durations \subseteq Int
  /\ {Retention, LastTime, MaxEvents, MaxStarts, MaxErrors} \subseteq Nat
  /\ IsFiniteSet(Sources)

Times == 0 .. LastTime + SessionMax
NoSession == -1
Uncached == -1

\* A connection that the tailer has read.
Events ==
  [id : 1 .. MaxEvents, email : Emails, source : Sources, ts : Times]

VARIABLES
  now,
  expires,                  \* table connection_debug_sessions
  captured,                 \* table connection_debug_events
  hourly,                   \* connection_hourly: connections of the hour
  buckets,                  \* connection_source_hourly: count per source
  overflow,                 \* connection_hourly.source_overflow_count
  batch,                    \* the batch of the tailer
  pc, active, counts, since, \* the tailer: the locals of a flush, a cleanup
  events, starts, errors    \* so far

tableVars == <<expires, captured, hourly, buckets, overflow>>
localVars == <<active, counts, since>>
vars == <<now, tableVars, batch, pc, localVars, events, starts, errors>>

PcValues == {"select", "counts", "commit", "clean_sessions", "clean_old"}

TypeOK ==
  /\ now \in 0 .. LastTime
  /\ expires \in [Emails -> Times \union {NoSession}]
  /\ captured \subseteq Events
  /\ hourly \in [Emails -> Nat]
  /\ buckets \in [Emails -> [Sources -> Nat]]
  /\ overflow \in [Emails -> Nat]
  /\ batch \in Seq(Events)
  /\ pc \in PcValues
  /\ active \subseteq Emails
  /\ counts \in [Emails -> Nat]
  /\ since \in Times
  /\ events \in 0 .. MaxEvents
  /\ starts \in 0 .. MaxStarts
  /\ errors \in 0 .. MaxErrors

Zeros == [e \in Emails |-> 0]

Init ==
  /\ now = 0
  /\ expires = [e \in Emails |-> NoSession]
  /\ captured = {}
  /\ hourly = Zeros /\ overflow = Zeros
  /\ buckets = [e \in Emails |-> [s \in Sources |-> 0]]
  /\ batch = <<>>
  /\ pc = "select"
  /\ active = {} /\ counts = Zeros /\ since = 0
  /\ events = 0 /\ starts = 0 /\ errors = 0

CapturedOf(e) == {ev \in captured : ev.email = e}

Forget == active' = {} /\ counts' = Zeros /\ since' = 0

-----------------------------------------------------------------------------
(* RecordConnectionEvents.                                                 *)

\* activeDebugSessions, at the time of the flush.
FlushActive ==
  /\ pc = "select"
  /\ batch # <<>>
  /\ active' = {e \in Emails : expires[e] > now}
  /\ pc' = "counts"
  /\ UNCHANGED <<now, tableVars, batch, counts, since, events, starts, errors>>

\* debugEventCounts.
FlushCounts ==
  /\ pc = "counts"
  /\ counts' = [e \in Emails |-> IF e \in active THEN Cardinality(CapturedOf(e)) ELSE 0]
  /\ pc' = "commit"
  /\ UNCHANGED <<now, tableVars, batch, active, since, events, starts, errors>>

\* The transaction, one event after the other.  sourceCounts caches the number
\* of a user's buckets once it was looked up; a new source becomes a bucket
\* while there is room and counts as overflow after that.
Buckets(t, e) == {s \in Sources : t.buckets[e][s] > 0}
CountSource(t, ev) ==
  LET e == ev.email
      current == IF t.cached[e] = Uncached THEN Cardinality(Buckets(t, e)) ELSE t.cached[e]
  IN  IF ev.source \in Buckets(t, e)
        THEN [t EXCEPT !.buckets[e][ev.source] = @ + 1]
      ELSE IF current >= SourceBucketCap
        THEN [t EXCEPT !.overflow[e] = @ + 1, !.cached[e] = current]
        ELSE [t EXCEPT !.buckets[e][ev.source] = 1, !.cached[e] = current + 1]

\* Mutant of Capture: captured events are not counted.
CaptureUncounted(t, ev) ==
  IF ev.email \in active /\ t.counts[ev.email] < DebugEventCap
  THEN [t EXCEPT !.captured = @ \union {ev}]
  ELSE t
Capture(t, ev) ==
  IF ev.email \in active /\ t.counts[ev.email] < DebugEventCap
  THEN [t EXCEPT !.captured = @ \union {ev}, !.counts[ev.email] = @ + 1]
  ELSE t
RecordOne(t, ev) == Capture(CountSource([t EXCEPT !.hourly[ev.email] = @ + 1], ev), ev)

FlushCommit ==
  /\ pc = "commit"
  /\ LET t == FoldLeft(RecordOne,
                [hourly |-> hourly, buckets |-> buckets, overflow |-> overflow,
                 captured |-> captured, counts |-> counts,
                 cached |-> [e \in Emails |-> Uncached]],
                batch)
     IN  /\ hourly' = t.hourly
         /\ buckets' = t.buckets
         /\ overflow' = t.overflow
         /\ captured' = t.captured
  /\ batch' = <<>>
  /\ pc' = "select"
  /\ Forget
  /\ UNCHANGED <<now, expires, events, starts, errors>>

-----------------------------------------------------------------------------
(* CleanupConnectionDiagnostics.  The aggregates of the hour are younger   *)
(* than the retention and are left alone.                                  *)

Expired(t) == {e \in Emails : expires[e] # NoSession /\ expires[e] <= t}

\* Mutant of CleanEvents: the sessions go before their events.
CleanSessionsFirst ==
  /\ pc = "select"
  /\ since' = now
  /\ expires' = [e \in Emails |-> IF e \in Expired(now) THEN NoSession ELSE expires[e]]
  /\ pc' = "clean_sessions"
  /\ UNCHANGED <<now, captured, hourly, buckets, overflow, batch, active, counts, events, starts, errors>>

CleanEvents ==
  /\ pc = "select"
  /\ since' = now
  /\ captured' = {ev \in captured : ev.email \notin Expired(now)}
  /\ pc' = "clean_sessions"
  /\ UNCHANGED <<now, expires, hourly, buckets, overflow, batch, active, counts, events, starts, errors>>

CleanSessions ==
  /\ pc = "clean_sessions"
  /\ expires' = [e \in Emails |-> IF e \in Expired(since) THEN NoSession ELSE expires[e]]
  /\ pc' = "clean_old"
  /\ UNCHANGED <<now, captured, hourly, buckets, overflow, batch, localVars, events, starts, errors>>

CleanOld ==
  /\ pc = "clean_old"
  /\ captured' = {ev \in captured : ev.ts >= since - Retention}
  /\ pc' = "select"
  /\ Forget
  /\ UNCHANGED <<now, expires, hourly, buckets, overflow, batch, events, starts, errors>>

\* A statement fails: the flush is rolled back and its batch kept, the cleanup
\* ends where it stands.
StatementFails ==
  /\ pc # "select"
  /\ errors < MaxErrors
  /\ errors' = errors + 1
  /\ pc' = "select"
  /\ Forget
  /\ UNCHANGED <<now, tableVars, batch, events, starts>>

Flush == FlushActive \/ FlushCounts \/ FlushCommit
Cleanup == CleanEvents \/ CleanSessions \/ CleanOld

-----------------------------------------------------------------------------
(* HTTP requests and the world.                                            *)

\* debug/start: an upsert of the session's row.
LengthAsAsked(d) == IF d <= 0 THEN DefaultDuration ELSE d  \* Mutant: no maximum.
Length(d) ==
  LET asked == IF d <= 0 THEN DefaultDuration ELSE d IN
    IF asked > SessionMax THEN SessionMax ELSE asked
StartDebugSession(e) ==
  /\ starts < MaxStarts
  /\ starts' = starts + 1
  /\ \E d \in Durations : expires' = [expires EXCEPT ![e] = now + Length(d)]
  /\ UNCHANGED <<now, captured, hourly, buckets, overflow, batch, pc, localVars, events, errors>>

\* debug/stop: the session and its events, in one transaction.
StopDebugSession(e) ==
  /\ expires' = [expires EXCEPT ![e] = NoSession]
  /\ captured' = captured \ CapturedOf(e)
  /\ UNCHANGED <<now, hourly, buckets, overflow, batch, pc, localVars, events, starts, errors>>

\* A user connects; the tailer reads it between two flushes.
Connect(e) ==
  /\ pc = "select"
  /\ events < MaxEvents
  /\ events' = events + 1
  /\ \E s \in Sources :
       batch' = Append(batch, [id |-> events + 1, email |-> e, source |-> s, ts |-> now])
  /\ UNCHANGED <<now, tableVars, pc, localVars, starts, errors>>

TimePasses ==
  /\ now < LastTime
  /\ now' = now + 1
  /\ UNCHANGED <<tableVars, batch, pc, localVars, events, starts, errors>>

Next ==
  \/ Flush \/ Cleanup \/ StatementFails
  \/ \E e \in Emails : StartDebugSession(e) \/ StopDebugSession(e) \/ Connect(e)
  \/ TimePasses

Spec == Init /\ [][Next]_vars

\* The tailer's select passes over no ticker for ever, and what it started it
\* finishes.
FairSpec == Spec /\ SF_vars(CleanEvents) /\ WF_vars(pc # "select" /\ (Flush \/ Cleanup))

-----------------------------------------------------------------------------
(* Properties.                                                             *)

\* A session never holds more events than the cap, although the events were
\* counted before the transaction began and sessions start and stop meanwhile.
DebugCapHolds == \A e \in Emails : Cardinality(CapturedOf(e)) <= DebugEventCap

\* Every connection is counted under its source or as overflow, and overflow
\* begins only when the buckets are used up.
SourcesAccounted ==
  \A e \in Emails :
    LET used == {s \in Sources : buckets[e][s] > 0} IN
      /\ hourly[e] = overflow[e] + FoldFunctionOnSet(+, 0, buckets[e], Sources)
      /\ Cardinality(used) <= SourceBucketCap
      /\ overflow[e] > 0 => Cardinality(used) = SourceBucketCap

\* What is kept stays within its limits, and what the limits keep out is counted.
LimitsHold == DebugCapHolds /\ SourcesAccounted

\* What a session captured does not outlive its end for long, unless the
\* session is started again.
ExpiredIsCleaned ==
  \A e \in Emails :
    (e \in Expired(now) /\ CapturedOf(e) # {})
      ~> (CapturedOf(e) = {} \/ expires[e] > now)
=============================================================================
