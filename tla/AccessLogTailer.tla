--------------------------- MODULE AccessLogTailer ---------------------------
(***************************************************************************)
(* The tailer of Xray's access log (internal/diagnostics/tailer.go), a     *)
(* goroutine of ovpn-agent.  It reads what Xray appended since the offset  *)
(* of its last read, persists the new offset, parses the lines that are    *)
(* complete and collects them in a batch, which it flushes into SQLite in  *)
(* one transaction when it is full or a ticker fires.  A log that is too   *)
(* long is truncated to nothing.  The agent may stop and the database may  *)
(* fail between any two steps; Xray writes all the time.                   *)
(*                                                                         *)
(* A line of the log is three parts: the first holds its timestamp and     *)
(* source, the last its email and the newline.  That is as fine as bytes   *)
(* need be to tell a whole line from a cut one, and one cut from another.  *)
(* Sizes and offsets are counted in parts.                                 *)
(*                                                                         *)
(* ConnectionDiagnostics is the other half of the goroutine: the names of  *)
(* this module differ from its names, so that one module can extend both.  *)
(***************************************************************************)
EXTENDS Integers, FiniteSets, Sequences, SequencesExt

CONSTANTS
  MaxBytes,                 \* Tailer.MaxBytes: a longer log is truncated
  BatchSize,                \* Tailer.BatchSize
  Faults,                   \* what may fail, see below
  MaxLines,                 \* bound: lines that Xray writes
  MaxFaults                 \* bound: faults that happen

\* "agent_stop": the agent dies or is stopped; at ctx.Done the last flush runs
\* under the cancelled context, so that the batch is lost as in a crash.
\* "meta": reading or writing the offset fails.  "truncate": truncating the
\* log fails.  "record": a flush fails.  "log_lost": the file is replaced by
\* an empty one.
AllFaults == {"agent_stop", "meta", "truncate", "record", "log_lost"}

ASSUME TailerBounds ==
  /\ {MaxBytes, BatchSize, MaxLines} \subseteq Nat \ {0}
  /\ MaxFaults \in Nat
  /\ Faults \subseteq AllFaults

Lines == 1 .. MaxLines
First == 1
EndOfLine == 3
Parts == Lines \X (First .. EndOfLine)
LineOf(n) == [i \in First .. EndOfLine |-> <<n, i>>]
LinesIn(text) == {part[1] : part \in Range(text)}
Least(S) == CHOOSE x \in S : \A y \in S : x <= y
\* The one of S that k members do not exceed.
Nth(k, S) == CHOOSE x \in S : Cardinality({y \in S : y <= x}) = k

\* A connection event: the timestamp and the source of the line it begins
\* with, the destination and the email of the line it ends with.
LineEvents == Lines \X Lines
EventOf(n) == <<n, n>>

NoMeta == -1                \* connection_access_log_offset is not stored yet

VARIABLES
  file, written,            \* the log, and how many lines Xray has written
  metaOffset, recorded,     \* the database: the offset, events per line
  step,                     \* what the tailer is about to do
  initialized, offset, partial, \* the fields of Tailer
  size, chunk, parsed,      \* the locals of readNewEvents
  collected,                \* the batch, a local of Run
  dropped,                  \* history: lines that are dropped on purpose
  truncations, faults,      \* so far
  harm                      \* faults so far that may cost events: not "record"

dbVars == <<metaOffset, recorded>>
fieldVars == <<initialized, offset, partial>>
readVars == <<size, chunk, parsed>>
historyVars == <<dropped, truncations, faults, harm>>
tailerVars ==
  <<file, written, dbVars, step, fieldVars, readVars, collected, historyVars>>

Steps == {"select", "init", "open", "truncate", "reset_meta", "persist", "append", "flush"}

TailerTypeOK ==
  /\ file \in Seq(Parts)
  /\ written \in 0 .. MaxLines
  /\ metaOffset \in Nat \union {NoMeta}
  /\ recorded \in [LineEvents -> Nat]
  /\ step \in Steps
  /\ initialized \in BOOLEAN
  /\ offset \in Nat
  /\ partial \in Seq(Parts)
  /\ size \in Nat
  /\ chunk \in Seq(Parts)
  /\ parsed \in Seq(LineEvents)
  /\ collected \in Seq(LineEvents)
  /\ dropped \subseteq Lines
  /\ truncations \in Nat
  /\ faults \in 0 .. MaxFaults /\ harm \in 0 .. faults

TailerInit ==
  /\ file = <<>>
  /\ written = 0
  /\ metaOffset = NoMeta
  /\ recorded = [e \in LineEvents |-> 0]
  /\ step = "select"
  /\ initialized = FALSE /\ offset = 0 /\ partial = <<>>
  /\ size = 0 /\ chunk = <<>> /\ parsed = <<>>
  /\ collected = <<>>
  /\ dropped = {}
  /\ truncations = 0
  /\ faults = 0 /\ harm = 0

\* At most n parts of the file, from an offset that may be past its end.
Slice(start, n) ==
  [i \in 1 .. Least({n, Len(file) - start}) |-> file[start + i]]
Beyond(start) == Slice(start, Len(file))

Fault(kind) ==
  /\ kind \in Faults
  /\ faults < MaxFaults
  /\ faults' = faults + 1
  /\ harm' = IF kind = "record" THEN harm ELSE harm + 1

-----------------------------------------------------------------------------
(* readNewEvents.                                                          *)

\* The read ticker fires: Stat.
ReadTick ==
  /\ step = "select"
  /\ size' = Len(file)
  /\ step' = IF initialized THEN "open" ELSE "init"
  /\ UNCHANGED <<file, written, dbVars, fieldVars, chunk, parsed, collected, historyVars>>

\* Mutant of InitOffset: the stored offset is taken as it is.
InitOffsetUnchecked ==
  /\ step = "init"
  /\ offset' = metaOffset
  /\ initialized' = TRUE
  /\ dropped' = dropped
  /\ step' = "open"
  /\ UNCHANGED <<file, written, dbVars, partial, readVars, collected, truncations, faults, harm>>

\* initOffset: go on where the last agent stopped, unless the file is shorter;
\* what is there before the first start is skipped.
InitOffset ==
  /\ step = "init"
  /\ offset' = IF metaOffset \in 0 .. size THEN metaOffset ELSE size
  /\ initialized' = TRUE
  /\ dropped' = IF metaOffset = NoMeta THEN dropped \union LinesIn(Slice(0, size))
                ELSE dropped
  /\ step' = "open"
  /\ UNCHANGED <<file, written, dbVars, partial, readVars, collected, truncations, faults, harm>>

\* A file that shrank is read from its start; at most MaxBytes + 1 are read.
Open ==
  /\ step = "open"
  /\ LET start == IF size < offset THEN 0 ELSE offset IN
       /\ chunk' = IF size = start THEN <<>>
                   ELSE Slice(start, MaxBytes + 1)
       /\ offset' = start + Len(chunk')
       /\ step' = IF size > MaxBytes THEN "truncate"
                  ELSE IF size = start THEN "select" ELSE "persist"
  /\ partial' = IF size < offset THEN <<>> ELSE partial
  /\ UNCHANGED <<file, written, dbVars, initialized, size, parsed, collected, historyVars>>

\* truncateScratchLog, up to its SetMeta.
Truncate ==
  /\ step = "truncate"
  /\ file' = <<>>
  /\ offset' = 0
  /\ partial' = <<>>
  /\ dropped' = dropped \union LinesIn(Beyond(offset))
  /\ truncations' = truncations + 1
  /\ step' = "reset_meta"
  /\ UNCHANGED <<written, dbVars, initialized, readVars, collected, faults, harm>>

ResetMeta ==
  /\ step = "reset_meta"
  /\ metaOffset' = 0
  /\ step' = IF chunk = <<>> THEN "select" ELSE "persist"
  /\ UNCHANGED <<file, written, recorded, fieldVars, readVars, collected, historyVars>>

\* parseChunk: the text is split after its newlines; what follows the last one
\* waits for more, and a line that lacks its first part does not parse.
Newlines(text) == {i \in DOMAIN text : text[i][2] = EndOfLine}
\* Mutant of Rest: a line that is not complete is forgotten.
RestForgotten(text) == <<>>
Rest(text) ==
  LET ends == Newlines(text) IN
    IF ends = {} THEN text
    ELSE SubSeq(text, (CHOOSE i \in ends : \A j \in ends : j <= i) + 1, Len(text))
Begins(text, i) == i = 1 \/ (i - 1) \in Newlines(text)
Starts(text) ==
  {i \in DOMAIN text : /\ Begins(text, i)
                       /\ text[i][2] = First
                       /\ \E j \in Newlines(text) : i < j}
EndOf(text, i) == Least({j \in Newlines(text) : i < j})
Parse(text) ==
  [k \in 1 .. Cardinality(Starts(text)) |->
     LET i == Nth(k, Starts(text)) IN <<text[i][1], text[EndOf(text, i)][1]>>]

\* SetMeta of the new offset, and only then the chunk is parsed.
Persist ==
  /\ step = "persist"
  /\ metaOffset' = offset
  /\ parsed' = Parse(partial \o chunk)
  /\ partial' = Rest(partial \o chunk)
  /\ chunk' = <<>>
  /\ step' = "append"
  /\ UNCHANGED <<file, written, recorded, initialized, offset, size, collected, historyVars>>

\* GetMeta, SetMeta or os.Truncate fails: readNewEvents returns, and a chunk
\* that was read is gone although the offset is past it.
ReadFails ==
  /\ \/ step \in {"init", "reset_meta", "persist"} /\ Fault("meta")
     \/ step = "truncate" /\ Fault("truncate")
  /\ chunk' = <<>>
  /\ step' = "select"
  /\ UNCHANGED <<file, written, dbVars, fieldVars, size, parsed, collected, dropped, truncations>>

-----------------------------------------------------------------------------
(* The rest of Run.                                                        *)

AppendEvent ==
  /\ step = "append"
  /\ parsed # <<>>
  /\ collected' = Append(collected, Head(parsed))
  /\ parsed' = Tail(parsed)
  /\ step' = IF Len(collected') >= BatchSize THEN "flush" ELSE "append"
  /\ UNCHANGED <<file, written, dbVars, fieldVars, size, chunk, historyVars>>

ReadDone ==
  /\ step = "append"
  /\ parsed = <<>>
  /\ step' = "select"
  /\ UNCHANGED <<file, written, dbVars, fieldVars, readVars, collected, historyVars>>

\* flush, because the ticker fired or the batch is full.
Resume == IF step = "flush" THEN "append" ELSE "select"
Occurrences(e) == Cardinality({i \in DOMAIN collected : collected[i] = e})

\* Mutants of FlushBatch and FlushFails: the batch is not emptied, or always.
FlushAndKeep ==
  /\ step \in {"select", "flush"}
  /\ collected # <<>>
  /\ recorded' = [e \in LineEvents |-> recorded[e] + Occurrences(e)]
  /\ step' = Resume
  /\ UNCHANGED <<file, written, metaOffset, fieldVars, readVars, collected, historyVars>>
FlushFailsForGood ==
  /\ step \in {"select", "flush"}
  /\ collected # <<>>
  /\ Fault("record")
  /\ collected' = <<>>
  /\ step' = Resume
  /\ UNCHANGED <<file, written, dbVars, fieldVars, readVars, dropped, truncations>>

FlushBatch ==
  /\ step \in {"select", "flush"}
  /\ collected # <<>>
  /\ recorded' = [e \in LineEvents |-> recorded[e] + Occurrences(e)]
  /\ collected' = <<>>
  /\ step' = Resume
  /\ UNCHANGED <<file, written, metaOffset, fieldVars, readVars, historyVars>>

\* The transaction is rolled back, the batch kept.
FlushFails ==
  /\ step \in {"select", "flush"}
  /\ collected # <<>>
  /\ Fault("record")
  /\ step' = Resume
  /\ UNCHANGED <<file, written, dbVars, fieldVars, readVars, collected, dropped, truncations>>

Read == ReadTick \/ InitOffset \/ Open \/ Truncate \/ ResetMeta \/ Persist \/ AppendEvent \/ ReadDone

-----------------------------------------------------------------------------
(* The world.                                                              *)

\* Xray appends a line.
XrayWrites ==
  /\ written < MaxLines
  /\ written' = written + 1
  /\ file' = file \o LineOf(written + 1)
  /\ UNCHANGED <<dbVars, step, fieldVars, readVars, collected, historyVars>>

\* The agent stops and is started again.
AgentStops ==
  /\ Fault("agent_stop")
  /\ step' = "select"
  /\ initialized' = FALSE /\ offset' = 0 /\ partial' = <<>>
  /\ size' = 0 /\ chunk' = <<>> /\ parsed' = <<>>
  /\ collected' = <<>>
  /\ UNCHANGED <<file, written, dbVars, dropped, truncations>>

LogLost ==
  /\ Fault("log_lost")
  /\ file' = <<>>
  /\ UNCHANGED <<written, dbVars, step, fieldVars, readVars, collected, dropped, truncations>>

World == XrayWrites \/ AgentStops \/ LogLost

TailerNext == Read \/ ReadFails \/ FlushBatch \/ FlushFails \/ World

TailerSpec == TailerInit /\ [][TailerNext]_tailerVars

\* Run's select takes a ready ticker at random, so none is passed over for
\* ever; the rest of the loop runs to its end.
FairTailerSpec == TailerSpec /\ WF_tailerVars(Read) /\ SF_tailerVars(FlushBatch)

-----------------------------------------------------------------------------
(* Properties.                                                             *)

\* No line is counted twice: an agent that starts again reads no line that an
\* earlier one recorded, a flush that failed and is repeated records once.
NothingTwice ==
  \A e, f \in LineEvents :
    /\ recorded[e] <= 1
    /\ e[2] = f[2] /\ recorded[e] > 0 /\ recorded[f] > 0 => e = f

\* The lines that still are on their way to the database.
Has(text, n) == \E i \in 1 .. Len(text) - 2 : SubSeq(text, i, i + 2) = LineOf(n)
OnTheWay ==
  {n \in Lines :
     \/ Has(partial \o chunk \o Beyond(offset), n)
     \/ EventOf(n) \in Range(parsed) \union Range(collected)}
Lost ==
  {n \in 1 .. written : recorded[EventOf(n)] = 0} \ (OnTheWay \union dropped)

\* While nothing but flushes fails, reading and batching lose no line of their
\* own: a truncation costs, besides what lies beyond the bytes that were read,
\* the line that is cut before them and the one that follows the cut.
LossIsBounded ==
  harm = 0 /\ initialized => Cardinality(Lost) <= 2 * truncations

\* A line that lies behind the offset is recorded in the end, and a failing
\* flush only delays it, unless the log is truncated.
Unread(n) == initialized /\ Has(Beyond(offset), n)
UnreadIsRecorded ==
  \A n \in Lines : Unread(n) ~> (recorded[EventOf(n)] > 0 \/ truncations > 0 \/ harm > 0)
=============================================================================
