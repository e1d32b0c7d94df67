--------------------------- MODULE AgentEnforcement ---------------------------
(***************************************************************************)
(* How ovpn-agent decides who may use the live Xray inbounds.              *)
(*                                                                         *)
(* The agent's database mirrors two tables of the operator's machine: the  *)
(* quota policies and the user policies (manual enablement and expiry).    *)
(* It keeps a third one itself, quota_state: who is blocked by the quota.  *)
(* Xray's memory holds the users that really get in.  Three kinds of       *)
(* goroutines bring the tables and Xray together, one statement or API     *)
(* call at a time and with no lock across them:                            *)
(*   - the collector, after each collection: a quota pass and then, unless *)
(*     that failed, an expiry pass (stats.Collector.CollectOnce);          *)
(*   - main, once at startup: an expiry pass, before HTTP is served;       *)
(*   - one goroutine per HTTP request: /quota/sync, /users/sync,           *)
(*     /quota/reset, /runtime/user/add and /runtime/user/remove.           *)
(* The collector's mutex makes the cycles of the ticker and of POST        *)
(* /collect one process; TrafficCollector models that mutex.               *)
(***************************************************************************)
EXTENDS Integers, FiniteSets

CONSTANTS
  Users,                    \* numbers: ListQuotaPolicies orders by email
  Inbounds,                 \* the tags of the server's enabled inbounds
  Requests,                 \* goroutines that serve HTTP requests
  RequestKinds,             \* the requests that may arrive, see below
  Faults,                   \* what may fail, see below
  MaxUsage,                 \* bound: usage counts from 0 to MaxUsage
  MaxRequests,              \* bound: requests that arrive
  MaxFaults                 \* bound: faults that happen

AllRequestKinds ==
  {"quota_sync", "users_sync", "quota_reset", "runtime_add", "runtime_remove",
   "persist_config"}

\* "xray_down": Xray stops and later starts from config.json.
\* "api_error": a call of Xray's API fails.  "agent_crash": the agent dies.
\* "store_error": a statement fails (a full disk, a cancelled request).
AllFaults == {"xray_down", "api_error", "agent_crash", "store_error"}

ASSUME SetsAssumption ==
  /\ Users \subseteq Nat
  /\ RequestKinds \subseteq AllRequestKinds
  /\ Faults \subseteq AllFaults

ASSUME BoundsAssumption ==
  /\ MaxUsage \in Nat \ {0}
  /\ {MaxRequests, MaxFaults} \subseteq Nat

Collector == "collector"
Startup == "startup"
Procs == {Collector, Startup} \union Requests

ASSUME ProcsAssumption == {Collector, Startup} \intersect Requests = {}

\* A row of the policy tables and a membership of Xray: a user at an inbound.
\* syncQuotaPolicy and syncUserPolicies send every user at every inbound.
Rows == Users \X Inbounds
RowsOf(S) == S \X Inbounds
NoRow == <<>>

\* quotaPolicy[u]: no rows, rows with quota_enabled = 0, or the quota.
NoPolicy == -1
QuotaOff == 0
QuotaValues == {NoPolicy, QuotaOff} \union 1 .. MaxUsage

\* userPolicy[u]: no rows, or whether the user is effectively enabled now.
UserValues == {"none", "active", "ended"}

VARIABLES
  (* Xray *)
  xrayUp,
  runtime,                  \* the rows that are live
  config,                   \* the users in config.json
  (* the agent's database *)
  quotaPolicy, userPolicy,
  blocked,                  \* the users whose quota_state row says blocked
  usage,                    \* usage[u]: billed in the rolling window
  (* the goroutines of the agent *)
  pc,
  policiesSeen, statesSeen, \* what a quota pass has read
  adds, removes,            \* the rows a process has yet to add, to remove
  cur,                      \* the row whose user's state is to be persisted
  failed,                   \* firstErr of the pass is not nil
  (* the world *)
  pending,                  \* users with traffic that is not yet billed
  requests, faults          \* requests and faults so far

xrayVars == <<xrayUp, runtime, config>>
policyVars == <<quotaPolicy, userPolicy>>
dbVars == <<policyVars, blocked, usage>>
readVars == <<policiesSeen, statesSeen>>
localVars == <<readVars, adds, removes, cur, failed>>
worldVars == <<pending, requests, faults>>
vars == <<xrayVars, dbVars, pc, localVars, worldVars>>

PcValues ==
  {"idle", "q_policies", "q_states", "q_usage", "q_rows", "q_block", "q_unblock",
   "e_policies", "e_rows", "reset_policies", "reset_user", "reset_rows",
   "add_policy", "add_clear", "add_user", "add_row", "persist"}

TypeOK ==
  /\ xrayUp \in BOOLEAN
  /\ runtime \subseteq Rows
  /\ config \subseteq Users
  /\ quotaPolicy \in [Users -> QuotaValues]
  /\ userPolicy \in [Users -> UserValues]
  /\ blocked \subseteq Users
  /\ usage \in [Users -> 0 .. MaxUsage]
  /\ pc \in [Procs -> PcValues]
  /\ policiesSeen \in [Procs -> [Users -> QuotaValues]]
  /\ statesSeen \in [Procs -> SUBSET Users]
  /\ adds \in [Procs -> SUBSET Rows]
  /\ removes \in [Procs -> SUBSET Rows]
  /\ cur \in [Procs -> Rows \union {NoRow}]
  /\ failed \in [Procs -> BOOLEAN]
  /\ pending \subseteq Users
  /\ requests \in 0 .. MaxRequests
  /\ faults \in 0 .. MaxFaults

NothingSeen == [u \in Users |-> NoPolicy]

\* A server that was just deployed: /users/sync mirrored some users, /quota/sync
\* those that are active, and the agent starts.  If it was deployed before, some
\* are still blocked, even by a quota that is off now; config.json has the others.
Init ==
  /\ userPolicy \in [Users -> UserValues]
  /\ quotaPolicy \in [Users -> QuotaValues]
  /\ \A u \in Users : quotaPolicy[u] # NoPolicy <=> userPolicy[u] = "active"
  /\ blocked \in SUBSET {u \in Users : userPolicy[u] = "active"}
  /\ config = {u \in Users : userPolicy[u] = "active"} \ blocked
  /\ xrayUp = TRUE
  /\ runtime = RowsOf(config)
  /\ usage = [u \in Users |-> 0]
  /\ pc = [p \in Procs |-> IF p = Startup THEN "e_policies" ELSE "idle"]
  /\ policiesSeen = [p \in Procs |-> NothingSeen]
  /\ statesSeen = [p \in Procs |-> {}]
  /\ adds = [p \in Procs |-> {}]
  /\ removes = [p \in Procs |-> {}]
  /\ cur = [p \in Procs |-> NoRow]
  /\ failed = [p \in Procs |-> FALSE]
  /\ pending = {}
  /\ requests = 0
  /\ faults = 0

Goto(p, label) == pc' = [pc EXCEPT ![p] = label]

\* Where p's work is done, its locals are gone.
Forget(p) ==
  /\ policiesSeen' = [policiesSeen EXCEPT ![p] = NothingSeen]
  /\ statesSeen' = [statesSeen EXCEPT ![p] = {}]
  /\ adds' = [adds EXCEPT ![p] = {}]
  /\ removes' = [removes EXCEPT ![p] = {}]
  /\ cur' = [cur EXCEPT ![p] = NoRow]
  /\ failed' = [failed EXCEPT ![p] = FALSE]
Return(p) == Goto(p, "idle") /\ Forget(p)

Fault(kind) ==
  /\ kind \in Faults
  /\ faults < MaxFaults
  /\ faults' = faults + 1
  /\ UNCHANGED <<pending, requests>>
NoFault == UNCHANGED worldVars

-----------------------------------------------------------------------------
(* runtimeGateway: one call of Xray's API at a time, under runtimeMu.      *)

\* AddUser of a user that is there already is a success.
RuntimeAdd(row) ==
  /\ xrayUp
  /\ runtime' = runtime \union {row}
  /\ UNCHANGED <<xrayUp, config>>
  /\ NoFault

RuntimeRemove(row) ==
  /\ xrayUp
  /\ row \in runtime
  /\ runtime' = runtime \ {row}
  /\ UNCHANGED <<xrayUp, config>>
  /\ NoFault

\* RemoveUser of a user that is not there is an error, "not found".
RuntimeMissing(row) ==
  /\ xrayUp
  /\ row \notin runtime
  /\ UNCHANGED xrayVars
  /\ NoFault

RuntimeUnavailable ==
  /\ UNCHANGED xrayVars
  /\ \/ ~xrayUp /\ NoFault
     \/ xrayUp /\ Fault("api_error")

-----------------------------------------------------------------------------
(* QuotaEnforcer.Enforce: three reads, and then one row after the other.   *)

QuotaReadPolicies(p) ==
  /\ pc[p] = "q_policies"
  /\ policiesSeen' = [policiesSeen EXCEPT ![p] = quotaPolicy]
  /\ Goto(p, "q_states")
  /\ NoFault
  /\ UNCHANGED <<xrayVars, dbVars, statesSeen, adds, removes, cur, failed>>

QuotaReadStates(p) ==
  /\ pc[p] = "q_states"
  /\ statesSeen' = [statesSeen EXCEPT ![p] = blocked]
  /\ Goto(p, "q_usage")
  /\ NoFault
  /\ UNCHANGED <<xrayVars, dbVars, policiesSeen, adds, removes, cur, failed>>

\* What the three reads say is to be done; every other row is skipped, the
\* rows of a user that is blocked and still over its quota among them.
OverQuota(policy, used) == policy > QuotaOff /\ used >= policy
\* Mutant of ToUnblock: whoever is within its quota is let in, blocked or not.
ToUnblockAll(policies, states, used) ==
  {u \in Users : policies[u] # NoPolicy /\ ~OverQuota(policies[u], used[u])}
ToUnblock(policies, states, used) ==
  {u \in states : policies[u] # NoPolicy /\ ~OverQuota(policies[u], used[u])}
ToBlock(policies, states, used) ==
  {u \in Users \ states : OverQuota(policies[u], used[u])}

QuotaReadUsage(p) ==
  /\ pc[p] = "q_usage"
  /\ adds' = [adds EXCEPT ![p] =
                RowsOf(ToUnblock(policiesSeen[p], statesSeen[p], usage))]
  /\ removes' = [removes EXCEPT ![p] =
                   RowsOf(ToBlock(policiesSeen[p], statesSeen[p], usage))]
  /\ policiesSeen' = [policiesSeen EXCEPT ![p] = NothingSeen]
  /\ statesSeen' = [statesSeen EXCEPT ![p] = {}]
  /\ Goto(p, "q_rows")
  /\ NoFault
  /\ UNCHANGED <<xrayVars, dbVars, cur, failed>>

\* ORDER BY email.
IsNext(p, row) ==
  /\ row \in adds[p] \union removes[p]
  /\ \A other \in adds[p] \union removes[p] : row[1] <= other[1]
RowDone(p, row) ==
  /\ adds' = [adds EXCEPT ![p] = @ \ {row}]
  /\ removes' = [removes EXCEPT ![p] = @ \ {row}]

\* Mutant of QuotaAddRow: a user that is there already is an error.
QuotaAddRowOnce(p) ==
  /\ pc[p] = "q_rows"
  /\ \E row \in adds[p] :
       /\ IsNext(p, row)
       /\ RowDone(p, row)
       /\ RuntimeAdd(row)
       /\ IF row \in runtime
          THEN failed' = [failed EXCEPT ![p] = TRUE] /\ UNCHANGED <<pc, cur>>
          ELSE cur' = [cur EXCEPT ![p] = row] /\ Goto(p, "q_unblock") /\ UNCHANGED failed
  /\ UNCHANGED <<dbVars, readVars>>

\* The runtime half of a row succeeds; its database half is next.
QuotaAddRow(p) ==
  /\ pc[p] = "q_rows"
  /\ \E row \in adds[p] :
       /\ IsNext(p, row)
       /\ RuntimeAdd(row)
       /\ RowDone(p, row)
       /\ cur' = [cur EXCEPT ![p] = row]
  /\ Goto(p, "q_unblock")
  /\ UNCHANGED <<dbVars, readVars, failed>>

QuotaRemoveRow(p) ==
  /\ pc[p] = "q_rows"
  /\ \E row \in removes[p] :
       /\ IsNext(p, row)
       /\ RuntimeRemove(row)
       /\ RowDone(p, row)
       /\ cur' = [cur EXCEPT ![p] = row]
  /\ Goto(p, "q_block")
  /\ UNCHANGED <<dbVars, readVars, failed>>

\* Mutant of QuotaRowFails: the state is persisted although Xray was not told.
QuotaRowFailsUnnoticed(p) ==
  /\ pc[p] = "q_rows"
  /\ \E row \in adds[p] \union removes[p] :
       /\ IsNext(p, row)
       /\ RuntimeUnavailable \/ (row \in removes[p] /\ RuntimeMissing(row))
       /\ RowDone(p, row)
       /\ cur' = [cur EXCEPT ![p] = row]
       /\ Goto(p, IF row \in adds[p] THEN "q_unblock" ELSE "q_block")
  /\ UNCHANGED <<dbVars, readVars, failed>>

\* It fails: the row is given up and the error kept; the pass goes on.  Any
\* error of RemoveUser counts, "not found" included.
QuotaRowFails(p) ==
  /\ pc[p] = "q_rows"
  /\ \E row \in adds[p] \union removes[p] :
       /\ IsNext(p, row)
       /\ RuntimeUnavailable \/ (row \in removes[p] /\ RuntimeMissing(row))
       /\ RowDone(p, row)
  /\ failed' = [failed EXCEPT ![p] = TRUE]
  /\ UNCHANGED <<dbVars, pc, readVars, cur>>

\* SetQuotaBlocked, after the runtime half.
QuotaPersist(p) ==
  /\ pc[p] \in {"q_block", "q_unblock"}
  /\ blocked' = IF pc[p] = "q_block" THEN blocked \union {cur[p][1]}
                                     ELSE blocked \ {cur[p][1]}
  /\ cur' = [cur EXCEPT ![p] = NoRow]
  /\ Goto(p, "q_rows")
  /\ NoFault
  /\ UNCHANGED <<xrayVars, policyVars, usage, readVars, adds, removes, failed>>

QuotaPersistFails(p) ==
  /\ pc[p] \in {"q_block", "q_unblock"}
  /\ Fault("store_error")
  /\ cur' = [cur EXCEPT ![p] = NoRow]
  /\ failed' = [failed EXCEPT ![p] = TRUE]
  /\ Goto(p, "q_rows")
  /\ UNCHANGED <<xrayVars, dbVars, readVars, adds, removes>>

\* Enforce returns.  CollectOnce goes on to the expiry pass if it succeeded;
\* /quota/sync answers the request either way.
QuotaPassEnds(p) ==
  /\ pc[p] = "q_rows"
  /\ adds[p] \union removes[p] = {}
  /\ IF p = Collector /\ ~failed[p] THEN Goto(p, "e_policies") ELSE Goto(p, "idle")
  /\ Forget(p)
  /\ NoFault
  /\ UNCHANGED <<xrayVars, dbVars>>

-----------------------------------------------------------------------------
(* ExpiryEnforcer.Enforce.                                                 *)

ExpiryReadPolicies(p) ==
  /\ pc[p] = "e_policies"
  /\ removes' = [removes EXCEPT ![p] = RowsOf({u \in Users : userPolicy[u] = "ended"})]
  /\ Goto(p, "e_rows")
  /\ NoFault
  /\ UNCHANGED <<xrayVars, dbVars, readVars, adds, cur, failed>>

\* Mutant of ExpiryRow: a row that is not there ends the pass.
ExpiryRowStrict(p) ==
  /\ pc[p] = "e_rows"
  /\ \E row \in removes[p] :
       /\ IsNext(p, row)
       /\ \/ RuntimeRemove(row) /\ RowDone(p, row) /\ UNCHANGED <<pc, readVars, cur, failed>>
          \/ (RuntimeMissing(row) \/ RuntimeUnavailable) /\ Return(p)
  /\ UNCHANGED dbVars

\* Here a user that is not there is as good as removed; the errors of a pass
\* are not acted on.
ExpiryRow(p) ==
  /\ pc[p] = "e_rows"
  /\ \E row \in removes[p] :
       /\ IsNext(p, row)
       /\ RuntimeRemove(row) \/ RuntimeMissing(row) \/ RuntimeUnavailable
       /\ RowDone(p, row)
  /\ UNCHANGED <<dbVars, pc, readVars, cur, failed>>

ExpiryPassEnds(p) ==
  /\ pc[p] = "e_rows"
  /\ removes[p] = {}
  /\ Return(p)
  /\ NoFault
  /\ UNCHANGED <<xrayVars, dbVars>>

\* A read of a pass fails: the pass is over.
ReadFails(p) ==
  /\ pc[p] \in {"q_policies", "q_states", "q_usage", "e_policies"}
  /\ Fault("store_error")
  /\ Return(p)
  /\ UNCHANGED <<xrayVars, dbVars>>

Pass(p) ==
  \/ QuotaReadPolicies(p) \/ QuotaReadStates(p) \/ QuotaReadUsage(p)
  \/ QuotaAddRow(p) \/ QuotaRemoveRow(p) \/ QuotaRowFails(p)
  \/ QuotaPersist(p) \/ QuotaPersistFails(p) \/ QuotaPassEnds(p)
  \/ ExpiryReadPolicies(p) \/ ExpiryRow(p) \/ ExpiryPassEnds(p)
  \/ ReadFails(p)

-----------------------------------------------------------------------------
(* Collector.CollectOnce, seen from here: the traffic is billed and the    *)
(* passes run.  When Xray cannot be asked, the cycle ends before them.     *)

\* Mutant of Bill: both directions count twice.
BillTwice(S) ==
  /\ usage' = [u \in Users |-> IF u \in S THEN usage[u] + 2 ELSE usage[u]]
  /\ pending' = pending \ S

Bill(S) ==
  /\ usage' = [u \in Users |-> IF u \in S THEN usage[u] + 1 ELSE usage[u]]
  /\ pending' = pending \ S

Collect ==
  /\ pc[Collector] = "idle"
  /\ xrayUp
  /\ Bill(pending)
  /\ Goto(Collector, "q_policies")
  /\ UNCHANGED <<xrayVars, policyVars, blocked, localVars, requests, faults>>

\* A statement fails after some users were billed: the cycle ends there.
CollectFails ==
  /\ pc[Collector] = "idle"
  /\ xrayUp
  /\ "store_error" \in Faults /\ faults < MaxFaults
  /\ faults' = faults + 1
  /\ \E S \in SUBSET pending : Bill(S)
  /\ UNCHANGED <<xrayVars, policyVars, blocked, pc, localVars, requests>>

-----------------------------------------------------------------------------
(* HTTP requests.  They are served once main's expiry pass is over.  The   *)
(* first statement of a handler is part of the request's arrival; one that *)
(* fails has no effect at all.                                             *)

Arrives(p, kind) ==
  /\ kind \in RequestKinds
  /\ pc[p] = "idle"
  /\ pc[Startup] = "idle"
  /\ requests < MaxRequests
  /\ requests' = requests + 1
  /\ UNCHANGED <<pending, faults>>

\* /quota/sync: ReplaceQuotaPolicies, one transaction that also prunes the
\* states of users without rows; then a quota pass.
QuotaSync(p) ==
  /\ Arrives(p, "quota_sync")
  /\ \E policies \in [Users -> QuotaValues] :
       /\ quotaPolicy' = policies
       /\ blocked' = {u \in blocked : policies[u] # NoPolicy}
  /\ Goto(p, "q_policies")
  /\ UNCHANGED <<xrayVars, userPolicy, usage, localVars>>

\* /users/sync: ReplaceUserPolicies, then an expiry pass.
UsersSync(p) ==
  /\ Arrives(p, "users_sync")
  /\ userPolicy' \in [Users -> UserValues]
  /\ Goto(p, "e_policies")
  /\ UNCHANGED <<xrayVars, quotaPolicy, blocked, usage, localVars>>

\* /quota/reset: the block is lifted, and a user that has policies and is
\* effectively enabled is added at each inbound until one call fails.
QuotaReset(p) ==
  /\ Arrives(p, "quota_reset")
  /\ \E u \in Users :
       /\ blocked' = blocked \ {u}
       /\ adds' = [adds EXCEPT ![p] = RowsOf({u})]
  /\ Goto(p, "reset_policies")
  /\ UNCHANGED <<xrayVars, policyVars, usage, readVars, removes, cur, failed>>

ResetListPolicies(p) ==
  /\ pc[p] = "reset_policies"
  /\ adds' = [adds EXCEPT ![p] = {row \in @ : quotaPolicy[row[1]] # NoPolicy}]
  /\ Goto(p, "reset_user")
  /\ NoFault
  /\ UNCHANGED <<xrayVars, dbVars, readVars, removes, cur, failed>>

ResetGetUserPolicy(p) ==
  /\ pc[p] = "reset_user"
  /\ adds' = [adds EXCEPT ![p] = {row \in @ : userPolicy[row[1]] = "active"}]
  /\ Goto(p, "reset_rows")
  /\ NoFault
  /\ UNCHANGED <<xrayVars, dbVars, readVars, removes, cur, failed>>

ResetRow(p) ==
  /\ pc[p] = "reset_rows"
  /\ \E row \in adds[p] : RuntimeAdd(row) /\ RowDone(p, row)
  /\ UNCHANGED <<dbVars, pc, readVars, cur, failed>>

ResetEnds(p) ==
  /\ pc[p] = "reset_rows"
  /\ \/ adds[p] = {} /\ UNCHANGED xrayVars /\ NoFault
     \/ adds[p] # {} /\ RuntimeUnavailable
  /\ Return(p)
  /\ UNCHANGED dbVars

\* /runtime/user/add: GetQuotaState and, of a blocked user, GetQuotaPolicy
\* decide whether the block stands or is stale; GetUserPolicy whether the
\* user has ended; only then the user is added at the request's inbound.
AddRequest(p) ==
  /\ Arrives(p, "runtime_add")
  /\ \E row \in Rows :
       /\ cur' = [cur EXCEPT ![p] = row]
       /\ Goto(p, IF row[1] \in blocked THEN "add_policy" ELSE "add_user")
  /\ UNCHANGED <<xrayVars, dbVars, readVars, adds, removes, failed>>

AddGetQuotaPolicy(p) ==
  /\ pc[p] = "add_policy"
  /\ \/ quotaPolicy[cur[p][1]] \in {NoPolicy, QuotaOff} /\ Goto(p, "add_clear") /\ UNCHANGED cur
     \/ quotaPolicy[cur[p][1]] > QuotaOff /\ Goto(p, "idle") /\ cur' = [cur EXCEPT ![p] = NoRow]
  /\ NoFault
  /\ UNCHANGED <<xrayVars, dbVars, readVars, adds, removes, failed>>

AddClearBlock(p) ==
  /\ pc[p] = "add_clear"
  /\ blocked' = blocked \ {cur[p][1]}
  /\ Goto(p, "add_user")
  /\ NoFault
  /\ UNCHANGED <<xrayVars, policyVars, usage, localVars>>

AddGetUserPolicy(p) ==
  /\ pc[p] = "add_user"
  /\ \/ userPolicy[cur[p][1]] # "ended" /\ Goto(p, "add_row") /\ UNCHANGED cur
     \/ userPolicy[cur[p][1]] = "ended" /\ Goto(p, "idle") /\ cur' = [cur EXCEPT ![p] = NoRow]
  /\ NoFault
  /\ UNCHANGED <<xrayVars, dbVars, readVars, adds, removes, failed>>

AddRow(p) ==
  /\ pc[p] = "add_row"
  /\ RuntimeAdd(cur[p]) \/ RuntimeUnavailable
  /\ Return(p)
  /\ UNCHANGED dbVars

\* /runtime/user/remove: a user that is absent is removed.
RemoveRequest(p) ==
  /\ Arrives(p, "runtime_remove")
  /\ xrayUp
  /\ \E row \in Rows : runtime' = runtime \ {row}
  /\ UNCHANGED <<xrayUp, config, dbVars, pc, localVars>>

\* The operator's machine persists config.json without restarting Xray:
\* persistConfigOnly asks for the quota status and then writes the users it
\* wants, those that were blocked excepted.
PersistConfigStatus(p) ==
  /\ Arrives(p, "persist_config")
  /\ statesSeen' = [statesSeen EXCEPT ![p] = {u \in blocked : quotaPolicy[u] # NoPolicy}]
  /\ Goto(p, "persist")
  /\ UNCHANGED <<xrayVars, dbVars, policiesSeen, adds, removes, cur, failed>>

PersistConfigWrite(p) ==
  /\ pc[p] = "persist"
  /\ config' \in SUBSET (Users \ statesSeen[p])
  /\ Return(p)
  /\ NoFault
  /\ UNCHANGED <<xrayUp, runtime, dbVars>>

\* A statement fails: the request is answered with an error where it stands.
RequestFails(p) ==
  /\ pc[p] \in {"reset_policies", "reset_user", "add_policy", "add_clear", "add_user"}
  /\ Fault("store_error")
  /\ Return(p)
  /\ UNCHANGED <<xrayVars, dbVars>>

NewRequest(p) ==
  \/ QuotaSync(p) \/ UsersSync(p) \/ QuotaReset(p) \/ AddRequest(p)
  \/ RemoveRequest(p) \/ PersistConfigStatus(p)

ServeRequest(p) ==
  \/ Pass(p)
  \/ ResetListPolicies(p) \/ ResetGetUserPolicy(p) \/ ResetRow(p) \/ ResetEnds(p)
  \/ AddGetQuotaPolicy(p) \/ AddClearBlock(p) \/ AddGetUserPolicy(p) \/ AddRow(p)
  \/ PersistConfigWrite(p) \/ RequestFails(p)

-----------------------------------------------------------------------------
(* The world.                                                              *)

\* A user that is live causes traffic that the next collection will bill.
Live(u) == \E i \in Inbounds : <<u, i>> \in runtime
Traffic(u) ==
  /\ Live(u)
  /\ u \notin pending
  /\ usage[u] < MaxUsage
  /\ pending' = pending \union {u}
  /\ UNCHANGED <<xrayVars, dbVars, pc, localVars, requests, faults>>

\* Days leave the rolling window.
WindowSlides(u) ==
  /\ \E used \in 0 .. MaxUsage :
       used < usage[u] /\ usage' = [usage EXCEPT ![u] = used]
  /\ UNCHANGED <<xrayVars, policyVars, blocked, pc, localVars, worldVars>>

\* A user's expiry cutoff passes.
UserExpires(u) ==
  /\ userPolicy[u] = "active"
  /\ userPolicy' = [userPolicy EXCEPT ![u] = "ended"]
  /\ UNCHANGED <<xrayVars, quotaPolicy, blocked, usage, pc, localVars, worldVars>>

XrayStop ==
  /\ xrayUp
  /\ "xray_down" \in Faults /\ faults < MaxFaults
  /\ faults' = faults + 1
  /\ xrayUp' = FALSE
  /\ runtime' = {}
  /\ pending' = {}
  /\ UNCHANGED <<config, dbVars, pc, localVars, requests>>

XrayStart ==
  /\ ~xrayUp
  /\ xrayUp' = TRUE
  /\ runtime' = RowsOf(config)
  /\ UNCHANGED <<config, dbVars, pc, localVars, worldVars>>

\* The agent dies and is started again: the goroutines are gone, the database
\* and Xray are not.
AgentCrash ==
  /\ Fault("agent_crash")
  /\ pc' = [p \in Procs |-> IF p = Startup THEN "e_policies" ELSE "idle"]
  /\ policiesSeen' = [p \in Procs |-> NothingSeen]
  /\ statesSeen' = [p \in Procs |-> {}]
  /\ adds' = [p \in Procs |-> {}]
  /\ removes' = [p \in Procs |-> {}]
  /\ cur' = [p \in Procs |-> NoRow]
  /\ failed' = [p \in Procs |-> FALSE]
  /\ UNCHANGED <<xrayVars, dbVars>>

World ==
  \/ \E u \in Users : Traffic(u) \/ WindowSlides(u) \/ UserExpires(u)
  \/ XrayStop \/ XrayStart \/ AgentCrash

Next ==
  \/ World
  \/ Collect \/ CollectFails \/ Pass(Collector)
  \/ Pass(Startup)
  \/ \E p \in Requests : NewRequest(p) \/ ServeRequest(p)

Spec == Init /\ [][Next]_vars

\* The ticker keeps firing, goroutines that run are scheduled, and the
\* container runtime starts Xray again.  Nobody has to send requests.
Fairness ==
  /\ WF_vars(Collect)
  /\ WF_vars(Pass(Collector))
  /\ WF_vars(Pass(Startup))
  /\ \A p \in Requests : WF_vars(ServeRequest(p))
  /\ WF_vars(XrayStart)

FairSpec == Spec /\ Fairness

-----------------------------------------------------------------------------
(* Properties.                                                             *)

Offline(u) == ~Live(u)
OverItsQuota(u) == OverQuota(quotaPolicy[u], usage[u])

\* A user that is blocked and over its quota is not live.  The passes rely on
\* it: Enforce skips the rows of such a user and never looks at Xray.  It follows from
\* AccessSpec, which says what keeps it so.
BlockedIsOffline ==
  \A u \in Users : u \in blocked /\ OverItsQuota(u) => Offline(u)

\* The agent implements AccessControl, as long as no crash or failed statement comes
\* between the two halves of a change and nobody else lets users in: the passes, which
\* read three tables and then act row by row, let a user in, or forget its block, only
\* on the word of reads that still hold.
Access == INSTANCE AccessControl WITH
  live <- {u \in Users : Live(u)}, over <- {u \in Users : OverItsQuota(u)}
AccessSpec == Access!Spec

\* A user that goes over its quota is cut off or at least recorded as blocked,
\* whatever fails: a failed row, a failed statement or a crash is made up for
\* by a later cycle, and no user's failure keeps the pass from another user.
QuotaIsEnforced ==
  \A u \in Users :
    OverItsQuota(u) ~> (Offline(u) \/ u \in blocked \/ ~OverItsQuota(u))

\* A block is lifted when the usage drops below the quota or the quota is
\* switched off, even if an earlier attempt added the user and then failed.
BlocksAreLifted ==
  \A u \in Users :
    (u \in blocked /\ quotaPolicy[u] # NoPolicy /\ ~OverItsQuota(u))
      ~> (u \notin blocked \/ quotaPolicy[u] = NoPolicy \/ OverItsQuota(u))

\* Blocks follow the usage, in both directions.
BlocksFollowUsage == QuotaIsEnforced /\ BlocksAreLifted

\* A user that has to be blocked is missing at an inbound: RemoveUser says
\* "not found", the quota pass fails, and the expiry pass is not reached.
Wedged ==
  \E u \in Users, i \in Inbounds :
    OverItsQuota(u) /\ u \notin blocked /\ <<u, i>> \notin runtime

\* An ended user is taken out of Xray, unless a user that cannot be blocked
\* wedges the collector; nothing else delays the expiry pass for ever.
ExpiryUnlessWedged ==
  \A u \in Users :
    userPolicy[u] = "ended" ~> (Offline(u) \/ userPolicy[u] # "ended" \/ Wedged)

\* A user that is entitled from some time on is live from some time on: what
\* the quota took away comes back by itself, unless the CLI has asked for
\* something else meanwhile.
Entitled(u) ==
  userPolicy[u] = "active" /\ quotaPolicy[u] # NoPolicy /\ ~OverItsQuota(u)
AccessComesBack ==
  \A u \in Users : <>[](Entitled(u) /\ requests = 0) => <>[]Live(u)

-----------------------------------------------------------------------------
(* What the documentation says and the code does not do.                   *)

\* docs/security.md:292: who has used up its quota is blocked.  A user that stays
\* over its quota gets in no more from some time on, at whichever inbound a call
\* failed and from whatever config.json Xray started.
OverQuotaIsCutOff ==
  \A u \in Users : <>[]OverItsQuota(u) => <>[]Offline(u)
=============================================================================
