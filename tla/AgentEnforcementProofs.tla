------------------------ MODULE AgentEnforcementProofs ------------------------
(* Proofs about AgentEnforcement: type correctness for any users, inbounds, *)
(* requests and faults; and, as far as it reaches, that who is blocked stays *)
(* out of Xray and that the agent implements AccessControl.                 *)
EXTENDS AgentEnforcement, TLAPS

\* Where a process is about to act on the row it has in hand.
AtRow == {"q_block", "q_unblock", "add_policy", "add_clear", "add_user", "add_row"}

\* There it has one.
InHand == \A p \in Procs : pc[p] \in AtRow => cur[p] \in Rows

\* What is pending can be billed without passing the bound of the model.
Room == \A u \in pending : usage[u] < MaxUsage

\* The inductive invariant of type correctness.
TypeInv == TypeOK /\ InHand /\ Room

\* How far the promise reaches that who is blocked stays out: quota_state has one row
\* for all inbounds of a user; a crash or a failed statement leaves what was done in
\* Xray unrecorded; Xray restarts from an old config.json; and a handler that adds
\* users does so several statements after it looked.
Mild == {"users_sync", "runtime_remove", "persist_config"}
WithinReach ==
  /\ \E i \in Inbounds : Inbounds = {i}
  /\ RequestKinds \subseteq Mild
  /\ Faults \subseteq {"api_error"}

\* Only the collector runs quota passes and adds users.
OnlyCollector ==
  /\ xrayUp
  /\ \A p \in Procs \ {Collector} : pc[p] \in {"idle", "e_policies", "e_rows", "persist"}

\* What its pass has read is still so when it acts on it.
PassIsCurrent ==
  /\ pc[Collector] \in {"q_states", "q_usage"} => policiesSeen[Collector] = quotaPolicy
  /\ pc[Collector] \in {"q_rows", "q_block", "q_unblock"} =>
       \A row \in adds[Collector] : ~OverItsQuota(row[1])
  /\ pc[Collector] = "q_unblock" => ~OverItsQuota(cur[Collector][1])

\* Who is recorded as blocked is out, unless the pass has just let the user in again;
\* who is about to be recorded as blocked is out too.
BlocksHold ==
  /\ \A u \in blocked :
       Offline(u) \/ (pc[Collector] = "q_unblock" /\ cur[Collector][1] = u)
  /\ pc[Collector] = "q_block" => Offline(cur[Collector][1])

BlockInv == OnlyCollector /\ PassIsCurrent /\ BlocksHold

\* The inductive invariant.
IInv == TypeInv /\ (WithinReach => BlockInv)


-----------------------------------------------------------------------------
(* Types.                                                                  *)

\* The constants.
LEMMA Constants ==
  /\ Users \subseteq Nat /\ MaxUsage \in Nat \ {0}
  /\ MaxRequests \in Nat /\ MaxFaults \in Nat
  /\ Collector \in Procs /\ Startup \in Procs /\ Requests \subseteq Procs
  /\ Collector # Startup /\ Collector \notin Requests /\ Startup \notin Requests
BY SetsAssumption, BoundsAssumption, ProcsAssumption DEF Procs, Collector, Startup

\* What the reads of the policies leave to do is rows.
LEMMA RowsTyped ==
  ASSUME NEW S, S \subseteq Users
  PROVE  RowsOf(S) \subseteq Rows
BY DEF RowsOf, Rows

\* A call of Xray's API, whatever comes of it.
Call(row) ==
  RuntimeAdd(row) \/ RuntimeRemove(row) \/ RuntimeMissing(row) \/ RuntimeUnavailable
LEMMA CallTyped ==
  ASSUME TypeOK, NEW row \in Rows, Call(row)
  PROVE  /\ xrayUp' \in BOOLEAN /\ runtime' \subseteq Rows /\ config' = config
         /\ faults' \in 0 .. MaxFaults /\ UNCHANGED <<pending, requests>>
BY Constants
DEF TypeOK, Call, RuntimeAdd, RuntimeRemove, RuntimeMissing, RuntimeUnavailable, Fault,
    NoFault, xrayVars, worldVars

\* Tuples of variables are always expanded.
USE DEF xrayVars, policyVars, dbVars, readVars, localVars, worldVars

LEMMA TypeInit == Init => TypeInv
<1> SUFFICES ASSUME Init PROVE TypeInv
  OBVIOUS
<1>1. TypeOK
  BY Constants, RowsTyped,
  SMTT(30) DEF Init, TypeOK, PcValues, NothingSeen, QuotaValues, NoPolicy, Collector, Startup
<1>2. InHand
  BY DEF Init, InHand, AtRow
<1>3. Room
  BY DEF Init, Room
<1> QED BY <1>1, <1>2, <1>3 DEF TypeInv


\* A step of a pass.
LEMMA PassTyped ==
  ASSUME TypeInv, NEW p \in Procs, Pass(p)
  PROVE  TypeInv'
<1>1. CASE QuotaReadPolicies(p)
  BY <1>1, Constants
  DEF TypeInv, TypeOK, InHand, Room, AtRow, PcValues, Goto, NoFault, QuotaReadPolicies
<1>2. CASE QuotaReadStates(p)
  BY <1>2, Constants
  DEF TypeInv, TypeOK, InHand, Room, AtRow, PcValues, Goto, NoFault, QuotaReadStates
<1>3. CASE QuotaReadUsage(p)
  BY <1>3, Constants, RowsTyped
  DEF TypeInv, TypeOK, InHand, Room, AtRow, PcValues, Goto, NoFault, QuotaReadUsage,
      ToBlock, ToUnblock, Forget, Return, NothingSeen, QuotaValues, NoPolicy
<1>4. CASE QuotaAddRow(p)
  <2>0. PICK row \in adds[p] : Call(row) /\ RowDone(p, row) /\ cur' = [cur EXCEPT ![p] = row]
    BY <1>4 DEF QuotaAddRow, RowDone, Call
  <2>r. row \in Rows
    BY <2>0 DEF TypeInv, TypeOK
  <2>1. TypeOK'
    BY <1>4, Constants, CallTyped, <2>0, <2>r
    DEF TypeInv, TypeOK, PcValues, Goto, NoFault, QuotaAddRow, RowDone, Call
  <2>2. InHand'
    BY <1>4, Constants, CallTyped, <2>0, <2>r
    DEF TypeInv, TypeOK, InHand, AtRow, Goto, NoFault, QuotaAddRow, RowDone, Call
  <2>3. Room'
    BY <1>4, Constants, CallTyped, <2>0, <2>r
    DEF TypeInv, TypeOK, Room, Goto, NoFault, QuotaAddRow, RowDone, Call
  <2> QED BY <2>1, <2>2, <2>3 DEF TypeInv
<1>5. CASE QuotaRemoveRow(p)
  <2>0. PICK row \in removes[p] : Call(row) /\ RowDone(p, row) /\ cur' = [cur EXCEPT ![p] = row]
    BY <1>5 DEF QuotaRemoveRow, RowDone, Call
  <2>r. row \in Rows
    BY <2>0 DEF TypeInv, TypeOK
  <2>1. TypeOK'
    BY <1>5, Constants, CallTyped, <2>0, <2>r
    DEF TypeInv, TypeOK, PcValues, Goto, NoFault, QuotaRemoveRow, RowDone, Call
  <2>2. InHand'
    BY <1>5, Constants, CallTyped, <2>0, <2>r
    DEF TypeInv, TypeOK, InHand, AtRow, Goto, NoFault, QuotaRemoveRow, RowDone, Call
  <2>3. Room'
    BY <1>5, Constants, CallTyped, <2>0, <2>r
    DEF TypeInv, TypeOK, Room, Goto, NoFault, QuotaRemoveRow, RowDone, Call
  <2> QED BY <2>1, <2>2, <2>3 DEF TypeInv
<1>6. CASE QuotaRowFails(p)
  <2>0. PICK row \in adds[p] \union removes[p] : Call(row) /\ RowDone(p, row)
    BY <1>6 DEF QuotaRowFails, RowDone, Call
  <2>r. row \in Rows
    BY <2>0 DEF TypeInv, TypeOK
  <2>1. TypeOK'
    BY <1>6, Constants, CallTyped, <2>0, <2>r
    DEF TypeInv, TypeOK, PcValues, Goto, NoFault, QuotaRowFails, RowDone, Call
  <2>2. InHand'
    BY <1>6, Constants, CallTyped, <2>0, <2>r
    DEF TypeInv, TypeOK, InHand, AtRow, Goto, NoFault, QuotaRowFails, RowDone, Call
  <2>3. Room'
    BY <1>6, Constants, CallTyped, <2>0, <2>r
    DEF TypeInv, TypeOK, Room, Goto, NoFault, QuotaRowFails, RowDone, Call
  <2> QED BY <2>1, <2>2, <2>3 DEF TypeInv
<1>7. CASE QuotaPersist(p)
  BY <1>7, Constants
  DEF TypeInv, TypeOK, InHand, Room, AtRow, PcValues, Goto, NoFault, QuotaPersist, Rows
<1>8. CASE QuotaPersistFails(p)
  BY <1>8, Constants
  DEF TypeInv, TypeOK, InHand, Room, AtRow, PcValues, Goto, NoFault, QuotaPersistFails,
      Fault
<1>9. CASE QuotaPassEnds(p)
  BY <1>9, Constants,
  SMTT(30) DEF TypeInv, TypeOK, InHand, Room, AtRow, PcValues, Goto, NoFault, QuotaPassEnds, Forget,
      Return, NothingSeen, QuotaValues, NoPolicy
<1>10. CASE ExpiryReadPolicies(p)
  BY <1>10, Constants, RowsTyped
  DEF TypeInv, TypeOK, InHand, Room, AtRow, PcValues, Goto, NoFault, ExpiryReadPolicies
<1>11. CASE ExpiryRow(p)
  <2>0. PICK row \in removes[p] : Call(row) /\ RowDone(p, row)
    BY <1>11 DEF ExpiryRow, RowDone, Call
  <2>r. row \in Rows
    BY <2>0 DEF TypeInv, TypeOK
  <2>1. TypeOK'
    BY <1>11, Constants, CallTyped, <2>0, <2>r
    DEF TypeInv, TypeOK, PcValues, Goto, NoFault, ExpiryRow, RowDone, Call
  <2>2. InHand'
    BY <1>11, Constants, CallTyped, <2>0, <2>r
    DEF TypeInv, TypeOK, InHand, AtRow, Goto, NoFault, ExpiryRow, RowDone, Call
  <2>3. Room'
    BY <1>11, Constants, CallTyped, <2>0, <2>r
    DEF TypeInv, TypeOK, Room, Goto, NoFault, ExpiryRow, RowDone, Call
  <2> QED BY <2>1, <2>2, <2>3 DEF TypeInv
<1>12. CASE ExpiryPassEnds(p)
  BY <1>12, Constants
  DEF TypeInv, TypeOK, InHand, Room, AtRow, PcValues, Goto, NoFault, ExpiryPassEnds, Forget,
      Return, NothingSeen, QuotaValues, NoPolicy
<1>13. CASE ReadFails(p)
  BY <1>13, Constants
  DEF TypeInv, TypeOK, InHand, Room, AtRow, PcValues, Goto, NoFault, ReadFails, Forget,
      Return, NothingSeen, QuotaValues, NoPolicy, Fault
<1> QED BY <1>1, <1>2, <1>3, <1>4, <1>5, <1>6, <1>7, <1>8, <1>9, <1>10, <1>11, <1>12, <1>13 DEF Pass

\* A request arrives.
LEMMA ArrivalTyped ==
  ASSUME TypeInv, NEW p \in Requests, NewRequest(p)
  PROVE  TypeInv'
<1>1. CASE QuotaSync(p)
  <2>1. TypeOK'
    <3>1. pc' \in [Procs -> PcValues]
      BY <1>1, Constants DEF TypeInv, TypeOK, PcValues, Goto, QuotaSync
    <3>2. quotaPolicy' \in [Users -> QuotaValues] /\ blocked' \subseteq Users
      BY <1>1 DEF TypeInv, TypeOK, QuotaSync
    <3>3. requests' \in 0 .. MaxRequests /\ UNCHANGED <<pending, faults>>
      BY <1>1, Constants DEF TypeInv, TypeOK, QuotaSync, Arrives
    <3> QED BY <1>1, <3>1, <3>2, <3>3 DEF TypeInv, TypeOK, QuotaSync
  <2>2. InHand'
    BY <1>1, Constants
    DEF TypeInv, TypeOK, InHand, AtRow, Goto, NoFault, QuotaSync, Arrives
  <2>3. Room'
    BY <1>1, Constants
    DEF TypeInv, TypeOK, Room, Goto, NoFault, QuotaSync, Arrives
  <2> QED BY <2>1, <2>2, <2>3 DEF TypeInv
<1>2. CASE UsersSync(p)
  BY <1>2, Constants
  DEF TypeInv, TypeOK, InHand, Room, AtRow, PcValues, Goto, NoFault, UsersSync, Arrives
<1>3. CASE QuotaReset(p)
  BY <1>3, Constants, RowsTyped
  DEF TypeInv, TypeOK, InHand, Room, AtRow, PcValues, Goto, NoFault, QuotaReset, Arrives
<1>4. CASE AddRequest(p)
  BY <1>4, Constants
  DEF TypeInv, TypeOK, InHand, Room, AtRow, PcValues, Goto, NoFault, AddRequest, Arrives
<1>5. CASE RemoveRequest(p)
  BY <1>5, Constants
  DEF TypeInv, TypeOK, InHand, Room, AtRow, PcValues, Goto, NoFault, RemoveRequest, Arrives
<1>6. CASE PersistConfigStatus(p)
  <2>1. TypeOK'
    <3>1. pc' \in [Procs -> PcValues]
      BY <1>6, Constants DEF TypeInv, TypeOK, PcValues, Goto, PersistConfigStatus
    <3>2. statesSeen' \in [Procs -> SUBSET Users]
      BY <1>6, Constants DEF TypeInv, TypeOK, PersistConfigStatus
    <3>3. requests' \in 0 .. MaxRequests /\ UNCHANGED <<pending, faults>>
      BY <1>6, Constants DEF TypeInv, TypeOK, PersistConfigStatus, Arrives
    <3> QED BY <1>6, <3>1, <3>2, <3>3 DEF TypeInv, TypeOK, PersistConfigStatus
  <2>2. InHand'
    BY <1>6, Constants
    DEF TypeInv, TypeOK, InHand, AtRow, Goto, NoFault, PersistConfigStatus, Arrives
  <2>3. Room'
    BY <1>6, Constants
    DEF TypeInv, TypeOK, Room, Goto, NoFault, PersistConfigStatus, Arrives
  <2> QED BY <2>1, <2>2, <2>3 DEF TypeInv
<1> QED BY <1>1, <1>2, <1>3, <1>4, <1>5, <1>6 DEF NewRequest

\* A request is served.
LEMMA ServiceTyped ==
  ASSUME TypeInv, NEW p \in Requests, ServeRequest(p)
  PROVE  TypeInv'
<1>1. CASE Pass(p)
  BY <1>1, Constants, PassTyped
  DEF TypeInv, TypeOK, InHand, Room, AtRow, PcValues, Goto, NoFault, Pass
<1>2. CASE ResetListPolicies(p)
  BY <1>2, Constants
  DEF TypeInv, TypeOK, InHand, Room, AtRow, PcValues, Goto, NoFault, ResetListPolicies
<1>3. CASE ResetGetUserPolicy(p)
  BY <1>3, Constants
  DEF TypeInv, TypeOK, InHand, Room, AtRow, PcValues, Goto, NoFault, ResetGetUserPolicy
<1>4. CASE ResetRow(p)
  <2>1. PICK row \in adds[p] : Call(row) /\ RowDone(p, row)
    BY <1>4 DEF ResetRow, Call
  <2>2. row \in Rows /\ UNCHANGED <<dbVars, pc, readVars, cur, failed>>
    BY <1>4, <2>1, Constants DEF TypeInv, TypeOK, ResetRow
  <2>3. TypeOK'
    BY <2>1, <2>2, Constants, CallTyped DEF TypeInv, TypeOK, RowDone
  <2>4. InHand' /\ Room'
    BY <2>1, <2>2, Constants, CallTyped DEF TypeInv, TypeOK, InHand, Room
  <2> QED BY <2>3, <2>4 DEF TypeInv
<1>5. CASE ResetEnds(p)
  BY <1>5, Constants, CallTyped
  DEF TypeInv, TypeOK, InHand, Room, AtRow, PcValues, Goto, NoFault, ResetEnds, Forget,
      Return, NothingSeen, QuotaValues, NoPolicy, RowDone, Call
<1>6. CASE AddGetQuotaPolicy(p)
  <2>1. /\ pc[p] = "add_policy" /\ UNCHANGED <<xrayVars, dbVars, readVars, adds, removes, failed>>
        /\ NoFault
        /\ \/ Goto(p, "add_clear") /\ UNCHANGED cur
           \/ Goto(p, "idle") /\ cur' = [cur EXCEPT ![p] = NoRow]
    BY <1>6 DEF AddGetQuotaPolicy
  <2>2. TypeOK'
    <3>1. pc' \in [Procs -> PcValues]
      BY <2>1, Constants DEF TypeInv, TypeOK, PcValues, Goto
    <3>2. cur' \in [Procs -> Rows \union {NoRow}]
      BY <2>1, Constants DEF TypeInv, TypeOK
    <3> QED BY <2>1, <3>1, <3>2 DEF TypeInv, TypeOK, NoFault, xrayVars, dbVars, readVars
  <2>3. InHand'
    BY <1>6, Constants DEF TypeInv, TypeOK, InHand, AtRow, Goto, AddGetQuotaPolicy
  <2>4. Room'
    BY <2>1 DEF TypeInv, Room, NoFault, dbVars
  <2> QED BY <2>2, <2>3, <2>4 DEF TypeInv
<1>7. CASE AddClearBlock(p)
  BY <1>7, Constants
  DEF TypeInv, TypeOK, InHand, Room, AtRow, PcValues, Goto, NoFault, AddClearBlock
<1>8. CASE AddGetUserPolicy(p)
  <2>1. TypeOK'
    <3>1. pc' \in [Procs -> PcValues]
      BY <1>8, Constants DEF TypeInv, TypeOK, PcValues, Goto, AddGetUserPolicy
    <3>2. cur' \in [Procs -> Rows \union {NoRow}]
      BY <1>8, Constants DEF TypeInv, TypeOK, AddGetUserPolicy
    <3> QED BY <1>8, <3>1, <3>2 DEF TypeInv, TypeOK, AddGetUserPolicy, NoFault
  <2>2. InHand'
    BY <1>8, Constants
    DEF TypeInv, TypeOK, InHand, AtRow, Goto, NoFault, AddGetUserPolicy
  <2>3. Room'
    BY <1>8, Constants
    DEF TypeInv, TypeOK, Room, Goto, NoFault, AddGetUserPolicy
  <2> QED BY <2>1, <2>2, <2>3 DEF TypeInv
<1>9. CASE AddRow(p)
  <2>1. cur[p] \in Rows
    BY <1>9 DEF TypeInv, InHand, AtRow, AddRow, Procs
  <2>2. /\ xrayUp' \in BOOLEAN /\ runtime' \subseteq Rows /\ config' = config
        /\ faults' \in 0 .. MaxFaults /\ UNCHANGED <<pending, requests>>
    BY <1>9, <2>1, CallTyped DEF TypeInv, AddRow, Call
  <2>3. TypeOK' /\ InHand' /\ Room'
    <3>1. UNCHANGED <<dbVars>> /\ Return(p)
      BY <1>9 DEF AddRow
    <3>2. TypeOK'
      BY <2>2, <3>1, Constants
      DEF TypeInv, TypeOK, PcValues, Goto, Forget, Return, NothingSeen, QuotaValues,
          NoPolicy
    <3>3. InHand'
      BY <2>2, <3>1, Constants DEF TypeInv, TypeOK, InHand, AtRow, Goto, Forget, Return
    <3>4. Room'
      BY <2>2, <3>1 DEF TypeInv, Room
    <3> QED BY <3>2, <3>3, <3>4
  <2> QED BY <2>3 DEF TypeInv
<1>10. CASE PersistConfigWrite(p)
  BY <1>10, Constants
  DEF TypeInv, TypeOK, InHand, Room, AtRow, PcValues, Goto, NoFault, PersistConfigWrite,
      Forget, Return, NothingSeen, QuotaValues, NoPolicy
<1>11. CASE RequestFails(p)
  BY <1>11, Constants
  DEF TypeInv, TypeOK, InHand, Room, AtRow, PcValues, Goto, NoFault, RequestFails, Forget,
      Return, NothingSeen, QuotaValues, NoPolicy, Fault
<1> QED BY <1>1, <1>2, <1>3, <1>4, <1>5, <1>6, <1>7, <1>8, <1>9, <1>10, <1>11 DEF ServeRequest

\* The world, and the billing of a cycle.
LEMMA WorldTyped ==
  ASSUME TypeInv, World \/ Collect \/ CollectFails
  PROVE  TypeInv'
<1>1. CASE (\E u \in Users : Traffic(u))
  BY <1>1, Constants
  DEF TypeInv, TypeOK, InHand, Room, AtRow, PcValues, Goto, NoFault, Traffic
<1>2. CASE (\E u \in Users : WindowSlides(u))
  BY <1>2, Constants
  DEF TypeInv, TypeOK, InHand, Room, AtRow, PcValues, Goto, NoFault, WindowSlides
<1>3. CASE (\E u \in Users : UserExpires(u))
  BY <1>3, Constants
  DEF TypeInv, TypeOK, InHand, Room, AtRow, PcValues, Goto, NoFault, UserExpires, UserValues
<1>4. CASE XrayStop
  <2>1. TypeOK'
    <3>1. faults' \in 0 .. MaxFaults
      BY <1>4, Constants DEF TypeInv, TypeOK, XrayStop
    <3> QED BY <1>4, <3>1 DEF TypeInv, TypeOK, XrayStop
  <2>2. InHand'
    BY <1>4, Constants
    DEF TypeInv, TypeOK, InHand, AtRow, Goto, NoFault, XrayStop
  <2>3. Room'
    BY <1>4, Constants
    DEF TypeInv, TypeOK, Room, Goto, NoFault, XrayStop
  <2> QED BY <2>1, <2>2, <2>3 DEF TypeInv
<1>5. CASE XrayStart
  BY <1>5, Constants, RowsTyped
  DEF TypeInv, TypeOK, InHand, Room, AtRow, PcValues, Goto, NoFault, XrayStart
<1>6. CASE AgentCrash
  BY <1>6, Constants
  DEF TypeInv, TypeOK, InHand, Room, AtRow, PcValues, Goto, NoFault, AgentCrash, Forget,
      Return, NothingSeen, QuotaValues, NoPolicy, Fault
<1>7. CASE Collect
  BY <1>7, Constants
  DEF TypeInv, TypeOK, InHand, Room, AtRow, PcValues, Goto, NoFault, Collect, Bill
<1>8. CASE CollectFails
  BY <1>8, Constants
  DEF TypeInv, TypeOK, InHand, Room, AtRow, PcValues, Goto, NoFault, CollectFails, Bill
<1> QED BY <1>1, <1>2, <1>3, <1>4, <1>5, <1>6, <1>7, <1>8 DEF World

LEMMA TypeStep == TypeInv /\ [Next]_vars => TypeInv'
<1> SUFFICES ASSUME TypeInv, [Next]_vars PROVE TypeInv'
  OBVIOUS
<1>1. CASE UNCHANGED vars
  BY <1>1 DEF TypeInv, TypeOK, InHand, Room, vars
<1>2. CASE World \/ Collect \/ CollectFails
  BY <1>2, WorldTyped
<1>3. CASE Pass(Collector) \/ Pass(Startup)
  BY <1>3, PassTyped, Constants
<1>4. ASSUME NEW p \in Requests, NewRequest(p) \/ ServeRequest(p)
      PROVE  TypeInv'
  BY <1>4, ArrivalTyped, ServiceTyped
<1> QED BY <1>1, <1>2, <1>3, <1>4 DEF Next

-----------------------------------------------------------------------------
(* Who is blocked stays out.                                               *)

\* A row is about a user.
LEMMA RowFields == \A row \in Rows : row[1] \in Users
BY DEF Rows

\* What other processes and the world do: users only leave Xray, the record stays.
Elsewhere ==
  /\ runtime' \subseteq runtime
  /\ UNCHANGED <<xrayUp, quotaPolicy, blocked>>
  /\ UNCHANGED <<pc[Collector], adds[Collector], cur[Collector]>>
  /\ UNCHANGED <<policiesSeen[Collector], statesSeen[Collector]>>

\* Whatever only removes users, lowers usage, or concerns other processes.
LEMMA ElsewhereHolds ==
  ASSUME TypeInv, BlockInv, Elsewhere,
         \A u \in Users : usage'[u] \in Nat /\ usage'[u] <= usage[u],
         \A q \in Procs \ {Collector} : pc'[q] \in {"idle", "e_policies", "e_rows", "persist"}
  PROVE  BlockInv'
<1>1. OnlyCollector'
  BY DEF BlockInv, OnlyCollector, Elsewhere
<1>2. \A u \in Users : OverItsQuota(u)' => OverItsQuota(u)
  <2> SUFFICES ASSUME NEW u \in Users, OverItsQuota(u)'
               PROVE  OverItsQuota(u)
    OBVIOUS
  <2>1. usage[u] \in Nat /\ quotaPolicy[u] \in Int
    BY Constants DEF TypeInv, TypeOK, QuotaValues, NoPolicy, QuotaOff
  <2> QED BY <2>1 DEF OverItsQuota, OverQuota, QuotaOff, Elsewhere
<1>3. PassIsCurrent'
  <2>1. \A row \in adds[Collector] : row[1] \in Users
    BY Constants, RowFields DEF TypeInv, TypeOK
  <2>2. pc[Collector] = "q_unblock" => cur[Collector][1] \in Users
    BY Constants, RowFields DEF TypeInv, InHand, AtRow
  <2> QED BY <1>2, <2>1, <2>2 DEF BlockInv, PassIsCurrent, Elsewhere
<1>4. BlocksHold'
  BY DEF BlockInv, BlocksHold, Offline, Live, Elsewhere
<1> QED BY <1>1, <1>3, <1>4 DEF BlockInv

LEMMA BlockInit == Init /\ WithinReach => BlockInv
<1> SUFFICES ASSUME Init PROVE BlockInv
  OBVIOUS
<1>1. OnlyCollector
  BY DEF Init, OnlyCollector, Startup, Collector
<1>2. PassIsCurrent
  BY Constants DEF Init, PassIsCurrent
<1>3. BlocksHold
  BY Constants DEF Init, BlocksHold, Offline, Live, RowsOf
<1> QED BY <1>1, <1>2, <1>3 DEF BlockInv

\* Within reach, others run expiry passes and mild requests only.
LEMMA OthersActions ==
  ASSUME WithinReach, BlockInv, NEW p \in Procs \ {Collector},
         \/ Pass(p)
         \/ p \in Requests /\ (NewRequest(p) \/ ServeRequest(p))
  PROVE  \/ ExpiryReadPolicies(p) \/ ExpiryRow(p) \/ ExpiryPassEnds(p)
         \/ UsersSync(p) \/ RemoveRequest(p) \/ PersistConfigStatus(p) \/ PersistConfigWrite(p)
<1>1. pc[p] \in {"idle", "e_policies", "e_rows", "persist"}
  BY DEF BlockInv, OnlyCollector
<1>2. \A kind : Arrives(p, kind) => kind \in Mild
  BY DEF Arrives, WithinReach
<1>3. \A kind : Fault(kind) => kind = "api_error"
  BY DEF Fault, WithinReach
<1> QED BY <1>1, <1>2, <1>3
  DEF Pass, NewRequest, ServeRequest, Mild, QuotaSync, QuotaReset, AddRequest,
      QuotaReadPolicies, QuotaReadStates, QuotaReadUsage, QuotaAddRow, QuotaRemoveRow,
      QuotaRowFails, QuotaPersist, QuotaPersistFails, QuotaPassEnds, ReadFails,
      ResetListPolicies, ResetGetUserPolicy, ResetRow, ResetEnds, AddGetQuotaPolicy,
      AddClearBlock, AddGetUserPolicy, AddRow, RequestFails

LEMMA OthersElsewhere ==
  ASSUME TypeInv, WithinReach, BlockInv, NEW p \in Procs \ {Collector},
         \/ Pass(p)
         \/ p \in Requests /\ (NewRequest(p) \/ ServeRequest(p))
  PROVE  Elsewhere /\ UNCHANGED usage
<1>1. \/ ExpiryReadPolicies(p) \/ ExpiryRow(p) \/ ExpiryPassEnds(p)
      \/ UsersSync(p) \/ RemoveRequest(p) \/ PersistConfigStatus(p) \/ PersistConfigWrite(p)
  BY OthersActions
<1>2. CASE ExpiryRow(p)
  BY <1>2, Constants
  DEF ExpiryRow, TypeInv, TypeOK, RuntimeRemove, RuntimeMissing, RuntimeUnavailable,
      RowDone, Elsewhere
<1>3. CASE ExpiryReadPolicies(p) \/ ExpiryPassEnds(p)
  BY <1>3, Constants
  DEF ExpiryReadPolicies, ExpiryPassEnds, TypeInv, TypeOK, Goto, Return, Forget, Elsewhere
<1>4. CASE UsersSync(p) \/ RemoveRequest(p)
  BY <1>4, Constants DEF UsersSync, RemoveRequest, TypeInv, TypeOK, Goto, Elsewhere
<1>5. CASE PersistConfigStatus(p) \/ PersistConfigWrite(p)
  BY <1>5, Constants
  DEF PersistConfigStatus, PersistConfigWrite, TypeInv, TypeOK, Goto, Return, Forget,
      Elsewhere
<1> QED BY <1>1, <1>2, <1>3, <1>4, <1>5

\* An expiry pass of anyone but the collector, and what the mild requests do.
LEMMA OthersBlock ==
  ASSUME TypeInv, WithinReach, BlockInv, NEW p \in Procs \ {Collector},
         \/ Pass(p)
         \/ p \in Requests /\ (NewRequest(p) \/ ServeRequest(p))
  PROVE  BlockInv'
<1>1. \/ ExpiryReadPolicies(p) \/ ExpiryRow(p) \/ ExpiryPassEnds(p)
      \/ UsersSync(p) \/ RemoveRequest(p) \/ PersistConfigStatus(p) \/ PersistConfigWrite(p)
  BY OthersActions
<1>2. Elsewhere /\ UNCHANGED usage
  BY OthersElsewhere
<1>3. \A q \in Procs \ {Collector} : pc'[q] \in {"idle", "e_policies", "e_rows", "persist"}
  <2>1. \A q \in Procs \ {Collector} : pc[q] \in {"idle", "e_policies", "e_rows", "persist"}
    BY DEF BlockInv, OnlyCollector
  <2>2. pc \in [Procs -> PcValues]
    BY DEF TypeInv, TypeOK
  <2>3. pc' = pc \/ \E label \in {"idle", "e_rows", "e_policies", "persist"} :
                     pc' = [pc EXCEPT ![p] = label]
    BY <1>1
    DEF ExpiryReadPolicies, ExpiryRow, ExpiryPassEnds, UsersSync, RemoveRequest,
        PersistConfigStatus, PersistConfigWrite, Goto, Return
  <2> QED BY <2>1, <2>2, <2>3
<1>4. \A u \in Users : usage'[u] \in Nat /\ usage'[u] <= usage[u]
  <2>1. \A u \in Users : usage[u] \in Nat
    BY Constants DEF TypeInv, TypeOK
  <2> QED BY <1>2, <2>1
<1> QED BY <1>2, <1>3, <1>4, ElsewhereHolds

LEMMA WorldElsewhere ==
  ASSUME NEW u \in Users, Traffic(u) \/ WindowSlides(u) \/ UserExpires(u)
  PROVE  Elsewhere /\ UNCHANGED runtime
BY DEF Elsewhere, Traffic, WindowSlides, UserExpires

\* The quota pass of the collector.
LEMMA CollectorBlock ==
  ASSUME TypeInv, WithinReach, BlockInv, Pass(Collector)
  PROVE  BlockInv'
<1> DEFINE c == Collector
<1>1. \A kind : Fault(kind) => kind = "api_error"
  BY DEF Fault, WithinReach
<1>2. OnlyCollector'
  <2>1. xrayUp' = xrayUp
    BY DEF Pass, QuotaReadPolicies, QuotaReadStates, QuotaReadUsage, QuotaAddRow,
      QuotaRemoveRow, QuotaRowFails, QuotaPersist, QuotaPersistFails, QuotaPassEnds,
      ExpiryReadPolicies, ExpiryRow, ExpiryPassEnds, ReadFails, RuntimeAdd,
      RuntimeRemove, RuntimeMissing, RuntimeUnavailable
  <2>2. \A q \in Procs \ {c} : pc'[q] = pc[q]
    <3>1. pc' = pc \/ \E label : pc' = [pc EXCEPT ![c] = label]
      BY DEF Pass, QuotaReadPolicies, QuotaReadStates, QuotaReadUsage, QuotaAddRow,
        QuotaRemoveRow, QuotaRowFails, QuotaPersist, QuotaPersistFails, QuotaPassEnds,
        ExpiryReadPolicies, ExpiryRow, ExpiryPassEnds, ReadFails, Goto, Return
    <3> QED BY <3>1 DEF TypeInv, TypeOK
  <2> QED BY <2>1, <2>2 DEF BlockInv, OnlyCollector
<1>3. CASE \/ QuotaReadPolicies(c) \/ QuotaReadStates(c)
           \/ ExpiryReadPolicies(c) \/ ExpiryPassEnds(c) \/ QuotaPassEnds(c)
  <2>1. PassIsCurrent'
    BY <1>3, Constants
    DEF QuotaReadPolicies, QuotaReadStates, ExpiryReadPolicies, ExpiryPassEnds,
        QuotaPassEnds, Goto, Return, Forget, TypeInv, TypeOK, BlockInv, PassIsCurrent
  <2>2. BlocksHold'
    BY <1>3, Constants
    DEF QuotaReadPolicies, QuotaReadStates, ExpiryReadPolicies, ExpiryPassEnds,
        QuotaPassEnds, Goto, Return, Forget, TypeInv, TypeOK, BlockInv, BlocksHold,
        Offline, Live
  <2> QED BY <1>2, <2>1, <2>2 DEF BlockInv
<1>4. CASE QuotaReadUsage(c)
  <2>1. PassIsCurrent'
    BY <1>4, Constants
    DEF QuotaReadUsage, ToUnblock, RowsOf, Goto, TypeInv, TypeOK, BlockInv,
        PassIsCurrent, OverItsQuota
  <2>2. BlocksHold'
    BY <1>4, Constants
    DEF QuotaReadUsage, Goto, TypeInv, TypeOK, BlockInv, BlocksHold, Offline, Live
  <2> QED BY <1>2, <2>1, <2>2 DEF BlockInv
<1>5. CASE QuotaAddRow(c)
  <2>1. PICK row \in adds[c] : /\ RuntimeAdd(row) /\ RowDone(c, row)
                               /\ cur' = [cur EXCEPT ![c] = row]
    BY <1>5 DEF QuotaAddRow
  <2>2. /\ row \in Rows /\ pc[c] = "q_rows" /\ pc'[c] = "q_unblock" /\ cur'[c] = row
        /\ adds'[c] \subseteq adds[c] /\ runtime' = runtime \union {row}
        /\ UNCHANGED <<quotaPolicy, usage, blocked>>
    BY <1>5, <2>1, Constants DEF QuotaAddRow, Goto, RowDone, RuntimeAdd, TypeInv, TypeOK
  <2>3. PassIsCurrent'
    BY <2>2 DEF BlockInv, PassIsCurrent, OverItsQuota
  <2>4. BlocksHold'
    BY <2>2 DEF BlockInv, BlocksHold, Offline, Live, Rows
  <2> QED BY <1>2, <2>3, <2>4 DEF BlockInv
<1>6. CASE QuotaRemoveRow(c)
  <2>1. PICK row \in removes[c] : /\ RuntimeRemove(row) /\ RowDone(c, row)
                                  /\ cur' = [cur EXCEPT ![c] = row]
    BY <1>6 DEF QuotaRemoveRow
  <2>2. /\ row \in Rows /\ pc[c] = "q_rows" /\ pc'[c] = "q_block" /\ cur'[c] = row
        /\ adds'[c] \subseteq adds[c] /\ runtime' = runtime \ {row}
        /\ UNCHANGED <<quotaPolicy, usage, blocked>>
    BY <1>6, <2>1, Constants
    DEF QuotaRemoveRow, Goto, RowDone, RuntimeRemove, TypeInv, TypeOK
  <2>3. PassIsCurrent'
    BY <2>2 DEF BlockInv, PassIsCurrent, OverItsQuota
  <2>4. BlocksHold'
    BY <2>2 DEF BlockInv, BlocksHold, Offline, Live, Rows, WithinReach
  <2> QED BY <1>2, <2>3, <2>4 DEF BlockInv
<1>7. CASE QuotaRowFails(c) \/ ExpiryRow(c)
  <2>1. /\ pc[c] \in {"q_rows", "e_rows"} /\ UNCHANGED <<pc, quotaPolicy, usage, blocked, policiesSeen, cur>>
        /\ adds'[c] \subseteq adds[c] /\ runtime' \subseteq runtime
    BY <1>7, Constants
    DEF QuotaRowFails, ExpiryRow, RowDone, RuntimeRemove, RuntimeMissing,
        RuntimeUnavailable, TypeInv, TypeOK
  <2>2. PassIsCurrent'
    BY <2>1 DEF BlockInv, PassIsCurrent, OverItsQuota
  <2>3. BlocksHold'
    BY <2>1 DEF BlockInv, BlocksHold, Offline, Live
  <2> QED BY <1>2, <2>2, <2>3 DEF BlockInv
<1>8. CASE QuotaPersist(c)
  <2>1. /\ pc[c] \in {"q_block", "q_unblock"} /\ pc'[c] = "q_rows"
        /\ UNCHANGED <<runtime, quotaPolicy, usage, adds>>
        /\ blocked' = IF pc[c] = "q_block" THEN blocked \union {cur[c][1]}
                                           ELSE blocked \ {cur[c][1]}
    BY <1>8, Constants DEF QuotaPersist, Goto, TypeInv, TypeOK
  <2>2. PassIsCurrent'
    BY <2>1 DEF BlockInv, PassIsCurrent, OverItsQuota
  <2>3. BlocksHold'
    BY <2>1 DEF BlockInv, BlocksHold, Offline, Live
  <2> QED BY <1>2, <2>2, <2>3 DEF BlockInv
<1>9. ~QuotaPersistFails(c) /\ ~ReadFails(c)
  BY <1>1 DEF QuotaPersistFails, ReadFails
<1> QED BY <1>3, <1>4, <1>5, <1>6, <1>7, <1>8, <1>9 DEF Pass

\* Within reach, nothing restarts.
LEMMA NoRestarts ==
  ASSUME WithinReach, BlockInv
  PROVE  ~CollectFails /\ ~XrayStop /\ ~XrayStart /\ ~AgentCrash
BY DEF CollectFails, XrayStop, XrayStart, AgentCrash, Fault, WithinReach, BlockInv,
       OnlyCollector

LEMMA BlockStep ==
  ASSUME TypeInv, WithinReach, BlockInv, [Next]_vars
  PROVE  BlockInv'
<1>1. CASE Pass(Collector)
  BY <1>1, CollectorBlock
<1>2. CASE Pass(Startup) \/ \E p \in Requests : NewRequest(p) \/ ServeRequest(p)
  BY <1>2, OthersBlock, Constants
<1>3. CASE Collect
  <2>1. /\ pc[Collector] = "idle" /\ pc'[Collector] = "q_policies"
        /\ UNCHANGED <<xrayUp, runtime, blocked>>
        /\ \A q \in Procs \ {Collector} : pc'[q] = pc[q]
    BY <1>3, Constants DEF Collect, Goto, TypeInv, TypeOK
  <2> QED BY <2>1
      DEF BlockInv, OnlyCollector, PassIsCurrent, BlocksHold, Offline, Live
<1>4. ~CollectFails /\ ~XrayStop /\ ~XrayStart /\ ~AgentCrash
  BY NoRestarts
<1>5. ASSUME UNCHANGED vars \/ \E u \in Users : Traffic(u) \/ WindowSlides(u) \/ UserExpires(u)
      PROVE  BlockInv'
  <2>1. Elsewhere /\ UNCHANGED pc
    BY <1>5, WorldElsewhere DEF Elsewhere, vars, Traffic, WindowSlides, UserExpires
  <2>2. \A u \in Users : usage'[u] \in Nat /\ usage'[u] <= usage[u]
    BY <1>5, Constants DEF vars, Traffic, WindowSlides, UserExpires, TypeInv, TypeOK
  <2> QED BY <2>1, <2>2, ElsewhereHolds DEF BlockInv, OnlyCollector
<1> QED BY <1>1, <1>2, <1>3, <1>4, <1>5 DEF Next, World

LEMMA Invariance == Spec => []IInv
<1>1. Init => IInv
  BY TypeInit, BlockInit DEF IInv
<1>2. IInv /\ [Next]_vars => IInv'
  BY TypeStep, BlockStep DEF IInv, WithinReach
<1> QED BY <1>1, <1>2, PTL DEF Spec

-----------------------------------------------------------------------------

\* The agent is type correct: a statement or call about a row has one in hand, and
\* what is billed stays within the bound.
THEOREM TypeCorrect == Spec => []TypeOK
<1>1. IInv => TypeOK
  BY DEF IInv, TypeInv
<1> QED BY <1>1, Invariance, PTL

-----------------------------------------------------------------------------
(* The agent implements AccessControl.                                     *)

\* Whom the pass is about to let in, and whom it has just let in, is on record as
\* blocked; the row of the latter is not among those to come.
KnowsBlocked ==
  /\ pc[Collector] = "q_usage" => statesSeen[Collector] \subseteq blocked
  /\ pc[Collector] \in {"q_rows", "q_block", "q_unblock"} =>
       \A row \in adds[Collector] : row[1] \in blocked
  /\ pc[Collector] = "q_unblock" =>
       /\ cur[Collector][1] \in blocked
       /\ \A row \in adds[Collector] : row[1] # cur[Collector][1]

\* With one inbound, each user has one row.
LEMMA OneRow ==
  ASSUME WithinReach, NEW r1 \in Rows, NEW r2 \in Rows, r1[1] = r2[1]
  PROVE  r1 = r2
BY DEF WithinReach, Rows

LEMMA KnowsInit == Init => KnowsBlocked
BY Constants DEF Init, KnowsBlocked

LEMMA KnowsStep ==
  ASSUME TypeInv, WithinReach, BlockInv, KnowsBlocked, [Next]_vars
  PROVE  KnowsBlocked'
<1> DEFINE c == Collector
<1>0. \A kind : Fault(kind) => kind = "api_error"
  BY DEF Fault, WithinReach
<1>1. CASE Elsewhere
  BY <1>1 DEF Elsewhere, KnowsBlocked
<1>2. CASE \/ QuotaReadPolicies(c) \/ ExpiryReadPolicies(c) \/ ExpiryPassEnds(c)
           \/ QuotaPassEnds(c) \/ Collect
  <2>1. pc'[c] \in {"q_policies", "q_states", "e_policies", "e_rows", "idle"}
    BY <1>2, Constants
    DEF QuotaReadPolicies, ExpiryReadPolicies, ExpiryPassEnds, QuotaPassEnds, Collect,
        Goto, Return, TypeInv, TypeOK
  <2> QED BY <2>1 DEF KnowsBlocked
<1>3. CASE QuotaReadStates(c)
  <2>1. pc'[c] = "q_usage" /\ statesSeen'[c] = blocked /\ blocked' = blocked
    BY <1>3, Constants DEF QuotaReadStates, Goto, TypeInv, TypeOK
  <2> QED BY <2>1 DEF KnowsBlocked
<1>4. CASE QuotaReadUsage(c)
  <2>1. /\ pc[c] = "q_usage" /\ pc'[c] = "q_rows" /\ blocked' = blocked
        /\ adds'[c] = RowsOf(ToUnblock(policiesSeen[c], statesSeen[c], usage))
    BY <1>4, Constants DEF QuotaReadUsage, Goto, TypeInv, TypeOK
  <2>2. \A row \in adds'[c] : row[1] \in statesSeen[c]
    BY <2>1 DEF RowsOf, ToUnblock
  <2> QED BY <2>1, <2>2 DEF KnowsBlocked
<1>5. CASE QuotaAddRow(c)
  <2>1. PICK row \in adds[c] : RowDone(c, row) /\ cur' = [cur EXCEPT ![c] = row]
    BY <1>5 DEF QuotaAddRow
  <2>2. /\ pc[c] = "q_rows" /\ pc'[c] = "q_unblock" /\ cur'[c] = row
        /\ adds'[c] = adds[c] \ {row} /\ blocked' = blocked /\ adds[c] \subseteq Rows
    BY <1>5, <2>1, Constants DEF QuotaAddRow, Goto, RowDone, TypeInv, TypeOK
  <2>3. \A other \in adds'[c] : other[1] # row[1]
    BY <2>1, <2>2, OneRow
  <2> QED BY <2>2, <2>3 DEF KnowsBlocked
<1>6. CASE QuotaRemoveRow(c) \/ QuotaRowFails(c) \/ ExpiryRow(c)
  <2>1. /\ pc[c] \in {"q_rows", "e_rows"} /\ pc'[c] \in {pc[c], "q_block"}
        /\ pc[c] = "e_rows" => pc'[c] = "e_rows"
        /\ adds'[c] \subseteq adds[c] /\ blocked' = blocked
    BY <1>6, Constants
    DEF QuotaRemoveRow, QuotaRowFails, ExpiryRow, Goto, RowDone, TypeInv, TypeOK
  <2> QED BY <2>1 DEF KnowsBlocked
<1>7. CASE QuotaPersist(c)
  <2>1. /\ pc[c] \in {"q_block", "q_unblock"} /\ pc'[c] = "q_rows" /\ adds' = adds
        /\ blocked' = IF pc[c] = "q_block" THEN blocked \union {cur[c][1]}
                                           ELSE blocked \ {cur[c][1]}
    BY <1>7, Constants DEF QuotaPersist, Goto, TypeInv, TypeOK
  <2> QED BY <2>1 DEF KnowsBlocked
<1>8. ~QuotaPersistFails(c) /\ ~ReadFails(c)
  BY <1>0 DEF QuotaPersistFails, ReadFails
<1>9. CASE Pass(c)
  BY <1>2, <1>3, <1>4, <1>5, <1>6, <1>7, <1>8, <1>9 DEF Pass
<1>10. CASE Pass(Startup) \/ \E p \in Requests : NewRequest(p) \/ ServeRequest(p)
  BY <1>1, <1>10, OthersElsewhere, Constants
<1>11. ~CollectFails /\ ~XrayStop /\ ~XrayStart /\ ~AgentCrash
  BY NoRestarts
<1>12. ASSUME UNCHANGED vars \/ \E u \in Users : Traffic(u) \/ WindowSlides(u) \/ UserExpires(u)
       PROVE  KnowsBlocked'
  <2>1. Elsewhere
    BY <1>12, WorldElsewhere DEF Elsewhere, vars
  <2> QED BY <1>1, <2>1
<1> QED BY <1>2, <1>9, <1>10, <1>11, <1>12 DEF Next, World

\* Who is live, and who is over its quota.
LiveUsers == {u \in Users : Live(u)}
OverUsers == {u \in Users : OverItsQuota(u)}

\* A row that comes or goes is a user that comes or goes.
LEMMA LiveAfter ==
  ASSUME WithinReach, NEW row \in Rows
  PROVE  /\ runtime' = runtime \union {row} => LiveUsers' = LiveUsers \union {row[1]}
         /\ runtime' = runtime \ {row} => LiveUsers' = LiveUsers \ {row[1]}
<1>1. PICK i \in Inbounds : Inbounds = {i}
  BY DEF WithinReach
<1>2. \A u \in Users : (Live(u) <=> <<u, i>> \in runtime) /\ (Live(u)' <=> <<u, i>> \in runtime')
  BY <1>1 DEF Live
<1>3. row[1] \in Users /\ row = <<row[1], i>>
  BY <1>1 DEF Rows
<1>4. \A u \in Users : <<u, i>> = row <=> u = row[1]
  BY <1>3
<1> QED BY <1>2, <1>3, <1>4 DEF LiveUsers

LEMMA LiveStays == UNCHANGED runtime => UNCHANGED LiveUsers
BY DEF LiveUsers, Live

LEMMA OverStays == UNCHANGED <<quotaPolicy, usage>> => UNCHANGED OverUsers
BY DEF OverUsers, OverItsQuota

\* Users whom a call takes out of Xray leave one at a time.
LEMMA RemovalEvicts ==
  ASSUME WithinReach, UNCHANGED <<quotaPolicy, usage, blocked>>,
         runtime' = runtime \/ \E row \in Rows : runtime' = runtime \ {row}
  PROVE  [Access!Next]_Access!accessVars
<1>1. UNCHANGED OverUsers
  BY OverStays
<1>2. CASE runtime' = runtime
  <2>1. UNCHANGED LiveUsers
    BY <1>2, LiveStays
  <2> QED BY <1>1, <2>1 DEF Access!accessVars, LiveUsers, OverUsers
<1>3. ASSUME NEW row \in Rows, runtime' = runtime \ {row}
      PROVE  [Access!Next]_Access!accessVars
  <2>1. row[1] \in Users
    BY RowFields
  <2>2. LiveUsers' = LiveUsers \ {row[1]}
    BY <1>3, LiveAfter
  <2>3. Access!Evict(row[1])
    BY <1>1, <2>2 DEF Access!Evict, LiveUsers, OverUsers
  <2> QED BY <2>1, <2>3 DEF Access!Next
<1> QED BY <1>2, <1>3

\* A measurement, when nobody is on record and live.
LEMMA Measured ==
  ASSUME UNCHANGED <<runtime, blocked>>,
         OverUsers' \subseteq OverUsers \/ \A u \in blocked : Offline(u)
  PROVE  Access!Measure
<1>1. UNCHANGED LiveUsers
  BY LiveStays
<1>2. OverUsers' \in SUBSET Users
  BY DEF OverUsers
<1>3. (OverUsers' \ OverUsers) \intersect blocked \intersect LiveUsers = {}
  BY DEF LiveUsers, Offline
<1> QED BY <1>1, <1>2, <1>3 DEF Access!Measure, LiveUsers, OverUsers

LEMMA AccessInit == Init => Access!Init
<1> SUFFICES ASSUME Init PROVE Access!Init
  OBVIOUS
<1>1. \A u \in Users : Live(u) => u \in config
  BY DEF Init, Live, RowsOf
<1>2. blocked \subseteq Users \ LiveUsers
  BY <1>1 DEF Init, LiveUsers
<1>3. \A u \in Users : ~OverItsQuota(u)
  BY Constants DEF Init, OverItsQuota, OverQuota, QuotaOff, QuotaValues, NoPolicy
<1> QED BY <1>2, <1>3 DEF Access!Init, LiveUsers

\* The quota pass of the collector takes the steps of AccessControl.
LEMMA PassRefines ==
  ASSUME TypeInv, WithinReach, BlockInv, KnowsBlocked, Pass(Collector)
  PROVE  [Access!Next]_Access!accessVars
<1> DEFINE c == Collector
<1>0. \A kind : Fault(kind) => kind = "api_error"
  BY DEF Fault, WithinReach
<1>1. CASE QuotaAddRow(c)
  <2>1. PICK row \in adds[c] : RuntimeAdd(row)
    BY <1>1 DEF QuotaAddRow
  <2>2. /\ row \in Rows /\ pc[c] = "q_rows" /\ runtime' = runtime \union {row}
        /\ UNCHANGED <<quotaPolicy, usage, blocked>>
    BY <1>1, <2>1, Constants DEF QuotaAddRow, RuntimeAdd, TypeInv, TypeOK
  <2>3. row[1] \in Users /\ row[1] \in blocked /\ ~OverItsQuota(row[1])
    BY <2>2, RowFields DEF KnowsBlocked, BlockInv, PassIsCurrent
  <2>4. LiveUsers' = LiveUsers \union {row[1]} /\ UNCHANGED OverUsers
    BY <2>2, LiveAfter, OverStays
  <2>5. Access!Admit(row[1])
    BY <2>2, <2>3, <2>4 DEF Access!Admit, LiveUsers, OverUsers
  <2> QED BY <2>3, <2>5 DEF Access!Next
<1>2. CASE QuotaPersist(c)
  <2> DEFINE u == cur[c][1]
  <2>1. /\ pc[c] \in {"q_block", "q_unblock"} /\ UNCHANGED <<runtime, quotaPolicy, usage>>
        /\ blocked' = IF pc[c] = "q_block" THEN blocked \union {u} ELSE blocked \ {u}
    BY <1>2 DEF QuotaPersist
  <2>2. u \in Users
    BY <2>1, RowFields, Constants DEF TypeInv, InHand, AtRow
  <2>3. UNCHANGED LiveUsers /\ UNCHANGED OverUsers
    BY <2>1, LiveStays, OverStays
  <2>4. CASE pc[c] = "q_block"
    <3>1. u \notin LiveUsers
      BY <2>4 DEF BlockInv, BlocksHold, LiveUsers, Offline
    <3>2. Access!Block(u)
      BY <2>1, <2>3, <2>4, <3>1 DEF Access!Block, LiveUsers, OverUsers
    <3> QED BY <2>2, <3>2 DEF Access!Next
  <2>5. CASE pc[c] = "q_unblock"
    <3>1. u \in blocked \ OverUsers
      BY <2>5 DEF KnowsBlocked, BlockInv, PassIsCurrent, OverUsers
    <3>2. Access!Lift(u)
      BY <2>1, <2>3, <2>5, <3>1 DEF Access!Lift, LiveUsers, OverUsers
    <3> QED BY <2>2, <3>2 DEF Access!Next
  <2> QED BY <2>1, <2>4, <2>5
<1>3. ~QuotaPersistFails(c) /\ ~ReadFails(c)
  BY <1>0 DEF QuotaPersistFails, ReadFails
<1>4. CASE \/ QuotaReadPolicies(c) \/ QuotaReadStates(c) \/ QuotaReadUsage(c)
           \/ ExpiryReadPolicies(c) \/ ExpiryPassEnds(c) \/ QuotaPassEnds(c)
           \/ QuotaRemoveRow(c) \/ QuotaRowFails(c) \/ ExpiryRow(c)
  <2>1. UNCHANGED <<quotaPolicy, usage, blocked>>
    BY <1>4
    DEF QuotaReadPolicies, QuotaReadStates, QuotaReadUsage, ExpiryReadPolicies,
        ExpiryPassEnds, QuotaPassEnds, QuotaRemoveRow, QuotaRowFails, ExpiryRow
  <2>2. adds[c] \subseteq Rows /\ removes[c] \subseteq Rows
    BY Constants DEF TypeInv, TypeOK
  <2>3. runtime' = runtime \/ \E row \in Rows : runtime' = runtime \ {row}
    BY <1>4, <2>2
    DEF QuotaReadPolicies, QuotaReadStates, QuotaReadUsage, ExpiryReadPolicies,
        ExpiryPassEnds, QuotaPassEnds, QuotaRemoveRow, QuotaRowFails, ExpiryRow,
        RuntimeRemove, RuntimeMissing, RuntimeUnavailable, RuntimeAdd
  <2> QED BY <2>1, <2>3, RemovalEvicts
<1> QED BY <1>1, <1>2, <1>3, <1>4 DEF Pass

\* Every step of the agent and of the world is one of AccessControl, or none.
LEMMA AccessStep ==
  ASSUME TypeInv, WithinReach, BlockInv, KnowsBlocked, [Next]_vars
  PROVE  [Access!Next]_Access!accessVars
<1>1. CASE Pass(Collector)
  BY <1>1, PassRefines
<1>2. ASSUME NEW p \in Procs \ {Collector},
             \/ Pass(p)
             \/ p \in Requests /\ (NewRequest(p) \/ ServeRequest(p))
      PROVE  [Access!Next]_Access!accessVars
  <2>1. UNCHANGED <<quotaPolicy, usage, blocked>>
    BY <1>2, OthersElsewhere DEF Elsewhere
  <2>2. runtime' = runtime \/ \E row \in Rows : runtime' = runtime \ {row}
    <3>1. removes[p] \subseteq Rows
      BY DEF TypeInv, TypeOK
    <3> QED BY <1>2, <3>1, OthersActions
        DEF ExpiryReadPolicies, ExpiryRow, ExpiryPassEnds, UsersSync, RemoveRequest,
            PersistConfigStatus, PersistConfigWrite, RuntimeRemove, RuntimeMissing,
            RuntimeUnavailable
  <2> QED BY <2>1, <2>2, RemovalEvicts
<1>3. CASE Collect
  <2>1. pc[Collector] = "idle" /\ UNCHANGED <<runtime, blocked>>
    BY <1>3 DEF Collect
  <2>2. \A u \in blocked : Offline(u)
    BY <2>1 DEF BlockInv, BlocksHold
  <2> QED BY <2>1, <2>2, Measured DEF Access!Next
<1>4. ASSUME NEW u \in Users, WindowSlides(u)
      PROVE  [Access!Next]_Access!accessVars
  <2>1. UNCHANGED <<runtime, blocked, quotaPolicy>>
    BY <1>4 DEF WindowSlides
  <2>2. \A v \in Users : usage[v] \in Nat /\ usage'[v] \in Nat /\ usage'[v] <= usage[v]
                          /\ quotaPolicy[v] \in Int
    BY <1>4, Constants DEF WindowSlides, TypeInv, TypeOK, QuotaValues, NoPolicy, QuotaOff
  <2>3. OverUsers' \subseteq OverUsers
    BY <2>1, <2>2 DEF OverUsers, OverItsQuota, OverQuota, QuotaOff
  <2> QED BY <2>1, <2>3, Measured DEF Access!Next
<1>5. ASSUME UNCHANGED vars \/ \E u \in Users : Traffic(u) \/ UserExpires(u)
      PROVE  [Access!Next]_Access!accessVars
  <2>1. UNCHANGED <<runtime, quotaPolicy, usage, blocked>>
    BY <1>5 DEF vars, Traffic, UserExpires
  <2> QED BY <2>1, RemovalEvicts
<1>6. ~CollectFails /\ ~XrayStop /\ ~XrayStart /\ ~AgentCrash
  BY NoRestarts
<1>7. Startup \in Procs \ {Collector} /\ Requests \subseteq Procs \ {Collector}
  BY Constants
<1> QED BY <1>1, <1>2, <1>3, <1>4, <1>5, <1>6, <1>7 DEF Next, World

\* Within its reach the agent implements AccessControl, for any users and quotas: it
\* lets in, and strikes off the record, only who is on record and within its quota;
\* records as blocked only who is out; and bills no cycle between the two halves of
\* letting somebody in.
THEOREM ImplementsAccess ==
  ASSUME WithinReach
  PROVE  Spec => AccessSpec
<1>1. Init => Access!Init /\ KnowsBlocked
  BY AccessInit, KnowsInit
<1>2. IInv /\ KnowsBlocked /\ [Next]_vars => KnowsBlocked'
  BY KnowsStep DEF IInv
<1>3. IInv /\ KnowsBlocked /\ [Next]_vars => [Access!Next]_Access!accessVars
  BY AccessStep DEF IInv
<1> QED BY <1>1, <1>2, <1>3, Invariance, PTL DEF Spec, AccessSpec, Access!Spec

\* What AccessControl promises is enough for what Enforce relies on when it skips a
\* user: who is on record as blocked and is over its quota is not live.
THEOREM PromiseSuffices == AccessSpec => []BlockedIsOffline
<1>1. Access!Init => BlockedIsOffline
  BY DEF Access!Init, BlockedIsOffline
<1>2. BlockedIsOffline /\ [Access!Next]_Access!accessVars => BlockedIsOffline'
  <2> SUFFICES ASSUME BlockedIsOffline, [Access!Next]_Access!accessVars
               PROVE  blocked' \intersect OverUsers' \intersect LiveUsers' = {}
    BY DEF BlockedIsOffline, OverUsers, LiveUsers, Offline
  <2>1. blocked \intersect OverUsers \intersect LiveUsers = {}
    BY DEF BlockedIsOffline, OverUsers, LiveUsers, Offline
  <2>2. CASE UNCHANGED Access!accessVars
    BY <2>1, <2>2 DEF Access!accessVars, OverUsers, LiveUsers
  <2>3. ASSUME NEW u \in Users, Access!Admit(u) \/ Access!Lift(u) \/ Access!Evict(u) \/ Access!Block(u)
        PROVE  blocked' \intersect OverUsers' \intersect LiveUsers' = {}
    BY <2>1, <2>3
    DEF Access!Admit, Access!Lift, Access!Evict, Access!Block, OverUsers, LiveUsers
  <2>4. CASE Access!Measure
    BY <2>1, <2>4 DEF Access!Measure, OverUsers, LiveUsers
  <2> QED BY <2>2, <2>3, <2>4 DEF Access!Next
<1> QED BY <1>1, <1>2, PTL DEF AccessSpec, Access!Spec

\* Who is recorded as blocked and is over its quota is not live: for any users and
\* quotas, at one inbound, whatever calls of Xray's API fail, and whatever /users/sync,
\* /runtime/user/remove and the writing of config.json do at the same time.
THEOREM BlockedStaysOut ==
  ASSUME WithinReach
  PROVE  Spec => []BlockedIsOffline
BY ImplementsAccess, PromiseSuffices
=============================================================================
