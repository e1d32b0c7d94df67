--------------------------- MODULE UserRolloutProofs ---------------------------
(* Proofs about UserRollout, for any servers, identities and bounds.        *)
EXTENDS UserRollout, FiniteSetTheorems, WellFoundedInduction, TLAPS

-----------------------------------------------------------------------------
(* The inductive invariant.                                                *)

\* The steps on one server that a change of a row, a deploy and a reconcile take.
RowSteps == {"row", "status", "add", "remove", "recheck", "reset"}
DeploySteps == {"materialize", "render", "install", "users", "quota"}
QuotaOps == {"quota_on", "quota_off"}

\* A command works on servers of its own, step by step.
Working ==
  /\ op = "none" <=> at = "idle"
  /\ op = "none" <=> todo = {}
  /\ op = "none" => arg = Absent
  /\ op \in RowOps => todo \subseteq enabled /\ at \in RowSteps \union DeploySteps
  /\ op = "deploy" => at \in DeploySteps /\ (at # "materialize" => full)
  /\ op = "deploy" => \A s, t \in todo : s = t
  /\ op = "reconcile" <=> at = "copy"
  /\ op \notin {"server_add", "server_cleanup"}
  /\ at \in {"row", "status", "add", "remove", "recheck", "reset"} => ~full
  /\ full => at \in DeploySteps
  /\ op = "quota_reset" => at = "reset"
  /\ op \in QuotaOps => at \in {"row", "quota", "recheck", "reset"} /\ ~full
  /\ at \in {"reset", "recheck"} => op \in QuotaOps \union {"quota_reset"}
  /\ op = "add" => arg \in UserRows

\* The servers that the command has still to change, and those it has changed.
Unwritten == IF at = "row" THEN todo ELSE todo \ {Cur}
Written == enabled \ Unwritten

\* While a change is rolled out, the rows it has written have one identity and those
\* it has not yet written another; or, for a removal, they have none.
Rolling ==
  /\ op \in RowOps =>
       \A s, t \in Present \intersect Written : SameIdentity(row[s], row[t])
  /\ op \in RowOps \ {"add"} =>
       /\ \A s, t \in Unwritten : row[s] # Absent /\ SameIdentity(row[s], row[t])
       /\ op # "rm" => enabled = Present
       /\ \A s \in Unwritten, t \in Present \intersect Written :
            IF op \in {"rm", "quota_reset"} THEN SameIdentity(row[t], row[s])
                                             ELSE SameIdentity(row[t], Wanted(row[s]))
  /\ op = "add" =>
       /\ \A s \in Unwritten : row[s] = Absent
       /\ \A s \in Present : SameIdentity(row[s], arg)
  /\ op = "deploy" /\ full => Consistent

\* What Xray holds of the user, what config.json does, and the agent's policy for it,
\* are what the row says.
LiveOK(s) == live[s] # NoUuid => Effective(row[s]) /\ live[s] = row[s].uuid
ConfigOK(s) ==
  /\ config[s] # NoUuid => Effective(row[s]) /\ config[s] = row[s].uuid
  /\ blocks = 0 /\ Effective(row[s]) => config[s] = row[s].uuid
PolicyOK(s) == policy[s] # NoPolicy => Effective(row[s]) /\ policy[s].uuid = row[s].uuid

AllOK(s) == LiveOK(s) /\ ConfigOK(s) /\ PolicyOK(s)

\* All of it is so on a server where no change is broken off or under way, and on the one
\* that is being changed what its step has come to.
Served(s) ==
  /\ s \notin todo \/ s # Cur \/ at \in {"row", "copy", "reset", "recheck"} => AllOK(s)
  /\ ~full /\ at \in {"status", "add", "render", "install"} => LiveOK(s)
  /\ at \in {"users", "quota"} => LiveOK(s) /\ ConfigOK(s)

\* What the step itself relies on.
Prepared ==
  /\ at \in {"status", "add"} => Effective(row[Cur])
  /\ at = "install" =>
       /\ render # NoUuid => Effective(row[Cur]) /\ render = row[Cur].uuid
       /\ blocks = 0 /\ Effective(row[Cur]) => render = row[Cur].uuid

Serving ==
  /\ blocks = 0 => blocked = {}
  /\ \A s \in enabled \ torn : Served(s)
  /\ Prepared

IInv == TypeOK /\ Working /\ Rolling /\ SettledServersAgree /\ Serving

-----------------------------------------------------------------------------
(* Facts about the state.                                                  *)

\* A set of servers that is not empty has a first one.
LEMMA FirstServer ==
  ASSUME NEW S \in SUBSET Servers, S # {}
  PROVE  Min(S) \in S
<1> DEFINE R == {ss \in Nat \X Nat : ss[1] < ss[2]}
<1>1. S \in SUBSET Nat
  BY RolloutAssumption
<1>2. IsWellFoundedOn(R, Nat)
  BY NatLessThanWellFounded DEF OpToRel
<1>3. PICK n \in S : \A m \in S : ~(<<m, n>> \in R)
  BY <1>1, <1>2, WFMin
<1>4. ASSUME NEW m \in S PROVE n <= m
  <2>1. n \in Nat /\ m \in Nat /\ ~(<<m, n>> \in R)
    BY <1>1, <1>3
  <2>2. ~(m < n)
    BY <2>1
  <2> QED BY <2>1, <2>2
<1> QED BY <1>4 DEF Min

\* What is not there has no identity, and has not ended.
LEMMA AbsentRow ==
  /\ Absent \notin UserRows /\ NoPolicy \notin Policies
  /\ ~Effective(Absent) /\ ~Ended(Absent) /\ Absent.uuid = NoUuid
  /\ \A r \in UserRows : r.uuid \in Uuids /\ r.uuid # NoUuid
  /\ \A r \in Policies : r.uuid \in Uuids /\ r.uuid # NoUuid
BY RolloutAssumption DEF Absent, NoPolicy, UserRows, Policies, Effective, Ended

\* The bounds are numbers.
LEMMA Numbers == MaxCommands \in Nat /\ MaxFaults \in Nat /\ MaxBlocks \in Nat
BY RolloutAssumption

\* The row of a server, and what its machine holds.
LEMMA Fields ==
  ASSUME TypeOK, NEW s \in Servers
  PROVE  /\ row[s] \in UserRows \union {Absent} /\ mirror[s] \in UserRows \union {Absent}
         /\ policy[s] \in Policies \union {NoPolicy}
         /\ live[s] \in Uuids \union {NoUuid} /\ config[s] \in Uuids \union {NoUuid}
         /\ row[s].uuid \in Uuids \union {NoUuid} /\ policy[s].uuid \in Uuids \union {NoUuid}
         /\ row[s] # Absent => row[s] \in UserRows
         /\ Effective(row[s]) => row[s] \in UserRows
<1>1. /\ row[s] \in UserRows \union {Absent} /\ mirror[s] \in UserRows \union {Absent}
      /\ policy[s] \in Policies \union {NoPolicy}
      /\ live[s] \in Uuids \union {NoUuid} /\ config[s] \in Uuids \union {NoUuid}
  BY DEF TypeOK
<1>2. NoPolicy.uuid = NoUuid
  BY DEF NoPolicy
<1> QED BY <1>1, <1>2, AbsentRow

\* The servers are those that are known.
LEMMA ServerSets ==
  ASSUME TypeOK
  PROVE  /\ enabled \subseteq Servers /\ todo \subseteq Servers /\ Present \subseteq enabled
         /\ todo # {} => Cur \in todo /\ Cur \in Servers
         /\ Present # {} => Min(Present) \in Present /\ Min(Present) \in Servers
<1>1. enabled \subseteq Servers /\ todo \subseteq Servers /\ Present \subseteq enabled
  BY DEF TypeOK, Present
<1> QED BY <1>1, FirstServer DEF Cur

\* What the command holds.
CmdOK ==
  /\ op \in Ops \union {"none"} /\ at \in Steps
  /\ arg \in UserRows \union {Absent}
  /\ todo \subseteq listed
  /\ full \in BOOLEAN /\ render \in Uuids \union {NoUuid}
  /\ torn \subseteq listed /\ result \in RowOps \union {"none", "failed"}
  /\ commands \in 0 .. MaxCommands

\* A command begins, goes on, and ends, well or not.
LEMMA StartType ==
  ASSUME TypeOK, NEW o \in Ops, NEW label \in Steps, Start(o, label), todo' \subseteq listed,
         arg' \in UserRows \union {Absent}
  PROVE  TypeOK'
<1>1. commands' \in 0 .. MaxCommands
  BY Numbers DEF Start, TypeOK
<1> QED BY <1>1 DEF Start, localVars, hostVars, agentVars, TypeOK

\* It goes on.
LEMMA GotoType ==
  ASSUME TypeOK, NEW label \in Steps, Goto(label), listed' = listed
  PROVE  CmdOK'
BY DEF Goto, histVars, CmdOK, TypeOK

\* It ends with an error.
LEMMA GiveUpType ==
  ASSUME TypeOK, GiveUp, listed' = listed
  PROVE  CmdOK'
BY DEF GiveUp, CmdOK, TypeOK, Steps

\* It is done with a server.
LEMMA FinishType ==
  ASSUME TypeOK, NEW s, Finish(s), listed' = listed
  PROVE  CmdOK'
BY DEF Finish, FirstStep, CmdOK, TypeOK, Steps

\* What a fault costs.
LEMMA FaultType ==
  ASSUME TypeOK, Fault \/ UNCHANGED faults
  PROVE  faults' \in 0 .. MaxFaults
BY Numbers DEF Fault, TypeOK

\* The type of the state is that of its parts.
LEMMA TypeParts ==
  ASSUME enabled' \subseteq listed', stamped' \subseteq listed', listed' \subseteq Servers,
         row' \in [Servers -> UserRows \union {Absent}], CmdOK', up' \subseteq listed',
         live' \in [Servers -> Uuids \union {NoUuid}],
         config' \in [Servers -> Uuids \union {NoUuid}],
         mirror' \in [Servers -> UserRows \union {Absent}],
         policy' \in [Servers -> Policies \union {NoPolicy}], blocked' \subseteq Servers,
         faults' \in 0 .. MaxFaults, blocks' \in 0 .. MaxBlocks
  PROVE  TypeOK'
BY DEF TypeOK, CmdOK

\* Xray with the user and without it.
LEMMA LiveType ==
  ASSUME TypeOK, NEW s \in Servers, NEW id \in Uuids \union {NoUuid}
  PROVE  /\ WithUser(s, id) \in [Servers -> Uuids \union {NoUuid}]
         /\ WithoutUser(s) \in [Servers -> Uuids \union {NoUuid}]
BY DEF WithUser, WithoutUser, TypeOK

\* A row that a server takes from another has a user.
LEMMA CopiedRow ==
  ASSUME NEW r \in UserRows, NEW q \in UserRows
  PROVE  /\ Inserted(r) \in UserRows /\ SameIdentity(Inserted(r), r)
         /\ [r EXCEPT !.capped = q.capped] \in UserRows
         /\ SameIdentity([r EXCEPT !.capped = q.capped], r)
BY DEF Inserted, UserRows, SameIdentity

\* So has one that it takes from the first enabled server that has the user.
LEMMA MaterializedRow ==
  ASSUME TypeOK, NEW s \in Servers
  PROVE  /\ Materialized(s) \in UserRows \union {Absent}
         /\ Present = {} => Materialized(s) = row[s]
         /\ Present # {} => /\ Materialized(s) \in UserRows
                            /\ SameIdentity(Materialized(s), row[Min(Present)])
<1>1. CASE Present = {}
  BY <1>1, Fields DEF Materialized
<1>2. CASE Present # {}
  <2> DEFINE want == row[Min(Present)]
  <2>1. Min(Present) \in Servers /\ want \in UserRows
    BY <1>2, ServerSets, Fields DEF Present
  <2>2. Materialized(s) = IF row[s] = Absent THEN Inserted(want)
                          ELSE [want EXCEPT !.capped = row[s].capped]
    BY <1>2 DEF Materialized
  <2> HIDE DEF want
  <2>3. Materialized(s) \in UserRows /\ SameIdentity(Materialized(s), want)
    BY <2>1, <2>2, Fields, CopiedRow
  <2> QED BY <1>2, <2>3 DEF want
<1> QED BY <1>1, <1>2

\* The row that a command wants.
LEMMA WantedRow ==
  ASSUME op \in RowOps \ {"quota_reset"}, op = "add" => arg \in UserRows,
         NEW r, op # "add" => r \in UserRows
  PROVE  Wanted(r) \in UserRows \union {Absent}
BY DEF Wanted, RowOps, UserRows

-----------------------------------------------------------------------------
(* The type of the state.                                                  *)

\* In the beginning.
LEMMA TypeInit == Init => TypeOK
<1> SUFFICES ASSUME Init PROVE TypeOK
  OBVIOUS
<1>1. /\ row \in [Servers -> UserRows \union {Absent}]
      /\ live \in [Servers -> Uuids \union {NoUuid}] /\ config \in [Servers -> Uuids \union {NoUuid}]
      /\ mirror \in [Servers -> UserRows \union {Absent}]
      /\ policy \in [Servers -> Policies \union {NoPolicy}]
  BY DEF Init
<1>2. /\ commands \in 0 .. MaxCommands /\ faults \in 0 .. MaxFaults /\ blocks \in 0 .. MaxBlocks
  BY Numbers DEF Init
<1>3. /\ enabled \subseteq listed /\ stamped \subseteq listed /\ listed \subseteq Servers
      /\ up \subseteq listed /\ torn \subseteq listed /\ todo \subseteq listed /\ blocked \subseteq Servers
  BY RolloutAssumption DEF Init
<1>4. policy \in [Servers -> Policies \union {NoPolicy}]
  BY DEF Init
<1>5. /\ op \in Ops \union {"none"} /\ at \in Steps /\ arg \in UserRows \union {Absent}
      /\ full \in BOOLEAN /\ render \in Uuids \union {NoUuid}
      /\ result \in RowOps \union {"none", "failed"}
  BY DEF Init, Steps
<1> QED BY <1>1, <1>2, <1>3, <1>4, <1>5 DEF TypeOK

\* A command starts.
LEMMA TypeOfCommand ==
  ASSUME TypeOK, Working, Command
  PROVE  TypeOK'
<1>1. CASE AddUserCmd
  <2>1. PICK id \in Uuids, p \in BOOLEAN :
          arg' = [uuid |-> id, on |-> TRUE, past |-> p, capped |-> TRUE]
    BY <1>1 DEF AddUserCmd
  <2>2. arg' \in UserRows \union {Absent} /\ todo' \subseteq listed
    BY <1>1, <2>1 DEF AddUserCmd, UserRows, TypeOK
  <2>3. "add" \in Ops /\ "row" \in Steps /\ Start("add", "row")
    BY <1>1 DEF AddUserCmd, Start, Steps
  <2> QED BY <2>2, <2>3, StartType
<1>2. CASE ChangeUserCmd
  <2>1. PICK o \in RowOps \ {"add"} : Start(o, IF o = "quota_reset" THEN "reset" ELSE "row")
    BY <1>2 DEF ChangeUserCmd
  <2>2. arg' \in UserRows \union {Absent} /\ todo' \subseteq listed
    BY <1>2 DEF ChangeUserCmd, TypeOK
  <2>3. o \in Ops /\ (IF o = "quota_reset" THEN "reset" ELSE "row") \in Steps
    BY <2>1 DEF Start, Steps
  <2> QED BY <2>1, <2>2, <2>3, StartType
<1>3. CASE DeployCmd
  <2>1. arg' \in UserRows \union {Absent} /\ todo' \subseteq listed
    BY <1>3 DEF DeployCmd
  <2>2. "deploy" \in Ops /\ "materialize" \in Steps /\ Start("deploy", "materialize")
    BY <1>3 DEF DeployCmd, Start, Steps
  <2> QED BY <2>1, <2>2, StartType
<1>4. CASE ReconcileCmd
  <2>1. arg' \in UserRows \union {Absent} /\ todo' \subseteq listed
    BY <1>4, Fields DEF ReconcileCmd, TypeOK
  <2>2. "reconcile" \in Ops /\ "copy" \in Steps /\ Start("reconcile", "copy")
    BY <1>4 DEF ReconcileCmd, Start, Steps
  <2> QED BY <2>1, <2>2, StartType
<1>5. CASE ServerAddCmd
  <2>1. PICK s \in Servers \ listed :
          /\ listed' = listed \union {s} /\ enabled' = enabled \union {s}
          /\ torn' = torn \union {s}
          /\ \E r \in {Materialized(s), Absent} : row' = [row EXCEPT ![s] = r]
    BY <1>5 DEF ServerAddCmd
  <2>2. row' \in [Servers -> UserRows \union {Absent}]
    BY <2>1, MaterializedRow DEF TypeOK
  <2>3. commands' \in 0 .. MaxCommands /\ faults' \in 0 .. MaxFaults
    BY <1>5, Numbers DEF ServerAddCmd, TypeOK
  <2> QED BY <1>5, <2>1, <2>2, <2>3 DEF ServerAddCmd, cmdVars, hostVars, agentVars, TypeOK
<1>6. CASE ServerCleanupCmd
  <2>1. PICK s \in listed, wiped \in BOOLEAN :
          /\ CleanedUp(s, wiped)
          /\ \/ Deleted(s) /\ UNCHANGED faults
             \/ /\ enabled' = enabled \ {s}
                /\ torn' = torn \union {s}
                /\ UNCHANGED <<listed, stamped, row, faults>>
             \/ /\ faults < MaxFaults /\ faults' = faults + 1
                /\ torn' = torn \union {s}
                /\ UNCHANGED localVars
    BY <1>6 DEF ServerCleanupCmd
  <2>2. commands' \in 0 .. MaxCommands
    BY <1>6, Numbers DEF ServerCleanupCmd, TypeOK
  <2>3. faults' \in 0 .. MaxFaults
    BY <2>1, Numbers DEF TypeOK
  <2>4. /\ live' \in [Servers -> Uuids \union {NoUuid}]
        /\ config' \in [Servers -> Uuids \union {NoUuid}]
        /\ mirror' \in [Servers -> UserRows \union {Absent}]
        /\ policy' \in [Servers -> Policies \union {NoPolicy}]
        /\ blocked' \subseteq Servers
    BY <2>1 DEF CleanedUp, TypeOK
  <2>5. /\ enabled' \subseteq listed' /\ stamped' \subseteq listed' /\ listed' \subseteq Servers
        /\ row' \in [Servers -> UserRows \union {Absent}] /\ torn' \subseteq listed'
    BY <2>1 DEF Deleted, localVars, TypeOK
  <2>6. todo' \subseteq listed' /\ up' \subseteq listed'
    <3>1. todo' = {}
      BY <1>6 DEF ServerCleanupCmd, cmdVars, Working
    <3>2. up' \subseteq listed'
      BY <2>1 DEF CleanedUp, Deleted, localVars, TypeOK
    <3> QED BY <3>1, <3>2
  <2> QED BY <1>6, <2>1, <2>2, <2>3, <2>4, <2>5, <2>6
      DEF ServerCleanupCmd, CleanedUp, cmdVars, TypeOK
<1> QED BY <1>1, <1>2, <1>3, <1>4, <1>5, <1>6 DEF Command

\* The server that is being changed is known.
LEMMA Changing ==
  ASSUME TypeOK, Working, at # "idle"
  PROVE  Cur \in todo /\ Cur \in Servers /\ Cur \in listed /\ op # "none"
BY ServerSets DEF Working, TypeOK

\* A step on a server.
LEMMA TypeOfStep ==
  ASSUME TypeOK, Working, Rolling, Step
  PROVE  TypeOK'
<1> DEFINE S == Cur
<1>0. S \in Servers /\ S \in todo /\ S \in listed /\ op # "none"
  BY Changing DEF Step, WriteRow, AskStatus, AddLive, RemoveLive, Materialize, Render, Install,
     SyncUsers, SyncQuota, Recheck, ResetQuota, CopyRow
<1>f. /\ row[S] \in UserRows \union {Absent} /\ mirror[S] \in UserRows \union {Absent}
      /\ policy[S] \in Policies \union {NoPolicy}
      /\ row[S].uuid \in Uuids \union {NoUuid} /\ policy[S].uuid \in Uuids \union {NoUuid}
  BY <1>0, Fields
<1>w. ASSUME NEW id \in Uuids \union {NoUuid}
      PROVE  /\ WithUser(S, id) \in [Servers -> Uuids \union {NoUuid}]
             /\ WithoutUser(S) \in [Servers -> Uuids \union {NoUuid}]
  BY <1>0, LiveType
<1>1. CASE WriteRow
  <2>1. op \in RowOps \ {"quota_reset"} /\ (op = "add" => arg \in UserRows)
    BY <1>1, <1>0, RolloutAssumption DEF WriteRow, Working, RowOps, ServerOps, DeploySteps, TypeOK
  <2>2. op # "add" => row[S] \in UserRows
    BY <1>1, <1>0, <2>1, Fields DEF WriteRow, Rolling, Unwritten
  <2>3. Wanted(row[S]) \in UserRows \union {Absent}
    BY <2>1, <2>2, WantedRow
  <2>4. row' \in [Servers -> UserRows \union {Absent}]
    BY <1>1, <2>3 DEF WriteRow, TypeOK
  <2>5. NextStep(row[S], Wanted(row[S])) \in Steps
    BY DEF NextStep, Steps
  <2>6. CmdOK'
    BY <1>1, <2>5, GotoType DEF WriteRow
  <2> QED BY <1>1, <2>4, <2>6, TypeParts DEF WriteRow, hostVars, agentVars, TypeOK
<1>2. CASE AskStatus
  <2>1. CmdOK'
    BY <1>2, GotoType DEF AskStatus, localVars, Steps
  <2>2. faults' \in 0 .. MaxFaults
    BY <1>2, FaultType DEF AskStatus, Answers, NotReached
  <2> QED BY <1>2, <2>1, <2>2, TypeParts DEF AskStatus, localVars, hostVars, agentVars, TypeOK
<1>3. CASE AddLive
  <2>1. CmdOK'
    BY <1>3, GotoType DEF AddLive, localVars, Steps
  <2>2. faults' \in 0 .. MaxFaults
    BY <1>3, FaultType DEF AddLive, Answers, NotReached, AnswerLost
  <2>3. live' \in [Servers -> Uuids \union {NoUuid}] /\ blocked' \subseteq Servers
    BY <1>3, <1>w, <1>f DEF AddLive, TypeOK
  <2> QED BY <1>3, <2>1, <2>2, <2>3, TypeParts DEF AddLive, localVars, TypeOK
<1>4. CASE RemoveLive
  <2>1. CmdOK'
    BY <1>4, GotoType DEF RemoveLive, localVars, Steps
  <2>2. faults' \in 0 .. MaxFaults
    BY <1>4, FaultType DEF RemoveLive, Answers, NotReached, AnswerLost
  <2>3. live' \in [Servers -> Uuids \union {NoUuid}]
    BY <1>4, <1>w DEF RemoveLive, TypeOK
  <2> QED BY <1>4, <2>1, <2>2, <2>3, TypeParts DEF RemoveLive, localVars, agentVars, TypeOK
<1>5. CASE Materialize
  <2>1. CmdOK'
    BY <1>5, GiveUpType DEF Materialize, histVars, CmdOK, TypeOK, Steps
  <2>2. row' \in [Servers -> UserRows \union {Absent}]
    BY <1>5, <1>0, MaterializedRow DEF Materialize, TypeOK
  <2> QED BY <1>5, <2>1, <2>2, TypeParts DEF Materialize, hostVars, agentVars, TypeOK
<1>6. CASE Render
  <2>1. CmdOK'
    BY <1>6, <1>f, GiveUpType DEF Render, localVars, histVars, CmdOK, TypeOK, Steps
  <2>2. faults' \in 0 .. MaxFaults
    BY <1>6, FaultType DEF Render, Answers, NotReached
  <2> QED BY <1>6, <2>1, <2>2, TypeParts DEF Render, localVars, hostVars, agentVars, TypeOK
<1>7. CASE Install
  <2>1. CmdOK'
    BY <1>7, GiveUpType DEF Install, localVars, CmdOK, TypeOK, Steps
  <2>2. faults' \in 0 .. MaxFaults
    BY <1>7, FaultType DEF Install
  <2>3. /\ live' \in [Servers -> Uuids \union {NoUuid}] /\ up' \subseteq listed
        /\ config' \in [Servers -> Uuids \union {NoUuid}]
    BY <1>7, <1>0 DEF Install, InstallConfig, Recreate, TypeOK
  <2> QED BY <1>7, <2>1, <2>2, <2>3, TypeParts DEF Install, localVars, agentVars, TypeOK
<1>8. CASE SyncUsers
  <2>1. CmdOK'
    BY <1>8, GiveUpType, GotoType DEF SyncUsers, localVars, Steps
  <2>2. faults' \in 0 .. MaxFaults
    BY <1>8, FaultType DEF SyncUsers, Answers, NotReached, AnswerLost
  <2>3. live' \in [Servers -> Uuids \union {NoUuid}]
    BY <1>8, <1>w DEF SyncUsers, TypeOK
  <2>4. mirror' \in [Servers -> UserRows \union {Absent}]
    BY <1>8, <1>f DEF SyncUsers, TypeOK
  <2> QED BY <1>8, <2>1, <2>2, <2>3, <2>4, TypeParts DEF SyncUsers, localVars, TypeOK
<1>9. CASE SyncQuota
  <2>1. CmdOK'
    BY <1>9, GiveUpType, GotoType, FinishType DEF SyncQuota, Steps
  <2>2. faults' \in 0 .. MaxFaults
    BY <1>9, FaultType DEF SyncQuota, Answers, NotReached, AnswerLost
  <2>3. PolicyOf(row[S]) \in Policies \union {NoPolicy}
    BY <1>0, Fields DEF PolicyOf, Policies, UserRows
  <2>4. PolicyOf(row[S]).uuid \in Uuids \union {NoUuid}
    BY <2>3, AbsentRow DEF NoPolicy
  <2>5. /\ live' \in [Servers -> Uuids \union {NoUuid}] /\ blocked' \subseteq Servers
        /\ policy' \in [Servers -> Policies \union {NoPolicy}]
    BY <1>9, <1>w, <2>3, <2>4 DEF SyncQuota, QuotaSynced, TypeOK
  <2>6. stamped' \subseteq listed
    BY <1>9, <1>0 DEF SyncQuota, TypeOK
  <2> QED BY <1>9, <2>1, <2>2, <2>5, <2>6, TypeParts DEF SyncQuota, TypeOK
<1>10. CASE Recheck
  <2>1. CmdOK'
    BY <1>10, GiveUpType, GotoType, FinishType DEF Recheck, localVars, Steps
  <2>2. faults' \in 0 .. MaxFaults
    BY <1>10, FaultType DEF Recheck, Answers, NotReached
  <2> QED BY <1>10, <2>1, <2>2, TypeParts DEF Recheck, localVars, hostVars, agentVars, TypeOK
<1>11. CASE ResetQuota
  <2>1. CmdOK'
    BY <1>11, GiveUpType, FinishType DEF ResetQuota, localVars
  <2>2. faults' \in 0 .. MaxFaults
    BY <1>11, FaultType DEF ResetQuota, Answers, NotReached, AnswerLost
  <2>3. /\ live' \in [Servers -> Uuids \union {NoUuid}] /\ blocked' \subseteq Servers
    BY <1>11, <1>w, <1>f DEF ResetQuota, TypeOK
  <2> QED BY <1>11, <2>1, <2>2, <2>3, TypeParts DEF ResetQuota, localVars, TypeOK
<1>12. CASE CopyRow
  <2>1. CmdOK'
    BY <1>12, <1>0 DEF CopyRow, CmdOK, TypeOK, Steps
  <2>2. (IF row[S] = Absent /\ arg # Absent THEN Inserted(arg) ELSE arg)
          \in UserRows \union {Absent}
    BY CopiedRow DEF TypeOK
  <2>3. row' \in [Servers -> UserRows \union {Absent}]
    BY <1>12, <2>2 DEF CopyRow, TypeOK
  <2> QED BY <1>12, <2>1, <2>3, TypeParts DEF CopyRow, hostVars, agentVars, TypeOK
<1> QED BY <1>1, <1>2, <1>3, <1>4, <1>5, <1>6, <1>7, <1>8, <1>9, <1>10, <1>11, <1>12 DEF Step

\* The servers by themselves, and an interruption.
LEMMA TypeOfRest ==
  ASSUME TypeOK, Host \/ Interrupt
  PROVE  TypeOK'
<1>1. CASE Interrupt
  <2>1. CmdOK'
    BY <1>1, GiveUpType DEF Interrupt, localVars
  <2>2. faults' \in 0 .. MaxFaults
    BY <1>1, FaultType DEF Interrupt
  <2> QED BY <1>1, <2>1, <2>2, TypeParts DEF Interrupt, localVars, hostVars, agentVars, TypeOK
<1>2. CASE Host
  <2>1. PICK s \in Servers : XrayRestart(s) \/ AgentBlocks(s) \/ AgentUnblocks(s) \/ AgentExpires(s)
    BY <1>2 DEF Host
  <2>2. policy[s].uuid \in Uuids \union {NoUuid}
    BY Fields
  <2>3. /\ live' \in [Servers -> Uuids \union {NoUuid}] /\ blocked' \subseteq Servers
    <3>1. CASE XrayRestart(s)
      BY <3>1, LiveType DEF XrayRestart, agentVars, TypeOK
    <3>2. CASE AgentBlocks(s)
      BY <3>2, LiveType DEF AgentBlocks, TypeOK
    <3>3. CASE AgentUnblocks(s)
      BY <2>2, <3>3, LiveType DEF AgentUnblocks, TypeOK
    <3>4. CASE AgentExpires(s)
      BY <3>4, LiveType DEF AgentExpires, agentVars, TypeOK
    <3> QED BY <2>1, <3>1, <3>2, <3>3, <3>4
  <2>4. blocks' \in 0 .. MaxBlocks
    BY <2>1, Numbers DEF XrayRestart, AgentBlocks, AgentUnblocks, AgentExpires, TypeOK
  <2>5. CmdOK'
    BY <2>1 DEF XrayRestart, AgentBlocks, AgentUnblocks, AgentExpires, Disturb,
       localVars, cmdVars, histVars, CmdOK, TypeOK
  <2> QED BY <2>1, <2>3, <2>4, <2>5, TypeParts DEF XrayRestart, AgentBlocks, AgentUnblocks,
          AgentExpires, localVars, agentVars, TypeOK
<1> QED BY <1>1, <1>2

\* Each step keeps the type.
LEMMA TypeStep ==
  ASSUME TypeOK, Working, Rolling, [Next]_vars
  PROVE  TypeOK'
<1>1. CASE UNCHANGED vars
  BY <1>1 DEF vars, localVars, cmdVars, hostVars, agentVars, histVars, TypeOK
<1> QED BY <1>1, TypeOfCommand, TypeOfStep, TypeOfRest DEF Next

-----------------------------------------------------------------------------
(* The command that runs.                                                  *)

\* What Working says, for a step.
LEMMA WorkingOfCommand ==
  ASSUME TypeOK, Working, Command
  PROVE  Working'
<1>1. CASE AddUserCmd
  BY <1>1 DEF AddUserCmd, Start, Working, Admitted, RowSteps, DeploySteps, RowOps, QuotaOps, UserRows, localVars
<1>2. CASE ChangeUserCmd
  BY <1>2 DEF ChangeUserCmd, Start, Working, Admitted, RowSteps, DeploySteps, RowOps, QuotaOps, localVars
<1>3. CASE DeployCmd
  BY <1>3 DEF DeployCmd, Start, Working, RowSteps, DeploySteps, RowOps, QuotaOps, localVars
<1>4. CASE ReconcileCmd
  BY <1>4 DEF ReconcileCmd, Start, Working, RowSteps, DeploySteps, RowOps, QuotaOps, localVars
<1>5. CASE ServerAddCmd \/ ServerCleanupCmd
  BY <1>5 DEF ServerAddCmd, ServerCleanupCmd, cmdVars, Working, RowSteps, DeploySteps, RowOps, QuotaOps
<1> QED BY <1>1, <1>2, <1>3, <1>4, <1>5 DEF Command

\* A step on a server leads to another, or ends the command.
LEMMA WorkingOfStep ==
  ASSUME TypeOK, Working, Step
  PROVE  Working'
<1>0. op \in RowOps \union ServerOps \union {"none"}
  BY RolloutAssumption DEF TypeOK
<1>1. CASE WriteRow
  BY <1>0, <1>1 DEF WriteRow, NextStep, Goto, Working, RowSteps, DeploySteps, RowOps, ServerOps, QuotaOps,
     localVars, histVars
<1>2. CASE AskStatus
  BY <1>0, <1>2 DEF AskStatus, Goto, Working, RowSteps, DeploySteps, RowOps, ServerOps, QuotaOps,
     localVars, histVars
<1>3. CASE AddLive
  BY <1>0, <1>3 DEF AddLive, Goto, Working, RowSteps, DeploySteps, RowOps, ServerOps, QuotaOps,
     localVars, histVars
<1>4. CASE RemoveLive
  BY <1>0, <1>4 DEF RemoveLive, Goto, Working, RowSteps, DeploySteps, RowOps, ServerOps, QuotaOps,
     localVars, histVars
<1>5. CASE Materialize
  BY <1>0, <1>5 DEF Materialize, GiveUp, Working, RowSteps, DeploySteps, RowOps, ServerOps, QuotaOps,
     localVars, histVars
<1>6. CASE Render
  BY <1>0, <1>6 DEF Render, GiveUp, Working, RowSteps, DeploySteps, RowOps, ServerOps, QuotaOps,
     localVars, histVars
<1>7. CASE Install
  BY <1>0, <1>7 DEF Install, GiveUp, Working, RowSteps, DeploySteps, RowOps, ServerOps, QuotaOps,
     localVars, histVars
<1>8. CASE SyncUsers
  BY <1>0, <1>8 DEF SyncUsers, GiveUp, Goto, Working, RowSteps, DeploySteps, RowOps, ServerOps, QuotaOps,
     localVars, histVars
<1>9. CASE SyncQuota
  <2>1. \/ GiveUp \/ Goto("quota")
        \/ op \in QuotaOps /\ Goto("recheck")
        \/ op \notin QuotaOps /\ Finish(Cur)
    BY <1>9 DEF SyncQuota, QuotaOps
  <2>2. at = "quota" /\ enabled' = enabled /\ Cur \in todo
    BY <1>9, Changing DEF SyncQuota
  <2>3. CASE GiveUp
    BY <2>2, <2>3 DEF GiveUp, Working, RowSteps, DeploySteps, RowOps, QuotaOps
  <2>4. ASSUME Goto("quota") \/ Goto("recheck"), Goto("recheck") => op \in QuotaOps
        PROVE  Working'
    <3>1. \/ at' = "quota"
          \/ at' = "recheck" /\ op \in QuotaOps
      BY <2>4 DEF Goto
    <3>2. UNCHANGED <<op, arg, todo, full>>
      BY <2>4 DEF Goto
    <3>3. op \in QuotaOps => ~full
      BY <2>2 DEF Working, QuotaOps
    <3> QED BY <2>2, <3>1, <3>2, <3>3 DEF Working, RowSteps, DeploySteps, RowOps, QuotaOps
  <2>5. CASE op \notin QuotaOps /\ Finish(Cur)
    <3>1. CASE todo' = {} /\ op' = "none" /\ arg' = Absent /\ at' = "idle"
      BY <2>2, <2>5, <3>1 DEF Finish, Working, RowSteps, DeploySteps, RowOps, QuotaOps
    <3>2. CASE todo' # {} /\ at' = FirstStep /\ UNCHANGED <<op, arg, result>>
      BY <1>0, <2>2, <2>5, <3>2 DEF Finish, FirstStep, Working, RowSteps, DeploySteps, RowOps, ServerOps, QuotaOps
    <3> QED BY <2>5, <3>1, <3>2 DEF Finish
  <2>6. Goto("quota") => ~Goto("recheck")
    BY DEF Goto
  <2> QED BY <2>1, <2>3, <2>4, <2>5, <2>6
<1>10. CASE Recheck
  BY <1>0, <1>10 DEF Recheck, GiveUp, Goto, Finish, FirstStep, Working, RowSteps, DeploySteps, RowOps, ServerOps, QuotaOps,
     localVars, histVars
<1>11. CASE ResetQuota
  BY <1>0, <1>11 DEF ResetQuota, GiveUp, Finish, FirstStep, Working, RowSteps, DeploySteps, RowOps, ServerOps, QuotaOps,
     localVars, histVars
<1>12. CASE CopyRow
  BY <1>0, <1>12 DEF CopyRow, Working, RowSteps, DeploySteps, RowOps, ServerOps, QuotaOps,
     localVars, histVars
<1> QED BY <1>1, <1>2, <1>3, <1>4, <1>5, <1>6, <1>7, <1>8, <1>9, <1>10, <1>11, <1>12 DEF Step

\* Each step leaves a command at one of its own steps.
LEMMA WorkingStep ==
  ASSUME TypeOK, Working, [Next]_vars
  PROVE  Working'
<1>1. CASE UNCHANGED vars \/ Host
  BY <1>1 DEF vars, Host, XrayRestart, AgentBlocks, AgentUnblocks, AgentExpires, localVars, cmdVars, Working
<1>2. CASE Interrupt
  BY <1>2 DEF Interrupt, GiveUp, Working, RowOps, QuotaOps, RowSteps, DeploySteps
<1> QED BY <1>1, <1>2, WorkingOfCommand, WorkingOfStep DEF Next

-----------------------------------------------------------------------------
(* The rows while a change is rolled out.                                   *)

\* A command that changes a row treats rows of one identity alike.
LEMMA WantedSame ==
  ASSUME op \in RowOps \ {"add", "rm", "quota_reset"}, NEW r \in UserRows, NEW q \in UserRows
  PROVE  /\ Wanted(r) \in UserRows
         /\ SameIdentity(r, q) => SameIdentity(Wanted(r), Wanted(q))
<1>1. \/ Wanted(r) = [r EXCEPT !.on = TRUE] /\ Wanted(q) = [q EXCEPT !.on = TRUE]
      \/ Wanted(r) = [r EXCEPT !.on = FALSE] /\ Wanted(q) = [q EXCEPT !.on = FALSE]
      \/ Wanted(r) = [r EXCEPT !.past = TRUE] /\ Wanted(q) = [q EXCEPT !.past = TRUE]
      \/ /\ Wanted(r) = [r EXCEPT !.past = FALSE, !.on = TRUE]
         /\ Wanted(q) = [q EXCEPT !.past = FALSE, !.on = TRUE]
      \/ Wanted(r) = [r EXCEPT !.capped = TRUE] /\ Wanted(q) = [q EXCEPT !.capped = TRUE]
      \/ Wanted(r) = [r EXCEPT !.capped = FALSE] /\ Wanted(q) = [q EXCEPT !.capped = FALSE]
  BY DEF Wanted, RowOps
<1> QED BY <1>1 DEF UserRows, SameIdentity

\* Identity is an equivalence.
LEMMA SameIsSame ==
  /\ \A r, q : SameIdentity(r, q) => SameIdentity(q, r)
  /\ \A r, q, p : SameIdentity(r, q) /\ SameIdentity(q, p) => SameIdentity(r, p)
  /\ \A r : SameIdentity(r, r)
BY DEF SameIdentity

\* Where no row changes and none is counted as written, what was so stays so.
LEMMA RollingStays ==
  ASSUME Rolling, UNCHANGED <<row, enabled, op, arg, todo>>, at = "row" <=> at' = "row",
         op = "deploy" /\ full' => full
  PROVE  Rolling'
<1>1. Unwritten' = Unwritten
  BY DEF Unwritten, Cur
<1>2. Written' = Written /\ Present' = Present /\ Consistent' = Consistent
  BY <1>1 DEF Written, Present, Consistent
<1> QED BY <1>1, <1>2 DEF Rolling, Wanted

\* What the rows of the servers that are written are, seen from one that is not.
Wish(s) == IF op \in {"rm", "quota_reset"} THEN row[s] ELSE Wanted(row[s])

\* It is enough to compare what is written with what is wished for.
LEMMA RollingIfChanged ==
  ASSUME op' \in RowOps \ {"add"},
         \A s, t \in (Present \intersect Written)' : SameIdentity(row'[s], row'[t]),
         \A s, t \in Unwritten' : row'[s] # Absent /\ SameIdentity(row'[s], row'[t]),
         op' # "rm" => enabled' = Present',
         \A s \in Unwritten', t \in (Present \intersect Written)' :
           SameIdentity(row'[t], Wish(s)')
  PROVE  Rolling'
<1>1. \A s \in Unwritten', t \in (Present \intersect Written)' :
        IF op' \in {"rm", "quota_reset"} THEN SameIdentity(row'[t], row'[s])
                                          ELSE SameIdentity(row'[t], Wanted(row[s])')
  BY DEF Wish
<1>2. op' \notin {"add", "deploy"}
  BY DEF RowOps
<1> QED BY <1>1, <1>2 DEF Rolling

\* There is nothing to say of a command that does not change the user.
LEMMA RollingEnds ==
  ASSUME op' \notin RowOps, op' = "deploy" => ~full'
  PROVE  Rolling'
BY DEF Rolling, RowOps

\* A mutation is admitted where the servers agree about the user.
LEMMA AdmittedAgree ==
  ASSUME TypeOK, Admitted, NEW s \in Present, NEW t \in Present
  PROVE  SameIdentity(row[s], row[t])
<1>1. CASE s = t
  BY <1>1, SameIsSame
<1>2. CASE s # t
  <2>1. {s, t} \in SUBSET enabled /\ IsFiniteSet(enabled)
    <3>1. enabled \in SUBSET Servers /\ IsFiniteSet(Servers)
      BY RolloutAssumption DEF TypeOK
    <3> QED BY <3>1, FS_Subset DEF Present
  <2>2. Cardinality({s} \union {t}) = 2 /\ {s} \union {t} = {s, t}
    <3>1. IsFiniteSet({s}) /\ Cardinality({s}) = 1
      BY FS_Singleton
    <3>2. Cardinality({s} \union {t}) = IF t \in {s} THEN Cardinality({s}) ELSE Cardinality({s}) + 1
      BY <3>1, FS_AddElement
    <3> QED BY <1>2, <3>1, <3>2
  <2>3. Cardinality({s, t}) <= Cardinality(enabled) /\ Cardinality(enabled) \in Nat
    BY <2>1, FS_Subset, FS_CardinalityType
  <2>4. Cardinality(enabled) > 1
    BY <2>2, <2>3
  <2> QED BY <2>4 DEF Admitted, Consistent
<1> QED BY <1>1, <1>2

\* A change of the user begins.
LEMMA RollingOfCommand ==
  ASSUME TypeOK, Working, Rolling, Command
  PROVE  Rolling'
<1>1. CASE AddUserCmd
  <2>1. /\ op' = "add" /\ at' = "row" /\ todo' = enabled /\ Present = {}
        /\ row' = row /\ enabled' = enabled
    BY <1>1 DEF AddUserCmd, Start, localVars
  <2>2. Unwritten' = enabled /\ Present' = {}
    BY <2>1 DEF Unwritten, Present
  <2>3. \A s \in enabled : row[s] = Absent
    BY <2>1 DEF Present
  <2> QED BY <2>1, <2>2, <2>3 DEF Rolling
<1>2. CASE ChangeUserCmd
  <2>1. /\ todo' = enabled /\ Present = enabled /\ row' = row /\ enabled' = enabled /\ Admitted
        /\ op' \in RowOps \ {"add"} /\ at' = IF op' = "quota_reset" THEN "reset" ELSE "row"
    BY <1>2 DEF ChangeUserCmd, Start, localVars
  <2>2. \A s, t \in enabled : SameIdentity(row[s], row[t])
    BY <2>1, AdmittedAgree
  <2>3. Present' = enabled /\ \A s \in enabled : row[s] # Absent
    BY <2>1 DEF Present
  <2>4. Unwritten' \subseteq enabled
    BY <2>1 DEF Unwritten
  <2>5. op' # "quota_reset" => Unwritten' = enabled
    BY <2>1 DEF Unwritten
  <2>6. Written' = enabled \ Unwritten'
    BY <2>1 DEF Written
  <2> HIDE DEF Rolling
  <2>7. \A s, t \in Present' \intersect Written' : SameIdentity(row'[s], row'[t])
    BY <2>1, <2>2, <2>3
  <2>8. \A s, t \in Unwritten' : row'[s] # Absent /\ SameIdentity(row'[s], row'[t])
    BY <2>1, <2>2, <2>3, <2>4
  <2>9. \A s \in Unwritten', t \in Present' \intersect Written' : SameIdentity(row'[t], row'[s])
    BY <2>1, <2>2, <2>3, <2>4
  <2>10. op' # "quota_reset" => Written' = {}
    BY <2>5, <2>6
  <2>11. \A s \in Unwritten', t \in (Present \intersect Written)' : SameIdentity(row'[t], Wish(s)')
    <3>1. CASE op' = "quota_reset"
      BY <2>9, <3>1 DEF Wish
    <3>2. CASE op' # "quota_reset"
      BY <2>10, <3>2
    <3> QED BY <3>1, <3>2
  <2> QED BY <2>1, <2>3, <2>7, <2>8, <2>11, RollingIfChanged
<1>3. CASE DeployCmd \/ ReconcileCmd
  <2>1. ~full /\ full' = full /\ op' \in {"deploy", "reconcile"}
    BY <1>3 DEF DeployCmd, ReconcileCmd, Start, Working, DeploySteps
  <2> QED BY <2>1, RollingEnds DEF RowOps
<1>4. CASE ServerAddCmd \/ ServerCleanupCmd
  <2>1. op' = "none"
    BY <1>4 DEF ServerAddCmd, ServerCleanupCmd, cmdVars
  <2> QED BY <2>1, RollingEnds DEF RowOps
<1> QED BY <1>1, <1>2, <1>3, <1>4 DEF Command

\* A row is written.
LEMMA RollingOfWriteRow ==
  ASSUME TypeOK, Working, Rolling, WriteRow
  PROVE  Rolling'
<1> DEFINE S == Cur
<1>0. S \in Servers /\ S \in todo /\ op # "none"
  BY Changing DEF WriteRow
<1>1. op \in RowOps \ {"quota_reset"} /\ (op = "add" => arg \in UserRows) /\ todo \subseteq enabled
  BY <1>0, RolloutAssumption DEF WriteRow, Working, RowOps, ServerOps, DeploySteps, TypeOK
<1>2. /\ at = "row" /\ at' # "row" /\ UNCHANGED <<op, arg, todo, enabled>>
      /\ row' = [row EXCEPT ![S] = Wanted(row[S])]
  BY DEF WriteRow, Goto, NextStep
<1>3. row'[S] = Wanted(row[S]) /\ \A s \in Servers \ {S} : row'[s] = row[s]
  BY <1>0, <1>2 DEF TypeOK
<1>4. Unwritten = todo /\ Unwritten' = todo \ {S} /\ Written = enabled \ todo
      /\ Written' = Written \union {S}
  BY <1>0, <1>1, <1>2 DEF Unwritten, Written, Cur
<1>5. enabled \subseteq Servers /\ todo \subseteq Servers
  BY ServerSets
<1>6. Present' \subseteq Present \union {S}
  BY <1>2, <1>3, <1>5 DEF Present
<1>7. CASE op = "add"
  <2>1. /\ \A s \in todo : row[s] = Absent
        /\ \A s \in Present : SameIdentity(row[s], arg)
    BY <1>4, <1>7 DEF Rolling
  <2>2. row'[S] = arg
    BY <1>3, <1>7 DEF Wanted
  <2>3. \A s \in Present' : SameIdentity(row'[s], arg)
    <3> SUFFICES ASSUME NEW s \in Present' PROVE SameIdentity(row'[s], arg)
      OBVIOUS
    <3>1. CASE s = S
      BY <2>2, <3>1, SameIsSame
    <3>2. CASE s # S
      BY <1>3, <1>5, <1>6, <2>1, <3>2 DEF Present
    <3> QED BY <3>1, <3>2
  <2>4. \A s \in Unwritten' : row'[s] = Absent
    BY <1>3, <1>4, <1>5, <2>1
  <2>5. \A s, t \in Present' : SameIdentity(row'[s], row'[t])
    BY <2>3, SameIsSame
  <2> QED BY <1>2, <1>7, <2>3, <2>4, <2>5 DEF Rolling
<1>8. CASE op # "add"
  <2>1. /\ \A s, t \in todo : row[s] # Absent /\ SameIdentity(row[s], row[t])
        /\ op # "rm" => enabled = Present
        /\ \A s \in todo, t \in Present \intersect Written :
             IF op = "rm" THEN SameIdentity(row[t], row[s])
                          ELSE SameIdentity(row[t], Wanted(row[s]))
    BY <1>1, <1>4, <1>8 DEF Rolling
  <2>2. \A s, t \in Present \intersect Written : SameIdentity(row[s], row[t])
    BY <1>1 DEF Rolling
  <2>3. \A s \in todo \ {S} : row'[s] = row[s]
    BY <1>3, <1>5
  <2>4. \A s \in Written : row'[s] = row[s] /\ s # S
    BY <1>0, <1>3, <1>4, <1>5
  <2>5. CASE op = "rm"
    <3>1. row'[S] = Absent
      BY <1>3, <2>5 DEF Wanted
    <3>2. Present' \intersect Written' \subseteq Present \intersect Written
      BY <1>2, <1>4, <2>4, <3>1 DEF Present
    <3>3. \A s, t \in Present' \intersect Written' : SameIdentity(row'[s], row'[t])
      BY <2>2, <2>4, <3>2
    <3>4. \A s, t \in Unwritten' : row'[s] # Absent /\ SameIdentity(row'[s], row'[t])
      BY <1>4, <2>1, <2>3
    <3>5. \A s \in Unwritten', t \in Present' \intersect Written' : SameIdentity(row'[t], row'[s])
      BY <1>4, <2>1, <2>3, <2>4, <2>5, <3>2
    <3> QED BY <1>2, <2>5, <3>3, <3>4, <3>5 DEF Rolling
  <2>6. CASE op # "rm"
    <3>0. op \in RowOps \ {"add", "rm", "quota_reset"}
      BY <1>1, <1>8, <2>6
    <3>1. \A s \in todo : row[s] \in UserRows
      BY <1>5, <2>1, Fields
    <3>2. \A s \in todo : Wanted(row[s]) \in UserRows /\ SameIdentity(Wanted(row[S]), Wanted(row[s]))
      BY <1>0, <2>1, <3>0, <3>1, WantedSame
    <3>3. row'[S] \in UserRows /\ row'[S] # Absent
      BY <1>0, <1>3, <3>2, AbsentRow
    <3>4. Present' = enabled /\ enabled = Present
      BY <1>0, <1>1, <1>2, <1>3, <1>5, <2>1, <2>6, <3>3 DEF Present
    <3>5. \A t \in Written : SameIdentity(row[t], row'[S])
      BY <1>0, <1>3, <1>4, <2>1, <2>6, <3>4
    <3>6. \A s, t \in Present' \intersect Written' : SameIdentity(row'[s], row'[t])
      BY <1>4, <2>2, <2>4, <3>4, <3>5, SameIsSame
    <3>7. \A s, t \in Unwritten' : row'[s] # Absent /\ SameIdentity(row'[s], row'[t])
      BY <1>4, <2>1, <2>3
    <3>8. \A s \in Unwritten', t \in Present' \intersect Written' :
            SameIdentity(row'[t], Wanted(row[s]))
      BY <1>0, <1>3, <1>4, <2>1, <2>4, <2>6, <3>2, <3>4
    <3>9. ASSUME NEW s \in Unwritten' PROVE Wish(s)' = Wanted(row[s])
      <4>1. row'[s] = row[s] /\ op' = op /\ arg' = arg /\ op \notin {"rm", "quota_reset"}
        BY <1>2, <1>4, <2>3, <3>0
      <4> QED BY <4>1 DEF Wish, Wanted
    <3> QED BY <1>2, <1>8, <3>0, <3>4, <3>6, <3>7, <3>8, <3>9, RollingIfChanged
  <2> QED BY <2>5, <2>6
<1> QED BY <1>7, <1>8

\* The canonical user is copied to the server, where the rows agree about it.
LEMMA RollingOfMaterialize ==
  ASSUME TypeOK, Working, Rolling, Materialize
  PROVE  Rolling'
<1> DEFINE S == Cur
<1>0. S \in Servers /\ S \in todo /\ op # "none"
  BY Changing DEF Materialize
<1>1. CASE GiveUp
  BY <1>1, RollingEnds DEF GiveUp, RowOps
<1>2. CASE ~GiveUp
  <2>1. /\ Consistent /\ row' = [row EXCEPT ![S] = Materialized(S)]
        /\ at = "materialize" /\ at' = "render" /\ full'
        /\ UNCHANGED <<op, arg, todo, enabled>>
    BY <1>2 DEF Materialize
  <2>2. /\ op \in RowOps => todo \subseteq enabled
        /\ op \in RowOps \/ op = "deploy"
    BY <1>0, <2>1, RolloutAssumption DEF Working, TypeOK, ServerOps
  <2>3. row'[S] = Materialized(S) /\ \A s \in Servers \ {S} : row'[s] = row[s]
    BY <1>0, <2>1 DEF TypeOK
  <2>4. Unwritten' = Unwritten /\ Written' = Written /\ Unwritten = todo \ {S}
    BY <2>1 DEF Unwritten, Written, Cur
  <2>5. enabled \subseteq Servers /\ todo \subseteq Servers /\ Present \subseteq enabled
        /\ (Present # {} => Min(Present) \in Present)
    BY ServerSets
  <2>6. Present = {} => row' = row
    BY <1>0, <2>1, MaterializedRow DEF TypeOK
  <2>7. Present # {} => row'[S] \in UserRows /\ SameIdentity(row'[S], row[Min(Present)])
    BY <1>0, <2>3, MaterializedRow
  <2>8. Present = {} => Present' = {}
    BY <2>1, <2>6 DEF Present
  <2>9. Present' \subseteq Present \union {S}
    BY <2>1, <2>3, <2>5 DEF Present
  <2>10. \A s, t \in Present : SameIdentity(row[s], row[t])
    BY <2>1 DEF Consistent
  <2>11. ASSUME NEW s \in Present', NEW t \in Present PROVE SameIdentity(row'[s], row[t])
    <3>1. CASE s = S
      BY <2>5, <2>7, <2>10, <3>1, SameIsSame
    <3>2. CASE s # S
      BY <2>3, <2>5, <2>9, <2>10, <3>2
    <3> QED BY <3>1, <3>2
  <2>12. \A s, t \in Present' : SameIdentity(row'[s], row'[t])
    BY <2>5, <2>8, <2>11, SameIsSame
  <2>13. Consistent'
    BY <2>12 DEF Consistent
  <2>14. \A s \in Unwritten : row'[s] = row[s]
    BY <2>3, <2>4, <2>5
  <2>15. CASE op = "deploy"
    BY <2>1, <2>13, <2>15 DEF Rolling, RowOps
  <2>16. CASE op = "add"
    <3>1. /\ \A s \in Unwritten : row[s] = Absent
          /\ \A s \in Present : SameIdentity(row[s], arg)
      BY <2>16 DEF Rolling
    <3>2. \A s \in Present' : SameIdentity(row'[s], arg)
      BY <2>5, <2>8, <2>11, <3>1, SameIsSame
    <3>3. \A s \in Unwritten' : row'[s] = Absent
      BY <2>4, <2>14, <3>1
    <3> QED BY <2>1, <2>12, <2>16, <3>2, <3>3 DEF Rolling
  <2>17. CASE op \in RowOps \ {"add"}
    <3>1. \A s, t \in Unwritten : row[s] # Absent /\ SameIdentity(row[s], row[t])
      BY <2>17 DEF Rolling
    <3>2. op # "rm" => enabled = Present
      BY <2>17 DEF Rolling
    <3>3. \A s \in Unwritten, t \in Present \intersect Written : SameIdentity(row[t], Wish(s))
      BY <2>17 DEF Rolling, Wish
    <3>4. \A s \in Unwritten : s \in Present
      BY <2>2, <2>4, <2>17, <3>1 DEF Present
    <3>5. ASSUME NEW s \in Unwritten PROVE Wish(s)' = Wish(s)
      <4>1. row'[s] = row[s] /\ op' = op /\ arg' = arg
        BY <2>1, <2>14
      <4> QED BY <4>1 DEF Wish, Wanted
    <3>6. op # "rm" => enabled' = Present'
      <4> SUFFICES ASSUME op # "rm", NEW s \in enabled PROVE row'[s] # Absent
        BY <2>1 DEF Present
      <4>1. s \in Present /\ row[s] # Absent /\ s \in Servers
        BY <2>5, <3>2 DEF Present
      <4> QED BY <2>3, <2>7, <4>1, AbsentRow
    <3>7. ASSUME NEW s \in Unwritten, NEW t \in Present' \intersect Written
          PROVE  SameIdentity(row'[t], Wish(s))
      <4>1. CASE op \in {"rm", "quota_reset"}
        BY <2>11, <3>4, <4>1 DEF Wish
      <4>2. CASE op \notin {"rm", "quota_reset"}
        <5>1. t \in Present
          BY <2>1, <3>2, <4>2 DEF Present
        <5> QED BY <2>11, <3>3, <5>1, SameIsSame
      <4> QED BY <4>1, <4>2
    <3> QED BY <2>1, <2>4, <2>12, <2>14, <2>17, <3>1, <3>5, <3>6, <3>7, RollingIfChanged
  <2> QED BY <2>2, <2>15, <2>16, <2>17
<1> QED BY <1>1, <1>2

\* A server is done.
LEMMA RollingOfFinish ==
  ASSUME TypeOK, Working, Rolling, Finish(Cur), at \in {"quota", "recheck", "reset"},
         row' = row, enabled' = enabled
  PROVE  Rolling'
<1> DEFINE S == Cur
<1>1. CASE op' = "none"
  BY <1>1, RollingEnds DEF RowOps
<1>2. CASE op' # "none"
  <2>1. /\ todo' = todo \ {S} /\ todo' # {} /\ at' = FirstStep
        /\ UNCHANGED <<op, arg>> /\ ~full'
    BY <1>2 DEF Finish
  <2>2. S \in todo /\ todo \subseteq Servers
    BY Changing, ServerSets
  <2>3. op \in RowOps /\ todo \subseteq enabled
    BY <1>2, <2>1, <2>2, RolloutAssumption DEF Working, TypeOK, ServerOps
  <2>4. Present' = Present
    BY DEF Present
  <2>5. Unwritten = todo'
    BY <2>1 DEF Unwritten
  <2>6. CASE op # "quota_reset"
    <3>1. Unwritten' = Unwritten
      BY <2>1, <2>5, <2>6 DEF Unwritten, FirstStep
    <3>2. Written' = Written
      BY <3>1 DEF Written
    <3> QED BY <2>1, <2>3, <2>4, <3>1, <3>2 DEF Rolling, Wanted, RowOps
  <2>7. CASE op = "quota_reset"
    <3>1. /\ \A s, t \in Unwritten : row[s] # Absent /\ SameIdentity(row[s], row[t])
          /\ enabled = Present
          /\ \A s \in Unwritten, t \in Present \intersect Written : SameIdentity(row[t], row[s])
      BY <2>7 DEF Rolling, RowOps
    <3>2. \A s, t \in Present \intersect Written : SameIdentity(row[s], row[t])
      BY <2>3 DEF Rolling
    <3>3. enabled = (Present \intersect Written) \union Unwritten /\ Unwritten \subseteq enabled
      BY <2>1, <2>3, <2>5, <3>1 DEF Written
    <3>4. \A s, t \in enabled : SameIdentity(row[s], row[t])
      BY <3>1, <3>2, <3>3, SameIsSame
    <3>5. Unwritten' \subseteq Unwritten /\ Written' \subseteq enabled
      BY <2>1, <2>5 DEF Unwritten, Written
    <3>6. \A s, t \in Unwritten' : row'[s] # Absent /\ SameIdentity(row'[s], row'[t])
      BY <3>1, <3>5
    <3>7. \A s, t \in (Present \intersect Written)' : SameIdentity(row'[s], row'[t])
      BY <3>4, <3>5
    <3>8. ASSUME NEW s \in Unwritten' PROVE Wish(s)' = row[s]
      BY <2>1, <2>7 DEF Wish
    <3>9. \A s \in Unwritten', t \in (Present \intersect Written)' : SameIdentity(row'[t], Wish(s)')
      BY <3>3, <3>4, <3>5, <3>8
    <3> QED BY <2>1, <2>3, <2>4, <2>7, <3>1, <3>6, <3>7, <3>9, RollingIfChanged
  <2> QED BY <2>6, <2>7
<1> QED BY <1>1, <1>2

\* Each step keeps the rows in the order in which they are written.
LEMMA RollingStep ==
  ASSUME TypeOK, Working, Rolling, [Next]_vars
  PROVE  Rolling'
<1>1. CASE UNCHANGED vars \/ Host
  <2>1. UNCHANGED <<row, enabled, op, arg, todo, at, full>>
    BY <1>1 DEF vars, Host, XrayRestart, AgentBlocks, AgentUnblocks, AgentExpires, localVars, cmdVars
  <2> QED BY <2>1, RollingStays
<1>2. CASE Interrupt
  BY <1>2, RollingEnds DEF Interrupt, GiveUp, RowOps
<1>3. ASSUME Step PROVE Rolling'
  <2>1. CASE WriteRow
    BY <2>1, RollingOfWriteRow
  <2>2. CASE Materialize
    BY <2>2, RollingOfMaterialize
  <2>3. CASE CopyRow
    <3>1. op' \in {"reconcile", "none"}
      BY <2>3 DEF CopyRow, Working
    <3> QED BY <3>1, RollingEnds DEF RowOps
  <2>4. CASE GiveUp
    BY <2>4, RollingEnds DEF GiveUp, RowOps
  <2>5. ASSUME SyncQuota \/ Recheck \/ ResetQuota, Finish(Cur) PROVE Rolling'
    <3>1. at \in {"quota", "recheck", "reset"} /\ row' = row /\ enabled' = enabled
      BY <2>5 DEF SyncQuota, Recheck, ResetQuota, localVars
    <3> QED BY <2>5, <3>1, RollingOfFinish
  <2>6. ASSUME AskStatus \/ AddLive \/ RemoveLive \/ Render \/ Install \/ SyncUsers, ~GiveUp
        PROVE  Rolling'
    <3>1. UNCHANGED <<row, enabled, op, arg, todo, full>> /\ at # "row" /\ at' # "row"
      BY <2>6 DEF AskStatus, AddLive, RemoveLive, Render, Install, SyncUsers, Goto, localVars
    <3> QED BY <3>1, RollingStays
  <2>7. ASSUME SyncQuota \/ Recheck \/ ResetQuota, ~GiveUp, ~Finish(Cur) PROVE Rolling'
    <3>1. UNCHANGED <<row, enabled, op, arg, todo, full>> /\ at # "row" /\ at' # "row"
      BY <2>7 DEF SyncQuota, Recheck, ResetQuota, Goto, localVars
    <3> QED BY <3>1, RollingStays
  <2> QED BY <1>3, <2>1, <2>2, <2>3, <2>4, <2>5, <2>6, <2>7 DEF Step
<1> QED BY <1>1, <1>2, <1>3, RollingOfCommand DEF Next

\* Servers agree where no server becomes settled and no settled one changes its row.
LEMMA SettledStay ==
  ASSUME SettledServersAgree, Settled' \subseteq Settled, \A s \in Settled' : row'[s] = row[s]
  PROVE  SettledServersAgree'
<1>1. (Settled \intersect Present)' \subseteq Settled \intersect Present
  BY DEF Present, Settled
<1> QED BY <1>1 DEF SettledServersAgree

\* Each step leaves the settled servers agreeing.
LEMMA AgreeStep ==
  ASSUME TypeOK, Working, Rolling, SettledServersAgree, [Next]_vars
  PROVE  SettledServersAgree'
<1>1. CASE UNCHANGED vars \/ Host
  <2>1. UNCHANGED <<row, enabled, todo>> /\ torn \subseteq torn'
    BY <1>1 DEF vars, Host, XrayRestart, AgentBlocks, AgentUnblocks, AgentExpires, Disturb,
       localVars, cmdVars, histVars
  <2> QED BY <2>1, SettledStay DEF Settled
<1>2. ASSUME GiveUp, row' = row, enabled' = enabled PROVE SettledServersAgree'
  BY <1>2, SettledStay DEF GiveUp, Settled
<1>3. CASE Interrupt
  BY <1>2, <1>3 DEF Interrupt, localVars
<1>4. CASE Command
  <2>1. CASE AddUserCmd \/ ChangeUserCmd \/ DeployCmd \/ ReconcileCmd
    <3>1. UNCHANGED <<row, enabled, torn>> /\ todo = {}
      BY <2>1 DEF AddUserCmd, ChangeUserCmd, DeployCmd, ReconcileCmd, Start, localVars, Working
    <3> QED BY <3>1, SettledStay DEF Settled
  <2>2. CASE ServerAddCmd
    <3>1. PICK s \in Servers \ listed :
            /\ enabled' = enabled \union {s} /\ torn' = torn \union {s}
            /\ \E r : row' = [row EXCEPT ![s] = r]
      BY <2>2 DEF ServerAddCmd
    <3>2. todo' = todo
      BY <2>2 DEF ServerAddCmd, cmdVars
    <3>3. \A t \in Servers \ {s} : row'[t] = row[t]
      BY <3>1 DEF TypeOK
    <3>4. Settled' \subseteq Settled \ {s} /\ enabled \subseteq Servers
      BY <3>1, <3>2, ServerSets DEF Settled
    <3> QED BY <3>3, <3>4, SettledStay DEF Settled
  <2>3. CASE ServerCleanupCmd
    <3>1. PICK s \in listed :
            \/ Deleted(s)
            \/ enabled' = enabled \ {s} /\ torn' = torn \union {s} /\ row' = row
            \/ enabled' = enabled /\ torn' = torn \union {s} /\ row' = row
      BY <2>3 DEF ServerCleanupCmd, localVars
    <3>2. todo' = todo
      BY <2>3 DEF ServerCleanupCmd, cmdVars
    <3>3. Settled' \subseteq Settled \ {s} /\ enabled \subseteq Servers
      BY <3>1, <3>2, ServerSets DEF Settled, Deleted
    <3>4. \A t \in Servers \ {s} : row'[t] = row[t]
      BY <3>1 DEF Deleted, TypeOK
    <3> QED BY <3>3, <3>4, SettledStay DEF Settled
  <2> QED BY <1>4, <2>1, <2>2, <2>3 DEF Command
<1>5. CASE WriteRow \/ Materialize \/ CopyRow
  <2>1. CASE GiveUp /\ row' = row
    <3>1. enabled' = enabled
      BY <1>5 DEF WriteRow, Materialize, CopyRow
    <3> QED BY <1>2, <2>1, <3>1
  <2>2. CASE ~(GiveUp /\ row' = row)
    <3>1. Cur \in todo /\ Cur \in Servers
      BY <1>5, Changing DEF WriteRow, Materialize, CopyRow
    <3>2. \A s \in Servers \ {Cur} : row'[s] = row[s]
      BY <1>5, <2>2 DEF WriteRow, Materialize, CopyRow, TypeOK
    <3>3. enabled' = enabled /\ torn' \union todo' = torn \union todo
      BY <1>5, <2>2, <3>1 DEF WriteRow, Materialize, CopyRow, Goto, histVars
    <3>4. Settled' = Settled /\ enabled \subseteq Servers
      BY <3>3, ServerSets DEF Settled
    <3> QED BY <3>1, <3>2, <3>4, SettledStay DEF Settled
  <2> QED BY <2>1, <2>2
<1>6. CASE AskStatus \/ AddLive \/ RemoveLive \/ Render \/ Install \/ SyncUsers
  <2>1. row' = row /\ enabled' = enabled
    BY <1>6 DEF AskStatus, AddLive, RemoveLive, Render, Install, SyncUsers, localVars
  <2>2. GiveUp \/ (todo' = todo /\ torn \ {Cur} \subseteq torn')
    BY <1>6 DEF AskStatus, AddLive, RemoveLive, Render, Install, SyncUsers, Goto, histVars
  <2>3. Cur \in todo
    BY <1>6, Changing DEF AskStatus, AddLive, RemoveLive, Render, Install, SyncUsers
  <2> QED BY <1>2, <2>1, <2>2, <2>3, SettledStay DEF Settled
<1>7. CASE SyncQuota \/ Recheck \/ ResetQuota
  <2>1. row' = row /\ enabled' = enabled
    BY <1>7 DEF SyncQuota, Recheck, ResetQuota, localVars
  <2>2. GiveUp \/ Finish(Cur) \/ (todo' = todo /\ torn' = torn)
    BY <1>7 DEF SyncQuota, Recheck, ResetQuota, Goto, histVars
  <2>3. CASE todo' = todo /\ torn' = torn
    BY <2>1, <2>3, SettledStay DEF Settled
  <2>4. CASE Finish(Cur)
    <3>1. Settled' \subseteq Settled \union {Cur} /\ at \in {"quota", "recheck", "reset"}
      BY <1>7, <2>1, <2>4 DEF Finish, Settled, SyncQuota, Recheck, ResetQuota
    <3>2. \A s, t \in (Settled \intersect Present)' : SameIdentity(row[s], row[t])
      <4>1. (Settled \intersect Present)' \subseteq Present
        BY <2>1 DEF Settled, Present
      <4>2. CASE op = "deploy"
        BY <3>1, <4>1, <4>2 DEF Rolling, Working, Consistent
      <4>3. CASE op \in RowOps
        <5>1. (Settled \union {Cur}) \intersect enabled \subseteq Written
          BY <3>1 DEF Settled, Written, Unwritten
        <5> QED BY <2>1, <3>1, <4>1, <4>3, <5>1 DEF Rolling, Settled
      <4> QED BY <3>1, <4>2, <4>3, RolloutAssumption DEF Working, TypeOK, ServerOps
    <3> QED BY <2>1, <3>2 DEF SettledServersAgree
  <2> QED BY <1>2, <2>1, <2>2, <2>3, <2>4
<1> QED BY <1>1, <1>3, <1>4, <1>5, <1>6, <1>7 DEF Next, Step

-----------------------------------------------------------------------------
(* The identity of the user.                                               *)

\* The user has one identity while every row takes it from another.
LEMMA OneStays ==
  ASSUME OneIdentity, \A s \in Present' : \E t \in Present : row'[s].uuid = row[t].uuid
  PROVE  OneIdentity'
BY DEF OneIdentity

\* A step that no reconcile takes does not give the user a second identity.
LEMMA IdentityStep ==
  ASSUME TypeOK, Working, Rolling, OneIdentity, [Next]_vars, op # "reconcile"
  PROVE  OneIdentity'
<1>0. enabled \subseteq Servers /\ (Present # {} => Min(Present) \in Present) /\ Present \subseteq enabled
  BY ServerSets
<1>1. CASE row' = row /\ enabled' = enabled
  BY <1>1 DEF OneIdentity, Present
<1>2. CASE WriteRow
  <2>0. Cur \in Servers /\ Cur \in todo
    BY <1>2, Changing DEF WriteRow
  <2>1. op \in RowOps \ {"quota_reset"} /\ (op = "add" => arg \in UserRows) /\ todo \subseteq enabled
    BY <1>2, <2>0, RolloutAssumption
    DEF WriteRow, Working, RowOps, ServerOps, DeploySteps, TypeOK
  <2>2. /\ row'[Cur] = Wanted(row[Cur]) /\ \A s \in Servers \ {Cur} : row'[s] = row[s]
        /\ enabled' = enabled
    BY <1>2, <2>0 DEF WriteRow, TypeOK
  <2>3. Present' \subseteq Present \union {Cur}
    BY <1>0, <2>2 DEF Present
  <2>4. CASE op = "add"
    <3>1. \A s \in Present : row[s].uuid = arg.uuid
      BY <2>4 DEF Rolling, SameIdentity
    <3>2. row'[Cur] = arg
      BY <2>2, <2>4 DEF Wanted
    <3>3. \A s \in Present' : row'[s].uuid = arg.uuid
      BY <1>0, <2>2, <2>3, <3>1, <3>2
    <3> QED BY <3>3 DEF OneIdentity
  <2>5. CASE op = "rm"
    <3>1. Cur \notin Present'
      BY <2>2, <2>5 DEF Wanted, Present
    <3>2. \A s \in Present' : s \in Present /\ row'[s] = row[s]
      BY <1>0, <2>2, <2>3, <3>1
    <3> QED BY <3>2, OneStays
  <2>6. CASE op \notin {"add", "rm"}
    <3>1. row[Cur] # Absent
      BY <1>2, <2>0, <2>1, <2>6 DEF WriteRow, Rolling, Unwritten
    <3>2. row[Cur] \in UserRows /\ Cur \in Present
      BY <2>0, <2>1, <3>1, Fields DEF Present
    <3>3. Wanted(row[Cur]).uuid = row[Cur].uuid
      BY <2>1, <2>6, <3>2 DEF Wanted, UserRows, RowOps
    <3>4. \A s \in Present' : s \in Present /\ row'[s].uuid = row[s].uuid
      BY <1>0, <2>2, <2>3, <3>2, <3>3
    <3> QED BY <3>4, OneStays
  <2> QED BY <2>4, <2>5, <2>6
<1>3. ASSUME NEW S \in Servers, row' = [row EXCEPT ![S] = Materialized(S)],
             enabled' \subseteq enabled \union {S}
      PROVE  OneIdentity'
  <2>1. row'[S] = Materialized(S) /\ \A s \in Servers \ {S} : row'[s] = row[s]
    BY <1>3 DEF TypeOK
  <2>2. Present' \subseteq Present \union {S}
    BY <1>0, <1>3, <2>1 DEF Present
  <2>3. CASE Present = {}
    BY <2>2, <2>3 DEF OneIdentity
  <2>4. CASE Present # {}
    <3>1. row'[S].uuid = row[Min(Present)].uuid
      BY <2>1, <2>4, MaterializedRow DEF SameIdentity
    <3> QED BY <1>0, <2>1, <2>2, <2>4, <3>1, OneStays
  <2> QED BY <2>3, <2>4
<1>4. CASE Materialize
  <2>1. Cur \in Servers
    BY <1>4, Changing DEF Materialize
  <2> QED BY <1>1, <1>3, <1>4, <2>1 DEF Materialize
<1>5. CASE ServerAddCmd
  <2>1. PICK S \in Servers \ listed :
          /\ enabled' = enabled \union {S}
          /\ \/ row' = [row EXCEPT ![S] = Materialized(S)]
             \/ row' = [row EXCEPT ![S] = Absent]
    BY <1>5 DEF ServerAddCmd
  <2>2. CASE row' = [row EXCEPT ![S] = Materialized(S)]
    BY <1>3, <2>1, <2>2
  <2>3. CASE row' = [row EXCEPT ![S] = Absent]
    <3>1. \A t \in Present' : t \in Present /\ row'[t] = row[t]
      BY <1>0, <2>1, <2>3 DEF Present, TypeOK
    <3> QED BY <3>1, OneStays
  <2> QED BY <2>1, <2>2, <2>3
<1>6. CASE ServerCleanupCmd
  <2>1. PICK s \in listed : Deleted(s) \/ (enabled' \subseteq enabled /\ row' = row)
    BY <1>6 DEF ServerCleanupCmd, localVars
  <2>2. \A t \in Present' : t \in Present /\ row'[t] = row[t]
    BY <1>0, <2>1 DEF Deleted, Present, TypeOK
  <2> QED BY <2>2, OneStays
<1>7. ~CopyRow
  BY DEF CopyRow, Working
<1> QED BY <1>1, <1>2, <1>4, <1>5, <1>6, <1>7
    DEF Next, Command, Step, AddUserCmd, ChangeUserCmd, DeployCmd, ReconcileCmd, Start, AskStatus,
        AddLive, RemoveLive, Render, Install, SyncUsers, SyncQuota, Recheck, ResetQuota, Interrupt,
        Host, XrayRestart, AgentBlocks, AgentUnblocks, AgentExpires, localVars, vars

-----------------------------------------------------------------------------
(* What is served.                                                         *)

\* What holds of a server holds on while its row and its machine stay as they are.
LEMMA AllStays ==
  ASSUME NEW s, AllOK(s), row'[s] = row[s], live'[s] = live[s], config'[s] = config[s],
         policy'[s] = policy[s], blocks' = 0 => blocks = 0
  PROVE  AllOK(s)'
BY DEF AllOK, LiveOK, ConfigOK, PolicyOK

\* A server with which all is well is served.
LEMMA AllIsServed ==
  ASSUME NEW s, AllOK(s)'
  PROVE  Served(s)'
BY DEF Served, AllOK

\* A step on one server leaves the others as they are.
LEMMA ServingOfCur ==
  ASSUME TypeOK, Serving, NEW c \in Servers, c = Cur, enabled' = enabled,
         torn \subseteq torn' \union {c}, blocks' = blocks, blocked' \subseteq blocked,
         \A s \in Servers \ {c} : /\ row'[s] = row[s] /\ live'[s] = live[s]
                                /\ config'[s] = config[s] /\ policy'[s] = policy[s],
         c \in (enabled \ torn)' => Served(c)',
         Prepared'
  PROVE  Serving'
<1>1. ASSUME NEW s \in (enabled \ torn)', s # c PROVE Served(s)'
  <2>1. s \in enabled \ torn /\ s \in Servers \ {c}
    BY <1>1, ServerSets
  <2>2. AllOK(s)
    BY <1>1, <2>1 DEF Serving, Served
  <2> QED BY <2>1, <2>2, AllStays, AllIsServed
<1>2. \A s \in (enabled \ torn)' : Served(s)'
  BY <1>1
<1>3. blocks' = 0 => blocked' = {}
  BY DEF Serving
<1> QED BY <1>2, <1>3 DEF Serving

\* A command that gives up marks the server.
LEMMA ServingOfGiveUp ==
  ASSUME TypeOK, Working, Serving, GiveUp, at # "idle", enabled' = enabled, blocks' = blocks,
         blocked' \subseteq blocked,
         \A s \in Servers \ {Cur} : /\ row'[s] = row[s] /\ live'[s] = live[s]
                                  /\ config'[s] = config[s] /\ policy'[s] = policy[s]
  PROVE  Serving'
<1>1. PICK c \in Servers : c = Cur
  BY Changing
<1>2. c \in torn' /\ torn \subseteq torn'
  BY <1>1, Changing DEF GiveUp
<1>3. Prepared'
  BY DEF GiveUp, Prepared
<1> QED BY <1>1, <1>2, <1>3, ServingOfCur

\* While no command runs, all is well with every server on which nothing broke off.
LEMMA AllIdle ==
  ASSUME Working, Serving, op = "none", NEW s \in enabled \ torn
  PROVE  AllOK(s)
BY DEF Working, Serving, Served

\* A command starts.
LEMMA ServingOfCommand ==
  ASSUME TypeOK, Working, Serving, Command
  PROVE  Serving'
<1>1. op = "none" /\ blocks' = blocks /\ (blocks = 0 => blocked = {})
  BY DEF Command, AddUserCmd, ChangeUserCmd, DeployCmd, ReconcileCmd, ServerAddCmd, ServerCleanupCmd,
     Start, Serving
<1>2. ASSUME NEW q \in SUBSET Servers, blocked' \subseteq blocked, Prepared',
             (enabled \ torn)' \subseteq (enabled \ torn) \intersect q,
             \A s \in q : /\ row'[s] = row[s] /\ live'[s] = live[s]
                         /\ config'[s] = config[s] /\ policy'[s] = policy[s]
      PROVE  Serving'
  <2>1. ASSUME NEW s \in (enabled \ torn)' PROVE Served(s)'
    <3>1. s \in enabled \ torn /\ s \in q
      BY <1>2
    <3>2. AllOK(s)
      BY <1>1, <3>1, AllIdle
    <3> QED BY <1>1, <1>2, <3>1, <3>2, AllStays, AllIsServed
  <2>2. blocks' = 0 => blocked' = {}
    BY <1>1, <1>2
  <2> QED BY <1>2, <2>1, <2>2 DEF Serving
<1>3. CASE AddUserCmd \/ ChangeUserCmd \/ DeployCmd \/ ReconcileCmd
  <2>1. UNCHANGED <<row, enabled, torn, live, config, policy, blocked>>
    BY <1>3 DEF AddUserCmd, ChangeUserCmd, DeployCmd, ReconcileCmd, Start, localVars, hostVars, agentVars
  <2>2. at' \in {"row", "reset", "materialize", "copy"}
    BY <1>3 DEF AddUserCmd, ChangeUserCmd, DeployCmd, ReconcileCmd, Start
  <2>3. Prepared'
    BY <2>2 DEF Prepared
  <2> QED BY <1>2, <2>1, <2>3, ServerSets
<1>4. ASSUME ServerAddCmd \/ ServerCleanupCmd PROVE Prepared'
  <2>1. at' = "idle"
    BY <1>1, <1>4 DEF ServerAddCmd, ServerCleanupCmd, cmdVars, Working
  <2> QED BY <2>1 DEF Prepared
<1>5. CASE ServerAddCmd
  <2>1. PICK s \in Servers \ listed :
          /\ enabled' = enabled \union {s} /\ torn' = torn \union {s}
          /\ \E r : row' = [row EXCEPT ![s] = r]
    BY <1>5 DEF ServerAddCmd
  <2>2. UNCHANGED <<live, config, policy, blocked>>
    BY <1>5 DEF ServerAddCmd, hostVars, agentVars
  <2>3. \A t \in Servers \ {s} : row'[t] = row[t]
    BY <2>1 DEF TypeOK
  <2>4. (enabled \ torn)' \subseteq (enabled \ torn) \intersect (Servers \ {s})
    BY <2>1, ServerSets
  <2> QED BY <1>2, <1>4, <1>5, <2>2, <2>3, <2>4
<1>6. CASE ServerCleanupCmd
  <2>1. PICK s \in listed, wiped \in BOOLEAN :
          /\ CleanedUp(s, wiped)
          /\ \/ Deleted(s)
             \/ enabled' = enabled \ {s} /\ torn' = torn \union {s} /\ row' = row
             \/ enabled' = enabled /\ torn' = torn \union {s} /\ row' = row
    BY <1>6 DEF ServerCleanupCmd, localVars
  <2>2. blocked' \subseteq blocked
    BY <2>1 DEF CleanedUp
  <2>3. \A t \in Servers \ {s} : /\ live'[t] = live[t] /\ config'[t] = config[t]
                               /\ policy'[t] = policy[t]
    BY <2>1 DEF CleanedUp, TypeOK
  <2>4. \A t \in Servers \ {s} : row'[t] = row[t]
    BY <2>1 DEF Deleted, TypeOK
  <2>5. (enabled \ torn)' \subseteq (enabled \ torn) \intersect (Servers \ {s})
    BY <2>1, ServerSets DEF Deleted
  <2> QED BY <1>2, <1>4, <1>6, <2>2, <2>3, <2>4, <2>5
<1> QED BY <1>3, <1>5, <1>6 DEF Command

\* The servers by themselves, and an interruption.
LEMMA ServingOfRest ==
  ASSUME TypeOK, Working, Serving, Interrupt \/ Host \/ UNCHANGED vars
  PROVE  Serving'
<1>1. CASE Interrupt
  <2>1. at # "idle"
    BY <1>1 DEF Interrupt, Working
  <2> QED BY <1>1, <2>1, ServingOfGiveUp DEF Interrupt, localVars, hostVars, agentVars
<1>2. CASE UNCHANGED vars
  <2>1. UNCHANGED <<row, enabled, torn, todo, at, full, render, live, config, policy, blocked, blocks>>
    BY <1>2 DEF vars, localVars, cmdVars, hostVars, agentVars, histVars
  <2> QED BY <2>1 DEF Serving, Served, AllOK, LiveOK, ConfigOK, PolicyOK, Prepared, Cur
<1>3. ASSUME NEW s \in Servers,
             XrayRestart(s) \/ AgentBlocks(s) \/ AgentUnblocks(s) \/ AgentExpires(s)
      PROVE  Serving'
  <2>1. /\ UNCHANGED <<row, enabled, todo, at, full, render, config, policy>>
        /\ torn \subseteq torn' /\ (blocks' = 0 => blocks = 0 /\ blocked' \subseteq blocked)
    BY <1>3, Numbers DEF XrayRestart, AgentBlocks, AgentUnblocks, AgentExpires, Disturb, localVars, cmdVars,
       agentVars, histVars, TypeOK
  <2>2. \A t \in Servers \ {s} : live'[t] = live[t]
    BY <1>3 DEF XrayRestart, AgentBlocks, AgentUnblocks, AgentExpires, WithUser, WithoutUser, TypeOK
  <2>3. ASSUME NEW t \in Servers, Served(t), LiveOK(t) => LiveOK(t)' PROVE Served(t)'
    <3>1. ConfigOK(t) => ConfigOK(t)'
      BY <2>1 DEF ConfigOK
    <3>2. PolicyOK(t) => PolicyOK(t)'
      BY <2>1 DEF PolicyOK
    <3>3. UNCHANGED <<todo, at, full, Cur>>
      BY <2>1 DEF Cur
    <3> QED BY <2>3, <3>1, <3>2, <3>3 DEF Served, AllOK
  <2>4. ASSUME NEW t \in (enabled \ torn)' PROVE t \in Servers /\ t \in enabled \ torn /\ Served(t)
    BY <2>1, ServerSets DEF Serving
  <2>5. ASSUME NEW t \in (enabled \ torn)' PROVE LiveOK(t) => LiveOK(t)'
    <3>1. CASE t # s
      BY <2>1, <2>2, <2>4, <3>1 DEF LiveOK
    <3>2. CASE t = s /\ (AgentBlocks(s) \/ AgentExpires(s))
      <4>1. live'[s] = NoUuid
        BY <1>3, <3>2 DEF AgentBlocks, AgentExpires, WithoutUser, TypeOK
      <4> QED BY <3>2, <4>1 DEF LiveOK
    <3>3. CASE t = s /\ (XrayRestart(s) \/ AgentUnblocks(s))
      <4>1. s \notin todo
        BY <3>3 DEF XrayRestart, AgentUnblocks, Disturb
      <4>2. LiveOK(s) /\ ConfigOK(s) /\ PolicyOK(s)
        BY <2>4, <3>3, <4>1 DEF Served, AllOK
      <4>3. \/ live'[s] \in {config[s], live[s]}
            \/ live'[s] = policy[s].uuid /\ policy[s] # NoPolicy
        BY <1>3, <3>3 DEF XrayRestart, AgentUnblocks, StatusBlocked, WithUser, TypeOK
      <4> QED BY <2>1, <3>3, <4>2, <4>3 DEF LiveOK, ConfigOK, PolicyOK
    <3> QED BY <1>3, <3>1, <3>2, <3>3
  <2>6. \A t \in (enabled \ torn)' : Served(t)'
    BY <2>3, <2>4, <2>5
  <2>7. Prepared'
    <3>1. Prepared
      BY DEF Serving
    <3> QED BY <2>1, <3>1 DEF Prepared, Cur
  <2>8. blocks' = 0 => blocked' = {}
    BY <2>1 DEF Serving
  <2> QED BY <2>6, <2>7, <2>8 DEF Serving
<1> QED BY <1>1, <1>2, <1>3 DEF Host

\* What is served, step by step on one server.
LEMMA ServingOfWriteRow ==
  ASSUME TypeOK, Working, Rolling, Serving, WriteRow
  PROVE  Serving'
<1>0. PICK c \in Servers : c = Cur /\ c \in todo
  BY Changing DEF WriteRow
<1>1. op \in RowOps \ {"quota_reset"} /\ (op = "add" => arg \in UserRows) /\ todo \subseteq enabled
      /\ ~full /\ op # "none"
  BY <1>0, Changing, RolloutAssumption
  DEF WriteRow, Working, RowOps, ServerOps, DeploySteps, RowSteps, TypeOK
<1>2. /\ row' = [row EXCEPT ![c] = Wanted(row[c])]
      /\ at = "row" /\ at' = NextStep(row[c], Wanted(row[c]))
      /\ UNCHANGED <<enabled, todo, full, torn, live, config, policy, blocked, blocks>>
  BY <1>0 DEF WriteRow, Goto, hostVars, agentVars, histVars
<1>3. row'[c] = Wanted(row[c]) /\ \A s \in Servers \ {c} : row'[s] = row[s]
  BY <1>2 DEF TypeOK
<1>4. Cur' = c
  BY <1>0, <1>2 DEF Cur
<1>5. Prepared'
  BY <1>2, <1>3, <1>4 DEF Prepared, NextStep
<1>6. op = "add" => row[c] = Absent
  BY <1>0, <1>2 DEF Rolling, Unwritten
<1>7. op \notin {"add", "rm"} => row[c] \in UserRows
  <2>1. op \notin {"add", "rm"} => row[c] # Absent
    BY <1>0, <1>1, <1>2 DEF Rolling, Unwritten
  <2> QED BY <2>1, Fields
<1>8. op \notin {"add", "rm"} => row'[c].uuid = row[c].uuid
  BY <1>1, <1>3, <1>7 DEF Wanted, UserRows, RowOps
<1>9. ASSUME c \in (enabled \ torn)' PROVE Served(c)'
  <2>1. LiveOK(c) /\ ConfigOK(c)
    BY <1>2, <1>9 DEF Serving, Served, AllOK
  <2>2. CASE op \in {"quota_on", "quota_off"}
    <3>1. Effective(row'[c]) = Effective(row[c])
      BY <1>3, <1>7, <2>2 DEF Wanted, Effective, UserRows
    <3>2. at' = "quota"
      BY <1>2, <2>2 DEF NextStep
    <3>3. LiveOK(c)' /\ ConfigOK(c)'
      BY <1>2, <1>8, <2>1, <2>2, <3>1 DEF LiveOK, ConfigOK
    <3> QED BY <1>0, <1>2, <1>4, <3>2, <3>3 DEF Served
  <2>3. CASE op \notin {"quota_on", "quota_off"}
    <3>1. \/ at' = "remove"
          \/ at' = "status" /\ Effective(row'[c])
          \/ at' = "render" /\ op \in {"expiry_past", "expiry_clear"}
             /\ Effective(row'[c]) = Effective(row[c])
      BY <1>2, <1>3, <2>3 DEF NextStep
    <3>2. at' # "remove" => LiveOK(c)'
      <4>1. CASE op = "add"
        <5>1. live[c] = NoUuid
          BY <1>6, <2>1, <4>1, AbsentRow DEF LiveOK
        <5> QED BY <1>2, <5>1 DEF LiveOK
      <4>2. CASE op = "rm"
        <5>1. ~Effective(row'[c])
          BY <1>3, <4>2, AbsentRow DEF Wanted
        <5> QED BY <3>1, <4>2, <5>1
      <4>3. CASE op \notin {"add", "rm"}
        BY <1>2, <1>8, <2>1, <3>1, <4>3 DEF LiveOK
      <4> QED BY <4>1, <4>2, <4>3
    <3> QED BY <1>0, <1>2, <1>4, <3>1, <3>2 DEF Served
  <2> QED BY <2>2, <2>3
<1> QED BY <1>0, <1>2, <1>3, <1>5, <1>9, ServingOfCur

\* The steps that touch the live Xray, and the copy of the canonical row.
LEMMA ServingOfFastPath ==
  ASSUME TypeOK, Working, Serving, AskStatus \/ AddLive \/ RemoveLive \/ Materialize
  PROVE  Serving'
<1>0. PICK c \in Servers : c = Cur /\ c \in todo
  BY Changing DEF AskStatus, AddLive, RemoveLive, Materialize
<1>1. CASE GiveUp
  <2>1. at # "idle" /\ enabled' = enabled /\ blocks' = blocks /\ blocked' \subseteq blocked
        /\ UNCHANGED <<config, policy>>
    BY <1>1 DEF AskStatus, AddLive, RemoveLive, Materialize, localVars, hostVars, agentVars
  <2>2. \A s \in Servers \ {Cur} : row'[s] = row[s] /\ live'[s] = live[s]
    BY <1>1 DEF AskStatus, AddLive, RemoveLive, Materialize, localVars, hostVars, agentVars, TypeOK, WithUser, WithoutUser
  <2> QED BY <1>1, <2>1, <2>2, ServingOfGiveUp
<1>2. CASE AskStatus
  <2>1. /\ at = "status" /\ at' \in {"render", "add", "materialize"} /\ ~full
        /\ UNCHANGED <<row, enabled, todo, full, torn, live, config, policy, blocked, blocks>>
    BY <1>2 DEF AskStatus, Goto, localVars, hostVars, agentVars, histVars, Working
  <2>2. Cur' = c
    BY <1>0, <2>1 DEF Cur
  <2>3. Prepared'
    BY <1>0, <2>1, <2>2 DEF Prepared, Serving
  <2>4. c \in (enabled \ torn)' => LiveOK(c)'
    BY <2>1 DEF Serving, Served, LiveOK
  <2>5. c \in (enabled \ torn)' => Served(c)'
    BY <1>0, <2>1, <2>2, <2>4 DEF Served
  <2> QED BY <1>0, <2>1, <2>3, <2>5, ServingOfCur
<1>3. CASE AddLive \/ RemoveLive
  <2>1. /\ at \in {"add", "remove"} /\ at' \in {"render", "materialize"} /\ ~full
        /\ UNCHANGED <<row, enabled, todo, full, torn, config, policy, blocks>>
        /\ blocked' \subseteq blocked
    BY <1>3 DEF AddLive, RemoveLive, Goto, localVars, agentVars, histVars, Working
  <2>2. Cur' = c
    BY <1>0, <2>1 DEF Cur
  <2>3. Prepared'
    BY <2>1 DEF Prepared
  <2>4. \A s \in Servers \ {c} : live'[s] = live[s]
    BY <1>0, <1>3 DEF AddLive, RemoveLive, WithUser, WithoutUser, TypeOK
  <2>5. ASSUME c \in (enabled \ torn)', at' = "render" PROVE LiveOK(c)'
    <3>1. CASE AddLive
      <4>1. live' = WithUser(c, row[c].uuid)
        BY <1>0, <2>5, <3>1 DEF AddLive, Goto
      <4>2. LiveOK(c) /\ Effective(row[c])
        BY <1>0, <2>1, <2>5, <3>1 DEF AddLive, Serving, Served, Prepared
      <4> QED BY <2>1, <4>1, <4>2 DEF LiveOK, WithUser, TypeOK
    <3>2. CASE RemoveLive
      <4>1. live' = WithoutUser(c)
        BY <1>0, <2>5, <3>2 DEF RemoveLive, Goto
      <4> QED BY <4>1 DEF LiveOK, WithoutUser, TypeOK
    <3> QED BY <1>3, <3>1, <3>2
  <2>6. c \in (enabled \ torn)' => Served(c)'
    BY <1>0, <2>1, <2>2, <2>5 DEF Served
  <2> QED BY <1>0, <2>1, <2>3, <2>4, <2>6, ServingOfCur
<1>4. CASE Materialize /\ ~GiveUp
  <2>1. /\ at' = "render" /\ full'
        /\ row' = [row EXCEPT ![c] = Materialized(c)]
        /\ UNCHANGED <<enabled, todo, torn, live, config, policy, blocked, blocks>>
    BY <1>0, <1>4 DEF Materialize, histVars, hostVars, agentVars
  <2>2. Cur' = c
    BY <1>0, <2>1 DEF Cur
  <2>3. Prepared' /\ Served(c)'
    BY <1>0, <2>1, <2>2 DEF Prepared, Served
  <2>4. \A s \in Servers \ {c} : row'[s] = row[s]
    BY <2>1 DEF TypeOK
  <2> QED BY <1>0, <2>1, <2>3, <2>4, ServingOfCur
<1> QED BY <1>1, <1>2, <1>3, <1>4

\* The steps that make config.json and install it.
LEMMA ServingOfDeploy ==
  ASSUME TypeOK, Working, Serving, Render \/ Install, ~GiveUp
  PROVE  Serving'
<1>0. PICK c \in Servers : c = Cur /\ c \in todo
  BY Changing DEF Render, Install
<1>1. UNCHANGED <<row, enabled, todo, full, policy, blocked, blocks>>
  BY DEF Render, Install, localVars, hostVars, agentVars
<1>2. Cur' = c
  BY <1>0, <1>1 DEF Cur
<1>3. CASE Render
  <2>1. /\ at = "render" /\ at' = "install" /\ torn' = torn /\ live' = live /\ config' = config
        /\ render' = IF Effective(row[c]) /\ ~(c \in stamped /\ StatusBlocked(c))
                     THEN row[c].uuid ELSE NoUuid
    BY <1>0, <1>3 DEF Render, hostVars, histVars
  <2>2. blocks = 0 => ~StatusBlocked(c)
    BY DEF Serving, StatusBlocked
  <2>3. Prepared'
    BY <1>1, <1>2, <2>1, <2>2 DEF Prepared
  <2>4. c \in (enabled \ torn)' => Served(c)'
    BY <1>0, <1>1, <1>2, <2>1 DEF Serving, Served, LiveOK
  <2> QED BY <1>0, <1>1, <2>1, <2>3, <2>4, ServingOfCur
<1>4. CASE Install
  <2>1. /\ at = "install" /\ at' = "users" /\ config' = [config EXCEPT ![c] = render]
        /\ live' = IF full THEN [live EXCEPT ![c] = render] ELSE live
        /\ torn' = IF full THEN torn \ {c} ELSE torn
    BY <1>0, <1>4 DEF Install, InstallConfig, Recreate
  <2>2. Prepared'
    BY <2>1 DEF Prepared
  <2>3. /\ render # NoUuid => Effective(row[c]) /\ render = row[c].uuid
        /\ blocks = 0 /\ Effective(row[c]) => render = row[c].uuid
    BY <1>0, <2>1 DEF Serving, Prepared
  <2>4. config'[c] = render /\ (full => live'[c] = render)
    BY <2>1 DEF TypeOK
  <2>5. ConfigOK(c)'
    BY <1>1, <2>3, <2>4 DEF ConfigOK
  <2>6. c \in (enabled \ torn)' => LiveOK(c)'
    <3>1. CASE full
      BY <1>1, <2>3, <2>4, <3>1 DEF LiveOK
    <3>2. CASE ~full
      BY <1>1, <2>1, <3>2 DEF Serving, Served, LiveOK
    <3> QED BY <3>1, <3>2
  <2>7. c \in (enabled \ torn)' => Served(c)'
    BY <1>0, <1>1, <1>2, <2>1, <2>5, <2>6 DEF Served
  <2>8. \A s \in Servers \ {c} : live'[s] = live[s] /\ config'[s] = config[s]
    BY <2>1 DEF TypeOK
  <2>9. torn \subseteq torn' \union {c}
    BY <2>1
  <2> QED BY <1>0, <1>1, <2>2, <2>7, <2>8, <2>9, ServingOfCur
<1> QED BY <1>3, <1>4

\* After them the server has what its row says, and no step relies on anything.
LEMMA ServingOfAll ==
  ASSUME TypeOK, Working, Serving, NEW c \in Servers, c = Cur, enabled' = enabled,
         torn \subseteq torn' \union {c}, blocks' = blocks, blocked' \subseteq blocked,
         row' = row, config' = config,
         \A s \in Servers \ {c} : live'[s] = live[s] /\ policy'[s] = policy[s],
         c \in (enabled \ torn)' => AllOK(c)', at' \notin {"status", "add", "install"}
  PROVE  Serving'
<1>1. Prepared'
  BY DEF Prepared
<1>2. c \in (enabled \ torn)' => Served(c)'
  BY AllIsServed
<1> QED BY <1>1, <1>2, ServingOfCur

\* The synchronisation of the agent.
LEMMA ServingOfSync ==
  ASSUME TypeOK, Working, Serving, SyncUsers \/ SyncQuota \/ Recheck \/ ResetQuota, ~GiveUp
  PROVE  Serving'
<1>0. PICK c \in Servers : c = Cur /\ c \in todo
  BY Changing DEF SyncUsers, SyncQuota, Recheck, ResetQuota
<1>1. UNCHANGED <<row, enabled, torn, config, blocks>>
  BY DEF SyncUsers, SyncQuota, Recheck, ResetQuota, Goto, Finish, localVars, hostVars, histVars
<1>2. CASE SyncUsers
  <2>1. /\ at = "users" /\ at' \in {"quota", "users"} /\ UNCHANGED <<todo, full, policy, blocked>>
        /\ live' = IF Ended(row[c]) THEN WithoutUser(c) ELSE live
    BY <1>0, <1>2 DEF SyncUsers, Goto
  <2>2. c \in enabled \ torn => LiveOK(c) /\ ConfigOK(c)
    BY <2>1 DEF Serving, Served
  <2>3. (LiveOK(c) => LiveOK(c)') /\ (ConfigOK(c) => ConfigOK(c)')
    BY <1>1, <2>1 DEF LiveOK, ConfigOK, WithoutUser, TypeOK
  <2>4. \A s \in Servers \ {c} : live'[s] = live[s]
    BY <2>1 DEF WithoutUser, TypeOK
  <2>5. Cur' = c
    BY <1>0, <2>1 DEF Cur
  <2>6. c \in (enabled \ torn)' => Served(c)'
    BY <1>0, <1>1, <2>1, <2>2, <2>3, <2>5 DEF Served
  <2>7. Prepared'
    BY <2>1 DEF Prepared
  <2> QED BY <1>0, <1>1, <2>1, <2>4, <2>6, <2>7, ServingOfCur
<1>3. CASE SyncQuota
  <2>1. QuotaSynced(c) /\ at = "quota"
    BY <1>0, <1>3 DEF SyncQuota
  <2>2. at' \notin {"status", "add", "install"}
    BY <1>3 DEF SyncQuota, Goto, Finish, FirstStep
  <2>3. /\ policy' = [policy EXCEPT ![c] = PolicyOf(row[c])] /\ blocked' \subseteq blocked
        /\ \/ live' = live
           \/ PolicyOf(row[c]) # NoPolicy /\ live' = WithUser(c, PolicyOf(row[c]).uuid)
    BY <2>1 DEF QuotaSynced
  <2>4. PolicyOf(row[c]) # NoPolicy => Effective(row[c]) /\ PolicyOf(row[c]).uuid = row[c].uuid
    BY DEF PolicyOf
  <2>5. ASSUME c \in (enabled \ torn)' PROVE AllOK(c)'
    <3>1. LiveOK(c) /\ ConfigOK(c)
      BY <1>1, <2>1, <2>5 DEF Serving, Served
    <3>2. LiveOK(c)'
      BY <1>1, <2>3, <2>4, <3>1 DEF LiveOK, WithUser, TypeOK
    <3>3. ConfigOK(c)'
      BY <1>1, <3>1 DEF ConfigOK
    <3>4. PolicyOK(c)'
      <4>1. policy'[c] = PolicyOf(row[c])
        BY <2>3 DEF TypeOK
      <4> QED BY <1>1, <2>4, <4>1 DEF PolicyOK
    <3> QED BY <3>2, <3>3, <3>4 DEF AllOK
  <2>6. \A s \in Servers \ {c} : live'[s] = live[s] /\ policy'[s] = policy[s]
    BY <2>3 DEF WithUser, TypeOK
  <2> QED BY <1>0, <1>1, <2>2, <2>3, <2>5, <2>6, ServingOfAll
<1>4. CASE Recheck \/ ResetQuota
  <2>1. at \in {"recheck", "reset"} /\ policy' = policy /\ blocked' \subseteq blocked
    BY <1>4 DEF Recheck, ResetQuota, hostVars, agentVars
  <2>2. at' \notin {"status", "add", "install"}
    BY <1>4 DEF Recheck, ResetQuota, Goto, Finish, FirstStep
  <2>3. \/ live' = live
        \/ policy[c] # NoPolicy /\ live' = WithUser(c, policy[c].uuid)
    BY <1>0, <1>4 DEF Recheck, ResetQuota, hostVars
  <2>4. ASSUME c \in (enabled \ torn)' PROVE AllOK(c)'
    <3>1. LiveOK(c) /\ ConfigOK(c) /\ PolicyOK(c)
      BY <1>1, <2>1, <2>4 DEF Serving, Served, AllOK
    <3>2. LiveOK(c)'
      BY <1>1, <2>3, <3>1 DEF LiveOK, PolicyOK, WithUser, TypeOK
    <3>3. ConfigOK(c)' /\ PolicyOK(c)'
      BY <1>1, <2>1, <3>1 DEF ConfigOK, PolicyOK
    <3> QED BY <3>2, <3>3 DEF AllOK
  <2>5. \A s \in Servers \ {c} : live'[s] = live[s]
    BY <2>3 DEF WithUser, TypeOK
  <2> QED BY <1>0, <1>1, <2>1, <2>2, <2>4, <2>5, ServingOfAll
<1> QED BY <1>2, <1>3, <1>4

\* Each step leaves served what is recorded.
LEMMA ServingStep ==
  ASSUME TypeOK, Working, Rolling, Serving, [Next]_vars
  PROVE  Serving'
<1>1. CASE CopyRow
  <2>1. PICK c \in Servers : c = Cur /\ c \in todo
    BY <1>1, Changing DEF CopyRow
  <2>2. /\ torn' = torn \union {c} /\ at' \in {"copy", "idle"}
        /\ UNCHANGED <<enabled, live, config, policy, blocked, blocks>>
    BY <1>1, <2>1, Changing DEF CopyRow, hostVars, agentVars
  <2>3. \A s \in Servers \ {c} : row'[s] = row[s]
    BY <1>1, <2>1 DEF CopyRow, TypeOK
  <2>4. Prepared'
    BY <2>2 DEF Prepared
  <2> QED BY <2>1, <2>2, <2>3, <2>4, ServingOfCur
<1>2. CASE Render \/ Install \/ SyncUsers
  <2>1. CASE GiveUp
    <3>1. at # "idle" /\ UNCHANGED <<row, enabled, policy, blocked, blocks>>
      BY <1>2 DEF Render, Install, SyncUsers, localVars, hostVars, agentVars
    <3>2. \A s \in Servers \ {Cur} : live'[s] = live[s] /\ config'[s] = config[s]
      BY <1>2 DEF Render, Install, InstallConfig, Recreate, SyncUsers, WithoutUser, hostVars, TypeOK
    <3> QED BY <2>1, <3>1, <3>2, ServingOfGiveUp
  <2>2. CASE ~GiveUp
    BY <1>2, <2>2, ServingOfDeploy, ServingOfSync
  <2> QED BY <2>1, <2>2
<1>3. CASE SyncQuota \/ Recheck \/ ResetQuota
  <2>1. CASE GiveUp
    <3>1. at # "idle" /\ UNCHANGED <<row, enabled, config, blocks>> /\ blocked' \subseteq blocked
      BY <1>3 DEF SyncQuota, QuotaSynced, Recheck, ResetQuota, localVars, hostVars, agentVars
    <3>2. \A s \in Servers \ {Cur} : live'[s] = live[s] /\ policy'[s] = policy[s]
      BY <1>3 DEF SyncQuota, QuotaSynced, Recheck, ResetQuota, WithUser, hostVars, agentVars, TypeOK
    <3> QED BY <2>1, <3>1, <3>2, ServingOfGiveUp
  <2>2. CASE ~GiveUp
    BY <1>3, <2>2, ServingOfSync
  <2> QED BY <2>1, <2>2
<1> QED BY <1>1, <1>2, <1>3, ServingOfCommand, ServingOfRest, ServingOfWriteRow, ServingOfFastPath
    DEF Next, Step

-----------------------------------------------------------------------------
(* The theorems.                                                           *)

\* The invariant holds in the beginning, ...
LEMMA InvInit == Init => IInv
<1> SUFFICES ASSUME Init PROVE IInv
  OBVIOUS
<1>1. TypeOK
  BY TypeInit
<1>2. op = "none" /\ at = "idle" /\ todo = {} /\ arg = Absent /\ full = FALSE
      /\ \A s \in Servers : row[s] = Absent /\ live[s] = NoUuid /\ config[s] = NoUuid /\ policy[s] = NoPolicy
  BY DEF Init
<1>3. Working
  BY <1>2 DEF Working, RowOps, QuotaOps, RowSteps, DeploySteps
<1>4. Rolling
  BY <1>2 DEF Rolling, RowOps
<1>5. Present = {}
  BY <1>1, <1>2, ServerSets DEF Present
<1>6. SettledServersAgree
  BY <1>5 DEF SettledServersAgree
<1>7. \A s \in enabled : AllOK(s)
  BY <1>1, <1>2, ServerSets, AbsentRow DEF AllOK, LiveOK, ConfigOK, PolicyOK
<1>8. Serving
  <2>1. blocked = {}
    BY DEF Init
  <2> QED BY <1>2, <1>7, <2>1 DEF Serving, Served, Prepared
<1> QED BY <1>1, <1>3, <1>4, <1>6, <1>8 DEF IInv

\* ... and each step keeps it.
LEMMA InvStep == IInv /\ [Next]_vars => IInv'
<1> SUFFICES ASSUME IInv, [Next]_vars PROVE IInv'
  OBVIOUS
<1>1. TypeOK /\ Working /\ Rolling /\ SettledServersAgree /\ Serving
  BY DEF IInv
<1>2. TypeOK' /\ Working' /\ Rolling'
  BY <1>1, TypeStep, WorkingStep, RollingStep
<1>3. SettledServersAgree' /\ Serving'
  BY <1>1, AgreeStep, ServingStep
<1> QED BY <1>2, <1>3 DEF IInv

\* The inductive invariant holds in every reachable state.
LEMMA Invariance == Spec => []IInv
BY InvInit, InvStep, PTL DEF Spec

\* The CLI, its rows and the machines have the types that the module says.
THEOREM TypeCorrect == Spec => []TypeOK
BY Invariance, PTL DEF IInv

\* Servers on which every change came to its end have rows that agree, so that the next
\* command (diffGlobalIdentityFields) does not refuse them.
THEOREM RowsAgree == Spec => []SettledServersAgree
BY Invariance, PTL DEF IInv

\* There Xray and config.json serve what the row says, whatever failed before.
THEOREM Faithful == Spec => []ServedAsRecorded
<1>1. IInv => ServedAsRecorded
  <2> SUFFICES ASSUME IInv, NEW s \in Settled
               PROVE  /\ \A id \in {live[s], config[s]} \ {NoUuid} : Effective(row[s]) /\ id = row[s].uuid
                      /\ blocks = 0 /\ Effective(row[s]) => config[s] = row[s].uuid
    BY DEF ServedAsRecorded
  <2>1. LiveOK(s) /\ ConfigOK(s)
    BY DEF IInv, Serving, Served, AllOK, Settled
  <2> QED BY <2>1 DEF LiveOK, ConfigOK
<1> QED BY <1>1, Invariance, PTL

\* No command but a reconcile gives the user two UUIDs.
THEOREM OneUserOneIdentity == Spec => OnlyReconcileMixesIdentities
<1>1. IInv /\ [Next]_vars => [OneIdentity /\ ~OneIdentity' => op = "reconcile"]_vars
  BY IdentityStep DEF IInv
<1> QED BY <1>1, Invariance, PTL DEF Spec, OnlyReconcileMixesIdentities

=============================================================================
