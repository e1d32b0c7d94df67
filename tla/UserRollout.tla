------------------------------ MODULE UserRollout ------------------------------
(***************************************************************************)
(* How the ovpn CLI rolls a change of a user out to every enabled server.  *)
(*                                                                         *)
(* The operator's machine holds one row per user and server.  A mutating   *)
(* command visits the enabled servers in the order of their names and      *)
(* stops at the first error.  On each server it writes the row, tells the  *)
(* agent to add the user to the live Xray or to remove it (the fast path), *)
(* installs a new config.json and sends the agent the user and the quota   *)
(* policies.  If the fast path fails it deploys the whole server instead;  *)
(* a deploy first copies the canonical users, those of all enabled         *)
(* servers, to its own rows.  Any remote call may fail, with or without    *)
(* its effect, and the command may be interrupted.                         *)
(*                                                                         *)
(* One user and one inbound are modelled, and one command at a time.  Of   *)
(* the agent this module keeps what the commands meet; AgentEnforcement    *)
(* models its passes.                                                      *)
(***************************************************************************)
EXTENDS Integers, FiniteSets, FiniteSetsExt

CONSTANTS
  Servers,                  \* numbered in the order of their names
  Deployed,                 \* the servers that run at the beginning
  Uuids, NoUuid,            \* what identifies the user to Xray
  Ops,                      \* the commands that may be given, see below
  MaxCommands,              \* bound: commands that start
  MaxFaults,                \* bound: calls that fail, interruptions
  MaxBlocks                 \* bound: quota blocks

RowOps == {"add", "rm", "enable", "disable", "expiry_past", "expiry_clear",
           "quota_on", "quota_off", "quota_reset"}
ServerOps == {"deploy", "reconcile", "server_add", "server_cleanup"}

ASSUME RolloutAssumption ==
  /\ Servers \subseteq Nat
  /\ IsFiniteSet(Servers)
  /\ Deployed \subseteq Servers
  /\ NoUuid \notin Uuids
  /\ Ops \subseteq RowOps \union ServerOps
  /\ {MaxCommands, MaxFaults, MaxBlocks} \subseteq Nat

\* A row: enabled, whether the expiry date has passed, quota_enabled.
Absent == [uuid |-> NoUuid, on |-> FALSE, past |-> FALSE, capped |-> FALSE]
UserRows == [uuid : Uuids, on : BOOLEAN, past : BOOLEAN, capped : BOOLEAN]
NoPolicy == [uuid |-> NoUuid, capped |-> FALSE]
Policies == [uuid : Uuids, capped : BOOLEAN]

Effective(r) == r.on /\ ~r.past
Ended(r) == r # Absent /\ ~Effective(r)

VARIABLES
  (* the operator's machine *)
  listed, enabled,          \* the servers that are registered, and enabled
  stamped,                  \* those with a last_deploy_at
  row,                      \* row[s]: the user's row for server s
  (* the command that runs *)
  op, arg,                  \* its name, and the row that it copies
  todo, at,                 \* the servers it has not finished, and its step
  full,                     \* it deploys, it does not only persist config.json
  render,                   \* the user in the config.json it has rendered
  (* the servers *)
  up,                       \* where the agent and Xray run
  live, config,             \* the user in Xray's memory, in config.json
  mirror, policy, blocked,  \* the agent's database
  (* history and bounds *)
  torn,                     \* servers with a change broken off, or disturbed,
                            \*   since they were deployed
  result,                   \* "none", the command that succeeded, or "failed"
  commands, faults, blocks

localVars == <<listed, enabled, stamped, row>>
cmdVars == <<op, arg, todo, at, full, render>>
agentVars == <<mirror, policy, blocked>>
hostVars == <<up, live, config, agentVars>>
histVars == <<torn, result, commands>>
vars == <<localVars, cmdVars, hostVars, histVars, faults, blocks>>

Steps == {"idle", "row", "status", "add", "remove", "materialize", "render",
          "install", "users", "quota", "recheck", "reset", "copy"}

TypeOK ==
  /\ enabled \subseteq listed /\ stamped \subseteq listed /\ listed \subseteq Servers
  /\ row \in [Servers -> UserRows \union {Absent}]
  /\ op \in Ops \union {"none"} /\ at \in Steps
  /\ arg \in UserRows \union {Absent}
  /\ todo \subseteq listed
  /\ full \in BOOLEAN /\ render \in Uuids \union {NoUuid}
  /\ up \subseteq listed
  /\ live \in [Servers -> Uuids \union {NoUuid}]
  /\ config \in [Servers -> Uuids \union {NoUuid}]
  /\ mirror \in [Servers -> UserRows \union {Absent}]
  /\ policy \in [Servers -> Policies \union {NoPolicy}]
  /\ blocked \subseteq Servers
  /\ torn \subseteq listed /\ result \in RowOps \union {"none", "failed"}
  /\ commands \in 0 .. MaxCommands /\ faults \in 0 .. MaxFaults /\ blocks \in 0 .. MaxBlocks

Init ==
  /\ listed = Deployed /\ enabled = Deployed /\ stamped = Deployed /\ up = Deployed
  /\ row = [s \in Servers |-> Absent]
  /\ op = "none" /\ arg = Absent /\ todo = {} /\ at = "idle"
  /\ full = FALSE /\ render = NoUuid
  /\ live = [s \in Servers |-> NoUuid] /\ config = [s \in Servers |-> NoUuid]
  /\ mirror = [s \in Servers |-> Absent]
  /\ policy = [s \in Servers |-> NoPolicy]
  /\ blocked = {}
  /\ torn = {} /\ result = "none"
  /\ commands = 0 /\ faults = 0 /\ blocks = 0

-----------------------------------------------------------------------------
(* Canonical users: those of the enabled servers, if their rows agree.     *)

Present == {s \in enabled : row[s] # Absent}

\* diffGlobalIdentityFields: quota fields may differ.
SameIdentity(r, q) == r.uuid = q.uuid /\ r.on = q.on /\ r.past = q.past
Consistent == \A s, t \in Present : SameIdentity(row[s], row[t])

\* AddUser sets quota_enabled, whatever the row to be added says.
Inserted(r) == [r EXCEPT !.capped = TRUE]

\* materializeCanonicalUsersOnServer: the row of server s afterwards.  The
\* first enabled server that has the user provides it.
Materialized(s) ==
  IF Present = {} THEN row[s]
  ELSE LET want == row[Min(Present)]
       IN IF row[s] = Absent THEN Inserted(want)
          ELSE [want EXCEPT !.capped = row[s].capped]

\* resolveUserMutationServers.
Admitted == enabled # {} /\ (Cardinality(enabled) > 1 => Consistent)

-----------------------------------------------------------------------------
(* A command starts.  One that is refused has no effect.                   *)

Start(o, label) ==
  /\ op = "none"
  /\ o \in Ops
  /\ commands < MaxCommands
  /\ commands' = commands + 1
  /\ op' = o
  /\ at' = label
  /\ result' = "none"
  /\ UNCHANGED <<localVars, full, render, hostVars, torn, faults, blocks>>

\* Mutant of AddUserCmd: only the first target is asked.
AddUserCmdFirst ==
  /\ Admitted
  /\ row[Min(enabled)] = Absent
  /\ Start("add", "row")
  /\ \E id \in Uuids, p \in BOOLEAN :
       arg' = [uuid |-> id, on |-> TRUE, past |-> p, capped |-> TRUE]
  /\ todo' = enabled

\* `user add`: no target may have the user.
AddUserCmd ==
  /\ Admitted
  /\ Present = {}
  /\ Start("add", "row")
  /\ \E id \in Uuids, p \in BOOLEAN :
       arg' = [uuid |-> id, on |-> TRUE, past |-> p, capped |-> TRUE]
  /\ todo' = enabled

\* The other mutations: every target must have the user.
ChangeUserCmd ==
  /\ Admitted
  /\ Present = enabled
  /\ \E o \in RowOps \ {"add"} : Start(o, IF o = "quota_reset" THEN "reset" ELSE "row")
  /\ arg' = Absent
  /\ todo' = enabled

\* `deploy` and `server init` take any registered server, enabled or not.
DeployCmd ==
  /\ Start("deploy", "materialize")
  /\ arg' = Absent
  /\ \E s \in listed : todo' = {s}

\* `user reconcile --apply`: to another server, to the enabled ones, or to all.
\* The rows of the source are read once.
ReconcileCmd ==
  /\ Start("reconcile", "copy")
  /\ \E s \in listed :
       /\ arg' = row[s]
       /\ todo' \in {{t} : t \in listed \ {s}} \union {enabled \ {s}, listed \ {s}}
       /\ todo' # {}

\* `server add`: the server is registered, and then the canonical users are
\* seeded, if they agree and the command is not interrupted before.  Nothing is
\* deployed.
ServerAddCmd ==
  /\ "server_add" \in Ops /\ op = "none" /\ commands < MaxCommands
  /\ \E s \in Servers \ listed :
       /\ listed' = listed \union {s}
       /\ enabled' = enabled \union {s}
       /\ torn' = torn \union {s}
       /\ \/ /\ row' = [row EXCEPT ![s] = IF Consistent THEN Materialized(s) ELSE Absent]
             /\ UNCHANGED faults
          \/ /\ row' = [row EXCEPT ![s] = Absent]
             /\ faults < MaxFaults /\ faults' = faults + 1
  /\ result' = "none" /\ commands' = commands + 1
  /\ UNCHANGED <<stamped, cmdVars, hostVars, blocks>>

\* CleanupRemote: the stack goes, and with --remove-volumes the agent's database.
CleanedUp(s, wiped) ==
  /\ up' = up \ {s}
  /\ blocked' = IF wiped THEN blocked \ {s} ELSE blocked
  /\ live' = [live EXCEPT ![s] = NoUuid]
  /\ config' = [config EXCEPT ![s] = NoUuid]
  /\ mirror' = IF wiped THEN [mirror EXCEPT ![s] = Absent] ELSE mirror
  /\ policy' = IF wiped THEN [policy EXCEPT ![s] = NoPolicy] ELSE policy

\* DeleteServerByName, with the rows that depend on the server.
Deleted(s) ==
  /\ listed' = listed \ {s} /\ enabled' = enabled \ {s} /\ stamped' = stamped \ {s}
  /\ row' = [row EXCEPT ![s] = Absent]
  /\ torn' = torn \ {s}

\* `server cleanup`: afterwards the server is disabled, or its metadata removed.
\* If CleanupRemote fails halfway, local state stays as it is.
ServerCleanupCmd ==
  /\ "server_cleanup" \in Ops /\ op = "none" /\ commands < MaxCommands
  /\ \E s \in listed, wiped \in BOOLEAN :
       /\ CleanedUp(s, wiped)
       /\ \/ Deleted(s) /\ UNCHANGED faults
          \/ /\ enabled' = enabled \ {s}
             /\ torn' = torn \union {s}
             /\ UNCHANGED <<listed, stamped, row, faults>>
          \/ /\ faults < MaxFaults /\ faults' = faults + 1
             /\ torn' = torn \union {s}
             /\ UNCHANGED localVars
  /\ result' = "none" /\ commands' = commands + 1
  /\ UNCHANGED <<cmdVars, blocks>>

-----------------------------------------------------------------------------
(* How a step ends.                                                        *)

Fault == faults < MaxFaults /\ faults' = faults + 1

\* A call of s's agent: it answers; it is not reached; its answer is lost.
Answers(s) == s \in up /\ UNCHANGED faults
NotReached(s) == (s \notin up /\ UNCHANGED faults) \/ Fault
AnswerLost(s) == s \in up /\ Fault

Goto(label) == at' = label /\ UNCHANGED <<op, arg, todo, full, render, histVars>>

\* The first error ends the command.
GiveUp ==
  /\ op' = "none" /\ arg' = Absent /\ todo' = {} /\ at' = "idle"
  /\ full' = FALSE /\ render' = NoUuid
  /\ torn' = torn \union todo
  /\ result' = IF op \in RowOps THEN "failed" ELSE "none"
  /\ UNCHANGED commands

FirstStep == IF op = "quota_reset" THEN "reset" ELSE "row"

\* Mutant of Finish: the loop over the servers returns after the first one.
FinishAll(s) ==
  /\ op' = "none" /\ arg' = Absent /\ todo' = {} /\ at' = "idle"
  /\ full' = FALSE /\ render' = NoUuid
  /\ result' = IF op \in RowOps THEN op ELSE "none"
  /\ UNCHANGED <<torn, commands>>

\* Server s is done; the next one is visited, or the command succeeds.
Finish(s) ==
  /\ todo' = todo \ {s}
  /\ full' = FALSE /\ render' = NoUuid
  /\ \/ todo' = {} /\ op' = "none" /\ arg' = Absent /\ at' = "idle"
        /\ result' = IF op \in RowOps THEN op ELSE "none"
     \/ todo' # {} /\ at' = FirstStep /\ UNCHANGED <<op, arg, result>>
  /\ UNCHANGED <<torn, commands>>

\* Ctrl-C, or the machine goes to sleep.
Interrupt ==
  /\ op # "none"
  /\ Fault
  /\ GiveUp
  /\ UNCHANGED <<localVars, hostVars, blocks>>

-----------------------------------------------------------------------------
(* The steps on one server, the first one of todo.                         *)

Cur == Min(todo)

\* The row that the command wants; expiry-clear enables the user, too.
Wanted(r) ==
  CASE op = "add" -> arg
    [] op = "rm" -> Absent
    [] op = "enable" -> [r EXCEPT !.on = TRUE]
    [] op = "disable" -> [r EXCEPT !.on = FALSE]
    [] op = "expiry_past" -> [r EXCEPT !.past = TRUE]
    [] op = "expiry_clear" -> [r EXCEPT !.past = FALSE, !.on = TRUE]
    [] op = "quota_on" -> [r EXCEPT !.capped = TRUE]
    [] op = "quota_off" -> [r EXCEPT !.capped = FALSE]

\* setUserExpiryOnServer leaves Xray alone if the user's effective state is the
\* same as before; the quota commands never touch it.
NextStep(old, new) ==
  IF op \in {"quota_on", "quota_off"} THEN "quota"
  ELSE IF op \in {"expiry_past", "expiry_clear"} /\ Effective(old) = Effective(new)
  THEN "render"
  ELSE IF Effective(new) THEN "status" ELSE "remove"

WriteRow ==
  /\ at = "row"
  /\ row' = [row EXCEPT ![Cur] = Wanted(row[Cur])]
  /\ Goto(NextStep(row[Cur], Wanted(row[Cur])))
  /\ UNCHANGED <<listed, enabled, stamped, hostVars, faults, blocks>>

\* quota_state is reported for users that have a policy.
StatusBlocked(s) == s \in blocked /\ policy[s] # NoPolicy

\* applyRuntimeUser asks for the quota status before it adds a user; for a
\* blocked one there is nothing to do in Xray.
AskStatus ==
  /\ at = "status"
  /\ \/ Answers(Cur) /\ Goto(IF StatusBlocked(Cur) THEN "render" ELSE "add")
     \/ NotReached(Cur) /\ Goto("materialize")
  /\ UNCHANGED <<localVars, hostVars, blocks>>

\* Xray keeps the user that is there already, and that counts as a success.
WithUser(s, id) == IF live[s] = NoUuid THEN [live EXCEPT ![s] = id] ELSE live
WithoutUser(s) == [live EXCEPT ![s] = NoUuid]

\* /runtime/user/add: blocked by a quota, or ended in the agent's mirror.
Refused(s) == (s \in blocked /\ policy[s].capped) \/ Ended(mirror[s])

AddLive ==
  /\ at = "add"
  /\ \/ /\ ~Refused(Cur)
        /\ live' = WithUser(Cur, row[Cur].uuid)
        /\ blocked' = blocked \ {Cur}
        /\ \/ Answers(Cur) /\ Goto("render")
           \/ AnswerLost(Cur) /\ Goto("materialize")
     \/ /\ (Refused(Cur) /\ Answers(Cur)) \/ NotReached(Cur)
        /\ Goto("materialize")
        /\ UNCHANGED <<live, blocked>>
  /\ UNCHANGED <<localVars, up, config, mirror, policy, blocks>>

RemoveLive ==
  /\ at = "remove"
  /\ \/ /\ live' = WithoutUser(Cur)
        /\ \/ Answers(Cur) /\ Goto("render")
           \/ AnswerLost(Cur) /\ Goto("materialize")
     \/ NotReached(Cur) /\ Goto("materialize") /\ UNCHANGED live
  /\ UNCHANGED <<localVars, up, config, agentVars, blocks>>

\* The first half of initOrDeployServer: the command itself, or the fallback.
Materialize ==
  /\ at = "materialize"
  /\ \/ /\ Consistent
        /\ row' = [row EXCEPT ![Cur] = Materialized(Cur)]
        /\ at' = "render" /\ full' = TRUE
        /\ UNCHANGED <<op, arg, todo, render, histVars>>
     \/ ~Consistent /\ GiveUp /\ UNCHANGED row
  /\ UNCHANGED <<listed, enabled, stamped, hostVars, faults, blocks>>

\* Mutant of Render: the rows that are enabled are rendered, expired or not.
RenderEnabled ==
  /\ at = "render"
  /\ render' = IF row[Cur].on THEN row[Cur].uuid ELSE NoUuid
  /\ at' = "install"
  /\ UNCHANGED <<op, arg, todo, full, localVars, hostVars, histVars, faults, blocks>>

\* usersForRuntimeConfig: the agent is asked who is blocked, except before the
\* first deploy.
Render ==
  /\ at = "render"
  /\ \/ /\ Cur \in stamped => Answers(Cur)
        /\ Cur \notin stamped => UNCHANGED faults
        /\ render' = IF Effective(row[Cur]) /\ ~(Cur \in stamped /\ StatusBlocked(Cur))
                     THEN row[Cur].uuid ELSE NoUuid
        /\ at' = "install"
        /\ UNCHANGED <<op, arg, todo, full, histVars>>
     \/ Cur \in stamped /\ NotReached(Cur) /\ GiveUp
  /\ UNCHANGED <<localVars, hostVars, blocks>>

InstallConfig == config' = [config EXCEPT ![Cur] = render]

\* DeployRemote recreates the containers, and so makes up for changes that were
\* torn before; persistConfigOnly leaves them alone.  A failed one may have come
\* as far as it likes.
Recreate == live' = [live EXCEPT ![Cur] = render] /\ up' = up \union {Cur}

Install ==
  /\ at = "install"
  /\ \/ /\ InstallConfig
        /\ IF full THEN Recreate ELSE UNCHANGED <<live, up>>
        /\ \/ /\ at' = "users" /\ UNCHANGED <<op, arg, todo, full, render>>
              /\ torn' = IF full THEN torn \ {Cur} ELSE torn
              /\ UNCHANGED <<result, commands, faults>>
           \/ Fault /\ GiveUp
     \/ InstallConfig /\ Fault /\ GiveUp /\ UNCHANGED <<live, up>>
     \/ Fault /\ GiveUp /\ UNCHANGED <<config, live, up>>
  /\ UNCHANGED <<localVars, agentVars, blocks>>

\* /users/sync, with its expiry pass.  Both syncs are retried for a while, so that
\* one whose answer was lost may be sent again.
SyncUsers ==
  /\ at = "users"
  /\ \/ /\ mirror' = [mirror EXCEPT ![Cur] = row[Cur]]
        /\ live' = IF Ended(row[Cur]) THEN WithoutUser(Cur) ELSE live
        /\ \/ Answers(Cur) /\ Goto("quota")
           \/ AnswerLost(Cur) /\ (GiveUp \/ Goto("users"))
     \/ NotReached(Cur) /\ GiveUp /\ UNCHANGED <<mirror, live>>
  /\ UNCHANGED <<localVars, up, config, policy, blocked, blocks>>

PolicyOf(r) == IF Effective(r) THEN [uuid |-> r.uuid, capped |-> r.capped] ELSE NoPolicy

\* /quota/sync prunes the state of a user without a policy; its quota pass
\* lifts the block of a user without a quota.
QuotaSynced(s) ==
  LET new == PolicyOf(row[s])
  IN /\ policy' = [policy EXCEPT ![s] = new]
     /\ blocked' = IF new.capped THEN blocked ELSE blocked \ {s}
     /\ live' = IF new # NoPolicy /\ s \in blocked \ blocked'
                THEN WithUser(s, new.uuid) ELSE live

\* After a deploy SetServerLastDeploy follows.
SyncQuota ==
  /\ at = "quota"
  /\ \/ /\ QuotaSynced(Cur)
        /\ \/ Answers(Cur) /\ op \in {"quota_on", "quota_off"} /\ Goto("recheck")
              /\ UNCHANGED stamped
           \/ Answers(Cur) /\ op \notin {"quota_on", "quota_off"}
              /\ Finish(Cur)
              /\ stamped' = IF full THEN stamped \union {Cur} ELSE stamped
           \/ AnswerLost(Cur) /\ (GiveUp \/ Goto("quota")) /\ UNCHANGED stamped
     \/ NotReached(Cur) /\ GiveUp /\ UNCHANGED <<policy, blocked, live, stamped>>
  /\ UNCHANGED <<listed, enabled, row, up, config, mirror, blocks>>

\* setUserQuotaOnServer resets a block that outlived the new policy.
Recheck ==
  /\ at = "recheck"
  /\ \/ Answers(Cur) /\ (~row[Cur].capped \/ StatusBlocked(Cur)) /\ Goto("reset")
     \/ Answers(Cur) /\ row[Cur].capped /\ ~StatusBlocked(Cur) /\ Finish(Cur)
     \/ NotReached(Cur) /\ GiveUp
  /\ UNCHANGED <<localVars, hostVars, blocks>>

\* /quota/reset: the user is added if it has a policy and has not ended.
ResetQuota ==
  /\ at = "reset"
  /\ \/ /\ blocked' = blocked \ {Cur}
        /\ live' = IF policy[Cur] # NoPolicy /\ Effective(mirror[Cur])
                   THEN WithUser(Cur, policy[Cur].uuid) ELSE live
        /\ \/ Answers(Cur) /\ Finish(Cur)
           \/ AnswerLost(Cur) /\ GiveUp
     \/ NotReached(Cur) /\ GiveUp /\ UNCHANGED <<blocked, live>>
  /\ UNCHANGED <<localVars, up, config, mirror, policy, blocks>>

\* Mutant of CopyRow: what the source does not have is not deleted.
CopyRowBlank ==
  /\ at = "copy"
  /\ row' = [row EXCEPT ![Cur] = Inserted(arg)]
  /\ todo' = todo \ {Cur}
  /\ torn' = torn \union {Cur}
  /\ IF todo' = {} THEN op' = "none" /\ arg' = Absent /\ at' = "idle"
                   ELSE UNCHANGED <<op, arg, at>>
  /\ UNCHANGED <<listed, enabled, stamped, full, render, hostVars, result, commands, faults, blocks>>

\* One target of reconcile: the row is added, updated or deleted.
CopyRow ==
  /\ at = "copy"
  /\ row' = [row EXCEPT ![Cur] =
               IF @ = Absent /\ arg # Absent THEN Inserted(arg) ELSE arg]
  /\ todo' = todo \ {Cur}
  /\ torn' = torn \union {Cur}
  /\ IF todo' = {} THEN op' = "none" /\ arg' = Absent /\ at' = "idle"
                   ELSE UNCHANGED <<op, arg, at>>
  /\ UNCHANGED <<listed, enabled, stamped, full, render, hostVars, result, commands, faults, blocks>>

-----------------------------------------------------------------------------
(* The servers.                                                            *)

\* What the server does by itself in the middle of a change goes unnoticed.
Disturb(s) ==
  /\ torn' = torn \union ({s} \intersect todo)
  /\ UNCHANGED <<result, commands>>

\* A restart undoes what the fast path did and config.json does not hold yet.
XrayRestart(s) ==
  /\ s \in up
  /\ live' = [live EXCEPT ![s] = config[s]]
  /\ Disturb(s)
  /\ UNCHANGED <<localVars, cmdVars, up, config, agentVars, faults, blocks>>

AgentBlocks(s) ==
  /\ s \in up \ blocked
  /\ policy[s].capped
  /\ live[s] # NoUuid
  /\ blocks < MaxBlocks /\ blocks' = blocks + 1
  /\ blocked' = blocked \union {s}
  /\ live' = WithoutUser(s)
  /\ UNCHANGED <<localVars, cmdVars, up, config, mirror, policy, histVars, faults>>

\* An unblock adds the user of the policy that was synchronised last.
AgentUnblocks(s) ==
  /\ s \in up
  /\ StatusBlocked(s)
  /\ blocked' = blocked \ {s}
  /\ live' = WithUser(s, policy[s].uuid)
  /\ Disturb(s)
  /\ UNCHANGED <<localVars, cmdVars, up, config, mirror, policy, faults, blocks>>

\* An expiry pass; the agent also runs one when it starts, and so after each
\* deploy, before it serves /users/sync.
AgentExpires(s) ==
  /\ s \in up
  /\ Ended(mirror[s])
  /\ live' = WithoutUser(s)
  /\ UNCHANGED <<localVars, cmdVars, up, config, agentVars, histVars, faults, blocks>>

Command ==
  \/ AddUserCmd \/ ChangeUserCmd \/ DeployCmd \/ ReconcileCmd
  \/ ServerAddCmd \/ ServerCleanupCmd
Step ==
  \/ WriteRow \/ AskStatus \/ AddLive \/ RemoveLive
  \/ Materialize \/ Render \/ Install \/ SyncUsers \/ SyncQuota
  \/ Recheck \/ ResetQuota \/ CopyRow
Host == \E s \in Servers :
  XrayRestart(s) \/ AgentBlocks(s) \/ AgentUnblocks(s) \/ AgentExpires(s)

Next == Command \/ Step \/ Interrupt \/ Host

Spec == Init /\ [][Next]_vars

-----------------------------------------------------------------------------
(* Properties.                                                             *)

\* The servers on which every change was completed and none is under way.
Settled == enabled \ (torn \union todo)

\* On a settled server Xray and config.json let in nobody but the user that the
\* row says, with its identity; and, unless a quota came in between, config.json
\* does let it in.  What failed before or elsewhere, an identity that was used
\* earlier, a block or a restart does not show.
ServedAsRecorded ==
  \A s \in Settled :
    /\ \A id \in {live[s], config[s]} \ {NoUuid} :
         Effective(row[s]) /\ id = row[s].uuid
    /\ blocks = 0 /\ Effective(row[s]) => config[s] = row[s].uuid

\* No two settled servers have rows of the user that differ: a disagreement,
\* with which every later command is refused, is where a change broke off.
SettledServersAgree ==
  \A s, t \in Settled \intersect Present : SameIdentity(row[s], row[t])

\* The user has one UUID on all enabled servers; only a reconcile, which copies
\* rows at the operator's word, can give it two.
OneIdentity == \A s, t \in Present : row[s].uuid = row[t].uuid
OnlyReconcileMixesIdentities ==
  [][OneIdentity /\ ~OneIdentity' => op = "reconcile"]_vars

-----------------------------------------------------------------------------
(* What the documentation says and the code does not do.                   *)

\* docs/cli.md:14, for `rm`: where it succeeded, the user is gone everywhere.
RemovedIsGone ==
  result = "rm" /\ torn = {} => \A s \in enabled : row[s] = Absent /\ live[s] = NoUuid
=============================================================================
