------------------------------ MODULE ServerFleet ------------------------------
(***************************************************************************)
(* The servers as the ovpn CLI manages them: which transport profiles they *)
(* offer, the keys they share, the VPN backends of a proxy, and what a     *)
(* deploy or a change of a user makes of that on the hosts.                *)
(*                                                                         *)
(* A command edits rows in the local database; hosts follow at the next    *)
(* deploy.  A deploy renders config.json and docker-compose.yml, installs  *)
(* both and recreates the containers.  A change of a user takes a short    *)
(* cut: it tells the live Xray and rewrites config.json, not the compose   *)
(* file, and restarts nothing.  So there are three views of a server, the  *)
(* row, the files and the running containers, and a restart of Xray at any *)
(* time replaces the third by the second.                                  *)
(*                                                                         *)
(* One user is modelled, without an expiry or a quota (UserRollout has     *)
(* them), and one command at a time.                                       *)
(***************************************************************************)
EXTENDS Integers, FiniteSets, FiniteSetsExt

CONSTANTS
  Vpns, Proxies,            \* servers by role, numbered in the order of names
  Idents,                   \* REALITY key pairs with their short IDs
  Names,                    \* REALITY targets with their server names
  Pairs,                    \* VLESS Encryption key pairs
  ServiceIds,               \* proxy service UUIDs
  None,                     \* no such key
  Ops,                      \* the commands that may be given, see below
  MaxEdits,                 \* bound: commands other than deploy and those broken off
  MaxFaults                 \* bound: commands that break off

UserOps == {"user_add", "user_rm"}
ProfileOps == {"enable", "disable", "switch"}
AllOps == UserOps \union ProfileOps
            \union {"deploy", "target", "attach", "detach", "cleanup", "server_add"}

ASSUME FleetAssumption ==
  /\ Vpns \subseteq Nat /\ IsFiniteSet(Vpns) /\ Vpns # {}
  /\ Proxies \subseteq Nat /\ IsFiniteSet(Proxies)
  /\ Vpns \intersect Proxies = {}
  /\ None \notin Idents \union Names \union Pairs \union ServiceIds
  /\ Ops \subseteq AllOps
  /\ {MaxEdits, MaxFaults} \subseteq Nat

Servers == Vpns \union Proxies

\* Transport profiles in their display order.
Reality == 1
Plain == 2
SelfSni == 3
VlessEnc == 4
Profiles == {Reality, Plain, SelfSni, VlessEnc}

\* isMutuallyExclusive443Profile; the other profiles have ports of their own.
On443 == {Reality, SelfSni}

Rows == [enabled : BOOLEAN, primary : Profiles, profiles : SUBSET Profiles,
         ident : Idents, sni : Names, pair : Pairs \union {None},
         service : ServiceIds \union {None}]
NoRow == [enabled |-> FALSE, primary |-> Reality, profiles |-> {},
          ident |-> None, sni |-> None, pair |-> None, service |-> None]

NoRelay == [ident |-> None, sni |-> None, service |-> None]

\* An Xray configuration: users is the set of inbounds that have the user.
NoConfig == [profiles |-> {}, users |-> {}, ident |-> None, sni |-> None,
             pair |-> None, service |-> None, relay |-> NoRelay]

\* What docker-compose.yml and haproxy.cfg add: published ports (for SelfSni, the
\* certificates), and the backends.
NoStack == [profiles |-> {}, pool |-> {}]

VARIABLES
  (* the operator's machine *)
  row,                      \* row[s] in servers
  users,                    \* the servers whose rows include the user
  attached,                 \* <<proxy, backend>> in proxy_backends
  stamped,                  \* servers with a last_deploy_at
  (* the command that runs *)
  op, arg,                  \* its name and the profile it is about
  todo, at,                 \* the servers it has not finished, and its step
  bundle,                   \* the rendered bundle
  (* the hosts *)
  config, compose,          \* files on disk
  stack,                    \* the compose file of the running containers
  live,                     \* what Xray runs with; NoConfig if it is down
  (* history and bounds *)
  clean,                    \* servers deployed since a command was about them
  edits, faults

localVars == <<row, users, attached, stamped>>
cmdVars == <<op, arg, todo, at, bundle>>
hostVars == <<config, compose, stack, live>>
vars == <<localVars, cmdVars, hostVars, clean, edits, faults>>

NoBundle == [config |-> NoConfig, compose |-> NoStack]
Relays == [ident : Idents, sni : Names, service : ServiceIds] \union {NoRelay}
Configs == [profiles : SUBSET Profiles, users : SUBSET Profiles, ident : Idents,
            sni : Names, pair : Pairs \union {None},
            service : ServiceIds \union {None}, relay : Relays]
Stacks == [profiles : SUBSET Profiles, pool : SUBSET Vpns]

TypeOK ==
  /\ row \in [Servers -> Rows \union {NoRow}]
  /\ users \subseteq Servers /\ stamped \subseteq Servers
  /\ attached \subseteq Proxies \X Vpns
  /\ op \in Ops \union {"none"} /\ arg \in Profiles
  /\ todo \subseteq Servers
  /\ at \in {"idle", "pair", "profile", "forget", "user", "persist", "render", "apply", "up", "stamp"}
  /\ bundle \in [config : Configs, compose : Stacks] \union {NoBundle}
  /\ config \in [Servers -> Configs \union {NoConfig}]
  /\ live \in [Servers -> Configs \union {NoConfig}]
  /\ compose \in [Servers -> Stacks] /\ stack \in [Servers -> Stacks]
  /\ clean \subseteq Servers
  /\ edits \in 0 .. MaxEdits /\ faults \in 0 .. MaxFaults

-----------------------------------------------------------------------------
(* The local database.                                                     *)

Listed == {s \in Servers : row[s] # NoRow}
Enabled == {s \in Servers : row[s].enabled}
Peers(s) == Enabled \intersect (IF s \in Vpns THEN Vpns ELSE Proxies)

\* ListAttachedBackendServers; backends that are disabled stay in the list.
PoolOf(p) == {b \in Vpns : <<p, b>> \in attached}
IsAttached(b) == \E p \in Proxies : <<p, b>> \in attached

\* ensureRealityParityForServers
IdentParity(S) == \A s, t \in S : row[s].ident = row[t].ident

\* ensureVLESSEncryptionParityForServers: servers without a pair are passed over.
PairsOf(S) == {row[s].pair : s \in S} \ {None}
PairParity(S) == Cardinality(PairsOf(S)) <= 1

\* ensureRealityParity and ensureVLESSEncryptionParity: enabled servers role by
\* role, and all VPN servers.
KeyParity ==
  /\ IdentParity(Enabled \intersect Vpns)
  /\ IdentParity(Enabled \intersect Proxies)
  /\ PairParity(Vpns)

\* ensureVPNBackendsCompatible, for rows r: server names may differ.
Compatible(r, S) ==
  /\ S # {}
  /\ \A b \in S : Reality \in r[b].profiles
  /\ \A b, c \in S : r[b].ident = r[c].ident /\ r[b].service = r[c].service

\* Server.Validate: a row that UpdateServer takes.
Valid(s, r) ==
  /\ r.primary \in r.profiles
  /\ VlessEnc \in r.profiles => s \in Vpns /\ r.pair # None

\* Keys in use are not drawn again.
UnusedIdents == Idents \ ({row[s].ident : s \in Servers} \union {live[s].ident : s \in Servers})
UnusedPairs == Pairs \ ({row[s].pair : s \in Servers} \union {live[s].pair : s \in Servers})
UnusedServiceIds == ServiceIds \ ({row[s].service : s \in Servers} \union {live[s].service : s \in Servers})

\* The user as materializeCanonicalUsersOnServer leaves it: a row is added if an
\* enabled server has one, never removed.
Materialized(s, on) == IF users \intersect on # {} THEN users \union {s} ELSE users

-----------------------------------------------------------------------------
(* Rendering.                                                              *)

\* ValidateSpec, vpnServiceUsers and buildProxyRelay: what refuses to render.
Renderable(s) ==
  /\ ~(On443 \subseteq row[s].profiles)
  /\ VlessEnc \in row[s].profiles => s \in Vpns /\ row[s].pair # None
  /\ s \in Vpns /\ IsAttached(s) => row[s].service # None
  /\ s \in Proxies => /\ Compatible(row, PoolOf(s))
                      /\ \A b \in PoolOf(s) : row[b].service # None

\* buildProxyRelay: the keys of the first backend.
RelayOf(p) == LET base == row[Min(PoolOf(p))]
              IN [ident |-> base.ident, sni |-> base.sni, service |-> base.service]

\* RenderServerJSON, if the servers in on have the user
Rendered(s, on) ==
  LET inbounds == IF s \in on THEN row[s].profiles ELSE {}
  IN [profiles |-> row[s].profiles,
      users |-> inbounds, ident |-> row[s].ident, sni |-> row[s].sni, pair |-> row[s].pair,
      service |-> IF s \in Vpns /\ IsAttached(s) THEN row[s].service ELSE None,
      relay |-> IF s \in Proxies THEN RelayOf(s) ELSE NoRelay]

\* Mutant of ComposeOf: only the primary profile's port is published.
ComposeOfPrimary(s) ==
  [profiles |-> {row[s].primary}, pool |-> IF s \in Proxies THEN PoolOf(s) ELSE {}]

\* injectXrayProfilePorts, injectTLSSelfSNIWeb, renderHAProxyConfig
ComposeOf(s) ==
  [profiles |-> row[s].profiles, pool |-> IF s \in Proxies THEN PoolOf(s) ELSE {}]

-----------------------------------------------------------------------------
(* The hosts.                                                              *)

Running(s) == stack[s] # NoStack
AgentUp(s) == Running(s)

\* Xray starts only if it finds the certificates its configuration names.
Booted(cfg, stk) ==
  IF SelfSni \in cfg.profiles /\ SelfSni \notin stk.profiles THEN NoConfig ELSE cfg

\* Xray dies and comes back, the host reboots, `ovpn restart`: the containers
\* stay as they were created.  A change of the user that is not in config.json yet
\* is undone, and the command does not notice.
XrayRestart(s) ==
  /\ Running(s)
  /\ live' = [live EXCEPT ![s] = Booted(config[s], stack[s])]
  /\ clean' = IF at = "persist" /\ s = Min(todo) THEN clean \ {s} ELSE clean
  /\ UNCHANGED <<localVars, cmdVars, config, compose, stack, edits, faults>>

\* A client reaches an inbound; port 443 is always published.
Open(s, p) == p \in live[s].profiles /\ (p \in On443 \/ p \in stack[s].profiles)

\* What the user's link for profile p of server s says, and whether Xray agrees
\* about the keys, which are in use where the profile has any.
Link(s, p) ==
  [profile |-> p,
   ident |-> IF p = Reality THEN row[s].ident ELSE None,
   sni |-> IF p = Reality THEN row[s].sni ELSE None,
   pair |-> IF p = VlessEnc THEN row[s].pair ELSE None]
Accepts(s, l) ==
  /\ Open(s, l.profile)
  /\ l.profile \in live[s].users
  /\ l.profile = Reality => l.ident = live[s].ident /\ l.sni = live[s].sni
  /\ l.profile = VlessEnc => l.pair = live[s].pair

\* The proxy's outbound at backend b.  That the names agree is a condition of
\* its own.
RelayAccepted(p, b) ==
  /\ b \in stack[p].pool
  /\ Open(b, Reality)
  /\ live[p].relay.ident = live[b].ident
  /\ live[p].relay.service # None
  /\ live[p].relay.service = live[b].service
SameName(p, b) == live[p].relay.sni = live[b].sni

-----------------------------------------------------------------------------
(* Commands that only edit rows.                                           *)

Idle == op = "none"
Edit(o) == Idle /\ o \in Ops /\ edits < MaxEdits /\ edits' = edits + 1

\* Mutant of NewKeys: the first server of a role is registered without keys.
NewKeysOfPeers(s) ==
  {[ident |-> IF Peers(s) = {} THEN None ELSE row[Min(Peers(s))].ident,
    sni |-> IF Peers(s) = {} THEN CHOOSE n \in Names : TRUE ELSE row[Min(Peers(s))].sni]}

\* The REALITY settings of a new server: those of the first enabled server of its
\* role, or new ones.
NewKeys(s) ==
  IF Peers(s) = {} THEN [ident : UnusedIdents, sni : Names]
  ELSE {[ident |-> row[Min(Peers(s))].ident, sni |-> row[Min(Peers(s))].sni]}

\* `server add`
ServerAdd(s) ==
  /\ Edit("server_add")
  /\ row[s] = NoRow
  /\ IdentParity(Peers(s)) /\ (s \in Vpns => PairParity(Peers(s)))
  /\ \E keys \in NewKeys(s), pair \in IF s \in Vpns /\ PairsOf(Peers(s)) # {}
                                    THEN PairsOf(Peers(s)) ELSE {None} :
       row' = [row EXCEPT ![s] =
                 [enabled |-> TRUE, primary |-> Reality, profiles |-> {Reality},
                  ident |-> keys.ident, sni |-> keys.sni, pair |-> pair,
                  service |-> None]]
  /\ users' = Materialized(s, Enabled \union {s})
  /\ UNCHANGED <<attached, stamped, cmdVars, hostVars, clean, faults>>

\* `server set-reality-target`
SetRealityTarget(s) ==
  /\ Edit("target")
  /\ s \in Listed
  /\ \E n \in Names \ {row[s].sni} : row' = [row EXCEPT ![s].sni = n]
  /\ clean' = clean \ {s}
  /\ UNCHANGED <<users, attached, stamped, cmdVars, hostVars, faults>>

\* ensureBackendProxyServiceUUID: the rows afterwards.  Several UUIDs in the pool
\* leave everything as it is.
WithServiceIds(p, b, r) ==
  LET known == {row[e].service : e \in PoolOf(p)} \ {None}
      own == IF known # {} THEN known ELSE {row[b].service} \ {None}
  IN IF Cardinality(known) > 1 THEN r = row
     ELSE \E k \in IF own # {} THEN own ELSE UnusedServiceIds :
            r = [s \in Servers |->
                   IF s \in PoolOf(p) \union {b} /\ row[s].service = None
                   THEN [row[s] EXCEPT !.service = k] ELSE row[s]]

\* `server backend attach`.  The UUID stays if the pool is refused.
BackendAttach(p, b) ==
  /\ Edit("attach")
  /\ {p, b} \subseteq Listed
  /\ Reality \in row[b].profiles
  /\ WithServiceIds(p, b, row')
  /\ attached' = IF Compatible([row EXCEPT ![b] = row'[b]], PoolOf(p) \union {b})
                 THEN attached \union {<<p, b>>} ELSE attached
  /\ clean' = clean \ {p, b}
  /\ UNCHANGED <<users, stamped, cmdVars, hostVars, faults>>

\* `server backend detach`
BackendDetach(p, b) ==
  /\ Edit("detach")
  /\ <<p, b>> \in attached
  /\ attached' = attached \ {<<p, b>>}
  /\ clean' = clean \ {p, b}
  /\ UNCHANGED <<row, users, stamped, cmdVars, hostVars, faults>>

-----------------------------------------------------------------------------
(* Commands of several steps.  Any of them may break off between two.      *)

Begin(o, S, p, label) ==
  /\ op' = o /\ todo' = S /\ arg' = p /\ at' = label
  /\ UNCHANGED bundle

End == op' = "none" /\ todo' = {} /\ arg' = Reality /\ at' = "idle" /\ bundle' = NoBundle

Goto(label) == at' = label /\ UNCHANGED <<op, arg, todo, bundle>>

Cur == Min(todo)

\* An error, Ctrl-C, or a connection that is lost.  A user command leaves the
\* servers it has not finished in an unknown state.
BreakOff ==
  /\ op # "none"
  /\ faults < MaxFaults /\ faults' = faults + 1
  /\ edits < MaxEdits /\ edits' = edits + 1
  /\ End
  /\ clean' = IF op \in UserOps THEN clean \ todo ELSE clean
  /\ UNCHANGED <<localVars, hostVars>>

\* The profile commands.  For VlessEnc `enable` and `switch` provide the key pair.
ProfileCmd(o, s, p) ==
  /\ Edit(o)
  /\ s \in Listed
  /\ o = "disable" => p # row[s].primary /\ p \in row[s].profiles
  /\ Begin(o, {s}, p, IF p = VlessEnc /\ o # "disable" THEN "pair" ELSE "profile")
  /\ clean' = clean \ {s}
  /\ UNCHANGED <<localVars, hostVars, faults>>

\* Mutant of EnsurePair: only the server itself gets the pair, a new one.
EnsurePairAlone ==
  /\ at = "pair"
  /\ Cur \in Vpns
  /\ \E k \in UnusedPairs : row' = [row EXCEPT ![Cur].pair = k]
  /\ Goto("profile")
  /\ UNCHANGED <<users, attached, stamped, hostVars, clean, edits, faults>>

\* ensureVLESSEncryptionForServer: the pair of the VPN servers, enabled or not,
\* or a new one, in one transaction for all of them.
EnsurePair ==
  /\ at = "pair"
  /\ IF Cur \in Vpns /\ PairParity(Vpns)
     THEN /\ \E k \in IF PairsOf(Vpns) # {} THEN PairsOf(Vpns) ELSE UnusedPairs :
               row' = [s \in Servers |->
                         IF s \in Vpns \intersect Listed THEN [row[s] EXCEPT !.pair = k]
                         ELSE row[s]]
          /\ Goto("profile")
     ELSE End /\ UNCHANGED row
  /\ UNCHANGED <<users, attached, stamped, hostVars, clean, edits, faults>>

\* removeConflicting443Profiles
Without443Rival(S, p) == IF p \in On443 THEN (S \ On443) \union {p} ELSE S \union {p}

Edited(r) ==
  CASE op = "enable" -> [r EXCEPT !.profiles = @ \union {arg}]
    [] op = "disable" -> [r EXCEPT !.profiles = @ \ {arg}]
    [] op = "switch" -> [r EXCEPT !.primary = arg, !.profiles = Without443Rival(@, arg)]

\* profileConflictsOn443; validateAttachedBackendProfiles, which `enable` need not
\* call; UpdateServer.
EditAllowed(s) ==
  /\ op = "enable" => Without443Rival(row[s].profiles, arg) = row[s].profiles \union {arg}
  /\ op # "enable" /\ IsAttached(s) => Reality \in Edited(row[s]).profiles
  /\ Valid(s, Edited(row[s]))

EditProfiles ==
  /\ at = "profile"
  /\ IF EditAllowed(Cur) THEN row' = [row EXCEPT ![Cur] = Edited(row[Cur])]
                         ELSE UNCHANGED row
  /\ End
  /\ UNCHANGED <<users, attached, stamped, hostVars, clean, edits, faults>>

\* `server cleanup`: the stack, its directory and its volumes go first.
ServerCleanup(s) ==
  /\ Edit("cleanup")
  /\ s \in Listed
  /\ Begin("cleanup", {s}, Reality, "forget")
  /\ config' = [config EXCEPT ![s] = NoConfig] /\ compose' = [compose EXCEPT ![s] = NoStack]
  /\ live' = [live EXCEPT ![s] = NoConfig] /\ stack' = [stack EXCEPT ![s] = NoStack]
  /\ clean' = clean \ {s}
  /\ UNCHANGED <<localVars, faults>>

\* finalizeCleanupLocalState: the server is disabled, or deleted with the rows
\* that depend on it.
Forget ==
  /\ at = "forget"
  /\ \/ /\ row' = [row EXCEPT ![Cur].enabled = FALSE]
        /\ UNCHANGED <<users, attached, stamped>>
     \/ /\ row' = [row EXCEPT ![Cur] = NoRow]
        /\ users' = users \ {Cur} /\ stamped' = stamped \ {Cur}
        /\ attached' = {a \in attached : a[1] # Cur /\ a[2] # Cur}
  /\ End
  /\ UNCHANGED <<hostVars, clean, edits, faults>>

-----------------------------------------------------------------------------
(* Deploying.                                                              *)

\* `deploy` and `server init` take any registered server.
Deploy(s) ==
  /\ Idle
  /\ "deploy" \in Ops
  /\ s \in Listed
  /\ Begin("deploy", {s}, Reality, "render")
  /\ UNCHANGED <<localVars, hostVars, clean, edits, faults>>

\* usersForRuntimeConfig asks the agent who is blocked, once it was deployed.
DeployAdmitted(s) ==
  /\ KeyParity
  /\ Renderable(s)
  /\ s \in stamped => AgentUp(s)

\* initOrDeployServer up to RenderBundle.  A refusal ends the command; it, and what may
\* break off the deploy later, leave the row of the user where one was added.
RenderBundle ==
  /\ at = "render"
  /\ users' = IF KeyParity THEN Materialized(Cur, Enabled) ELSE users
  /\ \/ /\ DeployAdmitted(Cur)
        /\ bundle' = [config |-> Rendered(Cur, Materialized(Cur, Enabled)), compose |-> ComposeOf(Cur)]
        /\ at' = "apply"
        /\ clean' = clean \ (users' \ users)
        /\ UNCHANGED <<op, arg, todo>>
     \/ /\ ~DeployAdmitted(Cur)
        /\ End
        /\ clean' = clean \ ((users' \ users) \union IF op \in UserOps THEN todo ELSE {})
  /\ UNCHANGED <<row, attached, stamped, hostVars, edits, faults>>

\* UploadBundle and DeployRemote: staged files are validated, then installed.
ApplyBundle ==
  /\ at = "apply"
  /\ config' = [config EXCEPT ![Cur] = bundle.config]
  /\ compose' = [compose EXCEPT ![Cur] = bundle.compose]
  /\ clean' = clean \ {Cur}
  /\ Goto("up")
  /\ UNCHANGED <<localVars, stack, live, edits, faults>>

\* Mutant of ComposeUp: the containers are restarted, not recreated.
ComposeRestart ==
  /\ at = "up"
  /\ stack' = [stack EXCEPT ![Cur] = IF @ = NoStack THEN compose[Cur] ELSE @]
  /\ live' = [live EXCEPT ![Cur] = Booted(config[Cur], stack'[Cur])]
  /\ Goto("stamp")
  /\ UNCHANGED <<localVars, config, compose, clean, edits, faults>>

\* `docker compose up --force-recreate`
ComposeUp ==
  /\ at = "up"
  /\ stack' = [stack EXCEPT ![Cur] = compose[Cur]]
  /\ live' = [live EXCEPT ![Cur] = Booted(config[Cur], compose[Cur])]
  /\ Goto("stamp")
  /\ UNCHANGED <<localVars, config, compose, clean, edits, faults>>

\* The next server of a user command, or the end.
NextServer(s) ==
  /\ todo' = todo \ {s}
  /\ bundle' = NoBundle
  /\ IF todo' = {} THEN op' = "none" /\ at' = "idle" /\ arg' = Reality
                   ELSE at' = "user" /\ UNCHANGED <<op, arg>>

\* The policies are synced, SetServerLastDeploy.
StampDeploy ==
  /\ at = "stamp"
  /\ stamped' = stamped \union {Cur}
  /\ clean' = clean \union {Cur}
  /\ NextServer(Cur)
  /\ UNCHANGED <<row, users, attached, hostVars, edits, faults>>

-----------------------------------------------------------------------------
(* Changes of the user.                                                    *)

\* resolveUserMutationServers; `user add` wants no row, `user rm` every row.
UserCmd(o) ==
  /\ Edit(o)
  /\ Enabled # {}
  /\ Cardinality(Enabled) > 1 => KeyParity
  /\ IF o = "user_add" THEN users \intersect Enabled = {} ELSE Enabled \subseteq users
  /\ Begin(o, Enabled, Reality, "user")
  /\ UNCHANGED <<localVars, hostVars, clean, faults>>

\* runtimeInboundTagsForServer: the profiles of the row, in order; the first
\* inbound that Xray does not have ends the addition.
Added(s) == {p \in row[s].profiles : \A q \in row[s].profiles :
                                       q <= p => q \in live[s].profiles}

\* An inbound that Xray does not have counts as one without the user.
Removed(s) == row[s].profiles

\* addUserOnServer, removeUserOnServer: the row, then the live Xray.  If that
\* fails the server is deployed instead.
ChangeUser ==
  /\ at = "user"
  /\ LET adds == op = "user_add"
         done == live[Cur] # NoConfig /\ (adds => Added(Cur) = row[Cur].profiles)
     IN /\ users' = IF adds THEN users \union {Cur} ELSE users \ {Cur}
        /\ live' = IF live[Cur] = NoConfig THEN live
                   ELSE IF adds THEN [live EXCEPT ![Cur].users = @ \union Added(Cur)]
                                ELSE [live EXCEPT ![Cur].users = @ \ Removed(Cur)]
        /\ Goto(IF done THEN "persist" ELSE "render")
  /\ UNCHANGED <<row, attached, stamped, config, compose, stack, clean, edits, faults>>

\* persistConfigOnly: the row as it is now is rendered; nothing is restarted.
PersistConfig ==
  /\ at = "persist"
  /\ \/ /\ Renderable(Cur) /\ (Cur \in stamped => AgentUp(Cur))
        /\ config' = [config EXCEPT ![Cur] = Rendered(Cur, users)]
        /\ NextServer(Cur)
        /\ UNCHANGED clean
     \/ /\ ~(Renderable(Cur) /\ (Cur \in stamped => AgentUp(Cur)))
        /\ End
        /\ clean' = clean \ todo
        /\ UNCHANGED config
  /\ UNCHANGED <<localVars, compose, stack, live, edits, faults>>

-----------------------------------------------------------------------------
\* All servers are registered, deployed and offer REALITY; each proxy has the
\* first VPN server for a backend.
Init ==
  /\ \E v, x \in Idents, n \in Names, k \in ServiceIds :
       /\ v # x
       /\ row = [s \in Servers |->
                   [enabled |-> TRUE, primary |-> Reality, profiles |-> {Reality},
                    ident |-> IF s \in Vpns THEN v ELSE x, sni |-> n, pair |-> None,
                    service |-> IF s = Min(Vpns) THEN k ELSE None]]
  /\ users = {}
  /\ attached = Proxies \X {Min(Vpns)}
  /\ stamped = Servers
  /\ op = "none" /\ arg = Reality /\ todo = {} /\ at = "idle" /\ bundle = NoBundle
  /\ config = [s \in Servers |-> Rendered(s, users)] /\ live = config
  /\ compose = [s \in Servers |-> ComposeOf(s)] /\ stack = compose
  /\ clean = Servers
  /\ edits = 0 /\ faults = 0

EditServer ==
  \/ \E s \in Servers : ServerAdd(s) \/ SetRealityTarget(s) \/ ServerCleanup(s)
  \/ \E p \in Proxies, b \in Vpns : BackendAttach(p, b) \/ BackendDetach(p, b)
  \/ \E o \in ProfileOps, s \in Servers, p \in Profiles : ProfileCmd(o, s, p)

DeploySteps == RenderBundle \/ ApplyBundle \/ ComposeUp \/ StampDeploy
UserSteps == ChangeUser \/ PersistConfig
EditSteps == EnsurePair \/ EditProfiles \/ Forget

Next ==
  \/ EditServer \/ EditSteps
  \/ \E s \in Servers : Deploy(s) \/ XrayRestart(s)
  \/ DeploySteps
  \/ \E o \in UserOps : UserCmd(o)
  \/ UserSteps
  \/ BreakOff

Spec == Init /\ [][Next]_vars

-----------------------------------------------------------------------------
(* Properties.                                                             *)

\* No sequence of commands, broken off or not, leads to rows that the deploy of an
\* enabled server refuses: the keys agree, what is enabled can be rendered.  (A
\* proxy must have a backend, a server whose stack was cleaned up an agent.)
DeployIsAdmitted ==
  \A s \in Enabled :
    (s \in Proxies => PoolOf(s) # {}) /\ (s \in stamped => AgentUp(s)) => DeployAdmitted(s)

\* A server that was deployed, and at which no command was aimed since, serves
\* every link that `user link` prints for it (but for the flow, which is left out
\* here), and nobody else, through restarts of Xray, changes of the user and commands
\* about other servers, those that share its keys included.
LinksWork(s) == \A p \in row[s].profiles : Accepts(s, Link(s, p))
UserIsOut(s) == live[s].users = {} /\ config[s].users = {}
ServesItsUsers ==
  Idle => \A s \in clean : IF s \in users THEN LinksWork(s) ELSE UserIsOut(s)

\* Once a proxy and its backends are deployed, the proxy's relay is accepted by
\* every backend whose REALITY name is that of the first one.
RelayReaches ==
  Idle => \A p \in clean \intersect Proxies :
            PoolOf(p) # {} /\ PoolOf(p) \subseteq clean =>
              \A b \in PoolOf(p) : SameName(p, b) => RelayAccepted(p, b)
=============================================================================
