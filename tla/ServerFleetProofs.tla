--------------------------- MODULE ServerFleetProofs ---------------------------
(* Proofs about ServerFleet, for any servers, keys and names, and any number of *)
(* commands, deploys, restarts and commands that break off.                 *)
EXTENDS ServerFleet, FiniteSetTheorems, WellFoundedInduction, TLAPS

-----------------------------------------------------------------------------
(* The inductive invariant.                                                *)

DeployLabels == {"render", "apply", "up", "stamp"}

\* The command at each of its steps, and the servers it is about.
Commanded ==
  /\ op = "none" <=> at = "idle"
  /\ op = "none" <=> todo = {}
  /\ todo \subseteq Listed
  /\ at \in {"pair", "profile"} => op \in ProfileOps
  /\ at = "forget" => op = "cleanup"
  /\ at \in {"user", "persist"} => op \in UserOps
  /\ at \in DeployLabels => op \in UserOps \/ (op = "deploy" /\ \E s \in todo : todo = {s})

\* What a command has begun to edit or to replace does not count as deployed.
Handled == at \in {"pair", "profile", "forget", "up", "stamp"} => Cur \notin clean

\* KeyParity, server by server.
SameKeys ==
  /\ \A s, t \in Enabled : (s \in Vpns <=> t \in Vpns) => row[s].ident = row[t].ident
  /\ \A s, t \in Vpns : row[s].pair # None /\ row[t].pair # None => row[s].pair = row[t].pair

\* A server's own row can be rendered.
RowsSound ==
  \A s \in Listed :
    /\ ~(On443 \subseteq row[s].profiles)
    /\ VlessEnc \in row[s].profiles => s \in Vpns /\ row[s].pair # None

\* Backends are registered, offer REALITY and have a service UUID; those of one proxy
\* share it, and their REALITY keys.
PoolsAgree ==
  /\ \A a \in attached : /\ a[1] \in Listed /\ a[2] \in Listed
                         /\ Reality \in row[a[2]].profiles /\ row[a[2]].service # None
  /\ \A a, c \in attached :
       a[1] = c[1] => /\ row[a[2]].ident = row[c[2]].ident
                      /\ row[a[2]].service = row[c[2]].service

\* A configuration that agrees with the row, and with the rows of the backends, where
\* it matters; the pair and the service UUID may be there and not used.
Agrees(s, cfg) ==
  /\ cfg.profiles = row[s].profiles /\ cfg.ident = row[s].ident /\ cfg.sni = row[s].sni
  /\ VlessEnc \in row[s].profiles => cfg.pair = row[s].pair
  /\ s \in Vpns /\ IsAttached(s) => cfg.service = row[s].service
  /\ s \in Proxies => \A b \in PoolOf(s) : /\ cfg.relay.ident = row[b].ident
                                           /\ cfg.relay.service = row[b].service

\* Files and containers that a deploy of the row as it is now would leave.
Current(s) ==
  /\ s \in Listed
  /\ stack[s].profiles = row[s].profiles
  /\ s \in Proxies => PoolOf(s) \subseteq stack[s].pool
  /\ Agrees(s, config[s]) /\ Agrees(s, live[s])

\* The user at a server: in the file and in Xray as in the row, unless a user command
\* is at that server; in Xray already where only the file is left to be written.
UsersAt(s) == IF s \in users THEN row[s].profiles ELSE {}
Changing(s) == op \in UserOps /\ at # "user" /\ s = Cur
UserServed(s) ==
  /\ ~Changing(s) => config[s].users = UsersAt(s)
  /\ ~Changing(s) \/ at = "persist" => live[s].users = UsersAt(s)

Deployed == \A s \in clean : Current(s) /\ UserServed(s)

\* A deploy carries the row as it is now from the bundle to the files, and from these to
\* the containers.
Deploying ==
  /\ at = "apply" => bundle = [config |-> Rendered(Cur, users), compose |-> ComposeOf(Cur)]
  /\ at \in {"apply", "up", "stamp"} => Renderable(Cur)
  /\ at \in {"up", "stamp"} => config[Cur] = Rendered(Cur, users) /\ compose[Cur] = ComposeOf(Cur)
  /\ at = "stamp" => live[Cur] = Rendered(Cur, users) /\ stack[Cur] = ComposeOf(Cur)

IInv ==
  /\ TypeOK /\ Commanded /\ Handled
  /\ SameKeys /\ RowsSound /\ PoolsAgree
  /\ Deployed /\ Deploying

-----------------------------------------------------------------------------
(* Constants, sets of numbers and types.                                   *)

\* What the assumption says, one by one.
LEMMA Constants ==
  /\ Vpns \subseteq Nat /\ Proxies \subseteq Nat /\ Servers \subseteq Nat
  /\ IsFiniteSet(Vpns) /\ IsFiniteSet(Proxies) /\ IsFiniteSet(Servers)
  /\ Vpns \intersect Proxies = {} /\ Vpns # {}
  /\ None \notin Idents /\ None \notin Names /\ None \notin Pairs /\ None \notin ServiceIds
  /\ MaxEdits \in Nat /\ MaxFaults \in Nat
BY FleetAssumption, FS_Union DEF Servers

\* The first server of some servers is one of them.
LEMMA FirstIn ==
  ASSUME NEW S, S \subseteq Nat, S # {}
  PROVE  Min(S) \in S
<1> DEFINE R == {ss \in Nat \X Nat : ss[1] < ss[2]}
<1>1. IsWellFoundedOn(R, Nat)
  BY NatLessThanWellFounded DEF OpToRel
<1>2. PICK x \in S : \A y \in S : ~(<<y, x>> \in R)
  BY <1>1, WFMin
<1>3. ASSUME NEW y \in S PROVE x <= y
  <2>1. x \in Nat /\ y \in Nat /\ ~(<<y, x>> \in R)
    BY <1>2
  <2>2. ~(y < x)
    BY <2>1
  <2> QED BY <2>1, <2>2
<1> QED BY <1>3 DEF Min

\* A finite set of at most one element.
LEMMA AtMostOne ==
  ASSUME NEW S, IsFiniteSet(S), \A x, y \in S : x = y
  PROVE  Cardinality(S) <= 1
<1>1. CASE S = {}
  BY <1>1, FS_EmptySet
<1>2. CASE S # {}
  <2>1. PICK x : S = {x}
    BY <1>2
  <2> QED BY <2>1, FS_Singleton
<1> QED BY <1>1, <1>2

\* What servers of a finite set have is finite.
LEMMA FiniteValues ==
  ASSUME NEW S, IsFiniteSet(S), NEW f
  PROVE  IsFiniteSet({f[s] : s \in S})
<1> DEFINE T == {f[s] : s \in S}
           g == [s \in S |-> f[s]]
<1>1. g \in Surjection(S, T)
  BY DEF Surjection
<1> QED BY <1>1, FS_Surjection

\* The key pairs of servers that agree, and their service UUIDs.
LEMMA OnePair ==
  ASSUME NEW S, IsFiniteSet(S),
         \A s, t \in S : row[s].pair # None /\ row[t].pair # None => row[s].pair = row[t].pair
  PROVE  Cardinality({row[s].pair : s \in S} \ {None}) <= 1
<1> DEFINE f == [s \in S |-> row[s].pair]
<1>1. {f[s] : s \in S} = {row[s].pair : s \in S}
  OBVIOUS
<1> HIDE DEF f
<1>2. IsFiniteSet({f[s] : s \in S})
  BY FiniteValues
<1>3. IsFiniteSet({row[s].pair : s \in S} \ {None})
  BY <1>1, <1>2, FS_Subset
<1> QED BY <1>3, AtMostOne

LEMMA OneServiceId ==
  ASSUME NEW S, IsFiniteSet(S),
         \A s, t \in S : row[s].service # None /\ row[t].service # None
                           => row[s].service = row[t].service
  PROVE  Cardinality({row[s].service : s \in S} \ {None}) <= 1
<1> DEFINE f == [s \in S |-> row[s].service]
<1>1. {f[s] : s \in S} = {row[s].service : s \in S}
  OBVIOUS
<1> HIDE DEF f
<1>2. IsFiniteSet({f[s] : s \in S})
  BY FiniteValues
<1>3. IsFiniteSet({row[s].service : s \in S} \ {None})
  BY <1>1, <1>2, FS_Subset
<1> QED BY <1>3, AtMostOne

\* Keys that agree server by server are what the parity checks ask for.
LEMMA KeysHaveParity ==
  ASSUME SameKeys
  PROVE  KeyParity
<1>1. Cardinality({row[s].pair : s \in Vpns} \ {None}) <= 1
  BY OnePair, Constants DEF SameKeys
<1>2. PairParity(Vpns)
  BY <1>1 DEF PairParity, PairsOf
<1>3. IdentParity(Enabled \intersect Vpns) /\ IdentParity(Enabled \intersect Proxies)
  BY Constants DEF IdentParity, SameKeys
<1> QED BY <1>2, <1>3 DEF KeyParity

\* The parts of TypeOK.
LocalOK ==
  /\ row \in [Servers -> Rows \union {NoRow}]
  /\ users \subseteq Servers /\ stamped \subseteq Servers
  /\ attached \subseteq Proxies \X Vpns
CmdOK ==
  /\ op \in Ops \union {"none"} /\ arg \in Profiles
  /\ todo \subseteq Servers
  /\ at \in {"idle", "pair", "profile", "forget", "user", "persist", "render", "apply", "up", "stamp"}
  /\ bundle \in [config : Configs, compose : Stacks] \union {NoBundle}
HostOK ==
  /\ config \in [Servers -> Configs \union {NoConfig}]
  /\ live \in [Servers -> Configs \union {NoConfig}]
  /\ compose \in [Servers -> Stacks] /\ stack \in [Servers -> Stacks]
CountOK == clean \subseteq Servers /\ edits \in 0 .. MaxEdits /\ faults \in 0 .. MaxFaults

\* TypeOK is these parts, in each state.
LEMMA TypeParts == TypeOK <=> LocalOK /\ CmdOK /\ HostOK /\ CountOK
BY DEF TypeOK, LocalOK, CmdOK, HostOK, CountOK
LEMMA TypePartsNext == TypeOK' <=> LocalOK' /\ CmdOK' /\ HostOK' /\ CountOK'
BY DEF TypeOK, LocalOK, CmdOK, HostOK, CountOK

\* The fields of a row, and what tells a registered server.
LEMMA RowFields ==
  ASSUME LocalOK, NEW s \in Servers
  PROVE  /\ row[s].enabled \in BOOLEAN /\ row[s].primary \in Profiles
         /\ row[s].profiles \subseteq Profiles
         /\ row[s].ident \in Idents \union {None} /\ row[s].sni \in Names \union {None}
         /\ row[s].pair \in Pairs \union {None} /\ row[s].service \in ServiceIds \union {None}
         /\ row[s].enabled => s \in Listed
         /\ s \in Listed => row[s] \in Rows /\ row[s].ident \in Idents /\ row[s].sni \in Names
         /\ s \notin Listed => /\ row[s] = NoRow /\ row[s].pair = None /\ row[s].service = None
                              /\ row[s].profiles = {} /\ ~row[s].enabled
<1>1. CASE row[s] \in Rows
  <2>1. row[s].ident # None
    BY <1>1, Constants DEF Rows
  <2>2. s \in Listed
    BY <2>1 DEF Listed, NoRow
  <2> QED BY <1>1, <2>2 DEF Rows
<1>2. CASE row[s] = NoRow
  BY <1>2 DEF NoRow, Listed, Profiles
<1> QED BY <1>1, <1>2 DEF LocalOK

\* Servers that are registered, or enabled.
LEMMA ListedServers == Listed \subseteq Servers /\ Enabled \subseteq Servers
BY DEF Listed, Enabled

\* An enabled server is registered.
LEMMA EnabledListed == LocalOK => Enabled \subseteq Listed
BY RowFields DEF Enabled

\* The server a command is at.
LEMMA CurIn ==
  ASSUME CmdOK, todo # {}
  PROVE  Cur \in todo /\ Cur \in Servers
<1>1. todo \subseteq Nat
  BY Constants DEF CmdOK
<1>2. Min(todo) \in todo
  BY <1>1, FirstIn
<1> QED BY <1>2 DEF Cur, CmdOK

\* A configuration that was rendered.
LEMMA RenderedFields ==
  ASSUME NEW s, NEW on
  PROVE  LET cfg == Rendered(s, on)
         IN  /\ cfg.profiles = row[s].profiles /\ cfg.ident = row[s].ident
             /\ cfg.sni = row[s].sni /\ cfg.pair = row[s].pair
             /\ cfg.users = (IF s \in on THEN row[s].profiles ELSE {})
             /\ s \in Vpns /\ IsAttached(s) => cfg.service = row[s].service
             /\ cfg.relay = (IF s \in Proxies THEN RelayOf(s) ELSE NoRelay)
BY DEF Rendered

\* It agrees with the rows it was rendered from.
LEMMA RenderedAgrees ==
  ASSUME LocalOK, PoolsAgree, NEW s \in Servers, NEW on
  PROVE  Agrees(s, Rendered(s, on))
<1>1. ASSUME s \in Proxies, NEW b \in PoolOf(s)
      PROVE  RelayOf(s).ident = row[b].ident /\ RelayOf(s).service = row[b].service
  <2>1. PoolOf(s) \subseteq Nat
    BY Constants DEF PoolOf
  <2>2. Min(PoolOf(s)) \in PoolOf(s)
    BY <1>1, <2>1, FirstIn
  <2>3. <<s, Min(PoolOf(s))>> \in attached /\ <<s, b>> \in attached
    BY <1>1, <2>2 DEF PoolOf
  <2>4. /\ row[Min(PoolOf(s))].ident = row[b].ident
        /\ row[Min(PoolOf(s))].service = row[b].service
    BY <2>3 DEF PoolsAgree
  <2> QED BY <2>4 DEF RelayOf
<1> QED BY <1>1, RenderedFields DEF Agrees

\* What can be rendered is a configuration.
LEMMA RenderedTyped ==
  ASSUME LocalOK, PoolsAgree, NEW s \in Listed, Renderable(s), NEW on
  PROVE  Rendered(s, on) \in Configs /\ ComposeOf(s) \in Stacks
<1>1. s \in Servers
  BY DEF Listed
<1>2. /\ row[s].profiles \subseteq Profiles /\ row[s].ident \in Idents /\ row[s].sni \in Names
      /\ row[s].pair \in Pairs \union {None} /\ row[s].service \in ServiceIds \union {None}
  BY <1>1, RowFields
<1>3. s \in Proxies => RelayOf(s) \in Relays
  <2> SUFFICES ASSUME s \in Proxies PROVE RelayOf(s) \in Relays
    OBVIOUS
  <2>1. PoolOf(s) # {} /\ PoolOf(s) \subseteq Nat /\ PoolOf(s) \subseteq Servers
    BY Constants DEF Renderable, Compatible, PoolOf, Servers
  <2>2. Min(PoolOf(s)) \in PoolOf(s) /\ Min(PoolOf(s)) \in Servers
    BY <2>1, FirstIn
  <2>3. <<s, Min(PoolOf(s))>> \in attached
    BY <2>2 DEF PoolOf
  <2>4. Min(PoolOf(s)) \in Listed /\ row[Min(PoolOf(s))].service # None
    BY <2>3 DEF PoolsAgree
  <2>5. /\ row[Min(PoolOf(s))].ident \in Idents /\ row[Min(PoolOf(s))].sni \in Names
        /\ row[Min(PoolOf(s))].service \in ServiceIds
    BY <2>2, <2>4, RowFields
  <2> QED BY <2>5 DEF RelayOf, Relays
<1>4. NoRelay \in Relays
  BY DEF Relays
<1>5. (IF s \in Proxies THEN RelayOf(s) ELSE NoRelay) \in Relays
  BY <1>3, <1>4
<1>6. (IF s \in on THEN row[s].profiles ELSE {}) \subseteq Profiles
  BY <1>2
<1>7. (IF s \in Vpns /\ IsAttached(s) THEN row[s].service ELSE None) \in ServiceIds \union {None}
  BY <1>2
<1>8. Rendered(s, on) \in Configs
  BY <1>2, <1>5, <1>6, <1>7 DEF Rendered, Configs
<1>9. (IF s \in Proxies THEN PoolOf(s) ELSE {}) \subseteq Vpns
  BY DEF PoolOf
<1> QED BY <1>2, <1>8, <1>9 DEF ComposeOf, Stacks

-----------------------------------------------------------------------------
(* What steps leave alone.                                                 *)

\* Rows and backends stay as they are.
LEMMA SameRows ==
  ASSUME UNCHANGED <<row, attached>>
  PROVE  /\ SameKeys /\ RowsSound /\ PoolsAgree => SameKeys' /\ RowsSound' /\ PoolsAgree'
         /\ Listed' = Listed /\ Enabled' = Enabled
         /\ \A s : PoolOf(s)' = PoolOf(s) /\ IsAttached(s)' = IsAttached(s)
         /\ \A s : RelayOf(s)' = RelayOf(s) /\ Renderable(s)' = Renderable(s)
         /\ \A s : ComposeOf(s)' = ComposeOf(s)
         /\ \A s, on : Rendered(s, on)' = Rendered(s, on)
         /\ \A s, cfg : Agrees(s, cfg)' = Agrees(s, cfg)
<1>1. Listed' = Listed /\ Enabled' = Enabled
  BY DEF Listed, Enabled
<1>2. \A s : PoolOf(s)' = PoolOf(s) /\ IsAttached(s)' = IsAttached(s)
  BY DEF PoolOf, IsAttached
<1>3. \A s : RelayOf(s)' = RelayOf(s) /\ ComposeOf(s)' = ComposeOf(s)
  BY <1>2 DEF RelayOf, ComposeOf
<1>4. \A s : Renderable(s)' = Renderable(s)
  BY <1>2 DEF Renderable, Compatible
<1>5. \A s, on : Rendered(s, on)' = Rendered(s, on)
  BY <1>2, <1>3 DEF Rendered
<1>6. \A s, cfg : Agrees(s, cfg)' = Agrees(s, cfg)
  BY <1>2 DEF Agrees
<1>7. SameKeys /\ RowsSound /\ PoolsAgree => SameKeys' /\ RowsSound' /\ PoolsAgree'
  BY <1>1 DEF SameKeys, RowsSound, PoolsAgree
<1> QED BY <1>1, <1>2, <1>3, <1>4, <1>5, <1>6, <1>7

\* Deployed servers stay deployed while the hosts, and what their rows say of them, do
\* not change and no user command is at them.
LEMMA Undisturbed ==
  ASSUME TypeOK, Deployed, clean' \subseteq clean, UNCHANGED hostVars,
         \A s \in clean' :
           /\ ~Changing(s) /\ ~Changing(s)'
           /\ s \in Listed => s \in Listed'
           /\ row'[s].profiles = row[s].profiles /\ row'[s].ident = row[s].ident
           /\ row'[s].sni = row[s].sni
           /\ VlessEnc \in row[s].profiles => row'[s].pair = row[s].pair
           /\ IsAttached(s)' => IsAttached(s) /\ row'[s].service = row[s].service
           /\ PoolOf(s)' \subseteq PoolOf(s)
           /\ \A b \in PoolOf(s)' : /\ row'[b].ident = row[b].ident
                                    /\ row'[b].service = row[b].service
           /\ s \in users' <=> s \in users
  PROVE  Deployed'
<1> SUFFICES ASSUME NEW s \in clean' PROVE Current(s)' /\ UserServed(s)'
  BY DEF Deployed
<1>1. Current(s) /\ UserServed(s)
  BY DEF Deployed
<1>2. ASSUME NEW cfg, Agrees(s, cfg) PROVE Agrees(s, cfg)'
  BY <1>2 DEF Agrees
<1>3. Agrees(s, config[s])' /\ Agrees(s, live[s])'
  BY <1>1, <1>2 DEF Current, Agrees, hostVars
<1>4. Current(s)'
  BY <1>1, <1>3 DEF Current, hostVars
<1>5. UserServed(s)'
  BY <1>1 DEF UserServed, UsersAt, hostVars
<1> QED BY <1>4, <1>5

\* A command that only edits leaves the deployed servers that it is not about deployed.
LEMMA StillDeployed ==
  ASSUME TypeOK, Deployed, clean' \subseteq clean, UNCHANGED hostVars,
         op \notin UserOps, op' \notin UserOps,
         \A s \in clean' :
           /\ s \in Listed => s \in Listed'
           /\ row'[s].profiles = row[s].profiles /\ row'[s].ident = row[s].ident
           /\ row'[s].sni = row[s].sni
           /\ VlessEnc \in row[s].profiles => row'[s].pair = row[s].pair
           /\ IsAttached(s)' => IsAttached(s) /\ row'[s].service = row[s].service
           /\ PoolOf(s)' \subseteq PoolOf(s)
           /\ \A b \in PoolOf(s)' : /\ row'[b].ident = row[b].ident
                                    /\ row'[b].service = row[b].service
           /\ s \in users' <=> s \in users
  PROVE  Deployed'
<1>1. \A s \in clean' : ~Changing(s) /\ ~Changing(s)'
  BY DEF Changing
<1> QED BY <1>1, Undisturbed

\* Where nothing is deployed, in either state, and no user command runs.
LEMMA AtRest ==
  ASSUME at' \notin DeployLabels
  PROVE  Deploying'
BY DEF Deploying, DeployLabels

-----------------------------------------------------------------------------
(* Commands that only edit.                                                *)

\* A new server takes the keys of its peers, and no row of another changes.
LEMMA ServerAddStep ==
  ASSUME IInv, NEW s \in Servers, ServerAdd(s)
  PROVE  IInv'
<1> DEFINE keys == row'[s]
<1>1. /\ op = "none" /\ at = "idle" /\ todo = {} /\ s \notin Listed
      /\ UNCHANGED <<cmdVars, hostVars, attached, stamped, clean, faults>>
  BY DEF ServerAdd, Edit, Idle, IInv, Commanded, Listed
<1>2. LocalOK /\ CmdOK /\ HostOK /\ CountOK
  BY TypeParts DEF IInv
<1>3. PICK k \in NewKeys(s), pair \in IF s \in Vpns /\ PairsOf(Peers(s)) # {}
                                     THEN PairsOf(Peers(s)) ELSE {None} :
        row' = [row EXCEPT ![s] =
                 [enabled |-> TRUE, primary |-> Reality, profiles |-> {Reality},
                  ident |-> k.ident, sni |-> k.sni, pair |-> pair, service |-> None]]
  BY DEF ServerAdd
<1>4. /\ keys = [enabled |-> TRUE, primary |-> Reality, profiles |-> {Reality},
                 ident |-> k.ident, sni |-> k.sni, pair |-> pair, service |-> None]
      /\ \A t \in Servers \ {s} : row'[t] = row[t]
  BY <1>2, <1>3 DEF LocalOK
<1>5. Peers(s) \subseteq Servers /\ Peers(s) \subseteq Enabled /\ Peers(s) \subseteq Nat
  BY Constants, ListedServers DEF Peers
<1>6. Peers(s) # {} => Min(Peers(s)) \in Peers(s)
  BY <1>5, FirstIn
<1>7. k.ident \in Idents /\ k.sni \in Names
  <2>1. CASE Peers(s) = {}
    BY <2>1, <1>3 DEF NewKeys, UnusedIdents
  <2>2. CASE Peers(s) # {}
    <3>1. k.ident = row[Min(Peers(s))].ident /\ k.sni = row[Min(Peers(s))].sni
      BY <2>2, <1>3 DEF NewKeys
    <3>2. Min(Peers(s)) \in Listed /\ Min(Peers(s)) \in Servers
      BY <2>2, <1>2, <1>5, <1>6, EnabledListed
    <3> QED BY <1>2, <3>1, <3>2, RowFields
  <2> QED BY <2>1, <2>2
<1>8. pair \in Pairs \union {None} /\ (pair # None => pair \in PairsOf(Peers(s)) /\ s \in Vpns)
  <2>1. PairsOf(Peers(s)) \subseteq Pairs
    BY <1>2, <1>5, RowFields DEF PairsOf
  <2> QED BY <1>3, <2>1
<1>9. keys \in Rows
  BY <1>4, <1>7, <1>8 DEF Rows, Profiles
<1>10. TypeOK'
  <2>1. row' \in [Servers -> Rows \union {NoRow}]
    BY <1>2, <1>3, <1>4, <1>9 DEF LocalOK
  <2>2. users' \subseteq Servers
    BY <1>2 DEF ServerAdd, Materialized, LocalOK
  <2>3. CountOK'
    BY <1>1, <1>2, Constants DEF CountOK, ServerAdd, Edit
  <2> QED BY <1>1, <1>2, <2>1, <2>2, <2>3, TypePartsNext DEF LocalOK, CmdOK, HostOK, cmdVars, hostVars
<1>11. Listed' = Listed \union {s} /\ Enabled' = Enabled \union {s}
  <2>1. keys # NoRow
    BY <1>4 DEF NoRow
  <2> QED BY <1>4, <2>1 DEF Listed, Enabled
<1>12. Commanded' /\ Handled' /\ Deploying'
  BY <1>1, <1>11 DEF IInv, Commanded, Handled, Deploying, cmdVars, DeployLabels
<1>13. SameKeys'
  <2>1. ASSUME NEW t \in Enabled, s \in Vpns <=> t \in Vpns
        PROVE  row'[s].ident = row[t].ident
    <3>1. t \in Peers(s)
      BY <2>1, ListedServers, Constants DEF Peers, Servers
    <3>2. Min(Peers(s)) \in Peers(s)
      BY <1>6, <3>1
    <3>3. k.ident = row[Min(Peers(s))].ident
      BY <1>3, <3>1 DEF NewKeys
    <3>4. IdentParity(Peers(s))
      BY DEF ServerAdd
    <3> QED BY <1>4, <3>1, <3>2, <3>3, <3>4 DEF IdentParity
  <2>2. s \notin Enabled
    BY <1>1, <1>2, EnabledListed
  <2>3. ASSUME NEW t \in Vpns, NEW u \in Vpns, row'[t].pair # None, row'[u].pair # None
        PROVE  row'[t].pair = row'[u].pair
    <3>1. ASSUME NEW v \in Vpns, row'[v].pair # None
          PROVE  \E w \in Vpns : row[w].pair = row'[v].pair
      <4>1. CASE v = s
        <5>1. PICK w \in Peers(s) : row[w].pair = pair
          BY <1>4, <1>8, <3>1, <4>1 DEF PairsOf
        <5>2. w \in Vpns
          BY <4>1, <5>1 DEF Peers
        <5> QED BY <1>4, <4>1, <5>1, <5>2
      <4>2. CASE v # s
        BY <1>4, <4>2 DEF Servers
      <4> QED BY <4>1, <4>2
    <3> QED BY <2>3, <3>1 DEF IInv, SameKeys
  <2>4. ASSUME NEW t \in Enabled', NEW u \in Enabled', t \in Vpns <=> u \in Vpns
        PROVE  row'[t].ident = row'[u].ident
    <3>1. ASSUME NEW v \in Enabled PROVE row'[v] = row[v]
      BY <1>4, <2>2, ListedServers
    <3> QED BY <1>11, <2>1, <2>4, <3>1 DEF IInv, SameKeys
  <2> QED BY <2>3, <2>4 DEF SameKeys
<1>14. RowsSound'
  BY <1>4, <1>11, ListedServers
  DEF IInv, RowsSound, On443, Reality, SelfSni, VlessEnc
<1>15. PoolsAgree'
  <2>1. \A a \in attached : a[1] \in Listed /\ a[2] \in Listed /\ row'[a[2]] = row[a[2]]
    BY <1>1, <1>4, ListedServers DEF IInv, PoolsAgree
  <2> QED BY <1>1, <1>11, <2>1 DEF IInv, PoolsAgree
<1>16. Deployed'
  <2>1. ASSUME NEW t \in clean' 
        PROVE  /\ t \in Listed /\ row'[t] = row[t] /\ IsAttached(t)' = IsAttached(t)
               /\ PoolOf(t)' = PoolOf(t) /\ (t \in users' <=> t \in users)
               /\ \A b \in PoolOf(t) : row'[b] = row[b]
    <3>1. t \in Listed /\ t # s
      BY <1>1 DEF IInv, Deployed, Current
    <3>2. row'[t] = row[t]
      BY <1>4, <3>1, ListedServers
    <3>3. IsAttached(t)' = IsAttached(t) /\ PoolOf(t)' = PoolOf(t)
      BY <1>1 DEF IsAttached, PoolOf
    <3>4. t \in users' <=> t \in users
      BY <3>1 DEF ServerAdd, Materialized
    <3>5. \A b \in PoolOf(t) : b \in Listed /\ b # s
      BY <1>1 DEF PoolOf, IInv, PoolsAgree
    <3> QED BY <1>4, <3>1, <3>2, <3>3, <3>4, <3>5, ListedServers
  <2>2. op \notin UserOps /\ op' \notin UserOps
    BY <1>1 DEF UserOps, cmdVars
  <2>3. TypeOK /\ Deployed /\ clean' \subseteq clean /\ UNCHANGED hostVars /\ Listed \subseteq Listed'
    BY <1>1, <1>11 DEF IInv
  <2> QED BY <2>1, <2>2, <2>3, StillDeployed
<1> QED BY <1>10, <1>12, <1>13, <1>14, <1>15, <1>16 DEF IInv

\* The REALITY name is the server's own; its deploy does not count any more.
LEMMA TargetStep ==
  ASSUME IInv, NEW s \in Servers, SetRealityTarget(s)
  PROVE  IInv'
<1>1. /\ op = "none" /\ at = "idle" /\ todo = {} /\ s \in Listed /\ clean' = clean \ {s}
      /\ UNCHANGED <<users, attached, stamped, cmdVars, hostVars, faults>>
  BY DEF SetRealityTarget, Edit, Idle, IInv, Commanded
<1>2. LocalOK /\ CmdOK /\ HostOK /\ CountOK
  BY TypeParts DEF IInv
<1>3. PICK n \in Names : row' = [row EXCEPT ![s].sni = n]
  BY DEF SetRealityTarget
<1>4. /\ row'[s] = [row[s] EXCEPT !.sni = n]
      /\ \A t \in Servers \ {s} : row'[t] = row[t]
  BY <1>2, <1>3 DEF LocalOK
<1>5. row[s] \in Rows
  BY <1>1, <1>2, RowFields
<1>6. /\ row'[s] \in Rows
      /\ row'[s].enabled = row[s].enabled /\ row'[s].profiles = row[s].profiles
      /\ row'[s].ident = row[s].ident /\ row'[s].pair = row[s].pair
      /\ row'[s].service = row[s].service
  BY <1>4, <1>5 DEF Rows
<1>7. \A t \in Servers : /\ row'[t].enabled = row[t].enabled /\ row'[t].profiles = row[t].profiles
                         /\ row'[t].ident = row[t].ident /\ row'[t].pair = row[t].pair
                         /\ row'[t].service = row[t].service
  BY <1>4, <1>6
<1>8. TypeOK'
  <2>1. row' \in [Servers -> Rows \union {NoRow}]
    BY <1>2, <1>3, <1>4, <1>6 DEF LocalOK
  <2>2. CountOK'
    BY <1>1, <1>2, Constants DEF CountOK, SetRealityTarget, Edit
  <2> QED BY <1>1, <1>2, <2>1, <2>2, TypePartsNext DEF LocalOK, CmdOK, HostOK, cmdVars, hostVars
<1>9. Listed' = Listed /\ Enabled' = Enabled
  <2>1. row'[s] # NoRow
    BY <1>6, <1>1, <1>2, RowFields, Constants DEF NoRow
  <2> QED BY <1>1, <1>4, <1>7, <2>1 DEF Listed, Enabled
<1>10. Commanded' /\ Handled' /\ Deploying'
  BY <1>1, <1>9 DEF IInv, Commanded, Handled, Deploying, cmdVars, DeployLabels
<1>11. SameKeys' /\ RowsSound'
  BY <1>7, <1>9, ListedServers DEF IInv, SameKeys, RowsSound, Servers
<1>12. PoolsAgree'
  <2>1. \A a \in attached : a[2] \in Servers
    BY <1>2, ListedServers DEF LocalOK, Servers
  <2> QED BY <1>1, <1>7, <1>9, <2>1 DEF IInv, PoolsAgree
<1>13. Deployed'
  <2>1. \A t \in clean' :
           /\ row'[t].profiles = row[t].profiles /\ row'[t].ident = row[t].ident
           /\ row'[t].sni = row[t].sni /\ row'[t].pair = row[t].pair
           /\ row'[t].service = row[t].service
    BY <1>1, <1>2, <1>4 DEF CountOK
  <2>2. \A t : IsAttached(t)' = IsAttached(t) /\ PoolOf(t)' = PoolOf(t)
    BY <1>1 DEF IsAttached, PoolOf
  <2>3. \A t : \A b \in PoolOf(t) : row'[b].ident = row[b].ident /\ row'[b].service = row[b].service
    BY <1>7 DEF PoolOf, Servers
  <2>4. op \notin UserOps /\ op' \notin UserOps
    BY <1>1 DEF UserOps, cmdVars
  <2>5. TypeOK /\ Deployed /\ clean' \subseteq clean /\ UNCHANGED <<hostVars, users>>
    BY <1>1 DEF IInv
  <2> QED BY <1>9, <2>1, <2>2, <2>3, <2>4, <2>5, StillDeployed
<1> QED BY <1>8, <1>10, <1>11, <1>12, <1>13 DEF IInv

\* A pool that loses a backend agrees as before.
LEMMA DetachStep ==
  ASSUME IInv, NEW p \in Proxies, NEW b \in Vpns, BackendDetach(p, b)
  PROVE  IInv'
<1>1. /\ op = "none" /\ at = "idle" /\ todo = {} /\ clean' = clean \ {p, b}
      /\ attached' = attached \ {<<p, b>>}
      /\ UNCHANGED <<row, users, stamped, cmdVars, hostVars, faults>>
  BY DEF BackendDetach, Edit, Idle, IInv, Commanded
<1>2. LocalOK /\ CmdOK /\ HostOK /\ CountOK
  BY TypeParts DEF IInv
<1>3. TypeOK'
  <2>1. CountOK'
    BY <1>1, <1>2, Constants DEF CountOK, BackendDetach, Edit
  <2> QED BY <1>1, <1>2, <2>1, TypePartsNext DEF LocalOK, CmdOK, HostOK, cmdVars, hostVars
<1>4. Listed' = Listed /\ Enabled' = Enabled
  BY <1>1 DEF Listed, Enabled
<1>5. Commanded' /\ Handled' /\ Deploying'
  BY <1>1, <1>4 DEF IInv, Commanded, Handled, Deploying, cmdVars, DeployLabels
<1>6. SameKeys' /\ RowsSound' /\ PoolsAgree'
  BY <1>1, <1>4 DEF IInv, SameKeys, RowsSound, PoolsAgree
<1>7. Deployed'
  <2>1. \A t : (IsAttached(t)' => IsAttached(t)) /\ PoolOf(t)' \subseteq PoolOf(t)
    BY <1>1 DEF IsAttached, PoolOf
  <2>2. op \notin UserOps /\ op' \notin UserOps
    BY <1>1 DEF UserOps, cmdVars
  <2>3. TypeOK /\ Deployed /\ clean' \subseteq clean /\ UNCHANGED <<hostVars, users>>
    BY <1>1 DEF IInv
  <2> QED BY <1>1, <1>4, <2>1, <2>2, <2>3, StillDeployed
<1> QED BY <1>3, <1>5, <1>6, <1>7 DEF IInv

\* What ensureBackendProxyServiceUUID makes of the rows: the backends have UUIDs that
\* agree already, so only the one that is attached may get one.
LEMMA ServiceIdGiven ==
  ASSUME IInv, NEW p \in Proxies, NEW b \in Vpns, b \in Listed, WithServiceIds(p, b, row')
  PROVE  \E k \in ServiceIds :
           row' = [row EXCEPT ![b] = [row[b] EXCEPT !.service = IF @ = None THEN k ELSE @]]
<1> DEFINE known == {row[e].service : e \in PoolOf(p)} \ {None}
           own == IF known # {} THEN known ELSE {row[b].service} \ {None}
<1>1. LocalOK /\ PoolOf(p) \subseteq Vpns /\ b \in Servers /\ PoolOf(p) \subseteq Servers
  BY TypeParts DEF IInv, PoolOf, Servers
<1>2. \A e \in PoolOf(p) : row[e].service # None
  BY DEF PoolOf, IInv, PoolsAgree
<1>3. \A e, f \in PoolOf(p) : row[e].service = row[f].service
  BY DEF PoolOf, IInv, PoolsAgree
<1>4. Cardinality(known) <= 1
  <2>1. IsFiniteSet(PoolOf(p))
    BY <1>1, Constants, FS_Subset
  <2> QED BY <1>3, <2>1, OneServiceId
<1>5. IsFiniteSet(known) /\ ~(Cardinality(known) > 1)
  <2>1. IsFiniteSet(PoolOf(p))
    BY <1>1, Constants, FS_Subset
  <2> DEFINE f == [e \in PoolOf(p) |-> row[e].service]
  <2>2. IsFiniteSet({f[e] : e \in PoolOf(p)})
    BY <2>1, FiniteValues
  <2>3. {f[e] : e \in PoolOf(p)} = {row[e].service : e \in PoolOf(p)}
    OBVIOUS
  <2>4. IsFiniteSet(known)
    BY <2>2, <2>3, FS_Subset
  <2>5. Cardinality(known) \in Nat
    BY <2>4, FS_CardinalityType
  <2> QED BY <1>4, <2>4, <2>5
<1>6. PICK k \in IF own # {} THEN own ELSE UnusedServiceIds :
        row' = [s \in Servers |-> IF s \in PoolOf(p) \union {b} /\ row[s].service = None
                                  THEN [row[s] EXCEPT !.service = k] ELSE row[s]]
  BY <1>5 DEF WithServiceIds
<1>7. k \in ServiceIds
  <2>1. own \subseteq ServiceIds
    BY <1>1, RowFields
  <2> QED BY <1>6, <2>1 DEF UnusedServiceIds
<1>8. row' = [s \in Servers |-> IF s = b /\ row[s].service = None
                                THEN [row[s] EXCEPT !.service = k] ELSE row[s]]
  BY <1>2, <1>6
<1>9. row' = [row EXCEPT ![b] = [row[b] EXCEPT !.service = IF @ = None THEN k ELSE @]]
  <2>1. row[b] \in Rows
    BY <1>1, RowFields
  <2>2. row[b].service # None => [row[b] EXCEPT !.service = row[b].service] = row[b]
    BY <2>1 DEF Rows
  <2>3. row \in [Servers -> Rows \union {NoRow}]
    BY <1>1 DEF LocalOK
  <2> QED BY <1>1, <1>8, <2>2, <2>3
<1> QED BY <1>7, <1>9

\* A backend joins a pool that agrees with it; a server that gains a service UUID had
\* none before, so no proxy relied on it.
LEMMA AttachStep ==
  ASSUME IInv, NEW p \in Proxies, NEW b \in Vpns, BackendAttach(p, b)
  PROVE  IInv'
<1>1. /\ op = "none" /\ at = "idle" /\ todo = {} /\ clean' = clean \ {p, b}
      /\ p \in Listed /\ b \in Listed /\ Reality \in row[b].profiles
      /\ UNCHANGED <<users, stamped, cmdVars, hostVars, faults>>
  BY DEF BackendAttach, Edit, Idle, IInv, Commanded
<1>2. LocalOK /\ CmdOK /\ HostOK /\ CountOK
  BY TypeParts DEF IInv
<1>3. PICK k \in ServiceIds :
        row' = [row EXCEPT ![b] = [row[b] EXCEPT !.service = IF @ = None THEN k ELSE @]]
  BY <1>1, ServiceIdGiven DEF BackendAttach
<1>4. b \in Servers /\ p \in Servers /\ row[b] \in Rows
  BY <1>1, <1>2, RowFields DEF Servers
<1>5. /\ row'[b] = [row[b] EXCEPT !.service = IF @ = None THEN k ELSE @]
      /\ \A t \in Servers \ {b} : row'[t] = row[t]
  BY <1>2, <1>3, <1>4 DEF LocalOK
<1>6. /\ row'[b] \in Rows /\ row'[b].service # None
      /\ row[b].service # None => row'[b].service = row[b].service
      /\ row'[b].enabled = row[b].enabled /\ row'[b].profiles = row[b].profiles
      /\ row'[b].ident = row[b].ident /\ row'[b].pair = row[b].pair
      /\ row'[b].sni = row[b].sni
  BY <1>4, <1>5, Constants DEF Rows
<1>7. \A t \in Servers : /\ row'[t].enabled = row[t].enabled /\ row'[t].profiles = row[t].profiles
                         /\ row'[t].ident = row[t].ident /\ row'[t].pair = row[t].pair
                         /\ row'[t].sni = row[t].sni
                         /\ row[t].service # None => row'[t].service = row[t].service
  BY <1>5, <1>6
<1>8. attached' \in {attached, attached \union {<<p, b>>}}
  BY DEF BackendAttach
<1>9. TypeOK'
  <2>1. row' \in [Servers -> Rows \union {NoRow}]
    BY <1>2, <1>3, <1>6, <1>5 DEF LocalOK
  <2>2. CountOK'
    <3>1. edits < MaxEdits /\ edits' = edits + 1
      BY DEF BackendAttach, Edit
    <3>2. edits' \in 0 .. MaxEdits
      BY <1>2, <3>1, Constants DEF CountOK
    <3>3. clean' \subseteq clean /\ faults' = faults
      BY <1>1
    <3> QED BY <1>2, <3>2, <3>3 DEF CountOK
  <2> QED BY <1>1, <1>2, <1>8, <2>1, <2>2, TypePartsNext DEF LocalOK, CmdOK, HostOK, cmdVars, hostVars
<1>10. Listed' = Listed /\ Enabled' = Enabled
  <2>1. row'[b] # NoRow
    BY <1>6, <1>1, <1>2, <1>4, RowFields, Constants DEF NoRow
  <2> QED BY <1>1, <1>5, <1>7, <2>1 DEF Listed, Enabled
<1>11. Commanded' /\ Handled' /\ Deploying'
  BY <1>1, <1>10 DEF IInv, Commanded, Handled, Deploying, cmdVars, DeployLabels
<1>12. SameKeys' /\ RowsSound'
  BY <1>7, <1>10, ListedServers DEF IInv, SameKeys, RowsSound, Servers
<1>13. \A a \in attached : a[2] \in Servers /\ row'[a[2]].service = row[a[2]].service
  BY <1>2, <1>7 DEF LocalOK, Servers, IInv, PoolsAgree
<1>14. PoolsAgree'
  <2>1. CASE attached' = attached
    BY <1>7, <1>10, <1>13, <2>1 DEF IInv, PoolsAgree
  <2>2. CASE attached' # attached
    <3>1. Compatible([row EXCEPT ![b] = row'[b]], PoolOf(p) \union {b})
      BY <2>2 DEF BackendAttach
    <3>2. [row EXCEPT ![b] = row'[b]] = row'
      BY <1>2, <1>3, <1>4, <1>5 DEF LocalOK
    <3>3. \A c \in PoolOf(p) : row'[c].ident = row'[b].ident /\ row'[c].service = row'[b].service
      BY <3>1, <3>2 DEF Compatible
    <3>4. \A a \in attached : a[1] = p =>
            row'[a[2]].ident = row'[b].ident /\ row'[a[2]].service = row'[b].service
      BY <1>2, <3>3 DEF PoolOf, LocalOK
    <3>5. attached' = attached \union {<<p, b>>}
      BY <1>8, <2>2
    <3>6. \A a \in attached' : /\ a[1] \in Listed' /\ a[2] \in Listed'
                               /\ Reality \in row'[a[2]].profiles /\ row'[a[2]].service # None
      BY <1>1, <1>6, <1>7, <1>10, <1>13, <3>5 DEF IInv, PoolsAgree
    <3>7. \A a, c \in attached : a[1] = c[1] => /\ row'[a[2]].ident = row'[c[2]].ident
                                                /\ row'[a[2]].service = row'[c[2]].service
      BY <1>7, <1>13 DEF IInv, PoolsAgree
    <3>8. \A a, c \in attached' : a[1] = c[1] => /\ row'[a[2]].ident = row'[c[2]].ident
                                                 /\ row'[a[2]].service = row'[c[2]].service
      BY <3>4, <3>5, <3>7
    <3> QED BY <3>6, <3>8 DEF PoolsAgree
  <2> QED BY <2>1, <2>2
<1>15. Deployed'
  <2>1. ASSUME NEW t \in clean'
        PROVE  /\ IsAttached(t)' => IsAttached(t) /\ row'[t].service = row[t].service
               /\ PoolOf(t)' = PoolOf(t)
               /\ \A c \in PoolOf(t) : /\ row'[c].ident = row[c].ident
                                       /\ row'[c].service = row[c].service
    <3>1. t # p /\ t # b
      BY <1>1
    <3>2. PoolOf(t)' = PoolOf(t) /\ IsAttached(t)' = IsAttached(t)
      BY <1>8, <3>1 DEF PoolOf, IsAttached
    <3>3. \A c \in PoolOf(t) : <<t, c>> \in attached
      BY DEF PoolOf
    <3>4. IsAttached(t) => \E a \in attached : a[2] = t
      BY DEF IsAttached
    <3> QED BY <1>7, <1>13, <3>2, <3>3, <3>4
  <2>2. clean' \subseteq Servers
    BY <1>1, <1>2 DEF CountOK
  <2>3. op \notin UserOps /\ op' \notin UserOps
    BY <1>1 DEF UserOps, cmdVars
  <2>4. TypeOK /\ Deployed /\ clean' \subseteq clean /\ UNCHANGED <<hostVars, users>>
    BY <1>1 DEF IInv
  <2> QED BY <1>7, <1>10, <2>1, <2>2, <2>3, <2>4, StillDeployed
<1> QED BY <1>9, <1>11, <1>12, <1>14, <1>15 DEF IInv

\* A profile command begins.
LEMMA ProfileCmdStep ==
  ASSUME IInv, NEW o \in ProfileOps, NEW s \in Servers, NEW p \in Profiles, ProfileCmd(o, s, p)
  PROVE  IInv'
<1>1. /\ op = "none" /\ at = "idle" /\ todo = {} /\ s \in Listed /\ clean' = clean \ {s}
      /\ op' = o /\ todo' = {s} /\ arg' = p /\ at' \in {"pair", "profile"} /\ o \in Ops
      /\ UNCHANGED <<bundle, localVars, hostVars, faults>>
  BY DEF ProfileCmd, Edit, Idle, Begin, IInv, Commanded
<1>2. LocalOK /\ CmdOK /\ HostOK /\ CountOK
  BY TypeParts DEF IInv
<1>3. TypeOK'
  <2>1. edits < MaxEdits /\ edits' = edits + 1
    BY DEF ProfileCmd, Edit
  <2>2. CountOK'
    BY <1>1, <1>2, <2>1, Constants DEF CountOK
  <2>3. CmdOK'
    BY <1>1, <1>2 DEF CmdOK
  <2> QED BY <1>1, <1>2, <2>2, <2>3, TypePartsNext DEF LocalOK, HostOK, localVars, hostVars
<1>4. /\ SameKeys' /\ RowsSound' /\ PoolsAgree' /\ Listed' = Listed
      /\ \A t : PoolOf(t)' = PoolOf(t) /\ IsAttached(t)' = IsAttached(t)
  BY <1>1, SameRows DEF IInv, localVars
<1>5. Commanded'
  BY <1>1, <1>4 DEF Commanded, ProfileOps, UserOps, DeployLabels
<1>6. Handled'
  <2>1. todo' \subseteq Nat /\ todo' # {}
    BY <1>1, Constants
  <2>2. Cur' = s
    BY <1>1, <2>1, FirstIn DEF Cur
  <2> QED BY <1>1, <2>2 DEF Handled
<1>7. Deploying'
  BY <1>1, AtRest DEF DeployLabels
<1>8. Deployed'
  <2>1. op \notin UserOps /\ op' \notin UserOps
    BY <1>1 DEF UserOps, ProfileOps
  <2>2. TypeOK /\ Deployed /\ clean' \subseteq clean /\ UNCHANGED <<hostVars, users, row>>
    BY <1>1 DEF IInv, localVars
  <2> QED BY <1>4, <2>1, <2>2, StillDeployed
<1> QED BY <1>3, <1>4, <1>5, <1>6, <1>7, <1>8 DEF IInv

\* A command that ends.
LEMMA Ends ==
  ASSUME End
  PROVE  /\ Commanded' /\ Handled' /\ Deploying'
         /\ op' \notin UserOps /\ CmdOK'
<1>1. op' = "none" /\ todo' = {} /\ arg' = Reality /\ at' = "idle" /\ bundle' = NoBundle
  BY DEF End
<1> QED BY <1>1 DEF Commanded, Handled, Deploying, UserOps, DeployLabels, CmdOK, Profiles, Reality

\* Every VPN server gets the one pair, and those that offer VLESS Encryption had it.
LEMMA EnsurePairStep ==
  ASSUME IInv, EnsurePair
  PROVE  IInv'
<1>1. /\ at = "pair" /\ op \in ProfileOps /\ Cur \notin clean
      /\ UNCHANGED <<users, attached, stamped, hostVars, clean, edits, faults>>
  BY DEF EnsurePair, IInv, Commanded, Handled
<1>2. LocalOK /\ CmdOK /\ HostOK /\ CountOK
  BY TypeParts DEF IInv
<1>3. op \notin UserOps
  BY <1>1 DEF ProfileOps, UserOps
<1>4. TypeOK /\ Deployed /\ clean' \subseteq clean /\ UNCHANGED <<hostVars, users>>
  BY <1>1 DEF IInv
<1>5. \A t : IsAttached(t)' = IsAttached(t) /\ PoolOf(t)' = PoolOf(t)
  BY <1>1 DEF IsAttached, PoolOf
<1>6. CASE End /\ UNCHANGED row
  <2>1. TypeOK'
    BY <1>1, <1>2, <1>6, Ends, TypePartsNext DEF LocalOK, HostOK, CountOK, hostVars
  <2>2. SameKeys' /\ RowsSound' /\ PoolsAgree' /\ Listed' = Listed
    BY <1>1, <1>6, SameRows DEF IInv
  <2>3. Deployed'
    BY <1>3, <1>4, <1>5, <1>6, <2>2, Ends, StillDeployed
  <2> QED BY <1>6, <2>1, <2>2, <2>3, Ends DEF IInv
<1>7. CASE ~(End /\ UNCHANGED row)
  <2>1. /\ at' = "profile" /\ UNCHANGED <<op, arg, todo, bundle>>
        /\ \E k \in IF PairsOf(Vpns) # {} THEN PairsOf(Vpns) ELSE UnusedPairs :
               row' = [s \in Servers |->
                         IF s \in Vpns \intersect Listed THEN [row[s] EXCEPT !.pair = k]
                         ELSE row[s]]
    BY <1>7 DEF EnsurePair, Goto
  <2>2. PICK k \in IF PairsOf(Vpns) # {} THEN PairsOf(Vpns) ELSE UnusedPairs :
          row' = [s \in Servers |->
                         IF s \in Vpns \intersect Listed THEN [row[s] EXCEPT !.pair = k]
                         ELSE row[s]]
    BY <2>1
  <2>3. k \in Pairs
    <3>1. PairsOf(Vpns) \subseteq Pairs
      BY <1>2, RowFields DEF PairsOf, Servers
    <3> QED BY <2>2, <3>1 DEF UnusedPairs
  <2>4. \A s \in Servers : IF s \in Vpns /\ s \in Listed
                           THEN row'[s] = [row[s] EXCEPT !.pair = k] ELSE row'[s] = row[s]
    BY <2>2
  <2>5. \A s \in Listed : row[s] \in Rows
    BY <1>2, RowFields, ListedServers
  <2>6. \A s \in Servers :
          /\ row'[s].enabled = row[s].enabled /\ row'[s].profiles = row[s].profiles
          /\ row'[s].ident = row[s].ident /\ row'[s].sni = row[s].sni
          /\ row'[s].service = row[s].service
          /\ row'[s].pair = IF s \in Vpns /\ s \in Listed THEN k ELSE row[s].pair
          /\ s \in Listed => row'[s] \in Rows
    <3> SUFFICES ASSUME NEW s \in Servers PROVE <2>6!(s)
      OBVIOUS
    <3>1. CASE s \in Vpns /\ s \in Listed
      <4>1. row[s] \in Rows /\ row'[s] = [row[s] EXCEPT !.pair = k]
        BY <2>4, <2>5, <3>1
      <4> QED BY <2>3, <3>1, <4>1 DEF Rows
    <3>2. CASE ~(s \in Vpns /\ s \in Listed)
      <4>1. row'[s] = row[s]
        BY <2>4, <3>2
      <4> QED BY <2>5, <3>2, <4>1
    <3> QED BY <3>1, <3>2
  <2>7. row' \in [Servers -> Rows \union {NoRow}]
    <3>1. \A s \in Servers : row'[s] \in Rows \union {NoRow}
      BY <1>2, <2>4, <2>6, RowFields
    <3> QED BY <2>2, <3>1
  <2>8. Listed' = Listed /\ Enabled' = Enabled
    <3>1. \A s \in Listed : row'[s] # NoRow
      BY <2>5, <2>6, <1>2, RowFields, ListedServers, Constants DEF NoRow
    <3>2. \A s \in Servers : row'[s] # NoRow <=> row[s] # NoRow
      BY <2>4, <3>1 DEF Listed
    <3>3. \A s \in Servers : row'[s].enabled = row[s].enabled
      BY <2>6
    <3> QED BY <3>2, <3>3 DEF Listed, Enabled
  <2>9. TypeOK'
    <3>1. LocalOK'
      BY <1>1, <1>2, <2>7 DEF LocalOK
    <3>2. CmdOK' /\ HostOK' /\ CountOK'
      BY <1>1, <1>2, <2>1 DEF CmdOK, HostOK, CountOK, hostVars
    <3> QED BY <3>1, <3>2, TypePartsNext
  <2>10. Commanded' /\ Handled' /\ Deploying'
    BY <1>1, <2>1, <2>8 DEF IInv, Commanded, Handled, Deploying, DeployLabels, Cur
  <2>11. \A s \in Vpns : row[s].pair # None => k = row[s].pair
    <3> SUFFICES ASSUME NEW s \in Vpns, row[s].pair # None PROVE k = row[s].pair
      OBVIOUS
    <3>1. row[s].pair \in PairsOf(Vpns)
      BY DEF PairsOf
    <3>2. PICK t \in Vpns : row[t].pair = k /\ row[t].pair # None
      BY <2>2, <3>1 DEF PairsOf
    <3> QED BY <3>2 DEF IInv, SameKeys
  <2>12. SameKeys'
    <3>1. ASSUME NEW s \in Vpns, row'[s].pair # None PROVE row'[s].pair = k
      BY <2>6, <2>11, <3>1, <1>2, RowFields DEF Servers
    <3>2. \A s, t \in Enabled : (s \in Vpns <=> t \in Vpns) => row'[s].ident = row'[t].ident
      BY <2>6, ListedServers DEF IInv, SameKeys
    <3> QED BY <2>8, <3>1, <3>2 DEF SameKeys
  <2>13. RowsSound'
    BY <2>3, <2>6, <2>8, ListedServers, Constants DEF IInv, RowsSound
  <2>14. PoolsAgree'
    <3>1. \A a \in attached : a[2] \in Servers
      BY <1>2 DEF LocalOK, Servers
    <3> QED BY <1>1, <2>6, <2>8, <3>1 DEF IInv, PoolsAgree
  <2>15. Deployed'
    <3>1. ASSUME NEW s \in clean', VlessEnc \in row[s].profiles PROVE row'[s].pair = row[s].pair
      <4>1. s \in Listed
        BY <1>1 DEF IInv, Deployed, Current
      <4>2. s \in Vpns /\ row[s].pair # None
        BY <3>1, <4>1 DEF IInv, RowsSound
      <4> QED BY <2>6, <2>11, <4>1, <4>2, ListedServers
    <3>2. clean' \subseteq Servers
      BY <1>1, <1>2 DEF CountOK
    <3>3. \A s : PoolOf(s) \subseteq Servers
      BY DEF PoolOf, Servers
    <3>4. op' \notin UserOps
      BY <1>3, <2>1
    <3> QED BY <1>3, <1>4, <1>5, <2>6, <2>8, <3>1, <3>2, <3>3, <3>4, StillDeployed
  <2> QED BY <2>9, <2>10, <2>12, <2>13, <2>14, <2>15 DEF IInv
<1> QED BY <1>6, <1>7

\* The server's own row changes, as far as it stays fit to be rendered.
LEMMA EditProfilesStep ==
  ASSUME IInv, EditProfiles
  PROVE  IInv'
<1>1. /\ at = "profile" /\ op \in ProfileOps /\ Cur \notin clean /\ todo # {} /\ End
      /\ UNCHANGED <<users, attached, stamped, hostVars, clean, edits, faults>>
  BY DEF EditProfiles, IInv, Commanded, Handled
<1>2. LocalOK /\ CmdOK /\ HostOK /\ CountOK
  BY TypeParts DEF IInv
<1>3. Cur \in Servers /\ Cur \in Listed /\ row[Cur] \in Rows
  BY <1>1, <1>2, CurIn, RowFields DEF IInv, Commanded
<1>4. op \notin UserOps
  BY <1>1 DEF ProfileOps, UserOps
<1>5. TypeOK /\ Deployed /\ clean' \subseteq clean /\ UNCHANGED <<hostVars, users>>
  BY <1>1 DEF IInv
<1>6. \A t : IsAttached(t)' = IsAttached(t) /\ PoolOf(t)' = PoolOf(t)
  BY <1>1 DEF IsAttached, PoolOf
<1>7. CASE UNCHANGED row
  <2>1. TypeOK'
    BY <1>1, <1>2, <1>7, Ends, TypePartsNext DEF LocalOK, HostOK, CountOK, hostVars
  <2>2. SameKeys' /\ RowsSound' /\ PoolsAgree' /\ Listed' = Listed
    BY <1>1, <1>7, SameRows DEF IInv
  <2>3. Deployed'
    BY <1>1, <1>4, <1>5, <1>6, <1>7, <2>2, Ends, StillDeployed
  <2> QED BY <1>1, <2>1, <2>2, <2>3, Ends DEF IInv
<1>8. CASE row' # row
  <2> DEFINE r == Edited(row[Cur])
  <2>1. EditAllowed(Cur) /\ row' = [row EXCEPT ![Cur] = r]
    BY <1>8 DEF EditProfiles
  <2>2. row'[Cur] = r /\ \A t \in Servers \ {Cur} : row'[t] = row[t]
    BY <1>2, <1>3, <2>1 DEF LocalOK
  <2>3. arg \in Profiles
    BY <1>2 DEF CmdOK
  <2>4. /\ r \in Rows
        /\ r.enabled = row[Cur].enabled /\ r.ident = row[Cur].ident /\ r.sni = row[Cur].sni
        /\ r.pair = row[Cur].pair /\ r.service = row[Cur].service
        /\ r.profiles = CASE op = "enable" -> row[Cur].profiles \union {arg}
                          [] op = "disable" -> row[Cur].profiles \ {arg}
                          [] op = "switch" -> Without443Rival(row[Cur].profiles, arg)
    <3>1. Without443Rival(row[Cur].profiles, arg) \subseteq Profiles
      BY <1>3, <2>3 DEF Rows, Without443Rival
    <3>2. CASE op = "enable"
      BY <1>3, <2>3, <3>2 DEF Edited, Rows
    <3>3. CASE op = "disable"
      BY <1>3, <2>3, <3>3 DEF Edited, Rows
    <3>4. CASE op = "switch"
      BY <1>3, <2>3, <3>1, <3>4 DEF Edited, Rows
    <3> QED BY <1>1, <3>2, <3>3, <3>4 DEF ProfileOps
  <2>5. ~(On443 \subseteq r.profiles)
    <3>1. ~(On443 \subseteq row[Cur].profiles)
      BY <1>3 DEF IInv, RowsSound
    <3>2. ~(On443 \subseteq Without443Rival(row[Cur].profiles, arg))
      BY <3>1 DEF Without443Rival, On443, Reality, SelfSni
    <3>3. op = "enable" => Without443Rival(row[Cur].profiles, arg) = row[Cur].profiles \union {arg}
      BY <2>1 DEF EditAllowed
    <3> HIDE DEF r
    <3> QED BY <1>1, <2>4, <3>1, <3>2, <3>3 DEF ProfileOps
  <2>6. VlessEnc \in r.profiles => Cur \in Vpns /\ r.pair # None
    BY <2>1 DEF EditAllowed, Valid
  <2>7. IsAttached(Cur) => Reality \in r.profiles
    <3>1. CASE op = "enable"
      <4>1. IsAttached(Cur) => Reality \in row[Cur].profiles
        BY DEF IInv, PoolsAgree, IsAttached
      <4> QED BY <2>4, <3>1, <4>1
    <3>2. CASE op # "enable"
      BY <2>1, <3>2 DEF EditAllowed
    <3> QED BY <3>1, <3>2
  <2> HIDE DEF r
  <2>8. Listed' = Listed /\ Enabled' = Enabled
    <3>1. r # NoRow
      BY <1>2, <1>3, <2>4, RowFields, Constants DEF NoRow
    <3> QED BY <1>3, <2>2, <2>4, <3>1 DEF Listed, Enabled
  <2>9. TypeOK'
    <3>1. row' \in [Servers -> Rows \union {NoRow}]
      BY <1>2, <2>1, <2>4, <1>3 DEF LocalOK
    <3>2. LocalOK'
      BY <1>1, <1>2, <3>1 DEF LocalOK
    <3> QED BY <1>1, <1>2, <3>2, Ends, TypePartsNext DEF HostOK, CountOK, hostVars
  <2>10. \A t \in Servers : /\ row'[t].ident = row[t].ident /\ row'[t].pair = row[t].pair
                            /\ row'[t].service = row[t].service
    BY <2>2, <2>4
  <2>11. SameKeys'
    BY <2>8, <2>10, ListedServers DEF IInv, SameKeys, Servers
  <2>12. RowsSound'
    BY <2>2, <2>5, <2>6, <2>8, ListedServers DEF IInv, RowsSound
  <2>13. PoolsAgree'
    <3>1. \A a \in attached : a[1] \in Proxies /\ a[2] \in Servers
      BY <1>2 DEF LocalOK, Servers
    <3>2. \A a \in attached : Reality \in row'[a[2]].profiles
      <4> SUFFICES ASSUME NEW a \in attached PROVE Reality \in row'[a[2]].profiles
        OBVIOUS
      <4>1. CASE a[2] = Cur
        <5>1. a = <<a[1], Cur>>
          BY <1>2, <4>1 DEF LocalOK
        <5>2. IsAttached(Cur)
          BY <3>1, <5>1 DEF IsAttached
        <5> QED BY <2>2, <2>7, <4>1, <5>2
      <4>2. CASE a[2] # Cur
        BY <2>2, <3>1, <4>2 DEF IInv, PoolsAgree
      <4> QED BY <4>1, <4>2
    <3> QED BY <1>1, <2>8, <2>10, <3>1, <3>2 DEF IInv, PoolsAgree
  <2>14. Deployed'
    <3>1. \A s \in clean' : s \in Servers /\ row'[s] = row[s]
      BY <1>1, <1>2, <2>2 DEF CountOK
    <3>2. \A s : PoolOf(s) \subseteq Servers
      BY DEF PoolOf, Servers
    <3>3. op' \notin UserOps
      BY <1>1, Ends
    <3> QED BY <1>4, <1>5, <1>6, <2>8, <2>10, <3>1, <3>2, <3>3, StillDeployed
  <2> QED BY <1>1, <2>9, <2>11, <2>12, <2>13, <2>14, Ends DEF IInv
<1> QED BY <1>7, <1>8

\* A server loses its files and its containers.
LEMMA CleanupStep ==
  ASSUME IInv, NEW s \in Servers, ServerCleanup(s)
  PROVE  IInv'
<1>1. /\ op = "none" /\ at = "idle" /\ todo = {} /\ s \in Listed /\ clean' = clean \ {s}
      /\ op' = "cleanup" /\ todo' = {s} /\ arg' = Reality /\ at' = "forget"
      /\ "cleanup" \in Ops
      /\ UNCHANGED <<bundle, localVars, faults>>
  BY DEF ServerCleanup, Edit, Idle, Begin, IInv, Commanded
<1>2. LocalOK /\ CmdOK /\ HostOK /\ CountOK
  BY TypeParts DEF IInv
<1>3. /\ config' = [config EXCEPT ![s] = NoConfig] /\ compose' = [compose EXCEPT ![s] = NoStack]
      /\ live' = [live EXCEPT ![s] = NoConfig] /\ stack' = [stack EXCEPT ![s] = NoStack]
  BY DEF ServerCleanup
<1>4. TypeOK'
  <2>1. edits < MaxEdits /\ edits' = edits + 1
    BY DEF ServerCleanup, Edit
  <2>2. CountOK'
    BY <1>1, <1>2, <2>1, Constants DEF CountOK
  <2>3. CmdOK'
    BY <1>1, <1>2 DEF CmdOK, Profiles
  <2>4. NoStack \in Stacks
    BY DEF NoStack, Stacks
  <2>5. HostOK'
    BY <1>2, <1>3, <2>4 DEF HostOK
  <2> QED BY <1>1, <1>2, <2>2, <2>3, <2>5, TypePartsNext DEF LocalOK, localVars
<1>5. /\ SameKeys' /\ RowsSound' /\ PoolsAgree' /\ Listed' = Listed
      /\ \A t, cfg : Agrees(t, cfg)' = Agrees(t, cfg)
      /\ \A t : PoolOf(t)' = PoolOf(t)
  BY <1>1, SameRows DEF IInv, localVars
<1>6. Commanded'
  BY <1>1, <1>5 DEF Commanded, ProfileOps, UserOps, DeployLabels
<1>7. Handled'
  <2>1. Cur' = s
    BY <1>1, Constants, FirstIn DEF Cur
  <2> QED BY <1>1, <2>1 DEF Handled
<1>8. Deploying'
  BY <1>1, AtRest DEF DeployLabels
<1>9. Deployed'
  <2> SUFFICES ASSUME NEW t \in clean' PROVE Current(t)' /\ UserServed(t)'
    BY DEF Deployed
  <2>1. t \in clean /\ t # s /\ t \in Servers /\ Current(t) /\ UserServed(t)
    BY <1>1, <1>2 DEF CountOK, IInv, Deployed
  <2>2. config'[t] = config[t] /\ live'[t] = live[t] /\ stack'[t] = stack[t]
    BY <1>2, <1>3, <2>1 DEF HostOK
  <2>3. Current(t)'
    BY <1>1, <1>5, <2>1, <2>2 DEF Current, localVars
  <2>4. UserServed(t)'
    BY <1>1, <2>1, <2>2 DEF UserServed, Changing, UsersAt, localVars, UserOps
  <2> QED BY <2>3, <2>4
<1> QED BY <1>4, <1>5, <1>6, <1>7, <1>8, <1>9 DEF IInv

\* The row of the server is disabled, or goes together with its backends.
LEMMA ForgetStep ==
  ASSUME IInv, Forget
  PROVE  IInv'
<1>1. /\ at = "forget" /\ op = "cleanup" /\ Cur \notin clean /\ todo # {} /\ End
      /\ UNCHANGED <<hostVars, clean, edits, faults>>
  BY DEF Forget, IInv, Commanded, Handled
<1>2. LocalOK /\ CmdOK /\ HostOK /\ CountOK
  BY TypeParts DEF IInv
<1>3. Cur \in Servers /\ Cur \in Listed /\ row[Cur] \in Rows
  BY <1>1, <1>2, CurIn, RowFields DEF IInv, Commanded
<1>4. op \notin UserOps /\ op' \notin UserOps
  BY <1>1, Ends DEF UserOps
<1>5. TypeOK /\ Deployed /\ clean' \subseteq clean /\ UNCHANGED hostVars
  BY <1>1 DEF IInv
<1>6. CASE row' = [row EXCEPT ![Cur].enabled = FALSE] /\ UNCHANGED <<users, attached, stamped>>
  <2>1. row'[Cur] = [row[Cur] EXCEPT !.enabled = FALSE] /\ \A t \in Servers \ {Cur} : row'[t] = row[t]
    BY <1>2, <1>3, <1>6 DEF LocalOK
  <2>2. /\ row'[Cur] \in Rows /\ ~row'[Cur].enabled /\ row'[Cur].ident = row[Cur].ident
        /\ row'[Cur].pair = row[Cur].pair /\ row'[Cur].service = row[Cur].service
        /\ row'[Cur].profiles = row[Cur].profiles
    BY <1>3, <2>1 DEF Rows
  <2>3. Listed' = Listed /\ Enabled' \subseteq Enabled
    <3>1. row'[Cur] # NoRow
      BY <1>2, <1>3, <2>2, RowFields, Constants DEF NoRow
    <3> QED BY <1>3, <2>1, <2>2, <3>1 DEF Listed, Enabled
  <2>4. \A t \in Servers : /\ row'[t].ident = row[t].ident /\ row'[t].pair = row[t].pair
                           /\ row'[t].service = row[t].service /\ row'[t].profiles = row[t].profiles
    BY <2>1, <2>2
  <2>5. TypeOK'
    <3>1. row' \in [Servers -> Rows \union {NoRow}]
      BY <1>2, <1>3, <1>6, <2>1, <2>2 DEF LocalOK
    <3>2. LocalOK'
      BY <1>2, <1>6, <3>1 DEF LocalOK
    <3> QED BY <1>1, <1>2, <3>2, Ends, TypePartsNext DEF HostOK, CountOK, hostVars
  <2>6. SameKeys' /\ RowsSound'
    BY <2>3, <2>4, ListedServers DEF IInv, SameKeys, RowsSound, Servers
  <2>7. PoolsAgree'
    <3>1. \A a \in attached : a[2] \in Servers
      BY <1>2 DEF LocalOK, Servers
    <3> QED BY <1>6, <2>3, <2>4, <3>1 DEF IInv, PoolsAgree
  <2>8. Deployed'
    <3>1. \A s \in clean' : s \in Servers /\ row'[s] = row[s]
      BY <1>1, <1>2, <2>1 DEF CountOK
    <3>2. \A s : PoolOf(s) \subseteq Servers
      BY DEF PoolOf, Servers
    <3>3. \A t : IsAttached(t)' = IsAttached(t) /\ PoolOf(t)' = PoolOf(t)
      BY <1>6 DEF IsAttached, PoolOf
    <3> QED BY <1>4, <1>5, <1>6, <2>3, <2>4, <3>1, <3>2, <3>3, StillDeployed
  <2> QED BY <1>1, <2>5, <2>6, <2>7, <2>8, Ends DEF IInv
<1>7. CASE /\ row' = [row EXCEPT ![Cur] = NoRow]
           /\ users' = users \ {Cur} /\ stamped' = stamped \ {Cur}
           /\ attached' = {a \in attached : a[1] # Cur /\ a[2] # Cur}
  <2>1. row'[Cur] = NoRow /\ \A t \in Servers \ {Cur} : row'[t] = row[t]
    BY <1>2, <1>3, <1>7 DEF LocalOK
  <2>2. Listed' = Listed \ {Cur} /\ Enabled' = Enabled \ {Cur}
    BY <1>3, <2>1 DEF Listed, Enabled, NoRow
  <2>3. TypeOK'
    <3>1. row' \in [Servers -> Rows \union {NoRow}]
      BY <1>2, <1>7 DEF LocalOK
    <3>2. LocalOK'
      BY <1>2, <1>7, <3>1 DEF LocalOK
    <3> QED BY <1>1, <1>2, <3>2, Ends, TypePartsNext DEF HostOK, CountOK, hostVars
  <2>4. SameKeys'
    <3>1. \A t \in Vpns : row'[t].pair # None => row'[t] = row[t]
      BY <2>1 DEF NoRow, Servers
    <3>2. \A t \in Enabled' : t \in Enabled /\ row'[t] = row[t]
      BY <2>1, <2>2, ListedServers
    <3> QED BY <3>1, <3>2 DEF IInv, SameKeys
  <2>5. RowsSound'
    BY <2>1, <2>2, ListedServers DEF IInv, RowsSound
  <2>6. \A a \in attached' : a \in attached /\ a[1] # Cur /\ a[2] # Cur
                             /\ a[2] \in Servers /\ row'[a[2]] = row[a[2]]
    BY <1>2, <1>7, <2>1 DEF LocalOK, Servers
  <2>7. PoolsAgree'
    BY <2>2, <2>6 DEF IInv, PoolsAgree
  <2>8. Deployed'
    <3>1. \A s \in clean' : s # Cur /\ s \in Servers /\ row'[s] = row[s]
      BY <1>1, <1>2, <2>1 DEF CountOK
    <3>2. \A t : (IsAttached(t)' => IsAttached(t)) /\ PoolOf(t)' \subseteq PoolOf(t)
      BY <1>7 DEF IsAttached, PoolOf
    <3>3. \A s \in clean' : \A b \in PoolOf(s)' : row'[b] = row[b]
      <4> SUFFICES ASSUME NEW s \in clean', NEW b \in PoolOf(s)' PROVE row'[b] = row[b]
        OBVIOUS
      <4>1. <<s, b>> \in attached'
        BY DEF PoolOf
      <4> QED BY <2>6, <4>1
    <3>4. \A s \in clean' : (s \in Listed => s \in Listed') /\ (s \in users' <=> s \in users)
      BY <1>7, <2>2, <3>1
    <3> QED BY <1>4, <1>5, <3>1, <3>2, <3>3, <3>4, StillDeployed
  <2> QED BY <1>1, <2>3, <2>4, <2>5, <2>7, <2>8, Ends DEF IInv
<1> QED BY <1>6, <1>7 DEF Forget

\* A deploy begins.
LEMMA DeployStep ==
  ASSUME IInv, NEW s \in Servers, Deploy(s)
  PROVE  IInv'
<1>1. /\ op = "none" /\ at = "idle" /\ todo = {} /\ s \in Listed /\ "deploy" \in Ops
      /\ op' = "deploy" /\ todo' = {s} /\ arg' = Reality /\ at' = "render"
      /\ UNCHANGED <<bundle, localVars, hostVars, clean, edits, faults>>
  BY DEF Deploy, Idle, Begin, IInv, Commanded
<1>2. LocalOK /\ CmdOK /\ HostOK /\ CountOK
  BY TypeParts DEF IInv
<1>3. TypeOK'
  <2>1. CmdOK'
    BY <1>1, <1>2 DEF CmdOK, Profiles
  <2> QED BY <1>1, <1>2, <2>1, TypePartsNext DEF LocalOK, HostOK, CountOK, localVars, hostVars
<1>4. /\ SameKeys' /\ RowsSound' /\ PoolsAgree' /\ Listed' = Listed
      /\ \A t : PoolOf(t)' = PoolOf(t) /\ IsAttached(t)' = IsAttached(t)
  BY <1>1, SameRows DEF IInv, localVars
<1>5. Commanded' /\ Handled' /\ Deploying'
  BY <1>1, <1>4 DEF Commanded, Handled, Deploying, ProfileOps, UserOps, DeployLabels
<1>6. Deployed'
  <2>1. op \notin UserOps /\ op' \notin UserOps
    BY <1>1 DEF UserOps
  <2>2. TypeOK /\ Deployed /\ clean' \subseteq clean /\ UNCHANGED <<hostVars, users, row>>
    BY <1>1 DEF IInv, localVars
  <2> QED BY <1>4, <2>1, <2>2, StillDeployed
<1> QED BY <1>3, <1>4, <1>5, <1>6 DEF IInv

\* A command breaks off between two steps.
LEMMA BreakOffStep ==
  ASSUME IInv, BreakOff
  PROVE  IInv'
<1>1. /\ End /\ UNCHANGED <<localVars, hostVars>>
      /\ clean' = IF op \in UserOps THEN clean \ todo ELSE clean
      /\ op # "none" /\ todo # {}
  BY DEF BreakOff, IInv, Commanded
<1>2. LocalOK /\ CmdOK /\ HostOK /\ CountOK
  BY TypeParts DEF IInv
<1>3. TypeOK'
  <2>1. /\ edits < MaxEdits /\ edits' = edits + 1
        /\ faults < MaxFaults /\ faults' = faults + 1
    BY DEF BreakOff
  <2>2. clean' \subseteq clean
    BY <1>1
  <2>3. edits' \in 0 .. MaxEdits /\ faults' \in 0 .. MaxFaults
    BY <1>2, <2>1, Constants DEF CountOK
  <2>4. CountOK'
    BY <1>2, <2>2, <2>3 DEF CountOK
  <2> QED BY <1>1, <1>2, <2>4, Ends, TypePartsNext DEF LocalOK, HostOK, localVars, hostVars
<1>4. /\ SameKeys' /\ RowsSound' /\ PoolsAgree' /\ Listed' = Listed
      /\ \A t : PoolOf(t)' = PoolOf(t) /\ IsAttached(t)' = IsAttached(t)
  BY <1>1, SameRows DEF IInv, localVars
<1>5. Deployed'
  <2>1. \A t \in clean' : ~Changing(t) /\ ~Changing(t)'
    BY <1>1, <1>2, CurIn, Ends DEF Changing
  <2>2. TypeOK /\ Deployed /\ clean' \subseteq clean /\ UNCHANGED <<hostVars, users, row>>
    BY <1>1 DEF IInv, localVars
  <2> QED BY <1>4, <2>1, <2>2, Undisturbed
<1> QED BY <1>1, <1>3, <1>4, <1>5, Ends DEF IInv

-----------------------------------------------------------------------------
(* Deploys and restarts.                                                   *)

\* Xray comes back with the configuration it finds, unless certificates are missing.
LEMMA BootsTo ==
  ASSUME NEW cfg, NEW stk, stk.profiles = cfg.profiles
  PROVE  Booted(cfg, stk) = cfg
BY DEF Booted

\* Xray restarts with the file: only where a user command has told Xray and not yet
\* written the file does that change what it serves.
LEMMA RestartStep ==
  ASSUME IInv, NEW s \in Servers, XrayRestart(s)
  PROVE  IInv'
<1>1. /\ live' = [live EXCEPT ![s] = Booted(config[s], stack[s])]
      /\ clean' = IF at = "persist" /\ s = Min(todo) THEN clean \ {s} ELSE clean
      /\ UNCHANGED <<localVars, cmdVars, config, compose, stack, edits, faults>>
  BY DEF XrayRestart
<1>2. LocalOK /\ CmdOK /\ HostOK /\ CountOK
  BY TypeParts DEF IInv
<1>3. TypeOK'
  <2>1. Booted(config[s], stack[s]) \in Configs \union {NoConfig}
    BY <1>2 DEF HostOK, Booted
  <2>2. HostOK'
    BY <1>1, <1>2, <2>1 DEF HostOK
  <2> QED BY <1>1, <1>2, <2>2, TypePartsNext DEF LocalOK, CmdOK, CountOK, localVars, cmdVars
<1>4. /\ SameKeys' /\ RowsSound' /\ PoolsAgree' /\ Listed' = Listed
      /\ \A t : PoolOf(t)' = PoolOf(t) /\ Renderable(t)' = Renderable(t)
      /\ \A t : ComposeOf(t)' = ComposeOf(t)
      /\ \A t, on : Rendered(t, on)' = Rendered(t, on)
      /\ \A t, cfg : Agrees(t, cfg)' = Agrees(t, cfg)
  BY <1>1, SameRows DEF IInv, localVars
<1>5. UNCHANGED <<Cur, users, row, op, at, todo, bundle>>
  BY <1>1 DEF Cur, localVars, cmdVars
<1>6. Commanded' /\ Handled'
  BY <1>1, <1>4, <1>5 DEF IInv, Commanded, Handled
<1>7. live'[s] = Booted(config[s], stack[s]) /\ \A t \in Servers \ {s} : live'[t] = live[t]
  BY <1>1, <1>2 DEF HostOK
<1>8. Deploying'
  <2>1. ASSUME at = "stamp" PROVE live'[Cur] = Rendered(Cur, users)
    <3>1. /\ live[Cur] = Rendered(Cur, users) /\ stack[Cur] = ComposeOf(Cur)
          /\ config[Cur] = Rendered(Cur, users)
      BY <2>1 DEF IInv, Deploying
    <3>2. Booted(config[Cur], stack[Cur]) = config[Cur]
      BY <3>1, BootsTo DEF Rendered, ComposeOf
    <3>3. Cur \in Servers
      BY <1>2, <2>1, CurIn DEF IInv, Commanded
    <3> QED BY <1>7, <3>1, <3>2, <3>3
  <2>2. UNCHANGED <<config, compose, stack>>
    BY <1>1
  <2> QED BY <1>4, <1>5, <2>1, <2>2 DEF IInv, Deploying
<1>9. Deployed'
  <2> SUFFICES ASSUME NEW t \in clean' PROVE Current(t)' /\ UserServed(t)'
    BY DEF Deployed
  <2>1. t \in clean /\ t \in Servers /\ Current(t) /\ UserServed(t)
    BY <1>1, <1>2 DEF CountOK, IInv, Deployed
  <2>2. Changing(t)' = Changing(t) /\ UsersAt(t)' = UsersAt(t)
    BY <1>5 DEF Changing, UsersAt
  <2>3. live'[t] = live[t] \/ (t = s /\ live'[t] = config[t])
    <3>1. CASE t = s
      <4>1. stack[t].profiles = config[t].profiles
        BY <2>1 DEF Current, Agrees
      <4> QED BY <1>7, <3>1, <4>1, BootsTo
    <3>2. CASE t # s
      BY <1>7, <2>1, <3>2
    <3> QED BY <3>1, <3>2
  <2>4. Current(t)'
    BY <1>1, <1>4, <1>5, <2>1, <2>3 DEF Current
  <2>5. UserServed(t)'
    <3>1. t = s => ~(at = "persist" /\ t = Cur)
      BY <1>1 DEF Cur
    <3>2. t = s /\ at = "persist" => ~Changing(t)
      BY <3>1 DEF Changing
    <3> QED BY <1>1, <1>5, <2>1, <2>2, <2>3, <3>2 DEF UserServed
  <2> QED BY <2>4, <2>5
<1> QED BY <1>3, <1>4, <1>6, <1>8, <1>9 DEF IInv

\* The bundle is rendered from the rows, or the deploy is refused.
LEMMA RenderStep ==
  ASSUME IInv, RenderBundle
  PROVE  IInv'
<1>1. /\ at = "render" /\ op # "none" /\ todo # {} /\ users' = Materialized(Cur, Enabled)
      /\ UNCHANGED <<row, attached, stamped, hostVars, edits, faults>>
  BY KeysHaveParity DEF RenderBundle, IInv, Commanded
<1>2. LocalOK /\ CmdOK /\ HostOK /\ CountOK
  BY TypeParts DEF IInv
<1>3. Cur \in Servers /\ Cur \in Listed /\ Cur \in todo
  BY <1>1, <1>2, CurIn DEF IInv, Commanded
<1>4. users' \subseteq Servers /\ users' \ users \subseteq {Cur} /\ users \subseteq users'
  BY <1>1, <1>2, <1>3 DEF Materialized, LocalOK
<1>5. LocalOK' /\ HostOK'
  BY <1>1, <1>2, <1>4 DEF LocalOK, HostOK, hostVars
<1>6. /\ SameKeys' /\ RowsSound' /\ PoolsAgree' /\ Listed' = Listed
      /\ \A t : PoolOf(t)' = PoolOf(t) /\ IsAttached(t)' = IsAttached(t)
      /\ \A t : Renderable(t)' = Renderable(t)
      /\ \A t : ComposeOf(t)' = ComposeOf(t)
      /\ \A t, on : Rendered(t, on)' = Rendered(t, on)
      /\ \A t, cfg : Agrees(t, cfg)' = Agrees(t, cfg)
  BY <1>1, SameRows DEF IInv
<1>7. CASE /\ DeployAdmitted(Cur) /\ at' = "apply" /\ UNCHANGED <<op, arg, todo>>
           /\ bundle' = [config |-> Rendered(Cur, Materialized(Cur, Enabled)), compose |-> ComposeOf(Cur)]
           /\ clean' = clean \ (users' \ users)
  <2>1. Renderable(Cur)
    BY <1>7 DEF DeployAdmitted
  <2>2. bundle' \in [config : Configs, compose : Stacks]
    BY <1>2, <1>3, <1>7, <2>1, RenderedTyped DEF IInv
  <2>3. TypeOK'
    <3>1. CmdOK'
      BY <1>2, <1>7, <2>2 DEF CmdOK
    <3>2. CountOK'
      BY <1>1, <1>2, <1>7 DEF CountOK
    <3> QED BY <1>5, <3>1, <3>2, TypePartsNext
  <2>4. Commanded' /\ Handled'
    BY <1>1, <1>6, <1>7 DEF IInv, Commanded, Handled, DeployLabels
  <2>5. Cur' = Cur
    BY <1>7 DEF Cur
  <2>6. Deploying'
    BY <1>1, <1>6, <1>7, <2>1, <2>5 DEF Deploying
  <2>7. Deployed'
    <3> SUFFICES ASSUME NEW t \in clean' PROVE Current(t)' /\ UserServed(t)'
      BY DEF Deployed
    <3>1. t \in clean /\ (t \in users' <=> t \in users) /\ Current(t) /\ UserServed(t)
      BY <1>4, <1>7 DEF IInv, Deployed
    <3>2. Current(t)'
      BY <1>1, <1>6, <3>1 DEF Current, hostVars
    <3>3. UserServed(t)'
      BY <1>1, <1>7, <2>5, <3>1 DEF UserServed, Changing, UsersAt, hostVars
    <3> QED BY <3>2, <3>3
  <2> QED BY <1>6, <2>3, <2>4, <2>6, <2>7 DEF IInv
<1>8. CASE /\ End
           /\ clean' = clean \ ((users' \ users) \union IF op \in UserOps THEN todo ELSE {})
  <2>1. TypeOK'
    <3>1. CountOK'
      BY <1>1, <1>2, <1>8 DEF CountOK
    <3> QED BY <1>5, <1>8, <3>1, Ends, TypePartsNext
  <2>2. Deployed'
    <3>1. \A t \in clean' : /\ ~Changing(t) /\ ~Changing(t)'
                            /\ t \in users' <=> t \in users
      BY <1>3, <1>4, <1>8, Ends DEF Changing
    <3>2. TypeOK /\ Deployed /\ clean' \subseteq clean
      BY <1>8 DEF IInv
    <3> QED BY <1>1, <1>6, <3>1, <3>2, Undisturbed
  <2> QED BY <1>6, <1>8, <2>1, <2>2, Ends DEF IInv
<1> QED BY <1>1, <1>7, <1>8 DEF RenderBundle

\* The bundle is installed; the containers are still the old ones.
LEMMA ApplyStep ==
  ASSUME IInv, ApplyBundle
  PROVE  IInv'
<1>1. /\ at = "apply" /\ op # "none" /\ todo # {} /\ at' = "up" /\ clean' = clean \ {Cur}
      /\ config' = [config EXCEPT ![Cur] = bundle.config]
      /\ compose' = [compose EXCEPT ![Cur] = bundle.compose]
      /\ UNCHANGED <<op, arg, todo, bundle, localVars, stack, live, edits, faults>>
  BY DEF ApplyBundle, IInv, Commanded, Goto
<1>2. LocalOK /\ CmdOK /\ HostOK /\ CountOK
  BY TypeParts DEF IInv
<1>3. Cur \in Servers /\ Cur \in Listed
  BY <1>1, <1>2, CurIn DEF IInv, Commanded
<1>4. /\ bundle.config = Rendered(Cur, users) /\ bundle.compose = ComposeOf(Cur)
      /\ Renderable(Cur)
  BY <1>1 DEF IInv, Deploying
<1>5. bundle.config \in Configs /\ bundle.compose \in Stacks
  BY <1>2, <1>3, <1>4, RenderedTyped DEF IInv
<1>6. TypeOK'
  <2>1. HostOK'
    BY <1>1, <1>2, <1>5 DEF HostOK
  <2>2. CmdOK' /\ CountOK' /\ LocalOK'
    BY <1>1, <1>2 DEF CmdOK, CountOK, LocalOK, localVars
  <2> QED BY <2>1, <2>2, TypePartsNext
<1>7. /\ SameKeys' /\ RowsSound' /\ PoolsAgree' /\ Listed' = Listed
      /\ \A t : PoolOf(t)' = PoolOf(t)
      /\ \A t : Renderable(t)' = Renderable(t)
      /\ \A t : ComposeOf(t)' = ComposeOf(t)
      /\ \A t, on : Rendered(t, on)' = Rendered(t, on)
      /\ \A t, cfg : Agrees(t, cfg)' = Agrees(t, cfg)
  BY <1>1, SameRows DEF IInv, localVars
<1>8. Cur' = Cur /\ UNCHANGED <<row, users>>
  BY <1>1 DEF Cur, localVars
<1>9. Commanded' /\ Handled'
  BY <1>1, <1>7, <1>8 DEF IInv, Commanded, Handled, DeployLabels
<1>10. /\ config'[Cur] = bundle.config /\ compose'[Cur] = bundle.compose
       /\ \A t \in Servers \ {Cur} : config'[t] = config[t]
  BY <1>1, <1>2, <1>3 DEF HostOK
<1>11. Deploying'
  BY <1>1, <1>4, <1>7, <1>8, <1>10 DEF Deploying
<1>12. Deployed'
  <2> SUFFICES ASSUME NEW t \in clean' PROVE Current(t)' /\ UserServed(t)'
    BY DEF Deployed
  <2>1. t \in clean /\ t # Cur /\ t \in Servers /\ Current(t) /\ UserServed(t)
    BY <1>1, <1>2 DEF CountOK, IInv, Deployed
  <2>2. config'[t] = config[t] /\ live'[t] = live[t] /\ stack'[t] = stack[t]
    BY <1>1, <1>10, <2>1
  <2>3. Current(t)'
    BY <1>7, <1>8, <2>1, <2>2 DEF Current
  <2>4. UserServed(t)'
    BY <1>1, <1>8, <2>1, <2>2 DEF UserServed, Changing, UsersAt
  <2> QED BY <2>3, <2>4
<1> QED BY <1>6, <1>7, <1>9, <1>11, <1>12 DEF IInv

\* The containers are recreated from what was installed.
LEMMA UpStep ==
  ASSUME IInv, ComposeUp
  PROVE  IInv'
<1>1. /\ at = "up" /\ op # "none" /\ todo # {} /\ at' = "stamp" /\ Cur \notin clean
      /\ stack' = [stack EXCEPT ![Cur] = compose[Cur]]
      /\ live' = [live EXCEPT ![Cur] = Booted(config[Cur], compose[Cur])]
      /\ UNCHANGED <<op, arg, todo, bundle, localVars, config, compose, clean, edits, faults>>
  BY DEF ComposeUp, IInv, Commanded, Handled, Goto
<1>2. LocalOK /\ CmdOK /\ HostOK /\ CountOK
  BY TypeParts DEF IInv
<1>3. Cur \in Servers /\ Cur \in Listed
  BY <1>1, <1>2, CurIn DEF IInv, Commanded
<1>4. /\ config[Cur] = Rendered(Cur, users) /\ compose[Cur] = ComposeOf(Cur)
      /\ Renderable(Cur)
  BY <1>1 DEF IInv, Deploying
<1>5. Booted(config[Cur], compose[Cur]) = config[Cur]
  BY <1>4, BootsTo DEF Rendered, ComposeOf
<1>6. /\ stack'[Cur] = compose[Cur] /\ live'[Cur] = config[Cur]
      /\ \A t \in Servers \ {Cur} : stack'[t] = stack[t] /\ live'[t] = live[t]
  BY <1>1, <1>2, <1>3, <1>5 DEF HostOK
<1>7. TypeOK'
  <2>1. HostOK'
    BY <1>1, <1>2, <1>3, <1>5 DEF HostOK
  <2>2. CmdOK' /\ CountOK' /\ LocalOK'
    BY <1>1, <1>2 DEF CmdOK, CountOK, LocalOK, localVars
  <2> QED BY <2>1, <2>2, TypePartsNext
<1>8. /\ SameKeys' /\ RowsSound' /\ PoolsAgree' /\ Listed' = Listed
      /\ \A t : PoolOf(t)' = PoolOf(t)
      /\ \A t : Renderable(t)' = Renderable(t)
      /\ \A t : ComposeOf(t)' = ComposeOf(t)
      /\ \A t, on : Rendered(t, on)' = Rendered(t, on)
      /\ \A t, cfg : Agrees(t, cfg)' = Agrees(t, cfg)
  BY <1>1, SameRows DEF IInv, localVars
<1>9. Cur' = Cur /\ UNCHANGED <<row, users>>
  BY <1>1 DEF Cur, localVars
<1>10. Commanded' /\ Handled'
  BY <1>1, <1>8, <1>9 DEF IInv, Commanded, Handled, DeployLabels
<1>11. Deploying'
  BY <1>1, <1>4, <1>6, <1>8, <1>9 DEF Deploying
<1>12. Deployed'
  <2> SUFFICES ASSUME NEW t \in clean' PROVE Current(t)' /\ UserServed(t)'
    BY DEF Deployed
  <2>1. t \in clean /\ t # Cur /\ t \in Servers /\ Current(t) /\ UserServed(t)
    BY <1>1, <1>2 DEF CountOK, IInv, Deployed
  <2>2. config'[t] = config[t] /\ live'[t] = live[t] /\ stack'[t] = stack[t]
    BY <1>1, <1>6, <2>1
  <2>3. Current(t)'
    BY <1>8, <1>9, <2>1, <2>2 DEF Current
  <2>4. UserServed(t)'
    BY <1>1, <1>9, <2>1, <2>2 DEF UserServed, Changing, UsersAt
  <2> QED BY <2>3, <2>4
<1> QED BY <1>7, <1>8, <1>10, <1>11, <1>12 DEF IInv

\* A server is done: the command goes to the next one, or ends.
LEMMA NextServerStep ==
  ASSUME IInv, at \in {"stamp", "persist"}, NextServer(Cur), Listed' = Listed
  PROVE  /\ CmdOK' /\ Commanded' /\ Handled' /\ Deploying'
         /\ \A t : ~Changing(t)'
<1>1. /\ op # "none" /\ todo # {} /\ todo \subseteq Listed
      /\ op \in UserOps \/ \E t \in todo : todo = {t}
  BY DEF IInv, Commanded, DeployLabels
<1>2. CmdOK
  BY TypeParts DEF IInv
<1>3. Cur \in todo
  BY <1>1, <1>2, CurIn
<1>4. todo' = todo \ {Cur} /\ bundle' = NoBundle
  BY DEF NextServer
<1>5. CASE todo' = {} /\ op' = "none" /\ at' = "idle" /\ arg' = Reality
  <2>1. CmdOK'
    BY <1>2, <1>4, <1>5 DEF CmdOK, Profiles
  <2>2. Commanded' /\ Handled' /\ Deploying'
    BY <1>1, <1>5 DEF Commanded, Handled, Deploying, DeployLabels
  <2> QED BY <1>5, <2>1, <2>2 DEF Changing, UserOps
<1>6. CASE todo' # {} /\ at' = "user" /\ UNCHANGED <<op, arg>>
  <2>1. CmdOK'
    BY <1>2, <1>4, <1>6 DEF CmdOK
  <2>2. op \in UserOps
    BY <1>1, <1>3, <1>4, <1>6
  <2>3. Commanded' /\ Handled' /\ Deploying'
    BY <1>1, <1>4, <1>6, <2>2 DEF Commanded, Handled, Deploying, DeployLabels
  <2> QED BY <1>6, <2>1, <2>3 DEF Changing
<1> QED BY <1>5, <1>6 DEF NextServer

\* The deploy is complete: the server is as its row says.
LEMMA StampStep ==
  ASSUME IInv, StampDeploy
  PROVE  IInv'
<1>1. /\ at = "stamp" /\ op # "none" /\ todo # {} /\ NextServer(Cur)
      /\ stamped' = stamped \union {Cur} /\ clean' = clean \union {Cur}
      /\ UNCHANGED <<row, users, attached, hostVars, edits, faults>>
  BY DEF StampDeploy, IInv, Commanded
<1>2. LocalOK /\ CmdOK /\ HostOK /\ CountOK
  BY TypeParts DEF IInv
<1>3. Cur \in Servers /\ Cur \in Listed
  BY <1>1, <1>2, CurIn DEF IInv, Commanded
<1>4. /\ SameKeys' /\ RowsSound' /\ PoolsAgree' /\ Listed' = Listed
      /\ \A t : PoolOf(t)' = PoolOf(t)
      /\ \A t, cfg : Agrees(t, cfg)' = Agrees(t, cfg)
  BY <1>1, SameRows DEF IInv
<1>5. CmdOK' /\ Commanded' /\ Handled' /\ Deploying' /\ \A t : ~Changing(t)'
  BY <1>1, <1>4, NextServerStep
<1>6. TypeOK'
  <2>1. LocalOK' /\ HostOK' /\ CountOK'
    BY <1>1, <1>2, <1>3 DEF LocalOK, HostOK, CountOK, hostVars
  <2> QED BY <1>5, <2>1, TypePartsNext
<1>7. Deployed'
  <2> SUFFICES ASSUME NEW t \in clean' PROVE Current(t)' /\ UserServed(t)'
    BY DEF Deployed
  <2>1. CASE t = Cur
    <3>1. /\ config[t] = Rendered(t, users) /\ live[t] = Rendered(t, users)
          /\ stack[t] = ComposeOf(t)
      BY <1>1, <2>1 DEF IInv, Deploying
    <3>2. Agrees(t, config[t]) /\ Agrees(t, live[t])
      BY <1>2, <1>3, <2>1, <3>1, RenderedAgrees DEF IInv
    <3>3. stack[t].profiles = row[t].profiles /\ (t \in Proxies => PoolOf(t) \subseteq stack[t].pool)
      BY <3>1 DEF ComposeOf
    <3>4. Current(t)'
      BY <1>1, <1>3, <1>4, <2>1, <3>2, <3>3 DEF Current, hostVars
    <3>5. config[t].users = UsersAt(t) /\ live[t].users = UsersAt(t)
      BY <3>1, RenderedFields DEF UsersAt
    <3>6. UserServed(t)'
      BY <1>1, <3>5 DEF UserServed, UsersAt, hostVars
    <3> QED BY <3>4, <3>6
  <2>2. CASE t # Cur
    <3>1. t \in clean /\ Current(t) /\ UserServed(t)
      BY <1>1, <2>2 DEF IInv, Deployed
    <3>2. Current(t)'
      BY <1>1, <1>4, <3>1 DEF Current, hostVars
    <3>3. UserServed(t)'
      BY <1>1, <2>2, <3>1 DEF UserServed, Changing, UsersAt, hostVars
    <3> QED BY <3>2, <3>3
  <2> QED BY <2>1, <2>2
<1> QED BY <1>4, <1>5, <1>6, <1>7 DEF IInv

-----------------------------------------------------------------------------
(* Changes of the user.                                                    *)

\* A user command begins with all enabled servers still to do.
LEMMA UserCmdStep ==
  ASSUME IInv, NEW o \in UserOps, UserCmd(o)
  PROVE  IInv'
<1>1. /\ op = "none" /\ at = "idle" /\ todo = {} /\ Enabled # {} /\ o \in Ops
      /\ op' = o /\ todo' = Enabled /\ arg' = Reality /\ at' = "user"
      /\ edits < MaxEdits /\ edits' = edits + 1
      /\ UNCHANGED <<bundle, localVars, hostVars, clean, faults>>
  BY DEF UserCmd, Edit, Idle, Begin, IInv, Commanded
<1>2. LocalOK /\ CmdOK /\ HostOK /\ CountOK
  BY TypeParts DEF IInv
<1>3. Enabled \subseteq Servers /\ Enabled \subseteq Listed
  BY <1>2, ListedServers, EnabledListed
<1>4. TypeOK'
  <2>1. CmdOK'
    BY <1>1, <1>2, <1>3 DEF CmdOK, Profiles
  <2>2. CountOK'
    BY <1>1, <1>2, Constants DEF CountOK
  <2> QED BY <1>1, <1>2, <2>1, <2>2, TypePartsNext DEF LocalOK, HostOK, localVars, hostVars
<1>5. /\ SameKeys' /\ RowsSound' /\ PoolsAgree' /\ Listed' = Listed
      /\ \A t : PoolOf(t)' = PoolOf(t) /\ IsAttached(t)' = IsAttached(t)
  BY <1>1, SameRows DEF IInv, localVars
<1>6. Commanded'
  BY <1>1, <1>3, <1>5 DEF Commanded, UserOps, DeployLabels
<1>7. Handled' /\ Deploying'
  BY <1>1 DEF Handled, Deploying
<1>8. Deployed'
  <2>1. \A t : ~Changing(t) /\ ~Changing(t)'
    BY <1>1 DEF Changing, UserOps
  <2>2. TypeOK /\ Deployed /\ clean' \subseteq clean /\ UNCHANGED <<hostVars, users, row>>
    BY <1>1 DEF IInv, localVars
  <2> QED BY <1>5, <2>1, <2>2, Undisturbed
<1> QED BY <1>4, <1>5, <1>6, <1>7, <1>8 DEF IInv

\* The row and Xray change together; the file follows, or a deploy.
LEMMA ChangeUserStep ==
  ASSUME IInv, ChangeUser
  PROVE  IInv'
<1> DEFINE done == live[Cur] # NoConfig /\ (op = "user_add" => Added(Cur) = row[Cur].profiles)
<1>1. /\ at = "user" /\ op \in UserOps /\ op # "none" /\ todo # {}
      /\ users' = IF op = "user_add" THEN users \union {Cur} ELSE users \ {Cur}
      /\ live' = IF live[Cur] = NoConfig THEN live
                 ELSE IF op = "user_add" THEN [live EXCEPT ![Cur].users = @ \union Added(Cur)]
                                         ELSE [live EXCEPT ![Cur].users = @ \ Removed(Cur)]
      /\ at' = IF done THEN "persist" ELSE "render"
      /\ UNCHANGED <<op, arg, todo, bundle, row, attached, stamped, config, compose, stack,
                     clean, edits, faults>>
  BY DEF ChangeUser, Goto, IInv, Commanded
<1>2. LocalOK /\ CmdOK /\ HostOK /\ CountOK
  BY TypeParts DEF IInv
<1>3. Cur \in Servers /\ Cur \in todo
  BY <1>1, <1>2, CurIn
<1>4. /\ SameKeys' /\ RowsSound' /\ PoolsAgree' /\ Listed' = Listed
      /\ \A t : PoolOf(t)' = PoolOf(t)
      /\ \A t, cfg : Agrees(t, cfg)' = Agrees(t, cfg)
  BY <1>1, SameRows DEF IInv
<1>5. Cur' = Cur
  BY <1>1 DEF Cur
<1>6. at' \in {"persist", "render"} /\ (at' = "persist" => done)
  BY <1>1
<1>7. Commanded' /\ Handled' /\ Deploying'
  BY <1>1, <1>4, <1>6 DEF IInv, Commanded, Handled, Deploying, DeployLabels
<1>8. Added(Cur) \subseteq row[Cur].profiles /\ row[Cur].profiles \subseteq Profiles
      /\ Removed(Cur) = row[Cur].profiles
  BY <1>2, <1>3, RowFields DEF Added, Removed
<1>9. /\ \A t \in Servers \ {Cur} : live'[t] = live[t]
      /\ live[Cur] = NoConfig => live'[Cur] = live[Cur]
      /\ live[Cur] # NoConfig =>
           live'[Cur] = [live[Cur] EXCEPT !.users = IF op = "user_add" THEN @ \union Added(Cur)
                                                    ELSE @ \ row[Cur].profiles]
  BY <1>1, <1>2, <1>3, <1>8 DEF HostOK
<1>10. live[Cur] # NoConfig =>
         /\ live'[Cur] \in Configs
         /\ live'[Cur].users = IF op = "user_add" THEN live[Cur].users \union Added(Cur)
                               ELSE live[Cur].users \ row[Cur].profiles
         /\ live'[Cur].profiles = live[Cur].profiles /\ live'[Cur].ident = live[Cur].ident
         /\ live'[Cur].sni = live[Cur].sni /\ live'[Cur].pair = live[Cur].pair
         /\ live'[Cur].service = live[Cur].service /\ live'[Cur].relay = live[Cur].relay
  <2> SUFFICES ASSUME live[Cur] # NoConfig PROVE <1>10!2
    OBVIOUS
  <2>1. live[Cur] \in Configs
    BY <1>2, <1>3 DEF HostOK
  <2> QED BY <1>8, <1>9, <2>1 DEF Configs
<1>11. TypeOK'
  <2>1. LocalOK' /\ CmdOK' /\ CountOK'
    BY <1>1, <1>2, <1>3, <1>6 DEF LocalOK, CmdOK, CountOK
  <2>2. \A t \in Servers : live'[t] \in Configs \union {NoConfig}
    BY <1>2, <1>9, <1>10 DEF HostOK
  <2>3. live' \in [Servers -> Configs \union {NoConfig}]
    BY <1>1, <1>2, <2>2 DEF HostOK
  <2> QED BY <1>1, <1>2, <2>1, <2>3, TypePartsNext DEF HostOK
<1>12. Deployed'
  <2> SUFFICES ASSUME NEW t \in clean' PROVE Current(t)' /\ UserServed(t)'
    BY DEF Deployed
  <2>1. t \in clean /\ t \in Servers /\ Current(t) /\ UserServed(t)
    BY <1>1, <1>2 DEF CountOK, IInv, Deployed
  <2>2. config[t].users = UsersAt(t) /\ live[t].users = UsersAt(t)
    BY <1>1, <2>1 DEF UserServed, Changing
  <2>3. CASE t # Cur
    <3>1. live'[t] = live[t] /\ UsersAt(t)' = UsersAt(t)
      BY <1>1, <1>9, <2>1, <2>3 DEF UsersAt
    <3>2. Current(t)'
      BY <1>1, <1>4, <2>1, <3>1 DEF Current
    <3>3. UserServed(t)'
      BY <1>1, <2>2, <3>1 DEF UserServed
    <3> QED BY <3>2, <3>3
  <2>4. CASE t = Cur
    <3>1. live[Cur] # NoConfig
      <4>1. row[Cur].ident \in Idents
        BY <1>2, <2>1, <2>4, RowFields DEF Current
      <4>2. live[Cur].ident # None
        BY <2>1, <2>4, <4>1, Constants DEF Current, Agrees
      <4> QED BY <4>2 DEF NoConfig
    <3>2. Agrees(t, live'[t])
      BY <1>10, <2>1, <2>4, <3>1 DEF Current, Agrees
    <3>3. Current(t)'
      BY <1>1, <1>4, <2>1, <3>2 DEF Current
    <3>4. Changing(t)'
      BY <1>1, <1>5, <1>6, <2>4 DEF Changing
    <3>5. ASSUME at' = "persist" PROVE live'[t].users = UsersAt(t)'
      <4>1. CASE op = "user_add"
        <5>1. Added(Cur) = row[Cur].profiles
          BY <1>6, <3>5, <4>1
        <5>2. live'[t].users = row[t].profiles
          BY <1>10, <2>2, <2>4, <3>1, <4>1, <5>1 DEF UsersAt
        <5>3. t \in users'
          BY <1>1, <2>4, <4>1
        <5> QED BY <1>1, <5>2, <5>3 DEF UsersAt
      <4>2. CASE op # "user_add"
        <5>1. live'[t].users = {}
          BY <1>10, <2>2, <2>4, <3>1, <4>2 DEF UsersAt
        <5>2. t \notin users'
          BY <1>1, <2>4, <4>2
        <5> QED BY <5>1, <5>2 DEF UsersAt
      <4> QED BY <4>1, <4>2
    <3> QED BY <3>3, <3>4, <3>5 DEF UserServed
  <2> QED BY <2>3, <2>4
<1> QED BY <1>4, <1>7, <1>11, <1>12 DEF IInv

\* The file follows; a refusal ends the command with the other servers untouched.
LEMMA PersistStep ==
  ASSUME IInv, PersistConfig
  PROVE  IInv'
<1>1. /\ at = "persist" /\ op # "none" /\ todo # {}
      /\ UNCHANGED <<localVars, compose, stack, live, edits, faults>>
  BY DEF PersistConfig, IInv, Commanded
<1>2. LocalOK /\ CmdOK /\ HostOK /\ CountOK
  BY TypeParts DEF IInv
<1>3. Cur \in Servers /\ Cur \in Listed /\ Cur \in todo
  BY <1>1, <1>2, CurIn DEF IInv, Commanded
<1>4. /\ SameKeys' /\ RowsSound' /\ PoolsAgree' /\ Listed' = Listed
      /\ \A t : PoolOf(t)' = PoolOf(t) /\ IsAttached(t)' = IsAttached(t)
      /\ \A t, cfg : Agrees(t, cfg)' = Agrees(t, cfg)
  BY <1>1, SameRows DEF IInv, localVars
<1>5. CASE /\ Renderable(Cur) /\ config' = [config EXCEPT ![Cur] = Rendered(Cur, users)]
           /\ NextServer(Cur) /\ UNCHANGED clean
  <2>1. CmdOK' /\ Commanded' /\ Handled' /\ Deploying' /\ \A t : ~Changing(t)'
    BY <1>1, <1>4, <1>5, NextServerStep
  <2>2. Rendered(Cur, users) \in Configs
    BY <1>2, <1>3, <1>5, RenderedTyped DEF IInv
  <2>3. TypeOK'
    <3>1. HostOK'
      BY <1>1, <1>2, <1>5, <2>2 DEF HostOK
    <3>2. LocalOK' /\ CountOK'
      BY <1>1, <1>2, <1>5 DEF LocalOK, CountOK, localVars
    <3> QED BY <2>1, <3>1, <3>2, TypePartsNext
  <2>4. config'[Cur] = Rendered(Cur, users) /\ \A t \in Servers \ {Cur} : config'[t] = config[t]
    BY <1>2, <1>3, <1>5 DEF HostOK
  <2>5. Deployed'
    <3> SUFFICES ASSUME NEW t \in clean' PROVE Current(t)' /\ UserServed(t)'
      BY DEF Deployed
    <3>1. t \in clean /\ t \in Servers /\ Current(t) /\ UserServed(t)
      BY <1>2, <1>5 DEF CountOK, IInv, Deployed
    <3>2. live[t].users = UsersAt(t)
      BY <1>1, <3>1 DEF UserServed
    <3>3. Agrees(t, config'[t]) /\ config'[t].users = UsersAt(t)
      <4>1. CASE t = Cur
        <5>1. Agrees(t, Rendered(t, users))
          BY <1>2, <3>1, RenderedAgrees DEF IInv
        <5>2. Rendered(t, users).users = UsersAt(t)
          BY RenderedFields DEF UsersAt
        <5> QED BY <2>4, <4>1, <5>1, <5>2
      <4>2. CASE t # Cur
        BY <2>4, <3>1, <4>2 DEF Current, UserServed, Changing
      <4> QED BY <4>1, <4>2
    <3>4. Current(t)'
      BY <1>1, <1>4, <3>1, <3>3 DEF Current, localVars
    <3>5. UserServed(t)'
      BY <1>1, <3>2, <3>3 DEF UserServed, UsersAt, localVars
    <3> QED BY <3>4, <3>5
  <2> QED BY <1>4, <2>1, <2>3, <2>5 DEF IInv
<1>6. CASE End /\ clean' = clean \ todo /\ UNCHANGED config
  <2>1. TypeOK'
    <3>1. LocalOK' /\ HostOK' /\ CountOK'
      BY <1>1, <1>2, <1>6 DEF LocalOK, HostOK, CountOK, localVars
    <3> QED BY <1>6, <3>1, Ends, TypePartsNext
  <2>2. Deployed'
    <3>1. \A t \in clean' : ~Changing(t) /\ ~Changing(t)'
      BY <1>3, <1>6, Ends DEF Changing
    <3>2. TypeOK /\ Deployed /\ clean' \subseteq clean /\ UNCHANGED <<hostVars, users, row>>
      BY <1>1, <1>6 DEF IInv, localVars, hostVars
    <3> QED BY <1>4, <3>1, <3>2, Undisturbed
  <2> QED BY <1>4, <1>6, <2>1, <2>2, Ends DEF IInv
<1> QED BY <1>5, <1>6 DEF PersistConfig

-----------------------------------------------------------------------------
(* The invariant, and what follows from it.                                *)

\* What Init says of each server: its row can be rendered, and was.
LEMMA InitHolds == Init => IInv
<1> SUFFICES ASSUME Init PROVE IInv
  OBVIOUS
<1> DEFINE first == Min(Vpns)
<1>1. PICK v, x \in Idents, n \in Names, k \in ServiceIds :
        /\ v # x
        /\ row = [s \in Servers |->
                    [enabled |-> TRUE, primary |-> Reality, profiles |-> {Reality},
                     ident |-> IF s \in Vpns THEN v ELSE x, sni |-> n, pair |-> None,
                     service |-> IF s = Min(Vpns) THEN k ELSE None]]
  BY Zenon DEF Init
<1>2. /\ users = {} /\ attached = Proxies \X {first} /\ stamped = Servers
      /\ op = "none" /\ arg = Reality /\ todo = {} /\ at = "idle" /\ bundle = NoBundle
      /\ config = [s \in Servers |-> Rendered(s, users)] /\ live = config
      /\ compose = [s \in Servers |-> ComposeOf(s)] /\ stack = compose
      /\ clean = Servers /\ edits = 0 /\ faults = 0
  BY DEF Init
<1>2a. first = Min(Vpns)
  OBVIOUS
<1>3. first \in Vpns /\ first \in Servers
  BY FirstIn, Constants DEF Servers
<1> HIDE DEF first
<1>4. \A s \in Servers :
        /\ row[s] \in Rows /\ row[s].enabled /\ row[s].profiles = {Reality}
        /\ row[s].ident = (IF s \in Vpns THEN v ELSE x) /\ row[s].pair = None
        /\ row[s].service = (IF s = first THEN k ELSE None)
  BY <1>1, <1>2a DEF Rows, Profiles
<1>5. k # None
  BY Constants
<1>6. LocalOK
  BY <1>1, <1>2, <1>3, <1>4 DEF LocalOK
<1>7. Enabled = Servers /\ Listed = Servers
  BY <1>4, <1>6, RowFields DEF Enabled, Listed
<1>8. SameKeys
  BY <1>4, <1>7, Constants DEF SameKeys, Servers
<1>9. RowsSound
  BY <1>4, <1>7 DEF RowsSound, On443, Reality, SelfSni, VlessEnc
<1>10. \A a \in attached : a[1] \in Servers /\ a[2] = first
  BY <1>2 DEF Servers
<1>11. PoolsAgree
  BY <1>3, <1>4, <1>5, <1>7, <1>10 DEF PoolsAgree
<1>12. \A s \in Proxies : PoolOf(s) = {first}
  BY <1>2, <1>3 DEF PoolOf
<1>13. \A s : IsAttached(s) => s = first
  BY <1>2 DEF IsAttached
<1>14. \A s \in Servers : Renderable(s)
  <2> SUFFICES ASSUME NEW s \in Servers PROVE Renderable(s)
    OBVIOUS
  <2>1. ~(On443 \subseteq row[s].profiles) /\ VlessEnc \notin row[s].profiles
    BY <1>4 DEF On443, Reality, SelfSni, VlessEnc
  <2>2. IsAttached(s) => row[s].service # None
    BY <1>4, <1>5, <1>13
  <2>3. s \in Proxies => Compatible(row, PoolOf(s)) /\ \A b \in PoolOf(s) : row[b].service # None
    BY <1>3, <1>4, <1>5, <1>12 DEF Compatible
  <2> QED BY <2>1, <2>2, <2>3 DEF Renderable
<1>15. TypeOK
  <2>1. \A s \in Servers : Rendered(s, users) \in Configs /\ ComposeOf(s) \in Stacks
    BY <1>6, <1>7, <1>11, <1>14, RenderedTyped
  <2>2. HostOK
    BY <1>2, <2>1 DEF HostOK
  <2>3. CmdOK
    BY <1>2 DEF CmdOK, Profiles
  <2>4. CountOK
    BY <1>2, Constants DEF CountOK
  <2> QED BY <1>6, <2>2, <2>3, <2>4, TypeParts
<1>16. Commanded /\ Handled /\ Deploying
  BY <1>2 DEF Commanded, Handled, Deploying, DeployLabels
<1>17. Deployed
  <2> SUFFICES ASSUME NEW s \in clean PROVE Current(s) /\ UserServed(s)
    BY DEF Deployed
  <2>1. /\ s \in Servers /\ config[s] = Rendered(s, users) /\ live[s] = Rendered(s, users)
        /\ stack[s] = ComposeOf(s)
    BY <1>2
  <2>2. Agrees(s, Rendered(s, users))
    BY <1>6, <1>11, <2>1, RenderedAgrees
  <2>3. Current(s)
    BY <1>7, <2>1, <2>2 DEF Current, ComposeOf
  <2>4. UserServed(s)
    BY <2>1, RenderedFields DEF UserServed, UsersAt
  <2> QED BY <2>3, <2>4
<1> QED BY <1>8, <1>9, <1>11, <1>15, <1>16, <1>17 DEF IInv

\* Every step of a command, and every restart, keeps the invariant.
LEMMA NextStep == IInv /\ [Next]_vars => IInv'
<1> SUFFICES ASSUME IInv, [Next]_vars PROVE IInv'
  OBVIOUS
<1>1. CASE EditServer
  BY <1>1, ServerAddStep, TargetStep, CleanupStep, AttachStep, DetachStep, ProfileCmdStep
     DEF EditServer
<1>2. CASE EditSteps
  BY <1>2, EnsurePairStep, EditProfilesStep, ForgetStep DEF EditSteps
<1>3. CASE \E s \in Servers : Deploy(s) \/ XrayRestart(s)
  BY <1>3, DeployStep, RestartStep
<1>4. CASE DeploySteps
  BY <1>4, RenderStep, ApplyStep, UpStep, StampStep DEF DeploySteps
<1>5. CASE \E o \in UserOps : UserCmd(o)
  BY <1>5, UserCmdStep
<1>6. CASE UserSteps
  BY <1>6, ChangeUserStep, PersistStep DEF UserSteps
<1>7. CASE BreakOff
  BY <1>7, BreakOffStep
<1>8. CASE UNCHANGED vars
  <2>1. UNCHANGED <<row, users, attached, stamped, op, arg, todo, at, bundle,
                    config, compose, stack, live, clean, edits, faults>>
    BY <1>8 DEF vars, localVars, cmdVars, hostVars
  <2>2. /\ SameKeys' /\ RowsSound' /\ PoolsAgree' /\ Listed' = Listed
        /\ \A t : PoolOf(t)' = PoolOf(t) /\ Renderable(t)' = Renderable(t)
        /\ \A t : ComposeOf(t)' = ComposeOf(t)
        /\ \A t, on : Rendered(t, on)' = Rendered(t, on)
        /\ \A t, cfg : Agrees(t, cfg)' = Agrees(t, cfg)
    BY <2>1, SameRows DEF IInv
  <2>3. Cur' = Cur
    BY <2>1 DEF Cur
  <2>4. TypeOK'
    BY <2>1, TypeParts, TypePartsNext DEF IInv, LocalOK, CmdOK, HostOK, CountOK
  <2>5. Commanded' /\ Handled' /\ Deploying'
    BY <2>1, <2>2, <2>3 DEF IInv, Commanded, Handled, Deploying
  <2>6. \A t : Changing(t)' = Changing(t) /\ UsersAt(t)' = UsersAt(t)
    BY <2>1, <2>3 DEF Changing, UsersAt
  <2>7. Deployed'
    BY <2>1, <2>2, <2>6 DEF IInv, Deployed, Current, UserServed
  <2> QED BY <2>2, <2>4, <2>5, <2>7 DEF IInv
<1> QED BY <1>1, <1>2, <1>3, <1>4, <1>5, <1>6, <1>7, <1>8 DEF Next

LEMMA Invariance == Spec => []IInv
BY InitHolds, NextStep, PTL DEF Spec

\* The variables keep their types: servers that share keys only ever have keys, what
\* is on a host is always something that was rendered, or nothing.
THEOREM TypeCorrect == Spec => []TypeOK
<1>1. IInv => TypeOK
  BY DEF IInv
<1> QED BY <1>1, Invariance, PTL

\* Whatever the operator edits, in whatever order, and wherever commands break off:
\* initOrDeployServer finds the keys of the servers equal and the row of an enabled
\* server fit to be rendered.
THEOREM DeploysAdmitted == Spec => []DeployIsAdmitted
<1>1. ASSUME IInv PROVE DeployIsAdmitted
  <2> SUFFICES ASSUME NEW s \in Enabled, s \in Proxies => PoolOf(s) # {},
                      s \in stamped => AgentUp(s)
               PROVE  DeployAdmitted(s)
    BY DEF DeployIsAdmitted
  <2>1. LocalOK
    BY <1>1, TypeParts DEF IInv
  <2>2. s \in Listed
    BY <2>1, EnabledListed
  <2>3. KeyParity
    BY <1>1, KeysHaveParity DEF IInv
  <2>4. ~(On443 \subseteq row[s].profiles) /\ (VlessEnc \in row[s].profiles => s \in Vpns /\ row[s].pair # None)
    BY <1>1, <2>2 DEF IInv, RowsSound
  <2>5. IsAttached(s) => row[s].service # None
    BY <1>1 DEF IInv, PoolsAgree, IsAttached
  <2>6. ASSUME s \in Proxies
        PROVE  Compatible(row, PoolOf(s)) /\ \A b \in PoolOf(s) : row[b].service # None
    <3>1. PoolOf(s) # {}
      BY <2>6
    <3>2. \A b \in PoolOf(s) : <<s, b>> \in attached
      BY DEF PoolOf
    <3> QED BY <1>1, <3>1, <3>2 DEF IInv, PoolsAgree, Compatible
  <2>7. Renderable(s)
    BY <2>4, <2>5, <2>6 DEF Renderable
  <2> QED BY <2>3, <2>7 DEF DeployAdmitted
<1> QED BY <1>1, Invariance, PTL

\* Between commands a deployed server accepts every link of a user it has, with the
\* keys that the link gives, and serves nobody else, whatever happened since to other
\* servers and however often Xray was restarted.
THEOREM LinksServed == Spec => []ServesItsUsers
<1>1. ASSUME IInv PROVE ServesItsUsers
  <2> SUFFICES ASSUME Idle, NEW s \in clean
               PROVE  IF s \in users THEN LinksWork(s) ELSE UserIsOut(s)
    BY DEF ServesItsUsers
  <2>1. ~Changing(s)
    BY DEF Idle, Changing, UserOps
  <2>2. Current(s) /\ config[s].users = UsersAt(s) /\ live[s].users = UsersAt(s)
    BY <1>1, <2>1 DEF IInv, Deployed, UserServed
  <2>3. CASE s \in users
    <3> SUFFICES ASSUME NEW p \in row[s].profiles PROVE Accepts(s, Link(s, p))
      BY <2>3 DEF LinksWork
    <3>1. Open(s, p)
      BY <2>2 DEF Current, Agrees, Open
    <3>2. p \in live[s].users
      BY <2>2, <2>3 DEF UsersAt
    <3>3. p = Reality => row[s].ident = live[s].ident /\ row[s].sni = live[s].sni
      BY <2>2 DEF Current, Agrees
    <3>4. p = VlessEnc => row[s].pair = live[s].pair
      BY <2>2 DEF Current, Agrees
    <3> QED BY <3>1, <3>2, <3>3, <3>4 DEF Accepts, Link
  <2>4. CASE s \notin users
    BY <2>2, <2>4 DEF UsersAt, UserIsOut
  <2> QED BY <2>3, <2>4
<1> QED BY <1>1, Invariance, PTL

\* Between commands the outbound of a deployed proxy is accepted by each of its
\* backends, if these are deployed too and their REALITY name is the first one's.
THEOREM RelaysReach == Spec => []RelayReaches
<1>1. ASSUME IInv PROVE RelayReaches
  <2> SUFFICES ASSUME NEW p \in clean \intersect Proxies, PoolOf(p) \subseteq clean,
                      NEW b \in PoolOf(p)
               PROVE  RelayAccepted(p, b)
    BY DEF RelayReaches
  <2>1. Current(p) /\ Current(b)
    BY <1>1 DEF IInv, Deployed
  <2>2. <<p, b>> \in attached /\ b \in Vpns
    BY DEF PoolOf
  <2>3. Reality \in row[b].profiles /\ row[b].service # None /\ IsAttached(b)
    BY <1>1, <2>2 DEF IInv, PoolsAgree, IsAttached
  <2>4. b \in stack[p].pool
    BY <2>1 DEF Current
  <2>5. Open(b, Reality)
    BY <2>1, <2>3 DEF Current, Agrees, Open, On443
  <2>6. live[p].relay.ident = live[b].ident
    BY <2>1 DEF Current, Agrees
  <2>7. live[p].relay.service = row[b].service /\ live[b].service = row[b].service
    BY <2>1, <2>2, <2>3 DEF Current, Agrees
  <2> QED BY <2>3, <2>4, <2>5, <2>6, <2>7 DEF RelayAccepted
<1> QED BY <1>1, Invariance, PTL
=============================================================================
