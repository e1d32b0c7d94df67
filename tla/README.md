# Formal model of ovpn

ovpn manages Xray VPN servers. An operator's machine runs the CLI `ovpn`, which
keeps one row per user and server in a local SQLite database and deploys, over
SSH, a stack of containers to each server: Xray, which lets users in, and
`ovpn-agent`, which counts traffic, enforces quotas and expiry dates through
Xray's API, and reports how users connect; `ovpn-telegram-bot`, next to it, takes
the owner's commands and passes alerts on. This directory holds TLA+ models of the
parts of ovpn that decide who may connect, what is counted, what is installed on a
host and what the owner is told, TLC runs that check them, and TLAPS proofs of all
safety properties that the runs check on small instances. `PROJECT.json`
maps every definition to the lines it stands for.

    tlc -workers 2 -config collector.cfg MCTrafficCollector
    tlapm TrafficCollectorProofs.tla

## 1. Inventory

| Component (source) | State | Operations | Talks to |
|---|---|---|---|
| Stats collector (`internal/stats/collector.go`, `delta.go`) | a mutex; tables `counter_state`, `user_traffic_{hourly,daily,total}` | `CollectOnce`, run by a ticker and by `POST /collect` | Xray's counters; the two enforcers, which end each cycle |
| Quota enforcer (`internal/stats/quota.go`) | table `quota_state` | `Enforce`: block who is over its quota, unblock who is not any more | policies and usage in the database; Xray |
| Expiry enforcer (`internal/stats/expiry.go`) | none of its own | `Enforce`: remove who is disabled or expired | table `user_policy`; Xray |
| Agent HTTP routes (`cmd/ovpn-agent`) | the mirrored policies | `/quota/sync`, `/users/sync`, `/quota/reset`, `/runtime/user/add`, `/runtime/user/remove`, `/diagnostics/debug/*`, reports | the CLI; everything above |
| Runtime gateway, Xray client | a mutex per call | add and remove a user at an inbound, query counters | Xray's gRPC API |
| Access log tailer (`internal/diagnostics`) | offset, partial line, batch | read, parse, batch, flush, truncate | Xray's log; `RecordConnectionEvents` |
| Diagnostics store (`internal/store/remote/diagnostics.go`) | aggregates, source buckets, debug sessions, captured events | record a batch, start and stop a session, clean up | the tailer; debug handlers |
| CLI user mutations (`internal/cli/user_*.go`, `global_users.go`, `runtime_helpers.go`) | local rows; `config.json` of each server | add, rm, enable, disable, expiry, quota, reconcile | agents over SSH; deploy |
| Server lifecycle and deploy (`internal/cli/server_cmd_*.go`, `internal/deploy`) | registered servers, `last_deploy_at` | add, init, deploy, restart, cleanup | hosts over SSH |
| Profiles, backends, keys (`internal/cli/server_cmd_profiles.go`, `proxy_helpers.go`, `vless_encryption.go`) | server rows, pools of proxies | enable, disable, switch; attach, detach; set a target | local store; the next deploy |
| Bundle renderer (`internal/xraycfg`, `internal/deploy/bundle.go`) | none | rows to `config.json`, compose and HAProxy files, links | deploy, user mutations |
| Host scripts (`internal/deploy/deploy.go`, `internal/backup`) | on each host `/opt/ovpn`, the staging and backup directories, containers, Telegram secrets | deploy, telegram-setup, monitoring up and down, backup, restore, restart, cleanup | SSH; docker compose |
| Telegram bot, interactive (`cmd/ovpn-telegram-bot`) | poll offset, batch in hand, prompts and confirmations, all in memory | long polling, menus, restart and heal with verification, links | Telegram; the agent; Docker |
| Telegram bot, notifying (`bot_http.go`) | list of notify chats | relay `POST /alertmanager` and `POST /notify` to the chats | Alertmanager, the agent, the CLI; Telegram |
| Doctor, reports, metrics | none | read and print | SSH; the agent |

What is hard here, and what each part must get right:

- **Xray forgets.** Counters and users live in its memory; a restart loses both
  and reads `config.json`. *Collector*: bill every byte at most once; lose only
  what a restart loses. *Enforcement*: a blocked user stays out.
- **No lock spans two statements.** The collector's passes, the startup pass and
  one goroutine per request read tables and act on them a few calls later.
- **Calls fail halfway.** `RemoveUser` and `SetQuotaBlocked` are two systems'
  effects; rows of one user at several inbounds are handled one by one. Blocks
  must be set and lifted in the end nevertheless.
- **Two writers of one file.** Xray appends to the log that the tailer reads and
  truncates. Lines must not be counted twice, and hardly any may be lost.
- **Caches in a transaction.** Session lists and bucket counts are read before
  the writes that rely on them; the caps must hold.
- **One command, many servers.** A change visits the servers in turn and stops at
  the first error; a fast path and a full deploy compete; each remote call may
  fail after its effect. Where a change was completed, what is served must be what
  is recorded, and servers must agree.

- **Rows, files, containers.** A command edits rows; a deploy makes files and
  containers of them; a user change rewrites one of the files and touches the
  live Xray. A restart at any time starts what is in the files. Whatever was
  edited in between, rows must stay deployable and links must work.
- **Scripts over a connection that breaks.** A deploy replaces the directory that
  also holds the only copy of two secrets, and snapshots and archives share one
  directory whose pruning goes by names. There must be a way back, and a command
  that reports success must have done its work, reboots included.
- **Messages at least once, memory that a crash clears.** Telegram repeats updates
  and Alertmanager notifications. Nothing may run that the owner did not ask for
  and confirm, nothing may be lost, one dead chat or service must not stop the rest.

`PROJECT.json` lists the hazards one by one, at their lines.

## 2. Modules

| Module | Models | Its state and actions in the code |
|---|---|---|
| `TrafficLedger` | abstract | `sent` and `billed` per counter: bytes cross, bytes that crossed are billed, never more |
| `AccessControl` | abstract | `live`, `blocked`, `over`: a user is let in or struck off the record only while it is on record and within its quota, put on record only while it is out; no measurement between the two steps that let it in brings it over its quota |
| `TrafficCollector` | collector and its tables | a `pc` per caller (the ticker, each `POST /collect`); `Lock`, `Query`, `ReadCounter` (`GetCounterState` and `computeDelta`), `MarkReset`, `AddDeltaAndAdvanceCounter` (one transaction), `Finish`; `Fail` is every error return |
| `AgentEnforcement` | enforcers, gateway and policy routes | `pc[collector]` runs the quota pass and then the expiry pass; `pc[startup]` the expiry pass of `main`; each request has its own `pc`. One action per statement or API call |
| `AccessLogTailer` | tailer | `Run`'s select is the state "select"; `ReadTick` to `ReadDone` are `readNewEvents` and `parseChunk`; `FlushBatch` is one transaction |
| `ConnectionDiagnostics` | diagnostics tables | `FlushActive`, `FlushCounts`, `FlushCommit` are `RecordConnectionEvents`; `CleanEvents`, `CleanSessions`, `CleanOld` the cleanup; the two debug handlers |
| `UserRollout` | CLI mutations on several servers | one action per step on the current server: row, quota status, runtime add or remove, or materialise; render, install, `/users/sync`, `/quota/sync`; the agent is reduced to what the command meets |
| `ServerFleet` | server rows, deploys, links | `row`, `attached` are tables; `config`, `compose` files; `stack`, `live` the containers. One action per command that only edits; `EnsurePair`, `EditProfiles` are the two writes of a profile command; `RenderBundle` to `StampDeploy` a deploy; `ChangeUser`, `PersistConfig` a user change on one server |
| `HostDeploy` | the scripts on one host | `live` (if it is `there`), `stage`, `shelf` are the directories, `run` the containers, `saved` the secrets in `/tmp`, `cli` the command with its next script. One action per script, or per part of one that a cut separates: `Upload`, `Snapshot`, `Validate`, `SaveSecrets`, `CopyStage`, `KeepSecrets`, `Up` are a deploy; `UploadToken` to `AwaitBot` telegram-setup; `Archive`, `Record`, `Clear`, `Unpack` backup and restore; `Down`, `RemoveStack`, `Wipe` a cleanup; `TakeDown` is a `docker compose ... \|\| true`, which may fail unnoticed. `Cut*` and `Reboot` are what may happen in between |
| `TelegramBot` | poll loop and its commands | `sent`, `forgotten` are Telegram's queue; `Fetch` and `LoseAnswer` are `getUpdates`, `Take` the loop over a batch with its offset; `AskAction`, `Confirm`, `Cancel`, `Decline`, `Expire` the confirmation; `Restart`, `Watch`, `Report` the restart of one service after another |
| `AlertDelivery` | webhooks and notify chats | a record per handler that runs; `Begin` reads `notifyChats`, `Send` is one turn of the loop in `sendToNotifyChats`, `Answer` the 200 or 502; `Register` and `Registered` are the two ends of the unlocked append |
| `TrafficCollectorProofs`, `AgentEnforcementProofs`, `UserRolloutProofs`, `ServerFleetProofs`, `HostDeployProofs`, `TelegramBotProofs`, `AlertDeliveryProofs`, `ConnectionDiagnosticsProofs` | proofs | the inductive invariant of the module that each is named after, a lemma per action, the theorems of section 5; `ConnectionDiagnosticsProofs` has those of `AccessLogTailer`, too |
| `MCTrafficCollector`, `MCAgentEnforcement`, `MCServerFleet`, `MCTelegramBot`, `MCAlertDelivery` | constants for TLC | sets of users, updates and lists of chats, symmetry |

How they fit: `TrafficCollector` implements `TrafficLedger` (`LedgerSpec`, `billed` is
`user_traffic_total`), and `AgentEnforcement` implements `AccessControl`
(`AccessSpec`: `live` are the users with a row in Xray's memory, `over` those whose
usage has reached the quota). `AgentEnforcement` takes the billing of a cycle as one
action (`Bill`), because `TrafficCollector` has shown what it bills, and treats ticker
and `/collect` as one process because of its mutex. `AccessLogTailer` takes the tables
of a flush as one transaction, whose inside is `ConnectionDiagnostics`; the two name
their states differently (`TailerInit`, `collected`), so that one module can hold the
proofs about both. `UserRollout` keeps of `AgentEnforcement` the handlers' outcome and
lets the agent block, unblock and expire a user at any moment. `ServerFleet` keeps of
`UserRollout` that a user is there or not, and adds the inbounds, keys and files that
`UserRollout` takes as one thing that works. `HostDeploy` opens the step that both
take as "the bundle is installed, or the deploy breaks off". The bot's two modules
share its memory of chats, which `TelegramBot` leaves to `AlertDelivery`. The modules
are checked separately: their product is far beyond TLC, and they meet in few
variables.

Names follow the code where they can. An operator whose comment says *Mutant* is
a plausible mistake in the definition it stands before; no specification uses
it. Substituting it must break a property, which shows that the property depends
on that code.

## 3. Runs

| Run | Instance | Shows |
|---|---|---|
| `collector` | one user (two counters) of up to 2 bytes, the ticker and one POST, three hours in days of two hours; one restart, one crash, one error | `NoOverBilling`, `NothingLostButByRestart`, `WindowsAgree`, the refinement `LedgerSpec`, under every interleaving; `EverythingBilled` under fairness |
| `enforce_faults` | one user at two inbounds, one request of any of six kinds, one fault of any of four kinds | `BlocksFollowUsage` (`QuotaIsEnforced` and `BlocksAreLifted`), `ExpiryUnlessWedged` under fairness |
| `enforce_access` | two users at one inbound, one failing API call, one request of three kinds that add nobody | the refinement `AccessSpec`, which implies `BlockedIsOffline`; `AccessComesBack` under fairness |
| `tailer` | five lines, a log capped at one line, batches of two, two faults of any kind, a failing truncation among them | `NothingTwice`, `LossIsBounded`, `UnreadIsRecorded` |
| `diagnostics` | one user and two networks for one bucket, two sessions that hold one event, one failing statement | `LimitsHold` (`DebugCapHolds` and `SourcesAccounted`), `ExpiredIsCleaned` |
| `rollout` | two servers, two UUIDs, four commands of any of thirteen kinds, two failed calls or interruptions, one quota block | `ServedAsRecorded`, `SettledServersAgree`, `OnlyReconcileMixesIdentities` |
| `fleet` | two VPN servers and a proxy, all four profiles, any three commands of ten kinds (a command that breaks off takes the place of one), any number of deploys and restarts | `DeployIsAdmitted`, `ServesItsUsers`, `RelayReaches` |
| `host` | one host, two entries kept, four commands of any kind, three bundles, two bot tokens and two admin tokens, three archives, two cuts, swallowed failures or reboots | `RefusedNeverRuns`, `WayBack`, `ArchivesKept`, `SecretsKept`, `SuccessIsReal` |
| `bot` | three updates of nine kinds, two services and Xray, one check before the deadline, two crashes or failures | `OnlyAsked` (`OnlyConfirmedRuns` and `OnlyAskedLinks`), `ForgottenIsHandled`; `EveryUpdateHandled` under fairness |
| `alerts` | an alert that changes twice, one event, two handlers, two chats, one chat that refuses and the owner's, two faults | `AcceptedIsDelivered`, `DuplicatesHaveACause`; `EveryAlertArrives` under fairness |
| `finding_rm_revived` | two servers, three commands, one failed call | `RemovedIsGone` is violated (section 6) |
| `finding_over_quota` | one user at two inbounds, one failing API call or one restart of Xray | `OverQuotaIsCutOff` is violated (section 6) |

**Why the bounds are enough.** Each is chosen so that the case that matters can
happen and happen next to another one. Two collectors suffice for a mutex. Two
bytes and one restart let a counter be below, at and above its stored value after a
restart. Three hours in days of two let a cycle start in one day and end in the
next. A user at two inbounds is what one `quota_state` row cannot tell apart, two
users are what a pass can confuse or starve; the billing of a cycle treats two users
as it treats the two counters of one. A log capped at one line is
truncated several times in five lines, at every place inside a line. One bucket for
two sources reaches the cap; two sessions allow for one that is restarted. Two
servers show every disagreement that a loop which stops early can leave; four
commands allow add, break off, repair and try again. In `fleet` two VPN servers
are what keys can differ on and what a pool can mix, and three commands allow an
edit at each of two of them with a change of the user in between, or detach,
attach and attach again. In `host` keeping two entries lets two failed attempts
push out a good one, three attempts to deploy take a snapshot more than are kept, so
that the oldest is pruned, and four commands allow deploy, back up, break off and
restore, or deploy, break off, break off again and deploy, with later bundles that
may be refused or not. Two admin tokens tell a deploy that replaces one from one that
keeps it. Three updates are a request,
something in between and a confirmation; a batch may hold all of them, and be
fetched again. In `alerts` the lists of chats are none, two that take messages, and
one that does behind one that does not; two changes let a handler of the first
still run when the second is posted. Users, callers and servers beyond that repeat these
cases. Symmetry is used for the keys and names of `fleet`, which are only
compared with each other, and nowhere else: emails and servers are ordered, and
symmetry is not sound for liveness.

**Deadlock** is checked but for `UserRollout`, `ServerFleet`, `HostDeploy`,
`TelegramBot` and `AlertDelivery`, whose operator, owner or alert may have nothing
more to say (the bounds are used up).

## 4. Fairness

- The collector: `WF` of the ticker's call, of each caller's steps and of
  `XrayStart`. A Go ticker keeps firing, goroutines that can run are scheduled, and
  the compose file restarts Xray. Nothing is assumed of `POST /collect`, nor that
  a fault happens or stops but for its bound.
- Enforcement: the same, and `WF` of the steps of a request that was accepted.
- The tailer: `WF` of the read steps, `SF` of `FlushBatch`. Go's `select` chooses among
  ready channels at random, so a ticker that is ready again and again is not
  passed over for ever, although each time another one may win.
- Diagnostics: `SF` of `CleanEvents` for the same reason, `WF` of what has begun.
- `TelegramBot`: `WF` of `Fetch` (the loop polls again after a pause, and Telegram
  answers unless a fault is spent) and of `Handle`, the steps of one goroutine.
- `AlertDelivery`: `WF` of a post by Alertmanager, which retries until a 200, and of
  the steps of all handlers together. Nothing is assumed of events and of
  registration, and each single handler may be slow.
- `UserRollout`, `ServerFleet` and `HostDeploy` have safety properties only. An
  operator is not fair.

## 5. Proofs

What follows is proved for every value of the constants: any number of users,
servers, chats and updates, any bound on commands, faults and time.

| Module | Theorem | Statement |
|---|---|---|
| `TrafficCollectorProofs` | `TypeCorrect` | `Spec => []TypeOK` |
| | `NoOverBillingHolds` | `Spec => []NoOverBilling` |
| | `NothingLost` | `Spec => []NothingLostButByRestart` |
| | `WindowsHold` | `Spec => []WindowsAgree` |
| | `ImplementsLedger` | `Spec => LedgerSpec` |
| `AgentEnforcementProofs` | `TypeCorrect` | `Spec => []TypeOK` |
| | `ImplementsAccess` | `ASSUME WithinReach PROVE Spec => AccessSpec` |
| | `PromiseSuffices` | `AccessSpec => []BlockedIsOffline` |
| | `BlockedStaysOut` | `ASSUME WithinReach PROVE Spec => []BlockedIsOffline` |
| `UserRolloutProofs` | `TypeCorrect` | `Spec => []TypeOK` |
| | `RowsAgree` | `Spec => []SettledServersAgree` |
| | `Faithful` | `Spec => []ServedAsRecorded` |
| | `OneUserOneIdentity` | `Spec => OnlyReconcileMixesIdentities` |
| `ServerFleetProofs` | `TypeCorrect` | `Spec => []TypeOK` |
| | `DeploysAdmitted` | `Spec => []DeployIsAdmitted` |
| | `LinksServed` | `Spec => []ServesItsUsers` |
| | `RelaysReach` | `Spec => []RelayReaches` |
| `HostDeployProofs` | `TypeCorrect` | `Spec => []TypeOK` |
| | `AcceptedOnly` | `Spec => []RefusedNeverRuns` |
| | `WayBackKept` | `Spec => []WayBack` |
| | `SecretsPreserved` | `Spec => []SecretsKept` |
| | `ReportsAreTrue` | `Spec => []SuccessIsReal` |
| | `NewestArchivesKept` | `ASSUME LooksLikeStamp = FALSE PROVE Spec => []ArchivesKept` |
| `TelegramBotProofs` | `TypeCorrect` | `Spec => []TypeOK` |
| | `OnlyAtTheOwnersWord` | `Spec => []OnlyAsked` |
| | `NothingForgotten` | `Spec => []ForgottenIsHandled` |
| `AlertDeliveryProofs` | `TypeCorrect` | `Spec => []TypeOK` |
| | `AcceptedDelivered` | `Spec => []AcceptedIsDelivered` |
| | `DuplicatesCaused` | `Spec => []DuplicatesHaveACause` |
| `ConnectionDiagnosticsProofs` | `TypeCorrect` | `Spec => []TypeOK` |
| | `LimitsKept` | `Spec => []LimitsHold` |
| | `TailerTypeCorrect` | `TailerSpec => []TailerTypeOK` |
| | `RecordedOnce` | `TailerSpec => []NothingTwice` |
| | `LossBounded` | `TailerSpec => []LossIsBounded` |

**Assumptions.** Those that the modules state, which TLC evaluates on each run: bounds
are natural numbers and sets finite where they are counted (`BoundsAssumption`,
`TailerBounds`, `SetsAssumption`, `HostAssumption`, `RolloutAssumption`,
`BotAssumption`, `DeliveryAssumption`, `FleetAssumption`); the agent's own processes
are no requests (`CallersAssumption`, `ProcsAssumption`); a special value like `None`
is none of the values it stands beside. `FleetAssumption` also has a VPN server, since
`Init` attaches the first one to every proxy. Three theorems assume more, as the code
does not hold further: `NewestArchivesKept` is about a server whose name does not look
like a snapshot (section 6); `ImplementsAccess` and `BlockedStaysOut` are about one
inbound, a running Xray, API calls as the only calls that fail, and the requests that
do not add users (`WithinReach`, the instance of `enforce_access`). What lies
outside is in section 6, too.

Each module proves one inductive invariant, `IInv` (of the tailer, `OnceInv` and on
top of it `LossInv`), part of which was found only when a step did not go through. TLC
checked each of them as an invariant of a run first.

**Billing.** `NoOverBilling` is not inductive: a step that bills `delta` must
know that the bytes of `delta` crossed and were not billed before, though Xray may
have restarted and others may have collected since they were read. What a value
`v` read from a counter vouches for is `Covered(k, v)`: all bytes of earlier runs
of Xray, and `v` bytes of this run unless the counter is below `v`, which shows
that `v` is of an earlier run. The invariant `IInv` says that what is billed is
covered by the stored counter (`BilledIsCovered`); that what a cycle under way
still will bill is covered by what it has read (`CycleIsCovered`); that only the
holder of the mutex is past the lock (`SingleFlight`), so that nobody changes the
stored counters under it; and that a pending `delta` is that of the row it will
write (`DeltaIsCurrent`). `Traffic` only raises coverage. `XrayStop` moves the
bytes of the run that ends into the earlier ones, which again only raises it. A
write replaces the stored value and raises the bill by `Delta`, which
`CycleIsCovered` allowed for. `NoResetYet` (until the first restart, stored value
<= value read <= counter) makes the difference exact, and yields
`NothingLostButByRestart`. The proof has one lemma per action (`CallStep` to
`CrashStep`), `InvStep` gathers them, and the theorems follow by PTL. The
refinement needs the same invariant: a write bills `delta <= sent - total`.
`WindowsHold` is about sums over sets of hours and of days, which are folds. What is
needed of them (`SumOfZeros`, `SumGrows`: one element grows by `n`, so does the sum)
is proved without induction: among the subsets for which a claim fails one is least
(`LeastOf`), and it has an element less than which the claim holds (`SumOfSet`).

**Enforcement.** `TypeOK` needs that a pass which acts on a row has one in hand
(`InHand`), and that what is billed stays within the bound (`Room`). That who is
blocked stays out is not kept by itself: the collector unblocks a user by what it read
some statements ago. `PassIsCurrent` says that this is still so when it acts: within
`WithinReach` nobody changes a quota (`/users/sync` writes the user's policy only),
and usage grows only by the collector itself, so a user that was found within its
quota stays within it to the end of the pass. `OnlyCollector` says that nobody else
adds users. `BlocksHold` then follows a block between its two effects: the user is
removed before it is recorded, and recorded as unblocked only after it was added. The
refinement of `AccessControl` needs one thing more: that whom the pass is about to let
in is still on record (`KnowsBlocked`), though a pass over several users strikes them
off one by one in between. At two inbounds this is false, for the first row that is
done strikes the user off the record; so is `AccessSpec`, for the first removal puts
on record a user that is still live at the other inbound. `PassRefines` maps `AddUser`
to `Admit`, the two uses of `SetQuotaBlocked` to `Block` and `Lift`; every removal is
an `Evict` (`RemovalEvicts`), and a cycle's billing a `Measure`, which is sound
because it comes when no pass is under way. That who is blocked and over its quota is
out then follows from `AccessControl` alone (`PromiseSuffices`), so the run checks the
refinement and not `BlockedIsOffline` as well. TLC checked `KnowsBlocked` on an
instance with one request of any of the three kinds.

**Rollout.** `Working` says which step belongs to which command and which servers it
still has to change. `Rolling` says what the rows are half way: those written agree
with one another, those unwritten too, and the one is what the command makes of the
other; when the command ends nothing is unwritten, which is `SettledServersAgree`.
`Serving` follows one server from step to step: from its row to the live Xray
(`LiveOK`), to `config.json` (`ConfigOK`) and to the agent's mirror (`PolicyOK`);
`Prepared` says what a step takes from the one before. Servers on which a change was
broken off (`torn`) promise nothing until a deploy completes.

**Fleet.** `DeployIsAdmitted` rests on the rows alone: the keys of enabled servers of
a role are the same, and all VPN servers with a key pair have the same one
(`SameKeys`, from which `KeyParity`, a matter of cardinalities, is derived); each
registered row can be rendered (`RowsSound`); the backends of a pool are registered,
offer REALITY and agree (`PoolsAgree`). For the links, `Deployed` holds the rows
against the files and the containers: a server in `clean` has files and containers
that agree with its row (`Current`), and the user as its row says (`UserServed`),
but for the server that a user command is at. `Handled` says that a command which
rewrites a row or files has taken its server out of `clean`, so the others are what
has to be shown undisturbed: keys are handed only to who had none, a service UUID
only to who relied on none. `Deploying` carries the row from the bundle over the
files to the containers, with no other step in between that would change it.

**Host.** `StepsOfCommands` ties scripts to commands. `OnlyAccepted` and
`WholeIsOfBundle` follow a bundle from staging to the shelf and back. `SecretsHeld`
says where the secrets are at each script: in the live stack, or in `/tmp` while the
apply script runs. `Progress` says how far a command has come, and `Success` what a
deploy or a telegram-setup leaves; of a restart, `monitor down` and a cleanup nothing
of the kind is true, for their scripts may report success when nothing was done
(section 6). For `WayBack`, `CopyIsNear` counts: the newest good copy of a whole stack has
no more entries behind it than `doomed`, and pruning keeps the newest `Keep`;
`CopyIsHeld` says that there is one wherever the live stack is in pieces or is about
to be. `ArchivesInOrder` makes ranks of places ranks of archives. The lemmas about
what pruning keeps (`Keep` newest by name) are about all lists of entries.

**Bot.** `Bounds` orders the poll loop: what lies below `next`, the update in hand,
is handled, and so is what Telegram has forgotten; the offset that the next
`getUpdates` tells is past `next` only while an action runs, and then nothing is
polled. `Steady` says that while a question or a prompt is open the bot has not
crashed, so that the updates since were handled one after another, each once.
`Confirmable`, `Prompted`, `Running` and `Linked` say of each question, prompt,
running action and sent link which update asked for it, and that the owner said
nothing that bears on it in between (`Quiet`). `OnlyAsked` asks this of the last two,
and the first two are what they come from.

**Alerts.** Configured chats stay in the list (`ListInv`). A handler that has met no
error has sent its note to every configured chat that it has not still to send to
(`Faithful`), which at its end is `AcceptedIsDelivered`. For duplicates, while nothing
has gone wrong with a note: it is in the hands of one handler, which has sent it to
none of the chats that it has still to send to (`FirstTime`); Alertmanager waits for
one answer at a time, for a note that is new (`OneWaited`); and a note that has
arrived is still in those hands or was taken, so that it is not posted again
(`NotRepeated`).

**Diagnostics.** The transaction of a flush is a fold over a batch of any length. As
with the sums, the least prefix of the batch that would break a claim has a
predecessor that does not (`FoldExists`, `FoldKeeps`), so that the fold keeps what one
event keeps (`RecordKeeps`; the lemmas on sums are those of the billing): the tables
are `Sound`. Of each user the connections are those of the sources and the overflow, and the cached number of buckets is their number
(`CountsSources`); the captured events are at most the cap and, with a session, at most
those counted (`KeepsCap`). Between the steps the same holds of the tables, and while a
flush waits to commit, `CountsSuffice`: what it counted can only have shrunk since,
because only the tailer's own goroutine adds events (`Removes`). It is not true of
sessions started after the flush read the active ones, and need not be: they are not
in `active`, and nothing is captured for them.

**Tailer.** That no line is recorded twice is about the order of three things: the
file, the stored offset and the record. `Distinct` says that a line ends once on the
whole way (`OnRecord`, the batch, the parsed events, the chunk; the partial line has
no end). `Placed` says where these ends are while the file still has them: what may be
on record (`Taken`) lies before the stored offset, because `Persist` stores it before
it parses, and what was read (`Seen`) before the agent's own. A new agent that goes on
at the stored offset reads neither again, and one that finds a shorter file knows that
no such line is left in it; this is why `Placed` also speaks of the size that was read
between `Stat` and the decision. `WrittenOnce` says that Xray writes new lines only.
For the losses, `Stream` is what is still to be parsed: the partial line, the chunk and
the file beyond the offset. Reading, persisting and writing only move parts along it
(`CutInTwo`, `CutOfJoin`). `Bounded` says that there is a set of at most two lines per
truncation such that every other line is kept or whole in the stream, where "whole"
(`WholeAt`) means that `parseChunk` sees it begin, and that the stream ends with a line
(`Closed`) or the next line is in the set: Xray would append it to a cut one. A
truncation leaves of the stream the chunk alone, and adds two lines: the one that the
stream began with, and the next. `WholeParsed` shows that what is whole becomes its own
event, `NthIs` that parsing a text of any length lists each line once. Before the
offset is initialized the file is what Xray wrote (`FromStart`). TLC checked the parts
of both invariants on the instance of `tailer`.

**Only model-checked.** Liveness (`EverythingBilled`, `BlocksFollowUsage`,
`ExpiryUnlessWedged`, `AccessComesBack`, `UnreadIsRecorded`, `ExpiredIsCleaned`,
`EveryUpdateHandled`, `EveryAlertArrives`): fairness and `ENABLED` are out of the
prover's reach. `BlockedIsOffline` and `AccessSpec` are not meant beyond
`WithinReach`: section 6 names what breaks it.

## 6. Where code and documentation disagree

Two runs check what a document says, and find a counterexample.

- `finding_rm_revived` (`RemovedIsGone`): docs/cli.md:14 says that `rm` applies to all
  enabled servers. A runtime removal fails on server A; the fallback deploy copies the
  user back from B's row. The command goes on to B and reports success, and A serves
  the user.
- `finding_over_quota` (`OverQuotaIsCutOff`): docs/security.md:292 says that a user is
  blocked when its usage reaches its quota. The quota pass skips who is recorded as
  blocked, which is not the same as being out. Xray may restart from a `config.json`
  older than the block (against docs/monitoring.md:69, too), or the removal may fail at
  one of two inbounds, which the block recorded at the other one hides. Either way the
  user stays in while it is over its quota. TLC shows one of the two, and the other
  one if the fault of the first is left out. `BlocksFollowUsage` does not see them: it
  counts who is on record as blocked as enforced.

Seen while modelling, without a run of their own. Accounts and the CLI:

- `CollectOnce` returns on an error of the quota pass, before the expiry pass
  (`collector.go:150`). A user over its quota that is not at the inbound, and not
  yet recorded as blocked, makes each quota pass fail: its removal answers "not
  found". Expired users then stay in, against docs/monitoring.md:68, although no call
  needs to fail otherwise: the expiry of the first user, and traffic that is billed
  after it, are enough. `ExpiryUnlessWedged` shows that this is the only cause.
- If the agent dies between `RemoveUser` and `SetQuotaBlocked`, the next removal
  answers "not found", so the block is never recorded and the user not re-added when
  its usage drops (`AccessComesBack` is checked with API errors only).
- With two servers, `user enable` fails although nothing is wrong. The agent
  answers 409 by its old mirror; the fallback deploy then refuses the rows that the
  command has itself made different, and so does every later command until a
  reconcile.
- `accountForInbound` gives a user that is added at runtime no XTLS flow at
  `vless-xhttp-vlessenc`; the renderer does, and the link names it, against the
  comment at `xrayapi/client.go:106`. The account is right after the next deploy or
  restart. `ServerFleet` leaves the flow out.
- `server add` registers the server before it seeds the users (line 158
  of `server_cmd_lifecycle.go`): if that fails, or the users disagree, the command
  reports an error and the server stays, with no rows.
- With one server the fallback deploy of `user enable` goes through, but the agent
  that it restarts runs its expiry pass with the old mirror before `/users/sync`
  and removes the user from Xray. The command reports success.
- `buildXraySpec`, which a user change renders `config.json` with, sets no access
  log; the deploy does. After a user change and a restart of Xray there are no
  connection diagnostics until the next deploy (docs/monitoring.md:73).
- A user change writes `config.json` from rows that may have been edited since the
  deploy. A restart of Xray then serves profiles whose ports are not published,
  or, with `tls-selfsni-web`, finds no certificates and does not start.
- `user rm` asks the inbounds of the row, not those of the live Xray: after a
  profile switch that was not deployed yet the user stays in at the old inbound
  until Xray restarts (docs/cli.md:169). `ServesItsUsers` speaks of deployed rows.
- The deploy of a disabled server that was registered anew, and was not there when the
  user was added, gives the user a row there (`runtime_helpers.go:68`). If it breaks
  off, or is refused, the row stays: listings and links show a user that the server's
  Xray does not know until the next deploy. The proof of `ServesItsUsers` found it, five
  commands deep; `clean` loses such a server.
- A relay uses the REALITY name of the first backend for all of them, though
  targets are per server: `RelayReaches` needs equal names.
- A backend that gets a service UUID of its own while another is detached cannot
  share a pool with it again; no command clears the UUID.
- Two `profile enable` of `vless-xhttp-vlessenc` at once each generate a pair.
- `/runtime/user/add` checks `quota_state` and adds the user several statements
  later; the collector may block the user in between, and later passes skip it.
- A quota unblock adds a user that has expired since the last `/quota/sync`; the
  next expiry pass removes it.
- A truncation after a read that ended inside a line glues that line to the next
  one written: `LossIsBounded` counts both, the comment in `tailer.go` neither.
- If `os.Truncate` fails, the chunk that was read is dropped although the offset is
  past it; `LossIsBounded` speaks of runs in which nothing but flushes fails.
- A flush under way may insert captured events after `debug/stop` removed the
  session; events batched before a session are captured by the next flush.
- Captured events of a session that has been removed are found by retention only.
- `AddUser` writes `quota_enabled = TRUE`, so a user whose quota is off is capped
  on a server that is materialised or reconciled. Quota fields are no part of the
  identity that servers must agree on, so a broken-off `quota-set` goes unnoticed.
- A server that was cleaned up keeps `last_deploy_at`; its next deploy asks an
  agent that is gone for the quota status and fails.
- A restart of Xray, or an unblock, in the middle of a change undoes the fast path
  unnoticed; a user that is unblocked after `config.json` left it out is lost at
  the next restart. `UserRollout` marks such servers `torn`.
- A retried `expiry-clear` leaves Xray alone, for the row no longer changes.

The host:

- A deploy that is cut between the copy and the restoring of the secrets has
  overwritten the bot's token with an empty file, and the retry begins with `rm -f`
  of the copy in `/tmp`: the token is lost, against the comment at
  `deploy.go:209`. `SecretsKept` sets such secrets aside (`frayed`).
- Archives of a server whose name begins with `ovpn-` match the pattern of the
  snapshots, and deploys prune them (docs/security.md:249 says that seven are kept).
  `host` has `LooksLikeStamp = FALSE`; with `TRUE`, `ArchivesKept` fails.
- Each attempt to deploy takes a snapshot, and an archive that is cut stays on the
  shelf in pieces, so `Keep` of these together push out the last copy of a good stack:
  `WayBack` counts them (`doomed`). Counting the snapshots alone is not enough, as the
  attempt at a proof showed: an archive that is begun and cut also takes a place.
- A restore takes no snapshot of what it removes. Its last command, `rm -rf` of the
  temporary directory, has no `sudo` and fails after all is done.
- A restart recreates no container, so restore and restart (docs/upgrades.md:164)
  leave image and environment of the newer version.
- The backup that a cleanup demands may be a record whose archive an earlier
  cleanup with `--remove-backups` deleted.
- Both downs of a cleanup end in `|| true` (`deploy.go:255`, `:260`): when they fail,
  the directory with the compose files is removed all the same, and success reported
  while containers run. `monitor down` swallows failures, too.
- A restart needs the compose file only: of a stack in pieces, or of one without
  containers, it may report success. `SuccessIsReal` speaks of deploy and
  telegram-setup only.
- A `cp -a` that is cut leaves a part of a snapshot, which takes one of the kept places
  as a cut archive does (`CutSnapshot`).
- `--remove-volumes`, the default, is refused while a container uses a volume: the
  cleanup fails when the directory is gone already.
- `--remove-orphans` ends monitoring, also with `--include-monitoring=false`.

The bot:

- docs/security.md:266-267 calls its use read-only and says that it must not expose
  write or admin actions. With an admin token the code has restart and heal, and
  docs/monitoring.md:162 documents them.
- Heal never restarts a dead Xray: its check is "xray-via-agent", which no service
  stands for, and the agent's `/health` says ok always.
- The Confirm button of an old keyboard confirms the newer request: there is one
  pending action per chat. `OnlyConfirmedRuns` asks only that it is the last one.
- After a crash the updates of the batch are delivered again, and a confirmed action
  runs a second time if request and confirmation are both among them.
- The loop waits while a restarted service is verified, so confirmations may expire
  in the queue.
- `/health` of the bot is ok always (docs/monitoring.md:158 promises more), and
  telegram-setup waits for no more than that.
- A chat that refuses every message makes each notification a 502, so that
  Alertmanager repeats it, and the other chats get it again each time.
- The agent gives up after 3 s and ignores the answer: the send under way and all
  chats after it fail with the cancelled context, and the event is not repeated.
- `notifyChats` is appended to and read with no lock. A handler may send to a number
  that is no chat; with an empty list it may panic, which `net/http` catches.
- The owner's chat is learned in memory only: without configured chats, alerts are
  refused after a restart of the bot until the owner writes again.

## 7. Abstractions

- Bytes, usage and time are small numbers; `HoursPerDay` is a constant. Counters do
  not overflow: `int64` bytes are out of reach.
- In `AgentEnforcement` the time of an expiry pass is that of the table it reads,
  so `userPolicy` says "active" or "ended" and a cutoff that passes is an action. A
  pass handles its rows in the order of the query.
- A line of the log is three parts, the least that tells a whole line from a cut
  one. A stop of the agent is a crash: at `ctx.Done` the last flush runs under the
  cancelled context and fails.
- The queries of a flush, one per email, are one step; the handlers' transactions
  are atomic, as SQLite makes them.
- `UserRollout` has one user and one inbound, and one command at a time. The row
  is what matters to the identity: UUID, enabled, expired, quota on. Expiry dates
  pass by command; that one passes by itself is in `AgentEnforcement`. Local
  statements do not fail; the parity checks of keys succeed; dry runs, roles and
  notifications are left out. The syncs' fifteen attempts are a call that may be
  repeated, which is idempotent. An unreachable server fails its command;
  a failed deploy may have come as far as any of its steps.

- `ServerFleet` has one user who is neither expired nor over a quota. A key pair with
  its short ID is one value, so is a REALITY target with its name; fresh keys are
  unused ones. `server init` is a deploy; a staged bundle that does not validate
  is a deploy that breaks off. Backends have equal priorities; the server of a
  live proxy's HAProxy is any of its pool. `clean` records which servers were
  deployed since the last command about them, and is no part of the program; a
  server whose Xray restarts between the two steps of a user change leaves it, and so
  does one to which a deploy adds the user's row, until that deploy is complete.

- `HostDeploy` has one host and one CLI. A stack is the bundle it comes from, whether
  it is in one piece, and its two secrets; an archive holds a stack as a whole. A
  bundle is accepted by the three validations or not. The statistics volume,
  retention of the local copies and `monitor status` are left out. The operator
  restores archives of whole stacks.
- In `TelegramBot` an update is what it asks for. One chat of the owner is modelled,
  as the bot's answers go there; a callback and a command that ask for the same are
  the same. The deadline of a verification is a number of checks, the lifetime of a
  prompt an action (`Expire`). What the bot reads from the agent and prints is one
  kind of update ("read"), for it changes nothing.
- `AlertDelivery` has one group of alerts; that Alertmanager repeats what is still
  firing every four hours is left out. Which chats refuse does not change. The CLI's
  events are posted as the agent's are. Alertmanager, Telegram and the callers are
  external: what is modelled is what the webhooks, `sendMessage` and the template
  `alertmanager.yml.tmpl` expect of them.

Not modelled, and why: text (QR codes, listings, templates, the rest of
`config.json`), read-only parts (doctor, reports, metrics), the bearer token (no
state), Ansible and the containers (external; that they restart things is an
action), known hosts and sudo in the SSH runner (its failures are modelled where it
is called), the retention of the aggregates, what the bot's read-only menus render,
and the bot's health counters and watchdog, which log and report but decide nothing.

## 8. Plan

Order of work, the most important behaviour first:

1. *Done.* Billing: `TrafficLedger`, `TrafficCollector`, the proofs.
2. *Done.* Enforcement, tailer, diagnostics.
3. *Done.* The CLI's rollout over several servers.
4. *Done.* An abstract access specification, `AccessControl`, that `AgentEnforcement`
   without restarts implements.
5. *Done.* Server profiles, backends, keys, deploys: `ServerFleet`.
6. *Done.* Deploy, backup and restore on one host: `HostDeploy`; the bot:
   `TelegramBot`, `AlertDelivery`.
7. *Done.* Proofs of the invariants of `AgentEnforcement`, `UserRollout`,
   `ServerFleet`, `HostDeploy`, `TelegramBot` and `AlertDelivery`.
8. *Done.* Proofs about sums and folds: `WindowsAgree`, `LimitsHold`.
9. *Done.* Proofs about the tailer: `NothingTwice`, `LossIsBounded`.
