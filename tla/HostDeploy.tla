------------------------------- MODULE HostDeploy -------------------------------
(***************************************************************************)
(* One host as the CLI installs, backs up, restores and clears it over SSH: *)
(* the stack directory /opt/ovpn, the backup directory, the containers, and *)
(* the two Telegram secrets that live in the stack directory only.          *)
(*                                                                         *)
(* A command is a row of remote scripts.  The connection, a timeout or the  *)
(* disk may end it between two scripts and, where it matters, inside one;   *)
(* what is on the host stays as it is and the operator tries again.  One    *)
(* command runs at a time.                                                  *)
(***************************************************************************)
EXTENDS Integers, Sequences, FiniteSets, SequencesExt

CONSTANTS
  Keep,            \* SnapshotRetentionCount and defaultRemoteBackupRetention, 7
  LooksLikeStamp,  \* the server's name begins with "ovpn-"
  MaxBundles,      \* bound: bundles rendered, one for each deploy
  MaxTokens,       \* bound: Telegram bot tokens the operator provides
  MaxArchives,     \* bound: backups
  MaxCommands,     \* bound: commands
  MaxFaults        \* bound: commands cut short and reboots

ASSUME HostAssumption ==
  /\ {Keep, MaxTokens} \subseteq Nat \ {0} /\ LooksLikeStamp \in BOOLEAN
  /\ {MaxBundles, MaxArchives, MaxCommands, MaxFaults} \subseteq Nat

Secret == {"bot", "admin"}
Tokens == 0 .. MaxTokens              \* 0: the file is empty or missing
NoBot == -1                           \* no ovpn-telegram-bot container

\* A stack directory: the bundle it comes from (0: none) and whether a copy of that
\* bundle onto it ran to its end.
Stacks == [ver : 0 .. MaxBundles, whole : BOOLEAN, secret : [Secret -> Tokens]]
NoStack == [ver |-> 0, whole |-> FALSE, secret |-> [s \in Secret |-> 0]]

\* Entries of the backup directory, oldest first: pre-deploy snapshots (id 0) and
\* archives; one that cp or tar did not finish is not good.
Entries == [id : 0 .. MaxArchives, good : BOOLEAN, stack : Stacks]

Commands == {"deploy", "setup", "monitor", "restart", "backup", "restore", "cleanup"}
Flags == {"monitoring", "wipe"}
Steps == {"snapshot", "validate", "save", "copy", "keep", "up", "token", "bot",
          "monitoring", "ready", "archive", "record", "clear", "unpack",
          "down_monitoring", "down", "remove", "wipe"}
Idle == [cmd |-> "none", step |-> "none", flags |-> {}, from |-> NoStack]

VARIABLES
  live,      \* the stack in RemoteDir
  there,     \* RemoteDir exists
  stage,     \* RemoteStageDir, and whether the validations accept it
  saved,     \* the copies of the secrets that the apply script keeps in /tmp
  run,       \* containers: image and configuration of the core, the bot's token,
             \* and whether the monitoring services exist
  shelf,     \* RemoteBackupDir: whether it exists, and its entries
  recorded,  \* the local store has a backup record of this server
  cli,       \* the command in progress, its next step, and the stack it restores
  done,      \* the last command, and whether it reported success
  given,     \* commands given so far
  faults,
  \* history
  want,      \* the secrets the operator last put on this host
  frayed,    \* secrets an apply or a restore was cut over since they were put there
  rejected,  \* bundles uploaded that the validations refuse
  doomed,    \* entries put on the shelf after the last copy of a stack in one piece
  made,      \* archives begun
  wiped,     \* archives begun before the backup directory was last removed
  owed       \* a deploy has completed, and no cleanup has begun since

host == <<live, there, stage, saved, run, shelf>>
history == <<want, frayed, rejected, doomed, made, wiped, owed>>
vars == <<host, recorded, cli, done, given, faults, history>>

Running == [img : 0 .. MaxBundles, cfg : 0 .. MaxBundles, bot : {NoBot} \union Tokens,
            mon : BOOLEAN]

TypeOK ==
  /\ live \in Stacks /\ there \in BOOLEAN
  /\ stage \in [ver : 0 .. MaxBundles, ok : BOOLEAN, admin : Tokens]
  /\ saved \in [Secret -> Tokens]
  /\ run \in Running
  /\ shelf \in [dir : BOOLEAN, items : Seq(Entries)]
  /\ recorded \in BOOLEAN
  /\ cli \in [cmd : Commands \union {"none"}, step : Steps \union {"none"},
              flags : SUBSET Flags, from : Stacks]
  /\ done \in [cmd : Commands \union {"none"}, ok : BOOLEAN]
  /\ faults \in 0 .. MaxFaults /\ given \in 0 .. MaxCommands
  /\ want \in [Secret -> Tokens] /\ frayed \subseteq Secret /\ owed \in BOOLEAN
  /\ rejected \subseteq 1 .. MaxBundles
  /\ {made, wiped} \subseteq 0 .. MaxArchives /\ doomed \in Nat

\* A host that Ansible prepared and `ovpn server init` bootstrapped.
Init ==
  /\ live = NoStack /\ there = TRUE
  /\ stage = [ver |-> 0, ok |-> FALSE, admin |-> 0]
  /\ saved = [s \in Secret |-> 0]
  /\ run = [img |-> 0, cfg |-> 0, bot |-> NoBot, mon |-> FALSE]
  /\ shelf = [dir |-> TRUE, items |-> <<>>]
  /\ recorded = FALSE /\ cli = Idle /\ given = 0 /\ faults = 0
  /\ done = [cmd |-> "none", ok |-> TRUE]
  /\ want = [s \in Secret |-> 0] /\ frayed = {} /\ rejected = {}
  /\ doomed = 0 /\ made = 0 /\ wiped = 0 /\ owed = FALSE

-----------------------------------------------------------------------------
(* How a command goes on and ends. *)

Given == /\ cli = Idle /\ given < MaxCommands
         /\ given' = given + 1
Begin(cmd, step, flags, from) ==
  /\ Given
  /\ cli' = [cmd |-> cmd, step |-> step, flags |-> flags, from |-> from]

At(step) == cli.step = step
Goto(step) == /\ cli' = [cli EXCEPT !.step = step]
              /\ UNCHANGED <<done, given>>
Finish(ok) == /\ cli' = Idle
              /\ done' = [cmd |-> cli.cmd, ok |-> ok]
              /\ UNCHANGED given

-----------------------------------------------------------------------------
(* deploy, and the deploy inside telegram-setup. *)

\* RenderBundle and UploadBundle: the stage, which lies in RemoteDir, is emptied and
\* filled with a new bundle, with an empty bot token and the admin token of the CLI's
\* environment, if it has one.  Only init makes the backup directory.
Upload(cmd, flags) ==
  /\ stage.ver < MaxBundles
  /\ Begin(cmd, "snapshot", flags, NoStack)
  /\ \E ok \in BOOLEAN, admin \in Tokens :
       /\ stage' = [ver |-> stage.ver + 1, ok |-> ok, admin |-> admin]
       /\ rejected' = IF ok THEN rejected ELSE rejected \union {stage.ver + 1}
  /\ \E init \in BOOLEAN : shelf' = [shelf EXCEPT !.dir = @ \/ init]
  /\ there' = TRUE
  /\ UNCHANGED <<live, saved, run, recorded, done, faults, want, frayed, doomed, made,
                 wiped, owed>>

StagedSecret == [bot |-> 0, admin |-> stage.admin]

\* Mutant of SnapshotEntries: every entry of the directory is counted.
AllEntries(items) == DOMAIN items

\* find -name 'ovpn-*' takes the archives of a server called ovpn-... for snapshots.
SnapshotEntries(items) == {i \in DOMAIN items : items[i].id = 0 \/ LooksLikeStamp}
ArchiveEntries(items) == {i \in DOMAIN items : items[i].id # 0}

\* The entries at some of the places, in their order.
Rank(places, i) == Cardinality({j \in places : j <= i})
Selected(items, places) ==
  [k \in 1 .. Cardinality(places) |-> items[CHOOSE i \in places : Rank(places, i) = k]]

Newer(counted, i) == Cardinality({j \in counted : j >= i})

\* Mutant of Pruned: one entry too many goes.
PrunedOneMore(items, counted) ==
  Selected(items, {i \in DOMAIN items : i \in counted => Newer(counted, i) < Keep})

\* The entries left when, of those counted, only the newest Keep stay.
Pruned(items, counted) ==
  Selected(items, {i \in DOMAIN items : i \in counted => Newer(counted, i) <= Keep})

\* buildDeployBackupCommand.  The upload has made RemoteDir, so there is always a
\* directory to copy.
Snapshot ==
  /\ At("snapshot")
  /\ IF shelf.dir
       THEN /\ LET items == Append(shelf.items, [id |-> 0, good |-> TRUE, stack |-> live])
               IN  shelf' = [shelf EXCEPT !.items = Pruned(items, SnapshotEntries(items))]
            /\ doomed' = IF live.whole THEN 0 ELSE doomed + 1
            /\ Goto("validate")
       ELSE Finish(FALSE) /\ UNCHANGED <<shelf, doomed>>
  /\ UNCHANGED <<live, there, stage, saved, run, recorded, faults, want, frayed, rejected,
                 made, wiped, owed>>

\* Mutant of Validate: the tests are run and their outcome ignored.
ValidateLeniently ==
  /\ At("validate") /\ Goto("save")
  /\ UNCHANGED <<host, recorded, faults, history>>

\* docker compose config, the self-SNI preflight and xray -test, all on the stage.
Validate ==
  /\ At("validate")
  /\ IF stage.ok THEN Goto("save") ELSE Finish(FALSE)
  /\ UNCHANGED <<host, recorded, faults, history>>

\* Mutant of SaveSecrets: the admin token is forgotten.
SaveBotToken ==
  /\ At("save")
  /\ saved' = [s \in {"bot"} |-> live.secret[s]]
  /\ Goto("copy")
  /\ UNCHANGED <<live, there, stage, run, shelf, recorded, faults, history>>

\* buildDeployApplyCommand in three parts: the secrets in use are copied aside, ...
SaveSecrets ==
  /\ At("save")
  /\ saved' = live.secret
  /\ Goto("copy")
  /\ UNCHANGED <<live, there, stage, run, shelf, recorded, faults, history>>

\* ... the stage is copied over the live directory, secret files included, ...
CopyStage ==
  /\ At("copy")
  /\ live' = [ver |-> stage.ver, whole |-> TRUE, secret |-> StagedSecret]
  /\ Goto("keep")
  /\ UNCHANGED <<there, stage, saved, run, shelf, recorded, faults, history>>

\* Mutant of KeepSecrets: what was copied aside is dropped.
DropSecrets ==
  /\ At("keep")
  /\ saved' = [s \in Secret |-> 0]
  /\ want' = IF stage.admin = 0 THEN want ELSE [want EXCEPT !["admin"] = stage.admin]
  /\ frayed' = IF stage.admin = 0 THEN frayed ELSE frayed \ {"admin"}
  /\ Goto("up")
  /\ UNCHANGED <<live, there, stage, run, shelf, recorded, faults, rejected, doomed, made,
                 wiped, owed>>

\* ... and a secret the stage leaves empty is put back.
KeepSecrets ==
  /\ At("keep")
  /\ live' = [live EXCEPT !.secret =
                [s \in Secret |-> IF StagedSecret[s] = 0 /\ saved[s] # 0
                                    THEN saved[s] ELSE @[s]]]
  /\ saved' = [s \in Secret |-> 0]
  /\ want' = IF stage.admin = 0 THEN want ELSE [want EXCEPT !["admin"] = stage.admin]
  /\ frayed' = IF stage.admin = 0 THEN frayed ELSE frayed \ {"admin"}
  /\ Goto("up")
  /\ UNCHANGED <<there, stage, run, shelf, recorded, faults, rejected, doomed, made,
                 wiped, owed>>

HasMonitoring == run.mon \/ run.bot # NoBot

\* The bot runs only with a token: it is scaled to 0 without one.
BotOf(stack) == IF stack.secret["bot"] = 0 THEN NoBot ELSE stack.secret["bot"]

\* What containers started from a directory run: 0 is a configuration in pieces.
Config(stack) == IF stack.whole THEN stack.ver ELSE 0

\* buildDeployUpCommand recreates every service; monitoring only where it is already.
Up ==
  /\ At("up")
  /\ run' = [run EXCEPT !.img = live.ver, !.cfg = Config(live),
                        !.bot = IF HasMonitoring THEN BotOf(live) ELSE @,
                        !.mon = HasMonitoring]
  /\ owed' = TRUE
  /\ IF cli.cmd = "setup" THEN Goto("token") ELSE Finish(TRUE)
  /\ UNCHANGED <<live, there, stage, saved, shelf, recorded, faults, want, frayed, rejected,
                 doomed, made, wiped>>
-----------------------------------------------------------------------------
(* telegram-setup after its deploy; monitor up and down; restart. *)

\* uploadTelegramBotToken.
UploadToken ==
  /\ At("token") /\ want["bot"] < MaxTokens
  /\ live' = [live EXCEPT !.secret["bot"] = want["bot"] + 1]
  /\ want' = [want EXCEPT !["bot"] = @ + 1]
  /\ frayed' = frayed \ {"bot"}
  /\ Goto("bot")
  /\ UNCHANGED <<there, stage, saved, run, shelf, recorded, faults, rejected, doomed, made,
                 wiped, owed>>

\* Mutant of RestartTelegramBot: docker compose up, without --force-recreate.
RefreshTelegramBot ==
  /\ At("bot")
  /\ Goto(IF "monitoring" \in cli.flags THEN "monitoring" ELSE "ready")
  /\ UNCHANGED <<host, recorded, faults, history>>

\* RestartTelegramBotRemote: a bot that runs does not notice a new file.
RestartTelegramBot ==
  /\ At("bot")
  /\ run' = [run EXCEPT !.bot = IF @ = NoBot THEN @ ELSE live.secret["bot"]]
  /\ Goto(IF "monitoring" \in cli.flags THEN "monitoring" ELSE "ready")
  /\ UNCHANGED <<live, there, stage, saved, shelf, recorded, faults, history>>

\* docker compose up without --force-recreate: what is missing is created, what was
\* made from other files may be recreated, the rest is left alone.
Refreshed(now, wanted) == IF run.img = live.ver THEN {now} ELSE {now, wanted}

\* buildMonitoringUpCommand.
MonitoringUp ==
  /\ At("monitoring") /\ (cli.cmd = "setup" \/ "monitoring" \in cli.flags)
  /\ \/ /\ live.ver # 0
        /\ \E img \in IF run.img = 0 THEN {live.ver} ELSE Refreshed(run.img, live.ver),
             bot \in IF run.bot = NoBot \/ BotOf(live) = NoBot THEN {BotOf(live)}
                                                       ELSE Refreshed(run.bot, BotOf(live)) :
             run' = [img |-> img, bot |-> bot, mon |-> TRUE,
                     cfg |-> IF img = run.img THEN run.cfg ELSE Config(live)]
        /\ IF cli.cmd = "setup" THEN Goto("ready") ELSE Finish(TRUE)
     \/ ~live.whole /\ Finish(FALSE) /\ UNCHANGED run
  /\ UNCHANGED <<live, there, stage, saved, shelf, recorded, faults, history>>

\* What is left when the containers of some services are gone.
Without(gone) ==
  [img |-> IF "core" \in gone THEN 0 ELSE run.img,
   cfg |-> IF "core" \in gone THEN 0 ELSE run.cfg,
   bot |-> IF "bot" \in gone THEN NoBot ELSE run.bot,
   mon |-> run.mon /\ "mon" \notin gone]

Fault == faults < MaxFaults /\ faults' = faults + 1

\* docker compose ... || true, to remove the containers of some services: it may fail
\* over any of them, and over a stack in pieces it needs no other reason; nobody is
\* told.  Without the compose files there is nothing to do.
TakeDown(services) ==
  \E gone \in SUBSET services :
    /\ run' = Without(gone)
    /\ \/ live.whole /\ gone = services /\ UNCHANGED faults
       \/ live.whole /\ Fault
       \/ ~live.whole /\ (live.ver = 0 => gone = {}) /\ UNCHANGED faults

\* buildMonitoringDownCommand fails only where there is no RemoteDir.
MonitoringDown ==
  /\ At("monitoring") /\ cli.cmd = "monitor" /\ "monitoring" \notin cli.flags
  /\ TakeDown({"bot", "mon"})
  /\ Finish(there)
  /\ UNCHANGED <<live, there, stage, saved, shelf, recorded, history>>

Monitor ==
  /\ \E flags \in SUBSET {"monitoring"} : Begin("monitor", "monitoring", flags, NoStack)
  /\ UNCHANGED <<host, recorded, done, faults, history>>

\* waitForRemoteHTTPReady asks the bot itself.
AwaitBot ==
  /\ At("ready")
  /\ Finish(run.bot \notin {NoBot, 0})
  /\ UNCHANGED <<host, recorded, faults, history>>

\* buildRestartCommand: the same containers start again and read the files anew.  It
\* needs the compose file only, and may report either where there are no containers.
Restart ==
  /\ Given
  /\ \E ok \in BOOLEAN :
       /\ done' = [cmd |-> "restart", ok |-> ok]
       /\ \/ live.ver # 0 /\ run.img # 0 /\ run' = [run EXCEPT !.cfg = Config(live)]
          \/ (ok => live.ver # 0 /\ run.img = 0) /\ UNCHANGED run
  /\ UNCHANGED <<live, there, stage, saved, shelf, recorded, cli, faults, history>>

-----------------------------------------------------------------------------
(* server backup and server restore. *)

Backup ==
  /\ Begin("backup", "archive", {}, NoStack)
  /\ UNCHANGED <<host, recorded, done, faults, history>>

\* buildRemoteBackupScript: an archive is put on the shelf, then the old ones go.
Archive ==
  /\ At("archive") /\ made < MaxArchives
  /\ \/ /\ ~there
        /\ shelf' = [shelf EXCEPT !.dir = TRUE]
        /\ Finish(FALSE) /\ UNCHANGED <<made, doomed>>
     \/ /\ there
        /\ LET items == Append(shelf.items,
                              [id |-> made + 1, good |-> TRUE, stack |-> live])
           IN  shelf' = [dir |-> TRUE, items |-> Pruned(items, ArchiveEntries(items))]
        /\ made' = made + 1 /\ doomed' = IF live.whole THEN 0 ELSE doomed + 1
        /\ Goto("record")
  /\ UNCHANGED <<live, there, stage, saved, run, recorded, faults, want, frayed, rejected,
                 wiped, owed>>

\* The local archive and the record, either of which may fail.
Record ==
  /\ At("record")
  /\ \E ok \in BOOLEAN : recorded' = (recorded \/ ok) /\ Finish(ok)
  /\ UNCHANGED <<host, faults, history>>

\* The operator restores an archive of a stack in one piece.
Restore ==
  /\ \E e \in ToSet(shelf.items) :
       /\ e.good /\ e.id # 0 /\ e.stack.whole
       /\ Begin("restore", "clear", {}, e.stack)
  /\ UNCHANGED <<host, recorded, done, faults, history>>

\* buildRemoteRestoreScript: the archive is unpacked aside, the stack removed, ...
Clear ==
  /\ At("clear")
  /\ live' = NoStack /\ there' = FALSE
  /\ want' = cli.from.secret /\ frayed' = Secret
  /\ Goto("unpack")
  /\ UNCHANGED <<stage, saved, run, shelf, recorded, faults, rejected, doomed, made,
                 wiped, owed>>

\* ... and the archived one copied in.  The last line removes as the SSH user what
\* root unpacked, which may fail when all is done.
Unpack ==
  /\ At("unpack")
  /\ live' = cli.from /\ there' = TRUE
  /\ frayed' = {}
  /\ \E ok \in BOOLEAN : Finish(ok)
  /\ UNCHANGED <<stage, saved, run, shelf, recorded, faults, want, rejected, doomed,
                 made, wiped, owed>>

-----------------------------------------------------------------------------
(* server cleanup. *)

\* A backup record, or --skip-backup-check, lets it begin.
Cleanup ==
  /\ \E flags \in SUBSET Flags, skipCheck \in BOOLEAN :
       /\ recorded \/ skipCheck
       /\ Begin("cleanup", IF "monitoring" \in flags THEN "down_monitoring" ELSE "down",
                flags, NoStack)
  /\ owed' = FALSE
  /\ UNCHANGED <<host, recorded, done, faults, want, frayed, rejected, doomed, made,
                 wiped>>

Stopped == [img |-> 0, cfg |-> 0, bot |-> NoBot, mon |-> FALSE]

\* Both downs remove all the project's containers (--remove-orphans, and the first
\* names both files), and `|| true` makes both succeed, so that the directory goes.
Down ==
  /\ \/ At("down_monitoring") /\ Goto("down")
     \/ At("down") /\ Goto("remove")
  /\ TakeDown({"core", "bot", "mon"})
  /\ UNCHANGED <<live, there, stage, saved, shelf, recorded, history>>

\* The stage goes with the directory.  Then the volumes, if they are asked for, and one
\* that a container still holds is refused.
RemoveStack ==
  /\ At("remove")
  /\ live' = NoStack /\ there' = FALSE
  /\ want' = [s \in Secret |-> 0] /\ frayed' = {}
  /\ \/ IF "wipe" \in cli.flags THEN Goto("wipe") ELSE Finish(TRUE)
     \/ run # Stopped /\ Finish(FALSE)
  /\ UNCHANGED <<stage, saved, run, shelf, recorded, faults, rejected, doomed, made,
                 wiped, owed>>

\* The backup record stays, unless the server's rows go (--remove-local, which
\* ServerFleet has).
Wipe ==
  /\ At("wipe")
  /\ shelf' = [dir |-> FALSE, items |-> <<>>]
  /\ wiped' = made
  /\ Finish(TRUE)
  /\ UNCHANGED <<live, there, stage, saved, run, recorded, faults, want, frayed, rejected,
                 doomed, made, owed>>

-----------------------------------------------------------------------------
(* Faults. *)

\* The command ends between two steps.
Cut ==
  /\ Fault /\ cli # Idle /\ Finish(FALSE)
  /\ frayed' = IF At("keep") THEN Secret ELSE frayed
  /\ UNCHANGED <<host, recorded, want, rejected, doomed, made, wiped, owed>>

\* Inside a copy to the live directory, which is left in pieces.
CutCopy ==
  /\ Fault /\ cli.step \in {"copy", "unpack"} /\ Finish(FALSE) /\ there' = TRUE
  /\ LET source == IF At("copy") THEN [ver |-> stage.ver, secret |-> StagedSecret]
                                 ELSE [ver |-> cli.from.ver, secret |-> cli.from.secret]
     IN  \E copied \in SUBSET Secret :
           live' = [ver |-> source.ver, whole |-> FALSE,
                    secret |-> [s \in Secret |-> IF s \in copied THEN source.secret[s]
                                                               ELSE live.secret[s]]]
  /\ frayed' = Secret
  /\ UNCHANGED <<stage, saved, run, shelf, recorded, want, rejected, doomed, made,
                 wiped, owed>>

\* Inside docker compose up: the core is new, monitoring is not.
CutUp ==
  /\ Fault /\ At("up") /\ Finish(FALSE)
  /\ run' = [run EXCEPT !.img = live.ver, !.cfg = Config(live)]
  /\ UNCHANGED <<live, there, stage, saved, shelf, recorded, history>>

\* Inside cp, tar or on a full disk, where a piece of a copy stays under its name, or
\* after it: nothing is pruned.
CutSnapshot ==
  /\ Fault /\ At("snapshot") /\ shelf.dir /\ Finish(FALSE)
  /\ \E good \in BOOLEAN :
       /\ shelf' = [shelf EXCEPT !.items =
                      Append(@, [id |-> 0, good |-> good, stack |-> live])]
       /\ doomed' = IF good /\ live.whole THEN 0 ELSE doomed + 1
  /\ UNCHANGED <<live, there, stage, saved, run, recorded, want, frayed, rejected, made,
                 wiped, owed>>

CutArchive ==
  /\ Fault /\ At("archive") /\ made < MaxArchives /\ there /\ Finish(FALSE)
  /\ \E good \in BOOLEAN :
       /\ shelf' = [dir |-> TRUE, items |->
                      Append(shelf.items, [id |-> made + 1, good |-> good, stack |-> live])]
       /\ doomed' = IF good /\ live.whole THEN 0 ELSE doomed + 1
  /\ made' = made + 1
  /\ UNCHANGED <<live, there, stage, saved, run, recorded, want, frayed, rejected, wiped,
                 owed>>

\* The containers that exist start again, from the files that are there now.
Reboot ==
  /\ Fault /\ run # Stopped
  /\ run' = [run EXCEPT !.cfg = IF run.img = 0 THEN @ ELSE Config(live),
                        !.bot = IF @ = NoBot THEN @ ELSE live.secret["bot"]]
  /\ UNCHANGED <<live, there, stage, saved, shelf, recorded, cli, done, given, history>>

Next ==
  \/ Upload("deploy", {})
  \/ \E flags \in SUBSET {"monitoring"} : want["bot"] < MaxTokens /\ Upload("setup", flags)
  \/ Snapshot \/ Validate \/ SaveSecrets \/ CopyStage \/ KeepSecrets \/ Up
  \/ UploadToken \/ RestartTelegramBot \/ MonitoringUp \/ MonitoringDown \/ AwaitBot
  \/ Monitor \/ Restart
  \/ Backup \/ Archive \/ Record \/ Restore \/ Clear \/ Unpack
  \/ Cleanup \/ Down \/ RemoveStack \/ Wipe
  \/ Cut \/ CutCopy \/ CutUp \/ CutSnapshot \/ CutArchive \/ Reboot

Spec == Init /\ [][Next]_vars
-----------------------------------------------------------------------------
(* What a host relies on. *)

\* A bundle that the validations refuse is never installed and never runs, whatever
\* is cut, retried or restored.
RefusedNeverRuns == {live.ver, run.img, run.cfg} \intersect rejected = {}

\* The docs call the snapshots a way back.  Once a deploy has completed there is one
\* until the operator asks for a cleanup: the live stack is in one piece, or a copy of
\* such a stack is on the shelf, unless Keep copies of the wreck, or copies that were
\* cut, have pushed it out.
WayBack ==
  owed => \/ live.whole
          \/ doomed >= Keep
          \/ \E e \in ToSet(shelf.items) : e.good /\ e.stack.whole

\* The newest Keep archives of the server are on the shelf, whatever deploys and
\* failed backups came after them, unless a cleanup was told to remove them.
ArchivesKept ==
  \A id \in 1 .. made : id > wiped /\ id > made - Keep
    => \E e \in ToSet(shelf.items) : e.id = id

\* A deploy preserves the secrets it finds: between an upload of the bot's token, or a
\* deploy with an admin token, and an apply that is cut, they are on the host.
SecretsKept ==
  \A s \in Secret \ frayed :
    want[s] \in {live.secret[s]} \union (IF At("keep") THEN {saved[s]} ELSE {})

\* A deploy or a telegram-setup that reports success has done what it is for, reboots
\* included: the new bundle is live in one piece and runs, no bot runs with another
\* token than the live one, and after telegram-setup it runs with the one uploaded.
SuccessIsReal ==
  cli = Idle /\ done.ok /\ done.cmd \in {"deploy", "setup"} =>
    /\ live.whole /\ live.ver = stage.ver
    /\ run.img = live.ver /\ run.cfg = live.ver
    /\ run.bot \in {NoBot, live.secret["bot"]}
    /\ done.cmd = "setup" => run.bot = want["bot"]
=============================================================================
