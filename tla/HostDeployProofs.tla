--------------------------- MODULE HostDeployProofs ---------------------------
(* Proofs about HostDeploy, for any number of bundles, tokens, archives,    *)
(* commands and faults, and any number of entries that are kept.            *)
EXTENDS HostDeploy, SequenceTheorems, FiniteSetTheorems, TLAPS

-----------------------------------------------------------------------------
(* The inductive invariant.                                                *)

\* The steps belong to their commands.
StepsOfCommands ==
  /\ cli.step = "none" <=> cli = Idle
  /\ cli.step \in {"snapshot", "validate", "save", "copy", "keep", "up"}
       => cli.cmd \in {"deploy", "setup"}
  /\ cli.step \in {"token", "bot", "ready"} => cli.cmd = "setup"
  /\ cli.step = "monitoring" => cli.cmd \in {"setup", "monitor"}
  /\ cli.step \in {"archive", "record"} => cli.cmd = "backup"
  /\ cli.step \in {"clear", "unpack"} => cli.cmd = "restore"
  /\ cli.step \in {"down_monitoring", "down", "remove", "wipe"} => cli.cmd = "cleanup"

\* What is installed, runs or can be restored comes from a bundle that was accepted.
Accepted == 0 .. stage.ver \ rejected
OnlyAccepted ==
  /\ rejected \subseteq 1 .. stage.ver
  /\ stage.ok => stage.ver \notin rejected
  /\ cli.step \in {"save", "copy"} => stage.ok
  /\ {live.ver, run.img, run.cfg, cli.from.ver} \subseteq Accepted
  /\ \A i \in DOMAIN shelf.items : shelf.items[i].stack.ver \in Accepted

\* A stack in one piece comes from a bundle.
WholeIsOfBundle ==
  /\ cli.step \in {"snapshot", "validate", "save", "copy"} => stage.ver # 0
  /\ live.whole => live.ver # 0
  /\ cli.from.whole => cli.from.ver # 0
  /\ \A i \in DOMAIN shelf.items :
       shelf.items[i].stack.whole => shelf.items[i].stack.ver # 0

\* The secrets are in the live stack, or copied aside while the apply script runs.
SecretsHeld ==
  /\ ~At("keep") => \A s \in Secret \ frayed : want[s] = live.secret[s]
  /\ At("keep") => \A s \in Secret \ frayed : want[s] = saved[s]
  /\ At("keep") => live.secret = StagedSecret
  /\ At("copy") => saved = live.secret
  /\ At("unpack") => want = cli.from.secret

\* The steps of telegram-setup after its deploy.
AfterUp == cli.step \in {"token", "bot", "ready"} \/ (At("monitoring") /\ cli.cmd = "setup")

\* How far a command has come.
Progress ==
  /\ At("keep") \/ At("up") \/ AfterUp => live.whole /\ live.ver = stage.ver
  /\ AfterUp => run.img = live.ver /\ run.cfg = live.ver
  /\ AfterUp /\ ~At("token") => "bot" \notin frayed
  /\ At("ready") \/ (At("monitoring") /\ cli.cmd = "setup")
       => run.bot \in {NoBot, live.secret["bot"]}

\* What a success leaves, while no command runs.
Success ==
  cli = Idle /\ done.ok /\ done.cmd \in {"deploy", "setup"} =>
    /\ live.whole /\ live.ver = stage.ver
    /\ run.img = live.ver /\ run.cfg = live.ver
    /\ run.bot \in {NoBot, live.secret["bot"]}
    /\ done.cmd = "setup" => run.bot = want["bot"] /\ want["bot"] = live.secret["bot"]

\* A copy of a stack in one piece is on the shelf, the newest of them behind no more
\* entries than were counted since.
Copy(i) == i \in DOMAIN shelf.items /\ shelf.items[i].good /\ shelf.items[i].stack.whole
HasCopy == \E i \in DOMAIN shelf.items : Copy(i)
CopyIsNear ==
  doomed < Keep /\ HasCopy => \E i \in DOMAIN shelf.items : Copy(i) /\ Len(shelf.items) - i <= doomed
\* There is a copy wherever the live stack is, or may soon be, in pieces.
CopyIsHeld ==
  /\ owed /\ ~live.whole /\ doomed < Keep => HasCopy
  /\ cli.step \in {"validate", "save", "copy"} /\ live.whole => HasCopy
  /\ cli.step \in {"clear", "unpack"} => HasCopy
  /\ cli.cmd = "cleanup" => ~owed

\* The archives of a list are in order, none of them later than a given one.
InOrder(items, last) ==
  /\ \A i \in DOMAIN items : items[i].id <= last
  /\ \A i \in DOMAIN items, j \in DOMAIN items :
       i < j /\ items[i].id # 0 /\ items[j].id # 0 => items[i].id < items[j].id

\* The archives on the shelf are in the order in which they were begun.
ArchivesInOrder ==
  /\ InOrder(shelf.items, made)
  /\ ~LooksLikeStamp => ArchivesKept

\* What is on the shelf.
Shelved == CopyIsNear /\ CopyIsHeld /\ ArchivesInOrder

\* The inductive invariant: each part is kept with the help of the others.
IInv ==
  /\ TypeOK /\ StepsOfCommands /\ OnlyAccepted /\ WholeIsOfBundle /\ SecretsHeld
  /\ Progress /\ Success /\ Shelved

-----------------------------------------------------------------------------
(* Facts about the entries that are kept.                                  *)

\* The rank of a place tells it from the other places, and no rank is left out.
LEMMA RankIsNumbering ==
  ASSUME NEW n \in Nat, NEW places \in SUBSET (1 .. n)
  PROVE  /\ Cardinality(places) \in Nat
         /\ \A i \in places : Rank(places, i) \in 1 .. Cardinality(places)
         /\ \A i \in places, j \in places : i < j => Rank(places, i) < Rank(places, j)
         /\ \A k \in 1 .. Cardinality(places) : \E i \in places : Rank(places, i) = k
         /\ \A i \in places : Cardinality(places) - Rank(places, i) <= n - i
<1> DEFINE UpTo(i) == {j \in places : j <= i}
           m == Cardinality(places)
<1>1. IsFiniteSet(places) /\ m \in Nat
  <2>1. IsFiniteSet(1 .. n)
    BY FS_Interval
  <2>2. IsFiniteSet(places)
    BY <2>1, FS_Subset
  <2> QED BY <2>2, FS_CardinalityType
<1>2. \A i \in places : IsFiniteSet(UpTo(i)) /\ Cardinality(UpTo(i)) <= m
                        /\ Cardinality(UpTo(i)) \in Nat
  <2> TAKE i \in places
  <2>1. UpTo(i) \in SUBSET places
    OBVIOUS
  <2> QED BY <1>1, <2>1, FS_Subset, FS_CardinalityType
<1>3. \A i \in places : Rank(places, i) \in 1 .. m
  <2> TAKE i \in places
  <2>1. UpTo(i) # {}
    OBVIOUS
  <2>2. Cardinality(UpTo(i)) # 0
    BY <1>2, <2>1, FS_EmptySet
  <2> QED BY <1>1, <1>2, <2>2 DEF Rank
<1>4. ASSUME NEW i \in places, NEW j \in places, i < j
      PROVE  Rank(places, i) < Rank(places, j)
  <2>1. UpTo(i) \in SUBSET UpTo(j) /\ UpTo(i) # UpTo(j)
    <3>1. i \in Int /\ j \in Int /\ j \in UpTo(j) /\ j \notin UpTo(i)
      BY <1>4
    <3>2. ASSUME NEW x \in UpTo(i) PROVE x \in UpTo(j)
      BY <1>4, <3>1, <3>2
    <3> QED BY <3>1, <3>2
  <2>2. Cardinality(UpTo(i)) <= Cardinality(UpTo(j)) /\ Cardinality(UpTo(i)) # Cardinality(UpTo(j))
    BY <1>2, <2>1, FS_Subset
  <2> QED BY <1>2, <2>2 DEF Rank
<1>5. \A k \in 1 .. m : \E i \in places : Rank(places, i) = k
  <2> DEFINE f == [i \in places |-> Rank(places, i)]
  <2>1. f \in Injection(places, 1 .. m)
    <3>1. \A i \in places, j \in places : f[i] = f[j] => i = j
      <4> SUFFICES ASSUME NEW i \in places, NEW j \in places, Rank(places, i) = Rank(places, j),
                          i # j
                   PROVE  FALSE
        OBVIOUS
      <4>1. i < j \/ j < i
        OBVIOUS
      <4> QED BY <1>3, <1>4, <4>1
    <3> QED BY <1>3, <3>1 DEF Injection, IsInjective
  <2>2. IsFiniteSet(1 .. m) /\ Cardinality(1 .. m) = m
    BY <1>1, FS_Interval
  <2>3. f \in Surjection(places, 1 .. m)
    BY <1>1, <2>1, <2>2, FS_Injection
  <2> QED BY <2>3 DEF Surjection
<1>6. ASSUME NEW i \in places PROVE m - Rank(places, i) <= n - i
  <2> DEFINE Above == {j \in places : j > i}
  <2>1. Above \in SUBSET (i + 1 .. n) /\ i \in 1 .. n
    <3>1. \A j \in places : j \in 1 .. n
      OBVIOUS
    <3>2. \A j \in Above : j \in i + 1 .. n
      BY <1>6, <3>1
    <3> QED BY <1>6, <3>1, <3>2
  <2>2. /\ IsFiniteSet(Above) /\ Cardinality(Above) \in Nat /\ Cardinality(Above) <= n - i
    <3>1. /\ IsFiniteSet(i + 1 .. n)
          /\ Cardinality(i + 1 .. n) = IF i + 1 > n THEN 0 ELSE n - (i + 1) + 1
      BY <2>1, FS_Interval
    <3>2. IsFiniteSet(Above) /\ Cardinality(Above) <= Cardinality(i + 1 .. n)
      BY <2>1, <3>1, FS_Subset
    <3> QED BY <2>1, <3>1, <3>2, FS_CardinalityType
  <2>3. UpTo(i) \union Above = places /\ UpTo(i) \intersect Above = {}
    <3>1. \A j \in places : (j <= i \/ j > i) /\ ~(j <= i /\ j > i)
      BY <2>1
    <3> QED BY <3>1
  <2>4. m = Cardinality(UpTo(i)) + Cardinality(Above)
    <3>1. IsFiniteSet(UpTo(i)) /\ IsFiniteSet(Above) /\ Cardinality(UpTo(i)) \in Nat
      BY <1>2, <1>6, <2>2
    <3>2. Cardinality(UpTo(i) \union Above) = Cardinality(UpTo(i)) + Cardinality(Above)
                                                - Cardinality(UpTo(i) \intersect Above)
      BY <3>1, FS_Union
    <3>3. Cardinality(UpTo(i) \intersect Above) = 0
      BY <2>3, FS_EmptySet
    <3>4. Cardinality(UpTo(i) \union Above) = m
      BY <2>3
    <3> HIDE DEF UpTo, Above
    <3> QED BY <2>2, <3>1, <3>2, <3>3, <3>4
  <2> QED BY <1>1, <1>2, <2>1, <2>2, <2>4 DEF Rank
<1> QED BY <1>1, <1>3, <1>4, <1>5, <1>6

\* What is selected is what is at the places, in order, and no further from the end.
LEMMA SelectedInOrder ==
  ASSUME NEW S, NEW items \in Seq(S), NEW places \in SUBSET (DOMAIN items),
         NEW r, r = Selected(items, places)
  PROVE  /\ r \in Seq(S)
         /\ \A i \in places : \E k \in DOMAIN r :
              r[k] = items[i] /\ Len(r) - k <= Len(items) - i
         /\ \A k \in DOMAIN r : \E i \in places : r[k] = items[i]
         /\ \A k \in DOMAIN r, l \in DOMAIN r : k < l =>
              \E i \in places, j \in places : i < j /\ r[k] = items[i] /\ r[l] = items[j]
<1> DEFINE n == Len(items)
           m == Cardinality(places)
           Place(k) == CHOOSE i \in places : Rank(places, i) = k
<1>1. n \in Nat /\ DOMAIN items = 1 .. n /\ places \in SUBSET (1 .. n)
  OBVIOUS
<1>2. /\ m \in Nat
      /\ \A i \in places : Rank(places, i) \in 1 .. m /\ m - Rank(places, i) <= n - i
      /\ \A i \in places, j \in places : i < j => Rank(places, i) < Rank(places, j)
      /\ \A k \in 1 .. m : \E i \in places : Rank(places, i) = k
  BY <1>1, RankIsNumbering
<1>3. \A k \in 1 .. m : Place(k) \in places /\ Rank(places, Place(k)) = k
  BY <1>2
<1>4. \A i \in places : Place(Rank(places, i)) = i
  <2> TAKE i \in places
  <2> DEFINE j == Place(Rank(places, i))
  <2>1. j \in places /\ Rank(places, j) = Rank(places, i)
    BY <1>2, <1>3
  <2> HIDE DEF j
  <2>2. ~(i < j) /\ ~(j < i)
    BY <1>2, <2>1
  <2>3. i \in Int /\ j \in Int
    BY <1>1, <2>1
  <2>4. i = j
    BY <2>2, <2>3
  <2> QED BY <2>4 DEF j
<1>5. r = [k \in 1 .. m |-> items[Place(k)]]
  BY DEF Selected
<1> HIDE DEF Place
<1>6. DOMAIN r = 1 .. m /\ r \in Seq(S) /\ Len(r) = m
      /\ \A k \in 1 .. m : r[k] = items[Place(k)]
  <2>1. \A k \in 1 .. m : items[Place(k)] \in S
    BY <1>1, <1>3
  <2> QED BY <1>2, <1>5, <2>1
<1>7. \A i \in places : \E k \in DOMAIN r : r[k] = items[i] /\ Len(r) - k <= Len(items) - i
  BY <1>2, <1>4, <1>6
<1>8. \A k \in DOMAIN r : \E i \in places : r[k] = items[i]
  BY <1>3, <1>6
<1>9. ASSUME NEW k \in DOMAIN r, NEW l \in DOMAIN r, k < l
      PROVE  \E i \in places, j \in places : i < j /\ r[k] = items[i] /\ r[l] = items[j]
  <2>1. /\ Place(k) \in places /\ Place(l) \in places
        /\ Rank(places, Place(k)) = k /\ Rank(places, Place(l)) = l
    BY <1>3, <1>6
  <2>2. Place(k) \in Int /\ Place(l) \in Int /\ k \in Int /\ l \in Int
    BY <1>1, <1>6, <2>1
  <2>3. Place(k) < Place(l)
    <3>1. Place(l) < Place(k) => l < k
      BY <1>2, <2>1
    <3>2. Place(l) = Place(k) => l = k
      BY <2>1
    <3> QED BY <1>9, <2>2, <3>1, <3>2
  <2> QED BY <1>6, <2>1, <2>3
<1> QED BY <1>6, <1>7, <1>8, <1>9

\* What stays when some of those counted go: what is not counted and the newest Keep
\* of what is, in order, and no further from the end.
LEMMA PrunedInOrder ==
  ASSUME NEW items \in Seq(Entries), NEW counted \in SUBSET (DOMAIN items),
         NEW r, r = Pruned(items, counted)
  PROVE  /\ r \in Seq(Entries)
         /\ \A i \in DOMAIN items : (i \in counted => Newer(counted, i) <= Keep)
              => \E k \in DOMAIN r : r[k] = items[i] /\ Len(r) - k <= Len(items) - i
         /\ \A k \in DOMAIN r : \E i \in DOMAIN items : r[k] = items[i]
         /\ \A k \in DOMAIN r, l \in DOMAIN r : k < l =>
              \E i \in DOMAIN items, j \in DOMAIN items :
                i < j /\ r[k] = items[i] /\ r[l] = items[j]
<1> DEFINE places == {i \in DOMAIN items : i \in counted => Newer(counted, i) <= Keep}
<1>1. places \in SUBSET (DOMAIN items) /\ r = Selected(items, places)
  BY DEF Pruned
<1>2. \A i \in DOMAIN items : (i \in counted => Newer(counted, i) <= Keep) => i \in places
  BY DEF Pruned
<1> HIDE DEF places
<1>3. r \in Seq(Entries)
  BY <1>1, SelectedInOrder
<1>4. \A i \in DOMAIN items : (i \in counted => Newer(counted, i) <= Keep)
        => \E k \in DOMAIN r : r[k] = items[i] /\ Len(r) - k <= Len(items) - i
  <2>1. \A i \in places : \E k \in DOMAIN r : r[k] = items[i] /\ Len(r) - k <= Len(items) - i
    BY <1>1, SelectedInOrder
  <2> QED BY <1>2, <2>1
<1>5. \A k \in DOMAIN r : \E i \in DOMAIN items : r[k] = items[i]
  <2>1. \A k \in DOMAIN r : \E i \in places : r[k] = items[i]
    BY <1>1, SelectedInOrder
  <2> QED BY <1>1, <2>1
<1>6. ASSUME NEW k \in DOMAIN r, NEW l \in DOMAIN r, k < l
      PROVE  \E i \in DOMAIN items, j \in DOMAIN items :
               i < j /\ r[k] = items[i] /\ r[l] = items[j]
  <2>1. \A a \in DOMAIN r, b \in DOMAIN r : a < b =>
          \E i \in places, j \in places : i < j /\ r[a] = items[i] /\ r[b] = items[j]
    BY <1>1, SelectedInOrder
  <2>2. PICK i \in places, j \in places : i < j /\ r[k] = items[i] /\ r[l] = items[j]
    BY <1>6, <2>1
  <2> QED BY <1>1, <2>2
<1> QED BY <1>3, <1>4, <1>5, <1>6

-----------------------------------------------------------------------------
(* Facts about the state.                                                  *)

\* The bounds are numbers.
LEMMA Numbers ==
  /\ MaxBundles \in Nat /\ MaxTokens \in Nat /\ MaxArchives \in Nat
  /\ MaxCommands \in Nat /\ MaxFaults \in Nat /\ Keep \in Nat \ {0}
  /\ 0 \in Tokens /\ NoBot \notin Tokens /\ Tokens \subseteq Nat
BY HostAssumption DEF Tokens, NoBot

\* The fields of the records that the state is made of.
LEMMA Fields ==
  ASSUME TypeOK
  PROVE  /\ live.ver \in 0 .. MaxBundles /\ live.whole \in BOOLEAN /\ there \in BOOLEAN
         /\ live.secret \in [Secret -> Tokens]
         /\ stage.ver \in 0 .. MaxBundles /\ stage.ok \in BOOLEAN /\ stage.admin \in Tokens
         /\ run.img \in 0 .. MaxBundles /\ run.cfg \in 0 .. MaxBundles
         /\ run.bot \in {NoBot} \union Tokens /\ run.mon \in BOOLEAN
         /\ cli.cmd \in Commands \union {"none"} /\ cli.flags \in SUBSET Flags
         /\ cli.from \in Stacks /\ cli.from.whole \in BOOLEAN
         /\ done.cmd \in Commands \union {"none"} /\ done.ok \in BOOLEAN
         /\ shelf.items \in Seq(Entries) /\ Len(shelf.items) \in Nat
         /\ DOMAIN shelf.items = 1 .. Len(shelf.items)
<1>1. /\ live.ver \in 0 .. MaxBundles /\ live.whole \in BOOLEAN /\ there \in BOOLEAN
      /\ live.secret \in [Secret -> Tokens]
      /\ stage.ver \in 0 .. MaxBundles /\ stage.ok \in BOOLEAN /\ stage.admin \in Tokens
  BY DEF TypeOK, Stacks
<1>2. /\ run.img \in 0 .. MaxBundles /\ run.cfg \in 0 .. MaxBundles
      /\ run.bot \in {NoBot} \union Tokens /\ run.mon \in BOOLEAN
  BY DEF TypeOK, Running
<1>3. /\ cli.cmd \in Commands \union {"none"} /\ cli.flags \in SUBSET Flags
      /\ cli.from \in Stacks /\ cli.from.whole \in BOOLEAN
      /\ done.cmd \in Commands \union {"none"} /\ done.ok \in BOOLEAN
  BY DEF TypeOK, Stacks
<1>4. /\ shelf.items \in Seq(Entries) /\ Len(shelf.items) \in Nat
      /\ DOMAIN shelf.items = 1 .. Len(shelf.items)
  BY DEF TypeOK
<1> QED BY <1>1, <1>2, <1>3, <1>4

\* No stack is a stack, and what is read from one has its type.
LEMMA ReadFromStack ==
  ASSUME TypeOK
  PROVE  /\ NoStack \in Stacks /\ Stopped \in Running
         /\ Config(live) \in {0, live.ver} /\ Config(live) \in 0 .. MaxBundles
         /\ live.whole => Config(live) = live.ver
         /\ BotOf(live) \in {NoBot, live.secret["bot"]}
         /\ BotOf(live) \in {NoBot} \union Tokens /\ live.secret["bot"] \in Tokens
         /\ HasMonitoring \in BOOLEAN
         /\ ~HasMonitoring => run.bot = NoBot
<1>1. NoStack \in Stacks /\ Stopped \in Running
  BY Numbers DEF NoStack, Stacks, Stopped, Running
<1>2. /\ Config(live) \in {0, live.ver} /\ Config(live) \in 0 .. MaxBundles
      /\ live.whole => Config(live) = live.ver
  BY Numbers, Fields DEF Config
<1>3. /\ BotOf(live) \in {NoBot, live.secret["bot"]}
      /\ BotOf(live) \in {NoBot} \union Tokens /\ live.secret["bot"] \in Tokens
  BY Fields DEF BotOf, Secret
<1>4. HasMonitoring \in BOOLEAN /\ (~HasMonitoring => run.bot = NoBot)
  BY Fields DEF HasMonitoring
<1> QED BY <1>1, <1>2, <1>3, <1>4

\* The newest Keep entries stay, whichever are counted.
LEMMA NewestStay ==
  ASSUME NEW items \in Seq(Entries), NEW counted \in SUBSET (DOMAIN items),
         NEW r, r = Pruned(items, counted), NEW i \in DOMAIN items, Len(items) - i < Keep
  PROVE  \E k \in DOMAIN r : r[k] = items[i] /\ Len(r) - k <= Len(items) - i
<1> DEFINE n == Len(items)
           after == {j \in counted : j >= i}
<1>1. n \in Nat /\ i \in 1 .. n /\ DOMAIN items = 1 .. n
  OBVIOUS
<1>2. after \in SUBSET (i .. n)
  BY <1>1
<1>3. IsFiniteSet(i .. n) /\ Cardinality(i .. n) = n - i + 1
  BY <1>1, FS_Interval
<1>4. Cardinality(after) <= n - i + 1 /\ Cardinality(after) \in Nat
  BY <1>2, <1>3, FS_Subset, FS_CardinalityType
<1>5. Newer(counted, i) <= Keep
  BY <1>1, <1>4, Numbers DEF Newer
<1> QED BY <1>5, PrunedInOrder

\* What is true of every entry of a list with one more, of the old ones and of the new.
LEMMA OneMore ==
  ASSUME TypeOK, NEW e \in Entries, NEW items, items = Append(shelf.items, e)
  PROVE  /\ items \in Seq(Entries) /\ Len(items) = Len(shelf.items) + 1
         /\ DOMAIN items = 1 .. Len(shelf.items) + 1
         /\ items[Len(shelf.items) + 1] = e
         /\ \A i \in DOMAIN shelf.items : i \in DOMAIN items /\ items[i] = shelf.items[i]
         /\ \A i \in DOMAIN items : i \in DOMAIN shelf.items \/ i = Len(shelf.items) + 1
BY Fields

\* The command, the last one and how many there were.
CliOK ==
  /\ cli \in [cmd : Commands \union {"none"}, step : Steps \union {"none"},
              flags : SUBSET Flags, from : Stacks]
  /\ done \in [cmd : Commands \union {"none"}, ok : BOOLEAN]
  /\ given \in 0 .. MaxCommands

\* A command begins, goes on and ends.
LEMMA CommandBegins ==
  ASSUME TypeOK, NEW cmd \in Commands, NEW step \in Steps, NEW flags \in SUBSET Flags,
         NEW from, Begin(cmd, step, flags, from), from \in Stacks, done' = done
  PROVE  CliOK'
<1>1. given' \in 0 .. MaxCommands
  BY Numbers DEF Begin, Given, TypeOK
<1> QED BY <1>1 DEF Begin, CliOK, TypeOK

\* It goes on to one of its steps.
LEMMA CommandGoesOn ==
  ASSUME TypeOK, NEW step \in Steps, Goto(step)
  PROVE  CliOK'
BY DEF Goto, CliOK, TypeOK

\* It ends, well or not.
LEMMA CommandEnds ==
  ASSUME TypeOK, NEW ok \in BOOLEAN, Finish(ok)
  PROVE  CliOK'
<1>1. Idle \in [cmd : Commands \union {"none"}, step : Steps \union {"none"},
                flags : SUBSET Flags, from : Stacks]
  BY ReadFromStack DEF Idle
<1> QED BY <1>1, Fields DEF Finish, CliOK, TypeOK

\* What a fault costs.
LEMMA FaultIsCounted ==
  ASSUME TypeOK, Fault
  PROVE  faults' \in 0 .. MaxFaults
BY Numbers DEF TypeOK, Fault

\* Containers are removed, or some of them are, and nothing else runs.
LEMMA TakenDown ==
  ASSUME TypeOK, NEW services, TakeDown(services)
  PROVE  /\ run' \in Running /\ faults' \in 0 .. MaxFaults
         /\ run'.img \in {0, run.img} /\ run'.cfg \in {0, run.cfg}
<1>1. PICK gone \in SUBSET services : run' = Without(gone)
  BY DEF TakeDown
<1>2. /\ Without(gone) \in Running
      /\ Without(gone).img \in {0, run.img} /\ Without(gone).cfg \in {0, run.cfg}
  BY Fields, Numbers DEF Without, Running
<1>3. UNCHANGED faults \/ Fault
  BY DEF TakeDown
<1>4. faults' \in 0 .. MaxFaults
  BY <1>3, FaultIsCounted DEF TypeOK
<1> QED BY <1>1, <1>2, <1>4

\* The type of the state is that of its parts.
LEMMA TypeParts ==
  ASSUME live' \in Stacks, there' \in BOOLEAN, stage' \in [ver : 0 .. MaxBundles, ok : BOOLEAN, admin : Tokens],
         saved' \in [Secret -> Tokens], run' \in Running,
         shelf' \in [dir : BOOLEAN, items : Seq(Entries)], recorded' \in BOOLEAN, CliOK',
         faults' \in 0 .. MaxFaults, want' \in [Secret -> Tokens], frayed' \subseteq Secret,
         owed' \in BOOLEAN, rejected' \subseteq 1 .. MaxBundles,
         made' \in 0 .. MaxArchives, wiped' \in 0 .. MaxArchives, doomed' \in Nat
  PROVE  TypeOK'
BY DEF TypeOK, CliOK

\* An entry is put on the shelf, and some of those counted may go.
LEMMA ShelvedType ==
  ASSUME TypeOK, NEW e \in Entries, NEW counted \in SUBSET (1 .. Len(shelf.items) + 1),
         NEW items, items = Append(shelf.items, e)
  PROVE  items \in Seq(Entries) /\ Pruned(items, counted) \in Seq(Entries)
<1>1. items \in Seq(Entries)
  BY Fields
<1>2. Pruned(items, counted) \in Seq(Entries)
  BY <1>1, SelectedInOrder DEF Pruned
<1> QED BY <1>1, <1>2

\* What a backup puts on the shelf is an entry.
LEMMA NewArchive ==
  ASSUME TypeOK, made < MaxArchives, NEW good \in BOOLEAN
  PROVE  /\ [id |-> made + 1, good |-> good, stack |-> live] \in Entries
         /\ made + 1 \in 1 .. MaxArchives
<1>1. made \in 0 .. MaxArchives
  BY DEF TypeOK
<1>2. made + 1 \in 1 .. MaxArchives /\ made + 1 \in 0 .. MaxArchives
  BY <1>1, Numbers
<1> QED BY <1>2 DEF Entries, TypeOK

\* What a command leaves that is cut while it copies the stack: an entry, in one piece or
\* not, and nothing is pruned.
CutLeaves(e) ==
  /\ e.stack = live
  /\ \/ e.id = 0 /\ made' = made
     \/ e.id = made + 1 /\ made < MaxArchives /\ made' = made + 1
  /\ \E dir \in BOOLEAN : shelf' = [dir |-> dir, items |-> Append(shelf.items, e)]
  /\ doomed' = IF e.good /\ live.whole THEN 0 ELSE doomed + 1
  /\ cli' = Idle /\ UNCHANGED <<live, owed, wiped>>

\* A snapshot or a backup that is cut leaves such an entry.
LEMMA CutPut ==
  ASSUME TypeOK, CutSnapshot \/ CutArchive
  PROVE  \E e \in Entries : CutLeaves(e)
<1>1. CASE CutSnapshot
  <2>1. PICK good \in BOOLEAN :
          /\ shelf' = [shelf EXCEPT !.items =
                         Append(@, [id |-> 0, good |-> good, stack |-> live])]
          /\ doomed' = IF good /\ live.whole THEN 0 ELSE doomed + 1
    BY <1>1 DEF CutSnapshot
  <2>2. PICK e : e = [id |-> 0, good |-> good, stack |-> live]
    OBVIOUS
  <2>3. e \in Entries /\ e.id = 0 /\ e.good = good /\ e.stack = live
    BY <2>2, Numbers DEF Entries, TypeOK
  <2>4. \E dir \in BOOLEAN : shelf' = [dir |-> dir, items |-> Append(shelf.items, e)]
    BY <2>1, <2>2 DEF TypeOK
  <2> QED BY <1>1, <2>1, <2>3, <2>4 DEF CutSnapshot, Finish, CutLeaves
<1>2. CASE CutArchive
  <2>1. PICK good \in BOOLEAN :
          /\ shelf' = [dir |-> TRUE, items |->
                         Append(shelf.items, [id |-> made + 1, good |-> good, stack |-> live])]
          /\ doomed' = IF good /\ live.whole THEN 0 ELSE doomed + 1
    BY <1>2 DEF CutArchive
  <2>2. PICK e : e = [id |-> made + 1, good |-> good, stack |-> live]
    OBVIOUS
  <2>3. e \in Entries /\ e.id = made + 1 /\ e.good = good /\ e.stack = live
    BY <1>2, <2>2, NewArchive DEF CutArchive
  <2>4. shelf' = [dir |-> TRUE, items |-> Append(shelf.items, e)]
    BY <2>1, <2>2
  <2> QED BY <1>2, <2>1, <2>3, <2>4 DEF CutArchive, Finish, CutLeaves
<1> QED BY <1>1, <1>2

-----------------------------------------------------------------------------
(* The type of the state.                                                  *)

\* The prepared host is of its type.
LEMMA TypeInit == Init => TypeOK
<1> SUFFICES ASSUME Init PROVE TypeOK
  OBVIOUS
<1>1. NoStack \in Stacks /\ 0 \in Tokens
  BY Numbers DEF NoStack, Stacks
<1>2. live \in Stacks /\ stage \in [ver : 0 .. MaxBundles, ok : BOOLEAN, admin : Tokens]
      /\ saved \in [Secret -> Tokens] /\ run \in Running
  BY <1>1, Numbers DEF Init, Running
<1>8. there \in BOOLEAN
  BY DEF Init
<1>3. shelf \in [dir : BOOLEAN, items : Seq(Entries)] /\ recorded \in BOOLEAN
  <2>1. <<>> \in Seq(Entries)
    OBVIOUS
  <2> QED BY <2>1 DEF Init
<1>4. /\ cli \in [cmd : Commands \union {"none"}, step : Steps \union {"none"},
                  flags : SUBSET Flags, from : Stacks]
      /\ done \in [cmd : Commands \union {"none"}, ok : BOOLEAN]
  BY <1>1 DEF Init, Idle
<1>5. faults \in 0 .. MaxFaults /\ given \in 0 .. MaxCommands
  BY Numbers DEF Init
<1>6. /\ want \in [Secret -> Tokens] /\ frayed \subseteq Secret /\ owed \in BOOLEAN
      /\ rejected \subseteq 1 .. MaxBundles
  BY <1>1 DEF Init
<1>7. {made, wiped} \subseteq 0 .. MaxArchives /\ doomed \in Nat
  BY Numbers DEF Init
<1> QED BY <1>2, <1>3, <1>4, <1>5, <1>6, <1>7, <1>8 DEF TypeOK

\* The steps of deploy and of telegram-setup.
LEMMA TypeOfUpload ==
  ASSUME TypeOK, NEW cmd \in {"deploy", "setup"}, NEW flags \in SUBSET Flags,
         Upload(cmd, flags)
  PROVE  TypeOK'
<1>1. CliOK'
  BY CommandBegins, ReadFromStack DEF Upload, TypeOK, Commands, Steps
<1>2. PICK ok \in BOOLEAN, admin \in Tokens :
        /\ stage' = [ver |-> stage.ver + 1, ok |-> ok, admin |-> admin]
        /\ rejected' = IF ok THEN rejected ELSE rejected \union {stage.ver + 1}
  BY DEF Upload
<1>3. stage.ver + 1 \in 1 .. MaxBundles /\ stage.ver + 1 \in 0 .. MaxBundles
  BY Numbers, Fields, SMTT(30) DEF Upload
<1>4. stage' \in [ver : 0 .. MaxBundles, ok : BOOLEAN, admin : Tokens]
      /\ rejected' \subseteq 1 .. MaxBundles
  BY <1>2, <1>3, Numbers DEF TypeOK
<1>5. shelf' \in [dir : BOOLEAN, items : Seq(Entries)]
  BY DEF Upload, TypeOK
<1> QED BY <1>1, <1>4, <1>5 DEF Upload, TypeOK, CliOK

\* The scripts of a deploy, up to the restart of the bot.
LEMMA TypeOfDeploy ==
  ASSUME TypeOK,
         \/ Snapshot \/ Validate \/ SaveSecrets \/ CopyStage \/ KeepSecrets \/ Up
         \/ UploadToken \/ RestartTelegramBot
  PROVE  TypeOK'
<1>1. CliOK'
  BY CommandGoesOn, CommandEnds, TRUE \in BOOLEAN, FALSE \in BOOLEAN
  DEF Snapshot, Validate, SaveSecrets, CopyStage, KeepSecrets, Up, UploadToken,
    RestartTelegramBot, Steps
<1>2. CASE Snapshot
  <2>1. shelf' \in [dir : BOOLEAN, items : Seq(Entries)]
    <3> DEFINE e == [id |-> 0, good |-> TRUE, stack |-> live]
               items == Append(shelf.items, e)
    <3>1. e \in Entries
      BY Numbers DEF Entries, TypeOK
    <3>2. SnapshotEntries(items) \in SUBSET (1 .. Len(shelf.items) + 1)
      BY Fields DEF SnapshotEntries
    <3>3. Pruned(items, SnapshotEntries(items)) \in Seq(Entries)
      BY <3>1, <3>2, ShelvedType
    <3> QED BY <1>2, <3>3 DEF Snapshot, TypeOK
  <2>2. doomed' \in Nat
    <3>1. doomed \in Nat /\ doomed' \in {0, doomed, doomed + 1}
      BY <1>2 DEF Snapshot, TypeOK
    <3> QED BY <3>1
  <2> QED BY <1>1, <1>2, <2>1, <2>2 DEF Snapshot, TypeOK, CliOK
<1>3. CASE Validate
  BY <1>1, <1>3 DEF Validate, host, history, TypeOK, CliOK
<1>4. CASE SaveSecrets
  BY <1>1, <1>4, Fields DEF SaveSecrets, history, TypeOK, CliOK
<1>5. CASE CopyStage
  <2>1. live' \in Stacks
    BY <1>5, Fields, Numbers DEF CopyStage, Stacks, StagedSecret, Secret
  <2> QED BY <1>1, <1>5, <2>1 DEF CopyStage, history, TypeOK, CliOK
<1>6. CASE KeepSecrets
  <2>1. live' \in Stacks
    BY <1>6, Fields DEF KeepSecrets, TypeOK, Stacks
  <2>2. saved' \in [Secret -> Tokens] /\ want' \in [Secret -> Tokens] /\ frayed' \subseteq Secret
    BY <1>6, Fields, Numbers DEF KeepSecrets, TypeOK
  <2> QED BY <1>1, <1>6, <2>1, <2>2 DEF KeepSecrets, TypeOK, CliOK
<1>7. CASE Up
  <2>1. run' \in Running
    BY <1>7, Fields, ReadFromStack DEF Up, TypeOK, Running
  <2> QED BY <1>1, <1>7, <2>1 DEF Up, TypeOK, CliOK
<1>8. CASE UploadToken
  <2>1. want["bot"] + 1 \in Tokens /\ "bot" \in Secret
    <3>1. "bot" \in Secret /\ want["bot"] \in Tokens
      BY DEF Secret, TypeOK
    <3>2. want["bot"] < MaxTokens
      BY <1>8 DEF UploadToken
    <3> QED BY <3>1, <3>2, Numbers DEF Tokens
  <2>2. live' \in Stacks
    BY <1>8, <2>1, Fields DEF UploadToken, TypeOK, Stacks
  <2>3. want' \in [Secret -> Tokens] /\ frayed' \subseteq Secret
    BY <1>8, <2>1 DEF UploadToken, TypeOK
  <2> QED BY <1>1, <1>8, <2>2, <2>3 DEF UploadToken, TypeOK, CliOK
<1>9. CASE RestartTelegramBot
  <2>1. run' \in Running
    BY <1>9, Fields, ReadFromStack DEF RestartTelegramBot, TypeOK, Running
  <2> QED BY <1>1, <1>9, <2>1 DEF RestartTelegramBot, history, TypeOK, CliOK
<1> QED BY <1>2, <1>3, <1>4, <1>5, <1>6, <1>7, <1>8, <1>9

\* The steps of monitor, restart, and of telegram-setup after its deploy.
LEMMA TypeOfMonitoring ==
  ASSUME TypeOK, MonitoringUp \/ MonitoringDown \/ AwaitBot \/ Monitor \/ Restart
  PROVE  TypeOK'
<1>1. CASE MonitoringUp
  <2>1. CliOK'
    BY <1>1, CommandGoesOn, CommandEnds, TRUE \in BOOLEAN, FALSE \in BOOLEAN
    DEF MonitoringUp, Steps
  <2>2. run' \in Running
    <3>1. CASE run' = run
      BY <3>1 DEF TypeOK
    <3>2. CASE run' # run
      <4>1. PICK img \in {live.ver, run.img}, bot \in {run.bot, BotOf(live)} :
              run' = [img |-> img, bot |-> bot, mon |-> TRUE,
                      cfg |-> IF img = run.img THEN run.cfg ELSE Config(live)]
        BY <1>1, <3>2 DEF MonitoringUp, Refreshed
      <4>2. img \in 0 .. MaxBundles /\ bot \in {NoBot} \union Tokens
        BY Fields, ReadFromStack
      <4> QED BY <4>1, <4>2, Fields, ReadFromStack DEF Running
    <3> QED BY <3>1, <3>2
  <2> QED BY <1>1, <2>1, <2>2 DEF MonitoringUp, history, TypeOK, CliOK
<1>2. CASE MonitoringDown
  <2>1. CliOK'
    BY <1>2, CommandEnds DEF MonitoringDown, TypeOK
  <2>2. run' \in Running /\ faults' \in 0 .. MaxFaults
    BY <1>2, TakenDown DEF MonitoringDown
  <2> QED BY <1>2, <2>1, <2>2 DEF MonitoringDown, history, TypeOK, CliOK
<1>3. CASE AwaitBot
  <2>1. CliOK'
    BY <1>3, CommandEnds, TRUE \in BOOLEAN, FALSE \in BOOLEAN DEF AwaitBot
  <2> QED BY <1>3, <2>1 DEF AwaitBot, host, history, TypeOK, CliOK
<1>4. CASE Monitor
  <2>1. CliOK'
    BY <1>4, CommandBegins, ReadFromStack DEF Monitor, TypeOK, Commands, Steps, Flags
  <2> QED BY <1>4, <2>1 DEF Monitor, host, history, TypeOK, CliOK
<1>5. CASE Restart
  <2>1. given' \in 0 .. MaxCommands /\ "restart" \in Commands
    BY <1>5, Numbers, SMTT(30) DEF Restart, Given, TypeOK, Commands
  <2>2. PICK ok \in BOOLEAN :
          /\ done' = [cmd |-> "restart", ok |-> ok]
          /\ run' \in {run, [run EXCEPT !.cfg = Config(live)]}
    BY <1>5 DEF Restart
  <2>3. run' \in Running
    BY <2>2, Fields, ReadFromStack DEF TypeOK, Running
  <2>4. done' \in [cmd : Commands \union {"none"}, ok : BOOLEAN]
    BY <2>1, <2>2, Fields
  <2> QED BY <1>5, <2>1, <2>3, <2>4 DEF Restart, history, TypeOK
<1> QED BY <1>1, <1>2, <1>3, <1>4, <1>5

\* The steps of backup and restore.
LEMMA TypeOfBackup ==
  ASSUME TypeOK, Backup \/ Archive \/ Record \/ Restore \/ Clear \/ Unpack
  PROVE  TypeOK'
<1>1. CASE Backup
  <2>1. CliOK'
    BY <1>1, CommandBegins, ReadFromStack DEF Backup, TypeOK, Commands, Steps
  <2> QED BY <1>1, <2>1 DEF Backup, host, history, TypeOK, CliOK
<1>2. CASE Archive
  <2>1. CliOK'
    BY <1>2, CommandGoesOn, CommandEnds, TRUE \in BOOLEAN, FALSE \in BOOLEAN
    DEF Archive, Steps
  <2>2. made' \in 0 .. MaxArchives
    <3>1. made \in 0 .. MaxArchives /\ made < MaxArchives /\ made' \in {made, made + 1}
      BY <1>2 DEF Archive, TypeOK
    <3> QED BY <3>1, Numbers
  <2>3. doomed' \in Nat
    <3>1. doomed \in Nat /\ doomed' \in {0, doomed, doomed + 1}
      BY <1>2 DEF Archive, TypeOK
    <3> QED BY <3>1
  <2>4. shelf' \in [dir : BOOLEAN, items : Seq(Entries)]
    <3> DEFINE e == [id |-> made + 1, good |-> TRUE, stack |-> live]
               items == Append(shelf.items, e)
    <3>1. e \in Entries
      <4>1. made + 1 \in 0 .. MaxArchives
        BY <1>2, Numbers, SMTT(30) DEF Archive, TypeOK
      <4> QED BY <4>1 DEF Entries, TypeOK
    <3>2. ArchiveEntries(items) \in SUBSET (1 .. Len(shelf.items) + 1)
      BY Fields DEF ArchiveEntries
    <3>3. Pruned(items, ArchiveEntries(items)) \in Seq(Entries)
      BY <3>1, <3>2, ShelvedType
    <3>4. CASE shelf' = [shelf EXCEPT !.dir = TRUE]
      BY <3>4 DEF TypeOK
    <3>5. CASE shelf' = [dir |-> TRUE, items |-> Pruned(items, ArchiveEntries(items))]
      BY <3>3, <3>5
    <3> QED BY <1>2, <3>4, <3>5 DEF Archive
  <2> QED BY <1>2, <2>1, <2>2, <2>3, <2>4 DEF Archive, TypeOK, CliOK
<1>3. CASE Record
  <2>1. CliOK'
    BY <1>3, CommandEnds DEF Record
  <2> QED BY <1>3, <2>1 DEF Record, host, history, TypeOK, CliOK
<1>4. CASE Restore
  <2>1. PICK e \in ToSet(shelf.items) : Begin("restore", "clear", {}, e.stack)
    BY <1>4 DEF Restore
  <2>2. e.stack \in Stacks
    <3>1. PICK i \in DOMAIN shelf.items : e = shelf.items[i]
      BY DEF ToSet
    <3>2. e \in Entries
      BY <3>1, Fields
    <3> QED BY <3>2 DEF Entries
  <2>3. CliOK'
    BY <1>4, <2>1, <2>2, CommandBegins DEF Restore, Commands, Steps
  <2> QED BY <1>4, <2>3 DEF Restore, host, history, TypeOK, CliOK
<1>5. CASE Clear
  <2>1. CliOK'
    BY <1>5, CommandGoesOn DEF Clear, Steps
  <2>2. cli.from.secret \in [Secret -> Tokens]
    BY Fields DEF Stacks
  <2> QED BY <1>5, <2>1, <2>2, ReadFromStack DEF Clear, TypeOK, CliOK
<1>6. CASE Unpack
  <2>1. CliOK'
    BY <1>6, CommandEnds DEF Unpack
  <2> QED BY <1>6, <2>1, Fields DEF Unpack, TypeOK, CliOK
<1> QED BY <1>1, <1>2, <1>3, <1>4, <1>5, <1>6

\* The steps of cleanup.
LEMMA TypeOfCleanup ==
  ASSUME TypeOK, Cleanup \/ Down \/ RemoveStack \/ Wipe
  PROVE  TypeOK'
<1>1. CASE Cleanup
  <2>1. CliOK'
    BY <1>1, CommandBegins, ReadFromStack DEF Cleanup, TypeOK, Commands, Steps
  <2> QED BY <1>1, <2>1 DEF Cleanup, host, TypeOK, CliOK
<1>2. CASE Down
  <2>1. CliOK'
    BY <1>2, CommandGoesOn DEF Down, Steps
  <2>2. run' \in Running /\ faults' \in 0 .. MaxFaults
    BY <1>2, TakenDown DEF Down
  <2> QED BY <1>2, <2>1, <2>2 DEF Down, history, TypeOK, CliOK
<1>3. CASE RemoveStack
  <2>1. CliOK'
    BY <1>3, CommandGoesOn, CommandEnds, TRUE \in BOOLEAN, FALSE \in BOOLEAN
    DEF RemoveStack, Steps
  <2> QED BY <1>3, <2>1, ReadFromStack, Numbers DEF RemoveStack, TypeOK, CliOK
<1>4. CASE Wipe
  <2>1. CliOK'
    BY <1>4, CommandEnds, TRUE \in BOOLEAN DEF Wipe
  <2>2. <<>> \in Seq(Entries)
    OBVIOUS
  <2> QED BY <1>4, <2>1, <2>2 DEF Wipe, TypeOK, CliOK
<1> QED BY <1>1, <1>2, <1>3, <1>4

\* The faults.
LEMMA TypeOfFaults ==
  ASSUME TypeOK, Cut \/ CutCopy \/ CutUp \/ CutSnapshot \/ CutArchive \/ Reboot
  PROVE  TypeOK'
<1>1. faults' \in 0 .. MaxFaults
  BY FaultIsCounted DEF Cut, CutCopy, CutUp, CutSnapshot, CutArchive, Reboot
<1>2. CASE Cut
  <2>1. CliOK'
    BY <1>2, CommandEnds, FALSE \in BOOLEAN DEF Cut
  <2> QED BY <1>1, <1>2, <2>1 DEF Cut, host, TypeOK, CliOK
<1>3. CASE CutCopy
  <2>1. CliOK'
    BY <1>3, CommandEnds, FALSE \in BOOLEAN DEF CutCopy
  <2>2. live' \in Stacks
    <3> DEFINE source == IF At("copy") THEN [ver |-> stage.ver, secret |-> StagedSecret]
                                 ELSE [ver |-> cli.from.ver, secret |-> cli.from.secret]
    <3>1. PICK copied \in SUBSET Secret :
            live' = [ver |-> source.ver, whole |-> FALSE,
                     secret |-> [s \in Secret |-> IF s \in copied THEN source.secret[s]
                                                                ELSE live.secret[s]]]
      BY <1>3 DEF CutCopy
    <3>2. source.ver \in 0 .. MaxBundles /\ source.secret \in [Secret -> Tokens]
      <4>1. CASE At("copy")
        <5>1. source = [ver |-> stage.ver, secret |-> StagedSecret]
          BY <4>1
        <5>2. StagedSecret \in [Secret -> Tokens]
          BY Fields, Numbers DEF StagedSecret, Secret
        <5> QED BY <5>1, <5>2, Fields
      <4>2. CASE ~At("copy")
        <5>1. source = [ver |-> cli.from.ver, secret |-> cli.from.secret]
          BY <4>2
        <5> QED BY <5>1, Fields DEF Stacks
      <4> QED BY <4>1, <4>2
    <3> HIDE DEF source
    <3> QED BY <3>1, <3>2, Fields DEF Stacks
  <2> QED BY <1>1, <1>3, <2>1, <2>2 DEF CutCopy, TypeOK, CliOK
<1>4. CASE CutUp
  <2>1. CliOK'
    BY <1>4, CommandEnds, FALSE \in BOOLEAN DEF CutUp
  <2>2. run' \in Running
    BY <1>4, Fields, ReadFromStack DEF CutUp, TypeOK, Running
  <2> QED BY <1>1, <1>4, <2>1, <2>2 DEF CutUp, history, TypeOK, CliOK
<1>5. CASE CutSnapshot \/ CutArchive
  <2>1. CliOK'
    BY <1>5, CommandEnds, FALSE \in BOOLEAN DEF CutSnapshot, CutArchive
  <2>2. PICK e \in Entries : CutLeaves(e)
    BY <1>5, CutPut
  <2>3. made' \in 0 .. MaxArchives /\ doomed' \in Nat
    BY <2>2, Numbers DEF CutLeaves, TypeOK
  <2>4. shelf' \in [dir : BOOLEAN, items : Seq(Entries)]
    BY <2>2, Fields DEF CutLeaves
  <2>5. UNCHANGED <<live, there, stage, saved, run, recorded, want, frayed, rejected, wiped, owed>>
    BY <1>5 DEF CutSnapshot, CutArchive
  <2> QED BY <1>1, <2>1, <2>3, <2>4, <2>5 DEF TypeOK, CliOK
<1>6. CASE Reboot
  <2>1. run' \in Running
    BY <1>6, Fields, ReadFromStack DEF Reboot, TypeOK, Running
  <2> QED BY <1>1, <1>6, <2>1 DEF Reboot, history, TypeOK
<1> QED BY <1>2, <1>3, <1>4, <1>5, <1>6

\* Every step leaves the state of its type.
LEMMA TypeStep == TypeOK /\ [Next]_vars => TypeOK'
<1> SUFFICES ASSUME TypeOK, [Next]_vars PROVE TypeOK'
  OBVIOUS
<1>1. CASE Upload("deploy", {})
  BY <1>1, TypeOfUpload
<1>2. CASE \E flags \in SUBSET {"monitoring"} : want["bot"] < MaxTokens /\ Upload("setup", flags)
  <2>1. PICK flags \in SUBSET Flags : Upload("setup", flags)
    BY <1>2 DEF Flags
  <2> QED BY <2>1, TypeOfUpload
<1>3. CASE UNCHANGED vars
  BY <1>3 DEF vars, host, history, TypeOK
<1> QED BY <1>1, <1>2, <1>3, TypeOfDeploy, TypeOfMonitoring, TypeOfBackup, TypeOfCleanup,
          TypeOfFaults DEF Next

\* The state of the host has its type.
THEOREM TypeCorrect == Spec => []TypeOK
BY TypeInit, TypeStep, PTL DEF Spec

-----------------------------------------------------------------------------
(* The steps.                                                              *)

\* The steps of a command are its own.
LEMMA StepsStep == IInv /\ [Next]_vars => StepsOfCommands'
<1> SUFFICES ASSUME IInv, [Next]_vars PROVE StepsOfCommands'
  OBVIOUS
<1>1. CASE \/ Upload("deploy", {})
         \/ (\E flags \in SUBSET {"monitoring"} : want["bot"] < MaxTokens /\ Upload("setup", flags))
         \/ Monitor \/ Backup \/ Restore \/ Cleanup \/ Restart
  BY <1>1 DEF Upload, Monitor, Backup, Restore, Cleanup, Restart, Begin, Given, IInv,
    StepsOfCommands, At, Idle, history, TypeOK
<1>2. CASE \/ Snapshot \/ Validate \/ SaveSecrets \/ CopyStage \/ KeepSecrets \/ Up
         \/ UploadToken \/ RestartTelegramBot
  BY <1>2 DEF Snapshot, Validate, SaveSecrets, CopyStage, KeepSecrets, Up, UploadToken,
    RestartTelegramBot, Goto, Finish, IInv, StepsOfCommands, At, Idle, history, TypeOK
<1>3. CASE MonitoringUp \/ MonitoringDown \/ AwaitBot
  BY <1>3 DEF MonitoringUp, MonitoringDown, AwaitBot, Goto, Finish, IInv,
    StepsOfCommands, At, Idle, history, TypeOK
<1>4. CASE Archive \/ Record \/ Clear \/ Unpack
  BY <1>4 DEF Archive, Record, Clear, Unpack, Goto, Finish, IInv, StepsOfCommands, At,
    Idle, history, TypeOK
<1>5. CASE Down \/ RemoveStack \/ Wipe
  BY <1>5 DEF Down, RemoveStack, Wipe, Goto, Finish, IInv, StepsOfCommands, At, Idle,
    history, TypeOK
<1>6. CASE Cut \/ CutCopy \/ CutUp \/ CutSnapshot \/ CutArchive \/ Reboot
  BY <1>6, SMTT(30) DEF Cut, CutCopy, CutUp, CutSnapshot, CutArchive, Reboot, Fault, Finish, IInv,
    StepsOfCommands, At, Idle, history, TypeOK
<1>7. CASE UNCHANGED vars
  BY <1>7 DEF vars, host, history, IInv, StepsOfCommands, At, Idle, history, TypeOK
<1> QED BY <1>1, <1>2, <1>3, <1>4, <1>5, <1>6, <1>7 DEF Next

\* A command comes as far as its step says, and nothing undoes it but a fault that ends it.
LEMMA ProgressStep == IInv /\ [Next]_vars => Progress'
<1> SUFFICES ASSUME IInv, [Next]_vars PROVE Progress'
  OBVIOUS
<1>1. CASE \/ Upload("deploy", {})
         \/ (\E flags \in SUBSET {"monitoring"} : want["bot"] < MaxTokens /\ Upload("setup", flags))
         \/ Monitor \/ Backup \/ Restore \/ Cleanup \/ Restart
  BY <1>1, SMTT(30) DEF Upload, Monitor, Backup, Restore, Cleanup, Restart, Begin, Given, IInv,
    Progress, At, host, history, Idle, TypeOK, Stacks, AfterUp, Config, Running,
    Stopped, StepsOfCommands, BotOf, Refreshed, SecretsHeld, Secret, WholeIsOfBundle
<1>2. CASE Snapshot \/ Validate \/ SaveSecrets
  BY <1>2 DEF Snapshot, Validate, SaveSecrets, Goto, Finish, IInv, Progress, At, host,
    history, Idle, TypeOK, Stacks, AfterUp, Config, Running, Stopped, StepsOfCommands,
    BotOf, Refreshed, SecretsHeld, Secret, WholeIsOfBundle
<1>3. CASE CopyStage
  BY <1>3 DEF CopyStage, Goto, IInv, Progress, At, host, history, Idle, TypeOK, Stacks,
    AfterUp, Config, Running, Stopped, StepsOfCommands, BotOf, Refreshed, SecretsHeld,
    Secret, WholeIsOfBundle
<1>4. CASE KeepSecrets
  BY <1>4 DEF KeepSecrets, Goto, IInv, Progress, At, host, history, Idle, TypeOK,
    Stacks, AfterUp, Config, Running, Stopped, StepsOfCommands, BotOf, Refreshed,
    SecretsHeld, Secret, WholeIsOfBundle
<1>5. CASE Up
  BY <1>5 DEF Up, Goto, Finish, IInv, Progress, At, host, history, Idle, TypeOK, Stacks,
    AfterUp, Config, Running, Stopped, StepsOfCommands, BotOf, Refreshed, SecretsHeld,
    Secret, WholeIsOfBundle
<1>6. CASE UploadToken
  BY <1>6 DEF UploadToken, Goto, IInv, Progress, At, host, history, Idle, TypeOK,
    Stacks, AfterUp, Config, Running, Stopped, StepsOfCommands, BotOf, Refreshed,
    SecretsHeld, Secret, WholeIsOfBundle
<1>7. CASE RestartTelegramBot \/ MonitoringUp
  BY <1>7 DEF RestartTelegramBot, MonitoringUp, Goto, Finish, IInv, Progress, At, host,
    history, Idle, TypeOK, Stacks, AfterUp, Config, Running, Stopped, StepsOfCommands,
    BotOf, Refreshed, SecretsHeld, Secret, WholeIsOfBundle
<1>8. CASE MonitoringDown \/ AwaitBot
  BY <1>8 DEF MonitoringDown, AwaitBot, Finish, IInv, Progress, At, host, history, Idle,
    TypeOK, Stacks, AfterUp, Config, Running, Stopped, StepsOfCommands, BotOf,
    Refreshed, SecretsHeld, Secret, WholeIsOfBundle
<1>9. CASE Archive \/ Record \/ Clear \/ Unpack
  BY <1>9 DEF Archive, Record, Clear, Unpack, Goto, Finish, IInv, Progress, At, host,
    history, Idle, TypeOK, Stacks, AfterUp, Config, Running, Stopped, StepsOfCommands,
    BotOf, Refreshed, SecretsHeld, Secret, WholeIsOfBundle
<1>10. CASE Down \/ RemoveStack \/ Wipe
  BY <1>10 DEF Down, RemoveStack, Wipe, Goto, Finish, IInv, Progress, At, host, history,
    Idle, TypeOK, Stacks, AfterUp, Config, Running, Stopped, StepsOfCommands, BotOf,
    Refreshed, SecretsHeld, Secret, WholeIsOfBundle
<1>11. CASE Cut
  BY <1>11 DEF Cut, Fault, Finish, IInv, Progress, At, host, history, Idle, TypeOK,
    Stacks, AfterUp, Config, Running, Stopped, StepsOfCommands, BotOf, Refreshed,
    SecretsHeld, Secret, WholeIsOfBundle
<1>12. CASE CutCopy
  BY <1>12 DEF CutCopy, Fault, Finish, IInv, Progress, At, host, history, Idle, TypeOK,
    Stacks, AfterUp, Config, Running, Stopped, StepsOfCommands, BotOf, Refreshed,
    SecretsHeld, Secret, WholeIsOfBundle
<1>13. CASE CutUp
  BY <1>13 DEF CutUp, Fault, Finish, IInv, Progress, At, host, history, Idle, TypeOK,
    Stacks, AfterUp, Config, Running, Stopped, StepsOfCommands, BotOf, Refreshed,
    SecretsHeld, Secret, WholeIsOfBundle
<1>14. CASE CutSnapshot \/ CutArchive
  BY <1>14 DEF CutSnapshot, CutArchive, Fault, Finish, IInv, Progress, At, host, history, Idle,
    TypeOK, Stacks, AfterUp, Config, Running, Stopped, StepsOfCommands, BotOf,
    Refreshed, SecretsHeld, Secret, WholeIsOfBundle
<1>15. CASE Reboot
  BY <1>15 DEF Reboot, Fault, IInv, Progress, At, host, history, Idle, TypeOK, Stacks,
    AfterUp, Config, Running, Stopped, StepsOfCommands, BotOf, Refreshed, SecretsHeld,
    Secret, WholeIsOfBundle
<1>16. CASE UNCHANGED vars
  BY <1>16 DEF vars, host, history, IInv, Progress, At, host, history, Idle, TypeOK,
    Stacks, AfterUp, Config, Running, Stopped, StepsOfCommands, BotOf, Refreshed,
    SecretsHeld, Secret, WholeIsOfBundle
<1> QED BY <1>1, <1>2, <1>3, <1>4, <1>5, <1>6, <1>7, <1>8, <1>9, <1>10, <1>11, <1>12,
          <1>13, <1>14, <1>15, <1>16 DEF Next

\* The secrets go from the live stack into the copies and back.
LEMMA SecretsStep == IInv /\ [Next]_vars => SecretsHeld'
<1> SUFFICES ASSUME IInv, [Next]_vars PROVE SecretsHeld'
  OBVIOUS
<1>1. CASE \/ Upload("deploy", {})
         \/ (\E flags \in SUBSET {"monitoring"} : want["bot"] < MaxTokens /\ Upload("setup", flags))
         \/ Monitor \/ Backup \/ Restore \/ Cleanup \/ Restart
  BY <1>1 DEF Upload, Monitor, Backup, Restore, Cleanup, Restart, Begin, Given, IInv,
    SecretsHeld, At, host, history, Idle, TypeOK, Stacks, StepsOfCommands, Secret,
    StagedSecret, NoStack
<1>2. CASE Snapshot \/ Validate \/ SaveSecrets
  BY <1>2 DEF Snapshot, Validate, SaveSecrets, Goto, Finish, IInv, SecretsHeld, At,
    host, history, Idle, TypeOK, Stacks, StepsOfCommands, Secret, StagedSecret, NoStack
<1>3. CASE CopyStage
  BY <1>3 DEF CopyStage, Goto, IInv, SecretsHeld, At, host, history, Idle, TypeOK,
    Stacks, StepsOfCommands, Secret, StagedSecret, NoStack
<1>4. CASE KeepSecrets
  BY <1>4 DEF KeepSecrets, Goto, IInv, SecretsHeld, At, host, history, Idle, TypeOK,
    Stacks, StepsOfCommands, Secret, StagedSecret, NoStack
<1>5. CASE Up \/ UploadToken
  BY <1>5 DEF Up, UploadToken, Goto, Finish, IInv, SecretsHeld, At, host, history, Idle,
    TypeOK, Stacks, StepsOfCommands, Secret, StagedSecret, NoStack
<1>6. CASE RestartTelegramBot \/ MonitoringUp \/ MonitoringDown \/ AwaitBot
  BY <1>6 DEF RestartTelegramBot, MonitoringUp, MonitoringDown, AwaitBot, Goto, Finish,
    IInv, SecretsHeld, At, host, history, Idle, TypeOK, Stacks, StepsOfCommands, Secret,
    StagedSecret, NoStack
<1>7. CASE Archive \/ Record
  BY <1>7 DEF Archive, Record, Goto, Finish, IInv, SecretsHeld, At, host, history, Idle,
    TypeOK, Stacks, StepsOfCommands, Secret, StagedSecret, NoStack
<1>8. CASE Clear
  BY <1>8 DEF Clear, Goto, IInv, SecretsHeld, At, host, history, Idle, TypeOK, Stacks,
    StepsOfCommands, Secret, StagedSecret, NoStack
<1>9. CASE Unpack
  BY <1>9 DEF Unpack, Finish, IInv, SecretsHeld, At, host, history, Idle, TypeOK,
    Stacks, StepsOfCommands, Secret, StagedSecret, NoStack
<1>10. CASE Down \/ RemoveStack \/ Wipe
  BY <1>10 DEF Down, RemoveStack, Wipe, Goto, Finish, IInv, SecretsHeld, At, host,
    history, Idle, TypeOK, Stacks, StepsOfCommands, Secret, StagedSecret, NoStack
<1>11. CASE Cut \/ CutCopy \/ CutUp \/ CutSnapshot \/ CutArchive
  BY <1>11 DEF Cut, CutCopy, CutUp, CutSnapshot, CutArchive, Fault, Finish, IInv, SecretsHeld, At,
    host, history, Idle, TypeOK, Stacks, StepsOfCommands, Secret, StagedSecret, NoStack
<1>12. CASE Reboot
  BY <1>12 DEF Reboot, Fault, IInv, SecretsHeld, At, host, history, Idle, TypeOK,
    Stacks, StepsOfCommands, Secret, StagedSecret, NoStack
<1>13. CASE UNCHANGED vars
  BY <1>13 DEF vars, host, history, IInv, SecretsHeld, At, host, history, Idle, TypeOK,
    Stacks, StepsOfCommands, Secret, StagedSecret, NoStack
<1> QED BY <1>1, <1>2, <1>3, <1>4, <1>5, <1>6, <1>7, <1>8, <1>9, <1>10, <1>11, <1>12,
          <1>13 DEF Next

\* A deploy or telegram-setup that ends well has done what it is for, and reboots keep it.
LEMMA SuccessStep == IInv /\ [Next]_vars => Success'
<1> SUFFICES ASSUME IInv, [Next]_vars PROVE Success'
  OBVIOUS
<1>1. CASE \/ Upload("deploy", {})
           \/ \E flags \in SUBSET {"monitoring"} : want["bot"] < MaxTokens /\ Upload("setup", flags)
  <2>1. cli'.step = "snapshot"
    BY <1>1 DEF Upload, Begin
  <2> QED BY <2>1 DEF Success, Idle
<1>2. CASE Monitor \/ Backup \/ Restore \/ Cleanup
  BY <1>2 DEF Monitor, Backup, Restore, Cleanup, Begin, Given, IInv, Success, At, host,
    history, Idle, TypeOK, Stacks, StepsOfCommands, Progress, AfterUp, SecretsHeld,
    Secret, Config, BotOf, HasMonitoring, Stopped, Running, WholeIsOfBundle
<1>3. CASE Restart
  BY <1>3 DEF Restart, Given, IInv, Success, At, host, history, Idle, TypeOK, Stacks,
    StepsOfCommands, Progress, AfterUp, SecretsHeld, Secret, Config, BotOf,
    HasMonitoring, Stopped, Running, WholeIsOfBundle
<1>4. CASE Snapshot \/ Validate \/ SaveSecrets \/ CopyStage \/ KeepSecrets
  BY <1>4 DEF Snapshot, Validate, SaveSecrets, CopyStage, KeepSecrets, Goto, Finish,
    IInv, Success, At, host, history, Idle, TypeOK, Stacks, StepsOfCommands, Progress,
    AfterUp, SecretsHeld, Secret, Config, BotOf, HasMonitoring, Stopped, Running,
    WholeIsOfBundle
<1>5. CASE Up
  BY <1>5 DEF Up, Goto, Finish, IInv, Success, At, host, history, Idle, TypeOK, Stacks,
    StepsOfCommands, Progress, AfterUp, SecretsHeld, Secret, Config, BotOf,
    HasMonitoring, Stopped, Running, WholeIsOfBundle
<1>6. CASE UploadToken \/ RestartTelegramBot
  BY <1>6 DEF UploadToken, RestartTelegramBot, Goto, IInv, Success, At, host, history,
    Idle, TypeOK, Stacks, StepsOfCommands, Progress, AfterUp, SecretsHeld, Secret,
    Config, BotOf, HasMonitoring, Stopped, Running, WholeIsOfBundle
<1>7. CASE MonitoringUp \/ MonitoringDown
  BY <1>7 DEF MonitoringUp, MonitoringDown, Goto, Finish, IInv, Success, At, host,
    history, Idle, TypeOK, Stacks, StepsOfCommands, Progress, AfterUp, SecretsHeld,
    Secret, Config, BotOf, HasMonitoring, Stopped, Running, WholeIsOfBundle
<1>8. CASE AwaitBot
  BY <1>8 DEF AwaitBot, Finish, IInv, Success, At, host, history, Idle, TypeOK, Stacks,
    StepsOfCommands, Progress, AfterUp, SecretsHeld, Secret, Config, BotOf,
    HasMonitoring, Stopped, Running, WholeIsOfBundle
<1>9. CASE Archive \/ Record
  BY <1>9 DEF Archive, Record, Goto, Finish, IInv, Success, At, host, history, Idle,
    TypeOK, Stacks, StepsOfCommands, Progress, AfterUp, SecretsHeld, Secret, Config,
    BotOf, HasMonitoring, Stopped, Running, WholeIsOfBundle
<1>10. CASE Clear \/ Unpack
  BY <1>10 DEF Clear, Unpack, Goto, Finish, IInv, Success, At, host, history, Idle,
    TypeOK, Stacks, StepsOfCommands, Progress, AfterUp, SecretsHeld, Secret, Config,
    BotOf, HasMonitoring, Stopped, Running, WholeIsOfBundle
<1>11. CASE Down \/ RemoveStack \/ Wipe
  BY <1>11 DEF Down, RemoveStack, Wipe, Goto, Finish, IInv, Success, At, host, history,
    Idle, TypeOK, Stacks, StepsOfCommands, Progress, AfterUp, SecretsHeld, Secret,
    Config, BotOf, HasMonitoring, Stopped, Running, WholeIsOfBundle
<1>12. CASE Cut \/ CutCopy \/ CutUp \/ CutSnapshot \/ CutArchive
  BY <1>12 DEF Cut, CutCopy, CutUp, CutSnapshot, CutArchive, Fault, Finish, IInv, Success, At, host,
    history, Idle, TypeOK, Stacks, StepsOfCommands, Progress, AfterUp, SecretsHeld,
    Secret, Config, BotOf, HasMonitoring, Stopped, Running, WholeIsOfBundle
<1>13. CASE Reboot
  BY <1>13 DEF Reboot, Fault, IInv, Success, At, host, history, Idle, TypeOK, Stacks,
    StepsOfCommands, Progress, AfterUp, SecretsHeld, Secret, Config, BotOf,
    HasMonitoring, Stopped, Running, WholeIsOfBundle
<1>14. CASE UNCHANGED vars
  BY <1>14 DEF vars, host, history, IInv, Success, At, host, history, Idle, TypeOK,
    Stacks, StepsOfCommands, Progress, AfterUp, SecretsHeld, Secret, Config, BotOf,
    HasMonitoring, Stopped, Running, WholeIsOfBundle
<1> QED BY <1>1, <1>2, <1>3, <1>4, <1>5, <1>6, <1>7, <1>8, <1>9, <1>10, <1>11, <1>12,
          <1>13, <1>14 DEF Next

\* Nothing is on the shelf that was not there before, or was live.
LEMMA ShelfFromShelf ==
  ASSUME TypeOK, [Next]_vars
  PROVE  \A i \in DOMAIN shelf'.items :
           \/ shelf'.items[i].stack = live
           \/ \E j \in DOMAIN shelf.items : shelf'.items[i].stack = shelf.items[j].stack
<1> DEFINE Known(items) == \A i \in DOMAIN items :
             \/ items[i].stack = live
             \/ \E j \in DOMAIN shelf.items : items[i].stack = shelf.items[j].stack
<1> SUFFICES Known(shelf'.items)
  OBVIOUS
<1>1. Known(shelf.items) /\ Known(<<>>)
  OBVIOUS
<1>2. ASSUME NEW e \in Entries, e.stack = live, NEW counted \in SUBSET (DOMAIN Append(shelf.items, e))
      PROVE  Known(Append(shelf.items, e)) /\ Known(Pruned(Append(shelf.items, e), counted))
  <2> DEFINE items == Append(shelf.items, e)
             r == Pruned(items, counted)
  <2>5. items = Append(shelf.items, e)
    OBVIOUS
  <2>6. r = Pruned(items, counted) /\ counted \in SUBSET (DOMAIN items)
    OBVIOUS
  <2> HIDE DEF items, r
  <2>7. items \in Seq(Entries)
    BY <2>5, Fields
  <2>8. \A k \in DOMAIN r : \E i \in DOMAIN items : r[k] = items[i]
    BY <2>6, <2>7, PrunedInOrder
  <2>1. /\ items[Len(shelf.items) + 1] = e /\ DOMAIN items = 1 .. Len(shelf.items) + 1
        /\ \A i \in DOMAIN shelf.items : items[i] = shelf.items[i]
    BY <2>5, Fields
  <2>2. \A i \in DOMAIN items : i \in DOMAIN shelf.items \/ i = Len(shelf.items) + 1
    BY <2>1, Fields
  <2>3. Known(items)
    BY <1>2, <2>1, <2>2
  <2>4. Known(r)
    BY <2>8, <2>3
  <2> QED BY <2>3, <2>4 DEF items, r
<1>3. CASE Snapshot
  <2> DEFINE e == [id |-> 0, good |-> TRUE, stack |-> live]
             items == Append(shelf.items, e)
  <2>1. e \in Entries /\ e.stack = live
    BY Numbers DEF Entries, TypeOK
  <2>2. SnapshotEntries(items) \in SUBSET DOMAIN items
    BY DEF SnapshotEntries
  <2>3. Known(Pruned(items, SnapshotEntries(items)))
    BY <1>2, <2>1, <2>2
  <2>4. shelf'.items \in {shelf.items, Pruned(items, SnapshotEntries(items))}
    BY <1>3 DEF Snapshot, TypeOK
  <2> HIDE DEF Known, items
  <2> QED BY <1>1, <2>3, <2>4
<1>4. CASE Archive
  <2> DEFINE e == [id |-> made + 1, good |-> TRUE, stack |-> live]
             items == Append(shelf.items, e)
  <2>1. e \in Entries /\ e.stack = live
    <3>1. made + 1 \in 0 .. MaxArchives
      BY <1>4, Numbers, SMTT(30) DEF Archive, TypeOK
    <3> QED BY <3>1 DEF Entries, TypeOK
  <2>2. ArchiveEntries(items) \in SUBSET DOMAIN items
    BY DEF ArchiveEntries
  <2>3. Known(Pruned(items, ArchiveEntries(items)))
    BY <1>2, <2>1, <2>2
  <2>4. shelf'.items \in {shelf.items, Pruned(items, ArchiveEntries(items))}
    <3>1. \/ shelf' = [shelf EXCEPT !.dir = TRUE]
          \/ shelf' = [dir |-> TRUE, items |-> Pruned(items, ArchiveEntries(items))]
      BY <1>4 DEF Archive
    <3> QED BY <3>1 DEF TypeOK
  <2> HIDE DEF Known, items
  <2> QED BY <1>1, <2>3, <2>4
<1>5. CASE CutSnapshot \/ CutArchive
  <2>1. PICK e \in Entries : CutLeaves(e)
    BY <1>5, CutPut
  <2>2. e.stack = live /\ shelf'.items = Append(shelf.items, e)
    BY <2>1 DEF CutLeaves
  <2>3. Known(Append(shelf.items, e))
    BY <1>2, <2>2
  <2> QED BY <2>2, <2>3
<1>6. CASE Wipe
  BY <1>1, <1>6 DEF Wipe
<1>7. CASE \/ Upload("deploy", {})
           \/ \E flags \in SUBSET {"monitoring"} : want["bot"] < MaxTokens /\ Upload("setup", flags)
  BY <1>1, <1>7 DEF Upload, TypeOK
<1>8. CASE shelf' = shelf
  BY <1>1, <1>8
<1> HIDE DEF Known
<1> QED
  <2>1. \/ Snapshot \/ Archive \/ CutSnapshot \/ CutArchive \/ Wipe \/ Upload("deploy", {}) \/ shelf' = shelf
        \/ \E flags \in SUBSET {"monitoring"} : want["bot"] < MaxTokens /\ Upload("setup", flags)
    BY DEF Next, vars, host, Validate, SaveSecrets, CopyStage, KeepSecrets, Up, UploadToken,
      RestartTelegramBot, MonitoringUp, MonitoringDown, AwaitBot, Monitor, Restart, Backup,
      Record, Restore, Clear, Unpack, Cleanup, Down, RemoveStack, Cut, CutCopy, CutUp, Reboot
  <2> QED BY <1>3, <1>4, <1>5, <1>6, <1>7, <1>8, <2>1

\* What runs was installed, or ran before.
LEMMA RunsWhatIsLive ==
  ASSUME TypeOK, [Next]_vars
  PROVE  run'.img \in {run.img, live.ver, 0} /\ run'.cfg \in {run.cfg, live.ver, 0}
<1>1. CASE run' = run
  BY <1>1
<1>2. CASE Up \/ RestartTelegramBot \/ Restart
  BY <1>2, ReadFromStack DEF TypeOK, Running, Up, RestartTelegramBot, Restart
<1>6. CASE CutUp \/ Reboot
  BY <1>6, ReadFromStack DEF TypeOK, Running, CutUp, Reboot
<1>3. CASE MonitoringUp
  <2>1. \/ run' = run
        \/ \E img \in {run.img, live.ver}, bot \in {run.bot, BotOf(live)} :
             run' = [img |-> img, bot |-> bot, mon |-> TRUE,
                     cfg |-> IF img = run.img THEN run.cfg ELSE Config(live)]
    BY <1>3 DEF MonitoringUp, Refreshed
  <2> QED BY <2>1, ReadFromStack
<1>4. CASE MonitoringDown \/ Down
  BY <1>4, TakenDown DEF MonitoringDown, Down
<1> QED BY <1>1, <1>2, <1>3, <1>4, <1>6
    DEF Next, vars, host, Upload, Snapshot, Validate, SaveSecrets, CopyStage, KeepSecrets,
      UploadToken, AwaitBot, Monitor, Backup, Archive, Record, Restore, Clear, Unpack,
      Cleanup, RemoveStack, Wipe, Cut, CutCopy, CutSnapshot, CutArchive

\* What is installed comes from the stage, from an archive that is restored, or was there.
LEMMA InstalledFrom ==
  ASSUME IInv, [Next]_vars
  PROVE  live'.ver \in {live.ver, cli.from.ver, 0} \union (IF stage.ok THEN {stage.ver} ELSE {})
<1>1. CASE live' = live
  BY <1>1
<1>2. CASE CopyStage \/ KeepSecrets \/ UploadToken
  BY <1>2 DEF CopyStage, KeepSecrets, UploadToken, At, IInv, TypeOK, Stacks, OnlyAccepted
<1>3. CASE Clear \/ Unpack \/ RemoveStack
  <2>1. live' \in {NoStack, cli.from}
    BY <1>3 DEF Clear, Unpack, RemoveStack
  <2> QED BY <2>1 DEF NoStack
<1>4. CASE CutCopy
  BY <1>4 DEF CutCopy, At, IInv, OnlyAccepted
<1> QED BY <1>1, <1>2, <1>3, <1>4
    DEF Next, vars, host, Upload, Snapshot, Validate, SaveSecrets, Up, RestartTelegramBot,
      MonitoringUp, MonitoringDown, AwaitBot, Monitor, Restart, Backup, Archive, Record,
      Restore, Cleanup, Down, Wipe, Cut, CutUp, CutSnapshot, CutArchive, Reboot

\* A command begins with what is live, or restores what is on the shelf.
LEMMA BeginsWith ==
  ASSUME TypeOK, [Next]_vars
  PROVE  \/ cli'.from \in {cli.from, live, NoStack}
         \/ cli'.step = "clear" /\ \E i \in DOMAIN shelf.items :
              cli'.from = shelf.items[i].stack /\ shelf.items[i].good /\ shelf.items[i].stack.whole
<1>1. CASE Restore
  BY <1>1 DEF Restore, Begin, ToSet
<1>2. CASE \/ Upload("deploy", {}) \/ Monitor \/ Backup \/ Cleanup
           \/ \E flags \in SUBSET {"monitoring"} : want["bot"] < MaxTokens /\ Upload("setup", flags)
  BY <1>2 DEF Upload, Monitor, Backup, Cleanup, Begin
<1>3. CASE \E step \in Steps : Goto(step)
  BY <1>3 DEF Goto, TypeOK
<1>4. CASE \E ok \in BOOLEAN : Finish(ok)
  BY <1>4 DEF Finish, Idle
<1>5. CASE cli' = cli
  BY <1>5
<1>6. CASE \/ Snapshot \/ Validate \/ SaveSecrets \/ CopyStage \/ KeepSecrets \/ Up
           \/ UploadToken \/ RestartTelegramBot \/ MonitoringUp \/ MonitoringDown \/ AwaitBot
  BY <1>3, <1>4, <1>6, Fields DEF Snapshot, Validate, SaveSecrets, CopyStage, KeepSecrets, Up,
    UploadToken, RestartTelegramBot, MonitoringUp, MonitoringDown, AwaitBot, Steps
<1>7. CASE Archive \/ Record \/ Clear \/ Unpack \/ Down \/ RemoveStack \/ Wipe
  BY <1>3, <1>4, <1>7 DEF Archive, Record, Clear, Unpack, Down, RemoveStack, Wipe, Steps
<1>8. CASE Cut \/ CutCopy \/ CutUp \/ CutSnapshot \/ CutArchive
  BY <1>4, <1>8 DEF Cut, CutCopy, CutUp, CutSnapshot, CutArchive
<1> QED BY <1>1, <1>2, <1>5, <1>6, <1>7, <1>8 DEF Next, vars, Restart, Reboot

\* What the host holds comes from bundles that were accepted.
LEMMA AcceptedStep == IInv /\ [Next]_vars => OnlyAccepted'
<1> SUFFICES ASSUME IInv, [Next]_vars PROVE OnlyAccepted'
  OBVIOUS
<1>1. TypeOK
  BY DEF IInv
<1>2. /\ rejected' \subseteq 1 .. stage'.ver
      /\ stage'.ok => stage'.ver \notin rejected'
      /\ Accepted \subseteq Accepted'
  <2>1. CASE stage' = stage /\ rejected' = rejected
    BY <2>1 DEF IInv, OnlyAccepted, Accepted
  <2>2. ASSUME NEW cmd, NEW flags, Upload(cmd, flags)
        PROVE  /\ rejected' \subseteq 1 .. stage'.ver
               /\ stage'.ok => stage'.ver \notin rejected'
               /\ Accepted \subseteq Accepted'
    <3>1. PICK ok \in BOOLEAN, admin \in Tokens :
            /\ stage' = [ver |-> stage.ver + 1, ok |-> ok, admin |-> admin]
            /\ rejected' = IF ok THEN rejected ELSE rejected \union {stage.ver + 1}
      BY <2>2 DEF Upload
    <3>2. stage.ver \in Nat /\ rejected \subseteq 1 .. stage.ver
      BY <1>1, Fields DEF IInv, OnlyAccepted
    <3>3. stage'.ver = stage.ver + 1 /\ (stage'.ok => rejected' = rejected)
          /\ rejected' \subseteq rejected \union {stage.ver + 1}
      BY <3>1
    <3>4. stage.ver + 1 \notin rejected /\ stage.ver + 1 \notin 0 .. stage.ver
      BY <3>2
    <3>5. 1 .. stage.ver + 1 = 1 .. stage.ver \union {stage.ver + 1}
          /\ 0 .. stage.ver \subseteq 0 .. stage.ver + 1
      BY <3>2
    <3> QED BY <3>2, <3>3, <3>4, <3>5 DEF Accepted
  <2> QED BY <2>1, <2>2
      DEF Next, vars, host, history, Snapshot, Validate, SaveSecrets, CopyStage, KeepSecrets,
        Up, UploadToken, RestartTelegramBot, MonitoringUp, MonitoringDown, AwaitBot, Monitor,
        Restart, Backup, Archive, Record, Restore, Clear, Unpack, Cleanup, Down, RemoveStack,
        Wipe, Cut, CutCopy, CutUp, CutSnapshot, CutArchive, Reboot
<1>3. 0 \in Accepted /\ (stage.ok => stage.ver \in Accepted)
  BY <1>1, Fields DEF IInv, OnlyAccepted, Accepted
<1>4. {live'.ver, run'.img, run'.cfg} \subseteq Accepted
  BY <1>1, <1>3, RunsWhatIsLive, InstalledFrom DEF IInv, OnlyAccepted
<1>5. cli'.from.ver \in Accepted
  BY <1>1, <1>3, BeginsWith DEF IInv, OnlyAccepted, NoStack
<1>6. \A i \in DOMAIN shelf'.items : shelf'.items[i].stack.ver \in Accepted
  BY <1>1, ShelfFromShelf DEF IInv, OnlyAccepted
<1>7. cli'.step \in {"save", "copy"} => stage'.ok
  <2>1. CASE Validate
    BY <2>1 DEF Validate, Goto, Finish, Idle, IInv, TypeOK, At, host
  <2>2. CASE SaveSecrets
    BY <2>2 DEF SaveSecrets, Goto, IInv, TypeOK, At, OnlyAccepted
  <2>3. CASE UNCHANGED vars \/ Restart \/ Reboot
    BY <2>3 DEF vars, host, Restart, Reboot, IInv, OnlyAccepted
  <2>4. CASE \/ Upload("deploy", {})
             \/ \E flags \in SUBSET {"monitoring"} : want["bot"] < MaxTokens /\ Upload("setup", flags)
             \/ Monitor \/ Backup \/ Restore \/ Cleanup
    BY <2>4 DEF Upload, Monitor, Backup, Restore, Cleanup, Begin
  <2>5. CASE \/ \E step \in Steps \ {"save", "copy"} : Goto(step)
             \/ \E ok \in BOOLEAN : Finish(ok)
    BY <1>1, <2>5 DEF Goto, Finish, Idle, TypeOK
  <2>6. CASE \/ Snapshot \/ CopyStage \/ KeepSecrets \/ Up \/ UploadToken
             \/ RestartTelegramBot \/ MonitoringUp \/ MonitoringDown \/ AwaitBot
    BY <1>1, <2>5, <2>6, Fields DEF Snapshot, CopyStage, KeepSecrets, Up, UploadToken,
      RestartTelegramBot, MonitoringUp, MonitoringDown, AwaitBot, Steps
  <2>7. CASE Archive \/ Record \/ Clear \/ Unpack \/ Down \/ RemoveStack \/ Wipe
    BY <2>5, <2>7 DEF Archive, Record, Clear, Unpack, Down, RemoveStack, Wipe, Steps
  <2>8. CASE Cut \/ CutCopy \/ CutUp \/ CutSnapshot \/ CutArchive
    BY <2>5, <2>8 DEF Cut, CutCopy, CutUp, CutSnapshot, CutArchive
  <2> QED BY <2>1, <2>2, <2>3, <2>4, <2>6, <2>7, <2>8 DEF Next
<1> QED BY <1>2, <1>4, <1>5, <1>6, <1>7 DEF OnlyAccepted

\* What is in one piece comes from a bundle.
LEMMA WholeStep == IInv /\ [Next]_vars => WholeIsOfBundle'
<1> SUFFICES ASSUME IInv, [Next]_vars PROVE WholeIsOfBundle'
  OBVIOUS
<1>1. TypeOK
  BY DEF IInv
<1>2. live'.whole => live'.ver # 0
  <2>1. CASE live' = live
    BY <2>1 DEF IInv, WholeIsOfBundle
  <2>2. CASE CopyStage \/ KeepSecrets \/ UploadToken
    BY <2>2 DEF CopyStage, KeepSecrets, UploadToken, At, IInv, TypeOK, Stacks, WholeIsOfBundle
  <2>3. CASE Clear \/ Unpack \/ RemoveStack
    <3>1. live' \in {NoStack, cli.from}
      BY <2>3 DEF Clear, Unpack, RemoveStack
    <3> QED BY <3>1 DEF NoStack, IInv, WholeIsOfBundle
  <2>4. CASE CutCopy
    BY <2>4 DEF CutCopy
  <2> QED BY <2>1, <2>2, <2>3, <2>4
    DEF Next, vars, host, Upload, Snapshot, Validate, SaveSecrets, Up, RestartTelegramBot,
      MonitoringUp, MonitoringDown, AwaitBot, Monitor, Restart, Backup, Archive, Record,
      Restore, Cleanup, Down, Wipe, Cut, CutUp, CutSnapshot, CutArchive, Reboot
<1>3. cli'.from.whole => cli'.from.ver # 0
  BY <1>1, BeginsWith DEF IInv, WholeIsOfBundle, NoStack
<1>4. \A i \in DOMAIN shelf'.items :
        shelf'.items[i].stack.whole => shelf'.items[i].stack.ver # 0
  BY <1>1, ShelfFromShelf DEF IInv, WholeIsOfBundle
<1>5. cli'.step \in {"snapshot", "validate", "save", "copy"} => stage'.ver # 0
  <2>1. ASSUME NEW cmd, NEW flags, Upload(cmd, flags)
        PROVE  stage'.ver # 0
    BY <1>1, <2>1, Fields DEF Upload
  <2>2. CASE Snapshot \/ Validate \/ SaveSecrets
    BY <1>1, <2>2 DEF Snapshot, Validate, SaveSecrets, At, host, Goto, Finish, Idle, TypeOK,
      IInv, WholeIsOfBundle
  <2>3. CASE UNCHANGED vars \/ Restart \/ Reboot
    BY <2>3 DEF vars, host, Restart, Reboot, IInv, WholeIsOfBundle
  <2>4. CASE Monitor \/ Backup \/ Restore \/ Cleanup
    BY <2>4 DEF Monitor, Backup, Restore, Cleanup, Begin
  <2>5. CASE \/ \E step \in Steps \ {"snapshot", "validate", "save", "copy"} : Goto(step)
             \/ \E ok \in BOOLEAN : Finish(ok)
    BY <1>1, <2>5 DEF Goto, Finish, Idle, TypeOK
  <2>6. CASE \/ CopyStage \/ KeepSecrets \/ Up \/ UploadToken
             \/ RestartTelegramBot \/ MonitoringUp \/ MonitoringDown \/ AwaitBot
    BY <1>1, <2>5, <2>6, Fields DEF CopyStage, KeepSecrets, Up, UploadToken,
      RestartTelegramBot, MonitoringUp, MonitoringDown, AwaitBot, Steps
  <2>7. CASE Archive \/ Record \/ Clear \/ Unpack \/ Down \/ RemoveStack \/ Wipe
    BY <2>5, <2>7 DEF Archive, Record, Clear, Unpack, Down, RemoveStack, Wipe, Steps
  <2>8. CASE Cut \/ CutCopy \/ CutUp \/ CutSnapshot \/ CutArchive
    BY <2>5, <2>8 DEF Cut, CutCopy, CutUp, CutSnapshot, CutArchive
  <2> QED BY <2>1, <2>2, <2>3, <2>4, <2>6, <2>7, <2>8 DEF Next
<1> QED BY <1>2, <1>3, <1>4, <1>5 DEF WholeIsOfBundle

\* A copy of the live stack is put on the shelf and old entries go: the newest copy of a
\* stack in one piece is still as near as is counted.
LEMMA CopyPut ==
  ASSUME TypeOK, CopyIsNear, NEW e \in Entries, e.good, e.stack = live,
         NEW counted \in SUBSET (DOMAIN Append(shelf.items, e)),
         shelf'.items = Pruned(Append(shelf.items, e), counted),
         doomed' = IF live.whole THEN 0 ELSE doomed + 1
  PROVE  /\ CopyIsNear'
         /\ live.whole => HasCopy'
         /\ HasCopy /\ doomed' < Keep => HasCopy'
<1> DEFINE items == Append(shelf.items, e)
           r == shelf'.items
<1>1. /\ items \in Seq(Entries) /\ Len(items) = Len(shelf.items) + 1
      /\ DOMAIN items = 1 .. Len(shelf.items) + 1
      /\ items[Len(shelf.items) + 1] = e
      /\ \A i \in DOMAIN shelf.items : i \in DOMAIN items /\ items[i] = shelf.items[i]
      /\ \A i \in DOMAIN items : i \in DOMAIN shelf.items \/ i = Len(shelf.items) + 1
  BY OneMore
<1>2. /\ Len(shelf.items) \in Nat /\ doomed \in Nat /\ Keep \in Nat /\ Keep > 0
      /\ DOMAIN shelf.items = 1 .. Len(shelf.items)
  BY Fields, Numbers DEF TypeOK
<1>3. /\ r = Pruned(items, counted) /\ counted \in SUBSET (DOMAIN items)
      /\ items \in Seq(Entries)
  BY <1>1
<1> HIDE DEF items
<1>4. \A i \in DOMAIN items : Len(items) - i < Keep
        => \E k \in DOMAIN r : r[k] = items[i] /\ Len(r) - k <= Len(items) - i
  BY <1>3, NewestStay
<1>5. \A k \in DOMAIN r : \E i \in DOMAIN items : r[k] = items[i]
  BY <1>3, PrunedInOrder
<1>6. r \in Seq(Entries)
  BY <1>3, PrunedInOrder
<1>7. CASE live.whole
  <2>1. PICK k \in DOMAIN r : r[k] = e /\ Len(r) - k <= 0
    <3>1. Len(items) - (Len(shelf.items) + 1) = 0 /\ Len(shelf.items) + 1 \in DOMAIN items
      BY <1>1, <1>2
    <3> QED BY <1>1, <1>2, <1>4, <3>1
  <2>2. Copy(k)' /\ doomed' = 0
    BY <1>7, <2>1 DEF Copy
  <2> QED BY <2>1, <2>2 DEF CopyIsNear, HasCopy
<1>8. CASE ~live.whole
  <2>1. doomed' = doomed + 1
    BY <1>8
  <2>2. HasCopy' => HasCopy
    <3>1. SUFFICES ASSUME NEW k \in DOMAIN r, r[k].good, r[k].stack.whole
                   PROVE  HasCopy
      BY DEF HasCopy, Copy
    <3>2. PICK i \in DOMAIN items : r[k] = items[i]
      BY <1>5
    <3>3. i \in DOMAIN shelf.items /\ items[i] = shelf.items[i]
      BY <1>1, <1>8, <3>1, <3>2
    <3> QED BY <3>1, <3>2, <3>3 DEF HasCopy, Copy
  <2>3. ASSUME HasCopy, doomed' < Keep
        PROVE  \E k \in DOMAIN r : Copy(k)' /\ Len(r) - k <= doomed'
    <3>1. PICK i \in DOMAIN shelf.items : Copy(i) /\ Len(shelf.items) - i <= doomed
      BY <1>2, <2>1, <2>3 DEF CopyIsNear
    <3>2. i \in DOMAIN items /\ items[i] = shelf.items[i]
      BY <1>1
    <3>3. Len(items) - i <= doomed' /\ Len(items) - i < Keep
      BY <1>1, <1>2, <2>1, <2>3, <3>1
    <3>4. PICK k \in DOMAIN r : r[k] = items[i] /\ Len(r) - k <= Len(items) - i
      BY <1>4, <3>2, <3>3
    <3>5. Copy(k)'
      BY <3>1, <3>2, <3>4 DEF Copy
    <3>6. Len(r) - k <= doomed'
      <4>1. Len(r) \in Nat /\ k \in Nat /\ i \in Nat
        BY <1>2, <1>6
      <4> QED BY <1>1, <1>2, <2>1, <3>3, <3>4, <4>1
    <3> QED BY <3>5, <3>6
  <2> QED BY <1>8, <2>2, <2>3 DEF CopyIsNear, HasCopy
<1> QED BY <1>7, <1>8

\* A snapshot is put on the shelf, or none is taken.
LEMMA SnapshotPut ==
  ASSUME TypeOK, Snapshot
  PROVE  \/ shelf' = shelf /\ doomed' = doomed /\ cli' = Idle
         \/ \E e \in Entries : \E counted \in SUBSET (DOMAIN Append(shelf.items, e)) :
              /\ e.id = 0 /\ e.good /\ e.stack = live
              /\ counted = SnapshotEntries(Append(shelf.items, e))
              /\ shelf'.items = Pruned(Append(shelf.items, e), counted)
              /\ doomed' = IF live.whole THEN 0 ELSE doomed + 1
              /\ cli'.step = "validate"
<1> DEFINE e == [id |-> 0, good |-> TRUE, stack |-> live]
           counted == SnapshotEntries(Append(shelf.items, e))
<1>1. e \in Entries /\ e.id = 0 /\ e.good /\ e.stack = live
  BY Numbers DEF Entries, TypeOK
<1>2. counted \in SUBSET (DOMAIN Append(shelf.items, e))
  BY DEF SnapshotEntries
<1>3. CASE ~shelf.dir
  BY <1>3 DEF Snapshot, Finish
<1>4. CASE shelf.dir
  <2>1. /\ shelf'.items = Pruned(Append(shelf.items, e), counted)
        /\ doomed' = IF live.whole THEN 0 ELSE doomed + 1
        /\ cli'.step = "validate"
    BY <1>4 DEF Snapshot, TypeOK, Goto
  <2> HIDE DEF e, counted
  <2> QED BY <1>1, <1>2, <2>1 DEF counted
<1> QED BY <1>3, <1>4

\* An archive is put on the shelf, or there is nothing to put into one.
LEMMA ArchivePut ==
  ASSUME TypeOK, Archive
  PROVE  \/ shelf'.items = shelf.items /\ doomed' = doomed /\ made' = made /\ cli' = Idle
         \/ \E e \in Entries : \E counted \in SUBSET (DOMAIN Append(shelf.items, e)) :
              /\ e.id = made + 1 /\ e.good /\ e.stack = live /\ made' = made + 1
              /\ counted = ArchiveEntries(Append(shelf.items, e))
              /\ shelf'.items = Pruned(Append(shelf.items, e), counted)
              /\ doomed' = IF live.whole THEN 0 ELSE doomed + 1
              /\ cli'.step = "record"
<1> DEFINE e == [id |-> made + 1, good |-> TRUE, stack |-> live]
           counted == ArchiveEntries(Append(shelf.items, e))
<1>1. e \in Entries /\ e.id = made + 1 /\ e.good /\ e.stack = live
  BY NewArchive DEF Archive
<1>2. counted \in SUBSET (DOMAIN Append(shelf.items, e))
  BY DEF ArchiveEntries
<1>3. \/ shelf' = [shelf EXCEPT !.dir = TRUE] /\ Finish(FALSE) /\ UNCHANGED <<made, doomed>>
      \/ /\ shelf' = [dir |-> TRUE, items |-> Pruned(Append(shelf.items, e), counted)]
         /\ made' = made + 1 /\ doomed' = IF live.whole THEN 0 ELSE doomed + 1
         /\ Goto("record")
  BY DEF Archive
<1>4. CASE shelf' = [shelf EXCEPT !.dir = TRUE] /\ Finish(FALSE) /\ UNCHANGED <<made, doomed>>
  BY <1>4 DEF TypeOK, Finish
<1>5. CASE /\ shelf' = [dir |-> TRUE, items |-> Pruned(Append(shelf.items, e), counted)]
           /\ made' = made + 1 /\ doomed' = IF live.whole THEN 0 ELSE doomed + 1
           /\ Goto("record")
  <2>1. shelf'.items = Pruned(Append(shelf.items, e), counted) /\ cli'.step = "record"
    BY <1>5 DEF Goto, TypeOK
  <2> HIDE DEF e, counted
  <2> QED BY <1>1, <1>2, <1>5, <2>1 DEF counted
<1> QED BY <1>3, <1>4, <1>5

\* A copy of a stack in one piece stays near the end of the shelf.
LEMMA NearStep == IInv /\ [Next]_vars => CopyIsNear'
<1> SUFFICES ASSUME IInv, [Next]_vars PROVE CopyIsNear'
  OBVIOUS
<1>1. TypeOK /\ CopyIsNear
  BY DEF IInv, Shelved
<1>2. CASE shelf'.items = shelf.items /\ doomed' = doomed
  BY <1>1, <1>2 DEF CopyIsNear, HasCopy, Copy
<1>3. CASE Snapshot
  BY <1>1, <1>2, <1>3, SnapshotPut, CopyPut
<1>4. CASE Archive
  BY <1>1, <1>2, <1>4, ArchivePut, CopyPut
<1>5. CASE CutSnapshot \/ CutArchive
  <2>1. PICK e \in Entries : CutLeaves(e)
    BY <1>1, <1>5, CutPut
  <2>2. PICK items : items = Append(shelf.items, e)
    OBVIOUS
  <2>3. /\ shelf'.items = items /\ e.stack = live
        /\ doomed' = IF e.good /\ live.whole THEN 0 ELSE doomed + 1
    BY <2>1, <2>2 DEF CutLeaves
  <2>4. /\ Len(items) = Len(shelf.items) + 1 /\ DOMAIN items = 1 .. Len(shelf.items) + 1
        /\ items[Len(shelf.items) + 1] = e
        /\ \A i \in DOMAIN shelf.items : i \in DOMAIN items /\ items[i] = shelf.items[i]
        /\ \A i \in DOMAIN items : i \in DOMAIN shelf.items \/ i = Len(shelf.items) + 1
    BY <1>1, <2>2, OneMore
  <2>5. doomed \in Nat /\ Keep \in Nat /\ Len(shelf.items) \in Nat
    BY <1>1, Fields, Numbers DEF TypeOK
  <2>6. CASE e.good /\ live.whole
    <3>1. PICK k \in DOMAIN items : k = Len(shelf.items) + 1 /\ items[k] = e
      BY <2>4, <2>5
    <3>2. Copy(k)'
      BY <2>3, <2>6, <3>1 DEF Copy
    <3>3. Len(items) - k = 0 /\ doomed' = 0
      BY <2>3, <2>4, <2>5, <2>6, <3>1
    <3> QED BY <2>3, <3>1, <3>2, <3>3 DEF CopyIsNear
  <2>7. CASE ~(e.good /\ live.whole)
    <3>1. \A i \in DOMAIN items : Copy(i)' => Copy(i)
      BY <2>3, <2>4, <2>7 DEF Copy
    <3>2. ASSUME doomed' < Keep, HasCopy'
          PROVE  \E i \in DOMAIN items : Copy(i)' /\ Len(items) - i <= doomed'
      <4>1. HasCopy /\ doomed' = doomed + 1
        BY <2>3, <2>7, <3>1, <3>2 DEF HasCopy, Copy
      <4>2. PICK i \in DOMAIN shelf.items : Copy(i) /\ Len(shelf.items) - i <= doomed
        BY <1>1, <2>5, <3>2, <4>1 DEF CopyIsNear
      <4>3. i \in DOMAIN items /\ Copy(i)'
        BY <2>3, <2>4, <4>2 DEF Copy
      <4>4. i \in Nat
        BY <1>1, <4>2, Fields
      <4> QED BY <2>4, <2>5, <4>1, <4>2, <4>3, <4>4
    <3> QED BY <2>3, <3>2 DEF CopyIsNear
  <2> QED BY <2>6, <2>7
<1>6. CASE Wipe
  BY <1>6 DEF Wipe, CopyIsNear, HasCopy
<1>7. CASE \/ Upload("deploy", {})
           \/ \E flags \in SUBSET {"monitoring"} : want["bot"] < MaxTokens /\ Upload("setup", flags)
  BY <1>1, <1>2, <1>7 DEF Upload, TypeOK
<1> QED BY <1>2, <1>3, <1>4, <1>5, <1>6, <1>7
    DEF Next, vars, host, history, Validate, SaveSecrets, CopyStage, KeepSecrets, Up,
      UploadToken, RestartTelegramBot, MonitoringUp, MonitoringDown, AwaitBot, Monitor,
      Restart, Backup, Record, Restore, Clear, Unpack, Cleanup, Down, RemoveStack, Cut,
      CutCopy, CutUp, Reboot

\* Where a copy of a stack in one piece is needed, there is one.
LEMMA HeldStep == IInv /\ [Next]_vars => CopyIsHeld'
<1> SUFFICES ASSUME IInv, [Next]_vars PROVE CopyIsHeld'
  OBVIOUS
<1>1. TypeOK /\ CopyIsNear /\ CopyIsHeld /\ StepsOfCommands /\ Progress /\ OnlyAccepted
  BY DEF IInv, Shelved
<1>2. ASSUME shelf'.items = shelf.items PROVE HasCopy' = HasCopy
  BY <1>2 DEF HasCopy, Copy
<1>3. CASE \/ Upload("deploy", {}) \/ Monitor \/ Backup
           \/ \E flags \in SUBSET {"monitoring"} : want["bot"] < MaxTokens /\ Upload("setup", flags)
  <2>1. shelf'.items = shelf.items
    BY <1>1, <1>3 DEF Upload, Monitor, Backup, host, TypeOK
  <2>2. UNCHANGED <<live, owed, doomed>> /\ cli'.cmd # "cleanup"
        /\ cli'.step \in {"snapshot", "monitoring", "archive"}
    BY <1>3 DEF Upload, Monitor, Backup, Begin, host, history
  <2> QED BY <1>1, <1>2, <2>1, <2>2 DEF CopyIsHeld
<1>4. CASE Restore
  <2>1. HasCopy
    BY <1>4 DEF Restore, ToSet, HasCopy, Copy
  <2> QED BY <1>1, <1>2, <1>4, <2>1 DEF Restore, Begin, host, history, CopyIsHeld
<1>5. CASE Cleanup
  <2>1. cli'.step \in {"down_monitoring", "down"} /\ ~owed'
    BY <1>5 DEF Cleanup, Begin
  <2> QED BY <2>1 DEF CopyIsHeld
<1>6. CASE Snapshot
  <2>1. cli.cmd # "cleanup"
    BY <1>1, <1>6 DEF Snapshot, At, StepsOfCommands
  <2>2. CASE shelf' = shelf /\ doomed' = doomed /\ cli' = Idle
    BY <1>1, <1>2, <1>6, <2>2 DEF Snapshot, Idle, CopyIsHeld
  <2>3. CASE (live.whole => HasCopy') /\ (HasCopy /\ doomed' < Keep => HasCopy')
             /\ doomed' = (IF live.whole THEN 0 ELSE doomed + 1) /\ cli'.step = "validate"
    <3>1. live' = live /\ owed' = owed /\ cli'.cmd = cli.cmd
      BY <1>1, <1>6, <2>3 DEF Snapshot, Goto, Finish, Idle, TypeOK
    <3>2. doomed \in Nat /\ Keep \in Nat
      BY <1>1, Numbers DEF TypeOK
    <3> QED BY <1>1, <2>1, <2>3, <3>1, <3>2 DEF CopyIsHeld
  <2> QED BY <1>1, <1>6, <2>2, <2>3, SnapshotPut, CopyPut
<1>7. CASE Archive
  <2>1. cli.cmd # "cleanup"
    BY <1>1, <1>7 DEF Archive, At, StepsOfCommands
  <2>2. CASE shelf'.items = shelf.items /\ doomed' = doomed /\ cli' = Idle
    BY <1>1, <1>2, <1>7, <2>2 DEF Archive, Idle, CopyIsHeld
  <2>3. CASE (live.whole => HasCopy') /\ (HasCopy /\ doomed' < Keep => HasCopy')
             /\ doomed' = (IF live.whole THEN 0 ELSE doomed + 1) /\ cli'.step = "record"
    <3>1. live' = live /\ owed' = owed /\ cli'.cmd = cli.cmd
      BY <1>1, <1>7, <2>3 DEF Archive, Goto, Finish, Idle, TypeOK
    <3>2. doomed \in Nat /\ Keep \in Nat
      BY <1>1, Numbers DEF TypeOK
    <3> QED BY <1>1, <2>1, <2>3, <3>1, <3>2 DEF CopyIsHeld
  <2> QED BY <1>1, <1>7, <2>2, <2>3, ArchivePut, CopyPut
<1>8. CASE CutSnapshot \/ CutArchive
  <2>1. PICK e \in Entries : CutLeaves(e)
    BY <1>1, <1>8, CutPut
  <2>2. HasCopy => HasCopy'
    <3>1. \A i \in DOMAIN shelf.items :
            i \in DOMAIN shelf'.items /\ shelf'.items[i] = shelf.items[i]
      BY <1>1, <2>1, OneMore DEF CutLeaves
    <3> QED BY <3>1 DEF HasCopy, Copy
  <2>3. live' = live /\ owed' = owed /\ cli' = Idle
        /\ doomed' = IF e.good /\ live.whole THEN 0 ELSE doomed + 1
    BY <2>1 DEF CutLeaves
  <2>4. doomed \in Nat /\ Keep \in Nat
    BY <1>1, Numbers DEF TypeOK
  <2> QED BY <1>1, <2>2, <2>3, <2>4 DEF CopyIsHeld, Idle
<1>9. CASE Wipe
  <2>1. ~owed' /\ cli' = Idle
    BY <1>1, <1>9 DEF Wipe, Finish, At, StepsOfCommands, CopyIsHeld
  <2> QED BY <2>1 DEF CopyIsHeld, Idle
<1>10. CASE Validate \/ SaveSecrets
  BY <1>1, <1>2, <1>10
  DEF Validate, SaveSecrets, At, Goto, Finish, Idle, host, history, TypeOK, CopyIsHeld
<1>11. CASE CopyStage \/ KeepSecrets \/ UploadToken
  BY <1>1, <1>2, <1>11
  DEF CopyStage, KeepSecrets, UploadToken, At, Goto, host, history, TypeOK, Stacks, CopyIsHeld
<1>12. CASE Up
  <2>1. live.whole /\ live' = live /\ cli.cmd # "cleanup" /\ shelf' = shelf
    BY <1>1, <1>12 DEF Up, At, Progress, StepsOfCommands
  <2> QED BY <1>1, <1>12, <2>1 DEF Up, Goto, Finish, Idle, TypeOK, CopyIsHeld
<1>13. CASE RestartTelegramBot \/ MonitoringUp \/ MonitoringDown \/ AwaitBot \/ Record
  BY <1>1, <1>2, <1>13
  DEF RestartTelegramBot, MonitoringUp, MonitoringDown, AwaitBot, Record, At, Goto, Finish,
    Idle, host, history, TypeOK, CopyIsHeld
<1>14. CASE Clear
  BY <1>1, <1>2, <1>14 DEF Clear, At, Goto, TypeOK, CopyIsHeld
<1>15. CASE Unpack
  BY <1>1, <1>2, <1>15 DEF Unpack, At, Finish, Idle, CopyIsHeld
<1>16. CASE Down
  BY <1>1, <1>2, <1>16 DEF Down, At, Goto, history, TypeOK, CopyIsHeld
<1>17. CASE RemoveStack
  BY <1>1, <1>2, <1>17
  DEF RemoveStack, At, Goto, Finish, Idle, TypeOK, StepsOfCommands, CopyIsHeld
<1>18. CASE Cut \/ CutUp
  BY <1>1, <1>2, <1>18 DEF Cut, CutUp, Finish, Idle, host, history, CopyIsHeld
<1>19. CASE CutCopy
  <2>1. owed /\ doomed < Keep => HasCopy
    BY <1>1, <1>19 DEF CutCopy, At, CopyIsHeld
  <2> QED BY <1>2, <1>19, <2>1 DEF CutCopy, Finish, Idle, CopyIsHeld
<1>20. CASE Restart \/ Reboot \/ UNCHANGED vars
  BY <1>1, <1>2, <1>20 DEF Restart, Reboot, vars, host, history, CopyIsHeld
<1> QED BY <1>3, <1>4, <1>5, <1>6, <1>7, <1>8, <1>9, <1>10, <1>11, <1>12, <1>13, <1>14,
          <1>15, <1>16, <1>17, <1>18, <1>19, <1>20 DEF Next

\* A snapshot, and the next archive, go to the end of the order.
LEMMA NextInOrder ==
  ASSUME TypeOK, InOrder(shelf.items, made), NEW e \in Entries, e.id \in {0, made + 1},
         NEW items, items = Append(shelf.items, e), NEW last \in Nat,
         last >= made, last >= e.id
  PROVE  InOrder(items, last)
<1>1. /\ items \in Seq(Entries) /\ Len(items) = Len(shelf.items) + 1
      /\ DOMAIN items = 1 .. Len(shelf.items) + 1
      /\ items[Len(shelf.items) + 1] = e
      /\ \A i \in DOMAIN shelf.items : i \in DOMAIN items /\ items[i] = shelf.items[i]
      /\ \A i \in DOMAIN items : i \in DOMAIN shelf.items \/ i = Len(shelf.items) + 1
  BY Fields
<1>2. /\ made \in Nat /\ e.id \in Nat /\ Len(shelf.items) \in Nat
      /\ DOMAIN shelf.items = 1 .. Len(shelf.items)
      /\ \A i \in DOMAIN shelf.items : shelf.items[i].id \in Nat
  <2>1. \A a \in Entries : a.id \in Nat
    BY Numbers DEF Entries
  <2>2. made \in Nat
    BY Numbers DEF TypeOK
  <2> QED BY <2>1, <2>2, Fields
<1>3. \A i \in DOMAIN items : items[i].id <= last
  BY <1>1, <1>2 DEF InOrder
<1>4. ASSUME NEW i \in DOMAIN items, NEW j \in DOMAIN items, i < j,
             items[i].id # 0, items[j].id # 0
      PROVE  items[i].id < items[j].id
  <2>1. i \in DOMAIN shelf.items /\ items[i] = shelf.items[i]
    BY <1>1, <1>2, <1>4
  <2>2. CASE j \in DOMAIN shelf.items
    BY <1>1, <1>4, <2>1, <2>2 DEF InOrder
  <2>3. CASE j = Len(shelf.items) + 1
    BY <1>1, <1>2, <1>4, <2>1, <2>3 DEF InOrder
  <2> QED BY <1>1, <2>2, <2>3
<1> QED BY <1>3, <1>4 DEF InOrder

\* What stays is in the order it had.
LEMMA PrunedKeepsOrder ==
  ASSUME NEW items \in Seq(Entries), NEW counted \in SUBSET (DOMAIN items),
         NEW r, r = Pruned(items, counted), NEW last, InOrder(items, last)
  PROVE  InOrder(r, last)
<1>1. \A k \in DOMAIN r : \E i \in DOMAIN items : r[k] = items[i]
  BY PrunedInOrder
<1>2. \A k \in DOMAIN r, l \in DOMAIN r : k < l =>
        \E i \in DOMAIN items, j \in DOMAIN items : i < j /\ r[k] = items[i] /\ r[l] = items[j]
  BY PrunedInOrder
<1>3. \A k \in DOMAIN r : r[k].id <= last
  BY <1>1 DEF InOrder
<1>4. ASSUME NEW k \in DOMAIN r, NEW l \in DOMAIN r, k < l, r[k].id # 0, r[l].id # 0
      PROVE  r[k].id < r[l].id
  <2>1. PICK i \in DOMAIN items, j \in DOMAIN items : i < j /\ r[k] = items[i] /\ r[l] = items[j]
    BY <1>2, <1>4
  <2> QED BY <1>4, <2>1 DEF InOrder
<1> QED BY <1>3, <1>4 DEF InOrder

\* An archive begun after the last Keep but one has too few newer ones to be removed.
LEMMA ArchiveStays ==
  ASSUME NEW items \in Seq(Entries), NEW last \in Nat, InOrder(items, last),
         NEW r, r = Pruned(items, ArchiveEntries(items)),
         NEW i \in DOMAIN items, items[i].id # 0, items[i].id > last - Keep
  PROVE  \E k \in DOMAIN r : r[k] = items[i]
<1> DEFINE newer == {j \in ArchiveEntries(items) : j >= i}
           ids == items[i].id .. last
           f == [j \in newer |-> items[j].id]
<1>1. /\ \A j \in DOMAIN items : items[j].id \in Nat /\ items[j].id <= last
      /\ DOMAIN items \subseteq Int /\ Keep \in Nat
  <2>1. \A a \in Entries : a.id \in Nat
    BY Numbers DEF Entries
  <2>2. \A j \in DOMAIN items : items[j] \in Entries
    OBVIOUS
  <2> QED BY <2>1, <2>2, Numbers DEF InOrder
<1>2. f \in Injection(newer, ids)
  <2>1. ASSUME NEW j \in newer PROVE items[j].id \in ids
    <3>1. j \in DOMAIN items /\ items[j].id # 0 /\ j >= i
      BY DEF ArchiveEntries
    <3>2. j = i \/ i < j
      BY <1>1, <3>1
    <3>3. items[i].id <= items[j].id
      BY <1>1, <3>1, <3>2 DEF InOrder
    <3> QED BY <1>1, <3>1, <3>3
  <2>2. ASSUME NEW j \in newer, NEW k \in newer, items[j].id = items[k].id PROVE j = k
    <3>1. j \in DOMAIN items /\ k \in DOMAIN items /\ items[j].id # 0 /\ items[k].id # 0
      BY DEF ArchiveEntries
    <3>2. ~(j < k) /\ ~(k < j)
      BY <1>1, <2>2, <3>1 DEF InOrder
    <3> QED BY <1>1, <3>1, <3>2
  <2> QED BY <2>1, <2>2 DEF Injection, IsInjective
<1>3. IsFiniteSet(ids) /\ Cardinality(ids) = last - items[i].id + 1
  BY <1>1, FS_Interval
<1>4. IsFiniteSet(newer) /\ Cardinality(newer) <= Cardinality(ids)
  BY <1>2, <1>3, FS_Injection
<1>5. Cardinality(newer) \in Nat
  BY <1>4, FS_CardinalityType
<1>6. Cardinality(newer) <= Keep
  BY <1>1, <1>3, <1>4, <1>5
<1>7. Newer(ArchiveEntries(items), i) <= Keep /\ ArchiveEntries(items) \in SUBSET (DOMAIN items)
  BY <1>6 DEF Newer, ArchiveEntries
<1> QED BY <1>7, PrunedInOrder

\* The archives stay in order, and the newest Keep of them stay.
LEMMA OrderStep == IInv /\ [Next]_vars => ArchivesInOrder'
<1> SUFFICES ASSUME IInv, [Next]_vars PROVE ArchivesInOrder'
  OBVIOUS
<1>1. TypeOK /\ InOrder(shelf.items, made) /\ (~LooksLikeStamp => ArchivesKept)
  BY DEF IInv, Shelved, ArchivesInOrder, InOrder
<1>2. made \in Nat /\ wiped \in Nat /\ Keep \in Nat
  BY <1>1, Numbers DEF TypeOK
<1>3. SUFFICES InOrder(shelf'.items, made') /\ (~LooksLikeStamp => ArchivesKept')
  BY DEF ArchivesInOrder, InOrder
<1>4. CASE shelf'.items = shelf.items /\ made' = made /\ wiped' = wiped
  BY <1>1, <1>4 DEF ArchivesKept, ToSet
<1>5. CASE Snapshot
  <2>1. CASE \E e \in Entries : \E counted \in SUBSET (DOMAIN Append(shelf.items, e)) :
              /\ e.id = 0 /\ e.good /\ e.stack = live
              /\ counted = SnapshotEntries(Append(shelf.items, e))
              /\ shelf'.items = Pruned(Append(shelf.items, e), counted)
              /\ doomed' = IF live.whole THEN 0 ELSE doomed + 1
              /\ cli'.step = "validate"
    <3>1. PICK e \in Entries :
            e.id = 0 /\ shelf'.items = Pruned(Append(shelf.items, e), SnapshotEntries(Append(shelf.items, e)))
      BY <2>1
    <3> DEFINE items == Append(shelf.items, e)
    <3>2. /\ items \in Seq(Entries) /\ SnapshotEntries(items) \in SUBSET (DOMAIN items)
          /\ shelf'.items = Pruned(items, SnapshotEntries(items))
      BY <1>1, <3>1, Fields DEF SnapshotEntries
    <3>3. InOrder(items, made)
      <4>1. e.id \in {0, made + 1} /\ made >= made /\ made >= e.id
        BY <1>2, <3>1
      <4> QED BY <1>1, <1>2, <4>1, NextInOrder
    <3>4. \A i \in DOMAIN shelf.items : i \in DOMAIN items /\ items[i] = shelf.items[i]
      BY <1>1, Fields
    <3>5. made' = made /\ wiped' = wiped
      BY <1>5 DEF Snapshot
    <3> HIDE DEF items
    <3>6. InOrder(shelf'.items, made)
      BY <3>2, <3>3, PrunedKeepsOrder
    <3>7. ASSUME ~LooksLikeStamp, NEW i \in DOMAIN shelf.items, shelf.items[i].id # 0
          PROVE  \E k \in DOMAIN shelf'.items : shelf'.items[k] = shelf.items[i]
      <4>1. i \in DOMAIN items /\ items[i] = shelf.items[i] /\ i \notin SnapshotEntries(items)
        BY <3>4, <3>7 DEF SnapshotEntries
      <4> QED BY <3>2, <4>1, PrunedInOrder
    <3>8. ~LooksLikeStamp => ArchivesKept'
      <4> SUFFICES ASSUME ~LooksLikeStamp, NEW id \in 1 .. made, id > wiped, id > made - Keep
                   PROVE  \E k \in DOMAIN shelf'.items : shelf'.items[k].id = id
        BY <3>5 DEF ArchivesKept, ToSet
      <4>1. PICK i \in DOMAIN shelf.items : shelf.items[i].id = id
        BY <1>1 DEF ArchivesKept, ToSet
      <4> QED BY <1>2, <3>7, <4>1
    <3> QED BY <3>5, <3>6, <3>8
  <2>2. CASE shelf' = shelf
    BY <1>4, <1>5, <2>2 DEF Snapshot
  <2> QED BY <1>1, <1>5, <2>1, <2>2, SnapshotPut
<1>6. CASE Archive
  <2>1. CASE \E e \in Entries : \E counted \in SUBSET (DOMAIN Append(shelf.items, e)) :
              /\ e.id = made + 1 /\ e.good /\ e.stack = live /\ made' = made + 1
              /\ counted = ArchiveEntries(Append(shelf.items, e))
              /\ shelf'.items = Pruned(Append(shelf.items, e), counted)
              /\ doomed' = IF live.whole THEN 0 ELSE doomed + 1
              /\ cli'.step = "record"
    <3>1. PICK e \in Entries :
            /\ e.id = made + 1 /\ made' = made + 1
            /\ shelf'.items = Pruned(Append(shelf.items, e), ArchiveEntries(Append(shelf.items, e)))
      BY <2>1
    <3> DEFINE items == Append(shelf.items, e)
    <3>2. /\ items \in Seq(Entries) /\ ArchiveEntries(items) \in SUBSET (DOMAIN items)
          /\ shelf'.items = Pruned(items, ArchiveEntries(items))
      BY <1>1, <3>1, Fields DEF ArchiveEntries
    <3>3. InOrder(items, made + 1)
      <4>1. e.id \in {0, made + 1} /\ made + 1 \in Nat /\ made + 1 >= made /\ made + 1 >= e.id
        BY <1>2, <3>1
      <4> QED BY <1>1, <1>2, <4>1, NextInOrder
    <3>4. /\ \A i \in DOMAIN shelf.items : i \in DOMAIN items /\ items[i] = shelf.items[i]
          /\ Len(shelf.items) + 1 \in DOMAIN items /\ items[Len(shelf.items) + 1] = e
      BY <1>1, Fields
    <3>5. wiped' = wiped /\ made' = made + 1
      BY <1>6, <3>1 DEF Archive
    <3> HIDE DEF items
    <3>6. InOrder(shelf'.items, made + 1)
      BY <3>2, <3>3, PrunedKeepsOrder
    <3>7. ASSUME NEW i \in DOMAIN items, items[i].id # 0, items[i].id > made + 1 - Keep
          PROVE  \E k \in DOMAIN shelf'.items : shelf'.items[k] = items[i]
      BY <1>2, <3>2, <3>3, <3>7, ArchiveStays
    <3>8. ~LooksLikeStamp => ArchivesKept'
      <4> SUFFICES ASSUME ~LooksLikeStamp, NEW id \in 1 .. made', id > wiped', id > made' - Keep
                   PROVE  \E k \in DOMAIN shelf'.items : shelf'.items[k].id = id
        BY DEF ArchivesKept, ToSet
      <4>0. id \in 1 .. made + 1 /\ id > wiped /\ id > made + 1 - Keep
        BY <1>2, <3>5
      <4>1. PICK i \in DOMAIN items : items[i].id = id
        <5>1. CASE id = made + 1
          BY <3>1, <3>4, <5>1
        <5>2. CASE id # made + 1
          <6>1. id \in 1 .. made /\ id > made - Keep
            BY <1>2, <4>0, <5>2
          <6>2. PICK i \in DOMAIN shelf.items : shelf.items[i].id = id
            BY <1>1, <4>0, <6>1 DEF ArchivesKept, ToSet
          <6> QED BY <3>4, <6>2
        <5> QED BY <5>1, <5>2
      <4>2. id # 0
        BY <4>0
      <4> QED BY <3>7, <4>0, <4>1, <4>2
    <3> QED BY <3>1, <3>6, <3>8
  <2>2. CASE shelf'.items = shelf.items /\ made' = made
    BY <1>4, <1>6, <2>2 DEF Archive
  <2> QED BY <1>1, <1>6, <2>1, <2>2, ArchivePut
<1>7. CASE CutSnapshot \/ CutArchive
  <2>1. PICK e \in Entries : CutLeaves(e)
    BY <1>1, <1>7, CutPut
  <2>2. PICK items : items = Append(shelf.items, e)
    OBVIOUS
  <2>3. /\ shelf'.items = items /\ wiped' = wiped /\ made' \in {made, made + 1}
        /\ e.id \in {0, made + 1} /\ (made' = made + 1 => e.id = made + 1)
        /\ (made' = made => e.id = 0)
    BY <1>2, <2>1, <2>2 DEF CutLeaves
  <2>4. InOrder(items, made')
    <3>1. made' \in Nat /\ made' >= made /\ made' >= e.id
      BY <1>2, <2>3
    <3> QED BY <1>1, <2>2, <2>3, <3>1, NextInOrder
  <2>5. /\ \A i \in DOMAIN shelf.items : i \in DOMAIN items /\ items[i] = shelf.items[i]
        /\ Len(shelf.items) + 1 \in DOMAIN items /\ items[Len(shelf.items) + 1] = e
    BY <1>1, <2>2, Fields
  <2>6. ~LooksLikeStamp => ArchivesKept'
    <3> SUFFICES ASSUME ~LooksLikeStamp, NEW id \in 1 .. made', id > wiped', id > made' - Keep
                 PROVE  \E i \in DOMAIN items : items[i].id = id
      BY <2>3 DEF ArchivesKept, ToSet
    <3>1. id > wiped /\ id > made - Keep /\ (id \in 1 .. made \/ id = made + 1)
      <4>1. CASE made' = made
        BY <1>2, <2>3, <4>1
      <4>2. CASE made' = made + 1
        BY <1>2, <2>3, <4>2
      <4> QED BY <2>3, <4>1, <4>2
    <3>2. CASE id \in 1 .. made
      <4>1. PICK i \in DOMAIN shelf.items : shelf.items[i].id = id
        BY <1>1, <3>1, <3>2 DEF ArchivesKept, ToSet
      <4> QED BY <2>5, <4>1
    <3>3. CASE id = made + 1
      <4>1. made' = made + 1
        BY <1>2, <2>3, <3>3
      <4> QED BY <2>3, <2>5, <3>3, <4>1
    <3> QED BY <3>1, <3>2, <3>3
  <2> QED BY <2>3, <2>4, <2>6
<1>8. CASE Wipe
  <2>1. shelf'.items = <<>> /\ made' = made /\ wiped' = made
    BY <1>8 DEF Wipe
  <2> QED BY <1>2, <2>1 DEF InOrder, ArchivesKept
<1>9. CASE \/ Upload("deploy", {})
           \/ \E flags \in SUBSET {"monitoring"} : want["bot"] < MaxTokens /\ Upload("setup", flags)
  BY <1>1, <1>4, <1>9 DEF Upload, TypeOK
<1> QED BY <1>4, <1>5, <1>6, <1>7, <1>8, <1>9
    DEF Next, vars, host, history, Validate, SaveSecrets, CopyStage, KeepSecrets, Up,
      UploadToken, RestartTelegramBot, MonitoringUp, MonitoringDown, AwaitBot, Monitor,
      Restart, Backup, Record, Restore, Clear, Unpack, Cleanup, Down, RemoveStack, Cut,
      CutCopy, CutUp, Reboot

\* A host as it is prepared.
LEMMA InvInit == Init => IInv
<1> SUFFICES ASSUME Init PROVE IInv
  OBVIOUS
<1>1. TypeOK
  BY TypeInit
<1>2. shelf.items = <<>> /\ DOMAIN shelf.items = {}
  BY DEF Init
<1>3. StepsOfCommands /\ SecretsHeld /\ Progress /\ Success /\ WholeIsOfBundle
  BY <1>2 DEF Init, Idle, NoStack, At, AfterUp, StepsOfCommands, SecretsHeld, Progress, Success,
    WholeIsOfBundle
<1>4. OnlyAccepted
  BY <1>2 DEF Init, Idle, NoStack, Accepted, OnlyAccepted
<1>5. CopyIsNear /\ CopyIsHeld
  BY <1>2 DEF Init, Idle, NoStack, CopyIsNear, CopyIsHeld, HasCopy, Copy
<1>6. ArchivesInOrder
  BY <1>2 DEF Init, ArchivesInOrder, InOrder, ArchivesKept
<1> QED BY <1>1, <1>3, <1>4, <1>5, <1>6 DEF IInv, Shelved

\* Every step keeps the invariant, part by part.
LEMMA InvStep == IInv /\ [Next]_vars => IInv'
<1> SUFFICES ASSUME IInv, [Next]_vars PROVE IInv'
  OBVIOUS
<1>1. TypeOK'
  BY TypeStep DEF IInv
<1>2. StepsOfCommands' /\ OnlyAccepted' /\ WholeIsOfBundle'
  BY StepsStep, AcceptedStep, WholeStep
<1>3. SecretsHeld' /\ Progress' /\ Success'
  BY SecretsStep, ProgressStep, SuccessStep
<1>4. Shelved'
  BY NearStep, HeldStep, OrderStep DEF Shelved
<1> QED BY <1>1, <1>2, <1>3, <1>4 DEF IInv

\* The invariant holds on every host.
LEMMA Invariance == Spec => []IInv
BY InvInit, InvStep, PTL DEF Spec

-----------------------------------------------------------------------------
(* What a host relies on.                                                  *)

\* A bundle that docker compose config, the preflight or xray -test refuses
\* (buildDeployValidateCommand) is never installed and never runs.
THEOREM AcceptedOnly == Spec => []RefusedNeverRuns
<1>1. IInv => RefusedNeverRuns
  BY DEF IInv, OnlyAccepted, Accepted, RefusedNeverRuns
<1> QED BY <1>1, Invariance, PTL

\* The snapshots and archives that the retention leaves are a way back to a stack in one
\* piece, whatever is cut.
THEOREM WayBackKept == Spec => []WayBack
<1>1. IInv => WayBack
  <2> SUFFICES ASSUME IInv, owed, ~live.whole, ~(doomed >= Keep)
               PROVE  \E e \in ToSet(shelf.items) : e.good /\ e.stack.whole
    BY DEF WayBack
  <2>1. doomed \in Nat /\ Keep \in Nat
    BY Numbers DEF IInv, TypeOK
  <2>2. HasCopy
    BY <2>1 DEF IInv, Shelved, CopyIsHeld
  <2> QED BY <2>2 DEF HasCopy, Copy, ToSet
<1> QED BY <1>1, Invariance, PTL

\* The apply script preserves the Telegram secrets it finds.
THEOREM SecretsPreserved == Spec => []SecretsKept
<1>1. IInv => SecretsKept
  BY DEF IInv, SecretsHeld, SecretsKept
<1> QED BY <1>1, Invariance, PTL

\* What deploy and telegram-setup report is so, reboots included, whatever fails before,
\* between and after them: the new bundle is live and runs, with the token that is live.
THEOREM ReportsAreTrue == Spec => []SuccessIsReal
<1>1. IInv => SuccessIsReal
  BY DEF IInv, Success, SuccessIsReal
<1> QED BY <1>1, Invariance, PTL

\* The newest Keep archives stay, for a server whose name does not begin with "ovpn-": the
\* snapshots of the others are counted with their archives.
THEOREM NewestArchivesKept ==
  ASSUME LooksLikeStamp = FALSE
  PROVE  Spec => []ArchivesKept
<1>1. IInv => ArchivesKept
  BY DEF IInv, Shelved, ArchivesInOrder
<1> QED BY <1>1, Invariance, PTL

=============================================================================
