--------------------------- MODULE InventoryProofs ---------------------------
(***************************************************************************)
(* InventoryLootSimulation for any number of players, any treasure table   *)
(* and any limits: no treasure is in two places or lost, the totals are    *)
(* those of the items, the queued pickups are counted and in order, and    *)
(* nobody lies dead with loot.                                             *)
(***************************************************************************)
EXTENDS InventoryLootSimulation, FiniteSetTheorems, TLAPS

-----------------------------------------------------------------------------
(* Induction over the natural numbers, for sets *)

\* A set of natural numbers has a least one: of the intervals 1 .. n that its
\* numbers bound, one contains no other.
LEMMA LeastNumber ==
  ASSUME NEW T, T \subseteq Nat, T # {}
  PROVE  \E n \in T : \A m \in T : n <= m
<1> DEFINE R == StrictSubsetOrdering(Nat)
           below == {1 .. n : n \in T}
<1>1. IsWellFoundedOn(R, FiniteSubsetsOf(Nat))
  BY FS_StrictSubsetOrderingWellFounded
<1>2. below \subseteq FiniteSubsetsOf(Nat)
  <2> SUFFICES ASSUME NEW n \in T PROVE 1 .. n \in FiniteSubsetsOf(Nat)
    OBVIOUS
  <2>1. IsFiniteSet(1 .. n)
    BY FS_Interval
  <2> QED
    BY <2>1 DEF FiniteSubsetsOf
<1>3. below # {}
  OBVIOUS
<1> HIDE DEF below, R
<1>4. PICK x \in below : \A y \in below : ~(<<y, x>> \in R)
  BY <1>1, <1>2, <1>3, WFMin
<1>5. PICK n \in T : x = 1 .. n
  BY DEF below
<1>6. ASSUME NEW m \in T PROVE n <= m
  <2> SUFFICES ASSUME m < n PROVE FALSE
    OBVIOUS
  <2>1. 1 .. m \in below
    BY DEF below
  <2>2. 1 .. m \in SUBSET Nat /\ 1 .. n \in SUBSET Nat
    OBVIOUS
  <2>3. 1 .. m \subseteq 1 .. n /\ n \in 1 .. n /\ n \notin 1 .. m
    OBVIOUS
  <2>4. 1 .. m # 1 .. n
    BY <2>3
  <2>5. <<1 .. m, 1 .. n>> \in R
    BY <2>2, <2>3, <2>4 DEF R, StrictSubsetOrdering
  <2> QED
    BY <1>4, <1>5, <2>1, <2>5
<1> QED
  BY <1>6

\* A set with 0, and with n + 1 whenever with n, has every number.
LEMMA Induction ==
  ASSUME NEW S, 0 \in S, \A n \in Nat : n \in S => n + 1 \in S
  PROVE  Nat \subseteq S
<1> SUFFICES ASSUME Nat \ S # {} PROVE FALSE
  OBVIOUS
<1>1. PICK n \in Nat \ S : \A m \in Nat \ S : n <= m
  BY LeastNumber
<1>2. n - 1 \in Nat /\ n - 1 \in S
  BY <1>1
<1> QED
  BY <1>1, <1>2

-----------------------------------------------------------------------------
(* Sums *)

\* The sums of the first numbers, up to each of n.
IsSum(f, numbers, n) ==
  f = [k \in 0 .. n |-> IF k = 0 THEN 0 ELSE f[k - 1] + numbers[k]]

LEMMA SumExists ==
  ASSUME NEW s, NEW n \in Nat
  PROVE  \E f : IsSum(f, s, n)
<1> DEFINE S == {k \in Nat : \E f : IsSum(f, s, k)}
<1>1. 0 \in S
  <2>1. IsSum([k \in 0 .. 0 |-> 0], s, 0)
    BY DEF IsSum
  <2> QED
    BY <2>1
<1>2. ASSUME NEW k \in Nat, k \in S PROVE k + 1 \in S
  <2>1. PICK f : IsSum(f, s, k)
    BY <1>2
  <2> DEFINE g == [i \in 0 .. k + 1 |-> IF i <= k THEN f[i] ELSE f[k] + s[k + 1]]
  <2>2. ASSUME NEW i \in 0 .. k + 1
        PROVE  g[i] = IF i = 0 THEN 0 ELSE g[i - 1] + s[i]
    <3>1. CASE i = k + 1
      BY <3>1
    <3>2. CASE i = 0
      BY <2>1, <3>2 DEF IsSum
    <3>3. CASE i # 0 /\ i <= k
      <4>1. i \in 0 .. k /\ i - 1 \in 0 .. k /\ i - 1 \in 0 .. k + 1
        BY <3>3
      <4>2. f[i] = f[i - 1] + s[i]
        BY <2>1, <3>3, <4>1 DEF IsSum
      <4> QED
        BY <3>3, <4>1, <4>2
    <3> QED
      BY <3>1, <3>2, <3>3
  <2>3. IsSum(g, s, k + 1)
    BY <2>2 DEF IsSum
  <2> QED
    BY <2>3
<1> HIDE DEF S
<1>3. n \in S
  BY <1>1, <1>2, Induction
<1> QED
  BY <1>3 DEF S

LEMMA SumUnique ==
  ASSUME NEW s, NEW n \in Nat, NEW f, NEW g, IsSum(f, s, n), IsSum(g, s, n)
  PROVE  f = g
<1> DEFINE S == {k \in Nat : k \in 0 .. n => f[k] = g[k]}
<1>1. 0 \in S
  BY DEF IsSum
<1>2. ASSUME NEW k \in Nat, k \in S PROVE k + 1 \in S
  <2> SUFFICES ASSUME k + 1 \in 0 .. n PROVE f[k + 1] = g[k + 1]
    OBVIOUS
  <2>1. f[k] = g[k]
    BY <1>2
  <2>2. f[k + 1] = f[k] + s[k + 1] /\ g[k + 1] = g[k] + s[k + 1]
    BY DEF IsSum
  <2> QED
    BY <2>1, <2>2
<1> HIDE DEF S
<1>3. Nat \subseteq S
  BY <1>1, <1>2, Induction
<1>4. \A k \in 0 .. n : f[k] = g[k]
  BY <1>3 DEF S
<1>5. /\ f = [k \in 0 .. n |-> f[k]]
      /\ g = [k \in 0 .. n |-> g[k]]
  BY DEF IsSum
<1> QED
  BY <1>4, <1>5

LEMMA SumIs ==
  ASSUME NEW s, Len(s) \in Nat, NEW f, IsSum(f, s, Len(s))
  PROVE  SumOf(s) = f[Len(s)]
<1>1. \A g : IsSum(g, s, Len(s)) => g = f
  BY SumUnique
<1> QED
  BY <1>1 DEF SumOf, IsSum

\* Nothing is worth nothing ...
LEMMA SumNothing ==
  ASSUME NEW s, Len(s) = 0 PROVE SumOf(s) = 0
<1>1. IsSum([k \in 0 .. 0 |-> 0], s, 0)
  BY DEF IsSum
<1> QED
  BY <1>1, SumIs

\* ... and a number more adds itself.
LEMMA SumLonger ==
  ASSUME NEW s, NEW t, NEW n \in Nat, Len(s) = n, Len(t) = n + 1,
         \A k \in 1 .. n : t[k] = s[k]
  PROVE  SumOf(t) = SumOf(s) + t[n + 1]
<1>1. PICK f : IsSum(f, t, n + 1)
  <2>1. n + 1 \in Nat
    OBVIOUS
  <2> QED
    BY <2>1, SumExists
<1> DEFINE g == [k \in 0 .. n |-> f[k]]
<1>2. ASSUME NEW k \in 0 .. n
      PROVE  g[k] = IF k = 0 THEN 0 ELSE g[k - 1] + s[k]
  <2>1. f[k] = IF k = 0 THEN 0 ELSE f[k - 1] + t[k]
    BY <1>1 DEF IsSum
  <2>2. k # 0 => k \in 1 .. n /\ k - 1 \in 0 .. n
    OBVIOUS
  <2> QED
    BY <2>1, <2>2
<1>3. IsSum(g, s, n)
  BY <1>2 DEF IsSum
<1>4. SumOf(s) = g[n] /\ SumOf(t) = f[n + 1]
  BY <1>1, <1>3, SumIs
<1>5. f[n + 1] = f[n] + t[n + 1] /\ g[n] = f[n]
  BY <1>1 DEF IsSum
<1> QED
  BY <1>4, <1>5

-----------------------------------------------------------------------------
(* The inductive invariant *)

Item == [spawn_id : Nat, treasure : 1 .. Len(Treasures)]
Pickup == [pickup_seq : PickupSeqs, spawn_id : SpawnIds]
Record ==
  [alive : BOOLEAN, items : Seq(Item), total_value : Nat,
   total_weight : 0 .. MaxWeightPerPlayer,
   last_pickup_seq : PickupSeqs, last_enqueued_pickup_seq : PickupSeqs]

\* A queue belongs to a player who was here.
QueuesHavePlayers ==
  \A p \in Players : pickup_queue_by_player[p] # <<>> => p \in DOMAIN players

\* What was resolved was queued before.
ResolvedWereQueued ==
  \A p \in DOMAIN players :
    players[p].last_pickup_seq <= players[p].last_enqueued_pickup_seq

\* While a tick is resolved the inventories have the alive flags of combat.
AliveFlagsCopied ==
  phase # "idle" =>
    \A p \in DOMAIN combat_alive : players[p].alive = combat_alive[p]

\* Deaths wait for their loot to be dropped in the first part of a tick only, and
\* the dead carry something only while they wait.
DeathsAwaitLoot ==
  /\ deaths \subseteq DOMAIN combat_alive
  /\ phase # "deaths" => deaths = {}
  /\ LootDropAll => \A p \in DOMAIN combat_alive :
       ~combat_alive[p] => players[p].items = <<>> \/ p \in deaths

\* Where the treasures are, what is queued, and who is dead.
TreasuryInv ==
  next_spawn_id >= 1 /\ EachTreasureOnce /\ TreasuresConserved /\ TotalsExact
QueueInv == PickupCountExact /\ PickupsOrdered /\ QueuesHavePlayers /\ ResolvedWereQueued
DeathInv == AliveFlagsCopied /\ DeathsAwaitLoot

IInv == TypeOK /\ TreasuryInv /\ QueueInv /\ DeathInv

\* What the assumption says, constant by constant.
LEMMA Constants ==
  /\ MaxPlayers \in Nat /\ MaxPickupSeq \in Nat /\ MaxSpawnId \in Nat
  /\ SpawnIntervalTicks \in Nat \ {0} /\ PickupQueueCapacity \in Nat \ {0}
  /\ MaxItemsPerPlayer \in Nat \ {0} /\ MaxWeightPerPlayer \in Nat \ {0}
  /\ LootDropAll \in BOOLEAN
  /\ Len(Treasures) \in Nat
  /\ \A i \in 1 .. Len(Treasures) : Treasures[i].value \in Nat /\ Treasures[i].weight \in Nat
<1> DEFINE T == [value : Nat, weight : Nat]
<1>1. Treasures \in Seq(T)
  BY InventoryAssumption
<1>2. \A t \in T : t.value \in Nat /\ t.weight \in Nat
  OBVIOUS
<1> HIDE DEF T
<1>3. Len(Treasures) \in Nat /\ \A i \in 1 .. Len(Treasures) : Treasures[i] \in T
  BY <1>1
<1>4. {SpawnIntervalTicks, MaxActiveSpawns, PickupQueueCapacity,
       MaxItemsPerPlayer, MaxWeightPerPlayer} \subseteq Nat \ {0}
  BY InventoryAssumption
<1> QED
  BY <1>2, <1>3, <1>4, InventoryAssumption

\* The record of a player, part by part.
LEMMA RecordIs ==
  ASSUME TypeOK, NEW p \in DOMAIN players
  PROVE  /\ p \in Players /\ players[p] \in Record
         /\ players[p].alive \in BOOLEAN
         /\ players[p].items \in Seq(Item)
         /\ players[p].total_value \in Nat /\ players[p].total_weight \in Nat
         /\ players[p].last_pickup_seq \in PickupSeqs
         /\ players[p].last_enqueued_pickup_seq \in PickupSeqs
<1>1. DOMAIN players \subseteq Players /\ players \in [DOMAIN players -> Record]
  BY Zenon DEF TypeOK, Record, Item
<1>2. p \in Players /\ players[p] \in Record
  BY <1>1, Zenon
<1>3. /\ players[p].alive \in BOOLEAN /\ players[p].items \in Seq(Item)
      /\ players[p].total_value \in Nat
      /\ players[p].total_weight \in 0 .. MaxWeightPerPlayer
      /\ players[p].last_pickup_seq \in PickupSeqs
      /\ players[p].last_enqueued_pickup_seq \in PickupSeqs
  BY <1>2, Zenon DEF Record
<1>4. \A n \in 0 .. MaxWeightPerPlayer : n \in Nat
  BY Constants
<1> QED
  BY <1>2, <1>3, <1>4, Zenon

LEMMA ItemsAre ==
  ASSUME NEW s \in Seq(Item)
  PROVE  /\ Len(s) \in Nat /\ DOMAIN s = 1 .. Len(s)
         /\ \A i \in 1 .. Len(s) :
              /\ s[i] \in Item /\ s[i].spawn_id \in Nat
              /\ s[i].treasure \in 1 .. Len(Treasures)
<1>1. \A t \in Item : t.spawn_id \in Nat /\ t.treasure \in 1 .. Len(Treasures)
  BY Zenon DEF Item
<1>2. Len(s) \in Nat /\ DOMAIN s = 1 .. Len(s) /\ \A i \in 1 .. Len(s) : s[i] \in Item
  OBVIOUS
<1> QED
  BY <1>1, <1>2, Zenon

LEMMA QueueIs ==
  ASSUME TypeOK, NEW p \in Players
  PROVE  /\ pickup_queue_by_player \in [Players -> Seq(Pickup)]
         /\ pickup_queue_by_player[p] \in Seq(Pickup)
         /\ Len(pickup_queue_by_player[p]) \in Nat
         /\ DOMAIN pickup_queue_by_player[p] = 1 .. Len(pickup_queue_by_player[p])
         /\ \A i \in 1 .. Len(pickup_queue_by_player[p]) :
              /\ pickup_queue_by_player[p][i] \in Pickup
              /\ pickup_queue_by_player[p][i].pickup_seq \in PickupSeqs
<1>1. pickup_queue_by_player \in [Players -> Seq(Pickup)]
  BY Zenon DEF TypeOK, Pickup
<1>2. pickup_queue_by_player[p] \in Seq(Pickup)
  BY <1>1, Zenon
<1>3. \A t \in Pickup : t.pickup_seq \in PickupSeqs
  BY Zenon DEF Pickup
<1>4. \A s \in Seq(Pickup) : /\ Len(s) \in Nat /\ DOMAIN s = 1 .. Len(s)
                             /\ \A i \in 1 .. Len(s) : s[i] \in Pickup
  OBVIOUS
<1> QED
  BY <1>1, <1>2, <1>3, <1>4, Zenon

-----------------------------------------------------------------------------
(* What leaves the treasures, or the queues, as they are *)

SameItems ==
  /\ DOMAIN players \subseteq DOMAIN players'
  /\ \A p \in DOMAIN players :
       /\ players'[p].items = players[p].items
       /\ players'[p].total_value = players[p].total_value
       /\ players'[p].total_weight = players[p].total_weight
  /\ \A p \in DOMAIN players' \ DOMAIN players :
       /\ players'[p].items = <<>>
       /\ players'[p].total_value = 0 /\ players'[p].total_weight = 0

LEMMA CarriedStays ==
  ASSUME SameItems
  PROVE  /\ \A p \in DOMAIN players : Carried(p)' = Carried(p)
         /\ \A p \in DOMAIN players' \ DOMAIN players : Carried(p)' = {}
         /\ CarriedByAll' = CarriedByAll
<1>1. \A p \in DOMAIN players : Carried(p)' = Carried(p)
  BY DEF SameItems, Carried
<1>2. \A p \in DOMAIN players' \ DOMAIN players : Carried(p)' = {}
  BY DEF SameItems, Carried
<1>3. CarriedByAll' = CarriedByAll
  BY <1>1, <1>2 DEF SameItems, CarriedByAll
<1> QED
  BY <1>1, <1>2, <1>3

LEMMA TotalsStay ==
  ASSUME TotalsExact, SameItems PROVE TotalsExact'
<1>1. \A s : Len(s) = 0 => SumOf(Values(s)) = 0 /\ SumOf(Weights(s)) = 0
  <2> SUFFICES ASSUME NEW s, Len(s) = 0
               PROVE  SumOf(Values(s)) = 0 /\ SumOf(Weights(s)) = 0
    OBVIOUS
  <2>1. Len(Values(s)) = 0 /\ Len(Weights(s)) = 0
    BY DEF Values, Weights
  <2> QED
    BY <2>1, SumNothing
<1>2. Len(<<>>) = 0
  OBVIOUS
<1> QED
  BY <1>1, <1>2, Constants DEF SameItems, TotalsExact

\* The ids that are carried stay apart.
CarriedApart ==
  /\ \A p \in DOMAIN players :
       \A i, j \in DOMAIN players[p].items :
         players[p].items[i].spawn_id = players[p].items[j].spawn_id => i = j
  /\ \A p, q \in DOMAIN players : p # q => Carried(p) \cap Carried(q) = {}

LEMMA ApartStays ==
  ASSUME CarriedApart, SameItems PROVE CarriedApart'
<1>1. \A p \in DOMAIN players' :
        \A i, j \in DOMAIN players'[p].items :
          players'[p].items[i].spawn_id = players'[p].items[j].spawn_id => i = j
  BY DEF CarriedApart, SameItems
<1>2. \A p, q \in DOMAIN players' : p # q => Carried(p)' \cap Carried(q)' = {}
  BY CarriedStays DEF CarriedApart, SameItems
<1> QED
  BY <1>1, <1>2 DEF CarriedApart

LEMMA TreasuryStays ==
  ASSUME TreasuryInv, SameItems, UNCHANGED spawn_vars PROVE TreasuryInv'
<1>1. CarriedApart
  BY DEF TreasuryInv, EachTreasureOnce, CarriedApart
<1>2. CarriedApart' /\ CarriedByAll' = CarriedByAll /\ TotalsExact'
  BY <1>1, ApartStays, CarriedStays, TotalsStay DEF TreasuryInv
<1>3. EachTreasureOnce'
  BY <1>2 DEF TreasuryInv, EachTreasureOnce, CarriedApart, spawn_vars
<1>4. TreasuresConserved'
  BY <1>2 DEF TreasuryInv, TreasuresConserved, spawn_vars
<1>5. next_spawn_id' >= 1
  BY DEF TreasuryInv, spawn_vars
<1> QED
  BY <1>2, <1>3, <1>4, <1>5 DEF TreasuryInv

SameQueues ==
  /\ UNCHANGED queue_vars
  /\ DOMAIN players \subseteq DOMAIN players'
  /\ \A p \in DOMAIN players :
       /\ players'[p].last_pickup_seq = players[p].last_pickup_seq
       /\ players'[p].last_enqueued_pickup_seq = players[p].last_enqueued_pickup_seq
  /\ \A p \in DOMAIN players' \ DOMAIN players :
       /\ p \in Players
       /\ players'[p].last_pickup_seq = 0 /\ players'[p].last_enqueued_pickup_seq = 0

LEMMA QueuesStay ==
  ASSUME QueueInv, SameQueues PROVE QueueInv'
<1>1. \A p \in DOMAIN players' \ DOMAIN players : pickup_queue_by_player[p] = <<>>
  BY DEF QueueInv, QueuesHavePlayers, SameQueues
<1>2. PickupCountExact'
  BY DEF QueueInv, SameQueues, PickupCountExact, QueuedPickups, queue_vars
<1>3. PickupsOrdered'
  BY <1>1 DEF QueueInv, SameQueues, PickupsOrdered, queue_vars
<1>4. QueuesHavePlayers' /\ ResolvedWereQueued'
  BY DEF QueueInv, SameQueues, QueuesHavePlayers, ResolvedWereQueued, queue_vars
<1> QED
  BY <1>2, <1>3, <1>4 DEF QueueInv

-----------------------------------------------------------------------------
(* The type invariant in parts *)

RecordsTyped ==
  /\ DOMAIN players \subseteq Players
  /\ players \in [DOMAIN players -> Record]

QueuesTyped ==
  /\ pickup_queue_by_player \in [Players -> Seq(Pickup)]
  /\ queued_pickup_count \in 0 .. PickupQueueCapacity

SpawnsTyped ==
  /\ DOMAIN active_spawns_by_id \subseteq Nat
  /\ active_spawns_by_id \in [DOMAIN active_spawns_by_id -> 1 .. Len(Treasures)]
  /\ consumed_spawn_ids \subseteq Nat
  /\ next_spawn_id \in Nat
  /\ next_spawn_definition_index \in Nat

TickTyped ==
  /\ tick_in_interval \in 0 .. SpawnIntervalTicks - 1
  /\ deaths \subseteq Players
  /\ phase \in {"idle", "deaths", "pickups"}

CombatTyped ==
  /\ DOMAIN combat_alive \subseteq DOMAIN players
  /\ combat_alive \in [DOMAIN combat_alive -> BOOLEAN]

LEMMA TypeParts ==
  /\ TypeOK => RecordsTyped /\ QueuesTyped /\ SpawnsTyped /\ TickTyped /\ CombatTyped
  /\ RecordsTyped' /\ QueuesTyped' /\ SpawnsTyped' /\ TickTyped' /\ CombatTyped'
       => TypeOK'
<1>1. TypeOK => RecordsTyped /\ QueuesTyped /\ SpawnsTyped /\ TickTyped /\ CombatTyped
  BY Zenon DEF TypeOK, RecordsTyped, QueuesTyped, SpawnsTyped, TickTyped, CombatTyped,
       Record, Item, Pickup
<1>2. RecordsTyped' /\ QueuesTyped' /\ SpawnsTyped' /\ TickTyped' /\ CombatTyped'
        => TypeOK'
  BY Zenon DEF TypeOK, RecordsTyped, QueuesTyped, SpawnsTyped, TickTyped, CombatTyped,
       Record, Item, Pickup
<1> QED
  BY <1>1, <1>2

-----------------------------------------------------------------------------
(* Queues *)

LEMMA QueuedFinite ==
  ASSUME TypeOK
  PROVE  IsFiniteSet(QueuedPickups) /\ Cardinality(QueuedPickups) \in Nat
<1>1. IsFiniteSet(Players) /\ IsFiniteSet(PickupSeqs)
  BY Constants, FS_Interval DEF Players, PickupSeqs
<1>2. IsFiniteSet(Players \X PickupSeqs)
  BY <1>1, FS_Product
<1>3. IsFiniteSet(QueuedPickups)
  BY <1>2, FS_Subset DEF QueuedPickups
<1> QED
  BY <1>3, FS_CardinalityType

\* What is queued, in the words of a player and a sequence number.
LEMMA QueuedIs ==
  \A q : q \in QueuedPickups <=>
    \E p \in Players, n \in PickupSeqs :
      /\ q = <<p, n>>
      /\ \E i \in DOMAIN pickup_queue_by_player[p] :
           pickup_queue_by_player[p][i].pickup_seq = n
BY DEF QueuedPickups

LEMMA QueuedIsThen ==
  \A q : q \in QueuedPickups' <=>
    \E p \in Players, n \in PickupSeqs :
      /\ q = <<p, n>>
      /\ \E i \in DOMAIN pickup_queue_by_player'[p] :
           pickup_queue_by_player'[p][i].pickup_seq = n
BY DEF QueuedPickups

\* The sums of what is carried when a treasure is added.
LEMMA WorthAppended ==
  ASSUME NEW s \in Seq(Item), NEW it \in Item
  PROVE  /\ SumOf(Values(Append(s, it))) = SumOf(Values(s)) + Treasures[it.treasure].value
         /\ SumOf(Weights(Append(s, it))) = SumOf(Weights(s)) + Treasures[it.treasure].weight
<1> DEFINE t == Append(s, it)
           n == Len(s)
<1>1. /\ n \in Nat /\ Len(t) = n + 1 /\ t[n + 1] = it
      /\ \A k \in 1 .. n : t[k] = s[k]
  OBVIOUS
<1> HIDE DEF t, n
<1>2. SumOf(Values(t)) = SumOf(Values(s)) + Treasures[it.treasure].value
  <2>1. Len(Values(s)) = n /\ Len(Values(t)) = n + 1
    BY <1>1 DEF Values, n
  <2>2. Values(t)[n + 1] = Treasures[it.treasure].value
    BY <1>1 DEF Values
  <2>3. \A k \in 1 .. n : Values(t)[k] = Values(s)[k]
    BY <1>1 DEF Values, n
  <2> QED
    BY <1>1, <2>1, <2>2, <2>3, SumLonger
<1>3. SumOf(Weights(t)) = SumOf(Weights(s)) + Treasures[it.treasure].weight
  <2>1. Len(Weights(s)) = n /\ Len(Weights(t)) = n + 1
    BY <1>1 DEF Weights, n
  <2>2. Weights(t)[n + 1] = Treasures[it.treasure].weight
    BY <1>1 DEF Weights
  <2>3. \A k \in 1 .. n : Weights(t)[k] = Weights(s)[k]
    BY <1>1 DEF Weights, n
  <2> QED
    BY <1>1, <2>1, <2>2, <2>3, SumLonger
<1> QED
  BY <1>2, <1>3 DEF t

\* Parts of a record are replaced by values of their kind.
LEMMA RecordsPut ==
  ASSUME RecordsTyped, NEW p \in DOMAIN players, NEW r \in Record,
         players' = [players EXCEPT ![p] = r]
  PROVE  RecordsTyped' /\ DOMAIN players' = DOMAIN players
BY Zenon DEF RecordsTyped

-----------------------------------------------------------------------------
(* A pickup is queued *)

LEMMA AcceptedQueues ==
  ASSUME IInv, NEW p \in Players, NEW seq \in PickupSeqs, NEW id \in SpawnIds,
         PickupAccepted(p, seq, id)
  PROVE  QueueInv' /\ QueuesTyped'
<1> DEFINE queue == pickup_queue_by_player[p]
           pickup == [pickup_seq |-> seq, spawn_id |-> id]
           n == Len(queue)
<1>1. TypeOK /\ QueueInv /\ p \in DOMAIN players
  BY DEF IInv, PickupAccepted, TypeOK
<1>2. /\ pickup_queue_by_player \in [Players -> Seq(Pickup)]
      /\ queue \in Seq(Pickup) /\ n \in Nat /\ DOMAIN queue = 1 .. n
      /\ \A i \in 1 .. n : queue[i].pickup_seq \in PickupSeqs
  BY <1>1, QueueIs
<1>3. pickup \in Pickup /\ pickup.pickup_seq = seq
  BY Zenon DEF Pickup
<1>4. /\ seq > players[p].last_enqueued_pickup_seq
      /\ queued_pickup_count < PickupQueueCapacity
      /\ queued_pickup_count \in Nat
  <2>1. ~PickupRefused(p, seq)
    BY DEF PickupAccepted
  <2>2. players[p].last_enqueued_pickup_seq \in PickupSeqs
    BY <1>1, RecordIs
  <2>3. queued_pickup_count \in 0 .. PickupQueueCapacity
    BY <1>1, TypeParts DEF QueuesTyped
  <2> QED
    BY <2>1, <2>2, <2>3, Constants DEF PickupRefused, PickupSeqs
<1>5. /\ pickup_queue_by_player' = [pickup_queue_by_player EXCEPT ![p] = Append(queue, pickup)]
      /\ players' = [players EXCEPT ![p].last_enqueued_pickup_seq = seq]
      /\ queued_pickup_count' = queued_pickup_count + 1
  BY DEF PickupAccepted
<1>6. Append(queue, pickup) \in Seq(Pickup)
  BY <1>2, <1>3
<1> HIDE DEF pickup
<1>7. /\ pickup_queue_by_player'[p] = Append(queue, pickup)
      /\ \A q \in Players : q # p => pickup_queue_by_player'[q] = pickup_queue_by_player[q]
      /\ pickup_queue_by_player' \in [Players -> Seq(Pickup)]
  BY <1>2, <1>5, <1>6, Zenon
<1>8. QueuesTyped'
  BY <1>4, <1>5, <1>7, Constants DEF QueuesTyped
<1> DEFINE longer == pickup_queue_by_player'[p]
<1>9. /\ longer = Append(queue, pickup)
      /\ DOMAIN longer = 1 .. n + 1 /\ Len(longer) = n + 1
      /\ longer[n + 1] = pickup /\ \A i \in 1 .. n : longer[i] = queue[i]
      /\ longer # <<>>
  BY <1>2, <1>7
<1> HIDE DEF queue, n, longer
<1>10. /\ DOMAIN players' = DOMAIN players
       /\ \A q \in DOMAIN players :
            /\ players'[q].last_pickup_seq = players[q].last_pickup_seq
            /\ q # p => players'[q] = players[q]
       /\ players'[p].last_enqueued_pickup_seq = seq
  <2>1. players[p] \in Record
    BY <1>1, RecordIs
  <2>2. DOMAIN players[p] = {"alive", "items", "total_value", "total_weight",
                             "last_pickup_seq", "last_enqueued_pickup_seq"}
    BY <2>1 DEF Record
  <2> QED
    BY <1>1, <1>5, <2>2
<1>11. \A i \in 1 .. n : queue[i].pickup_seq < seq
  <2> SUFFICES ASSUME NEW i \in 1 .. n PROVE queue[i].pickup_seq < seq
    OBVIOUS
  <2>1. n > 0 /\ n \in 1 .. n /\ queue # <<>> /\ Last(queue) = queue[n]
    BY <1>2 DEF Last, n
  <2>2. queue[n].pickup_seq = players[p].last_enqueued_pickup_seq
    BY <1>1, <2>1 DEF QueueInv, PickupsOrdered, queue
  <2>3. i = n \/ queue[i].pickup_seq < queue[n].pickup_seq
    <3>1. i = n \/ i < n
      <4>1. n \in Nat
        BY <1>2
      <4> QED
        BY <4>1
    <3>2. \A a, b \in 1 .. n : a < b => queue[a].pickup_seq < queue[b].pickup_seq
      BY <1>1, <1>2, Zenon DEF QueueInv, PickupsOrdered, queue, n
    <3> QED
      BY <2>1, <3>1, <3>2, Zenon
  <2>4. queue[i].pickup_seq \in Int /\ queue[n].pickup_seq \in Int /\ seq \in Int
    BY <1>2, <2>1 DEF PickupSeqs
  <2> QED
    BY <1>4, <2>2, <2>3, <2>4
<1>12. \A q \in Players :
         pickup_queue_by_player'[q] # <<>> => q \in DOMAIN players'
  BY <1>1, <1>7, <1>10 DEF QueueInv, QueuesHavePlayers
<1>13. ResolvedWereQueued'
  <2> SUFFICES ASSUME NEW q \in DOMAIN players
               PROVE  players'[q].last_pickup_seq <= players'[q].last_enqueued_pickup_seq
    BY <1>10 DEF ResolvedWereQueued
  <2>1. players[q].last_pickup_seq <= players[q].last_enqueued_pickup_seq
    BY <1>1 DEF QueueInv, ResolvedWereQueued
  <2>2. /\ players[q].last_pickup_seq \in Nat
        /\ players[q].last_enqueued_pickup_seq \in Nat /\ seq \in Nat
    BY <1>1, RecordIs DEF PickupSeqs
  <2> QED
    BY <1>4, <1>10, <2>1, <2>2
<1>14. PickupsOrdered'
  <2> SUFFICES ASSUME NEW q \in DOMAIN players
               PROVE  LET theirs == pickup_queue_by_player'[q]
                      IN  /\ \A i, j \in DOMAIN theirs :
                               i < j => theirs[i].pickup_seq < theirs[j].pickup_seq
                          /\ \A i \in DOMAIN theirs :
                               players'[q].last_pickup_seq < theirs[i].pickup_seq
                          /\ theirs # <<>> =>
                               Last(theirs).pickup_seq = players'[q].last_enqueued_pickup_seq
    BY <1>10, Zenon DEF PickupsOrdered
  <2>1. CASE q # p
    <3>1. q \in Players
      BY <1>1, RecordIs
    <3>2. /\ pickup_queue_by_player'[q] = pickup_queue_by_player[q]
          /\ players'[q] = players[q]
      BY <1>7, <1>10, <2>1, <3>1
    <3> QED
      BY <1>1, <3>2, Zenon DEF QueueInv, PickupsOrdered
  <2>2. CASE q = p
    <3>1. \A i, j \in 1 .. n + 1 : i < j => longer[i].pickup_seq < longer[j].pickup_seq
      <4> SUFFICES ASSUME NEW i \in 1 .. n + 1, NEW j \in 1 .. n + 1, i < j
                   PROVE  longer[i].pickup_seq < longer[j].pickup_seq
        OBVIOUS
      <4>1. n \in Nat /\ i \in 1 .. n
        BY <1>2 DEF n
      <4>2. CASE j = n + 1
        BY <1>3, <1>9, <1>11, <4>1, <4>2
      <4>3. CASE j \in 1 .. n
        <5>1. queue[i].pickup_seq < queue[j].pickup_seq
          BY <1>1, <1>2, <4>1, <4>3 DEF QueueInv, PickupsOrdered, queue, n
        <5> QED
          BY <1>9, <4>1, <4>3, <5>1
      <4> QED
        BY <4>1, <4>2, <4>3
    <3>2. \A i \in 1 .. n + 1 : players[p].last_pickup_seq < longer[i].pickup_seq
      <4> SUFFICES ASSUME NEW i \in 1 .. n + 1
                   PROVE  players[p].last_pickup_seq < longer[i].pickup_seq
        OBVIOUS
      <4>1. n \in Nat
        BY <1>2 DEF n
      <4>2. CASE i = n + 1
        <5>1. players[p].last_pickup_seq <= players[p].last_enqueued_pickup_seq
          BY <1>1 DEF QueueInv, ResolvedWereQueued
        <5>2. /\ players[p].last_pickup_seq \in Nat
              /\ players[p].last_enqueued_pickup_seq \in Nat /\ seq \in Nat
          BY <1>1, RecordIs DEF PickupSeqs
        <5> QED
          BY <1>3, <1>4, <1>9, <4>2, <5>1, <5>2
      <4>3. CASE i \in 1 .. n
        <5>1. players[p].last_pickup_seq < queue[i].pickup_seq
          BY <1>1, <1>2, <4>3 DEF QueueInv, PickupsOrdered, queue, n
        <5> QED
          BY <1>9, <4>3, <5>1
      <4> QED
        BY <4>1, <4>2, <4>3
    <3>3. Last(longer).pickup_seq = seq
      BY <1>3, <1>9 DEF Last
    <3> QED
      BY <1>1, <1>9, <1>10, <2>2, <3>1, <3>2, <3>3, Zenon DEF longer
  <2> QED
    BY <2>1, <2>2
<1>15. QueuedPickups' = QueuedPickups \cup {<<p, seq>>}
  <2>1. ASSUME NEW q \in QueuedPickups' PROVE q \in QueuedPickups \cup {<<p, seq>>}
    <3>1. PICK r \in Players, m \in PickupSeqs :
            /\ q = <<r, m>>
            /\ \E i \in DOMAIN pickup_queue_by_player'[r] :
                 pickup_queue_by_player'[r][i].pickup_seq = m
      BY <2>1, QueuedIsThen
    <3>2. CASE r # p
      <4>1. pickup_queue_by_player'[r] = pickup_queue_by_player[r]
        BY <1>7, <3>2
      <4> QED
        BY <3>1, <4>1, QueuedIs, Zenon
    <3>3. CASE r = p
      <4>1. PICK i \in 1 .. n + 1 : longer[i].pickup_seq = m
        BY <1>9, <3>1, <3>3 DEF longer
      <4>2. CASE i = n + 1
        BY <1>3, <1>9, <3>1, <3>3, <4>1, <4>2
      <4>3. CASE i # n + 1
        <5>1. i \in 1 .. n
          BY <1>2, <4>3 DEF n
        <5>2. i \in DOMAIN pickup_queue_by_player[p] /\ pickup_queue_by_player[p][i].pickup_seq = m
          BY <1>2, <1>9, <4>1, <5>1 DEF queue, n
        <5> QED
          BY <3>1, <3>3, <5>2, QueuedIs, Zenon
      <4> QED
        BY <4>2, <4>3
    <3> QED
      BY <3>2, <3>3
  <2>2. ASSUME NEW q \in QueuedPickups PROVE q \in QueuedPickups'
    <3>1. PICK r \in Players, m \in PickupSeqs :
            /\ q = <<r, m>>
            /\ \E i \in DOMAIN pickup_queue_by_player[r] :
                 pickup_queue_by_player[r][i].pickup_seq = m
      BY <2>2, QueuedIs
    <3>2. CASE r # p
      <4>1. pickup_queue_by_player'[r] = pickup_queue_by_player[r]
        BY <1>7, <3>2
      <4> QED
        BY <3>1, <4>1, QueuedIsThen, Zenon
    <3>3. CASE r = p
      <4>1. PICK i \in 1 .. n : queue[i].pickup_seq = m
        BY <1>2, <3>1, <3>3 DEF queue, n
      <4>2. i \in DOMAIN longer /\ longer[i].pickup_seq = m
        BY <1>2, <1>9, <4>1 DEF n
      <4> QED
        BY <3>1, <3>3, <4>2, QueuedIsThen, Zenon DEF longer
    <3> QED
      BY <3>2, <3>3
  <2>3. <<p, seq>> \in QueuedPickups'
    <3>1. n + 1 \in DOMAIN longer /\ longer[n + 1].pickup_seq = seq
      BY <1>2, <1>3, <1>9 DEF n
    <3> QED
      BY <3>1, QueuedIsThen, Zenon DEF longer
  <2> QED
    BY <2>1, <2>2, <2>3
<1>16. <<p, seq>> \notin QueuedPickups
  <2> SUFFICES ASSUME <<p, seq>> \in QueuedPickups PROVE FALSE
    OBVIOUS
  <2>1. PICK i \in 1 .. n : queue[i].pickup_seq = seq
    BY <1>2, QueuedIs DEF queue, n
  <2> QED
    BY <1>2, <1>11, <2>1 DEF PickupSeqs
<1>17. PickupCountExact'
  <2>1. Cardinality(QueuedPickups \cup {<<p, seq>>}) = Cardinality(QueuedPickups) + 1
    BY <1>1, <1>16, QueuedFinite, FS_AddElement
  <2>2. queued_pickup_count = Cardinality(QueuedPickups)
    BY <1>1 DEF QueueInv, PickupCountExact
  <2>3. queued_pickup_count + 1 <= PickupQueueCapacity
    BY <1>4, Constants
  <2> QED
    BY <1>5, <1>15, <2>1, <2>2, <2>3, Constants DEF PickupCountExact
<1> QED
  BY <1>8, <1>12, <1>13, <1>14, <1>17 DEF QueueInv, QueuesHavePlayers

-----------------------------------------------------------------------------
(* A pickup is resolved *)

\* What a queue in order says of each of its pickups.
LEMMA QueueInOrder ==
  ASSUME IInv, NEW p \in DOMAIN players
  PROVE  /\ \A i, j \in 1 .. Len(pickup_queue_by_player[p]) :
              i < j => pickup_queue_by_player[p][i].pickup_seq
                         < pickup_queue_by_player[p][j].pickup_seq
         /\ \A i \in 1 .. Len(pickup_queue_by_player[p]) :
              players[p].last_pickup_seq < pickup_queue_by_player[p][i].pickup_seq
         /\ pickup_queue_by_player[p] # <<>> =>
              pickup_queue_by_player[p][Len(pickup_queue_by_player[p])].pickup_seq
                = players[p].last_enqueued_pickup_seq
<1>1. p \in Players /\ TypeOK /\ PickupsOrdered
  BY RecordIs, Zenon DEF IInv, QueueInv
<1>2. DOMAIN pickup_queue_by_player[p] = 1 .. Len(pickup_queue_by_player[p])
  BY <1>1, QueueIs, Zenon
<1> QED
  BY <1>1, <1>2, Zenon DEF PickupsOrdered, Last

\* The records that a resolved pickup leaves.
ResolvedRecords(p) ==
  /\ DOMAIN players' = DOMAIN players
  /\ \A q \in DOMAIN players : q # p => players'[q] = players[q]
  /\ players'[p].last_pickup_seq = Resolved(p, Head(pickup_queue_by_player[p]))
  /\ players'[p].last_enqueued_pickup_seq = players[p].last_enqueued_pickup_seq

\* The first pickup of a queue.
LEMMA FirstPickup ==
  ASSUME IInv, NEW p \in Players, NextPicker(p)
  PROVE  /\ p \in DOMAIN players
         /\ Head(pickup_queue_by_player[p]) = pickup_queue_by_player[p][1]
         /\ pickup_queue_by_player[p][1] \in Pickup
         /\ Len(pickup_queue_by_player[p]) \in Nat /\ Len(pickup_queue_by_player[p]) > 0
         /\ Resolved(p, Head(pickup_queue_by_player[p]))
              = pickup_queue_by_player[p][1].pickup_seq
<1>1. TypeOK /\ pickup_queue_by_player[p] # <<>> /\ p \in DOMAIN players
  BY Zenon DEF IInv, NextPicker, QueueInv, QueuesHavePlayers
<1>2. pickup_queue_by_player[p] \in Seq(Pickup)
  BY <1>1, QueueIs
<1>3. \A s \in Seq(Pickup) : s # <<>> =>
        Len(s) \in Nat /\ Len(s) > 0 /\ Head(s) = s[1] /\ s[1] \in Pickup /\ 1 \in 1 .. Len(s)
  OBVIOUS
<1>4. /\ Len(pickup_queue_by_player[p]) \in Nat /\ Len(pickup_queue_by_player[p]) > 0
      /\ Head(pickup_queue_by_player[p]) = pickup_queue_by_player[p][1]
      /\ pickup_queue_by_player[p][1] \in Pickup
      /\ 1 \in 1 .. Len(pickup_queue_by_player[p])
  BY <1>1, <1>2, <1>3, Zenon
<1>5. players[p].last_pickup_seq < pickup_queue_by_player[p][1].pickup_seq
  BY <1>1, <1>4, QueueInOrder
<1>6. Resolved(p, Head(pickup_queue_by_player[p])) = pickup_queue_by_player[p][1].pickup_seq
  BY <1>4, <1>5, Zenon DEF Resolved
<1> QED
  BY <1>1, <1>4, <1>6

LEMMA ResolvedQueues ==
  ASSUME IInv, NEW p \in Players, NextPicker(p), Dequeue(p), ResolvedRecords(p)
  PROVE  QueueInv' /\ QueuesTyped'
<1> DEFINE queue == pickup_queue_by_player[p]
           n == Len(queue)
           shorter == pickup_queue_by_player'[p]
           seq == queue[1].pickup_seq
<1>1. TypeOK /\ QueueInv /\ p \in DOMAIN players
  BY FirstPickup DEF IInv
<1>2. /\ pickup_queue_by_player \in [Players -> Seq(Pickup)]
      /\ queue \in Seq(Pickup) /\ n \in Nat /\ DOMAIN queue = 1 .. n
      /\ \A i \in 1 .. n : queue[i].pickup_seq \in PickupSeqs
  BY <1>1, QueueIs
<1>3. n \in Nat \ {0} /\ 1 \in 1 .. n /\ n \in 1 .. n /\ queue # <<>>
  <2>1. n > 0 /\ queue # <<>>
    BY FirstPickup DEF NextPicker
  <2> QED
    BY <1>2, <2>1
<1>4. /\ \A i, j \in 1 .. n : i < j => queue[i].pickup_seq < queue[j].pickup_seq
      /\ queue[n].pickup_seq = players[p].last_enqueued_pickup_seq
  BY <1>1, <1>3, QueueInOrder
<1>5. Tail(queue) \in Seq(Pickup) /\ Len(Tail(queue)) = n - 1
      /\ \A i \in 1 .. n - 1 : Tail(queue)[i] = queue[i + 1]
  BY <1>2, <1>3
<1>6. /\ shorter = Tail(queue)
      /\ \A q \in Players : q # p => pickup_queue_by_player'[q] = pickup_queue_by_player[q]
      /\ pickup_queue_by_player' \in [Players -> Seq(Pickup)]
  BY <1>2, <1>5, Zenon DEF Dequeue
<1>7. /\ shorter \in Seq(Pickup) /\ Len(shorter) = n - 1 /\ DOMAIN shorter = 1 .. n - 1
      /\ \A i \in 1 .. n - 1 : shorter[i] = queue[i + 1]
      /\ shorter # <<>> => n - 1 \in 1 .. n - 1
  BY <1>3, <1>5, <1>6
<1>8. seq \in PickupSeqs /\ players'[p].last_pickup_seq = seq
  BY <1>2, <1>3, FirstPickup DEF ResolvedRecords
<1> HIDE DEF queue, n, shorter, seq
<1>9. <<p, seq>> \in QueuedPickups
  BY <1>2, <1>3, <1>8, QueuedIs, Zenon DEF queue, n, seq
<1>10. QueuedPickups' = QueuedPickups \ {<<p, seq>>}
  <2>1. ASSUME NEW q \in QueuedPickups' PROVE q \in QueuedPickups \ {<<p, seq>>}
    <3>1. PICK r \in Players, m \in PickupSeqs :
            /\ q = <<r, m>>
            /\ \E i \in DOMAIN pickup_queue_by_player'[r] :
                 pickup_queue_by_player'[r][i].pickup_seq = m
      BY <2>1, QueuedIsThen
    <3>2. CASE r # p
      <4>1. pickup_queue_by_player'[r] = pickup_queue_by_player[r]
        BY <1>6, <3>2
      <4>2. q \in QueuedPickups
        BY <3>1, <4>1, QueuedIs, Zenon
      <4> QED
        BY <3>1, <3>2, <4>2
    <3>3. CASE r = p
      <4>1. PICK i \in 1 .. n - 1 : shorter[i].pickup_seq = m
        BY <1>7, <3>1, <3>3 DEF shorter
      <4>2. i + 1 \in 1 .. n /\ 1 < i + 1
        BY <1>3, <4>1
      <4>3. queue[i + 1].pickup_seq = m
        BY <1>7, <4>1
      <4>4. i + 1 \in DOMAIN pickup_queue_by_player[p]
            /\ pickup_queue_by_player[p][i + 1].pickup_seq = m
        BY <1>2, <4>2, <4>3 DEF queue, n
      <4>5. q \in QueuedPickups
        BY <3>1, <3>3, <4>4, QueuedIs, Zenon
      <4>6. seq < m
        BY <1>3, <1>4, <4>2, <4>3, Zenon DEF seq
      <4>7. q # <<p, seq>>
        BY <1>8, <3>1, <4>6 DEF PickupSeqs
      <4> QED
        BY <4>5, <4>7
    <3> QED
      BY <3>2, <3>3
  <2>2. ASSUME NEW q \in QueuedPickups, q # <<p, seq>> PROVE q \in QueuedPickups'
    <3>1. PICK r \in Players, m \in PickupSeqs :
            /\ q = <<r, m>>
            /\ \E i \in DOMAIN pickup_queue_by_player[r] :
                 pickup_queue_by_player[r][i].pickup_seq = m
      BY <2>2, QueuedIs
    <3>2. CASE r # p
      <4>1. pickup_queue_by_player'[r] = pickup_queue_by_player[r]
        BY <1>6, <3>2
      <4> QED
        BY <3>1, <4>1, QueuedIsThen, Zenon
    <3>3. CASE r = p
      <4>1. PICK i \in 1 .. n : queue[i].pickup_seq = m
        BY <1>2, <3>1, <3>3 DEF queue, n
      <4>2. i # 1
        BY <2>2, <3>1, <3>3, <4>1 DEF seq
      <4>3. i - 1 \in 1 .. n - 1 /\ (i - 1) + 1 = i
        BY <1>3, <4>1, <4>2
      <4>4. i - 1 \in DOMAIN shorter /\ shorter[i - 1].pickup_seq = m
        BY <1>7, <4>1, <4>3
      <4> QED
        BY <3>1, <3>3, <4>4, QueuedIsThen, Zenon DEF shorter
    <3> QED
      BY <3>2, <3>3
  <2> QED
    BY <2>1, <2>2
<1>11. PickupCountExact' /\ QueuesTyped'
  <2>1. Cardinality(QueuedPickups \ {<<p, seq>>}) = Cardinality(QueuedPickups) - 1
    BY <1>1, <1>9, QueuedFinite, FS_RemoveElement
  <2>2. Cardinality(QueuedPickups \ {<<p, seq>>}) \in Nat
    BY <1>1, QueuedFinite, FS_RemoveElement, FS_CardinalityType
  <2>3. queued_pickup_count = Cardinality(QueuedPickups)
        /\ queued_pickup_count \in 0 .. PickupQueueCapacity
    BY <1>1, TypeParts DEF QueueInv, PickupCountExact, QueuesTyped
  <2>4. queued_pickup_count > 0
    BY <2>1, <2>2, <2>3, Constants
  <2>5. queued_pickup_count' = queued_pickup_count - 1
    BY <2>4 DEF Dequeue
  <2> QED
    BY <1>6, <1>10, <2>1, <2>3, <2>4, <2>5, Constants DEF PickupCountExact, QueuesTyped
<1>12. QueuesHavePlayers'
  BY <1>1, <1>6 DEF QueueInv, QueuesHavePlayers, ResolvedRecords
<1>13. ResolvedWereQueued'
  <2> SUFFICES ASSUME NEW q \in DOMAIN players
               PROVE  players'[q].last_pickup_seq <= players'[q].last_enqueued_pickup_seq
    BY DEF ResolvedWereQueued, ResolvedRecords
  <2>1. CASE q # p
    BY <1>1, <2>1, Zenon DEF QueueInv, ResolvedWereQueued, ResolvedRecords
  <2>2. CASE q = p
    <3>1. n = 1 \/ 1 < n
      BY <1>3
    <3>2. seq = players[p].last_enqueued_pickup_seq
          \/ seq < players[p].last_enqueued_pickup_seq
      BY <1>3, <1>4, <3>1, Zenon DEF seq
    <3>3. seq \in Nat /\ players[p].last_enqueued_pickup_seq \in Nat
      BY <1>1, <1>8, RecordIs DEF PickupSeqs
    <3> QED
      BY <1>8, <2>2, <3>2, <3>3 DEF ResolvedRecords
  <2> QED
    BY <2>1, <2>2
<1>14. PickupsOrdered'
  <2> SUFFICES ASSUME NEW q \in DOMAIN players
               PROVE  LET theirs == pickup_queue_by_player'[q]
                      IN  /\ \A i, j \in DOMAIN theirs :
                               i < j => theirs[i].pickup_seq < theirs[j].pickup_seq
                          /\ \A i \in DOMAIN theirs :
                               players'[q].last_pickup_seq < theirs[i].pickup_seq
                          /\ theirs # <<>> =>
                               Last(theirs).pickup_seq = players'[q].last_enqueued_pickup_seq
    BY Zenon DEF PickupsOrdered, ResolvedRecords
  <2>1. CASE q # p
    <3>1. q \in Players
      BY <1>1, RecordIs
    <3>2. /\ pickup_queue_by_player'[q] = pickup_queue_by_player[q]
          /\ players'[q] = players[q]
      BY <1>6, <2>1, <3>1 DEF ResolvedRecords
    <3> QED
      BY <1>1, <3>2, Zenon DEF QueueInv, PickupsOrdered
  <2>2. CASE q = p
    <3>1. \A i \in 1 .. n - 1 : i + 1 \in 1 .. n /\ 1 < i + 1
      BY <1>3
    <3>2. \A i, j \in 1 .. n - 1 : i < j => shorter[i].pickup_seq < shorter[j].pickup_seq
      <4> SUFFICES ASSUME NEW i \in 1 .. n - 1, NEW j \in 1 .. n - 1, i < j
                   PROVE  shorter[i].pickup_seq < shorter[j].pickup_seq
        OBVIOUS
      <4>1. i + 1 < j + 1
        BY <1>3
      <4>2. queue[i + 1].pickup_seq < queue[j + 1].pickup_seq
        BY <1>4, <3>1, <4>1, Zenon
      <4> QED
        BY <1>7, <4>2
    <3>3. \A i \in 1 .. n - 1 : players'[p].last_pickup_seq < shorter[i].pickup_seq
      <4> SUFFICES ASSUME NEW i \in 1 .. n - 1
                   PROVE  players'[p].last_pickup_seq < shorter[i].pickup_seq
        OBVIOUS
      <4>1. queue[1].pickup_seq < queue[i + 1].pickup_seq
        BY <1>3, <1>4, <3>1, Zenon
      <4> QED
        BY <1>7, <1>8, <4>1 DEF seq
    <3>4. shorter # <<>> => Last(shorter).pickup_seq = players'[p].last_enqueued_pickup_seq
      <4> SUFFICES ASSUME shorter # <<>>
                   PROVE  Last(shorter).pickup_seq = players'[p].last_enqueued_pickup_seq
        OBVIOUS
      <4>1. Last(shorter) = shorter[n - 1] /\ shorter[n - 1] = queue[(n - 1) + 1]
        BY <1>7 DEF Last
      <4>2. (n - 1) + 1 = n
        BY <1>3
      <4> QED
        BY <1>4, <4>1, <4>2, Zenon DEF ResolvedRecords
    <3> QED
      BY <1>7, <2>2, <3>2, <3>3, <3>4, Zenon DEF shorter
  <2> QED
    BY <2>1, <2>2
<1> QED
  BY <1>11, <1>12, <1>13, <1>14 DEF QueueInv

-----------------------------------------------------------------------------
(* A player leaves *)

LEMMA RemovedQueues ==
  ASSUME IInv, NEW p \in Players, RemovePlayer(p),
         DOMAIN players' = DOMAIN players,
         \A q \in DOMAIN players :
           /\ players'[q].last_pickup_seq = players[q].last_pickup_seq
           /\ players'[q].last_enqueued_pickup_seq = players[q].last_enqueued_pickup_seq
  PROVE  QueueInv' /\ QueuesTyped'
<1> DEFINE queue == pickup_queue_by_player[p]
           n == Len(queue)
           theirs == {<<p, queue[i].pickup_seq>> : i \in 1 .. n}
<1>1. TypeOK /\ QueueInv /\ p \in DOMAIN players
  BY DEF IInv, RemovePlayer
<1>2. /\ pickup_queue_by_player \in [Players -> Seq(Pickup)]
      /\ queue \in Seq(Pickup) /\ n \in Nat /\ DOMAIN queue = 1 .. n
      /\ \A i \in 1 .. n : queue[i].pickup_seq \in PickupSeqs
  BY <1>1, QueueIs
<1>3. \A i, j \in 1 .. n : i < j => queue[i].pickup_seq < queue[j].pickup_seq
  BY <1>1, QueueInOrder
<1>4. /\ pickup_queue_by_player' = [pickup_queue_by_player EXCEPT ![p] = <<>>]
      /\ queued_pickup_count' = IF queued_pickup_count >= n
                                THEN queued_pickup_count - n ELSE 0
  BY DEF RemovePlayer
<1>5. <<>> \in Seq(Pickup)
  OBVIOUS
<1>6. /\ pickup_queue_by_player'[p] = <<>>
      /\ \A q \in Players : q # p => pickup_queue_by_player'[q] = pickup_queue_by_player[q]
      /\ pickup_queue_by_player' \in [Players -> Seq(Pickup)]
  BY <1>2, <1>4, <1>5, Zenon
<1> HIDE DEF queue, n
<1>7. theirs \subseteq QueuedPickups
  <2> SUFFICES ASSUME NEW i \in 1 .. n PROVE <<p, queue[i].pickup_seq>> \in QueuedPickups
    OBVIOUS
  <2>1. queue[i].pickup_seq \in PickupSeqs /\ i \in DOMAIN queue
    BY <1>2
  <2> QED
    BY <2>1, QueuedIs, Zenon DEF queue
<1>8. QueuedPickups' = QueuedPickups \ theirs
  <2>1. ASSUME NEW q \in QueuedPickups' PROVE q \in QueuedPickups \ theirs
    <3>1. PICK r \in Players, m \in PickupSeqs :
            /\ q = <<r, m>>
            /\ \E i \in DOMAIN pickup_queue_by_player'[r] :
                 pickup_queue_by_player'[r][i].pickup_seq = m
      BY <2>1, QueuedIsThen
    <3>2. DOMAIN <<>> = {}
      OBVIOUS
    <3>3. r # p
      BY <1>6, <3>1, <3>2, Zenon
    <3>4. pickup_queue_by_player'[r] = pickup_queue_by_player[r]
      BY <1>6, <3>3
    <3>5. q \in QueuedPickups
      BY <3>1, <3>4, QueuedIs, Zenon
    <3> QED
      BY <3>1, <3>3, <3>5
  <2>2. ASSUME NEW q \in QueuedPickups, q \notin theirs PROVE q \in QueuedPickups'
    <3>1. PICK r \in Players, m \in PickupSeqs :
            /\ q = <<r, m>>
            /\ \E i \in DOMAIN pickup_queue_by_player[r] :
                 pickup_queue_by_player[r][i].pickup_seq = m
      BY <2>2, QueuedIs
    <3>2. r # p
      BY <1>2, <2>2, <3>1 DEF queue
    <3>3. pickup_queue_by_player'[r] = pickup_queue_by_player[r]
      BY <1>6, <3>2
    <3> QED
      BY <3>1, <3>3, QueuedIsThen, Zenon
  <2> QED
    BY <2>1, <2>2
<1>9. Cardinality(theirs) = n
  <2> DEFINE f == [i \in 1 .. n |-> <<p, queue[i].pickup_seq>>]
  <2>1. ASSUME NEW i \in 1 .. n, NEW j \in 1 .. n, f[i] = f[j] PROVE i = j
    <3>1. queue[i].pickup_seq = queue[j].pickup_seq
      BY <2>1
    <3>2. ~(i < j) /\ ~(j < i)
      <4>1. queue[i].pickup_seq \in Int
        BY <1>2 DEF PickupSeqs
      <4>2. ~(queue[i].pickup_seq < queue[i].pickup_seq)
        BY <4>1
      <4> QED
        BY <1>3, <3>1, <4>2, Zenon
    <3>3. n \in Nat
      BY <1>2
    <3> QED
      BY <3>2, <3>3
  <2>2. f \in Bijection(1 .. n, theirs)
    BY <2>1 DEF Bijection, Injection, Surjection, IsInjective
  <2>3. ExistsBijection(1 .. n, theirs)
    BY <2>2 DEF ExistsBijection
  <2>4. IsFiniteSet(1 .. n) /\ Cardinality(1 .. n) = n
    BY <1>2, FS_Interval
  <2> HIDE DEF f, theirs
  <2> QED
    BY <2>3, <2>4, FS_Bijection
<1> HIDE DEF theirs
<1>10. PickupCountExact' /\ QueuesTyped'
  <2>1. QueuedPickups \cap theirs = theirs
    BY <1>7
  <2>2. Cardinality(QueuedPickups \ theirs) = Cardinality(QueuedPickups) - n
        /\ Cardinality(QueuedPickups \ theirs) \in Nat
    BY <1>1, <1>9, <2>1, QueuedFinite, FS_Difference, FS_CardinalityType
  <2>3. queued_pickup_count = Cardinality(QueuedPickups)
        /\ queued_pickup_count \in 0 .. PickupQueueCapacity
    BY <1>1, TypeParts DEF QueueInv, PickupCountExact, QueuesTyped
  <2>4. n \in Nat /\ PickupQueueCapacity \in Nat
    BY <1>2, Constants
  <2>5. queued_pickup_count' = queued_pickup_count - n
        /\ queued_pickup_count' \in 0 .. PickupQueueCapacity
    BY <1>4, <2>2, <2>3, <2>4
  <2>6. QueuesTyped'
    BY <1>6, <2>5 DEF QueuesTyped
  <2>7. PickupCountExact'
    BY <1>8, <2>2, <2>3, <2>4, <2>5 DEF PickupCountExact
  <2> QED
    BY <2>6, <2>7
<1>11. QueuesHavePlayers'
  BY <1>1, <1>6 DEF QueueInv, QueuesHavePlayers
<1>12. ResolvedWereQueued'
  BY <1>1, Zenon DEF QueueInv, ResolvedWereQueued
<1>13. PickupsOrdered'
  <2> SUFFICES ASSUME NEW q \in DOMAIN players
               PROVE  LET those == pickup_queue_by_player'[q]
                      IN  /\ \A i, j \in DOMAIN those :
                               i < j => those[i].pickup_seq < those[j].pickup_seq
                          /\ \A i \in DOMAIN those :
                               players'[q].last_pickup_seq < those[i].pickup_seq
                          /\ those # <<>> =>
                               Last(those).pickup_seq = players'[q].last_enqueued_pickup_seq
    BY Zenon DEF PickupsOrdered
  <2>1. CASE q # p
    <3>1. q \in Players
      BY <1>1, RecordIs
    <3>2. pickup_queue_by_player'[q] = pickup_queue_by_player[q]
      BY <1>6, <2>1, <3>1
    <3> QED
      BY <1>1, <3>2, Zenon DEF QueueInv, PickupsOrdered
  <2>2. CASE q = p
    <3>1. DOMAIN <<>> = {}
      OBVIOUS
    <3> QED
      BY <1>6, <2>2, <3>1, Zenon
  <2> QED
    BY <2>1, <2>2
<1> QED
  BY <1>10, <1>11, <1>12, <1>13 DEF QueueInv

-----------------------------------------------------------------------------
(* Treasures *)

LEMMA TreasuresFinite ==
  ASSUME TypeOK, EachTreasureOnce
  PROVE  /\ IsFiniteSet(DOMAIN active_spawns_by_id) /\ IsFiniteSet(CarriedByAll)
         /\ Cardinality(DOMAIN active_spawns_by_id) \in Nat
         /\ Cardinality(CarriedByAll) \in Nat
<1>1. next_spawn_id \in Nat
  BY DEF TypeOK
<1>2. IsFiniteSet(1 .. next_spawn_id - 1)
  BY <1>1, FS_Interval
<1>3. /\ DOMAIN active_spawns_by_id \in SUBSET (1 .. next_spawn_id - 1)
      /\ CarriedByAll \in SUBSET (1 .. next_spawn_id - 1)
  BY DEF EachTreasureOnce
<1>4. IsFiniteSet(DOMAIN active_spawns_by_id) /\ IsFiniteSet(CarriedByAll)
  BY <1>2, <1>3, FS_Subset
<1> QED
  BY <1>4, FS_CardinalityType

\* What a player carries, item by item.
LEMMA CarriedIs ==
  ASSUME TypeOK, NEW p \in DOMAIN players
  PROVE  /\ Len(players[p].items) \in Nat
         /\ DOMAIN players[p].items = 1 .. Len(players[p].items)
         /\ Carried(p) = {players[p].items[i].spawn_id : i \in 1 .. Len(players[p].items)}
<1>1. players[p].items \in Seq(Item)
  BY RecordIs
<1>2. /\ Len(players[p].items) \in Nat
      /\ DOMAIN players[p].items = 1 .. Len(players[p].items)
  BY <1>1, ItemsAre
<1> QED
  BY <1>2, Zenon DEF Carried

\* The schedule puts a treasure into the world.
LEMMA ScheduleTreasury ==
  ASSUME IInv, SameItems, ScheduledSpawn, UNCHANGED consumed_spawn_ids
  PROVE  TreasuryInv' /\ SpawnsTyped'
<1> DEFINE n == next_spawn_id
<1>1. TypeOK /\ TreasuryInv /\ EachTreasureOnce /\ TreasuresConserved /\ TotalsExact /\ n >= 1
  BY DEF IInv, TreasuryInv
<1>2. SpawnsTyped /\ n \in Nat
  BY <1>1, TypeParts DEF SpawnsTyped
<1>3. CarriedApart' /\ CarriedByAll' = CarriedByAll /\ TotalsExact'
  BY <1>1, ApartStays, CarriedStays, TotalsStay DEF EachTreasureOnce, CarriedApart
<1>4. CASE ~SpawnDue
  <2>1. UNCHANGED spawn_vars
    BY <1>4 DEF ScheduledSpawn, spawn_vars
  <2>2. TreasuryInv'
    BY <1>1, <2>1, TreasuryStays
  <2>3. SpawnsTyped'
    BY <1>2, <2>1 DEF SpawnsTyped, spawn_vars
  <2> QED
    BY <2>2, <2>3
<1>5. CASE SpawnDue
  <2> DEFINE kind == (next_spawn_definition_index % Len(Treasures)) + 1
  <2>1. /\ active_spawns_by_id' = Put(active_spawns_by_id, n, kind)
        /\ next_spawn_definition_index' = next_spawn_definition_index + 1
        /\ next_spawn_id' = n + 1
    BY <1>5 DEF ScheduledSpawn
  <2>2. kind \in 1 .. Len(Treasures)
    <3>1. Len(Treasures) \in Nat /\ Len(Treasures) # 0
      <4>1. Treasures \in Seq([value : Nat, weight : Nat]) /\ Treasures # <<>>
        BY <1>5, InventoryAssumption DEF SpawnDue
      <4>2. \A S : \A s \in Seq(S) : s # <<>> => Len(s) \in Nat /\ Len(s) # 0
        OBVIOUS
      <4> QED
        BY <4>1, <4>2, Zenon
    <3>2. next_spawn_definition_index \in Nat
      BY <1>2 DEF SpawnsTyped
    <3> QED
      BY <3>1, <3>2
  <2> HIDE DEF kind
  <2>3. DOMAIN active_spawns_by_id' = DOMAIN active_spawns_by_id \cup {n}
    BY <2>1 DEF Put
  <2>4. SpawnsTyped'
    <3>1. n \in Nat /\ n + 1 \in Nat /\ next_spawn_definition_index + 1 \in Nat
      BY <1>2 DEF SpawnsTyped
    <3>2. active_spawns_by_id' \in [DOMAIN active_spawns_by_id' -> 1 .. Len(Treasures)]
      BY <1>2, <2>1, <2>2 DEF SpawnsTyped, Put
    <3> QED
      BY <1>2, <2>1, <2>3, <3>1, <3>2 DEF SpawnsTyped
  <2>5. n \notin DOMAIN active_spawns_by_id /\ n \notin consumed_spawn_ids
    BY <1>1, <1>2 DEF EachTreasureOnce
  <2>6. (1 .. n - 1) \cup {n} = 1 .. (n + 1) - 1
    BY <1>1, <1>2
  <2>7. EachTreasureOnce'
    <3>1. DOMAIN active_spawns_by_id' \cap consumed_spawn_ids' = {}
      BY <1>1, <2>3, <2>5 DEF EachTreasureOnce
    <3>2. DOMAIN active_spawns_by_id' \cup consumed_spawn_ids' = 1 .. next_spawn_id' - 1
      <4>1. DOMAIN active_spawns_by_id' \cup consumed_spawn_ids' = (1 .. n - 1) \cup {n}
        BY <1>1, <2>3 DEF EachTreasureOnce
      <4> QED
        BY <2>1, <2>6, <4>1
    <3>3. CarriedByAll' \subseteq consumed_spawn_ids'
      BY <1>1, <1>3 DEF EachTreasureOnce
    <3> QED
      BY <1>3, <3>1, <3>2, <3>3, Zenon DEF EachTreasureOnce, CarriedApart
  <2>8. TreasuresConserved'
    <3>1. Cardinality(DOMAIN active_spawns_by_id')
            = Cardinality(DOMAIN active_spawns_by_id) + 1
      BY <1>1, <2>3, <2>5, TreasuresFinite, FS_AddElement
    <3> QED
      BY <1>1, <1>3, <2>1, <3>1, TreasuresFinite DEF TreasuresConserved
  <2>9. next_spawn_id' >= 1
    BY <1>1, <1>2, <2>1
  <2> QED
    BY <1>3, <2>4, <2>7, <2>8, <2>9 DEF TreasuryInv
<1> QED
  BY <1>4, <1>5

\* The victim lays down what it carries.
LEMMA DroppedTreasury ==
  ASSUME IInv, NEW v \in DOMAIN players, DropLoot(v),
         UNCHANGED <<consumed_spawn_ids, next_spawn_definition_index>>
  PROVE  TreasuryInv' /\ SpawnsTyped' /\ RecordsTyped'
<1> DEFINE items == players[v].items
           n == next_spawn_id
           L == Len(items)
           dropped == n .. n + L - 1
           active == DOMAIN active_spawns_by_id
           empty == [players[v] EXCEPT !.items = <<>>, !.total_value = 0,
                                       !.total_weight = 0]
<1>1. TypeOK /\ TreasuryInv /\ EachTreasureOnce /\ TreasuresConserved /\ TotalsExact /\ n >= 1
  BY DEF IInv, TreasuryInv
<1>2. SpawnsTyped /\ RecordsTyped /\ n \in Nat /\ next_spawn_definition_index \in Nat
  BY <1>1, TypeParts DEF SpawnsTyped
<1>3. L \in Nat /\ DOMAIN items = 1 .. L /\ Carried(v) = {items[i].spawn_id : i \in 1 .. L}
  BY <1>1, CarriedIs
<1>4. \A i \in 1 .. L : items[i].treasure \in 1 .. Len(Treasures)
  <2>1. items \in Seq(Item)
    BY <1>1, RecordIs
  <2> QED
    BY <2>1, ItemsAre
<1>5. \A i, j \in 1 .. L : items[i].spawn_id = items[j].spawn_id => i = j
  BY <1>1, <1>3, Zenon DEF EachTreasureOnce
<1>6. /\ active_spawns_by_id' =
           [id \in active \cup dropped |->
              IF id \in dropped THEN items[id - n + 1].treasure
              ELSE active_spawns_by_id[id]]
      /\ next_spawn_id' = n + L
      /\ players' = [players EXCEPT ![v] = empty]
  BY DEF DropLoot
<1>7. empty \in Record /\ empty.items = <<>> /\ empty.total_value = 0 /\ empty.total_weight = 0
  <2>1. players[v] \in Record /\ 0 \in Nat /\ 0 \in 0 .. MaxWeightPerPlayer /\ <<>> \in Seq(Item)
    BY <1>1, RecordIs, Constants
  <2>2. empty \in Record
    BY <2>1, Zenon DEF Record
  <2>3. /\ "items" \in DOMAIN players[v] /\ "total_value" \in DOMAIN players[v]
        /\ "total_weight" \in DOMAIN players[v]
    BY <2>1 DEF Record
  <2> QED
    BY <2>2, <2>3
<1> HIDE DEF empty
<1>8. RecordsTyped' /\ DOMAIN players' = DOMAIN players /\ players'[v] = empty
      /\ \A q \in DOMAIN players : q # v => players'[q] = players[q]
  <2>1. RecordsTyped' /\ DOMAIN players' = DOMAIN players
    BY <1>2, <1>6, <1>7, RecordsPut
  <2> QED
    BY <1>6, <2>1
<1> HIDE DEF items, L, n, active, dropped
<1>9. /\ DOMAIN active_spawns_by_id' = active \cup dropped
      /\ dropped \cap (1 .. n - 1) = {} /\ dropped \subseteq Nat
      /\ (1 .. n - 1) \cup dropped = 1 .. (n + L) - 1
      /\ IsFiniteSet(dropped) /\ Cardinality(dropped) = L
  <2>1. DOMAIN active_spawns_by_id' = active \cup dropped
    BY <1>6
  <2>2. n \in Nat /\ L \in Nat /\ n >= 1
    BY <1>1, <1>2, <1>3 DEF n
  <2>3. /\ dropped \cap (1 .. n - 1) = {} /\ dropped \subseteq Nat
        /\ (1 .. n - 1) \cup dropped = 1 .. (n + L) - 1
    BY <2>2 DEF dropped
  <2>4. IsFiniteSet(dropped) /\ Cardinality(dropped) = L
    BY <2>2, FS_Interval DEF dropped
  <2> QED
    BY <2>1, <2>3, <2>4
<1>10. SpawnsTyped'
  <2>1. active \subseteq Nat /\ n + L \in Nat
    BY <1>2, <1>3 DEF SpawnsTyped, active, n
  <2>2. \A id \in dropped : items[id - n + 1].treasure \in 1 .. Len(Treasures)
    <3>1. \A id \in dropped : id - n + 1 \in 1 .. L
      BY <1>2, <1>3 DEF dropped, n
    <3> QED
      BY <1>4, <3>1
  <2>3. \A id \in active : active_spawns_by_id[id] \in 1 .. Len(Treasures)
    BY <1>2 DEF SpawnsTyped, active
  <2>4. active_spawns_by_id' \in [active \cup dropped -> 1 .. Len(Treasures)]
    BY <1>6, <2>2, <2>3
  <2> QED
    BY <1>2, <1>6, <1>9, <2>1, <2>4 DEF SpawnsTyped
<1>11. /\ Carried(v)' = {}
       /\ \A q \in DOMAIN players : q # v => Carried(q)' = Carried(q)
  <2>1. DOMAIN <<>> = {}
    OBVIOUS
  <2>2. players'[v].items = <<>>
    BY <1>7, <1>8
  <2>3. Carried(v)' = {}
    BY <2>1, <2>2 DEF Carried
  <2>4. \A q \in DOMAIN players : q # v => Carried(q)' = Carried(q)
    BY <1>8 DEF Carried
  <2> QED
    BY <2>3, <2>4
<1>12. CarriedByAll' = CarriedByAll \ Carried(v) /\ Carried(v) \subseteq CarriedByAll
  <2>1. \A q \in DOMAIN players : q # v => Carried(q) \cap Carried(v) = {}
    BY <1>1 DEF EachTreasureOnce
  <2> QED
    BY <1>8, <1>11, <2>1 DEF CarriedByAll
<1>13. EachTreasureOnce'
  <2>1. active \cup consumed_spawn_ids = 1 .. n - 1 /\ active \cap consumed_spawn_ids = {}
        /\ CarriedByAll \subseteq consumed_spawn_ids
    BY <1>1 DEF EachTreasureOnce, active, n
  <2>2. (active \cup dropped) \cup consumed_spawn_ids = (1 .. n - 1) \cup dropped
        /\ (active \cup dropped) \cap consumed_spawn_ids = {}
    BY <1>9, <2>1
  <2>3. DOMAIN active_spawns_by_id' \cup consumed_spawn_ids' = 1 .. next_spawn_id' - 1
    BY <1>6, <1>9, <2>2
  <2>4. DOMAIN active_spawns_by_id' \cap consumed_spawn_ids' = {}
        /\ CarriedByAll' \subseteq consumed_spawn_ids'
    BY <1>9, <1>12, <2>1, <2>2
  <2>5. ASSUME NEW q \in DOMAIN players', NEW i \in DOMAIN players'[q].items,
               NEW j \in DOMAIN players'[q].items,
               players'[q].items[i].spawn_id = players'[q].items[j].spawn_id
        PROVE  i = j
    <3>1. CASE q = v
      <4>1. DOMAIN <<>> = {}
        OBVIOUS
      <4> QED
        BY <1>7, <1>8, <2>5, <3>1, <4>1
    <3>2. CASE q # v
      BY <1>1, <1>8, <2>5, <3>2, Zenon DEF EachTreasureOnce
    <3> QED
      BY <3>1, <3>2
  <2>6. ASSUME NEW q \in DOMAIN players', NEW r \in DOMAIN players', q # r
        PROVE  Carried(q)' \cap Carried(r)' = {}
    <3>1. Carried(q) \cap Carried(r) = {}
      BY <1>1, <1>8, <2>6 DEF EachTreasureOnce
    <3>2. Carried(q)' \subseteq Carried(q) /\ Carried(r)' \subseteq Carried(r)
      BY <1>8, <1>11
    <3> QED
      BY <3>1, <3>2
  <2> QED
    BY <2>3, <2>4, <2>5, <2>6, Zenon DEF EachTreasureOnce
<1>14. Cardinality(Carried(v)) = L
  <2> DEFINE f == [i \in 1 .. L |-> items[i].spawn_id]
  <2>1. f \in Bijection(1 .. L, Carried(v))
    BY <1>3, <1>5 DEF Bijection, Injection, Surjection, IsInjective, L, items
  <2>2. ExistsBijection(1 .. L, Carried(v))
    BY <2>1 DEF ExistsBijection
  <2>3. IsFiniteSet(1 .. L) /\ Cardinality(1 .. L) = L
    BY <1>3, FS_Interval DEF L, items
  <2> HIDE DEF f
  <2> QED
    BY <2>2, <2>3, FS_Bijection
<1>15. TreasuresConserved'
  <2>1. /\ IsFiniteSet(active) /\ IsFiniteSet(CarriedByAll)
        /\ Cardinality(active) \in Nat /\ Cardinality(CarriedByAll) \in Nat
    BY <1>1, TreasuresFinite DEF active
  <2>2. CarriedByAll \cap Carried(v) = Carried(v)
    BY <1>12
  <2>3. Cardinality(CarriedByAll') = Cardinality(CarriedByAll) - L
    BY <1>12, <1>14, <2>1, <2>2, FS_Difference
  <2>4. active \cap dropped = {}
    <3>1. active \subseteq 1 .. n - 1
      BY <1>1 DEF EachTreasureOnce, active, n
    <3> QED
      BY <1>9, <3>1
  <2>5. Cardinality(active \cup dropped) = Cardinality(active) + L
    <3>1. Cardinality({}) = 0
      BY FS_EmptySet
    <3>2. Cardinality(active \cup dropped) = Cardinality(active) + L - 0
      BY <1>9, <2>1, <2>4, <3>1, FS_Union
    <3>3. L \in Nat
      BY <1>3 DEF L, items
    <3> QED
      BY <2>1, <3>2, <3>3
  <2>6. L \in Nat
    BY <1>3
  <2>7. next_spawn_definition_index = Cardinality(active) + Cardinality(CarriedByAll)
    BY <1>1 DEF TreasuresConserved, active
  <2>8. next_spawn_definition_index'
          = Cardinality(DOMAIN active_spawns_by_id') + Cardinality(CarriedByAll')
    BY <1>9, <2>1, <2>3, <2>5, <2>6, <2>7
  <2> QED
    BY <2>8 DEF TreasuresConserved
<1>16. TotalsExact'
  <2>1. Len(<<>>) = 0
    OBVIOUS
  <2>2. SumOf(Values(<<>>)) = 0 /\ SumOf(Weights(<<>>)) = 0
    <3>1. Len(Values(<<>>)) = 0 /\ Len(Weights(<<>>)) = 0
      BY <2>1 DEF Values, Weights
    <3> QED
      BY <3>1, SumNothing
  <2>3. 0 <= MaxWeightPerPlayer /\ 0 <= MaxItemsPerPlayer
    BY Constants
  <2> SUFFICES ASSUME NEW q \in DOMAIN players
               PROVE  LET theirs == players'[q].items
                      IN  /\ players'[q].total_value = SumOf(Values(theirs))
                          /\ players'[q].total_weight = SumOf(Weights(theirs))
                          /\ players'[q].total_weight <= MaxWeightPerPlayer
                          /\ Len(theirs) <= MaxItemsPerPlayer
    BY <1>8, Zenon DEF TotalsExact
  <2>4. CASE q = v
    BY <1>7, <1>8, <2>1, <2>2, <2>3, <2>4, Zenon
  <2>5. CASE q # v
    BY <1>1, <1>8, <2>5, Zenon DEF TotalsExact
  <2> QED
    BY <2>4, <2>5
<1>17. next_spawn_id' >= 1
  BY <1>1, <1>2, <1>3, <1>6 DEF L, n, items
<1> QED
  BY <1>8, <1>10, <1>13, <1>15, <1>16, <1>17 DEF TreasuryInv

\* A treasure moves from the world to a player.
LEMMA CollectedTreasury ==
  ASSUME IInv, NEW p \in Players, PickupCollected(p)
  PROVE  TreasuryInv' /\ SpawnsTyped' /\ RecordsTyped' /\ ResolvedRecords(p)
<1> DEFINE id == Head(pickup_queue_by_player[p]).spawn_id
           treasure == active_spawns_by_id[id]
           it == [spawn_id |-> id, treasure |-> treasure]
           items == players[p].items
           n == Len(items)
           active == DOMAIN active_spawns_by_id
           seq == Resolved(p, Head(pickup_queue_by_player[p]))
           richer == [players[p] EXCEPT
              !.last_pickup_seq = seq, !.items = Append(@, it),
              !.total_value = @ + Treasures[treasure].value,
              !.total_weight = @ + Treasures[treasure].weight]
<1>1. /\ TypeOK /\ TreasuryInv /\ EachTreasureOnce /\ TreasuresConserved /\ TotalsExact
      /\ next_spawn_id >= 1 /\ p \in DOMAIN players
  BY FirstPickup DEF IInv, TreasuryInv, PickupCollected
<1>2. /\ CanCarry(p, id)
      /\ players' = [players EXCEPT ![p] = richer]
      /\ active_spawns_by_id' = Erase(active_spawns_by_id, {id})
      /\ consumed_spawn_ids' = consumed_spawn_ids \cup {id}
      /\ next_spawn_id' = next_spawn_id
      /\ next_spawn_definition_index' = next_spawn_definition_index
  BY DEF PickupCollected
<1>3. /\ SpawnsTyped /\ RecordsTyped /\ players[p] \in Record
      /\ items \in Seq(Item) /\ players[p].total_value \in Nat /\ players[p].total_weight \in Nat
  BY <1>1, TypeParts, RecordIs
<1>4. /\ id \in active /\ id \notin consumed_spawn_ids /\ n + 1 <= MaxItemsPerPlayer
      /\ players[p].total_weight + Treasures[treasure].weight <= MaxWeightPerPlayer
  BY <1>2 DEF CanCarry
<1>5. id \in Nat /\ treasure \in 1 .. Len(Treasures)
  BY <1>3, <1>4, Zenon DEF SpawnsTyped
<1>6. it \in Item /\ it.spawn_id = id /\ it.treasure = treasure
  BY <1>5, Zenon DEF Item
<1>7. Treasures[treasure].value \in Nat /\ Treasures[treasure].weight \in Nat
  BY <1>5, Constants
<1>8. seq \in PickupSeqs
  <2>1. \A t \in Pickup : t.pickup_seq \in PickupSeqs
    BY Zenon DEF Pickup
  <2>2. NextPicker(p)
    BY DEF PickupCollected
  <2> QED
    BY <2>1, <2>2, FirstPickup
<1> HIDE DEF it, treasure, id, seq
<1>9. /\ Append(items, it) \in Seq(Item) /\ Len(Append(items, it)) = n + 1
      /\ n \in Nat /\ DOMAIN Append(items, it) = 1 .. n + 1
      /\ Append(items, it)[n + 1] = it
      /\ \A i \in 1 .. n : Append(items, it)[i] = items[i]
  BY <1>3, <1>6
<1> DEFINE value == players[p].total_value + Treasures[treasure].value
           weight == players[p].total_weight + Treasures[treasure].weight
<1>10. value \in Nat /\ weight \in 0 .. MaxWeightPerPlayer
  <2>1. \A a, b \in Nat : a + b \in Nat
    OBVIOUS
  <2>2. value \in Nat /\ weight \in Nat
    BY <1>3, <1>7, <2>1, Zenon
  <2>3. weight <= MaxWeightPerPlayer
    BY <1>4, Zenon
  <2> HIDE DEF value, weight
  <2> QED
    BY <2>2, <2>3, Constants
<1>11. richer = [players[p] EXCEPT
         !.last_pickup_seq = seq, !.items = Append(items, it),
         !.total_value = value, !.total_weight = weight]
  <2>1. DOMAIN players[p] = {"alive", "items", "total_value", "total_weight",
                             "last_pickup_seq", "last_enqueued_pickup_seq"}
    BY <1>3 DEF Record
  <2> QED
    BY <2>1
<1> DEFINE longer == Append(items, it)
<1> HIDE DEF richer, value, weight, longer
<1>12. /\ richer \in Record
       /\ richer.last_pickup_seq = seq /\ richer.items = longer
       /\ richer.total_value = value /\ richer.total_weight = weight
       /\ richer.last_enqueued_pickup_seq = players[p].last_enqueued_pickup_seq
       /\ richer.alive = players[p].alive
  <2>1. longer \in Seq(Item)
    BY <1>9 DEF longer
  <2>2. richer = [players[p] EXCEPT
         !.last_pickup_seq = seq, !.items = longer,
         !.total_value = value, !.total_weight = weight]
    BY <1>11, Zenon DEF longer
  <2>3. richer \in Record
    BY <1>3, <1>8, <1>10, <2>1, <2>2, Zenon DEF Record
  <2>4. DOMAIN players[p] = {"alive", "items", "total_value", "total_weight",
                             "last_pickup_seq", "last_enqueued_pickup_seq"}
    BY <1>3 DEF Record
  <2> QED
    BY <2>2, <2>3, <2>4
<1>13. RecordsTyped' /\ DOMAIN players' = DOMAIN players /\ players'[p] = richer
       /\ \A q \in DOMAIN players : q # p => players'[q] = players[q]
  <2>1. RecordsTyped' /\ DOMAIN players' = DOMAIN players
    BY <1>1, <1>2, <1>3, <1>12, RecordsPut
  <2> QED
    BY <1>1, <1>2, <2>1
<1>14. ResolvedRecords(p)
  BY <1>12, <1>13 DEF ResolvedRecords, seq
<1> HIDE DEF items, n, active
<1>15. DOMAIN active_spawns_by_id' = active \ {id}
  BY <1>2 DEF Erase, active
<1>16. SpawnsTyped'
  <2>1. active_spawns_by_id' \in [active \ {id} -> 1 .. Len(Treasures)]
    BY <1>2, <1>3, Zenon DEF Erase, SpawnsTyped, active
  <2> QED
    BY <1>2, <1>3, <1>5, <1>15, <2>1 DEF SpawnsTyped, active
<1>17. /\ longer \in Seq(Item) /\ Len(longer) = n + 1 /\ n \in Nat
       /\ DOMAIN longer = 1 .. n + 1 /\ longer[n + 1] = it
       /\ \A i \in 1 .. n : longer[i] = items[i]
  BY <1>9 DEF longer
<1>18. /\ DOMAIN items = 1 .. n /\ Carried(p) = {items[i].spawn_id : i \in 1 .. n}
  BY <1>1, CarriedIs DEF items, n
<1>19. /\ Carried(p)' = Carried(p) \cup {id}
       /\ \A q \in DOMAIN players : q # p => Carried(q)' = Carried(q)
  <2>1. Carried(p)' = {longer[i].spawn_id : i \in 1 .. n + 1}
    BY <1>12, <1>13, <1>17 DEF Carried
  <2>2. 1 .. n + 1 = (1 .. n) \cup {n + 1}
    BY <1>17
  <2>3. Carried(p)' = Carried(p) \cup {id}
    BY <1>6, <1>17, <1>18, <2>1, <2>2
  <2>4. \A q \in DOMAIN players : q # p => Carried(q)' = Carried(q)
    BY <1>13 DEF Carried
  <2> QED
    BY <2>3, <2>4
<1>20. CarriedByAll' = CarriedByAll \cup {id}
  BY <1>1, <1>13, <1>19 DEF CarriedByAll
<1>21. /\ id \notin CarriedByAll /\ \A q \in DOMAIN players : id \notin Carried(q)
  <2>1. CarriedByAll \subseteq consumed_spawn_ids
    BY <1>1 DEF EachTreasureOnce
  <2> QED
    BY <1>4, <2>1 DEF CarriedByAll
<1>22. EachTreasureOnce'
  <2>1. active \cup consumed_spawn_ids = 1 .. next_spawn_id - 1
        /\ active \cap consumed_spawn_ids = {} /\ CarriedByAll \subseteq consumed_spawn_ids
    BY <1>1 DEF EachTreasureOnce, active
  <2>2. /\ DOMAIN active_spawns_by_id' \cap consumed_spawn_ids' = {}
        /\ DOMAIN active_spawns_by_id' \cup consumed_spawn_ids' = 1 .. next_spawn_id' - 1
        /\ CarriedByAll' \subseteq consumed_spawn_ids'
    <3>1. /\ (active \ {id}) \cap (consumed_spawn_ids \cup {id}) = {}
          /\ (active \ {id}) \cup (consumed_spawn_ids \cup {id}) = active \cup consumed_spawn_ids
          /\ CarriedByAll \cup {id} \subseteq consumed_spawn_ids \cup {id}
      BY <1>4, <2>1
    <3> QED
      BY <1>2, <1>15, <1>20, <2>1, <3>1, Zenon
  <2>3. ASSUME NEW q \in DOMAIN players', NEW i \in DOMAIN players'[q].items,
               NEW j \in DOMAIN players'[q].items,
               players'[q].items[i].spawn_id = players'[q].items[j].spawn_id
        PROVE  i = j
    <3>1. CASE q = p
      <4>1. /\ i \in 1 .. n + 1 /\ j \in 1 .. n + 1
            /\ longer[i].spawn_id = longer[j].spawn_id
        BY <1>12, <1>13, <1>17, <2>3, <3>1
      <4>2. \A k \in 1 .. n : longer[k].spawn_id # id
        BY <1>1, <1>17, <1>18, <1>21
      <4>3. longer[n + 1].spawn_id = id
        BY <1>6, <1>17
      <4>4. CASE i \in 1 .. n /\ j \in 1 .. n
        <5>1. items[i].spawn_id = items[j].spawn_id
          BY <1>17, <4>1, <4>4
        <5> QED
          BY <1>1, <1>18, <4>4, <5>1, Zenon DEF EachTreasureOnce, items
      <4>5. \A k \in 1 .. n + 1 : k \in 1 .. n \/ k = n + 1
        BY <1>17
      <4> QED
        BY <4>1, <4>2, <4>3, <4>4, <4>5, Zenon
    <3>2. CASE q # p
      BY <1>1, <1>13, <2>3, <3>2, Zenon DEF EachTreasureOnce
    <3> QED
      BY <3>1, <3>2
  <2>4. ASSUME NEW q \in DOMAIN players', NEW r \in DOMAIN players', q # r
        PROVE  Carried(q)' \cap Carried(r)' = {}
    <3>1. Carried(q) \cap Carried(r) = {}
      BY <1>1, <1>13, <2>4 DEF EachTreasureOnce
    <3>2. id \notin Carried(q) /\ id \notin Carried(r)
      BY <1>13, <1>21
    <3> QED
      BY <1>13, <1>19, <2>4, <3>1, <3>2
  <2> QED
    BY <2>2, <2>3, <2>4, Zenon DEF EachTreasureOnce
<1>23. TreasuresConserved'
  <2>1. /\ IsFiniteSet(active) /\ IsFiniteSet(CarriedByAll)
        /\ Cardinality(active) \in Nat /\ Cardinality(CarriedByAll) \in Nat
    BY <1>1, TreasuresFinite DEF active
  <2>2. Cardinality(active \ {id}) = Cardinality(active) - 1
    BY <1>4, <2>1, FS_RemoveElement
  <2>3. Cardinality(CarriedByAll \cup {id}) = Cardinality(CarriedByAll) + 1
    BY <1>21, <2>1, FS_AddElement
  <2>4. next_spawn_definition_index = Cardinality(active) + Cardinality(CarriedByAll)
    BY <1>1 DEF TreasuresConserved, active
  <2>5. next_spawn_definition_index
          = Cardinality(active \ {id}) + Cardinality(CarriedByAll \cup {id})
    BY <2>1, <2>2, <2>3, <2>4
  <2> QED
    BY <1>2, <1>15, <1>20, <2>5 DEF TreasuresConserved
<1>24. TotalsExact'
  <2> SUFFICES ASSUME NEW q \in DOMAIN players
               PROVE  LET theirs == players'[q].items
                      IN  /\ players'[q].total_value = SumOf(Values(theirs))
                          /\ players'[q].total_weight = SumOf(Weights(theirs))
                          /\ players'[q].total_weight <= MaxWeightPerPlayer
                          /\ Len(theirs) <= MaxItemsPerPlayer
    BY <1>13, Zenon DEF TotalsExact
  <2>1. CASE q # p
    BY <1>1, <1>13, <2>1, Zenon DEF TotalsExact
  <2>2. CASE q = p
    <3>1. players[p].total_value = SumOf(Values(items))
          /\ players[p].total_weight = SumOf(Weights(items))
      BY <1>1 DEF TotalsExact, items
    <3>2. /\ SumOf(Values(longer)) = SumOf(Values(items)) + Treasures[treasure].value
          /\ SumOf(Weights(longer)) = SumOf(Weights(items)) + Treasures[treasure].weight
      <4>1. items \in Seq(Item)
        BY <1>3 DEF items
      <4> QED
        BY <1>6, <4>1, WorthAppended DEF longer
    <3>3. value = SumOf(Values(longer)) /\ weight = SumOf(Weights(longer))
      BY <3>1, <3>2 DEF value, weight
    <3>4. weight <= MaxWeightPerPlayer /\ Len(longer) <= MaxItemsPerPlayer
      BY <1>4, <1>17 DEF weight, n, items
    <3> QED
      BY <1>12, <1>13, <2>2, <3>3, <3>4, Zenon
  <2> QED
    BY <2>1, <2>2
<1>25. next_spawn_id' >= 1
  BY <1>1, <1>2
<1> QED
  BY <1>13, <1>14, <1>16, <1>22, <1>23, <1>24, <1>25 DEF TreasuryInv

-----------------------------------------------------------------------------
(* The invariant holds at first, and every step keeps it *)

LEMMA Assembled ==
  ASSUME RecordsTyped', QueuesTyped', SpawnsTyped', TickTyped', CombatTyped',
         TreasuryInv', QueueInv', AliveFlagsCopied', DeathsAwaitLoot'
  PROVE  IInv'
BY TypeParts DEF IInv, DeathInv

LEMMA InitIInv == Init => IInv
<1> SUFFICES ASSUME Init PROVE IInv
  OBVIOUS
<1>1. /\ DOMAIN players = {} /\ DOMAIN active_spawns_by_id = {} /\ DOMAIN combat_alive = {}
      /\ players = [k \in {} |-> k] /\ active_spawns_by_id = [k \in {} |-> k]
      /\ combat_alive = [k \in {} |-> k]
  BY DEF Init, EmptyMap
<1>2. /\ pickup_queue_by_player = [p \in Players |-> <<>>] /\ queued_pickup_count = 0
      /\ consumed_spawn_ids = {} /\ next_spawn_id = 1 /\ next_spawn_definition_index = 0
      /\ tick_in_interval = 0 /\ deaths = {} /\ phase = "idle"
  BY DEF Init
<1>3. TypeOK
  <2>1. players \in [DOMAIN players -> Record] /\ DOMAIN players \subseteq Players
    BY <1>1
  <2>2. active_spawns_by_id \in [DOMAIN active_spawns_by_id -> 1 .. Len(Treasures)]
        /\ combat_alive \in [DOMAIN combat_alive -> BOOLEAN]
    BY <1>1
  <2>3. pickup_queue_by_player \in [Players -> Seq(Pickup)]
    BY <1>2
  <2>4. 0 \in 0 .. PickupQueueCapacity /\ 0 \in 0 .. SpawnIntervalTicks - 1
    BY Constants
  <2>5. DOMAIN active_spawns_by_id \subseteq Nat /\ consumed_spawn_ids \subseteq Nat
        /\ next_spawn_id \in Nat /\ next_spawn_definition_index \in Nat
    BY <1>1, <1>2
  <2>6. deaths \subseteq Players /\ DOMAIN combat_alive \subseteq DOMAIN players
        /\ phase \in {"idle", "deaths", "pickups"}
    BY <1>1, <1>2
  <2> QED
    BY <1>2, <2>1, <2>2, <2>3, <2>4, <2>5, <2>6, Zenon DEF TypeOK, Record, Item, Pickup
<1>4. CarriedByAll = {}
  BY <1>1 DEF CarriedByAll
<1>5. Cardinality({}) = 0
  BY FS_EmptySet
<1>6. 1 .. next_spawn_id - 1 = {}
  BY <1>2
<1>7. EachTreasureOnce
  BY <1>1, <1>2, <1>4, <1>6 DEF EachTreasureOnce
<1>8. TreasuryInv
  BY <1>1, <1>2, <1>4, <1>5, <1>7 DEF TreasuryInv, TreasuresConserved, TotalsExact
<1>9. QueuedPickups = {}
  <2>1. DOMAIN <<>> = {}
    OBVIOUS
  <2> QED
    BY <1>2, <2>1 DEF QueuedPickups
<1>10. QueueInv
  BY <1>1, <1>2, <1>5, <1>9, Constants
     DEF QueueInv, PickupCountExact, PickupsOrdered, QueuesHavePlayers, ResolvedWereQueued
<1>11. DeathInv
  BY <1>1, <1>2 DEF DeathInv, AliveFlagsCopied, DeathsAwaitLoot
<1> QED
  BY <1>3, <1>8, <1>10, <1>11 DEF IInv

LEMMA EnsureStep ==
  ASSUME IInv, NEW p \in Players, EnsurePlayer(p) PROVE IInv'
<1>1. /\ players' = Emplace(players, p, NewRecord)
      /\ combat_alive' = Emplace(combat_alive, p, TRUE)
      /\ UNCHANGED queue_vars /\ UNCHANGED spawn_vars /\ UNCHANGED tick_vars
      /\ phase = "idle"
  BY DEF EnsurePlayer
<1>2. /\ TypeOK /\ TreasuryInv /\ QueueInv /\ DeathInv
      /\ RecordsTyped /\ QueuesTyped /\ SpawnsTyped /\ TickTyped /\ CombatTyped
  BY TypeParts DEF IInv
<1>3. NewRecord \in Record
  <2>1. 0 \in 0 .. MaxWeightPerPlayer /\ 0 \in PickupSeqs /\ <<>> \in Seq(Item) /\ 0 \in Nat
    BY Constants DEF PickupSeqs
  <2> QED
    BY <2>1, Zenon DEF NewRecord, Record
<1>4. /\ DOMAIN players' = DOMAIN players \cup {p}
      /\ \A q \in DOMAIN players : players'[q] = players[q]
      /\ \A q \in DOMAIN players' \ DOMAIN players : q = p /\ players'[q] = NewRecord
      /\ players' = [q \in DOMAIN players' |-> players'[q]]
  BY <1>1, <1>2 DEF Emplace, Put, RecordsTyped
<1>5. /\ DOMAIN combat_alive' = DOMAIN combat_alive \cup {p}
      /\ \A q \in DOMAIN combat_alive : combat_alive'[q] = combat_alive[q]
      /\ \A q \in DOMAIN combat_alive' \ DOMAIN combat_alive : combat_alive'[q] = TRUE
      /\ combat_alive' = [q \in DOMAIN combat_alive' |-> combat_alive'[q]]
  BY <1>1, <1>2 DEF Emplace, Put, CombatTyped
<1>6. RecordsTyped'
  <2>1. \A q \in DOMAIN players' : players'[q] \in Record
    BY <1>2, <1>3, <1>4 DEF RecordsTyped
  <2> QED
    BY <1>2, <1>4, <2>1 DEF RecordsTyped
<1>7. CombatTyped'
  <2>1. \A q \in DOMAIN combat_alive' : combat_alive'[q] \in BOOLEAN
    BY <1>2, <1>5, Zenon DEF CombatTyped
  <2> QED
    BY <1>2, <1>4, <1>5, <2>1 DEF CombatTyped
<1>8. QueuesTyped' /\ SpawnsTyped' /\ TickTyped'
  BY <1>1, <1>2 DEF QueuesTyped, SpawnsTyped, TickTyped, queue_vars, spawn_vars, tick_vars
<1>9. SameItems
  BY <1>4 DEF SameItems, NewRecord
<1>10. SameQueues
  BY <1>1, <1>4 DEF SameQueues, NewRecord
<1>11. TreasuryInv' /\ QueueInv'
  BY <1>1, <1>2, <1>9, <1>10, TreasuryStays, QueuesStay
<1>12. AliveFlagsCopied'
  BY <1>1 DEF AliveFlagsCopied, tick_vars
<1>13. DeathsAwaitLoot'
  <2>1. deaths' \subseteq DOMAIN combat_alive' /\ (phase' # "deaths" => deaths' = {})
    BY <1>1, <1>2, <1>5 DEF DeathInv, DeathsAwaitLoot, tick_vars
  <2>2. ASSUME LootDropAll, NEW q \in DOMAIN combat_alive', ~combat_alive'[q]
        PROVE  players'[q].items = <<>> \/ q \in deaths'
    <3>1. q \in DOMAIN combat_alive /\ ~combat_alive[q]
      BY <1>5, <2>2, Zenon
    <3>2. q \in DOMAIN players /\ deaths' = deaths
      BY <1>1, <1>2, <3>1 DEF CombatTyped, tick_vars
    <3> QED
      BY <1>2, <1>4, <2>2, <3>1, <3>2 DEF DeathInv, DeathsAwaitLoot
  <2> QED
    BY <2>1, <2>2, Zenon DEF DeathsAwaitLoot
<1> QED
  BY <1>6, <1>7, <1>8, <1>11, <1>12, <1>13, Assembled

LEMMA RemoveStep ==
  ASSUME IInv, NEW p \in Players, RemovePlayer(p) PROVE IInv'
<1> DEFINE gone == [players[p] EXCEPT !.alive = FALSE]
<1>1. /\ players' = [players EXCEPT ![p] = gone] /\ p \in DOMAIN players
      /\ combat_alive' = Erase(combat_alive, {p})
      /\ UNCHANGED spawn_vars /\ UNCHANGED tick_vars
      /\ phase = "idle"
  BY DEF RemovePlayer
<1>2. /\ TypeOK /\ TreasuryInv /\ QueueInv /\ DeathInv
      /\ RecordsTyped /\ QueuesTyped /\ SpawnsTyped /\ TickTyped /\ CombatTyped
  BY TypeParts DEF IInv
<1>3. players[p] \in Record
  BY <1>1, <1>2, RecordIs
<1>4. gone \in Record
  BY <1>3, Zenon DEF Record
<1>5. /\ gone.items = players[p].items /\ gone.total_value = players[p].total_value
      /\ gone.total_weight = players[p].total_weight
      /\ gone.last_pickup_seq = players[p].last_pickup_seq
      /\ gone.last_enqueued_pickup_seq = players[p].last_enqueued_pickup_seq
  BY <1>3 DEF Record
<1> HIDE DEF gone
<1>6. /\ RecordsTyped' /\ DOMAIN players' = DOMAIN players /\ players'[p] = gone
      /\ \A q \in DOMAIN players : q # p => players'[q] = players[q]
  BY <1>1, <1>2, <1>4, RecordsPut
<1>7. /\ DOMAIN combat_alive' = DOMAIN combat_alive \ {p}
      /\ \A q \in DOMAIN combat_alive' : combat_alive'[q] = combat_alive[q]
      /\ combat_alive' \in [DOMAIN combat_alive' -> BOOLEAN]
  BY <1>1, <1>2, Zenon DEF Erase, CombatTyped
<1>8. CombatTyped' /\ SpawnsTyped' /\ TickTyped'
  BY <1>1, <1>2, <1>6, <1>7 DEF CombatTyped, SpawnsTyped, TickTyped, spawn_vars, tick_vars
<1>9. SameItems
  BY <1>5, <1>6 DEF SameItems
<1>10. TreasuryInv'
  BY <1>1, <1>2, <1>9, TreasuryStays
<1>11. QueueInv' /\ QueuesTyped'
  <2>1. \A q \in DOMAIN players :
          /\ players'[q].last_pickup_seq = players[q].last_pickup_seq
          /\ players'[q].last_enqueued_pickup_seq = players[q].last_enqueued_pickup_seq
    BY <1>5, <1>6
  <2> QED
    BY <1>6, <2>1, RemovedQueues
<1>12. AliveFlagsCopied'
  BY <1>1 DEF AliveFlagsCopied, tick_vars
<1>13. DeathsAwaitLoot'
  <2>1. deaths = {} /\ deaths' = {} /\ phase' = "idle"
    BY <1>1, <1>2 DEF DeathInv, DeathsAwaitLoot, tick_vars
  <2>2. ASSUME LootDropAll, NEW q \in DOMAIN combat_alive', ~combat_alive'[q]
        PROVE  players'[q].items = <<>>
    <3>1. q \in DOMAIN combat_alive /\ ~combat_alive[q] /\ q # p
      BY <1>7, <2>2
    <3>2. players[q].items = <<>> /\ q \in DOMAIN players
      BY <1>2, <2>1, <2>2, <3>1 DEF DeathInv, DeathsAwaitLoot, CombatTyped
    <3> QED
      BY <1>6, <3>1, <3>2
  <2> QED
    BY <2>1, <2>2, Zenon DEF DeathsAwaitLoot
<1> QED
  BY <1>6, <1>8, <1>10, <1>11, <1>12, <1>13, Assembled

LEMMA AcceptedStep ==
  ASSUME IInv, NEW p \in Players, NEW seq \in PickupSeqs, NEW id \in SpawnIds,
         PickupAccepted(p, seq, id)
  PROVE  IInv'
<1> DEFINE asked == [players[p] EXCEPT !.last_enqueued_pickup_seq = seq]
<1>1. /\ players' = [players EXCEPT ![p] = asked] /\ p \in DOMAIN combat_alive
      /\ UNCHANGED spawn_vars /\ UNCHANGED tick_vars /\ combat_alive' = combat_alive
      /\ phase = "idle"
  BY DEF PickupAccepted
<1>2. /\ TypeOK /\ TreasuryInv /\ QueueInv /\ DeathInv
      /\ RecordsTyped /\ SpawnsTyped /\ TickTyped /\ CombatTyped
  BY TypeParts DEF IInv
<1>3. p \in DOMAIN players /\ players[p] \in Record
  BY <1>1, <1>2, RecordIs DEF CombatTyped
<1>4. asked \in Record
  BY <1>3, Zenon DEF Record
<1>5. /\ asked.items = players[p].items /\ asked.total_value = players[p].total_value
      /\ asked.total_weight = players[p].total_weight
  BY <1>3 DEF Record
<1> HIDE DEF asked
<1>6. /\ RecordsTyped' /\ DOMAIN players' = DOMAIN players /\ players'[p] = asked
      /\ \A q \in DOMAIN players : q # p => players'[q] = players[q]
  BY <1>1, <1>2, <1>3, <1>4, RecordsPut
<1>7. CombatTyped' /\ SpawnsTyped' /\ TickTyped'
  BY <1>1, <1>2, <1>6 DEF CombatTyped, SpawnsTyped, TickTyped, spawn_vars, tick_vars
<1>8. SameItems
  BY <1>5, <1>6 DEF SameItems
<1>9. TreasuryInv' /\ QueueInv' /\ QueuesTyped'
  BY <1>1, <1>2, <1>8, TreasuryStays, AcceptedQueues
<1>10. AliveFlagsCopied'
  BY <1>1 DEF AliveFlagsCopied, tick_vars
<1>11. DeathsAwaitLoot'
  BY <1>1, <1>2, <1>8 DEF DeathInv, DeathsAwaitLoot, tick_vars, SameItems, CombatTyped
<1> QED
  BY <1>6, <1>7, <1>9, <1>10, <1>11, Assembled

LEMMA BeginStep ==
  ASSUME IInv, BeginTick PROVE IInv'
<1>1. PICK alive \in [DOMAIN combat_alive -> BOOLEAN],
           died \in SUBSET DOMAIN combat_alive :
        /\ CombatReports(alive, died)
        /\ combat_alive' = alive
        /\ players' = [p \in DOMAIN players |->
             IF p \in DOMAIN alive THEN [players[p] EXCEPT !.alive = alive[p]]
             ELSE players[p]]
        /\ deaths' = IF LootDropAll THEN died ELSE {}
  BY Zenon DEF BeginTick
<1>2. /\ phase = "idle" /\ phase' = "deaths" /\ ScheduledSpawn
      /\ tick_in_interval' = (tick_in_interval + 1) % SpawnIntervalTicks
      /\ UNCHANGED queue_vars /\ UNCHANGED consumed_spawn_ids
  BY DEF BeginTick
<1>3. /\ TypeOK /\ TreasuryInv /\ QueueInv /\ DeathInv
      /\ RecordsTyped /\ QueuesTyped /\ SpawnsTyped /\ TickTyped /\ CombatTyped
  BY TypeParts DEF IInv
<1>4. DOMAIN players' = DOMAIN players /\ DOMAIN alive = DOMAIN combat_alive
  BY <1>1
<1>5. ASSUME NEW p \in DOMAIN players
      PROVE  /\ players'[p] \in Record
             /\ players'[p].items = players[p].items
             /\ players'[p].total_value = players[p].total_value
             /\ players'[p].total_weight = players[p].total_weight
             /\ players'[p].last_pickup_seq = players[p].last_pickup_seq
             /\ players'[p].last_enqueued_pickup_seq = players[p].last_enqueued_pickup_seq
             /\ p \in DOMAIN alive => players'[p].alive = alive[p]
  <2>1. players[p] \in Record
    BY <1>3, RecordIs
  <2>2. CASE p \notin DOMAIN alive
    BY <1>1, <2>1, <2>2
  <2>3. CASE p \in DOMAIN alive
    <3> DEFINE r == [players[p] EXCEPT !.alive = alive[p]]
    <3>1. players'[p] = r
      BY <1>1, <2>3
    <3>2. r \in Record
      BY <1>4, <2>1, <2>3, Zenon DEF Record
    <3>3. /\ r.items = players[p].items /\ r.total_value = players[p].total_value
          /\ r.total_weight = players[p].total_weight
          /\ r.last_pickup_seq = players[p].last_pickup_seq
          /\ r.last_enqueued_pickup_seq = players[p].last_enqueued_pickup_seq
          /\ r.alive = alive[p]
      BY <2>1 DEF Record
    <3> HIDE DEF r
    <3> QED
      BY <3>1, <3>2, <3>3
  <2> QED
    BY <2>2, <2>3
<1>6. RecordsTyped'
  <2>1. players' = [p \in DOMAIN players' |-> players'[p]]
    BY <1>1
  <2> QED
    BY <1>3, <1>4, <1>5, <2>1 DEF RecordsTyped
<1>7. CombatTyped' /\ QueuesTyped'
  BY <1>1, <1>2, <1>3, <1>4 DEF CombatTyped, QueuesTyped, queue_vars
<1>8. TickTyped'
  <2>1. tick_in_interval' \in 0 .. SpawnIntervalTicks - 1
    BY <1>2, <1>3, Constants DEF TickTyped
  <2>2. deaths' \subseteq Players
    BY <1>1, <1>3 DEF CombatTyped, RecordsTyped
  <2> QED
    BY <1>2, <2>1, <2>2 DEF TickTyped
<1>9. SameItems
  BY <1>4, <1>5 DEF SameItems
<1>10. SameQueues
  BY <1>2, <1>4, <1>5 DEF SameQueues
<1>11. TreasuryInv' /\ SpawnsTyped' /\ QueueInv'
  BY <1>2, <1>3, <1>9, <1>10, ScheduleTreasury, QueuesStay
<1>12. AliveFlagsCopied'
  BY <1>1, <1>3, <1>4, <1>5 DEF AliveFlagsCopied, CombatTyped
<1>13. DeathsAwaitLoot'
  <2>1. deaths' \subseteq DOMAIN combat_alive'
    BY <1>1, <1>4
  <2>2. ASSUME LootDropAll, NEW p \in DOMAIN combat_alive', ~combat_alive'[p]
        PROVE  players'[p].items = <<>> \/ p \in deaths'
    <3>1. p \in DOMAIN combat_alive /\ p \in DOMAIN players /\ ~alive[p] /\ deaths' = died
      BY <1>1, <1>3, <1>4, <2>2 DEF CombatTyped
    <3>2. CASE combat_alive[p]
      BY <1>1, <3>1, <3>2, Zenon DEF CombatReports
    <3>3. CASE ~combat_alive[p]
      <4>1. players[p].items = <<>>
        BY <1>2, <1>3, <2>2, <3>1, <3>3 DEF DeathInv, DeathsAwaitLoot
      <4> QED
        BY <1>5, <3>1, <4>1
    <3> QED
      BY <3>2, <3>3
  <2> QED
    BY <1>2, <2>1, <2>2, Zenon DEF DeathsAwaitLoot
<1> QED
  BY <1>6, <1>7, <1>8, <1>11, <1>12, <1>13, Assembled

LEMMA LootStep ==
  ASSUME IInv, LootDropped PROVE IInv'
<1>1. PICK v \in deaths : DropLoot(v) /\ deaths' = deaths \ {v}
  BY Zenon DEF LootDropped
<1>2. /\ phase = "deaths" /\ phase' = phase /\ combat_alive' = combat_alive
      /\ tick_in_interval' = tick_in_interval /\ UNCHANGED queue_vars
      /\ UNCHANGED <<consumed_spawn_ids, next_spawn_definition_index>>
  BY DEF LootDropped
<1>3. /\ TypeOK /\ QueueInv /\ DeathInv
      /\ RecordsTyped /\ QueuesTyped /\ TickTyped /\ CombatTyped
  BY TypeParts DEF IInv
<1>4. v \in DOMAIN combat_alive /\ v \in DOMAIN players /\ players[v] \in Record
  BY <1>3, RecordIs DEF DeathInv, DeathsAwaitLoot, CombatTyped
<1>5. TreasuryInv' /\ SpawnsTyped' /\ RecordsTyped'
  BY <1>1, <1>2, <1>4, DroppedTreasury
<1>6. /\ DOMAIN players' = DOMAIN players
      /\ \A q \in DOMAIN players : q # v => players'[q] = players[q]
      /\ players'[v].items = <<>>
      /\ players'[v].alive = players[v].alive
      /\ players'[v].last_pickup_seq = players[v].last_pickup_seq
      /\ players'[v].last_enqueued_pickup_seq = players[v].last_enqueued_pickup_seq
  <2>1. DOMAIN players[v] = {"alive", "items", "total_value", "total_weight",
                             "last_pickup_seq", "last_enqueued_pickup_seq"}
    BY <1>4 DEF Record
  <2> DEFINE r == [players[v] EXCEPT !.items = <<>>, !.total_value = 0, !.total_weight = 0]
  <2>2. /\ r.items = <<>> /\ r.alive = players[v].alive
        /\ r.last_pickup_seq = players[v].last_pickup_seq
        /\ r.last_enqueued_pickup_seq = players[v].last_enqueued_pickup_seq
    BY <2>1
  <2>3. players' = [players EXCEPT ![v] = r]
    BY <1>1 DEF DropLoot
  <2> HIDE DEF r
  <2> QED
    BY <1>4, <2>2, <2>3
<1>7. CombatTyped' /\ QueuesTyped' /\ TickTyped'
  BY <1>1, <1>2, <1>3, <1>6 DEF CombatTyped, QueuesTyped, TickTyped, queue_vars
<1>8. SameQueues
  BY <1>2, <1>6 DEF SameQueues
<1>9. QueueInv'
  BY <1>3, <1>8, QueuesStay
<1>10. AliveFlagsCopied'
  BY <1>2, <1>3, <1>6 DEF DeathInv, AliveFlagsCopied, CombatTyped
<1>11. DeathsAwaitLoot'
  BY <1>1, <1>2, <1>3, <1>6 DEF DeathInv, DeathsAwaitLoot, CombatTyped
<1> QED
  BY <1>5, <1>7, <1>9, <1>10, <1>11, Assembled

\* A step that moves the program counter alone.
LEMMA PhaseStep ==
  ASSUME IInv, phase' \in {"pickups", "idle"}, deaths = {},
         phase' = "idle" \/ phase # "idle",
         UNCHANGED <<players, queue_vars, spawn_vars, tick_in_interval, deaths, combat_alive>>
  PROVE  IInv'
<1>1. /\ TypeOK /\ TreasuryInv /\ QueueInv /\ DeathInv
      /\ RecordsTyped /\ QueuesTyped /\ SpawnsTyped /\ TickTyped /\ CombatTyped
  BY TypeParts DEF IInv
<1>2. RecordsTyped' /\ QueuesTyped' /\ SpawnsTyped' /\ TickTyped' /\ CombatTyped'
  BY <1>1 DEF RecordsTyped, QueuesTyped, SpawnsTyped, TickTyped, CombatTyped,
              queue_vars, spawn_vars
<1>3. SameItems /\ SameQueues
  BY DEF SameItems, SameQueues, queue_vars
<1>4. TreasuryInv' /\ QueueInv'
  BY <1>1, <1>3, TreasuryStays, QueuesStay
<1>5. AliveFlagsCopied' /\ DeathsAwaitLoot'
  BY <1>1 DEF DeathInv, AliveFlagsCopied, DeathsAwaitLoot
<1> QED
  BY <1>2, <1>4, <1>5, Assembled

LEMMA FailedStep ==
  ASSUME IInv, NEW p \in Players, PickupFailed(p) PROVE IInv'
<1> DEFINE seq == Resolved(p, Head(pickup_queue_by_player[p]))
           told == [players[p] EXCEPT !.last_pickup_seq = seq]
<1>1. /\ players' = [players EXCEPT ![p] = told] /\ NextPicker(p) /\ Dequeue(p)
      /\ UNCHANGED spawn_vars /\ UNCHANGED tick_vars /\ combat_alive' = combat_alive
  BY DEF PickupFailed
<1>2. /\ TypeOK /\ TreasuryInv /\ QueueInv /\ DeathInv
      /\ RecordsTyped /\ SpawnsTyped /\ TickTyped /\ CombatTyped
  BY TypeParts DEF IInv
<1>3. p \in DOMAIN players /\ players[p] \in Record
  BY <1>1, <1>2, FirstPickup, RecordIs
<1>4. seq \in PickupSeqs
  <2>1. \A t \in Pickup : t.pickup_seq \in PickupSeqs
    BY Zenon DEF Pickup
  <2> QED
    BY <1>1, <2>1, FirstPickup
<1> HIDE DEF seq
<1>5. told \in Record
  BY <1>3, <1>4, Zenon DEF Record
<1>6. /\ told.items = players[p].items /\ told.total_value = players[p].total_value
      /\ told.total_weight = players[p].total_weight /\ told.alive = players[p].alive
      /\ told.last_pickup_seq = seq
      /\ told.last_enqueued_pickup_seq = players[p].last_enqueued_pickup_seq
  BY <1>3 DEF Record
<1> HIDE DEF told
<1>7. /\ RecordsTyped' /\ DOMAIN players' = DOMAIN players /\ players'[p] = told
      /\ \A q \in DOMAIN players : q # p => players'[q] = players[q]
  BY <1>1, <1>2, <1>3, <1>5, RecordsPut
<1>8. CombatTyped' /\ SpawnsTyped' /\ TickTyped'
  BY <1>1, <1>2, <1>7 DEF CombatTyped, SpawnsTyped, TickTyped, spawn_vars, tick_vars
<1>9. SameItems
  BY <1>6, <1>7 DEF SameItems
<1>10. ResolvedRecords(p)
  BY <1>6, <1>7 DEF ResolvedRecords, seq
<1>11. TreasuryInv' /\ QueueInv' /\ QueuesTyped'
  BY <1>1, <1>2, <1>9, <1>10, TreasuryStays, ResolvedQueues
<1>12. AliveFlagsCopied'
  BY <1>1, <1>2, <1>6, <1>7 DEF DeathInv, AliveFlagsCopied, CombatTyped, tick_vars
<1>13. DeathsAwaitLoot'
  BY <1>1, <1>2, <1>9 DEF DeathInv, DeathsAwaitLoot, CombatTyped, tick_vars, SameItems
<1> QED
  BY <1>7, <1>8, <1>11, <1>12, <1>13, Assembled

LEMMA CollectedStep ==
  ASSUME IInv, NEW p \in Players, PickupCollected(p) PROVE IInv'
<1>1. /\ NextPicker(p) /\ Dequeue(p)
      /\ CanCarry(p, Head(pickup_queue_by_player[p]).spawn_id)
      /\ UNCHANGED tick_vars /\ combat_alive' = combat_alive
  BY DEF PickupCollected
<1>2. TypeOK /\ DeathInv /\ TickTyped /\ CombatTyped
  BY TypeParts DEF IInv
<1>3. p \in DOMAIN players /\ players[p] \in Record
  BY <1>1, <1>2, FirstPickup, RecordIs
<1>4. TreasuryInv' /\ SpawnsTyped' /\ RecordsTyped' /\ ResolvedRecords(p)
  BY CollectedTreasury
<1>5. QueueInv' /\ QueuesTyped'
  BY <1>1, <1>4, ResolvedQueues
<1>6. players'[p].alive = players[p].alive
  <2> DEFINE id == Head(pickup_queue_by_player[p]).spawn_id
             treasure == active_spawns_by_id[id]
             r == [players[p] EXCEPT
               !.last_pickup_seq = Resolved(p, Head(pickup_queue_by_player[p])),
               !.items = Append(@, [spawn_id |-> id, treasure |-> treasure]),
               !.total_value = @ + Treasures[treasure].value,
               !.total_weight = @ + Treasures[treasure].weight]
  <2>1. players' = [players EXCEPT ![p] = r]
    BY DEF PickupCollected
  <2>2. r.alive = players[p].alive
    BY <1>3, Zenon DEF Record
  <2> HIDE DEF r
  <2> QED
    BY <1>3, <2>1, <2>2
<1>7. /\ DOMAIN players' = DOMAIN players
      /\ \A q \in DOMAIN players : q # p => players'[q] = players[q]
  BY <1>4 DEF ResolvedRecords
<1>8. CombatTyped' /\ TickTyped'
  BY <1>1, <1>2, <1>7 DEF CombatTyped, TickTyped, tick_vars
<1>9. AliveFlagsCopied'
  BY <1>1, <1>2, <1>6, <1>7 DEF DeathInv, AliveFlagsCopied, CombatTyped, tick_vars
<1>10. DeathsAwaitLoot'
  <2>1. p \in DOMAIN combat_alive => combat_alive[p]
    <3>1. players[p].alive /\ phase # "idle"
      BY <1>1 DEF CanCarry, NextPicker
    <3> QED
      BY <1>2, <3>1, Zenon DEF DeathInv, AliveFlagsCopied
  <2> QED
    BY <1>1, <1>2, <1>7, <2>1 DEF DeathInv, DeathsAwaitLoot, CombatTyped, tick_vars
<1> QED
  BY <1>4, <1>5, <1>8, <1>9, <1>10, Assembled

LEMMA StutterStep ==
  ASSUME IInv, UNCHANGED vars PROVE IInv'
<1>1. UNCHANGED <<players, queue_vars, spawn_vars, tick_vars, combat_alive>>
  BY DEF vars
<1>2. /\ TypeOK /\ TreasuryInv /\ QueueInv /\ DeathInv
      /\ RecordsTyped /\ QueuesTyped /\ SpawnsTyped /\ TickTyped /\ CombatTyped
  BY TypeParts DEF IInv
<1>3. RecordsTyped' /\ QueuesTyped' /\ SpawnsTyped' /\ TickTyped' /\ CombatTyped'
  BY <1>1, <1>2 DEF RecordsTyped, QueuesTyped, SpawnsTyped, TickTyped, CombatTyped,
              queue_vars, spawn_vars, tick_vars
<1>4. SameItems /\ SameQueues
  BY <1>1 DEF SameItems, SameQueues, queue_vars
<1>5. TreasuryInv' /\ QueueInv'
  BY <1>1, <1>2, <1>4, TreasuryStays, QueuesStay
<1>6. AliveFlagsCopied' /\ DeathsAwaitLoot'
  BY <1>1, <1>2 DEF DeathInv, AliveFlagsCopied, DeathsAwaitLoot, tick_vars
<1> QED
  BY <1>3, <1>5, <1>6, Assembled

LEMMA NextIInv == IInv /\ [Next]_vars => IInv'
<1> SUFFICES ASSUME IInv, [Next]_vars PROVE IInv'
  OBVIOUS
<1>1. CASE \E p \in Players : EnsurePlayer(p)
  BY <1>1, EnsureStep
<1>2. CASE \E p \in Players : RemovePlayer(p)
  BY <1>2, RemoveStep
<1>3. CASE \E p \in Players, seq \in PickupSeqs : PickupDropped(p, seq)
  <2>1. UNCHANGED vars
    BY <1>3 DEF PickupDropped
  <2> QED
    BY <2>1, StutterStep
<1>4. CASE \E p \in Players, seq \in PickupSeqs, id \in SpawnIds :
             PickupAccepted(p, seq, id)
  BY <1>4, AcceptedStep
<1>5. CASE BeginTick
  BY <1>5, BeginStep
<1>6. CASE LootDropped
  BY <1>6, LootStep
<1>7. CASE DeathsDone
  <2>1. /\ phase' = "pickups" /\ deaths = {} /\ phase # "idle"
        /\ UNCHANGED <<players, queue_vars, spawn_vars, tick_in_interval, deaths, combat_alive>>
    BY <1>7 DEF DeathsDone
  <2> QED
    BY <2>1, PhaseStep
<1>8. CASE \E p \in Players : PickupFailed(p)
  BY <1>8, FailedStep
<1>9. CASE \E p \in Players : PickupCollected(p)
  BY <1>9, CollectedStep
<1>10. CASE PickupsDone
  <2>1. /\ phase' = "idle" /\ phase = "pickups"
        /\ UNCHANGED <<players, queue_vars, spawn_vars, tick_in_interval, deaths, combat_alive>>
    BY <1>10 DEF PickupsDone
  <2>2. deaths = {}
    BY <2>1 DEF IInv, DeathInv, DeathsAwaitLoot
  <2> QED
    BY <2>1, <2>2, PhaseStep
<1>11. CASE UNCHANGED vars
  BY <1>11, StutterStep
<1> QED
  BY <1>1, <1>2, <1>3, <1>4, <1>5, <1>6, <1>7, <1>8, <1>9, <1>10, <1>11, Zenon
     DEF Next, ResolveTick

LEMMA AlwaysIInv == Spec => []IInv
<1>1. Init => IInv
  BY InitIInv
<1>2. IInv /\ [Next]_vars => IInv'
  BY NextIInv
<1> QED
  BY <1>1, <1>2, PTL DEF Spec

-----------------------------------------------------------------------------
(* What it is for *)

\* InventoryInv: each treasure is in one place, in the world or with one player
\* who collected it once; the queued pickups are counted exactly, within the
\* capacity, increasing, and newer than what was resolved.
\* This is about enqueue_pickup, remove_player and resolve_tick of
\* InventoryLootSimulation in any order, players who leave and return included.
THEOREM TreasuresInOnePlace == Spec => []InventoryInv
<1>1. IInv => InventoryInv
  BY Zenon DEF IInv, InventoryInv, TreasuryInv, QueueInv
<1> QED
  BY <1>1, AlwaysIInv, PTL

\* TreasuresConserved: what create_scheduled_spawn made lies in the world or is
\* carried; collect, drop at death and departure move it and never lose it.
THEOREM TreasuresNeverLost == Spec => []TreasuresConserved
<1>1. IInv => TreasuresConserved
  BY Zenon DEF IInv, TreasuryInv
<1> QED
  BY <1>1, AlwaysIInv, PTL

\* TotalsExact: total_value and total_weight, which collecting adds to and a
\* death resets, are the sums over the items, within the limits of the config.
THEOREM TotalsAlwaysExact == Spec => []TotalsExact
<1>1. IInv => TotalsExact
  BY Zenon DEF IInv, TreasuryInv
<1> QED
  BY <1>1, AlwaysIInv, PTL

\* DeadCarryNothing: with loot_drop "all" a player that combat holds for dead
\* carries nothing between two ticks: its loot was dropped before its queued
\* pickups were looked at, and those were refused.
THEOREM DeadNeverCarry == Spec => []DeadCarryNothing
<1>1. IInv => DeadCarryNothing
  <2> SUFFICES ASSUME IInv, LootDropAll, phase = "idle",
                      NEW p \in DOMAIN combat_alive, ~combat_alive[p]
               PROVE  players[p].items = <<>>
    BY Zenon DEF DeadCarryNothing
  <2>1. DeathsAwaitLoot
    BY Zenon DEF IInv, DeathInv
  <2> QED
    BY <2>1 DEF DeathsAwaitLoot
<1> QED
  BY <1>1, AlwaysIInv, PTL
=============================================================================
