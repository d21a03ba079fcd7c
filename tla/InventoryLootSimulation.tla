---------------------- MODULE InventoryLootSimulation -----------------------
(***************************************************************************)
(* server/src/InventoryLootSimulation.cpp: treasures that lie in the world *)
(* (active spawns), that players carry, and that were taken (consumed).    *)
(*                                                                         *)
(* resolve_tick is cut into its opening part (BeginTick), one iteration of *)
(* the loop over deaths and one of the loop over queued pickups; `phase'   *)
(* is the program counter.  Positions are left out: whether a player is in *)
(* range of a spawn is a free choice.                                      *)
(***************************************************************************)
EXTENDS Integers, Sequences, SequencesExt, Maps

CONSTANTS
  MaxPlayers,              \* player ids are 1 .. MaxPlayers
  Treasures,               \* the treasure table, a sequence of value and weight
  SpawnIntervalTicks,      \* InventoryLootConfig::spawn_interval_ticks
  MaxActiveSpawns,         \* ::max_active_spawns
  PickupQueueCapacity,     \* ::pickup_queue_capacity, all players together
  MaxItemsPerPlayer,       \* ::max_items_per_player
  MaxWeightPerPlayer,      \* ::max_weight_per_player
  LootDropAll,             \* ::loot_drop_mode is All
  MaxPickupSeq,            \* bound: pickup sequence numbers a client may send
  MaxSpawnId               \* bound: no tick begins once that many ids are used

ASSUME InventoryAssumption ==
  /\ MaxPlayers \in Nat
  /\ Treasures \in Seq([value : Nat, weight : Nat])
  /\ {SpawnIntervalTicks, MaxActiveSpawns, PickupQueueCapacity,
      MaxItemsPerPlayer, MaxWeightPerPlayer} \subseteq Nat \ {0}
  /\ LootDropAll \in BOOLEAN
  /\ MaxPickupSeq \in Nat
  /\ MaxSpawnId \in Nat

VARIABLES
  players,                       \* player -> inventory record; never erased
  pickup_queue_by_player,        \* player -> queued pickups, oldest first
  queued_pickup_count,
  active_spawns_by_id,           \* spawn id -> index of the treasure; partial
  consumed_spawn_ids,            \* ids that were picked up; only grows
  next_spawn_id,
  next_spawn_definition_index,   \* how many spawns the schedule has made
  tick_in_interval,              \* tick % SpawnIntervalTicks
  deaths,                        \* victims whose loot resolve_tick has yet to drop
  phase,                         \* where resolve_tick stands
  combat_alive                   \* CombatSimulation: player here -> alive

queue_vars == <<pickup_queue_by_player, queued_pickup_count>>
spawn_vars == <<active_spawns_by_id, consumed_spawn_ids, next_spawn_id,
                next_spawn_definition_index>>
tick_vars == <<tick_in_interval, deaths, phase>>
vars == <<players, queue_vars, spawn_vars, tick_vars, combat_alive>>

Players == 1 .. MaxPlayers
SpawnIds == 1 .. MaxSpawnId + 1
PickupSeqs == 0 .. MaxPickupSeq

NewRecord ==
  [alive |-> TRUE, items |-> <<>>, total_value |-> 0, total_weight |-> 0,
   last_pickup_seq |-> 0, last_enqueued_pickup_seq |-> 0]

Init ==
  /\ players = EmptyMap
  /\ pickup_queue_by_player = [p \in Players |-> <<>>]
  /\ queued_pickup_count = 0
  /\ active_spawns_by_id = EmptyMap
  /\ consumed_spawn_ids = {}
  /\ next_spawn_id = 1
  /\ next_spawn_definition_index = 0
  /\ tick_in_interval = 0
  /\ deaths = {}
  /\ phase = "idle"
  /\ combat_alive = EmptyMap

-----------------------------------------------------------------------------
(* Calls between two ticks *)

\* A player joins: it is alive in the combat simulation, and finds the record
\* of an earlier stay of its player id.
EnsurePlayer(p) ==
  /\ phase = "idle"
  /\ players' = Emplace(players, p, NewRecord)
  /\ combat_alive' = Emplace(combat_alive, p, TRUE)
  /\ UNCHANGED <<queue_vars, spawn_vars, tick_vars>>

\* remove_player: the record stays, items, last_enqueued_pickup_seq and all.
RemovePlayer(p) ==
  /\ phase = "idle"
  /\ p \in DOMAIN players
  /\ queued_pickup_count' =
       IF queued_pickup_count >= Len(pickup_queue_by_player[p])
       THEN queued_pickup_count - Len(pickup_queue_by_player[p]) ELSE 0
  /\ pickup_queue_by_player' = [pickup_queue_by_player EXCEPT ![p] = <<>>]
  /\ players' = [players EXCEPT ![p].alive = FALSE]
  /\ combat_alive' = Erase(combat_alive, {p})
  /\ UNCHANGED <<spawn_vars, tick_vars>>

PickupRefused(p, seq) ==
  \/ seq <= players[p].last_enqueued_pickup_seq
  \/ queued_pickup_count >= PickupQueueCapacity
  \/ /\ pickup_queue_by_player[p] # <<>>
     /\ seq <= Last(pickup_queue_by_player[p]).pickup_seq

\* enqueue_pickup, Accepted.
PickupAccepted(p, seq, id) ==
  /\ phase = "idle"
  /\ p \in DOMAIN combat_alive
  /\ ~PickupRefused(p, seq)
  /\ pickup_queue_by_player' = [pickup_queue_by_player EXCEPT
       ![p] = Append(@, [pickup_seq |-> seq, spawn_id |-> id])]
  /\ players' = [players EXCEPT ![p].last_enqueued_pickup_seq = seq]
  /\ queued_pickup_count' = queued_pickup_count + 1
  /\ UNCHANGED <<spawn_vars, tick_vars, combat_alive>>

\* enqueue_pickup, OutOfOrder or QueueFull.
PickupDropped(p, seq) ==
  /\ phase = "idle"
  /\ p \in DOMAIN combat_alive
  /\ PickupRefused(p, seq)
  /\ UNCHANGED vars

-----------------------------------------------------------------------------
(* resolve_tick *)

\* What combat may report after this tick: everybody who died is dead, and
\* whoever went from alive to dead has died; it takes another player to kill.
CombatReports(alive, died) ==
  /\ \A p \in died : ~alive[p] /\ DOMAIN combat_alive # {p}
  /\ \A p \in DOMAIN combat_alive : combat_alive[p] /\ ~alive[p] => p \in died

SpawnDue ==
  /\ tick_in_interval = 0
  /\ Treasures # <<>>
  /\ Cardinality(DOMAIN active_spawns_by_id) < MaxActiveSpawns

\* create_scheduled_spawn, when the interval and the pool call for one.
ScheduledSpawn ==
  IF SpawnDue
  THEN /\ active_spawns_by_id' =
            Put(active_spawns_by_id, next_spawn_id,
                (next_spawn_definition_index % Len(Treasures)) + 1)
       /\ next_spawn_definition_index' = next_spawn_definition_index + 1
       /\ next_spawn_id' = next_spawn_id + 1
  ELSE UNCHANGED <<active_spawns_by_id, next_spawn_id, next_spawn_definition_index>>

\* The opening part: alive flags are copied from combat, a spawn may be due.
BeginTick ==
  /\ phase = "idle"
  /\ next_spawn_id <= MaxSpawnId
  /\ \E alive \in [DOMAIN combat_alive -> BOOLEAN],
        died \in SUBSET DOMAIN combat_alive :
       /\ CombatReports(alive, died)
       /\ combat_alive' = alive
       /\ players' = [p \in DOMAIN players |->
            IF p \in DOMAIN alive THEN [players[p] EXCEPT !.alive = alive[p]]
            ELSE players[p]]
       /\ deaths' = IF LootDropAll THEN died ELSE {}
  /\ ScheduledSpawn
  /\ tick_in_interval' = (tick_in_interval + 1) % SpawnIntervalTicks
  /\ phase' = "deaths"
  /\ UNCHANGED <<queue_vars, consumed_spawn_ids>>

\* A drop that puts the loot down and leaves it with the victim, too.
DropLootCopying(victim) ==
  LET items == players[victim].items
      dropped == next_spawn_id .. next_spawn_id + Len(items) - 1
  IN  /\ active_spawns_by_id' =
           [id \in DOMAIN active_spawns_by_id \cup dropped |->
              IF id \in dropped THEN items[id - next_spawn_id + 1].treasure
              ELSE active_spawns_by_id[id]]
      /\ next_spawn_id' = next_spawn_id + Len(items)
      /\ UNCHANGED players

\* A drop that leaves the victim its score.
DropLootKeepingTotals(victim) ==
  LET items == players[victim].items
      dropped == next_spawn_id .. next_spawn_id + Len(items) - 1
  IN  /\ active_spawns_by_id' =
           [id \in DOMAIN active_spawns_by_id \cup dropped |->
              IF id \in dropped THEN items[id - next_spawn_id + 1].treasure
              ELSE active_spawns_by_id[id]]
      /\ next_spawn_id' = next_spawn_id + Len(items)
      /\ players' = [players EXCEPT ![victim].items = <<>>]

\* The items of the victim become spawns with ids of their own.
DropLoot(victim) ==
  LET items == players[victim].items
      dropped == next_spawn_id .. next_spawn_id + Len(items) - 1
  IN  /\ active_spawns_by_id' =
           [id \in DOMAIN active_spawns_by_id \cup dropped |->
              IF id \in dropped THEN items[id - next_spawn_id + 1].treasure
              ELSE active_spawns_by_id[id]]
      /\ next_spawn_id' = next_spawn_id + Len(items)
      /\ players' = [players EXCEPT ![victim].items = <<>>,
                                    ![victim].total_value = 0,
                                    ![victim].total_weight = 0]

\* One iteration of the loop over the deaths, lowest victim first.
LootDropped ==
  /\ phase = "deaths"
  /\ \E victim \in deaths :
       /\ \A other \in deaths : victim <= other
       /\ DropLoot(victim)
       /\ deaths' = deaths \ {victim}
  /\ UNCHANGED <<queue_vars, consumed_spawn_ids, next_spawn_definition_index,
                 tick_in_interval, phase, combat_alive>>

DeathsDone ==
  /\ phase = "deaths"
  /\ deaths = {}
  /\ phase' = "pickups"
  /\ UNCHANGED <<players, queue_vars, spawn_vars, tick_in_interval, deaths,
                 combat_alive>>

\* drain_pickups_deterministic: by player id, then in queue order.
NextPicker(p) ==
  /\ phase = "pickups"
  /\ pickup_queue_by_player[p] # <<>>
  /\ \A q \in Players : pickup_queue_by_player[q] # <<>> => p <= q

Dequeue(p) ==
  /\ pickup_queue_by_player' = [pickup_queue_by_player EXCEPT ![p] = Tail(@)]
  /\ queued_pickup_count' =
       IF queued_pickup_count > 0 THEN queued_pickup_count - 1 ELSE 0

Resolved(p, pickup) ==
  IF players[p].last_pickup_seq < pickup.pickup_seq
  THEN pickup.pickup_seq ELSE players[p].last_pickup_seq

\* A check that forgets the dead.
CanCarryEvenDead(p, id) ==
  /\ id \notin consumed_spawn_ids
  /\ id \in DOMAIN active_spawns_by_id
  /\ Len(players[p].items) + 1 <= MaxItemsPerPlayer
  /\ players[p].total_weight + Treasures[active_spawns_by_id[id]].weight
       <= MaxWeightPerPlayer

\* Neither PlayerDead, DuplicatePickup, UnknownSpawn, InventoryCapacityExceeded
\* nor WeightLimitExceeded.
CanCarry(p, id) ==
  /\ players[p].alive
  /\ id \notin consumed_spawn_ids
  /\ id \in DOMAIN active_spawns_by_id
  /\ Len(players[p].items) + 1 <= MaxItemsPerPlayer
  /\ players[p].total_weight + Treasures[active_spawns_by_id[id]].weight
       <= MaxWeightPerPlayer

\* Any status but Collected; out of range, or one of those above.
PickupFailed(p) ==
  /\ NextPicker(p)
  /\ Dequeue(p)
  /\ players' = [players EXCEPT ![p].last_pickup_seq =
                   Resolved(p, Head(pickup_queue_by_player[p]))]
  /\ UNCHANGED <<spawn_vars, tick_vars, combat_alive>>

\* A collection that leaves the treasure where it was.
PickupCollectedCopying(p) ==
  /\ NextPicker(p)
  /\ Dequeue(p)
  /\ LET pickup == Head(pickup_queue_by_player[p])
         id == pickup.spawn_id
         treasure == active_spawns_by_id[id]
     IN  /\ CanCarry(p, id)
         /\ players' = [players EXCEPT
              ![p].last_pickup_seq = Resolved(p, pickup),
              ![p].items = Append(@, [spawn_id |-> id, treasure |-> treasure]),
              ![p].total_value = @ + Treasures[treasure].value,
              ![p].total_weight = @ + Treasures[treasure].weight]
         /\ consumed_spawn_ids' = consumed_spawn_ids \cup {id}
         /\ UNCHANGED active_spawns_by_id
  /\ UNCHANGED <<next_spawn_id, next_spawn_definition_index, tick_vars,
                 combat_alive>>

\* Collected: the treasure moves from the world to the player.
PickupCollected(p) ==
  /\ NextPicker(p)
  /\ Dequeue(p)
  /\ LET pickup == Head(pickup_queue_by_player[p])
         id == pickup.spawn_id
         treasure == active_spawns_by_id[id]
     IN  /\ CanCarry(p, id)
         /\ players' = [players EXCEPT
              ![p].last_pickup_seq = Resolved(p, pickup),
              ![p].items = Append(@, [spawn_id |-> id, treasure |-> treasure]),
              ![p].total_value = @ + Treasures[treasure].value,
              ![p].total_weight = @ + Treasures[treasure].weight]
         /\ active_spawns_by_id' = Erase(active_spawns_by_id, {id})
         /\ consumed_spawn_ids' = consumed_spawn_ids \cup {id}
  /\ UNCHANGED <<next_spawn_id, next_spawn_definition_index, tick_vars,
                 combat_alive>>

PickupsDone ==
  /\ phase = "pickups"
  /\ \A p \in Players : pickup_queue_by_player[p] = <<>>
  /\ phase' = "idle"
  /\ UNCHANGED <<players, queue_vars, spawn_vars, tick_in_interval, deaths,
                 combat_alive>>

ResolveTick ==
  \/ BeginTick
  \/ LootDropped
  \/ DeathsDone
  \/ \E p \in Players : PickupFailed(p) \/ PickupCollected(p)
  \/ PickupsDone

Next ==
  \/ \E p \in Players :
       \/ EnsurePlayer(p)
       \/ RemovePlayer(p)
       \/ \E seq \in PickupSeqs : PickupDropped(p, seq)
       \/ \E seq \in PickupSeqs, id \in SpawnIds : PickupAccepted(p, seq, id)
  \/ ResolveTick

Spec == Init /\ [][Next]_vars

-----------------------------------------------------------------------------
(* Properties *)

\* Every variable holds values of its kind.
TypeOK ==
  /\ DOMAIN players \subseteq Players
  /\ players \in [DOMAIN players ->
       [alive : BOOLEAN,
        items : Seq([spawn_id : Nat, treasure : 1 .. Len(Treasures)]),
        total_value : Nat, total_weight : 0 .. MaxWeightPerPlayer,
        last_pickup_seq : PickupSeqs, last_enqueued_pickup_seq : PickupSeqs]]
  /\ pickup_queue_by_player \in
       [Players -> Seq([pickup_seq : PickupSeqs, spawn_id : SpawnIds])]
  /\ queued_pickup_count \in 0 .. PickupQueueCapacity
  /\ DOMAIN active_spawns_by_id \subseteq Nat
  /\ active_spawns_by_id \in
       [DOMAIN active_spawns_by_id -> 1 .. Len(Treasures)]
  /\ consumed_spawn_ids \subseteq Nat
  /\ next_spawn_id \in Nat
  /\ next_spawn_definition_index \in Nat
  /\ tick_in_interval \in 0 .. SpawnIntervalTicks - 1
  /\ deaths \subseteq Players
  /\ phase \in {"idle", "deaths", "pickups"}
  /\ DOMAIN combat_alive \subseteq DOMAIN players
  /\ combat_alive \in [DOMAIN combat_alive -> BOOLEAN]

Carried(p) == {players[p].items[i].spawn_id : i \in DOMAIN players[p].items}

CarriedByAll == UNION {Carried(p) : p \in DOMAIN players}

\* No treasure is in two places: what lies in the world was not picked up, what
\* is carried was, once, by one player; every id ever made is one or the other.
EachTreasureOnce ==
  /\ DOMAIN active_spawns_by_id \cap consumed_spawn_ids = {}
  /\ DOMAIN active_spawns_by_id \cup consumed_spawn_ids = 1 .. next_spawn_id - 1
  /\ CarriedByAll \subseteq consumed_spawn_ids
  /\ \A p \in DOMAIN players :
       \A i, j \in DOMAIN players[p].items :
         players[p].items[i].spawn_id = players[p].items[j].spawn_id => i = j
  /\ \A p, q \in DOMAIN players : p # q => Carried(p) \cap Carried(q) = {}

\* Treasures are neither made nor lost by players: what the schedule put into
\* the world lies in the world or is carried, through pickups, duplicate and
\* racing requests, deaths, and players who leave with their loot.
TreasuresConserved ==
  next_spawn_definition_index
    = Cardinality(DOMAIN active_spawns_by_id) + Cardinality(CarriedByAll)

\* The sum of a sequence of numbers.
SumOf(numbers) ==
  LET upto[n \in 0 .. Len(numbers)] ==
        IF n = 0 THEN 0 ELSE upto[n - 1] + numbers[n]
  IN  upto[Len(numbers)]

Values(items) == [i \in 1 .. Len(items) |-> Treasures[items[i].treasure].value]
Weights(items) == [i \in 1 .. Len(items) |-> Treasures[items[i].treasure].weight]

\* The totals kept by hand are those of the items, within the limits.
TotalsExact ==
  \A p \in DOMAIN players :
    LET items == players[p].items
    IN  /\ players[p].total_value = SumOf(Values(items))
        /\ players[p].total_weight = SumOf(Weights(items))
        /\ players[p].total_weight <= MaxWeightPerPlayer
        /\ Len(items) <= MaxItemsPerPlayer

\* Every queued pickup, as the set of its player and sequence number.
QueuedPickups ==
  {q \in Players \X PickupSeqs :
     \E i \in DOMAIN pickup_queue_by_player[q[1]] :
       pickup_queue_by_player[q[1]][i].pickup_seq = q[2]}

\* queued_pickup_count is the number of queued pickups, so that its guards
\* against wrapping below zero never hide a drift, and never past the capacity.
PickupCountExact ==
  /\ queued_pickup_count = Cardinality(QueuedPickups)
  /\ queued_pickup_count <= PickupQueueCapacity

\* Pickups are resolved in the order they were sent and none twice, across
\* reconnects: what is queued is increasing and newer than what was resolved.
PickupsOrdered ==
  \A p \in DOMAIN players :
    LET queue == pickup_queue_by_player[p]
    IN  /\ \A i, j \in DOMAIN queue : i < j => queue[i].pickup_seq < queue[j].pickup_seq
        /\ \A i \in DOMAIN queue : players[p].last_pickup_seq < queue[i].pickup_seq
        /\ queue # <<>> =>
             Last(queue).pickup_seq = players[p].last_enqueued_pickup_seq

\* With loot_drop "all" nobody lies dead with loot: what the victim carried is
\* dropped before its queued pickups are looked at, and those are refused.
DeadCarryNothing ==
  LootDropAll /\ phase = "idle" =>
    \A p \in DOMAIN combat_alive : ~combat_alive[p] => players[p].items = <<>>

\* The bookkeeping of the simulation: where each treasure is, and what is queued.
InventoryInv == TypeOK /\ EachTreasureOnce /\ PickupCountExact /\ PickupsOrdered

\* docs/decision-log.md:63 calls the pool of active spawns bounded.  Death drops
\* are added to it without a look at max_active_spawns.
ActiveSpawnsBounded ==
  Cardinality(DOMAIN active_spawns_by_id) <= MaxActiveSpawns
=============================================================================
