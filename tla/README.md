# A TLA+ model of the devy-fps server

devy-fps is a multiplayer voxel shooter. An authoritative server (`server/`, C++,
one thread, ENet for the network) runs the game in fixed ticks; clients
(`client/`) send inputs, shots and pickups, predict their own movement and show
what the server's snapshots tell them. This directory models the server's game
logic, the generation of its world, and what clients make of what they are told, in
TLA+, checks it with TLC and proves parts of it with TLAPS.

## Inventory

| Component | Source | State | Operations |
|---|---|---|---|
| Sessions and slots | `server/src/SessionManager.cpp` | slot owners, sessions by peer, slot remembered for each name | join, heartbeat, disconnect, collect timed out |
| Tick loop | `server/src/AuthoritativeLoop.cpp` | input queues, their common count, last input number of each player, tick counter, next deadline | enqueue input, clear player, advance |
| Movement | `server/src/MovementSimulation.cpp`, `shared/src/game/Movement.cpp` | position and velocity of each player, last input processed | ensure, remove, apply inputs (the latest of a tick counts) |
| Combat | `server/src/CombatSimulation.cpp` | health and life, queued shots, cooldowns, projectiles in flight | ensure, remove, respawn, enqueue fire, resolve tick |
| Inventory and loot | `server/src/InventoryLootSimulation.cpp` | items and totals of each player, queued pickups, active and consumed spawns | ensure, remove, enqueue pickup, resolve tick |
| Match lifecycle | `server/src/MatchLifecycleSimulation.cpp` | phase, countdown, timer, winner, a score record for each player | ensure, remove, resolve tick |
| Block interaction | `server/src/BlockInteraction.cpp` | none of its own | validate and apply a block update |
| World | `shared/src/voxel/World.cpp` | chunks and their blocks, generation profile | generate, ensure generated chunk, remove chunk, set block |
| World replication | `server/src/WorldReplication.cpp` | revision of each chunk, chunks and revisions each player knows | mark dirty, build player update, remove |
| Main loop | `server/src/main.cpp` | peers by token, pending snapshot events | event pump, timeouts, ticks, snapshots |
| Telemetry | `server/src/RuntimeTelemetry.cpp` | tick and packet counters, a history window | begin/end tick, notes, report |
| Endpoint file | `shared/src/RuntimeServerInfo.cpp` | a file shared by server and client processes | publish, read, remove if own |
| Protocol | `shared/src/net/Protocol.cpp` | none | serialize, parse, validate |
| Configuration | `server/src/ServerConfigValidation.cpp`, `shared/src/Config.cpp`, `WorldGenerationProfile.cpp` | none after start | load, validate |
| Client prediction | `client/src/PredictionReconciler.cpp` | inputs not acknowledged, predicted state | predict, acknowledge, replay |
| Client event feed, HUD | `client/src/AuthoritativeEventFeed.cpp`, `AuthoritativeHudModel.cpp` | messages, recent damage signatures, last match state | consume packets and snapshots |
| Client chunk sync | `client/src/ChunkSyncApplier.cpp` | known chunk revisions | apply a snapshot's chunk part |
| Client loop | `client/src/main.cpp`, `WeaponFireEmitter.cpp` | connection, sequence numbers | connect, join, send, receive |
| Engine | `engine/` | rendering, camera, devices | |

How they interact. The main loop is the only thread. It drains network events
until none arrives for 16 ms, ends the sessions that have been silent for too
long, and runs every tick whose deadline has passed. A join or a departure calls
`ensure_player` or `remove_player` of every simulation, one after the other. A
message either counts as a heartbeat or is also put into a queue: inputs into the
tick loop, shots into combat, pickups into inventory. In a tick, movement runs on
the drained inputs; combat resolves shots at the new positions; inventory is told
who is alive and who died and drops and collects loot; match is told all of that
and the list of sessions, scores, and returns the players to respawn, which the
loop hands back to combat. Records of inventory and match outlive their players;
those of combat, movement and the tick loop do not. Most of the difficulty lies in
that difference.

What is hard to test here: calls in an order nobody wrote a test for (a rejoin
between two ticks, a removal with shots queued and projectiles in flight, several
deaths in one tick); tables that hold the same fact twice; counters kept by hand;
state kept under a `player_id` that passes from one player to another; an event
pump that may not return. `PROJECT.json` lists these under `hazards`, each at its
line.

What makes each component correct:

- sessions: the tables agree; one connection a name, one name an identity at a time;
- tick loop: bounded, ordered, exact counts; every tick runs, on the grid;
- combat: health and life agree; a hit belongs to the life it was shot at; a death is final;
- inventory: treasures are conserved; totals are those of the items;
- match: budget, deaths and elimination agree; a winner that leads and stays; an end;
- main loop: all tables hold the same players at every step; silence is noticed;
- replication: a client ends up knowing the current revision of what it sees;
- prediction: what is replayed is what the server has not applied;
- world: every chunk is the same, whoever generates it and when;
- event feed: each hit is shown once, and the HUD ends where the server is;
- endpoint file: clients find the server that published last, and no dead one;
- telemetry: a report tells its own window, no more and no less.

## Modules

| Module | Models |
|---|---|
| `Maps` | `std::unordered_map` as a partial function |
| `IdentityRegistry` | abstract: names sign in and out under identities |
| `SessionManager` | sessions and slots; refines `IdentityRegistry` |
| `AuthoritativeLoop` | input queues and tick schedule |
| `InputPipeline` | extends `AuthoritativeLoop` by the client's prediction and the way of inputs and acknowledgements; refines it |
| `CombatSimulation` | combat |
| `InventoryLootSimulation` | inventory and loot |
| `MatchLifecycleSimulation` | match lifecycle, with the combat state and the inventory values it reads |
| `GameServer` | the main loop, composed of instances of `SessionManager` and `MatchLifecycleSimulation` |
| `WorldReplication` | world replication, block interaction, and the clients that apply its updates |
| `WorldGeneration` | places of interest of the generated world, chunk by chunk |
| `EventFeed` | combat and match events in reliable packets and in snapshots; event feed, HUD and shot numbers of the client |
| `EndpointPublication` | server processes around the endpoint file |
| `RuntimeTelemetry` | counters, windows and reports |
| `MC*` | finite values for the constants |
| `SessionManagerProofs`, `InputPipelineProofs` (tick loop, pipeline and telemetry), `CombatProofs`, `InventoryProofs`, `MatchLifecycleProofs`, `GameServerProofs`, `WorldReplicationProofs`, `ClientViewProofs` (generation, endpoint and event feed) | theorems and proofs |

Variables carry the names of the fields they stand for, actions those of the
functions. Map fields are partial functions whose DOMAIN is the set of keys.
Definitions whose name extends that of another by what is wrong with them
(`RespawnPlayerUncleared`, `SpacingReachShort`) are deliberate faults, used only to
show that a property notices them.

### SessionManager

`handle_join_request` is `JoinAccepted`, `JoinRepeated` or `JoinRejected`,
according to its early returns; `SlotsFor` is the choice of the slot. A
`player_id` is a slot number. Time is relative: `silent` counts how long ago the
last heartbeat was, up to one unit more than the timeout.
`HandleDisconnect` and `CollectTimedOut` end sessions through `EndSessions`.

### AuthoritativeLoop

`enqueue_input` is `InputAccepted` or `InputDropped`. `advance` is one action: it
drains all queues into the first frame and appends an empty frame for every
further deadline that has passed. `Init` is `reset` at clock 0.

### InputPipeline

One client process after the other plays as `Local`; the other players are
strangers who send any numbers. `QueueLocalInput` is `queue_local_input` and the
packet it goes in; `Receive` is the packet loop of the client with
`PredictionReconciler::reconcile`; `RunTicks` is `advance` with
`MovementSimulation::apply_inputs` and the snapshots of the frames. A predicted
state is not computed: it is the acknowledged input it started from and the list of
the inputs applied on top, which is what can be wrong about it.

### CombatSimulation and InventoryLootSimulation

`resolve_tick` is one call, and nothing interrupts it. It is cut into the
iterations of its loops so that each has an action of its own; `phase` says
where it stands and keeps the other calls out. Geometry is a free choice: a ray
may hit any player the code lets it hit, or nobody; a pickup may be out of range.
Ticks are relative, counted down by `BeginTick`. The deaths that inventory is told
are a free choice among those combat can report.

### MatchLifecycleSimulation

`resolve_tick` is one action for each phase it finds. Its loops sort and iterate,
but what they do to one record does not depend on the others, so each is the
function it computes on the records. `combat_alive` and `total_value` stand for
what the main loop passes in; the deaths of a tick and what the inventories are
worth after it are free choices among what combat and inventory can report.

### GameServer

`pc` says where the loop stands: in the event pump, at the timeouts, or at the
ticks. A network event is one action with everything its handler does; it flips the
bit `event`, so that one that changes nothing else (a packet that does not parse, a
repeated message) is a step too, and keeps the pump busy. ENet is
modelled by the state of each link: a peer that is hung up on is `closing` until
the disconnect event, and delivers no message in between. One clock unit is one
tick.

### WorldReplication

`SendSnapshots` is the loop over the sessions when a snapshot is due, with
`build_player_update` as `WorldUpdate` (what is told) and `KnownAfter` (what is
remembered). `BlockUpdate` is the handler with `BlockInteraction::apply` and
`mark_chunk_dirty`. A client applies an update as `apply_chunk_sync` does: removed,
added, deltas; an entry whose revision it knows does not generate the chunk again.
A chunk holds one block. `content` is a history variable: the content each revision
stood for.

### WorldGeneration

`Candidate`, `SurvivesSpacing` and `Gathered` are `build_candidate`,
`survives_spacing` and `gather_chunk_candidates`; a chunk is the list of the
structures stamped on it, and `Covers` the columns each stamp touches. What the
hash functions give is chosen in `Init` (different ranks for different cells, as a
permutation gives them); the sanitised profile with it. `EnabledTypes` is the vector
of the enabled types, `Sorted` the `std::sort` of the candidates by their centre.
`Cells` are those whose chance hash lets them have a structure. `Covers` knows columns
only: the heights of the blocks, the world's `max_height_` that grows with the chunks it
generates (`World.cpp:441`) and the client's own `world_height` are left out, which is
right as long as the processes are configured with the same height. Places are integers
without a width: the squares of `survives_spacing` are 32-bit ints with no validated
bound, and both properties are stated for profiles where they fit (`SpacingFits`).

### EventFeed

`Tick` is a tick of the main loop from the events it adds to the snapshot at its
end; what combat, match and inventory decide is a free choice within their rules.
`Receive` is the packet loop of the client with the handlers of
`AuthoritativeEventFeed` and `AuthoritativeHudModel`; `TakeShot` is the server's
part of a shot, `Emit` is `WeaponFireEmitter`.

### EndpointPublication

One action for each file operation of `publish` and `remove_if_owned`, for each of
several processes, and a `Crash` between any two of them. Every operation may fail:
opening and writing, the first and the second `rename`, with the removal of the
published file between them (`Publish`, `ClearForRename`, `PublishAgain`), and every
removal. Files are names for
inodes, so that a process goes on writing to a temporary file another one has
renamed away. `Bind` is the search for a free port. `last`, `disturbed`, `refused`
and `abandoned` are history variables: who published last, and what the properties
except.

### RuntimeTelemetry

The counters of the class are one record, `window`. One action for each way through
the packet handlers, with the notes it takes in their order, and one for a tick from
`begin_tick` to `end_tick`. The time of a tick is taken from `begin_tick` to `end_tick`
and that of each phase by `note_phase` on its own, so `Ticks` chooses them
independently, as in `tests/server/RuntimeTelemetryTests.cpp:18`, where the phases add
up to more than the tick. The history of the ticks and packets of a window is what
a report is compared with.

## Runs

| Run | Checks | Bounds |
|---|---|---|
| `session` | `SessionInv`, `OneSessionPerName`, and `ImplementsRegistry` (refinement) | 3 peers, 4 usable names and one refused, 3 slots, timeout 2 |
| `input` | `LoopInv`, `PipelineInv`, `ReplayExact`, `ClientIsHeard`, `AdvanceCatchesUp` | 2 players, capacity 2, sequence numbers to 3, window 2, 2 inputs on their way, clock to 8 with 2 units a tick, a snapshot every 2 ticks |
| `combat` | `CombatInv`, `HitsAreCurrent`, `OneHitPerShot`, `DeathsAreFinal`, `NoShotAfterDeath` | 2 players, 2 weapons, 2 health, 2 shots, flights of 1 or 2 ticks, one life ended for each id |
| `inventory` | `InventoryInv`, `TreasuresConserved`, `TotalsExact`, `DeadCarryNothing` | 2 players, a light and a heavy treasure, pool, queue, items and weight of 2, no tick begins once 4 spawn ids are used |
| `match` | `MatchInv`, `KillsMatchDeaths`, `ResultIsFinal`, `WinnerLeads`, `MatchEnds` | 3 players with loot of 0 or 1, a countdown of 2 ticks, 2 seconds of 1.5 ticks, 1 respawn |
| `server` | `ServerInv`, `SimulationsFollowSessions`, `NewNamesFindRoom`, `SilenceIsNoticed` | 2 peers, 3 usable names and one refused, at most 1 tick overdue |
| `world` | `TablesAgree`, `ReplicaFollows`, `RevisionTellsContent`, `ReplicaConverges` | 2 clients for one player id, a strip of 3 chunks of which 2 are in reach, 2 changes, 2 packets on their way, one position beyond the map |
| `generation` | `PoisAreSpaced`, `ChunksMatchTheWhole` | 3 cells, 3 chunks at a corner, 4 profiles, hashes that put a structure in the middle, at the edges and at a corner of its cell |
| `feed` | `FeedInv`, `HitsShownOnce`, `PhaseFollows`, `HudFollows` | 2 players with 2 health, 4 ticks, a snapshot every 2, 2 and 3 shots, a ring of 4 |
| `endpoint` | `EndpointInv`, `NothingIsLeft` | 3 servers, 4 starts, 3 ports of which one is taken |
| `telemetry` | `TelemetryInv`, `ReportsTellTheirWindow` | windows of 3 ticks, a history configured too small, 2 packets a window, percentile 50 |
| `match_countdown` | `CountdownNeedsPlayers`, which is violated | as `match`, without loot |

`SessionInv`, `LoopInv`, `CombatInv`, `InventoryInv`, `MatchInv`, `ServerInv`,
`TablesAgree`, `PipelineInv`, `FeedInv`, `EndpointInv` and `TelemetryInv` join the
type invariant of a module with the named parts written above them in the module.

Why the bounds are enough. The interesting cases need two actors and one thing to
fight over: two players for a spawn, a shooter and a victim, three peers for the
slot of a fourth name, two clients for one player id, three processes for one file.
A death, a respawn, a removal and a second life fit into two lives; a race in a
queue into two entries; a stall into the clock of `input`, where several ticks are
due at once (`server` needs one: its ticks only take turns with the pump). The match timer is exercised
with ticks that do not divide a second, so that the remainder matters. Three players
are needed where several may kill one another in one tick and somebody must be left.
Two snapshot intervals suffice for an event to be told in one and repeated in none.
A window of 2 inputs and 3 numbers lets the oldest fall out; one position outside
the map exercises the clamp. The ring of `feed` holds the hits of a snapshot
interval: with 64 entries, the fire rates of the weapon table and the default
configuration it does, but `validate_server_config` does not check it, and
`HitsShownOnce` promises "not twice" under that condition (`RingHolds`) only. The
profiles of `generation` are within `SpacingFits`.

Every property was seen to fail for a version of the code with one fault; the
pairs are in `PROJECT.json` under `mutants`.

Sizes and times vary from a few seconds (`session`) to about two minutes (`match`,
`server` and `telemetry`, with 400,000 to 750,000 states). `endpoint` may deadlock: after the last start all processes have
ended.

### What the code does otherwise than its documents say

`match_countdown` shows one case: inventory summaries of players who left mark them
connected, so that the countdown does not reset (`docs/decision-log.md:74`) and the
match starts with fewer players than the minimum.

These have no run of their own. Each is a definition at the end of its module; TLC
refutes it when it is added to the configuration named.

| Definition | Configuration | Document | What the code does |
|---|---|---|---|
| `SessionManager!ReservationsHold` | `SessionManager.cfg` | `docs/decision-log.md:21` | The slot of a name that left is handed out by `first_free_slot`; the name is refused while the other is there, which has its inventory and score. |
| `InventoryLootSimulation!ActiveSpawnsBounded` | `InventoryLootSimulation.cfg` | `docs/decision-log.md:63` | Death drops make the pool exceed `max_active_spawns`. |
| `MatchLifecycleSimulation!EliminatedStayDead` | `MatchLifecycleSimulation.cfg` | `docs/decision-log.md:78` | A player who is eliminated reconnects and is alive again, because combat forgot it and `ensure_player` makes a new state. |
| `GameServer!DueTicksRun` | `GameServer.cfg` | `docs/architecture.md:132` | While network events keep coming less than 16 ms apart, the pump does not return and no tick runs, although ticks are due. |
| `EventFeed!EliminationShownOnce` | `EventFeed.cfg` | `docs/project-status.md:1262` | An elimination is told by the damage and again by the death event of the snapshot. |

Some more, which no document contradicts:

- the corner column of an outpost or of ruins lies outside the circle that
  `intersects_chunk` uses, and is missing where the corner is all a chunk has of the
  structure (`ChunksMatchTheWhole` excepts it by name);
- the record of a player who left keeps its last pickup number, while the client
  starts again at 1: its first pickups after a reconnect are refused
  (`InventoryLootSimulation.cpp:117`);
- a server that stops checks whose endpoint file it is and removes it in two steps;
  another one that publishes in between is not found (`LastIsFound` excepts the
  case in which two servers are at the files at once, and says so);
- a server whose `rename` fails removes the published file, tries again and may give up
  (`RuntimeServerInfo.cpp:105`), or be killed in between: a server that runs and was
  found until then is no longer (`LastIsFound` excepts it until somebody publishes);
- the spacing of the places of interest is squared in an int without a validated bound
  (`World.cpp:255`), and the ring of damage signatures is not tied to the configured
  snapshot interval (`ServerConfigValidation.cpp:234`): the properties name both
  conditions.

### Fairness

`MatchLifecycleSimulation!FairSpec` assumes that `resolve_tick` is called again and
again: what the loop does for every tick it runs. Joins, departures and kills are
under no fairness; a match ends by its timer whatever players do.

`GameServer!FairSpec` assumes that the thread goes on (`WF` of `Server`, its next
step whatever it is), and that time passes if the loop comes back to wait for ever
(`SF` of `ClockAdvances`; strong, because the clock of the model stands while the
loop is outside the pump, and the real one does not). It does not assume that the
pump ever finds nothing to do, since that is up to the clients: an event of any kind,
one that changes no table included, is a step of `Server` by its `event` bit, and a
flood of them satisfies the fairness without the pump ever being idle. Hence
`SilenceIsNoticed` has the condition that the loop gets to its timeouts again and again
(which it does, for one, when all clients stop sending): then a peer that stops
sending loses its session, whatever the others send. `DueTicksRun` fails for the same
reason.

`WorldReplication!Fairness` assumes that snapshots go on (every
`snapshot_interval_ticks` of a loop that ticks) and that each client reads its
packets. Players may move, quit, come back and change blocks for ever or never;
`ReplicaConverges` speaks of one who stays where it is.

## Proofs

TLAPS checks every theorem for all values of the constants that satisfy the
assumptions named in the module.

**Sessions** (`SessionManagerProofs`, from `SessionAssumption`). The inductive
invariant `SessionInv` is `TypeOK /\ SlotsMatchSessions /\ SessionsKeepTheirName`. The
agreement of slot table and session table is not inductive without types; that no
name is connected twice follows from it: two sessions of one name would have the
slot remembered for it as `player_id`, and a slot has one owner. For the
refinement a join that is accepted maps to `SignIn`, an end of sessions to
`SignOut`, everything else to a stutter; that the identity is free is again the
agreement of the tables.

**Tick loop** (`InputPipelineProofs`, first part, from `LoopAssumption`). `QueueInv`
relates queues, last numbers and the count; the count is the cardinality of the set
of queued inputs, which the order of each queue makes equal to the sum of the
lengths. The schedule part needs the two brackets of integer division, proved first
as lemmas. `AdvanceCatchesUp` is an action property derived from the invariant.

**Pipeline** (`InputPipelineProofs`, from `PipelineAssumption` too). The pipeline
implements `AuthoritativeLoop`: every step of clients, sessions and ticks is a step
of the loop or leaves it alone, so that what is proved of the loop holds in the
pipeline, which is what the run `input` checks. The inductive invariant `PInv` about
one client has four parts: `SessionInv` (what the server holds of the client),
`OutboxInv` (numbers on their way to it rise and are newer than what it has seen),
`InboxInv` (acknowledgements on their way back rise, lie between the one the client
has taken and the one the server holds, and start after the `join_accept`) and
`ClientInv` (the replayed inputs are the last consecutive numbers, all since the
acknowledgement or as many as the window holds). `ReplayExact` and `ClientIsHeard`
follow from it. `PipelineInv` says that the numbers along the way, from the client's
acknowledgement through its inbox, the server and the queue to the outbox, form a
rising chain; each link is a conjunct of `PInv`, and `RisingConcat` joins them. What
a tick drains and what is left of the window are recursive functions over sequences,
for which `LeastNumber` (a set of numbers has a least one, from the well-foundedness
of finite sets) takes the place of induction.

**Combat** (`CombatProofs`, from `CombatAssumption`). The inductive invariant `IInv`
joins `CombatInv`, `HitsAreCurrent`, `OneHitPerShot` and `DeathsAreFinal`. Each needs
another: that a shot has one hit rests on the shot numbers in flight being below
those queued (`ShotsOrdered`); that a death is to the credit of another player who is
here rests on the hits being current; that a death is reported once rests on health
and life agreeing. There is one lemma per action and one about `ApplyDamage`
(`DamageKeeps`), which both projectiles and hitscan shots go through.
`NoShotAfterDeath` is an action property derived from it: only a shot that is fired
raises a cooldown.

**Match** (`MatchLifecycleProofs`, from `MatchAssumption`). The inductive invariant
`MatchInv` joins `TypeOK`, `PhaseConsistent`, `BudgetFollowsDeaths` and
`RespawnsPendForTheDead` with one more fact: nobody is dead before the match. Without
it the start of the match, which clears every pending respawn, could leave a player
dead with nothing pending. There is one lemma per action; they rest on what each loop
of `resolve_tick` does to one record (`StruckRecord`, `WaitedRecord`) and then to all
of them (`ResolvedRecords`, `TickRecords`). `TimerExact` shows that the timer, taken
as a division, keeps less than a second in the accumulator. `ResultStands` is an
action property derived from the invariant. The deaths reported to a tick are
assumed to be of players who were alive, each reported once and killed by another
player: that is what `CombatProofs` shows of combat (`DeathsStayFinal`).
`ScoreboardAddsUp` is about the sums of two columns: they grow together because the
kills credited in a tick add up to the number of its victims, whoever killed how many
of them (`TotalOfCredit`, `ScoresGrowTogether`). `TheWinnerLeads` is an action property
too: a sole contender leads because `resolve_tick` counts everybody with an inventory
record as connected (`AllConnected`), so that all others are eliminated; the first of
the scoreboard leads because kills are compared first.

**Inventory** (`InventoryProofs`, from `InventoryAssumption`). The inductive invariant
joins `TypeOK` with three groups: treasures (`TreasuryInv`: each spawn id is in one
place, none is lost, the totals of a record are the sums of its items), the pickup
queues (`QueueInv`: counted, in order, only of players there are) and the dead
(`DeathInv`: who is dead has nothing, or its drop is still to come in this tick).
Adding and dropping an item are shown to add to and subtract from a sum over a
sequence. `InventoryInv`, `TreasuresConserved`, `TotalsExact` and `DeadCarryNothing`
follow.

**Main loop** (`GameServerProofs`, from `ServerAssumption`, which includes what
sessions and match assume of their constants). The steps of the loop on the session
and match tables are steps of those components, so that `SessionInv` and `MatchInv`
are taken over from `SessionManagerProofs` and `MatchLifecycleProofs` through the
instances. On top come the tables of the loop: sessions, combat, movement and match
are about the same players, and every session has a connection. `NewNamesFindRoom`
counts: with no more peers than slots, a peer that is not in a session leaves a slot
without an owner.

**Replication** (`WorldReplicationProofs`, from `WorldAssumption`). What a client will
know once it has read its packets (`Reading`) is what the server remembers having told
it (`ReplicaFollows`); it is inductive together with the facts that states belong to
sessions, one peer a player, that nothing known or on its way is ahead of the current
revision, and that a revision has one content. One lemma reads an appended packet
after the others, one reads the first of them early; the rest is about one update.

**Generation** (`ClientViewProofs`, from `GenerationAssumption`, which says of a
configured profile and of hashes only that they are numbers). The lemmas are proved for
integers of any size; the properties claim them where ints hold them (`SpacingFits`).
Spacing: places whose
cells are farther apart than the reach of the search are at least the spacing apart,
so that of two that are nearer each looks at the other's cell; ranks with cells as
tie-breakers are a total order, and the higher one yields. That distance needs that a
place stays strictly in its cell, which is what the clamp of the jitter is for. Chunks:
a column of a chunk that a structure covers, moved to the nearest one to the centre, is
still covered; if it lies within the radius, the margin of the search takes in the
cell (`GatherReaches`). Every finite set of places in different cells can be sorted in
exactly one way that matters (`SortedExists`), so that what a chunk gets depends on seed
and profile only, whatever was generated or removed before.

**Endpoint** (`ClientViewProofs`, from `EndpointAssumption`). `EndpointInv` and
`NothingIsLeft` say what holds unless two servers were at the files at once, or one was
killed or could not remove a file; a rename that fails is not excepted, but for the server
whose file its fallback removes (`last` forgets it then), and where it meets another
server at the files. The inductive invariant `EndpointIInv` has to say what holds in
spite of that, and what more holds without it. `EndpointForm` always holds: ports and start times tell
servers apart, and a stream is open in one place only, on an inode that is no longer
the temporary file if another server has renamed it away. `Undisturbed`: as long as no
two were busy with the files, who is busy finds them as it left them, one file operation
after the other. `LeftToSomebody`: as long as none was killed or could not
remove a file, and no refused rename met another server at the files, each file that is
there has a server that is on its way to rename or remove it; this is where the main
function compares the content with its own endpoint, so that a server that stops takes
away its own file and no other. That a fresh inode is always there is a count: no more
can be open than servers (`FreshIsFresh`).

**Event feed** (`ClientViewProofs`, from `FeedAssumption`). The inductive invariant
`FeedIInv` relates the server, the packets on their way and the client. For the phase,
the coins and the health it says that the last packet on its way that tells of them
tells them right, or, if there is none, they are shown right already (`Follows`,
`PhaseOnItsWay`, `StateOnItsWay`): what an earlier packet tells may be old, and is
overwritten. `PhaseFollows` and `HudFollows` are the case of an empty inbox.
`HitsShownOnce` is about a ring that forgets: a hit is told by a broadcast and again by
the snapshot at the end of its interval, and between the two its signature must not fall
out. Hits come interval by interval (`HitsInOrder`), so what has fallen out of the ring
is of no later interval than all in it (`RingInOrder`); a hit that is told again and is
not in the ring would therefore have a full ring of hits of its own interval after it,
which is more than there are (`FewHits`, under `RingHolds`:
`SnapshotInterval * MaxHitsPerTick <= RingSize`, which is no assumption of the module
but a condition of the property). `ToldIsComing` is the other half,
for any ring: every hit broadcast is shown or on its way.

**Telemetry** (`InputPipelineProofs`, last part, from `TelemetryAssumption`). The
inductive invariant `TelemetryIInv` says that the counters have counted the history
(`Counted`): each is the length, sum (of a phase, its own), peak or number of its kind in the ticks and
packets since the last report, and a report was built from counters that had counted a
whole window. It needs that the ring of durations does not forget within a window, which
is what `sanitize_config` is for (`TelemetryNumbers`). Then what `build_report` does with
such counters is shown (`ReportTells`). A sum over a finite set may be taken in any order
(`SumStep`, `SumOfRenamed`): `SumFunction` is a fold, whose iterates are shown to be those
of a function on the subsets that is unique (`IterExists`, `IterUnique`). Every sequence
can be sorted (`OrderExists`: the largest value goes last), sorting keeps the sum, the
largest value comes last (`SortedTells`), and the value at `percentile_index` is the
least that the percentile of the values does not exceed (`PercentileIs`, from the brackets
of the division in `PercentileBracket`).

Together the theorems state every safety property that the passing runs check: all
invariants, the action properties and the refinement. Only model-checked is liveness
(`MatchEnds`, `SilenceIsNoticed`, `ReplicaConverges`), which rests on fairness and is out
of the prover's reach, and the disagreement that `match_countdown` shows.

## Not modelled

Rendering, devices, terrain noise, hash functions, meshing, JSON, logging and
configuration parsing; the kinematics of movement and the geometry of rays, which
are floating point; the rules of one packet's format (`Protocol.cpp`), which have no
state: the model starts with a packet that has parsed, or counts one that has not.
The scripts and the load client test the program and are no part of it. A changed
block is sent to nobody: snapshots carry revisions of chunks and no blocks, so that a
client generates the chunk from the seed again and does not see the change, as
`docs/decision-log.md:36` has it for now; `WorldReplication` is about the revisions.
Of telemetry the phase timings other than two and the sizes of the state are left
out. `PROJECT.json` gives the reason for each component.

## Plan

Done: sessions, tick loop, combat, inventory, match, main loop; input pipeline, world
replication and generation, event feed, endpoint file, telemetry; proofs of every
safety property the runs check.

Left: the rules of `Protocol.cpp` and of the configuration, if they come to have state;
the pickup path of the client main loop; and a composition of `WorldReplication` with
`SessionManager` (its joins and departures are its own today).
