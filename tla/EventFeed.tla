------------------------------ MODULE EventFeed ------------------------------
(***************************************************************************)
(* What a player is shown of the fight and of the match: the events and    *)
(* packets a tick of the server main loop makes (CombatEvents.cpp, the     *)
(* broadcasts and snapshots of main.cpp), and what the client makes of     *)
(* them (AuthoritativeEventFeed, AuthoritativeHudModel,                    *)
(* WeaponFireEmitter and the packet loop of client/src/main.cpp).          *)
(*                                                                         *)
(* Everything is told twice: at once, in packets of its own, and again in  *)
(* the events and players of the next snapshot.                            *)
(*                                                                         *)
(* One player, Local, is followed, served by one client process after the  *)
(* other; its Rival is always there.  What combat and match decide is a    *)
(* free choice within their rules.  A hit costs one health.  Packets of a  *)
(* connection are reliable and ordered.                                    *)
(***************************************************************************)
EXTENDS Integers, Sequences, SequencesExt, FiniteSets, Maps

CONSTANTS
  StartingHealth,    \* combat.starting_health
  SnapshotInterval,  \* ticks from one snapshot to the next
  RingSize,          \* kMaxDamageSignatures
  BroadcastOnSnapshot,  \* runtime.match_state_broadcast_on_snapshot
  MaxHitsPerTick,    \* what the weapons allow
  Coins,             \* bound: what Local may carry
  MaxTick,           \* bound: ticks
  MaxShots, MaxRivalShots,   \* bounds: shots of the players
  MaxInbox           \* bound: packets the client may lag behind

Local == 1
Rival == 2
Players == {Local, Rival}
Other(p) == IF p = Local THEN Rival ELSE Local

ASSUME FeedAssumption ==
  /\ {StartingHealth, SnapshotInterval, RingSize} \subseteq Nat \ {0}
  /\ BroadcastOnSnapshot \in BOOLEAN
  /\ {MaxHitsPerTick, MaxTick, MaxShots, MaxRivalShots, MaxInbox} \subseteq Nat
  /\ 0 \in Coins /\ Coins \subseteq Nat

\* The feed remembers the hits of a whole snapshot interval.  Nothing ensures it:
\* snapshot_interval_ticks has no upper bound but that of its type, and neither has
\* the number of players that may hit in a tick; kMaxDamageSignatures is 64.
RingHolds == SnapshotInterval * MaxHitsPerTick <= RingSize

VARIABLES
  tick,
  phase,             \* of the match
  health,            \* CombatSimulation: player here -> health; 0 is dead
  last_shot_seq,     \* CombatSimulation: player -> last shot taken; partial
  flying,            \* shots taken that may still hit
  coins,             \* inventory of Local, which outlives its sessions
  pending_snapshot_events,
  in_session,        \* the server has a session for Local
  inbox, outbox,     \* packets on their way to the client, shots from it
  client,            \* "gone", "joining" or "joined"
  hud,
  feed,              \* last_match_state_ and recent_damage_signatures_
  next_shot_seq,
  seen_snapshot,     \* history: a snapshot was read in this session
  shown,             \* history: hit or death shown as a message -> how often
  told               \* history: the hits of this session

combat_vars == <<health, last_shot_seq, flying>>
server_vars == <<tick, phase, combat_vars, coins, pending_snapshot_events, in_session>>
client_vars == <<client, hud, feed, next_shot_seq, seen_snapshot, shown>>
feed_vars == <<server_vars, client_vars, inbox, outbox, told>>

BlankHud == [has_player_state |-> FALSE, health |-> 0, alive |-> TRUE,
             coins |-> 0, match_state |-> "unknown"]

BlankFeed == [last_match_state |-> "unknown", recent |-> <<>>]

FeedInit ==
  /\ tick = 0
  /\ phase = "pre_match"
  /\ health = Put(EmptyMap, Rival, StartingHealth)
  /\ last_shot_seq = Put(EmptyMap, Rival, 0)
  /\ flying = {}
  /\ coins = 0
  /\ pending_snapshot_events = <<>>
  /\ in_session = FALSE
  /\ inbox = <<>> /\ outbox = <<>>
  /\ client = "gone"
  /\ hud = BlankHud
  /\ feed = BlankFeed
  /\ next_shot_seq = 1
  /\ seen_snapshot = FALSE
  /\ shown = EmptyMap
  /\ told = {}

-----------------------------------------------------------------------------
(* Sessions and shots between two ticks *)

\* A new client process joins: it is told of the match at once.
Join ==
  /\ client = "gone" /\ ~in_session
  /\ client' = "joining"
  /\ in_session' = TRUE
  /\ health' = Emplace(health, Local, StartingHealth)
  /\ inbox' = <<[type |-> "join_accept"], [type |-> "match_state", state |-> phase]>>
  /\ outbox' = <<>>
  /\ told' = {}
  /\ UNCHANGED <<tick, phase, last_shot_seq, flying, coins,
                 pending_snapshot_events, hud, feed, next_shot_seq,
                 seen_snapshot, shown>>

\* A departure after which the shot numbers of the player are still known.
EndSessionKeepingShots ==
  /\ in_session
  /\ in_session' = FALSE
  /\ health' = Erase(health, {Local})
  /\ flying' = {}
  /\ UNCHANGED <<tick, phase, last_shot_seq, coins, pending_snapshot_events,
                 client_vars, inbox, outbox, told>>

\* Disconnect or timeout.  Combat forgets the player and all hits between it and
\* others; the events that are pending stay.
EndSession ==
  /\ in_session
  /\ in_session' = FALSE
  /\ health' = Erase(health, {Local})
  /\ last_shot_seq' = Erase(last_shot_seq, {Local})
  /\ flying' = {}
  /\ UNCHANGED <<tick, phase, coins, pending_snapshot_events, client_vars,
                 inbox, outbox, told>>

LastShot(p) == IF p \in DOMAIN last_shot_seq THEN last_shot_seq[p] ELSE 0

\* WeaponFire in time of a match: queued, or refused as out of order.
TakeShot(p, seq) ==
  IF phase = "in_match" /\ seq > LastShot(p)
  THEN /\ last_shot_seq' = Put(last_shot_seq, p, seq)
       /\ flying' = flying \cup {[attacker_id |-> p, shot_seq |-> seq]}
  ELSE UNCHANGED <<last_shot_seq, flying>>

ShotArrives ==
  /\ in_session
  /\ outbox # <<>>
  /\ outbox' = Tail(outbox)
  /\ TakeShot(Local, Head(outbox))
  /\ UNCHANGED <<tick, phase, health, coins, pending_snapshot_events,
                 in_session, client_vars, inbox, told>>

RivalShoots ==
  /\ LastShot(Rival) < MaxRivalShots
  /\ TakeShot(Rival, LastShot(Rival) + 1)
  /\ UNCHANGED <<tick, phase, health, coins, pending_snapshot_events,
                 in_session, client_vars, inbox, outbox, told>>

-----------------------------------------------------------------------------
(* One tick of the server *)

Earlier(g, h) ==
  \/ g.attacker_id < h.attacker_id
  \/ g.attacker_id = h.attacker_id /\ g.shot_seq < h.shot_seq

\* The order in which hits take effect.
InOrder(hits) ==
  CHOOSE s \in [1 .. Cardinality(hits) -> hits] :
    \A i, j \in DOMAIN s : i < j => Earlier(s[i], s[j])

Damage(hit, left) ==
  [type |-> "damage_event", tick |-> tick + 1,
   attacker_id |-> hit.attacker_id, victim_id |-> Other(hit.attacker_id),
   shot_seq |-> hit.shot_seq, victim_health |-> left, lethal |-> left = 0]

\* One more hit of a tick; nothing happens to the absent and the dead.
Land(fight, hit) ==
  LET victim == Other(hit.attacker_id)
  IN  IF victim \in DOMAIN fight.health /\ fight.health[victim] > 0
      THEN [health  |-> [fight.health EXCEPT ![victim] = @ - 1],
            damages |-> Append(fight.damages, Damage(hit, fight.health[victim] - 1))]
      ELSE fight

\* What the hits of a tick leave of everybody, and the damage events of those
\* that land.
Fight(hits) ==
  LET fight[i \in 0 .. Cardinality(hits)] ==
        IF i = 0 THEN [health |-> health, damages |-> <<>>]
        ELSE Land(fight[i - 1], InOrder(hits)[i])
  IN fight[Cardinality(hits)]

Death(damage) ==
  [type |-> "death_event", tick |-> damage.tick,
   victim_id |-> damage.victim_id, killer_id |-> damage.attacker_id]

Deaths(damages) ==
  FlattenSeq([i \in DOMAIN damages |->
                IF damages[i].lethal THEN <<Death(damages[i])>> ELSE <<>>])

\* append_combat_outputs, for the snapshot; the damages also go out at once.
CombatOutputs(damages) == damages \o Deaths(damages)

HealthAfter(left, respawned) ==
  [p \in DOMAIN left |-> IF p \in respawned THEN StartingHealth ELSE left[p]]

\* What resolve_tick of the match may make of a phase.
NextPhases ==
  [pre_match  |-> {"pre_match", "in_match", "post_match"},
   in_match   |-> {"in_match", "post_match"},
   post_match |-> {"post_match"}]

\* state_changed: also when the countdown starts over.
MayAnnounce(new, changed) ==
  /\ new # phase => changed
  /\ new = phase /\ phase # "pre_match" => ~changed

Respawn(p, respawned) ==
  IF p \in respawned
  THEN <<[type |-> "respawn_event", tick |-> tick + 1, player_id |-> p]>> ELSE <<>>

\* The events of the tick, in the order the loop adds them.
TickEvents(respawned, new, changed, damages) ==
  Respawn(Local, respawned) \o Respawn(Rival, respawned)
    \o (IF changed THEN <<[type |-> "match_state_changed", tick |-> tick + 1,
                           state |-> new]>> ELSE <<>>)
    \o CombatOutputs(damages)

SnapshotDue == (tick + 1) % SnapshotInterval = 0

InventoryUpdate(value) ==
  IF value # coins THEN <<[type |-> "inventory_update", coins |-> value]>> ELSE <<>>

MatchState(new, changed) ==
  IF changed \/ (SnapshotDue /\ BroadcastOnSnapshot)
  THEN <<[type |-> "match_state", state |-> new]>> ELSE <<>>

\* The snapshot is built from the states after the tick.
Snapshot(new_health, value, new, events) ==
  IF SnapshotDue
  THEN <<[type |-> "state_snapshot", health |-> new_health[Local], coins |-> value,
          events |-> events, match_state |-> new]>>
  ELSE <<>>

\* landed, respawned, value, new and changed are what combat, match and inventory
\* decide.
Tick(landed, respawned, value, new, changed) ==
  LET damages == Fight(landed).damages
      events  == pending_snapshot_events \o TickEvents(respawned, new, changed, damages)
      after   == HealthAfter(Fight(landed).health, respawned)
  IN /\ tick < MaxTick
     /\ Len(inbox) <= MaxInbox
     /\ MayAnnounce(new, changed)
     /\ tick' = tick + 1
     /\ phase' = new
     /\ health' = after
     /\ flying' = {h \in flying \ landed : Other(h.attacker_id) \notin respawned}
     /\ coins' = value
     /\ pending_snapshot_events' = IF SnapshotDue THEN <<>> ELSE events
     /\ told' = IF in_session THEN told \cup Range(damages) ELSE told
     /\ inbox' = IF in_session /\ client # "gone"
                 THEN inbox \o damages \o InventoryUpdate(value)
                        \o MatchState(new, changed)
                        \o Snapshot(after, value, new, events)
                 ELSE inbox
     /\ UNCHANGED <<last_shot_seq, in_session, client_vars, outbox>>

-----------------------------------------------------------------------------
(* AuthoritativeEventFeed *)

\* A signature that does not tell who hit whom.
SignatureOfShot(damage) == <<damage.tick, 0, 0, damage.shot_seq>>

Signature(damage) ==
  <<damage.tick, damage.attacker_id, damage.victim_id, damage.shot_seq>>

\* remember_damage: the oldest signature falls out.
Remember(recent, signature) ==
  IF Len(recent) < RingSize THEN Append(recent, signature)
  ELSE Append(Tail(recent), signature)

Show(messages, event) ==
  Put(messages, event, IF event \in DOMAIN messages THEN messages[event] + 1 ELSE 1)

\* What the feed and the messages shown so far are after one more event; of two
\* equal phases in a row the second says nothing, of other events neither.
Consume(state, event) ==
  CASE event.type = "damage_event" ->
         IF Signature(event) \in Range(state.recent) THEN state
         ELSE [state EXCEPT !.recent = Remember(@, Signature(event)),
                            !.shown = Show(@, event)]
    [] event.type = "death_event" -> [state EXCEPT !.shown = Show(@, event)]
    [] event.type \in {"match_state_changed", "match_state"} ->
         [state EXCEPT !.last_match_state = event.state]
    [] OTHER -> state

Consumed(events) ==
  LET state[i \in 0 .. Len(events)] ==
        IF i = 0 THEN [last_match_state |-> feed.last_match_state,
                       recent |-> feed.recent, shown |-> shown]
        ELSE Consume(state[i - 1], events[i])
  IN state[Len(events)]

Feed(events) ==
  /\ feed' = [last_match_state |-> Consumed(events).last_match_state,
              recent |-> Consumed(events).recent]
  /\ shown' = Consumed(events).shown

-----------------------------------------------------------------------------
(* AuthoritativeHudModel *)

ApplySnapshot(snapshot) ==
  [has_player_state |-> TRUE, health |-> snapshot.health,
   alive |-> snapshot.health > 0, coins |-> snapshot.coins,
   match_state |-> snapshot.match_state]

ApplyInventoryUpdate(packet) ==
  [hud EXCEPT !.has_player_state = TRUE, !.coins = packet.coins]

\* A HUD that takes every hit for one on Local.
ApplyDamageEventOfAnybody(damage) ==
  [hud EXCEPT !.has_player_state = TRUE, !.health = damage.victim_health,
              !.alive = ~damage.lethal]

ApplyDamageEvent(damage) ==
  IF damage.victim_id = Local
  THEN [hud EXCEPT !.has_player_state = TRUE, !.health = damage.victim_health,
                   !.alive = ~damage.lethal]
  ELSE hud

\* A HUD that does not listen to the reliable match state.
ApplyMatchStateLate(packet) == hud

ApplyMatchState(packet) == [hud EXCEPT !.match_state = packet.state]

-----------------------------------------------------------------------------
(* The client main loop *)

\* JoinAccept: everything known of an earlier session is forgotten.
Reset ==
  /\ client' = "joined"
  /\ hud' = BlankHud
  /\ feed' = BlankFeed
  /\ next_shot_seq' = 1
  /\ seen_snapshot' = FALSE
  /\ shown' = EmptyMap

\* The client reads its next packet.
Receive ==
  LET packet == Head(inbox)
  IN /\ inbox # <<>>
     /\ inbox' = Tail(inbox)
     /\ \/ packet.type = "join_accept" /\ Reset
        \/ /\ packet.type = "state_snapshot"
           /\ hud' = ApplySnapshot(packet)
           /\ seen_snapshot' = TRUE
           /\ Feed(packet.events)
           /\ UNCHANGED <<client, next_shot_seq>>
        \/ /\ packet.type = "inventory_update"
           /\ hud' = ApplyInventoryUpdate(packet)
           /\ UNCHANGED <<client, feed, next_shot_seq, seen_snapshot, shown>>
        \/ /\ packet.type = "damage_event"
           /\ hud' = ApplyDamageEvent(packet)
           /\ Feed(<<packet>>)
           /\ UNCHANGED <<client, next_shot_seq, seen_snapshot>>
        \/ /\ packet.type = "match_state"
           /\ hud' = ApplyMatchState(packet)
           /\ Feed(<<packet>>)
           /\ UNCHANGED <<client, next_shot_seq, seen_snapshot>>
     /\ UNCHANGED <<server_vars, outbox, told>>

\* WeaponFireEmitter numbers the shot.
Emit ==
  /\ next_shot_seq <= MaxShots
  /\ next_shot_seq' = next_shot_seq + 1

\* The fire button: the shot is emitted and sent.
Fire ==
  /\ client = "joined"
  /\ Emit
  /\ outbox' = Append(outbox, next_shot_seq)
  /\ UNCHANGED <<server_vars, client, hud, feed, seen_snapshot, shown, inbox, told>>

\* The client process ends; shots on their way may still arrive.
Quit ==
  /\ client # "gone"
  /\ client' = "gone"
  /\ hud' = BlankHud
  /\ feed' = BlankFeed
  /\ next_shot_seq' = 1
  /\ seen_snapshot' = FALSE
  /\ shown' = EmptyMap
  /\ inbox' = <<>>
  /\ UNCHANGED <<server_vars, outbox, told>>

-----------------------------------------------------------------------------
Dead == {p \in DOMAIN health : health[p] = 0}

FeedNext ==
  \/ Join
  \/ EndSession
  \/ ShotArrives
  \/ RivalShoots
  \/ \E landed \in {s \in SUBSET flying : Cardinality(s) <= MaxHitsPerTick},
        respawned \in SUBSET (IF phase = "in_match" THEN Dead ELSE {}),
        value \in IF in_session THEN Coins ELSE {coins},
        new \in NextPhases[phase], changed \in BOOLEAN :
       Tick(landed, respawned, value, new, changed)
  \/ Receive
  \/ Fire
  \/ Quit

FeedSpec == FeedInit /\ [][FeedNext]_feed_vars

-----------------------------------------------------------------------------
(* Properties *)

Phases == {"pre_match", "in_match", "post_match"}

\* The type invariant.
FeedTypes ==
  /\ tick \in 0 .. MaxTick
  /\ phase \in Phases
  /\ DOMAIN health = IF in_session THEN Players ELSE {Rival}
  /\ Range(health) \subseteq 0 .. StartingHealth
  /\ Range(last_shot_seq) \subseteq Nat
  /\ coins \in Coins
  /\ client \in {"gone", "joining", "joined"}
  /\ hud.health \in 0 .. StartingHealth
  /\ {hud.match_state, feed.last_match_state} \subseteq Phases \cup {"unknown"}
  /\ Len(feed.recent) <= RingSize
  /\ next_shot_seq \in 1 .. MaxShots + 1
  /\ Range(shown) \subseteq Nat \ {0}

\* The server never takes a shot of the client for an old one: who comes back and
\* counts from 1 again is heard at once (CombatSimulation::remove_player against
\* WeaponFireEmitter::reset).
ShotsAreHeard ==
  in_session /\ outbox # <<>> => Head(outbox) > LastShot(Local)

\* Both ends are in order.
FeedInv == FeedTypes /\ ShotsAreHeard

\* Every hit of the session is shown, and, where the ring of signatures is large
\* enough for the configured snapshots, none twice, although each comes in a
\* packet of its own and again in a snapshot, and hits of different players, of
\* one tick and of earlier sessions look much alike (is_duplicate_damage).
HitsShownOnce ==
  /\ RingHolds =>
       \A event \in DOMAIN shown :
         event.type = "damage_event" => shown[event] = 1
  /\ client = "joined" /\ in_session /\ inbox = <<>> => told \subseteq DOMAIN shown

\* When nothing is on its way to it, the client shows the phase the match is in,
\* in the HUD and in the feed, which reads of every change twice and of several
\* changes in one snapshot.
PhaseFollows ==
  client = "joined" /\ in_session /\ inbox = <<>>
    => hud.match_state = phase /\ feed.last_match_state = phase

\* And it shows the player as it is, from the first snapshot on: loot and hits at
\* once, a respawn, which has no packet of its own, with the next snapshot.
\* Whatever falls into one interval is applied in an order that ends there.
HudFollows ==
  client = "joined" /\ in_session /\ inbox = <<>> /\ seen_snapshot
    => /\ hud.has_player_state
       /\ hud.coins = coins
       /\ \/ hud.health = health[Local] /\ hud.alive = (health[Local] > 0)
          \/ \E event \in Range(pending_snapshot_events) :
               event.type = "respawn_event" /\ event.player_id = Local

\* docs/project-status.md:1262 calls damage confirmations and elimination events
\* deduplicated over the reliable and the snapshot stream: who is killed is
\* shown that once.
EliminationShownOnce ==
  \A death \in DOMAIN shown :
    death.type = "death_event"
      => \A hit \in DOMAIN shown :
           ~ /\ hit.type = "damage_event" /\ hit.lethal
             /\ hit.tick = death.tick /\ hit.victim_id = death.victim_id
=============================================================================
