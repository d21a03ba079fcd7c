-------------------------- MODULE CombatSimulation --------------------------
(***************************************************************************)
(* server/src/CombatSimulation.cpp: queued shots, cooldowns, projectiles   *)
(* in flight, health and death.                                            *)
(*                                                                         *)
(* resolve_tick is cut into the iterations of its two loops, with `phase'  *)
(* as program counter; nothing else runs before it is back to "idle".      *)
(* Positions and aim are left out: a ray may hit any player the code lets  *)
(* it hit, or nobody.  Ticks are relative: a cooldown and a projectile     *)
(* count the ticks that remain (next_fire_tick - tick, resolve_tick -      *)
(* tick); resolve_tick runs once for every tick.                           *)
(***************************************************************************)
EXTENDS Integers, Sequences, SequencesExt, Maps

CONSTANTS
  MaxPlayers,        \* player ids are 1 .. MaxPlayers
  Weapons,           \* ids in the weapon table
  HitscanWeapons,    \* those classify_weapon calls Hitscan
  UnknownWeapon,     \* any id that is not in the table
  Damage,            \* weapon -> damage per hit
  CooldownTicks,     \* weapon -> cooldown_ticks(rate_of_fire)
  MaxTravelTicks,    \* bound: ticks a projectile flies
  StartingHealth,    \* CombatConfig::starting_health
  MaxShotSeq,        \* bound: shot sequence numbers a client may send
  MaxQueue,          \* bound: shots a player queues between two ticks
  MaxLives           \* bound: lives of one player id

ASSUME CombatAssumption ==
  /\ MaxPlayers \in Nat
  /\ HitscanWeapons \subseteq Weapons
  /\ UnknownWeapon \notin Weapons
  /\ Damage \in [Weapons -> Nat]
  /\ CooldownTicks \in [Weapons -> Nat \ {0}]
  /\ MaxTravelTicks \in Nat
  /\ StartingHealth \in Nat \ {0}
  /\ MaxShotSeq \in Nat
  /\ MaxQueue \in Nat
  /\ MaxLives \in Nat

VARIABLES
  players,                   \* player -> health, alive, last_shot_seq; partial
  fire_queue_by_player,      \* player -> queued shots, oldest first
  last_shot_seq_by_player,   \* player -> last shot_seq accepted; partial
  cooldown,                  \* player -> ticks before its next shot
  pending_projectiles,       \* hits on their way
  death_events,              \* the deaths of the current tick, in order
  phase,                     \* where resolve_tick stands
  life                       \* history: how many lives of the id have ended

queue_vars == <<fire_queue_by_player, last_shot_seq_by_player>>
vars == <<players, queue_vars, cooldown, pending_projectiles, death_events,
          phase, life>>

Players == 1 .. MaxPlayers
ShotSeqs == 0 .. MaxShotSeq

Alive(p) == p \in DOMAIN players /\ players[p].alive

NewPlayer == [health |-> StartingHealth, alive |-> TRUE, last_shot_seq |-> 0]

Init ==
  /\ players = EmptyMap
  /\ fire_queue_by_player = [p \in Players |-> <<>>]
  /\ last_shot_seq_by_player = EmptyMap
  /\ cooldown = [p \in Players |-> 0]
  /\ pending_projectiles = {}
  /\ death_events = <<>>
  /\ phase = "idle"
  /\ life = [p \in Players |-> 0]

-----------------------------------------------------------------------------
(* Calls between two ticks *)

EnsurePlayer(p) ==
  /\ phase = "idle"
  /\ players' = Emplace(players, p, NewPlayer)
  /\ UNCHANGED <<queue_vars, cooldown, pending_projectiles, death_events,
                 phase, life>>

HitsInvolving(p) ==
  {h \in pending_projectiles : h.attacker_id = p \/ h.victim_id = p}

\* A removal that keeps the shots the player has queued.
RemovePlayerKeepingShots(p) ==
  /\ phase = "idle"
  /\ life[p] < MaxLives
  /\ players' = Erase(players, {p})
  /\ last_shot_seq_by_player' = Erase(last_shot_seq_by_player, {p})
  /\ cooldown' = [cooldown EXCEPT ![p] = 0]
  /\ pending_projectiles' = pending_projectiles \ HitsInvolving(p)
  /\ life' = [life EXCEPT ![p] = @ + 1]
  /\ UNCHANGED <<fire_queue_by_player, death_events, phase>>

\* remove_player: everything about the player, in both directions.
RemovePlayer(p) ==
  /\ phase = "idle"
  /\ life[p] < MaxLives
  /\ players' = Erase(players, {p})
  /\ fire_queue_by_player' = [fire_queue_by_player EXCEPT ![p] = <<>>]
  /\ last_shot_seq_by_player' = Erase(last_shot_seq_by_player, {p})
  /\ cooldown' = [cooldown EXCEPT ![p] = 0]
  /\ pending_projectiles' = pending_projectiles \ HitsInvolving(p)
  /\ life' = [life EXCEPT ![p] = @ + 1]
  /\ UNCHANGED <<death_events, phase>>

\* A respawn that leaves the hits on their way to the player.
RespawnPlayerUncleared(p) ==
  /\ phase = "idle"
  /\ life[p] < MaxLives
  /\ players' = Put(players, p,
                    [(IF p \in DOMAIN players THEN players[p] ELSE NewPlayer)
                       EXCEPT !.health = StartingHealth, !.alive = TRUE])
  /\ life' = [life EXCEPT ![p] = @ + 1]
  /\ UNCHANGED <<queue_vars, cooldown, pending_projectiles, death_events, phase>>

\* respawn_player: the shots queued and the cooldown outlive the death.
RespawnPlayer(p) ==
  /\ phase = "idle"
  /\ life[p] < MaxLives
  /\ players' = Put(players, p,
                    [(IF p \in DOMAIN players THEN players[p] ELSE NewPlayer)
                       EXCEPT !.health = StartingHealth, !.alive = TRUE])
  /\ pending_projectiles' = {h \in pending_projectiles : h.victim_id # p}
  /\ life' = [life EXCEPT ![p] = @ + 1]
  /\ UNCHANGED <<queue_vars, cooldown, death_events, phase>>

\* An ordering test that forgets the shots already resolved.
FireOutOfOrderQueueOnly(p, seq) ==
  /\ fire_queue_by_player[p] # <<>>
  /\ seq <= Last(fire_queue_by_player[p]).shot_seq

FireOutOfOrder(p, seq) ==
  \/ /\ p \in DOMAIN last_shot_seq_by_player
     /\ seq <= last_shot_seq_by_player[p]
  \/ /\ fire_queue_by_player[p] # <<>>
     /\ seq <= Last(fire_queue_by_player[p]).shot_seq

\* enqueue_fire, Accepted.  The queue itself has no limit.
FireAccepted(p, seq, weapon) ==
  /\ phase = "idle"
  /\ Len(fire_queue_by_player[p]) < MaxQueue
  /\ weapon \in Weapons
  /\ ~FireOutOfOrder(p, seq)
  /\ fire_queue_by_player' = [fire_queue_by_player EXCEPT
       ![p] = Append(@, [shot_seq |-> seq, weapon_id |-> weapon])]
  /\ last_shot_seq_by_player' = Put(last_shot_seq_by_player, p, seq)
  /\ players' = Emplace(players, p, NewPlayer)
  /\ UNCHANGED <<cooldown, pending_projectiles, death_events, phase, life>>

\* enqueue_fire, UnknownWeapon or OutOfOrder.
FireDropped(p, seq, weapon) ==
  /\ phase = "idle"
  /\ weapon \notin Weapons \/ FireOutOfOrder(p, seq)
  /\ UNCHANGED vars

-----------------------------------------------------------------------------
(* resolve_tick *)

\* A new tick: what remains of cooldowns and flights is one tick less.
BeginTick ==
  /\ phase = "idle"
  /\ phase' = "projectiles"
  /\ cooldown' = [p \in Players |-> IF cooldown[p] = 0 THEN 0 ELSE cooldown[p] - 1]
  /\ pending_projectiles' =
       {[h EXCEPT !.delay = IF @ = 0 THEN 0 ELSE @ - 1] : h \in pending_projectiles}
  /\ death_events' = <<>>
  /\ UNCHANGED <<players, queue_vars, life>>

\* A damage step that hurts the dead once more.
ApplyDamageUnchecked(attacker, victim, weapon, state) ==
  LET left == IF state[victim].health < Damage[weapon]
              THEN 0 ELSE state[victim].health - Damage[weapon]
  IN  IF victim \in DOMAIN state /\ Damage[weapon] > 0
      THEN /\ players' = [state EXCEPT ![victim].health = left,
                                       ![victim].alive = left # 0]
           /\ death_events' = IF left # 0 THEN death_events
                ELSE Append(death_events, [victim_id |-> victim,
                                           attacker_id |-> attacker])
      ELSE players' = state /\ UNCHANGED death_events

\* apply_damage: nothing happens to a player who is gone or dead; the blow that
\* takes the last health is the one reported as the death.
ApplyDamage(attacker, victim, weapon, state) ==
  LET left == IF state[victim].health < Damage[weapon]
              THEN 0 ELSE state[victim].health - Damage[weapon]
  IN  IF victim \in DOMAIN state /\ state[victim].alive /\ Damage[weapon] > 0
      THEN /\ players' = [state EXCEPT ![victim].health = left,
                                       ![victim].alive = left # 0]
           /\ death_events' = IF left # 0 THEN death_events
                ELSE Append(death_events, [victim_id |-> victim,
                                           attacker_id |-> attacker])
      ELSE players' = state /\ UNCHANGED death_events

Due == {h \in pending_projectiles : h.delay = 0}

\* The order in which resolve_projectiles sorts the hits of one tick.
Before(g, h) ==
  \/ g.attacker_id < h.attacker_id
  \/ g.attacker_id = h.attacker_id /\ g.shot_seq < h.shot_seq
  \/ /\ g.attacker_id = h.attacker_id /\ g.shot_seq = h.shot_seq
     /\ g.victim_id <= h.victim_id

\* One iteration of resolve_projectiles.
ProjectileLands ==
  /\ phase = "projectiles"
  /\ \E h \in Due :
       /\ \A g \in Due : Before(h, g)
       /\ pending_projectiles' = pending_projectiles \ {h}
       /\ ApplyDamage(h.attacker_id, h.victim_id, h.weapon_id, players)
  /\ UNCHANGED <<queue_vars, cooldown, phase, life>>

ProjectilesDone ==
  /\ phase = "projectiles"
  /\ Due = {}
  /\ phase' = "fires"
  /\ UNCHANGED <<players, queue_vars, cooldown, pending_projectiles,
                 death_events, life>>

\* drain_fire_commands_deterministic: by player id, then in queue order.
NextShooter(p) ==
  /\ fire_queue_by_player[p] # <<>>
  /\ \A q \in Players : fire_queue_by_player[q] # <<>> => p <= q

Dequeue(p) ==
  fire_queue_by_player' = [fire_queue_by_player EXCEPT ![p] = Tail(@)]

\* A shooter of whom nobody asks whether it is alive.
MayShootWhenDead(p) == p \in DOMAIN players /\ cooldown[p] = 0

MayShoot(p) == Alive(p) /\ cooldown[p] = 0

\* The shooter is gone, dead or still cooling down: the shot is lost.
ShotSkipped(p) ==
  /\ phase = "fires"
  /\ NextShooter(p)
  /\ ~MayShoot(p)
  /\ Dequeue(p)
  /\ UNCHANGED <<players, last_shot_seq_by_player, cooldown,
                 pending_projectiles, death_events, phase, life>>

\* The players a ray of p may hit; raycast_victim picks the nearest in line.
Targets(p) == {v \in DOMAIN players : v # p /\ players[v].alive}

Fired(p, shot) ==
  [players EXCEPT ![p].last_shot_seq =
     IF @ < shot.shot_seq THEN shot.shot_seq ELSE @]

\* The shot leaves the barrel and hits nobody, hits at once (hitscan), or sends
\* a projectile that will hit its victim wherever it has moved by then.
ShotFired(p) ==
  /\ phase = "fires"
  /\ NextShooter(p)
  /\ MayShoot(p)
  /\ LET shot == Head(fire_queue_by_player[p])
     IN  /\ Dequeue(p)
         /\ cooldown' = [cooldown EXCEPT ![p] = CooldownTicks[shot.weapon_id]]
         /\ \/ /\ players' = Fired(p, shot)
               /\ UNCHANGED <<pending_projectiles, death_events>>
            \/ \E victim \in Targets(p) :
                 /\ shot.weapon_id \in HitscanWeapons
                 /\ ApplyDamage(p, victim, shot.weapon_id, Fired(p, shot))
                 /\ UNCHANGED pending_projectiles
            \/ \E victim \in Targets(p), delay \in 1 .. MaxTravelTicks :
                 /\ shot.weapon_id \notin HitscanWeapons
                 /\ players' = Fired(p, shot)
                 /\ pending_projectiles' = pending_projectiles \cup
                      {[delay |-> delay, attacker_id |-> p, victim_id |-> victim,
                        shot_seq |-> shot.shot_seq, weapon_id |-> shot.weapon_id,
                        life |-> life[victim]]}
                 /\ UNCHANGED death_events
  /\ UNCHANGED <<last_shot_seq_by_player, phase, life>>

FiresDone ==
  /\ phase = "fires"
  /\ \A p \in Players : fire_queue_by_player[p] = <<>>
  /\ phase' = "idle"
  /\ UNCHANGED <<players, queue_vars, cooldown, pending_projectiles,
                 death_events, life>>

ResolveTick ==
  \/ BeginTick
  \/ ProjectileLands
  \/ ProjectilesDone
  \/ \E p \in Players : ShotSkipped(p) \/ ShotFired(p)
  \/ FiresDone

Next ==
  \/ \E p \in Players :
       \/ EnsurePlayer(p)
       \/ RemovePlayer(p)
       \/ RespawnPlayer(p)
       \/ \E seq \in ShotSeqs, weapon \in Weapons \cup {UnknownWeapon} :
            FireAccepted(p, seq, weapon) \/ FireDropped(p, seq, weapon)
  \/ ResolveTick

Spec == Init /\ [][Next]_vars

-----------------------------------------------------------------------------
(* Properties *)

Shot == [shot_seq : ShotSeqs, weapon_id : Weapons]

Hit == [delay : 0 .. MaxTravelTicks, attacker_id : Players, victim_id : Players,
        shot_seq : ShotSeqs, weapon_id : Weapons, life : 0 .. MaxLives]

\* Every variable holds values of its kind.
TypeOK ==
  /\ DOMAIN players \subseteq Players
  /\ players \in [DOMAIN players ->
       [health : 0 .. StartingHealth, alive : BOOLEAN, last_shot_seq : ShotSeqs]]
  /\ fire_queue_by_player \in [Players -> Seq(Shot)]
  /\ DOMAIN last_shot_seq_by_player \subseteq Players
  /\ last_shot_seq_by_player \in [DOMAIN last_shot_seq_by_player -> ShotSeqs]
  /\ cooldown \in [Players -> Nat]
  /\ pending_projectiles \in SUBSET Hit
  /\ death_events \in Seq([victim_id : Players, attacker_id : Players])
  /\ phase \in {"idle", "projectiles", "fires"}
  /\ life \in [Players -> 0 .. MaxLives]

\* Being alive and having health left are kept in two fields by three functions
\* and never come apart: nobody is unkillable at zero, nobody dead with health.
AliveMeansHealthy ==
  \A p \in DOMAIN players : players[p].alive <=> players[p].health > 0

\* A hit on its way belongs to two different players who are still here, and to
\* the life of the victim at which it was shot: neither a respawn nor a player
\* who leaves and comes back is hit by a projectile of the life before
\* (docs/changelog.md:229).
HitsAreCurrent ==
  \A h \in pending_projectiles :
    /\ {h.attacker_id, h.victim_id} \subseteq DOMAIN players
    /\ h.attacker_id # h.victim_id
    /\ h.life = life[h.victim_id]

\* One shot sends at most one projectile, whatever is queued, removed and sent
\* again: the order in which due hits are sorted is then a total one.
OneHitPerShot ==
  \A g, h \in pending_projectiles :
    g.attacker_id = h.attacker_id /\ g.shot_seq = h.shot_seq => g = h

\* What a player has queued is strictly increasing, ends with the last shot_seq
\* accepted and comes after every shot of the player that is still in flight;
\* what was accepted stays remembered as long as the player does.
ShotsOrdered ==
  \A p \in Players :
    LET queue == fire_queue_by_player[p]
    IN  /\ \A i, j \in 1 .. Len(queue) :
             i < j => queue[i].shot_seq < queue[j].shot_seq
        /\ queue # <<>> =>
             /\ p \in DOMAIN last_shot_seq_by_player
             /\ Last(queue).shot_seq = last_shot_seq_by_player[p]
        /\ \A h \in pending_projectiles : h.attacker_id = p =>
             /\ p \in DOMAIN last_shot_seq_by_player
             /\ h.shot_seq <= last_shot_seq_by_player[p]
             /\ \A i \in 1 .. Len(queue) : h.shot_seq < queue[i].shot_seq

\* What the match counts: while a tick is resolved everybody it reports dead is
\* dead, is reported once, and was killed by another player who is here.
DeathsAreFinal ==
  /\ phase # "idle" => \A i \in DOMAIN death_events :
       /\ ~Alive(death_events[i].victim_id)
       /\ death_events[i].attacker_id \in DOMAIN players \ {death_events[i].victim_id}
  /\ \A i, j \in DOMAIN death_events :
       death_events[i].victim_id = death_events[j].victim_id => i = j

\* Nobody shoots in the tick in which it was killed, in whatever order the hits
\* of the tick fall: the shots it had queued are lost.
NoShotAfterDeath ==
  [][\A p \in Players : cooldown'[p] > cooldown[p] =>
       \A i \in DOMAIN death_events : death_events[i].victim_id # p]_vars

\* The bookkeeping of the simulation: what its tables hold of players, health and
\* queued shots fits together between any two of its steps.
CombatInv == TypeOK /\ AliveMeansHealthy /\ ShotsOrdered
=============================================================================
