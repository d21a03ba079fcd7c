---------------------------- MODULE CombatProofs ----------------------------
(***************************************************************************)
(* CombatSimulation for any number of players, any weapons, health, queue  *)
(* and number of lives: its tables agree, a projectile belongs to the life *)
(* it was shot at, and a death is final.                                   *)
(***************************************************************************)
EXTENDS CombatSimulation, TLAPS

USE CombatAssumption

PlayerState == [health : 0 .. StartingHealth, alive : BOOLEAN, last_shot_seq : ShotSeqs]
Death == [victim_id : Players, attacker_id : Players]

\* What a table of players looks like: life and health agree.
Healthy(state) ==
  /\ DOMAIN state \subseteq Players
  /\ state \in [DOMAIN state -> PlayerState]
  /\ \A p \in DOMAIN state : state[p].alive <=> state[p].health > 0

\* The strengthening that makes the invariants inductive: a hit knows its
\* attacker and its life, which is what a death is reported with.
IInv == CombatInv /\ HitsAreCurrent /\ OneHitPerShot /\ DeathsAreFinal

\* The table of players is healthy.
LEMMA IInvTypes == ASSUME IInv PROVE TypeOK /\ Healthy(players)
  BY DEF IInv, CombatInv, TypeOK, AliveMeansHealthy, Healthy, PlayerState

\* AliveMeansHealthy is one part of a healthy table.
LEMMA HealthyIsAll == ASSUME Healthy(players)' PROVE AliveMeansHealthy'
  BY DEF Healthy, AliveMeansHealthy

\* So is a player who is new.
LEMMA NewPlayerHealthy ==
  NewPlayer \in PlayerState /\ NewPlayer.alive /\ NewPlayer.health > 0
BY DEF NewPlayer, PlayerState, ShotSeqs

\* Health and life are given back together.
LEMMA Revived ==
  ASSUME NEW s \in PlayerState
  PROVE  LET new == [s EXCEPT !.health = StartingHealth, !.alive = TRUE]
         IN  new \in PlayerState /\ new.alive /\ new.health > 0
<1>1. StartingHealth \in 0 .. StartingHealth /\ StartingHealth > 0
  BY CombatAssumption
<1>2. [s EXCEPT !.health = StartingHealth, !.alive = TRUE] \in PlayerState
  BY <1>1, Zenon DEF PlayerState
<1> QED
  BY <1>1, <1>2 DEF PlayerState

\* Writing one healthy record leaves a healthy table.
LEMMA PutHealthy ==
  ASSUME NEW state, Healthy(state), NEW p \in Players, NEW s \in PlayerState,
         s.alive <=> s.health > 0
  PROVE  Healthy(Put(state, p, s))
BY DEF Healthy, Put

\* Making a player who may be there already.
LEMMA EmplaceHealthy ==
  ASSUME NEW state, Healthy(state), NEW p \in Players
  PROVE  /\ Healthy(Emplace(state, p, NewPlayer))
         /\ DOMAIN Emplace(state, p, NewPlayer) = DOMAIN state \cup {p}
<1>1. CASE p \in DOMAIN state
  BY <1>1 DEF Emplace
<1>2. CASE p \notin DOMAIN state
  <2>1. Healthy(Put(state, p, NewPlayer))
    BY PutHealthy, NewPlayerHealthy
  <2>2. DOMAIN Put(state, p, NewPlayer) = DOMAIN state \cup {p}
    BY DEF Put
  <2> QED
    BY <1>2, <2>1, <2>2 DEF Emplace
<1> QED
  BY <1>1, <1>2

-----------------------------------------------------------------------------
(* Calls between two ticks *)

\* Nothing of a tick under way can be disturbed while none is.
LEMMA IdleDeaths ==
  ASSUME DeathsAreFinal, phase = "idle", phase' = "idle", UNCHANGED death_events
  PROVE  DeathsAreFinal'
BY DEF DeathsAreFinal

\* A new player is nobody's target yet, and nobody's victim.
LEMMA EnsureKeepsIInv ==
  ASSUME IInv, NEW p \in Players, EnsurePlayer(p)
  PROVE  IInv'
<1>1. TypeOK /\ Healthy(players)
  BY IInvTypes
<1>2. Healthy(players)' /\ DOMAIN players' = DOMAIN players \cup {p}
  BY <1>1, EmplaceHealthy DEF EnsurePlayer, Healthy
<1>3. TypeOK'
  BY <1>1, <1>2 DEF EnsurePlayer, TypeOK, Healthy, PlayerState, queue_vars
<1>4. ShotsOrdered'
  BY DEF EnsurePlayer, IInv, CombatInv, ShotsOrdered, queue_vars
<1>5. HitsAreCurrent' /\ OneHitPerShot'
  BY <1>2 DEF EnsurePlayer, IInv, HitsAreCurrent, OneHitPerShot
<1>6. DeathsAreFinal'
  BY IdleDeaths DEF EnsurePlayer, IInv
<1> QED
  BY <1>2, <1>3, <1>4, <1>5, <1>6, HealthyIsAll DEF IInv, CombatInv

\* With a player go its hits, its shots and their numbers.
LEMMA RemoveKeepsIInv ==
  ASSUME IInv, NEW p \in Players, RemovePlayer(p)
  PROVE  IInv'
<1>1. TypeOK /\ Healthy(players)
  BY IInvTypes
<1>2. Healthy(players)' /\ DOMAIN players' = DOMAIN players \ {p}
  BY <1>1 DEF RemovePlayer, Erase, Healthy
<1>3. TypeOK'
  <2>1. pending_projectiles' \in SUBSET Hit
    BY <1>1 DEF RemovePlayer, TypeOK
  <2>2. life' \in [Players -> 0 .. MaxLives]
    BY <1>1 DEF RemovePlayer, TypeOK
  <2>3. /\ DOMAIN last_shot_seq_by_player' \subseteq Players
        /\ last_shot_seq_by_player' \in [DOMAIN last_shot_seq_by_player' -> ShotSeqs]
    BY <1>1 DEF RemovePlayer, TypeOK, Erase
  <2>4. /\ fire_queue_by_player' \in [Players -> Seq(Shot)]
        /\ cooldown' \in [Players -> Nat]
    BY <1>1 DEF RemovePlayer, TypeOK
  <2>5. UNCHANGED <<death_events, phase>>
    BY DEF RemovePlayer
  <2> QED
    BY <1>1, <1>2, <2>1, <2>2, <2>3, <2>4, <2>5 DEF TypeOK, Healthy, PlayerState
<1>4. ShotsOrdered'
  BY <1>1 DEF RemovePlayer, Erase, IInv, CombatInv, ShotsOrdered, HitsInvolving, TypeOK
<1>5. HitsAreCurrent' /\ OneHitPerShot'
  <2> SUFFICES ASSUME NEW h \in pending_projectiles'
               PROVE  /\ {h.attacker_id, h.victim_id} \subseteq DOMAIN players'
                      /\ h.attacker_id # h.victim_id
                      /\ h.life = life'[h.victim_id]
    BY DEF RemovePlayer, IInv, HitsAreCurrent, OneHitPerShot
  <2>1. h \in pending_projectiles /\ h.attacker_id # p /\ h.victim_id # p
    <3>1. pending_projectiles' = pending_projectiles \ HitsInvolving(p)
      BY DEF RemovePlayer
    <3> QED
      BY <3>1 DEF HitsInvolving
  <2>2. /\ {h.attacker_id, h.victim_id} \subseteq DOMAIN players
        /\ h.attacker_id # h.victim_id
        /\ h.life = life[h.victim_id]
    BY <2>1 DEF IInv, HitsAreCurrent
  <2>3. h.victim_id \in Players
    BY <1>1, <2>2 DEF Healthy
  <2>4. life'[h.victim_id] = life[h.victim_id]
    BY <1>1, <2>1, <2>3 DEF RemovePlayer, TypeOK
  <2> QED
    BY <1>2, <2>1, <2>2, <2>4
<1>6. DeathsAreFinal'
  BY IdleDeaths DEF RemovePlayer, IInv
<1> QED
  BY <1>2, <1>3, <1>4, <1>5, <1>6, HealthyIsAll DEF IInv, CombatInv

\* With a life go the hits that were on their way to it.
LEMMA RespawnKeepsIInv ==
  ASSUME IInv, NEW p \in Players, RespawnPlayer(p)
  PROVE  IInv'
<1> DEFINE old == IF p \in DOMAIN players THEN players[p] ELSE NewPlayer
           new == [old EXCEPT !.health = StartingHealth, !.alive = TRUE]
<1>1. TypeOK /\ Healthy(players)
  BY IInvTypes
<1>2. new \in PlayerState /\ new.alive /\ new.health > 0
  <2>1. old \in PlayerState
    BY <1>1, NewPlayerHealthy DEF Healthy
  <2> HIDE DEF old
  <2> QED
    BY <2>1, Revived
<1>3. Healthy(players)' /\ DOMAIN players' = DOMAIN players \cup {p}
  <2>1. players' = Put(players, p, new)
    BY DEF RespawnPlayer
  <2> HIDE DEF new
  <2>2. Healthy(Put(players, p, new))
    BY <1>1, <1>2, PutHealthy
  <2> QED
    BY <2>1, <2>2 DEF Put, Healthy
<1>4. TypeOK'
  <2>1. pending_projectiles' \in SUBSET Hit
    BY <1>1 DEF RespawnPlayer, TypeOK
  <2>2. life' \in [Players -> 0 .. MaxLives]
    BY <1>1 DEF RespawnPlayer, TypeOK
  <2> QED
    BY <1>1, <1>3, <2>1, <2>2
       DEF RespawnPlayer, TypeOK, Healthy, PlayerState, queue_vars
<1>5. ShotsOrdered'
  BY DEF RespawnPlayer, IInv, CombatInv, ShotsOrdered, queue_vars
<1>6. HitsAreCurrent' /\ OneHitPerShot'
  BY <1>1, <1>3 DEF RespawnPlayer, IInv, HitsAreCurrent, OneHitPerShot, TypeOK, Hit
<1>7. DeathsAreFinal'
  BY IdleDeaths DEF RespawnPlayer, IInv
<1> QED
  BY <1>3, <1>4, <1>5, <1>6, <1>7, HealthyIsAll DEF IInv, CombatInv

\* A shot joins the end of its queue, later than every shot in flight.
LEMMA FireKeepsIInv ==
  ASSUME IInv, NEW p \in Players, NEW seq \in ShotSeqs, NEW weapon,
         FireAccepted(p, seq, weapon)
  PROVE  IInv'
<1> DEFINE queue == fire_queue_by_player[p]
           shot == [shot_seq |-> seq, weapon_id |-> weapon]
<1>1. TypeOK /\ Healthy(players)
  BY IInvTypes
<1>2. Healthy(players)' /\ DOMAIN players' = DOMAIN players \cup {p}
  BY <1>1, EmplaceHealthy DEF FireAccepted, Healthy
<1>3. shot \in Shot /\ queue \in Seq(Shot)
  BY <1>1 DEF FireAccepted, TypeOK, Shot
<1>4. \A q \in Players :
        fire_queue_by_player'[q] =
          IF q = p THEN Append(queue, shot) ELSE fire_queue_by_player[q]
  BY <1>1 DEF FireAccepted, TypeOK
<1>5. TypeOK'
  <2>1. fire_queue_by_player' \in [Players -> Seq(Shot)]
    BY <1>1, <1>3 DEF FireAccepted, TypeOK
  <2>2. /\ DOMAIN last_shot_seq_by_player' \subseteq Players
        /\ last_shot_seq_by_player' \in [DOMAIN last_shot_seq_by_player' -> ShotSeqs]
    BY <1>1 DEF FireAccepted, TypeOK, Put
  <2>3. UNCHANGED <<cooldown, pending_projectiles, death_events, phase, life>>
    BY DEF FireAccepted
  <2> QED
    BY <1>1, <1>2, <2>1, <2>2, <2>3 DEF TypeOK, Healthy, PlayerState
<1>6. \A i \in 1 .. Len(queue) : queue[i].shot_seq < seq
  <2> SUFFICES ASSUME NEW i \in 1 .. Len(queue) PROVE queue[i].shot_seq < seq
    OBVIOUS
  <2>0. queue[i] \in Shot /\ queue[Len(queue)] \in Shot /\ queue # <<>>
    BY <1>3
  <2>1. queue[Len(queue)].shot_seq < seq
    <3>1. ~(seq <= Last(queue).shot_seq)
      BY <2>0 DEF FireAccepted, FireOutOfOrder
    <3>2. queue[Len(queue)].shot_seq \in ShotSeqs
      BY <2>0 DEF Shot
    <3> QED
      BY <3>1, <3>2 DEF Last, ShotSeqs
  <2>2. i = Len(queue) \/ i < Len(queue)
    BY <1>3
  <2>3. i < Len(queue) => queue[i].shot_seq < queue[Len(queue)].shot_seq
    BY <1>3 DEF IInv, CombatInv, ShotsOrdered
  <2>4. queue[i].shot_seq \in Int /\ queue[Len(queue)].shot_seq \in Int
    <3>1. queue[i].shot_seq \in ShotSeqs /\ queue[Len(queue)].shot_seq \in ShotSeqs
      BY <2>0 DEF Shot
    <3> QED
      BY <3>1 DEF ShotSeqs
  <2> QED
    BY <2>1, <2>2, <2>3, <2>4 DEF ShotSeqs
<1>7. \A h \in pending_projectiles : h.attacker_id = p => h.shot_seq < seq
  <2> SUFFICES ASSUME NEW h \in pending_projectiles, h.attacker_id = p
               PROVE  h.shot_seq < seq
    OBVIOUS
  <2>1. /\ p \in DOMAIN last_shot_seq_by_player
        /\ h.shot_seq <= last_shot_seq_by_player[p]
    BY DEF IInv, CombatInv, ShotsOrdered
  <2>2. last_shot_seq_by_player[p] < seq
    BY <1>1, <2>1 DEF FireAccepted, FireOutOfOrder, TypeOK, ShotSeqs
  <2>3. h.shot_seq \in Int /\ last_shot_seq_by_player[p] \in Int
    BY <1>1, <2>1 DEF TypeOK, Hit, ShotSeqs
  <2> QED
    BY <2>1, <2>2, <2>3 DEF ShotSeqs
<1>8. ShotsOrdered'
  <2> SUFFICES ASSUME NEW q \in Players
               PROVE  LET new == fire_queue_by_player'[q]
                          last == last_shot_seq_by_player'
                      IN  /\ \A i, j \in 1 .. Len(new) :
                               i < j => new[i].shot_seq < new[j].shot_seq
                          /\ new # <<>> =>
                               /\ q \in DOMAIN last
                               /\ Last(new).shot_seq = last[q]
                          /\ \A h \in pending_projectiles : h.attacker_id = q =>
                               /\ q \in DOMAIN last
                               /\ h.shot_seq <= last[q]
                               /\ \A i \in 1 .. Len(new) : h.shot_seq < new[i].shot_seq
    BY DEF FireAccepted, ShotsOrdered
  <2>1. /\ DOMAIN last_shot_seq_by_player' = DOMAIN last_shot_seq_by_player \cup {p}
        /\ last_shot_seq_by_player'[p] = seq
        /\ q # p /\ q \in DOMAIN last_shot_seq_by_player =>
              last_shot_seq_by_player'[q] = last_shot_seq_by_player[q]
    BY DEF FireAccepted, Put
  <2>2. CASE q # p
    BY <1>4, <2>1, <2>2 DEF IInv, CombatInv, ShotsOrdered
  <2>3. CASE q = p
    <3> DEFINE new == Append(queue, shot)
    <3>1. fire_queue_by_player'[q] = new
      BY <1>4, <2>3
    <3>2. /\ Len(new) = Len(queue) + 1 /\ Len(queue) \in Nat
          /\ new[Len(queue) + 1] = shot
          /\ \A i \in 1 .. Len(queue) : new[i] = queue[i]
      BY <1>3
    <3>3. \A i, j \in 1 .. Len(queue) :
             i < j => queue[i].shot_seq < queue[j].shot_seq
      BY DEF IInv, CombatInv, ShotsOrdered
    <3>4. Last(new) = shot /\ new # <<>>
      BY <1>3, <3>2 DEF Last
    <3> HIDE DEF new
    <3>5. \A i, j \in 1 .. Len(new) : i < j => new[i].shot_seq < new[j].shot_seq
      <4> SUFFICES ASSUME NEW i \in 1 .. Len(new), NEW j \in 1 .. Len(new), i < j
                   PROVE  new[i].shot_seq < new[j].shot_seq
        OBVIOUS
      <4>1. i \in 1 .. Len(queue) /\ (j \in 1 .. Len(queue) \/ j = Len(queue) + 1)
        BY <3>2
      <4> QED
        BY <1>6, <3>2, <3>3, <4>1
    <3>6. \A h \in pending_projectiles : h.attacker_id = q =>
            /\ h.shot_seq <= seq
            /\ \A i \in 1 .. Len(new) : h.shot_seq < new[i].shot_seq
      <4> SUFFICES ASSUME NEW h \in pending_projectiles, h.attacker_id = q
                   PROVE  /\ h.shot_seq <= seq
                          /\ \A i \in 1 .. Len(new) : h.shot_seq < new[i].shot_seq
        OBVIOUS
      <4>1. h.shot_seq < seq /\ h.shot_seq \in Int
        <5>1. h.shot_seq < seq
          BY <1>7, <2>3
        <5>2. h \in Hit
          BY <1>1 DEF TypeOK
        <5>3. h.shot_seq \in ShotSeqs
          BY <5>2 DEF Hit
        <5> QED
          BY <5>1, <5>3 DEF ShotSeqs
      <4>2. \A i \in 1 .. Len(queue) : h.shot_seq < queue[i].shot_seq
        BY <2>3 DEF IInv, CombatInv, ShotsOrdered
      <4>3. \A i \in 1 .. Len(new) : i \in 1 .. Len(queue) \/ i = Len(queue) + 1
        BY <3>2
      <4>4. ASSUME NEW i \in 1 .. Len(new) PROVE h.shot_seq < new[i].shot_seq
        <5>1. CASE i \in 1 .. Len(queue)
          BY <3>2, <4>2, <5>1
        <5>2. CASE i = Len(queue) + 1
          <6>1. new[i].shot_seq = seq
            BY <3>2, <5>2
          <6> QED
            BY <4>1, <6>1
        <5> QED
          BY <4>3, <5>1, <5>2
      <4>5. h.shot_seq <= seq
        BY <4>1 DEF ShotSeqs
      <4> QED
        BY <4>4, <4>5
    <3> QED
      BY <2>1, <2>3, <3>1, <3>4, <3>5, <3>6
  <2> QED
    BY <2>2, <2>3
<1>9. HitsAreCurrent' /\ OneHitPerShot'
  BY <1>2 DEF FireAccepted, IInv, HitsAreCurrent, OneHitPerShot
<1>10. DeathsAreFinal'
  BY IdleDeaths DEF FireAccepted, IInv
<1> QED
  BY <1>2, <1>5, <1>8, <1>9, <1>10, HealthyIsAll DEF IInv, CombatInv

-----------------------------------------------------------------------------
(* resolve_tick *)

\* What DeathsAreFinal says of the tick under way.
DeathsFit(state, deaths) ==
  /\ \A i \in DOMAIN deaths :
       /\ ~(deaths[i].victim_id \in DOMAIN state /\ state[deaths[i].victim_id].alive)
       /\ deaths[i].attacker_id \in DOMAIN state \ {deaths[i].victim_id}
  /\ \A i, j \in DOMAIN deaths : deaths[i].victim_id = deaths[j].victim_id => i = j

\* While a tick runs, its deaths fit the players.
LEMMA DeathsFitTick ==
  ASSUME IInv, phase # "idle"
  PROVE  death_events \in Seq(Death) /\ DeathsFit(players, death_events)
<1>1. death_events \in Seq(Death)
  BY IInvTypes DEF TypeOK, Death
<1>2. DeathsFit(players, death_events)
  BY DEF IInv, DeathsAreFinal, DeathsFit, Alive
<1> QED
  BY <1>1, <1>2

\* This is all that DeathsAreFinal asks.
LEMMA DeathsFitEnough ==
  ASSUME DeathsFit(players, death_events)' PROVE DeathsAreFinal'
  BY DEF DeathsFit, DeathsAreFinal, Alive

\* A blow leaves a healthy table; a death is reported when it happens, and only
\* of somebody who was alive.
LEMMA DamageKeeps ==
  ASSUME NEW state, Healthy(state), NEW attacker \in DOMAIN state,
         NEW victim \in DOMAIN state, attacker # victim, NEW weapon \in Weapons,
         death_events \in Seq(Death), DeathsFit(state, death_events),
         ApplyDamage(attacker, victim, weapon, state)
  PROVE  /\ Healthy(players)' /\ DOMAIN players' = DOMAIN state
         /\ death_events' \in Seq(Death) /\ DeathsFit(players, death_events)'
<1> DEFINE s == state[victim]
           left == IF s.health < Damage[weapon] THEN 0 ELSE s.health - Damage[weapon]
           hurt == [state EXCEPT ![victim].health = left, ![victim].alive = left # 0]
           death == [victim_id |-> victim, attacker_id |-> attacker]
<1>1. s \in PlayerState /\ Damage[weapon] \in Nat
  BY CombatAssumption DEF Healthy
<1>2. left \in 0 .. StartingHealth
  <2>1. s.health \in 0 .. StartingHealth
    BY <1>1 DEF PlayerState
  <2> QED
    BY <1>1, <2>1
<1>3. CASE ~(s.alive /\ Damage[weapon] > 0)
  <2>1. players' = state /\ UNCHANGED death_events
    BY <1>3 DEF ApplyDamage
  <2> QED
    BY <2>1 DEF Healthy, DeathsFit
<1>4. CASE s.alive /\ Damage[weapon] > 0
  <2>1. /\ players' = hurt
        /\ death_events' = IF left # 0 THEN death_events ELSE Append(death_events, death)
    BY <1>4 DEF ApplyDamage
  <2> DEFINE r == [s EXCEPT !.health = left, !.alive = left # 0]
  <2>2. hurt = [state EXCEPT ![victim] = r]
    BY <1>1 DEF PlayerState
  <2> HIDE DEF left
  <2>3. r \in PlayerState /\ r.health = left /\ r.alive = (left # 0)
    <3>1. r.health = left /\ r.alive = (left # 0)
      BY <1>1 DEF PlayerState
    <3>2. (left # 0) \in BOOLEAN
      OBVIOUS
    <3>3. r \in PlayerState
      BY <1>1, <1>2, <3>2, Zenon DEF PlayerState
    <3> QED
      BY <3>1, <3>3
  <2> HIDE DEF r, hurt
  <2>4. /\ DOMAIN players' = DOMAIN state
        /\ players'[victim] = r
        /\ \A p \in DOMAIN state \ {victim} : players'[p] = state[p]
    BY <2>1, <2>2
  <2>5. Healthy(players)'
    <3>1. players' \in [DOMAIN players' -> PlayerState]
      BY <2>1, <2>2, <2>3, <2>4 DEF Healthy
    <3>2. r.alive <=> r.health > 0
      <4>1. left # 0 <=> left > 0
        BY <1>2
      <4>2. r.alive <=> left # 0
        BY <2>3, Zenon
      <4>3. r.health > 0 <=> left > 0
        BY <2>3
      <4> QED
        BY <4>1, <4>2, <4>3
    <3>3. \A p \in DOMAIN players' : players'[p].alive <=> players'[p].health > 0
      BY <2>4, <3>2 DEF Healthy
    <3> QED
      BY <2>4, <3>1, <3>3 DEF Healthy
  <2>6. CASE left # 0
    <3>1. UNCHANGED death_events
      BY <2>1, <2>6
    <3>2. \A p \in DOMAIN state : players'[p].alive => state[p].alive
      BY <1>4, <2>4
    <3> QED
      BY <2>4, <2>5, <3>1, <3>2 DEF DeathsFit
  <2>7. CASE left = 0
    <3>1. death_events' = Append(death_events, death)
      BY <2>1, <2>7
    <3>2. death \in Death
      BY DEF Death, Healthy
    <3>3. death_events' \in Seq(Death)
      BY <3>1, <3>2
    <3>4. /\ DOMAIN death_events' = DOMAIN death_events \cup {Len(death_events) + 1}
          /\ Len(death_events) + 1 \notin DOMAIN death_events
          /\ death_events'[Len(death_events) + 1] = death
          /\ \A i \in DOMAIN death_events : death_events'[i] = death_events[i]
      BY <3>1
    <3>5. /\ ~players'[victim].alive
          /\ \A p \in DOMAIN state : players'[p].alive => state[p].alive
      BY <1>4, <2>3, <2>4, <2>7
    <3>6. \A i \in DOMAIN death_events : death_events[i].victim_id # victim
      BY <1>4 DEF DeathsFit
    <3>7. DeathsFit(players, death_events)'
      <4>1. \A i \in DOMAIN death_events' :
              /\ ~( /\ death_events'[i].victim_id \in DOMAIN players'
                    /\ players'[death_events'[i].victim_id].alive)
              /\ death_events'[i].attacker_id
                   \in DOMAIN players' \ {death_events'[i].victim_id}
        BY <2>4, <3>4, <3>5 DEF DeathsFit
      <4>2. \A i, j \in DOMAIN death_events' :
              death_events'[i].victim_id = death_events'[j].victim_id => i = j
        BY <3>4, <3>6 DEF DeathsFit
      <4> QED
        BY <4>1, <4>2 DEF DeathsFit
    <3> QED
      BY <2>4, <2>5, <3>3, <3>7
  <2> QED
    BY <2>6, <2>7
<1> QED
  BY <1>3, <1>4

\* The hits on their way are one tick nearer.
LEMMA BeginTickKeepsIInv == ASSUME IInv, BeginTick PROVE IInv'
<1> DEFINE nearer(h) == [h EXCEPT !.delay = IF @ = 0 THEN 0 ELSE @ - 1]
<1>1. TypeOK /\ Healthy(players)
  BY IInvTypes
<1>2. \A h \in Hit :
        /\ nearer(h) \in Hit
        /\ nearer(h).attacker_id = h.attacker_id /\ nearer(h).victim_id = h.victim_id
        /\ nearer(h).shot_seq = h.shot_seq /\ nearer(h).life = h.life
  <2> SUFFICES ASSUME NEW h \in Hit
               PROVE  /\ nearer(h) \in Hit
                      /\ nearer(h).attacker_id = h.attacker_id
                      /\ nearer(h).victim_id = h.victim_id
                      /\ nearer(h).shot_seq = h.shot_seq
                      /\ nearer(h).life = h.life
    OBVIOUS
  <2>1. (IF h.delay = 0 THEN 0 ELSE h.delay - 1) \in 0 .. MaxTravelTicks
    BY CombatAssumption DEF Hit
  <2> DEFINE d == IF h.delay = 0 THEN 0 ELSE h.delay - 1
  <2>2. nearer(h) = [h EXCEPT !.delay = d]
    OBVIOUS
  <2> HIDE DEF d, nearer
  <2>3. d \in 0 .. MaxTravelTicks
    BY <2>1 DEF d
  <2>4. nearer(h) \in Hit
    BY <2>2, <2>3 DEF Hit
  <2> QED
    BY <2>2, <2>4 DEF Hit
<1>3. pending_projectiles' = {nearer(h) : h \in pending_projectiles}
  BY DEF BeginTick
<1> HIDE DEF nearer
<1>4. pending_projectiles \subseteq Hit
  BY <1>1 DEF TypeOK
<1>5. /\ UNCHANGED <<players, queue_vars, life>>
      /\ phase' = "projectiles" /\ death_events' = <<>>
  BY DEF BeginTick
<1>6. TypeOK'
  <2>1. pending_projectiles' \in SUBSET Hit
    BY <1>2, <1>3, <1>4
  <2>2. cooldown' \in [Players -> Nat]
    BY <1>1 DEF BeginTick, TypeOK
  <2> QED
    BY <1>1, <1>5, <2>1, <2>2 DEF TypeOK, queue_vars
<1>7. HitsAreCurrent' /\ OneHitPerShot'
  <2>1. HitsAreCurrent'
    BY <1>2, <1>3, <1>4, <1>5 DEF IInv, HitsAreCurrent
  <2>2. OneHitPerShot'
    BY <1>2, <1>3, <1>4 DEF IInv, OneHitPerShot
  <2> QED
    BY <2>1, <2>2
<1>8. ShotsOrdered'
  BY <1>2, <1>3, <1>4, <1>5 DEF IInv, CombatInv, ShotsOrdered, queue_vars
<1>9. Healthy(players)'
  BY <1>1, <1>5 DEF Healthy
<1>10. DeathsAreFinal'
  BY <1>5 DEF DeathsAreFinal
<1> QED
  BY <1>6, <1>7, <1>8, <1>9, <1>10, HealthyIsAll DEF IInv, CombatInv

\* A hit lands: one hit less, and perhaps one death more.
LEMMA LandsKeepsIInv == ASSUME IInv, ProjectileLands PROVE IInv'
<1>1. TypeOK /\ Healthy(players)
  BY IInvTypes
<1>2. PICK h \in Due :
        /\ pending_projectiles' = pending_projectiles \ {h}
        /\ ApplyDamage(h.attacker_id, h.victim_id, h.weapon_id, players)
  BY DEF ProjectileLands
<1>3. h \in pending_projectiles /\ h \in Hit
  BY <1>1 DEF Due, TypeOK
<1>4. /\ h.attacker_id \in DOMAIN players /\ h.victim_id \in DOMAIN players
      /\ h.attacker_id # h.victim_id /\ h.weapon_id \in Weapons
  BY <1>3 DEF IInv, HitsAreCurrent, Hit
<1>5. death_events \in Seq(Death) /\ DeathsFit(players, death_events)
  BY DeathsFitTick DEF ProjectileLands
<1>6. /\ Healthy(players)' /\ DOMAIN players' = DOMAIN players
      /\ death_events' \in Seq(Death) /\ DeathsFit(players, death_events)'
  BY <1>1, <1>2, <1>4, <1>5, DamageKeeps
<1>7. UNCHANGED <<queue_vars, cooldown, phase, life>>
  BY DEF ProjectileLands
<1>8. TypeOK'
  BY <1>1, <1>2, <1>6, <1>7 DEF TypeOK, Healthy, PlayerState, Death, queue_vars
<1>9. HitsAreCurrent' /\ OneHitPerShot' /\ ShotsOrdered'
  BY <1>2, <1>6, <1>7
     DEF IInv, CombatInv, HitsAreCurrent, OneHitPerShot, ShotsOrdered, queue_vars
<1> QED
  BY <1>6, <1>8, <1>9, HealthyIsAll, DeathsFitEnough DEF IInv, CombatInv

\* The first shot leaves its queue; at most it becomes a hit on its way.
LEMMA DequeueOrdered ==
  ASSUME IInv, NEW p \in Players, fire_queue_by_player[p] # <<>>, Dequeue(p),
         UNCHANGED last_shot_seq_by_player,
         \A h \in pending_projectiles' \ pending_projectiles :
           /\ h.attacker_id = p
           /\ h.shot_seq = Head(fire_queue_by_player[p]).shot_seq
  PROVE  /\ fire_queue_by_player' \in [Players -> Seq(Shot)]
         /\ ShotsOrdered'
<1> DEFINE queue == fire_queue_by_player[p]
           rest == Tail(queue)
           last == last_shot_seq_by_player
<1>1. queue \in Seq(Shot) /\ queue # <<>> /\ TypeOK
  BY IInvTypes DEF TypeOK
<1>2. \A q \in Players :
        fire_queue_by_player'[q] = IF q = p THEN rest ELSE fire_queue_by_player[q]
  BY <1>1 DEF Dequeue, TypeOK
<1>3. fire_queue_by_player' \in [Players -> Seq(Shot)]
  BY <1>1 DEF Dequeue, TypeOK
<1>4. /\ Len(queue) \in Nat /\ Len(queue) > 0 /\ Len(rest) = Len(queue) - 1
      /\ \A i \in 1 .. Len(rest) : i + 1 \in 1 .. Len(queue) /\ rest[i] = queue[i + 1]
  BY <1>1
<1>5. \A i, j \in 1 .. Len(queue) : i < j => queue[i].shot_seq < queue[j].shot_seq
  BY DEF IInv, CombatInv, ShotsOrdered
<1>6. \A i \in 1 .. Len(queue) : queue[i].shot_seq \in Int
  <2>1. \A i \in 1 .. Len(queue) : queue[i] \in Shot
    BY <1>1
  <2> QED
    BY <2>1 DEF Shot, ShotSeqs
<1>7. queue[1].shot_seq <= queue[Len(queue)].shot_seq
  <2> DEFINE n == Len(queue)
  <2>1. n \in Nat /\ n > 0
    BY <1>4
  <2> HIDE DEF queue, n
  <2>2. 1 \in 1 .. n /\ n \in 1 .. n /\ (1 = n \/ 1 < n)
    BY <2>1
  <2>3. 1 < n => queue[1].shot_seq < queue[n].shot_seq
    BY <1>5, <2>2 DEF n
  <2>4. queue[1].shot_seq \in Int /\ queue[n].shot_seq \in Int
    BY <1>6, <2>2 DEF n
  <2>5. queue[1].shot_seq <= queue[n].shot_seq
    BY <2>2, <2>3, <2>4
  <2> QED
    BY <2>5 DEF n
<1>8. /\ p \in DOMAIN last /\ queue[Len(queue)].shot_seq = last[p]
  BY <1>1 DEF IInv, CombatInv, ShotsOrdered, Last
<1>9. Head(queue) = queue[1]
  BY <1>1
<1>10. rest # <<>> => Last(rest) = queue[Len(queue)]
  BY <1>1, <1>4 DEF Last
<1> HIDE DEF queue, rest
<1>11. \A h \in pending_projectiles' : h.attacker_id = p =>
         /\ h.shot_seq <= last[p]
         /\ \A i \in 1 .. Len(rest) : h.shot_seq < rest[i].shot_seq
  <2> SUFFICES ASSUME NEW h \in pending_projectiles', h.attacker_id = p
               PROVE  /\ h.shot_seq <= last[p]
                      /\ \A i \in 1 .. Len(rest) : h.shot_seq < rest[i].shot_seq
    OBVIOUS
  <2>1. CASE h \in pending_projectiles
    <3>1. /\ h.shot_seq <= last[p]
          /\ \A i \in 1 .. Len(queue) : h.shot_seq < queue[i].shot_seq
      BY <2>1 DEF IInv, CombatInv, ShotsOrdered, queue
    <3> QED
      BY <1>4, <3>1
  <2>2. CASE h \notin pending_projectiles
    <3>1. h.shot_seq = queue[1].shot_seq
      BY <1>9, <2>2 DEF queue
    <3>2. \A i \in 1 .. Len(rest) : queue[1].shot_seq < queue[i + 1].shot_seq
      BY <1>4, <1>5
    <3> QED
      BY <1>4, <1>7, <1>8, <3>1, <3>2
  <2> QED
    BY <2>1, <2>2
<1>12. \A i, j \in 1 .. Len(rest) : i < j => rest[i].shot_seq < rest[j].shot_seq
  <2> SUFFICES ASSUME NEW i \in 1 .. Len(rest), NEW j \in 1 .. Len(rest), i < j
               PROVE  rest[i].shot_seq < rest[j].shot_seq
    OBVIOUS
  <2>1. /\ i + 1 \in 1 .. Len(queue) /\ j + 1 \in 1 .. Len(queue)
        /\ rest[i] = queue[i + 1] /\ rest[j] = queue[j + 1]
    BY <1>4
  <2>2. i + 1 < j + 1
    OBVIOUS
  <2> QED
    BY <1>5, <2>1, <2>2
<1>13. ASSUME NEW q \in Players, q # p
       PROVE  \A h \in pending_projectiles' :
                h.attacker_id = q => h \in pending_projectiles
  BY <1>13
<1>14. ShotsOrdered'
  <2> SUFFICES ASSUME NEW q \in Players
               PROVE  LET new == fire_queue_by_player'[q]
                      IN  /\ \A i, j \in 1 .. Len(new) :
                               i < j => new[i].shot_seq < new[j].shot_seq
                          /\ new # <<>> =>
                               /\ q \in DOMAIN last
                               /\ Last(new).shot_seq = last[q]
                          /\ \A h \in pending_projectiles' : h.attacker_id = q =>
                               /\ q \in DOMAIN last
                               /\ h.shot_seq <= last[q]
                               /\ \A i \in 1 .. Len(new) : h.shot_seq < new[i].shot_seq
    BY DEF ShotsOrdered
  <2>1. CASE q = p
    BY <1>2, <1>8, <1>10, <1>11, <1>12, <2>1
  <2>2. CASE q # p
    BY <1>2, <1>13, <2>2 DEF IInv, CombatInv, ShotsOrdered
  <2> QED
    BY <2>1, <2>2
<1> QED
  BY <1>3, <1>14

\* A shot that is lost.
LEMMA SkipKeepsIInv ==
  ASSUME IInv, NEW p \in Players, ShotSkipped(p) PROVE IInv'
<1>1. TypeOK /\ Healthy(players)
  BY IInvTypes
<1>2. /\ fire_queue_by_player[p] # <<>> /\ Dequeue(p)
      /\ UNCHANGED <<players, last_shot_seq_by_player, cooldown,
                     pending_projectiles, death_events, phase, life>>
  BY DEF ShotSkipped, NextShooter
<1>3. fire_queue_by_player' \in [Players -> Seq(Shot)] /\ ShotsOrdered'
  BY <1>2, DequeueOrdered
<1>4. TypeOK' /\ AliveMeansHealthy'
  BY <1>1, <1>2, <1>3 DEF TypeOK, IInv, CombatInv, AliveMeansHealthy
<1>5. HitsAreCurrent' /\ OneHitPerShot' /\ DeathsAreFinal'
  BY <1>2 DEF IInv, HitsAreCurrent, OneHitPerShot, DeathsAreFinal, Alive
<1> QED
  BY <1>3, <1>4, <1>5 DEF IInv, CombatInv

\* Remembering a shot changes nobody's life.
LEMMA FiredHealthy ==
  ASSUME Healthy(players), NEW p \in DOMAIN players, NEW shot \in Shot
  PROVE  /\ Healthy(Fired(p, shot)) /\ DOMAIN Fired(p, shot) = DOMAIN players
         /\ \A q \in DOMAIN players : Fired(p, shot)[q].alive = players[q].alive
<1> DEFINE s == players[p]
           seq == IF s.last_shot_seq < shot.shot_seq THEN shot.shot_seq
                                                     ELSE s.last_shot_seq
           r == [s EXCEPT !.last_shot_seq = seq]
<1>1. s \in PlayerState
  BY DEF Healthy
<1>2. seq \in ShotSeqs
  BY <1>1 DEF PlayerState, Shot
<1>3. Fired(p, shot) = [players EXCEPT ![p] = r]
  BY <1>1 DEF Fired, PlayerState
<1> HIDE DEF seq
<1>4. r \in PlayerState /\ r.alive = s.alive /\ r.health = s.health
  BY <1>1, <1>2 DEF PlayerState
<1> HIDE DEF r
<1>5. /\ DOMAIN Fired(p, shot) = DOMAIN players
      /\ \A q \in DOMAIN players :
           Fired(p, shot)[q] = IF q = p THEN r ELSE players[q]
  BY <1>3
<1>6. Fired(p, shot) \in [DOMAIN players -> PlayerState]
  BY <1>3, <1>4 DEF Healthy
<1> QED
  BY <1>4, <1>5, <1>6 DEF Healthy

\* A shot that is fired: it is taken from the queue, and hits nobody, somebody
\* at once, or somebody later.
LEMMA FireShotKeepsIInv ==
  ASSUME IInv, NEW p \in Players, ShotFired(p) PROVE IInv'
<1> DEFINE shot == Head(fire_queue_by_player[p])
           hit(victim, delay) ==
             [delay |-> delay, attacker_id |-> p, victim_id |-> victim,
              shot_seq |-> shot.shot_seq, weapon_id |-> shot.weapon_id,
              life |-> life[victim]]
           state == Fired(p, shot)
<1>1. TypeOK /\ Healthy(players)
  BY IInvTypes
<1>2. /\ phase = "fires" /\ fire_queue_by_player[p] # <<>> /\ Dequeue(p)
      /\ p \in DOMAIN players /\ players[p].alive
      /\ UNCHANGED <<last_shot_seq_by_player, phase, life>>
      /\ cooldown' = [cooldown EXCEPT ![p] = CooldownTicks[shot.weapon_id]]
  BY DEF ShotFired, NextShooter, MayShoot, Alive
<1>3. shot \in Shot
  BY <1>1, <1>2 DEF TypeOK
<1>4. cooldown' \in [Players -> Nat]
  <2>1. CooldownTicks[shot.weapon_id] \in Nat
    BY <1>3, CombatAssumption DEF Shot
  <2> QED
    BY <1>1, <1>2, <2>1 DEF TypeOK
<1>5. /\ Healthy(state) /\ DOMAIN state = DOMAIN players
      /\ \A q \in DOMAIN players : state[q].alive = players[q].alive
  BY <1>1, <1>2, <1>3, FiredHealthy
<1>6. death_events \in Seq(Death) /\ DeathsFit(state, death_events)
  <2>1. death_events \in Seq(Death) /\ DeathsFit(players, death_events)
    BY <1>2, DeathsFitTick
  <2> QED
    BY <1>5, <2>1 DEF DeathsFit
<1>7. \/ /\ players' = state
         /\ UNCHANGED <<pending_projectiles, death_events>>
      \/ \E victim \in Targets(p) :
           /\ ApplyDamage(p, victim, shot.weapon_id, state)
           /\ UNCHANGED pending_projectiles
      \/ \E victim \in Targets(p), delay \in 1 .. MaxTravelTicks :
           /\ players' = state
           /\ pending_projectiles' = pending_projectiles \cup {hit(victim, delay)}
           /\ UNCHANGED death_events
  BY DEF ShotFired
<1> HIDE DEF state
<1>8. /\ Healthy(players)' /\ DOMAIN players' = DOMAIN players
      /\ death_events' \in Seq(Death) /\ DeathsFit(players, death_events)'
  <2>1. CASE players' = state /\ UNCHANGED death_events
    BY <1>5, <1>6, <2>1 DEF Healthy, DeathsFit
  <2>2. CASE \E victim \in Targets(p) : ApplyDamage(p, victim, shot.weapon_id, state)
    <3>1. PICK victim \in Targets(p) : ApplyDamage(p, victim, shot.weapon_id, state)
      BY <2>2
    <3>2. victim \in DOMAIN state /\ victim # p /\ p \in DOMAIN state
      BY <1>2, <1>5 DEF Targets
    <3>3. shot.weapon_id \in Weapons
      BY <1>3 DEF Shot
    <3> QED
      BY <1>5, <1>6, <3>1, <3>2, <3>3, DamageKeeps
  <2> QED
    BY <1>7, <2>1, <2>2
<1>9. \/ pending_projectiles' = pending_projectiles
      \/ \E victim \in Targets(p), delay \in 1 .. MaxTravelTicks :
           pending_projectiles' = pending_projectiles \cup {hit(victim, delay)}
  BY <1>7
<1>10. ASSUME NEW h \in pending_projectiles' \ pending_projectiles
       PROVE  /\ h \in Hit /\ h.attacker_id = p /\ h.shot_seq = shot.shot_seq
              /\ h.victim_id \in Targets(p) /\ h.life = life[h.victim_id]
              /\ pending_projectiles' = pending_projectiles \cup {h}
  <2>1. PICK victim \in Targets(p), delay \in 1 .. MaxTravelTicks :
          pending_projectiles' = pending_projectiles \cup {hit(victim, delay)}
    BY <1>9, <1>10
  <2>2. h = hit(victim, delay)
    BY <1>10, <2>1
  <2>3. victim \in Players /\ life[victim] \in 0 .. MaxLives
    BY <1>1 DEF Targets, Healthy, TypeOK
  <2>4. delay \in 0 .. MaxTravelTicks
    BY CombatAssumption
  <2>5. shot.shot_seq \in ShotSeqs /\ shot.weapon_id \in Weapons
    BY <1>3 DEF Shot
  <2> HIDE DEF shot
  <2>6. h \in Hit
    BY <2>2, <2>3, <2>4, <2>5 DEF Hit
  <2> QED
    BY <2>1, <2>2, <2>6
<1>11. fire_queue_by_player' \in [Players -> Seq(Shot)] /\ ShotsOrdered'
  BY <1>2, <1>10, DequeueOrdered
<1>12. TypeOK'
  <2>1. pending_projectiles' \in SUBSET Hit
    BY <1>1, <1>10 DEF TypeOK
  <2> QED
    BY <1>1, <1>2, <1>4, <1>8, <1>11, <2>1 DEF TypeOK, Healthy, PlayerState, Death
<1>13. HitsAreCurrent'
  <2> SUFFICES ASSUME NEW h \in pending_projectiles'
               PROVE  /\ {h.attacker_id, h.victim_id} \subseteq DOMAIN players
                      /\ h.attacker_id # h.victim_id
                      /\ h.life = life[h.victim_id]
    BY <1>2, <1>8 DEF HitsAreCurrent
  <2>1. CASE h \in pending_projectiles
    BY <2>1 DEF IInv, HitsAreCurrent
  <2>2. CASE h \notin pending_projectiles
    BY <1>2, <1>10, <2>2 DEF Targets
  <2> QED
    BY <2>1, <2>2
<1>14. OneHitPerShot'
  <2>1. \A h \in pending_projectiles : h.attacker_id = p => h.shot_seq # shot.shot_seq
    <3> SUFFICES ASSUME NEW h \in pending_projectiles, h.attacker_id = p
                 PROVE  h.shot_seq # shot.shot_seq
      OBVIOUS
    <3>1. /\ 1 \in 1 .. Len(fire_queue_by_player[p])
          /\ shot = fire_queue_by_player[p][1]
      BY <1>1, <1>2 DEF TypeOK
    <3>2. h.shot_seq < shot.shot_seq
      BY <3>1 DEF IInv, CombatInv, ShotsOrdered
    <3>3. h.shot_seq \in Int /\ shot.shot_seq \in Int
      <4>1. h \in Hit
        BY <1>1 DEF TypeOK
      <4>2. h.shot_seq \in ShotSeqs /\ shot.shot_seq \in ShotSeqs
        BY <1>3, <4>1 DEF Hit, Shot
      <4> QED
        BY <4>2 DEF ShotSeqs
    <3> QED
      BY <3>2, <3>3
  <2> SUFFICES ASSUME NEW g \in pending_projectiles', NEW h \in pending_projectiles',
                      g.attacker_id = h.attacker_id, g.shot_seq = h.shot_seq
               PROVE  g = h
    BY DEF OneHitPerShot
  <2>2. CASE g \in pending_projectiles /\ h \in pending_projectiles
    BY <2>2 DEF IInv, OneHitPerShot
  <2>3. CASE g \notin pending_projectiles
    BY <1>10, <2>1, <2>3
  <2>4. CASE h \notin pending_projectiles
    BY <1>10, <2>1, <2>4
  <2> QED
    BY <2>2, <2>3, <2>4
<1> QED
  BY <1>8, <1>11, <1>12, <1>13, <1>14, HealthyIsAll, DeathsFitEnough
     DEF IInv, CombatInv

-----------------------------------------------------------------------------

\* Before the first player everything holds.
LEMMA IInvInitially == Init => IInv
<1> SUFFICES ASSUME Init PROVE IInv
  OBVIOUS
<1>1. TypeOK
  <2>1. pending_projectiles \in SUBSET Hit
    BY DEF Init
  <2>2. life \in [Players -> 0 .. MaxLives]
    BY CombatAssumption DEF Init
  <2> QED
    BY <2>1, <2>2 DEF Init, TypeOK, EmptyMap
<1>2. AliveMeansHealthy /\ ShotsOrdered
  BY DEF Init, EmptyMap, AliveMeansHealthy, ShotsOrdered
<1>3. HitsAreCurrent /\ OneHitPerShot /\ DeathsAreFinal
  BY DEF Init, HitsAreCurrent, OneHitPerShot, DeathsAreFinal
<1> QED
  BY <1>1, <1>2, <1>3 DEF IInv, CombatInv

\* One case for each action.
LEMMA IInvInductive == IInv /\ [Next]_vars => IInv'
<1> SUFFICES ASSUME IInv, [Next]_vars PROVE IInv'
  OBVIOUS
<1>1. ASSUME NEW p \in Players,
             EnsurePlayer(p) \/ RemovePlayer(p) \/ RespawnPlayer(p)
      PROVE  IInv'
  BY <1>1, EnsureKeepsIInv, RemoveKeepsIInv, RespawnKeepsIInv
<1>2. ASSUME NEW p \in Players, NEW seq \in ShotSeqs, NEW weapon,
             FireAccepted(p, seq, weapon)
      PROVE  IInv'
  BY <1>2, FireKeepsIInv
<1>3. CASE BeginTick \/ ProjectileLands
  BY <1>3, BeginTickKeepsIInv, LandsKeepsIInv
<1>4. ASSUME NEW p \in Players, ShotSkipped(p) \/ ShotFired(p)
      PROVE  IInv'
  BY <1>4, SkipKeepsIInv, FireShotKeepsIInv
<1>5. CASE ProjectilesDone \/ FiresDone
  <2>1. /\ phase # "idle" /\ phase' \in {"idle", "projectiles", "fires"}
        /\ UNCHANGED <<players, queue_vars, cooldown, pending_projectiles,
                       death_events, life>>
    BY <1>5 DEF ProjectilesDone, FiresDone
  <2> QED
    BY <2>1 DEF IInv, CombatInv, TypeOK, AliveMeansHealthy, ShotsOrdered,
                HitsAreCurrent, OneHitPerShot, DeathsAreFinal, Alive, queue_vars
<1>6. CASE UNCHANGED vars
  BY <1>6 DEF vars, IInv, CombatInv, TypeOK, AliveMeansHealthy, ShotsOrdered,
              HitsAreCurrent, OneHitPerShot, DeathsAreFinal, Alive, queue_vars
<1> QED
  BY <1>1, <1>2, <1>3, <1>4, <1>5, <1>6 DEF Next, ResolveTick, FireDropped

\* The inductive invariant always holds.
LEMMA Invariant == Spec => []IInv
BY IInvInitially, IInvInductive, PTL DEF Spec

\* Health, life, queues and the shot numbers remembered fit together between any
\* two steps of the simulation.
THEOREM CombatInvariant == Spec => []CombatInv
<1>1. IInv => CombatInv
  BY DEF IInv
<1> QED
  BY <1>1, Invariant, PTL

\* No projectile outlives its attacker's stay or the life of its victim.
THEOREM HitsStayCurrent == Spec => []HitsAreCurrent
<1>1. IInv => HitsAreCurrent
  BY DEF IInv
<1> QED
  BY <1>1, Invariant, PTL

\* No shot hits twice by projectile.
THEOREM ShotsHitOnce == Spec => []OneHitPerShot
<1>1. IInv => OneHitPerShot
  BY DEF IInv
<1> QED
  BY <1>1, Invariant, PTL

\* Each death of a tick is of somebody who stays dead, is reported once and has
\* another player to its credit.
THEOREM DeathsStayFinal == Spec => []DeathsAreFinal
<1>1. IInv => DeathsAreFinal
  BY DEF IInv
<1> QED
  BY <1>1, Invariant, PTL

\* Whoever was killed in a tick fires no shot of that tick any more.
THEOREM TheDeadHoldFire == Spec => NoShotAfterDeath
<1> DEFINE HoldsFire ==
      \A p \in Players : cooldown'[p] > cooldown[p] =>
        \A i \in DOMAIN death_events : death_events[i].victim_id # p
<1>1. IInv /\ [Next]_vars => [HoldsFire]_vars
  <2> SUFFICES ASSUME IInv, Next, NEW p \in Players, cooldown'[p] > cooldown[p]
               PROVE  \A i \in DOMAIN death_events : death_events[i].victim_id # p
    OBVIOUS
  <2>1. cooldown \in [Players -> Nat]
    BY IInvTypes DEF TypeOK
  <2>2. cooldown'[p] # cooldown[p]
    BY <2>1
  <2>3. ASSUME NEW q \in Players,
               \/ EnsurePlayer(q) \/ RespawnPlayer(q) \/ ShotSkipped(q)
               \/ \E seq \in ShotSeqs, weapon \in Weapons \cup {UnknownWeapon} :
                    FireAccepted(q, seq, weapon) \/ FireDropped(q, seq, weapon)
        PROVE  FALSE
    <3>1. EnsurePlayer(q) => UNCHANGED cooldown
      BY DEF EnsurePlayer
    <3>2. RespawnPlayer(q) => UNCHANGED cooldown
      BY DEF RespawnPlayer
    <3>3. ShotSkipped(q) => UNCHANGED cooldown
      BY DEF ShotSkipped
    <3>4. ASSUME NEW seq, NEW weapon PROVE FireAccepted(q, seq, weapon) => UNCHANGED cooldown
      BY DEF FireAccepted
    <3>5. ASSUME NEW seq, NEW weapon PROVE FireDropped(q, seq, weapon) => UNCHANGED cooldown
      BY DEF FireDropped, vars
    <3> QED
      BY <2>2, <2>3, <3>1, <3>2, <3>3, <3>4, <3>5
  <2>4. ASSUME NEW q \in Players, RemovePlayer(q) PROVE FALSE
    BY <2>1, <2>4 DEF RemovePlayer
  <2>5. ~BeginTick
    <3>1. BeginTick => cooldown'[p] = IF cooldown[p] = 0 THEN 0 ELSE cooldown[p] - 1
      BY DEF BeginTick
    <3>2. cooldown[p] \in Nat
      BY <2>1
    <3> QED
      BY <3>1, <3>2
  <2>6. ~(ProjectileLands \/ ProjectilesDone \/ FiresDone)
    <3>1. ProjectileLands => UNCHANGED cooldown
      BY DEF ProjectileLands
    <3>2. ProjectilesDone => UNCHANGED cooldown
      BY DEF ProjectilesDone
    <3>3. FiresDone => UNCHANGED cooldown
      BY DEF FiresDone
    <3> QED
      BY <2>2, <3>1, <3>2, <3>3
  <2>7. PICK q \in Players : ShotFired(q)
    BY <2>3, <2>4, <2>5, <2>6 DEF Next, ResolveTick
  <2>8. q = p
    <3>1. cooldown' = [cooldown EXCEPT
                         ![q] = CooldownTicks[Head(fire_queue_by_player[q]).weapon_id]]
      BY <2>7 DEF ShotFired
    <3> QED
      BY <2>1, <2>2, <3>1
  <2>9. phase # "idle" /\ Alive(p)
    BY <2>7, <2>8 DEF ShotFired, MayShoot
  <2> QED
    BY <2>9 DEF IInv, DeathsAreFinal
<1> QED
  BY <1>1, Invariant, PTL DEF Spec, NoShotAfterDeath
=============================================================================
