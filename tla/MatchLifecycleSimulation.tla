---------------------- MODULE MatchLifecycleSimulation ----------------------
(***************************************************************************)
(* server/src/MatchLifecycleSimulation.cpp: the phases of the match, the   *)
(* respawn budget, the scoreboard and the winner.                          *)
(*                                                                         *)
(* resolve_tick sorts its inputs and loops over them, but what it does to  *)
(* one record does not depend on another: each loop is given here as the   *)
(* function it computes.  Respawns are relative: respawn_in is             *)
(* pending_respawn_tick - tick, 0 when there is none.                      *)
(*                                                                         *)
(* combat_alive and total_value stand for what the main loop passes in:    *)
(* who is in the combat simulation (the joined players) and alive, and     *)
(* what every inventory record is worth.  Inventory records are never      *)
(* erased, so that total_value keeps the players who left.                 *)
(***************************************************************************)
EXTENDS Integers, FiniteSets, Maps

CONSTANTS
  MaxPlayers,             \* player ids are 1 .. MaxPlayers
  NoWinner,               \* winner_player_id without a value
  PreMatchTicks,          \* MatchLifecycleConfig::pre_match_ticks
  MatchDurationSeconds,   \* ::match_duration_seconds
  RespawnDelayTicks,      \* ::respawn_delay_ticks
  RespawnsPerPlayer,      \* ::respawns_per_player
  MinPlayersToStart,      \* ::min_players_to_start
  TickLength,             \* tick_interval, in clock units
  SecondLength,           \* one second, in clock units
  MaxTotalValue           \* bound: what a player may carry

ASSUME MatchAssumption ==
  /\ MaxPlayers \in Nat
  /\ NoWinner \notin 1 .. MaxPlayers
  /\ {PreMatchTicks, RespawnsPerPlayer, MaxTotalValue} \subseteq Nat
  /\ {MatchDurationSeconds, RespawnDelayTicks, MinPlayersToStart, TickLength,
      SecondLength} \subseteq Nat \ {0}

VARIABLES
  phase,
  pre_match_ticks_remaining,
  in_match_seconds_remaining,
  in_match_second_accumulator,
  winner_player_id,
  players,        \* player -> record; never erased
  combat_alive,   \* CombatSimulation: player here -> alive
  total_value     \* InventoryLootSimulation: player ever here -> value carried

timer_vars == <<pre_match_ticks_remaining, in_match_seconds_remaining,
                in_match_second_accumulator>>
match_vars == <<phase, timer_vars, winner_player_id>>
vars == <<match_vars, players, combat_alive, total_value>>

Players == 1 .. MaxPlayers

NewRecord ==
  [kills |-> 0, deaths |-> 0, coins |-> 0,
   respawns_remaining |-> RespawnsPerPlayer, respawn_in |-> 0,
   alive |-> TRUE, eliminated |-> FALSE, connected |-> TRUE]

Init ==
  /\ phase = "pre_match"
  /\ pre_match_ticks_remaining = PreMatchTicks
  /\ in_match_seconds_remaining = MatchDurationSeconds
  /\ in_match_second_accumulator = 0
  /\ winner_player_id = NoWinner
  /\ players = EmptyMap
  /\ combat_alive = EmptyMap
  /\ total_value = EmptyMap

-----------------------------------------------------------------------------
(* Joins and departures *)

\* A join: ensure_player in the combat, inventory and match simulations.
EnsurePlayer(p) ==
  /\ players' = Put(players, p,
       [(IF p \in DOMAIN players THEN players[p] ELSE NewRecord)
          EXCEPT !.connected = TRUE])
  /\ combat_alive' = Emplace(combat_alive, p, TRUE)
  /\ total_value' = Emplace(total_value, p, 0)
  /\ UNCHANGED match_vars

\* A departure that leaves the respawn of the player pending.
RemovePlayerPending(p) ==
  /\ p \in DOMAIN combat_alive
  /\ players' = [players EXCEPT ![p].connected = FALSE]
  /\ combat_alive' = Erase(combat_alive, {p})
  /\ UNCHANGED <<match_vars, total_value>>

\* A disconnect or a timeout: remove_player in the three simulations.
RemovePlayer(p) ==
  /\ p \in DOMAIN combat_alive
  /\ players' = [players EXCEPT ![p].connected = FALSE, ![p].respawn_in = 0]
  /\ combat_alive' = Erase(combat_alive, {p})
  /\ UNCHANGED <<match_vars, total_value>>

-----------------------------------------------------------------------------
(* The parts of resolve_tick *)

\* The opening part: the records take over what sessions, combat and inventory
\* say.  Each of the three sources marks its players connected (ensure_player).
Synced(alive, values) ==
  [p \in DOMAIN players |->
     [players[p] EXCEPT
        !.connected = p \in DOMAIN alive \/ p \in DOMAIN values,
        !.alive = IF p \in DOMAIN alive /\ players[p].respawn_in = 0
                  THEN alive[p] ELSE @,
        !.coins = values[p]]]

ConnectedCount(records) == Cardinality({p \in DOMAIN records : records[p].connected})

\* enter_in_match, for the records.
Fresh(records) ==
  [p \in DOMAIN records |->
     [records[p] EXCEPT !.alive = TRUE, !.eliminated = FALSE, !.respawn_in = 0,
                        !.respawns_remaining = RespawnsPerPlayer]]

\* What a death does to the record of the victim.
Struck(r) ==
  IF r.respawns_remaining > 0
  THEN [r EXCEPT !.deaths = @ + 1, !.alive = FALSE, !.eliminated = FALSE,
                 !.respawns_remaining = @ - 1, !.respawn_in = RespawnDelayTicks]
  ELSE [r EXCEPT !.deaths = @ + 1, !.alive = FALSE, !.eliminated = TRUE,
                 !.respawn_in = 0]

RespawnDue(r) == r.respawn_in = 1 /\ ~r.eliminated

\* What one tick of waiting does to a record: a respawn that is due ends it.
Waited(r) ==
  IF RespawnDue(r) THEN [r EXCEPT !.respawn_in = 0, !.alive = TRUE]
  ELSE [r EXCEPT !.respawn_in = IF @ > 0 THEN @ - 1 ELSE 0]

\* The kills a player has made, killer being a function on the victims.
KillsOf(p, killer) == Cardinality({v \in DOMAIN killer : killer[v] = p})

\* A scoreboard that credits a killer once, however many it killed.
ResolvedCreditOnce(records, killer) ==
  [p \in DOMAIN records |->
     LET r == IF p \in DOMAIN killer THEN Struck(records[p]) ELSE Waited(records[p])
     IN  [r EXCEPT !.kills = IF KillsOf(p, killer) > 0 THEN @ + 1 ELSE @]]

\* The loop over the deaths and the loop over the pending respawns.
Resolved(records, killer) ==
  [p \in DOMAIN records |->
     LET r == IF p \in DOMAIN killer THEN Struck(records[p]) ELSE Waited(records[p])
     IN  [r EXCEPT !.kills = @ + KillsOf(p, killer)]]

RespawnedPlayers(records, killer) ==
  {p \in DOMAIN records : p \notin DOMAIN killer /\ RespawnDue(records[p])}

Contenders(records) ==
  {p \in DOMAIN records : records[p].connected /\ ~records[p].eliminated}

\* A ranking that looks at the deaths before the kills.
RankingBetterDeathsFirst(records, p, q) ==
  LET a == records[p]
      b == records[q]
  IN  IF a.deaths # b.deaths THEN a.deaths < b.deaths
      ELSE IF a.kills # b.kills THEN a.kills > b.kills
      ELSE IF a.coins # b.coins THEN a.coins > b.coins
      ELSE p < q

RankingBetter(records, p, q) ==
  LET a == records[p]
      b == records[q]
  IN  IF a.kills # b.kills THEN a.kills > b.kills
      ELSE IF a.coins # b.coins THEN a.coins > b.coins
      ELSE IF a.deaths # b.deaths THEN a.deaths < b.deaths
      ELSE p < q

\* The while loop over whole seconds.
SecondsLeft ==
  LET elapsed == (in_match_second_accumulator + TickLength) \div SecondLength
  IN  IF in_match_seconds_remaining > elapsed
      THEN in_match_seconds_remaining - elapsed ELSE 0

EnterPostMatch(winner) ==
  /\ phase' = "post_match"
  /\ pre_match_ticks_remaining' = 0
  /\ in_match_seconds_remaining' = 0
  /\ in_match_second_accumulator' = 0
  /\ winner_player_id' = winner

\* A match that forgets at every tick what is left of a second.
StayInMatchForgetful(seconds, accumulator) ==
  /\ phase' = "in_match"
  /\ pre_match_ticks_remaining' = 0
  /\ in_match_seconds_remaining' = seconds
  /\ in_match_second_accumulator' = 0
  /\ winner_player_id' = NoWinner

StayInMatch(seconds, accumulator) ==
  /\ phase' = "in_match"
  /\ pre_match_ticks_remaining' = 0
  /\ in_match_seconds_remaining' = seconds
  /\ in_match_second_accumulator' = accumulator
  /\ winner_player_id' = NoWinner

\* The end of a tick in the match: a sole contender wins at once; when the time
\* is up the first of the scoreboard does.
Conclude(records, seconds, accumulator) ==
  \/ \E p \in DOMAIN records :
       /\ Contenders(records) = {p}
       /\ EnterPostMatch(p)
  \/ /\ Cardinality(Contenders(records)) # 1
     /\ seconds = 0
     /\ \E p \in DOMAIN records :
          /\ \A q \in DOMAIN records \ {p} : RankingBetter(records, p, q)
          /\ EnterPostMatch(p)
  \/ /\ Cardinality(Contenders(records)) # 1
     /\ seconds > 0
     /\ StayInMatch(seconds, accumulator)

-----------------------------------------------------------------------------
(* resolve_tick, by the phase it finds *)

\* Too few players: the countdown starts again.
CountdownReset ==
  /\ phase = "pre_match"
  /\ LET records == Synced(combat_alive, total_value)
     IN  /\ ConnectedCount(records) < MinPlayersToStart
         /\ players' = records
  /\ pre_match_ticks_remaining' = PreMatchTicks
  /\ UNCHANGED <<phase, in_match_seconds_remaining, in_match_second_accumulator,
                 winner_player_id, combat_alive, total_value>>

CountdownRuns ==
  /\ phase = "pre_match"
  /\ pre_match_ticks_remaining > 1
  /\ LET records == Synced(combat_alive, total_value)
     IN  /\ ConnectedCount(records) >= MinPlayersToStart
         /\ players' = records
  /\ pre_match_ticks_remaining' = pre_match_ticks_remaining - 1
  /\ UNCHANGED <<phase, in_match_seconds_remaining, in_match_second_accumulator,
                 winner_player_id, combat_alive, total_value>>

\* The match starts; the timer only begins with the next tick.
MatchStarts ==
  /\ phase = "pre_match"
  /\ pre_match_ticks_remaining <= 1
  /\ LET records == Synced(combat_alive, total_value)
     IN  /\ ConnectedCount(records) >= MinPlayersToStart
         /\ players' = Fresh(records)
         /\ Conclude(Fresh(records), MatchDurationSeconds, 0)
  /\ UNCHANGED <<combat_alive, total_value>>

\* A tick of the match, with the deaths combat has resolved (killer, a function
\* on the victims) and what the players carry after it.  The main loop then
\* calls CombatSimulation::respawn_player for those whose respawn was due.
MatchTick(killer, values) ==
  /\ phase = "in_match"
  /\ LET alive == [p \in DOMAIN combat_alive |->
                     combat_alive[p] /\ p \notin DOMAIN killer]
         synced == Synced(alive, values)
         records == Resolved(synced, killer)
         elapsed == in_match_seconds_remaining - SecondsLeft
     IN  /\ players' = records
         /\ combat_alive' = [p \in DOMAIN alive |->
              alive[p] \/ p \in RespawnedPlayers(synced, killer)]
         /\ Conclude(records, SecondsLeft,
                     in_match_second_accumulator + TickLength
                       - elapsed * SecondLength)
  /\ total_value' = values

\* A tick after the match that goes on counting.
AfterMatchTickScoring(killer, values) ==
  /\ phase = "post_match"
  /\ LET alive == [p \in DOMAIN combat_alive |->
                     combat_alive[p] /\ p \notin DOMAIN killer]
     IN  /\ players' = Resolved(Synced(alive, values), killer)
         /\ combat_alive' = alive
  /\ total_value' = values
  /\ UNCHANGED match_vars

\* After the match the records still follow combat and inventory: projectiles
\* that were in flight kill, but nobody scores and nobody respawns.
AfterMatchTick(killer, values) ==
  /\ phase = "post_match"
  /\ LET alive == [p \in DOMAIN combat_alive |->
                     combat_alive[p] /\ p \notin DOMAIN killer]
     IN  /\ players' = Synced(alive, values)
         /\ combat_alive' = alive
  /\ total_value' = values
  /\ UNCHANGED match_vars

\* Kills that combat may report: of players alive, by others who are here.
Killings ==
  UNION {[victims -> DOMAIN combat_alive] :
           victims \in SUBSET {p \in DOMAIN combat_alive : combat_alive[p]}}

Others(killer) == \A v \in DOMAIN killer : killer[v] # v

\* What the inventories may be worth after a tick: only the living pick up, and
\* the victims drop what they had.
ValuesAfter(killer) ==
  {values \in [DOMAIN total_value -> 0 .. MaxTotalValue] :
     \A p \in DOMAIN total_value :
       \/ p \in DOMAIN killer /\ values[p] = 0
       \/ p \notin DOMAIN killer /\ values[p] = total_value[p]
       \/ /\ phase = "in_match"
          /\ p \in DOMAIN combat_alive \ DOMAIN killer
          /\ combat_alive[p]
          /\ values[p] > total_value[p]}

ResolveTick ==
  \/ CountdownReset
  \/ CountdownRuns
  \/ MatchStarts
  \/ \E killer \in Killings :
       /\ Others(killer)
       /\ \E values \in ValuesAfter(killer) :
            MatchTick(killer, values) \/ AfterMatchTick(killer, values)

Next ==
  \/ \E p \in Players : EnsurePlayer(p) \/ RemovePlayer(p)
  \/ ResolveTick

Spec == Init /\ [][Next]_vars

\* The main loop calls resolve_tick for every tick, as long as the clients leave
\* it the time to run ticks at all.
FairSpec == Spec /\ WF_vars(ResolveTick)

-----------------------------------------------------------------------------
(* Properties *)

Record ==
  [kills : Nat, deaths : Nat, coins : Nat, respawns_remaining : 0 .. RespawnsPerPlayer,
   respawn_in : 0 .. RespawnDelayTicks, alive : BOOLEAN, eliminated : BOOLEAN,
   connected : BOOLEAN]

\* Every variable holds values of its kind, and only those its phase allows.
TypeOK ==
  /\ phase \in {"pre_match", "in_match", "post_match"}
  /\ pre_match_ticks_remaining \in 0 .. PreMatchTicks
  /\ in_match_seconds_remaining \in 0 .. MatchDurationSeconds
  /\ in_match_second_accumulator \in 0 .. SecondLength - 1
  /\ winner_player_id \in Players \cup {NoWinner}
  /\ DOMAIN players \subseteq Players
  /\ players \in [DOMAIN players -> Record]
  /\ DOMAIN combat_alive \subseteq DOMAIN players
  /\ combat_alive \in [DOMAIN combat_alive -> BOOLEAN]
  /\ DOMAIN total_value = DOMAIN players
  /\ total_value \in [DOMAIN total_value -> Nat]

\* The phase, the timer and the winner tell the same story.
PhaseConsistent ==
  /\ phase = "post_match" <=> winner_player_id # NoWinner
  /\ phase = "in_match" => in_match_seconds_remaining > 0
  /\ winner_player_id # NoWinner => winner_player_id \in DOMAIN players

\* The budget is a function of the deaths: whatever else happens to a player,
\* respawns, departures and returns included, each death in the match has taken
\* one unit of the budget, and exactly those are out who died once more than
\* the budget allows.
BudgetFollowsDeaths ==
  \A p \in DOMAIN players :
    LET r == players[p]
    IN  /\ phase = "pre_match" => r.deaths = 0
        /\ r.respawns_remaining =
             IF r.deaths < RespawnsPerPlayer THEN RespawnsPerPlayer - r.deaths ELSE 0
        /\ r.eliminated <=> r.deaths > RespawnsPerPlayer

\* The columns of the scoreboard, 0 for who was never here, and their sum.
KillsColumn == [p \in Players |-> IF p \in DOMAIN players THEN players[p].kills ELSE 0]
DeathsColumn == [p \in Players |-> IF p \in DOMAIN players THEN players[p].deaths ELSE 0]

TotalOf(column) ==
  LET upto[n \in 0 .. MaxPlayers] == IF n = 0 THEN 0 ELSE upto[n - 1] + column[n]
  IN  upto[MaxPlayers]

\* Every death is somebody's kill: the two columns of the scoreboard add up to
\* the same number, however many die at once and whoever has left since.
KillsMatchDeaths == TotalOf(KillsColumn) = TotalOf(DeathsColumn)

\* Nobody who may respawn waits for nothing: whoever lies dead during the match
\* has a respawn pending or is eliminated, and a respawn is pending only for
\* somebody who is here, dead and not eliminated.  respawn_player is therefore
\* never called for a player who is gone or alive.
RespawnsPendForTheDead ==
  phase = "in_match" => \A p \in DOMAIN players :
    /\ players[p].respawn_in > 0 =>
         p \in DOMAIN combat_alive /\ ~combat_alive[p] /\ ~players[p].eliminated
    /\ p \in DOMAIN combat_alive /\ ~combat_alive[p] =>
         players[p].respawn_in > 0 \/ players[p].eliminated

\* Once the match is over nobody scores, dies for the record or wins any more,
\* although projectiles still fly and players still join and leave.
ResultIsFinal ==
  [][phase = "post_match" =>
       /\ UNCHANGED match_vars
       /\ \A p \in DOMAIN players :
            /\ players'[p].kills = players[p].kills
            /\ players'[p].deaths = players[p].deaths
            /\ players'[p].eliminated = players[p].eliminated]_vars

\* Nobody still in the match has more kills than the winner
\* (docs/decision-log.md:75), whichever of the two rules ends it.
WinnerLeads ==
  [][phase # "post_match" /\ phase' = "post_match" =>
       \A p \in DOMAIN players' :
         \/ players'[p].eliminated
         \/ players'[p].kills <= players'[winner_player_id'].kills]_vars

\* A match that has begun ends.
MatchEnds == phase = "in_match" ~> phase = "post_match"

\* The strengthening that makes the invariants inductive: nobody is killed before
\* the match, so that it starts with everybody who is here alive.
MatchInv ==
  /\ TypeOK /\ PhaseConsistent /\ BudgetFollowsDeaths /\ RespawnsPendForTheDead
  /\ phase = "pre_match" => \A p \in DOMAIN combat_alive : combat_alive[p]

-----------------------------------------------------------------------------
(* What the documents say and the code does not do *)

\* docs/decision-log.md:74: "PreMatch countdown resets when connected players
\* drop below match.min_players_to_start".  The inventory summaries of players
\* who left mark them connected again, so that it goes on counting.
CountdownNeedsPlayers ==
  [][pre_match_ticks_remaining' < pre_match_ticks_remaining =>
       Cardinality(DOMAIN combat_alive) >= MinPlayersToStart]_vars

\* docs/architecture.md:19 says the module enforces the respawn budget, and
\* docs/decision-log.md:78 that an "exhausted budget marks player eliminated":
\* who is eliminated does not fight on.  A reconnect makes it alive again.
EliminatedStayDead ==
  phase = "in_match" => \A p \in DOMAIN combat_alive :
    players[p].eliminated => ~combat_alive[p]
=============================================================================
