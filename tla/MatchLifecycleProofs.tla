------------------------ MODULE MatchLifecycleProofs ------------------------
(***************************************************************************)
(* MatchLifecycleSimulation for any number of players, any respawn budget, *)
(* any delay and any tick rate: the records, the budget, the respawns and  *)
(* the winner never contradict one another, kills and deaths add up, the   *)
(* winner leads, and a result stands.                                      *)
(***************************************************************************)
EXTENDS MatchLifecycleSimulation, FiniteSetTheorems, TLAPS

\* What the assumption says, constant by constant.
LEMMA Constants ==
  /\ MaxPlayers \in Nat
  /\ NoWinner \notin Players
  /\ PreMatchTicks \in Nat /\ RespawnsPerPlayer \in Nat /\ MaxTotalValue \in Nat
  /\ MatchDurationSeconds \in Nat \ {0} /\ RespawnDelayTicks \in Nat \ {0}
  /\ TickLength \in Nat \ {0} /\ SecondLength \in Nat \ {0}
  BY MatchAssumption DEF Players

-----------------------------------------------------------------------------
(* The timer *)

\* The two brackets of integer division.
LEMMA DivisionBrackets ==
  ASSUME NEW a \in Nat, NEW b \in Nat \ {0}
  PROVE  a \div b \in Nat /\ b * (a \div b) <= a /\ a < b * (a \div b) + b
  BY SMTT(30)

\* The seconds that are left are a second count, and as long as there are some
\* the accumulator keeps less than a second.
LEMMA TimerExact ==
  ASSUME TypeOK
  PROVE  /\ SecondsLeft \in 0 .. MatchDurationSeconds
         /\ SecondsLeft > 0 =>
              in_match_second_accumulator + TickLength
                - (in_match_seconds_remaining - SecondsLeft) * SecondLength
              \in 0 .. SecondLength - 1
<1> DEFINE total == in_match_second_accumulator + TickLength
           elapsed == total \div SecondLength
<1>1. total \in Nat
  BY Constants DEF TypeOK
<1>2. /\ elapsed \in Nat
      /\ SecondLength * elapsed <= total
      /\ total < SecondLength * elapsed + SecondLength
  BY <1>1, Constants, DivisionBrackets
<1>3. SecondsLeft = IF in_match_seconds_remaining > elapsed
                    THEN in_match_seconds_remaining - elapsed ELSE 0
  BY DEF SecondsLeft
<1> HIDE DEF elapsed
<1>4. in_match_seconds_remaining \in 0 .. MatchDurationSeconds
  BY DEF TypeOK
<1>5. SecondsLeft \in 0 .. MatchDurationSeconds
  BY <1>2, <1>3, <1>4, Constants
<1> DEFINE rest == in_match_second_accumulator + TickLength
                     - (in_match_seconds_remaining - SecondsLeft) * SecondLength
<1>6. ASSUME SecondsLeft > 0
      PROVE  rest \in 0 .. SecondLength - 1
  <2>1. in_match_seconds_remaining - SecondsLeft = elapsed
    BY <1>2, <1>3, <1>4, <1>6
  <2> DEFINE product == SecondLength * elapsed
  <2>2. elapsed * SecondLength = product /\ product \in Int
    BY <1>2, Constants
  <2>3. product <= total /\ total < product + SecondLength
    BY <1>2
  <2>4. (in_match_seconds_remaining - SecondsLeft) * SecondLength = product
    BY <2>1, <2>2
  <2> HIDE DEF product
  <2>5. rest = total - product
    BY <2>2, <2>4, Constants DEF TypeOK
  <2> HIDE DEF rest
  <2> QED
    BY <1>1, <2>2, <2>3, <2>5, Constants
<1> HIDE DEF rest
<1>7. SecondsLeft > 0 => rest \in 0 .. SecondLength - 1
  BY <1>6
<1> QED
  BY <1>5, <1>7, Zenon DEF rest

-----------------------------------------------------------------------------
(* The records *)

\* A set of kills is counted by a natural number.
LEMMA KillsCounted ==
  ASSUME NEW p, NEW killer, DOMAIN killer \subseteq Players
  PROVE  KillsOf(p, killer) \in Nat
<1>1. IsFiniteSet(Players)
  BY FS_Interval, Constants DEF Players
<1>2. IsFiniteSet({v \in DOMAIN killer : killer[v] = p})
  BY <1>1, FS_Subset
<1> QED
  BY <1>2, FS_CardinalityType DEF KillsOf

\* Taking over what combat and inventory say changes neither budget nor respawn.
LEMMA SyncedRecords ==
  ASSUME TypeOK,
         NEW alive \in [DOMAIN combat_alive -> BOOLEAN],
         NEW values \in [DOMAIN total_value -> Nat]
  PROVE  /\ DOMAIN Synced(alive, values) = DOMAIN players
         /\ Synced(alive, values) \in [DOMAIN players -> Record]
         /\ \A p \in DOMAIN players :
              /\ Synced(alive, values)[p].kills = players[p].kills
              /\ Synced(alive, values)[p].deaths = players[p].deaths
              /\ Synced(alive, values)[p].respawns_remaining
                   = players[p].respawns_remaining
              /\ Synced(alive, values)[p].respawn_in = players[p].respawn_in
              /\ Synced(alive, values)[p].eliminated = players[p].eliminated
<1>1. players \in [DOMAIN players -> Record] /\ DOMAIN total_value = DOMAIN players
  BY DEF TypeOK
<1> DEFINE connected(p) == p \in DOMAIN alive \/ p \in DOMAIN values
           lives(p) == IF p \in DOMAIN alive /\ players[p].respawn_in = 0
                       THEN alive[p] ELSE players[p].alive
           record(p) == [players[p] EXCEPT !.connected = connected(p),
                                           !.alive = lives(p), !.coins = values[p]]
<1>2. Synced(alive, values) = [p \in DOMAIN players |-> record(p)]
  BY <1>1 DEF Synced
<1>3. ASSUME NEW p \in DOMAIN players
      PROVE  /\ record(p) \in Record
             /\ record(p).kills = players[p].kills
             /\ record(p).deaths = players[p].deaths
             /\ record(p).respawns_remaining = players[p].respawns_remaining
             /\ record(p).respawn_in = players[p].respawn_in
             /\ record(p).eliminated = players[p].eliminated
  <2>1. players[p] \in Record /\ values[p] \in Nat
    BY <1>1
  <2>2. connected(p) \in BOOLEAN
    OBVIOUS
  <2>3. lives(p) \in BOOLEAN
    BY <2>1 DEF Record
  <2> HIDE DEF connected, lives
  <2>4. record(p) \in Record
    BY <2>1, <2>2, <2>3, Zenon DEF Record
  <2> QED
    BY <2>1, <2>4 DEF Record
<1> HIDE DEF record
<1> QED
  BY <1>2, <1>3

\* A new match: everybody alive, the budget full, no respawn pending.
LEMMA FreshRecords ==
  ASSUME NEW D, NEW records \in [D -> Record]
  PROVE  /\ DOMAIN Fresh(records) = D
         /\ Fresh(records) \in [D -> Record]
         /\ \A p \in D :
              /\ Fresh(records)[p].deaths = records[p].deaths
              /\ Fresh(records)[p].respawns_remaining = RespawnsPerPlayer
              /\ Fresh(records)[p].eliminated = FALSE
              /\ Fresh(records)[p].respawn_in = 0
<1>1. 0 \in 0 .. RespawnDelayTicks /\ RespawnsPerPlayer \in 0 .. RespawnsPerPlayer
  BY Constants
<1> QED
  BY <1>1 DEF Fresh, Record

\* A death takes one unit of the budget, or eliminates.
LEMMA StruckRecord ==
  ASSUME NEW r \in Record
  PROVE  /\ Struck(r) \in Record
         /\ Struck(r).deaths = r.deaths + 1
         /\ Struck(r).kills = r.kills
         /\ Struck(r).respawns_remaining =
              IF r.respawns_remaining > 0 THEN r.respawns_remaining - 1 ELSE 0
         /\ Struck(r).eliminated = (r.respawns_remaining = 0)
         /\ Struck(r).respawn_in =
              IF r.respawns_remaining > 0 THEN RespawnDelayTicks ELSE 0
<1> DEFINE z == Struck(r)
<1>1. /\ r.deaths + 1 \in Nat
      /\ r.respawns_remaining \in 0 .. RespawnsPerPlayer
      /\ 0 \in 0 .. RespawnDelayTicks /\ RespawnDelayTicks \in 0 .. RespawnDelayTicks
  BY Constants DEF Record
<1>2. CASE r.respawns_remaining > 0
  <2>1. z = [r EXCEPT !.deaths = @ + 1, !.alive = FALSE, !.eliminated = FALSE,
                      !.respawns_remaining = @ - 1, !.respawn_in = RespawnDelayTicks]
    BY <1>2 DEF Struck
  <2>2. r.respawns_remaining - 1 \in 0 .. RespawnsPerPlayer
    BY <1>1, <1>2, Constants
  <2> HIDE DEF z
  <2>3. z \in Record
    BY <1>1, <2>1, <2>2 DEF Record
  <2>4. /\ z.deaths = r.deaths + 1 /\ z.kills = r.kills /\ z.eliminated = FALSE
        /\ z.respawns_remaining = r.respawns_remaining - 1
        /\ z.respawn_in = RespawnDelayTicks
    BY <2>1 DEF Record
  <2>5. (r.respawns_remaining = 0) = FALSE
    BY <1>2
  <2> QED
    BY <1>2, <2>3, <2>4, <2>5 DEF z
<1>3. CASE ~(r.respawns_remaining > 0)
  <2>1. z = [r EXCEPT !.deaths = @ + 1, !.alive = FALSE, !.eliminated = TRUE,
                      !.respawn_in = 0]
    BY <1>3 DEF Struck
  <2>2. r.respawns_remaining = 0
    BY <1>1, <1>3, Constants
  <2> HIDE DEF z
  <2>3. z \in Record
    BY <1>1, <2>1 DEF Record
  <2>4. /\ z.deaths = r.deaths + 1 /\ z.kills = r.kills /\ z.eliminated = TRUE
        /\ z.respawns_remaining = 0 /\ z.respawn_in = 0
    BY <2>1, <2>2 DEF Record
  <2> QED
    BY <1>3, <2>2, <2>3, <2>4 DEF z
<1> QED
  BY <1>2, <1>3

\* Waiting changes the respawn and nothing of the budget.
LEMMA WaitedRecord ==
  ASSUME NEW r \in Record
  PROVE  /\ Waited(r) \in Record
         /\ Waited(r).deaths = r.deaths
         /\ Waited(r).kills = r.kills
         /\ Waited(r).respawns_remaining = r.respawns_remaining
         /\ Waited(r).eliminated = r.eliminated
         /\ Waited(r).respawn_in = IF r.respawn_in > 0 THEN r.respawn_in - 1 ELSE 0
<1> DEFINE z == Waited(r)
           left == IF r.respawn_in > 0 THEN r.respawn_in - 1 ELSE 0
<1>1. left \in 0 .. RespawnDelayTicks /\ (r.respawn_in = 1 => left = 0)
  BY Constants DEF Record
<1>2. CASE RespawnDue(r)
  <2>1. z = [r EXCEPT !.respawn_in = 0, !.alive = TRUE] /\ left = 0
    BY <1>1, <1>2 DEF Waited, RespawnDue
  <2> HIDE DEF z, left
  <2>2. z \in Record
    BY <1>1, <2>1 DEF Record
  <2>3. /\ z.deaths = r.deaths /\ z.kills = r.kills /\ z.eliminated = r.eliminated
        /\ z.respawns_remaining = r.respawns_remaining /\ z.respawn_in = left
    BY <2>1 DEF Record
  <2> QED
    BY <2>2, <2>3 DEF z, left
<1>3. CASE ~RespawnDue(r)
  <2>1. z = [r EXCEPT !.respawn_in = left]
    BY <1>3 DEF Waited
  <2> HIDE DEF z, left
  <2>2. z \in Record
    BY <1>1, <2>1 DEF Record
  <2>3. /\ z.deaths = r.deaths /\ z.kills = r.kills /\ z.eliminated = r.eliminated
        /\ z.respawns_remaining = r.respawns_remaining /\ z.respawn_in = left
    BY <2>1 DEF Record
  <2> QED
    BY <2>2, <2>3 DEF z, left
<1> QED
  BY <1>2, <1>3

\* How a death, and a tick of waiting, change what the budget depends on.
StruckFrom(r, z) ==
  /\ z.deaths = r.deaths + 1
  /\ z.respawns_remaining =
       IF r.respawns_remaining > 0 THEN r.respawns_remaining - 1 ELSE 0
  /\ z.eliminated = (r.respawns_remaining = 0)
  /\ z.respawn_in = IF r.respawns_remaining > 0 THEN RespawnDelayTicks ELSE 0

WaitedFrom(r, z) ==
  /\ z.deaths = r.deaths
  /\ z.respawns_remaining = r.respawns_remaining
  /\ z.eliminated = r.eliminated
  /\ z.respawn_in = IF r.respawn_in > 0 THEN r.respawn_in - 1 ELSE 0

\* The two loops: who was killed is struck, everybody else has waited.
LEMMA ResolvedRecords ==
  ASSUME NEW D, NEW records \in [D -> Record],
         NEW killer, DOMAIN killer \subseteq Players
  PROVE  /\ DOMAIN Resolved(records, killer) = D
         /\ Resolved(records, killer) \in [D -> Record]
         /\ \A p \in D \cap DOMAIN killer :
              StruckFrom(records[p], Resolved(records, killer)[p])
         /\ \A p \in D \ DOMAIN killer :
              WaitedFrom(records[p], Resolved(records, killer)[p])
<1> DEFINE R == Resolved(records, killer)
           step(p) == IF p \in DOMAIN killer THEN Struck(records[p])
                      ELSE Waited(records[p])
<1>1. DOMAIN R = D
  BY DEF Resolved
<1>2. \A p \in D : R[p] = [step(p) EXCEPT !.kills = @ + KillsOf(p, killer)]
  BY DEF Resolved
<1>3. \A p \in D : step(p) \in Record
  BY StruckRecord, WaitedRecord
<1>4. \A p \in D : KillsOf(p, killer) \in Nat
  BY KillsCounted
<1> HIDE DEF R, step
<1>5. \A p \in D :
        /\ R[p] \in Record
        /\ R[p].deaths = step(p).deaths
        /\ R[p].respawns_remaining = step(p).respawns_remaining
        /\ R[p].eliminated = step(p).eliminated
        /\ R[p].respawn_in = step(p).respawn_in
  <2> TAKE p \in D
  <2> DEFINE r == step(p)
             k == r.kills + KillsOf(p, killer)
  <2>1. r \in Record /\ k \in Nat
    BY <1>3, <1>4 DEF Record
  <2>2. R[p] = [r EXCEPT !.kills = k]
    BY <1>2
  <2> HIDE DEF r, k
  <2>3. R[p] \in Record
    BY <2>1, <2>2 DEF Record
  <2>4. /\ R[p].deaths = r.deaths /\ R[p].respawns_remaining = r.respawns_remaining
        /\ R[p].eliminated = r.eliminated /\ R[p].respawn_in = r.respawn_in
    BY <2>1, <2>2 DEF Record
  <2> QED
    BY <2>3, <2>4 DEF r
<1>6. R \in [D -> Record]
  <2>1. R = [p \in D |-> R[p]]
    BY DEF R, Resolved
  <2> QED
    BY <1>5, <2>1
<1>7. \A p \in D \cap DOMAIN killer : step(p) = Struck(records[p])
  BY DEF step
<1>8. \A p \in D \ DOMAIN killer : step(p) = Waited(records[p])
  BY DEF step
<1>9. \A p \in D \cap DOMAIN killer : StruckFrom(records[p], R[p])
  <2> TAKE p \in D \cap DOMAIN killer
  <2>1. records[p] \in Record /\ step(p) = Struck(records[p])
    BY <1>7
  <2> QED
    BY <1>5, <2>1, StruckRecord DEF StruckFrom
<1>10. \A p \in D \ DOMAIN killer : WaitedFrom(records[p], R[p])
  <2> TAKE p \in D \ DOMAIN killer
  <2>1. records[p] \in Record /\ step(p) = Waited(records[p])
    BY <1>8
  <2> QED
    BY <1>5, <2>1, WaitedRecord DEF WaitedFrom
<1> QED
  BY <1>1, <1>6, <1>9, <1>10 DEF R

-----------------------------------------------------------------------------
(* The end of a tick *)

\* However a tick of the match ends, phase, timer and winner fit together.
LEMMA ConcludeConsistent ==
  ASSUME NEW records, DOMAIN records \subseteq Players,
         NEW seconds \in 0 .. MatchDurationSeconds, NEW accumulator,
         seconds > 0 => accumulator \in 0 .. SecondLength - 1,
         Conclude(records, seconds, accumulator)
  PROVE  /\ phase' \in {"in_match", "post_match"}
         /\ pre_match_ticks_remaining' = 0
         /\ in_match_seconds_remaining' \in 0 .. MatchDurationSeconds
         /\ phase' = "in_match" => in_match_seconds_remaining' > 0
         /\ in_match_second_accumulator' \in 0 .. SecondLength - 1
         /\ winner_player_id' \in Players \cup {NoWinner}
         /\ phase' = "post_match" <=> winner_player_id' # NoWinner
         /\ winner_player_id' # NoWinner => winner_player_id' \in DOMAIN records
<1>1. ASSUME NEW p \in DOMAIN records, EnterPostMatch(p)
      PROVE  /\ phase' = "post_match" /\ pre_match_ticks_remaining' = 0
             /\ in_match_seconds_remaining' = 0 /\ in_match_second_accumulator' = 0
             /\ winner_player_id' = p /\ p \in Players /\ p # NoWinner
  BY <1>1, Constants DEF EnterPostMatch
<1>2. ASSUME StayInMatch(seconds, accumulator), seconds > 0
      PROVE  /\ phase' = "in_match" /\ pre_match_ticks_remaining' = 0
             /\ in_match_seconds_remaining' = seconds
             /\ in_match_second_accumulator' = accumulator
             /\ winner_player_id' = NoWinner
  BY <1>2 DEF StayInMatch
<1>3. 0 \in 0 .. MatchDurationSeconds /\ 0 \in 0 .. SecondLength - 1
  BY Constants
<1>4. \/ \E p \in DOMAIN records : EnterPostMatch(p)
      \/ StayInMatch(seconds, accumulator) /\ seconds > 0
  BY DEF Conclude
<1> QED
  BY <1>1, <1>2, <1>3, <1>4

-----------------------------------------------------------------------------
(* The invariant is inductive *)

LEMMA InitMatch == Init => MatchInv
<1> SUFFICES ASSUME Init PROVE MatchInv
  OBVIOUS
<1>1. TypeOK
  BY Constants DEF Init, TypeOK, EmptyMap
<1>2. PhaseConsistent
  BY DEF Init, PhaseConsistent
<1> QED
  BY <1>1, <1>2 DEF Init, MatchInv, EmptyMap, BudgetFollowsDeaths,
                    RespawnsPendForTheDead

\* A join finds the record of an earlier stay, or makes a new one.
LEMMA EnsureKeepsMatch ==
  ASSUME MatchInv, NEW p \in Players, EnsurePlayer(p)
  PROVE  MatchInv'
<1> DEFINE old == IF p \in DOMAIN players THEN players[p] ELSE NewRecord
<1> USE DEF MatchInv
<1>1. NewRecord \in Record
  BY Constants DEF NewRecord, Record
<1>2. old \in Record
  BY <1>1 DEF TypeOK
<1>3. players' = [q \in DOMAIN players \cup {p} |->
                    IF q = p THEN [old EXCEPT !.connected = TRUE] ELSE players[q]]
  BY DEF EnsurePlayer, Put
<1> HIDE DEF old
<1>4. /\ [old EXCEPT !.connected = TRUE] \in Record
      /\ DOMAIN players' = DOMAIN players \cup {p}
      /\ players'[p] = [old EXCEPT !.connected = TRUE]
      /\ \A q \in DOMAIN players \ {p} : players'[q] = players[q]
  BY <1>2, <1>3 DEF Record
<1>5. /\ players'[p].deaths = old.deaths
      /\ players'[p].respawns_remaining = old.respawns_remaining
      /\ players'[p].eliminated = old.eliminated
      /\ players'[p].respawn_in = old.respawn_in
  BY <1>2, <1>4 DEF Record
<1>6. combat_alive' = Emplace(combat_alive, p, TRUE)
      /\ total_value' = Emplace(total_value, p, 0) /\ UNCHANGED match_vars
  BY DEF EnsurePlayer
<1>7. /\ DOMAIN combat_alive' = DOMAIN combat_alive \cup {p}
      /\ \A q \in DOMAIN combat_alive : combat_alive'[q] = combat_alive[q]
      /\ p \notin DOMAIN combat_alive => combat_alive'[p] = TRUE
      /\ combat_alive' \in [DOMAIN combat_alive' -> BOOLEAN]
  BY <1>6 DEF TypeOK, Emplace, Put
<1>8. /\ DOMAIN total_value' = DOMAIN total_value \cup {p}
      /\ total_value' \in [DOMAIN total_value' -> Nat]
  BY <1>6 DEF TypeOK, Emplace, Put
<1>9. TypeOK'
  <2>1. players' \in [DOMAIN players' -> Record]
    BY <1>3, <1>4 DEF TypeOK
  <2> QED
    BY <2>1, <1>4, <1>6, <1>7, <1>8 DEF TypeOK, match_vars, timer_vars
<1>10. PhaseConsistent'
  BY <1>4, <1>6 DEF PhaseConsistent, match_vars, timer_vars
<1>11. BudgetFollowsDeaths'
  <2>1. /\ phase = "pre_match" => old.deaths = 0
        /\ old.respawns_remaining =
             IF old.deaths < RespawnsPerPlayer THEN RespawnsPerPlayer - old.deaths ELSE 0
        /\ old.eliminated <=> old.deaths > RespawnsPerPlayer
    BY Constants DEF old, NewRecord, BudgetFollowsDeaths
  <2>2. phase' = phase
    BY <1>6 DEF match_vars
  <2> SUFFICES ASSUME NEW q \in DOMAIN players'
               PROVE  /\ phase = "pre_match" => players'[q].deaths = 0
                      /\ players'[q].respawns_remaining =
                           IF players'[q].deaths < RespawnsPerPlayer
                           THEN RespawnsPerPlayer - players'[q].deaths ELSE 0
                      /\ players'[q].eliminated <=> players'[q].deaths > RespawnsPerPlayer
    BY <2>2 DEF BudgetFollowsDeaths
  <2>3. CASE q = p
    BY <1>5, <2>1, <2>3
  <2>4. CASE q # p
    BY <1>4, <2>4 DEF BudgetFollowsDeaths
  <2> QED
    BY <2>3, <2>4
<1>12. RespawnsPendForTheDead'
  <2>1. p \notin DOMAIN combat_alive /\ phase = "in_match" => old.respawn_in = 0
    BY Constants DEF old, NewRecord, RespawnsPendForTheDead, TypeOK, Record
  <2>2. p \in DOMAIN combat_alive => p \in DOMAIN players /\ old = players[p]
    BY DEF old, TypeOK
  <2>3. phase' = phase
    BY <1>6 DEF match_vars
  <2> SUFFICES ASSUME phase = "in_match", NEW q \in DOMAIN players'
               PROVE  /\ players'[q].respawn_in > 0 =>
                           q \in DOMAIN combat_alive' /\ ~combat_alive'[q]
                           /\ ~players'[q].eliminated
                      /\ q \in DOMAIN combat_alive' /\ ~combat_alive'[q] =>
                           players'[q].respawn_in > 0 \/ players'[q].eliminated
    BY <2>3 DEF RespawnsPendForTheDead
  <2>4. CASE q = p /\ p \notin DOMAIN combat_alive
    BY <1>5, <1>7, <2>1, <2>4
  <2>5. CASE q = p /\ p \in DOMAIN combat_alive
    BY <1>5, <1>7, <2>2, <2>5 DEF RespawnsPendForTheDead
  <2>6. CASE q # p
    BY <1>4, <1>7, <2>6 DEF RespawnsPendForTheDead
  <2> QED
    BY <2>4, <2>5, <2>6
<1>13. phase' = "pre_match" => \A q \in DOMAIN combat_alive' : combat_alive'[q]
  BY <1>6, <1>7 DEF match_vars
<1> QED
  BY <1>9, <1>10, <1>11, <1>12, <1>13

\* A departure cancels the respawn of the player and keeps the rest of the record.
LEMMA RemoveKeepsMatch ==
  ASSUME MatchInv, NEW p \in Players, RemovePlayer(p)
  PROVE  MatchInv'
<1> USE DEF MatchInv
<1>1. /\ p \in DOMAIN combat_alive /\ p \in DOMAIN players
      /\ players' = [players EXCEPT ![p].connected = FALSE, ![p].respawn_in = 0]
      /\ combat_alive' = Erase(combat_alive, {p})
      /\ UNCHANGED <<match_vars, total_value>>
  BY DEF RemovePlayer, TypeOK
<1>2. /\ DOMAIN players' = DOMAIN players
      /\ players' \in [DOMAIN players -> Record]
      /\ \A q \in DOMAIN players \ {p} : players'[q] = players[q]
      /\ players'[p].deaths = players[p].deaths
      /\ players'[p].respawns_remaining = players[p].respawns_remaining
      /\ players'[p].eliminated = players[p].eliminated
      /\ players'[p].respawn_in = 0
  <2> DEFINE r == players[p]
             gone == [r EXCEPT !.connected = FALSE, !.respawn_in = 0]
  <2>1. players \in [DOMAIN players -> Record]
    BY DEF TypeOK
  <2>2. players' = [players EXCEPT ![p] = gone]
    BY <1>1, <2>1 DEF Record
  <2>3. r \in Record /\ 0 \in 0 .. RespawnDelayTicks
    BY <1>1, <2>1, Constants
  <2> HIDE DEF r
  <2>4. /\ gone \in Record /\ gone.deaths = r.deaths
        /\ gone.respawns_remaining = r.respawns_remaining
        /\ gone.eliminated = r.eliminated /\ gone.respawn_in = 0
    BY <2>3 DEF Record
  <2> HIDE DEF gone
  <2> QED
    BY <1>1, <2>1, <2>2, <2>4 DEF r
<1>3. /\ DOMAIN combat_alive' = DOMAIN combat_alive \ {p}
      /\ \A q \in DOMAIN combat_alive' : combat_alive'[q] = combat_alive[q]
      /\ combat_alive' \in [DOMAIN combat_alive' -> BOOLEAN]
  BY <1>1 DEF Erase, TypeOK
<1>4. TypeOK'
  BY <1>1, <1>2, <1>3 DEF TypeOK, match_vars, timer_vars
<1>5. PhaseConsistent'
  BY <1>1, <1>2 DEF PhaseConsistent, match_vars, timer_vars
<1>6. BudgetFollowsDeaths'
  BY <1>1, <1>2 DEF BudgetFollowsDeaths, match_vars
<1>7. RespawnsPendForTheDead'
  <2> SUFFICES ASSUME phase = "in_match", NEW q \in DOMAIN players
               PROVE  /\ players'[q].respawn_in > 0 =>
                           q \in DOMAIN combat_alive' /\ ~combat_alive'[q]
                           /\ ~players'[q].eliminated
                      /\ q \in DOMAIN combat_alive' /\ ~combat_alive'[q] =>
                           players'[q].respawn_in > 0 \/ players'[q].eliminated
    BY <1>1, <1>2 DEF RespawnsPendForTheDead, match_vars
  <2>1. CASE q = p
    BY <1>2, <1>3, <2>1
  <2>2. CASE q # p
    BY <1>2, <1>3, <2>2 DEF RespawnsPendForTheDead
  <2> QED
    BY <2>1, <2>2
<1>8. phase' = "pre_match" => \A q \in DOMAIN combat_alive' : combat_alive'[q]
  BY <1>1, <1>3 DEF match_vars
<1> QED
  BY <1>4, <1>5, <1>6, <1>7, <1>8

\* A tick of the countdown only takes over what combat and inventory say.
LEMMA CountdownKeepsMatch ==
  ASSUME MatchInv, CountdownReset \/ CountdownRuns
  PROVE  MatchInv'
<1> USE DEF MatchInv
<1> DEFINE records == Synced(combat_alive, total_value)
<1>1. /\ phase = "pre_match" /\ players' = records
      /\ pre_match_ticks_remaining' \in 0 .. PreMatchTicks
      /\ UNCHANGED <<phase, in_match_seconds_remaining, in_match_second_accumulator,
                     winner_player_id, combat_alive, total_value>>
  BY Constants DEF CountdownReset, CountdownRuns, TypeOK
<1>2. /\ combat_alive \in [DOMAIN combat_alive -> BOOLEAN]
      /\ total_value \in [DOMAIN total_value -> Nat]
  BY DEF TypeOK
<1>3. /\ DOMAIN records = DOMAIN players
      /\ records \in [DOMAIN players -> Record]
      /\ \A p \in DOMAIN players :
           /\ records[p].deaths = players[p].deaths
           /\ records[p].respawns_remaining = players[p].respawns_remaining
           /\ records[p].eliminated = players[p].eliminated
  BY <1>2, SyncedRecords
<1> HIDE DEF records
<1>4. TypeOK'
  BY <1>1, <1>3 DEF TypeOK
<1>5. PhaseConsistent'
  BY <1>1, <1>3 DEF PhaseConsistent
<1>6. BudgetFollowsDeaths'
  BY <1>1, <1>3 DEF BudgetFollowsDeaths
<1>7. RespawnsPendForTheDead'
  BY <1>1 DEF RespawnsPendForTheDead
<1>8. phase' = "pre_match" => \A q \in DOMAIN combat_alive' : combat_alive'[q]
  BY <1>1
<1> QED
  BY <1>4, <1>5, <1>6, <1>7, <1>8

\* The match starts with a fresh budget and everybody alive.
LEMMA StartKeepsMatch ==
  ASSUME MatchInv, MatchStarts
  PROVE  MatchInv'
<1> USE DEF MatchInv
<1> DEFINE synced == Synced(combat_alive, total_value)
<1>1. /\ phase = "pre_match" /\ players' = Fresh(synced)
      /\ Conclude(Fresh(synced), MatchDurationSeconds, 0)
      /\ combat_alive' = combat_alive /\ total_value' = total_value
  BY DEF MatchStarts
<1>2. /\ combat_alive \in [DOMAIN combat_alive -> BOOLEAN]
      /\ total_value \in [DOMAIN total_value -> Nat]
  BY DEF TypeOK
<1>3. /\ synced \in [DOMAIN players -> Record]
      /\ \A p \in DOMAIN players : synced[p].deaths = players[p].deaths
  BY <1>2, SyncedRecords
<1> HIDE DEF synced
<1>4. /\ DOMAIN players' = DOMAIN players
      /\ players' \in [DOMAIN players -> Record]
      /\ \A p \in DOMAIN players :
           /\ players'[p].deaths = 0
           /\ players'[p].respawns_remaining = RespawnsPerPlayer
           /\ players'[p].eliminated = FALSE
           /\ players'[p].respawn_in = 0
  <2>1. \A p \in DOMAIN players : synced[p].deaths = 0
    BY <1>1, <1>3 DEF BudgetFollowsDeaths
  <2>2. /\ DOMAIN Fresh(synced) = DOMAIN players
        /\ Fresh(synced) \in [DOMAIN players -> Record]
        /\ \A p \in DOMAIN players :
             /\ Fresh(synced)[p].deaths = synced[p].deaths
             /\ Fresh(synced)[p].respawns_remaining = RespawnsPerPlayer
             /\ Fresh(synced)[p].eliminated = FALSE
             /\ Fresh(synced)[p].respawn_in = 0
    BY <1>3, FreshRecords
  <2> QED
    BY <1>1, <2>1, <2>2
<1>5. /\ DOMAIN Fresh(synced) \subseteq Players
      /\ MatchDurationSeconds \in 0 .. MatchDurationSeconds
      /\ 0 \in 0 .. SecondLength - 1
  <2>1. DOMAIN players \subseteq Players
    BY DEF TypeOK
  <2> QED
    BY <1>1, <1>4, <2>1, Constants
<1>6. /\ phase' \in {"in_match", "post_match"}
      /\ pre_match_ticks_remaining' = 0
      /\ in_match_seconds_remaining' \in 0 .. MatchDurationSeconds
      /\ phase' = "in_match" => in_match_seconds_remaining' > 0
      /\ in_match_second_accumulator' \in 0 .. SecondLength - 1
      /\ winner_player_id' \in Players \cup {NoWinner}
      /\ phase' = "post_match" <=> winner_player_id' # NoWinner
      /\ winner_player_id' # NoWinner => winner_player_id' \in DOMAIN players'
  BY <1>1, <1>5, ConcludeConsistent
<1>7. TypeOK'
  BY <1>1, <1>4, <1>6, Constants DEF TypeOK
<1>8. PhaseConsistent'
  BY <1>6 DEF PhaseConsistent
<1>9. BudgetFollowsDeaths'
  <2>1. phase' # "pre_match"
    BY <1>6
  <2> QED
    BY <1>4, <2>1, Constants DEF BudgetFollowsDeaths
<1>10. RespawnsPendForTheDead'
  <2>1. \A p \in DOMAIN combat_alive' : combat_alive'[p]
    BY <1>1
  <2>2. \A p \in DOMAIN players' : players'[p].respawn_in = 0
    BY <1>4
  <2>3. \A p \in DOMAIN players' : ~(players'[p].respawn_in > 0)
    BY <2>2
  <2> QED
    BY <2>1, <2>3 DEF RespawnsPendForTheDead
<1>11. phase' # "pre_match"
  BY <1>6
<1> QED
  BY <1>7, <1>8, <1>9, <1>10, <1>11

\* What combat and inventory hand over has the right types, and the victims were
\* alive.
LEMMA ReportsTyped ==
  ASSUME TypeOK, NEW killer \in Killings, NEW values \in ValuesAfter(killer)
  PROVE  /\ DOMAIN killer \subseteq DOMAIN combat_alive
         /\ DOMAIN killer \subseteq Players
         /\ \A v \in DOMAIN killer : combat_alive[v]
         /\ values \in [DOMAIN total_value -> Nat]
<1>1. PICK victims \in SUBSET {p \in DOMAIN combat_alive : combat_alive[p]} :
        killer \in [victims -> DOMAIN combat_alive]
  BY DEF Killings
<1>2. DOMAIN killer = victims
  BY <1>1
<1>3. DOMAIN combat_alive \subseteq Players
  BY DEF TypeOK
<1>4. values \in [DOMAIN total_value -> 0 .. MaxTotalValue]
  BY DEF ValuesAfter
<1>5. 0 .. MaxTotalValue \subseteq Nat
  BY Constants
<1> QED
  BY <1>1, <1>2, <1>3, <1>4, <1>5

\* What a tick does to the records, given the records it starts from.
LEMMA TickRecords ==
  ASSUME TypeOK, NEW killer \in Killings, NEW values \in ValuesAfter(killer),
         NEW alive \in [DOMAIN combat_alive -> BOOLEAN]
  PROVE  LET synced == Synced(alive, values)
             records == Resolved(synced, killer)
         IN  /\ synced \in [DOMAIN players -> Record]
             /\ records \in [DOMAIN players -> Record]
             /\ \A p \in DOMAIN players :
                  /\ synced[p].respawn_in = players[p].respawn_in
                  /\ synced[p].eliminated = players[p].eliminated
                  /\ p \in DOMAIN killer => StruckFrom(players[p], records[p])
                  /\ p \notin DOMAIN killer => WaitedFrom(players[p], records[p])
<1> DEFINE synced == Synced(alive, values)
           records == Resolved(synced, killer)
<1>1. DOMAIN killer \subseteq Players /\ values \in [DOMAIN total_value -> Nat]
  BY ReportsTyped
<1>2. /\ synced \in [DOMAIN players -> Record]
      /\ \A p \in DOMAIN players :
           /\ synced[p].deaths = players[p].deaths
           /\ synced[p].respawns_remaining = players[p].respawns_remaining
           /\ synced[p].respawn_in = players[p].respawn_in
           /\ synced[p].eliminated = players[p].eliminated
  BY <1>1, SyncedRecords
<1> HIDE DEF synced
<1>3. /\ records \in [DOMAIN players -> Record]
      /\ \A p \in DOMAIN players \cap DOMAIN killer : StruckFrom(synced[p], records[p])
      /\ \A p \in DOMAIN players \ DOMAIN killer : WaitedFrom(synced[p], records[p])
  BY <1>1, <1>2, ResolvedRecords
<1> HIDE DEF records
<1>4. \A p \in DOMAIN players :
        /\ p \in DOMAIN killer => StruckFrom(players[p], records[p])
        /\ p \notin DOMAIN killer => WaitedFrom(players[p], records[p])
  BY <1>2, <1>3 DEF StruckFrom, WaitedFrom
<1> QED
  BY <1>2, <1>3, <1>4 DEF synced, records

\* A tick of the match: every death is paid for, and who is dead at its end either
\* waits or is out.
LEMMA MatchTickKeepsMatch ==
  ASSUME MatchInv, NEW killer \in Killings, NEW values \in ValuesAfter(killer),
         MatchTick(killer, values)
  PROVE  MatchInv'
<1> USE DEF MatchInv
<1> DEFINE alive == [p \in DOMAIN combat_alive |->
                       combat_alive[p] /\ p \notin DOMAIN killer]
           synced == Synced(alive, values)
           accumulator == in_match_second_accumulator + TickLength
                            - (in_match_seconds_remaining - SecondsLeft) * SecondLength
<1>1. /\ phase = "in_match"
      /\ players' = Resolved(synced, killer)
      /\ combat_alive' = [p \in DOMAIN alive |->
                            alive[p] \/ p \in RespawnedPlayers(synced, killer)]
      /\ Conclude(players', SecondsLeft, accumulator)
      /\ total_value' = values
  BY DEF MatchTick
<1>2. alive \in [DOMAIN combat_alive -> BOOLEAN]
  BY DEF TypeOK
<1>3. /\ DOMAIN killer \subseteq DOMAIN combat_alive
      /\ values \in [DOMAIN total_value -> Nat]
  BY ReportsTyped
<1>4. \A p \in DOMAIN combat_alive :
        alive[p] <=> combat_alive[p] /\ p \notin DOMAIN killer
  BY DEF TypeOK
<1> HIDE DEF alive
<1>5. /\ synced \in [DOMAIN players -> Record]
      /\ players' \in [DOMAIN players -> Record]
      /\ \A p \in DOMAIN players :
           /\ synced[p].respawn_in = players[p].respawn_in
           /\ synced[p].eliminated = players[p].eliminated
           /\ p \in DOMAIN killer => StruckFrom(players[p], players'[p])
           /\ p \notin DOMAIN killer => WaitedFrom(players[p], players'[p])
  BY <1>1, <1>2, TickRecords
<1> HIDE DEF synced
<1>6. DOMAIN players' = DOMAIN players
  BY <1>5
<1>7. /\ combat_alive' \in [DOMAIN combat_alive -> BOOLEAN]
      /\ DOMAIN combat_alive' = DOMAIN combat_alive
  BY <1>1, <1>2
<1>8. \A p \in DOMAIN combat_alive :
        combat_alive'[p] <=>
          \/ combat_alive[p] /\ p \notin DOMAIN killer
          \/ p \notin DOMAIN killer /\ players[p].respawn_in = 1 /\ ~players[p].eliminated
  <2>1. \A p \in DOMAIN combat_alive : p \in DOMAIN players
    BY DEF TypeOK
  <2>2. DOMAIN synced = DOMAIN players
    BY <1>5
  <2>3. \A p \in DOMAIN combat_alive :
          p \in RespawnedPlayers(synced, killer) <=>
            p \notin DOMAIN killer /\ players[p].respawn_in = 1 /\ ~players[p].eliminated
    BY <1>5, <2>1, <2>2 DEF RespawnedPlayers, RespawnDue
  <2>4. \A p \in DOMAIN combat_alive :
          combat_alive'[p] <=> alive[p] \/ p \in RespawnedPlayers(synced, killer)
    BY <1>1, <1>2
  <2> QED
    BY <1>4, <2>3, <2>4
<1>9. DOMAIN players \subseteq Players /\ SecondsLeft \in 0 .. MatchDurationSeconds
      /\ (SecondsLeft > 0 => accumulator \in 0 .. SecondLength - 1)
  BY TimerExact DEF TypeOK
<1> HIDE DEF accumulator
<1>10. /\ phase' \in {"in_match", "post_match"}
       /\ pre_match_ticks_remaining' = 0
       /\ in_match_seconds_remaining' \in 0 .. MatchDurationSeconds
       /\ phase' = "in_match" => in_match_seconds_remaining' > 0
       /\ in_match_second_accumulator' \in 0 .. SecondLength - 1
       /\ winner_player_id' \in Players \cup {NoWinner}
       /\ phase' = "post_match" <=> winner_player_id' # NoWinner
       /\ winner_player_id' # NoWinner => winner_player_id' \in DOMAIN players'
  BY <1>1, <1>6, <1>9, ConcludeConsistent
<1>11. TypeOK'
  BY <1>1, <1>3, <1>5, <1>6, <1>7, <1>10, Constants DEF TypeOK
<1>12. PhaseConsistent'
  BY <1>10 DEF PhaseConsistent
<1>13. \A p \in DOMAIN players :
         /\ players[p] \in Record
         /\ players[p].deaths \in Nat
         /\ players[p].respawns_remaining \in Nat
         /\ players[p].respawn_in \in Nat
  BY Constants DEF TypeOK, Record
<1>14. BudgetFollowsDeaths'
  <2>1. phase' # "pre_match"
    BY <1>10
  <2> SUFFICES ASSUME NEW p \in DOMAIN players
               PROVE  /\ players'[p].respawns_remaining =
                           IF players'[p].deaths < RespawnsPerPlayer
                           THEN RespawnsPerPlayer - players'[p].deaths ELSE 0
                      /\ players'[p].eliminated <=> players'[p].deaths > RespawnsPerPlayer
    BY <1>6, <2>1 DEF BudgetFollowsDeaths
  <2> DEFINE before == players[p].deaths
             budget == players[p].respawns_remaining
  <2>2. /\ before \in Nat
        /\ budget = IF before < RespawnsPerPlayer THEN RespawnsPerPlayer - before ELSE 0
        /\ players[p].eliminated <=> before > RespawnsPerPlayer
    BY <1>13 DEF BudgetFollowsDeaths
  <2>3. CASE p \in DOMAIN killer
    <3>1. /\ players'[p].deaths = before + 1
          /\ players'[p].respawns_remaining = IF budget > 0 THEN budget - 1 ELSE 0
          /\ players'[p].eliminated <=> budget = 0
      BY <1>5, <2>3 DEF StruckFrom
    <3> HIDE DEF before, budget
    <3> QED
      BY <2>2, <3>1, Constants
  <2>4. CASE p \notin DOMAIN killer
    BY <1>5, <2>2, <2>4 DEF WaitedFrom
  <2> QED
    BY <2>3, <2>4
<1>15. RespawnsPendForTheDead'
  <2> SUFFICES ASSUME NEW p \in DOMAIN players
               PROVE  /\ players'[p].respawn_in > 0 =>
                           p \in DOMAIN combat_alive /\ ~combat_alive'[p]
                           /\ ~players'[p].eliminated
                      /\ p \in DOMAIN combat_alive /\ ~combat_alive'[p] =>
                           players'[p].respawn_in > 0 \/ players'[p].eliminated
    BY <1>6, <1>7 DEF RespawnsPendForTheDead
  <2>1. CASE p \in DOMAIN killer
    <3>1. /\ players'[p].eliminated <=> players[p].respawns_remaining = 0
          /\ players'[p].respawn_in = IF players[p].respawns_remaining > 0
                                      THEN RespawnDelayTicks ELSE 0
      BY <1>5, <2>1 DEF StruckFrom
    <3>2. players'[p].respawn_in > 0 <=> ~players'[p].eliminated
      BY <1>13, <3>1, Constants
    <3>3. p \in DOMAIN combat_alive /\ ~combat_alive'[p]
      BY <1>3, <1>8, <2>1
    <3> QED
      BY <3>2, <3>3
  <2>2. CASE p \notin DOMAIN killer
    <3>1. /\ players'[p].eliminated = players[p].eliminated
          /\ players'[p].respawn_in = IF players[p].respawn_in > 0
                                      THEN players[p].respawn_in - 1 ELSE 0
      BY <1>5, <2>2 DEF WaitedFrom
    <3>2. /\ players[p].respawn_in > 0 =>
               p \in DOMAIN combat_alive /\ ~combat_alive[p] /\ ~players[p].eliminated
          /\ p \in DOMAIN combat_alive /\ ~combat_alive[p] =>
               players[p].respawn_in > 0 \/ players[p].eliminated
      BY <1>1 DEF RespawnsPendForTheDead
    <3>3. /\ players'[p].respawn_in > 0 =>
               players[p].respawn_in > 0 /\ players[p].respawn_in # 1
          /\ players[p].respawn_in > 0 /\ players[p].respawn_in # 1 =>
               players'[p].respawn_in > 0
      BY <1>13, <3>1
    <3>4. p \in DOMAIN combat_alive =>
            (combat_alive'[p] <=>
               combat_alive[p] \/ (players[p].respawn_in = 1 /\ ~players[p].eliminated))
      BY <1>8, <2>2
    <3> QED
      BY <3>1, <3>2, <3>3, <3>4
  <2> QED
    BY <2>1, <2>2
<1>16. phase' # "pre_match"
  BY <1>10
<1> QED
  BY <1>11, <1>12, <1>14, <1>15, <1>16

\* After the match the records keep their columns, whoever is killed.
LEMMA AfterMatchTickKeepsMatch ==
  ASSUME MatchInv, NEW killer \in Killings, NEW values \in ValuesAfter(killer),
         AfterMatchTick(killer, values)
  PROVE  MatchInv'
<1> USE DEF MatchInv
<1> DEFINE alive == [p \in DOMAIN combat_alive |->
                       combat_alive[p] /\ p \notin DOMAIN killer]
<1>1. /\ phase = "post_match"
      /\ players' = Synced(alive, values)
      /\ combat_alive' = alive
      /\ total_value' = values
      /\ UNCHANGED match_vars
  BY DEF AfterMatchTick
<1>2. alive \in [DOMAIN combat_alive -> BOOLEAN]
  BY DEF TypeOK
<1>3. values \in [DOMAIN total_value -> Nat]
  BY ReportsTyped
<1> HIDE DEF alive
<1>4. /\ DOMAIN players' = DOMAIN players
      /\ players' \in [DOMAIN players -> Record]
      /\ \A p \in DOMAIN players :
           /\ players'[p].deaths = players[p].deaths
           /\ players'[p].respawns_remaining = players[p].respawns_remaining
           /\ players'[p].eliminated = players[p].eliminated
  BY <1>1, <1>2, <1>3, SyncedRecords
<1>5. TypeOK'
  BY <1>1, <1>2, <1>3, <1>4 DEF TypeOK, match_vars, timer_vars
<1>6. PhaseConsistent'
  BY <1>1, <1>4 DEF PhaseConsistent, match_vars, timer_vars
<1>7. BudgetFollowsDeaths'
  BY <1>1, <1>4 DEF BudgetFollowsDeaths, match_vars
<1>8. RespawnsPendForTheDead'
  BY <1>1 DEF RespawnsPendForTheDead, match_vars
<1>9. phase' # "pre_match"
  BY <1>1 DEF match_vars
<1> QED
  BY <1>5, <1>6, <1>7, <1>8, <1>9

LEMMA StepKeepsMatch == MatchInv /\ [Next]_vars => MatchInv'
<1> SUFFICES ASSUME MatchInv, [Next]_vars PROVE MatchInv'
  OBVIOUS
<1>1. ASSUME NEW p \in Players, EnsurePlayer(p) PROVE MatchInv'
  BY <1>1, EnsureKeepsMatch
<1>2. ASSUME NEW p \in Players, RemovePlayer(p) PROVE MatchInv'
  BY <1>2, RemoveKeepsMatch
<1>3. CASE CountdownReset \/ CountdownRuns
  BY <1>3, CountdownKeepsMatch
<1>4. CASE MatchStarts
  BY <1>4, StartKeepsMatch
<1>5. ASSUME NEW killer \in Killings, NEW values \in ValuesAfter(killer),
             MatchTick(killer, values)
      PROVE  MatchInv'
  BY <1>5, MatchTickKeepsMatch
<1>6. ASSUME NEW killer \in Killings, NEW values \in ValuesAfter(killer),
             AfterMatchTick(killer, values)
      PROVE  MatchInv'
  BY <1>6, AfterMatchTickKeepsMatch
<1>7. CASE UNCHANGED vars
  BY <1>7 DEF MatchInv, TypeOK, PhaseConsistent, BudgetFollowsDeaths,
     RespawnsPendForTheDead, vars, match_vars, timer_vars
<1> QED
  BY <1>1, <1>2, <1>3, <1>4, <1>5, <1>6, <1>7 DEF Next, ResolveTick

-----------------------------------------------------------------------------
(* What the match promises *)

\* In every reachable state of the match, whatever the order of joins, departures,
\* kills and ticks of MatchLifecycleSimulation::resolve_tick, the invariant holds.
THEOREM MatchInvariant == Spec => []MatchInv
  BY InitMatch, StepKeepsMatch, PTL DEF Spec

\* The counters of PlayerMatchRecord and the timers stay in their ranges: neither
\* the budget nor in_match_seconds_remaining ever underflows its uint32, and the
\* accumulator never holds a whole second.
THEOREM MatchTypes == Spec => []TypeOK
<1>1. MatchInv => TypeOK
  BY DEF MatchInv
<1> QED
  BY <1>1, MatchInvariant, PTL

\* enter_in_match and enter_post_match keep phase, timer and winner together: a
\* winner is stored exactly when the match is over, and it is somebody who played.
THEOREM PhasesConsistent == Spec => []PhaseConsistent
<1>1. MatchInv => PhaseConsistent
  BY DEF MatchInv
<1> QED
  BY <1>1, MatchInvariant, PTL

\* The loop over the deaths takes one respawn for each, and eliminates the player
\* whose budget is used up: leaving and coming back (ensure_player) never gives
\* a respawn back nor takes an elimination away.
THEOREM BudgetFollows == Spec => []BudgetFollowsDeaths
<1>1. MatchInv => BudgetFollowsDeaths
  BY DEF MatchInv
<1> QED
  BY <1>1, MatchInvariant, PTL

\* The loop over the pending respawns and CombatSimulation::respawn_player never
\* lose a player: during the match whoever lies dead has a respawn pending or is
\* out, and no respawn is pending for somebody who left (remove_player) or lives.
THEOREM RespawnsPend == Spec => []RespawnsPendForTheDead
<1>1. MatchInv => RespawnsPendForTheDead
  BY DEF MatchInv
<1> QED
  BY <1>1, MatchInvariant, PTL

\* Once enter_post_match has stored the winner, no later kill, join or departure
\* changes the winner, a kill, a death or an elimination on the scoreboard.
THEOREM ResultStands == Spec => ResultIsFinal
<1> DEFINE Final ==
      phase = "post_match" =>
        /\ UNCHANGED match_vars
        /\ \A p \in DOMAIN players :
             /\ players'[p].kills = players[p].kills
             /\ players'[p].deaths = players[p].deaths
             /\ players'[p].eliminated = players[p].eliminated
<1>1. ASSUME MatchInv, Next, phase = "post_match" PROVE Final
  <2>1. ASSUME NEW p \in Players, EnsurePlayer(p) PROVE Final
    <3> DEFINE old == IF p \in DOMAIN players THEN players[p] ELSE NewRecord
               new == [old EXCEPT !.connected = TRUE]
    <3>1. /\ UNCHANGED match_vars
          /\ players' = [q \in DOMAIN players \cup {p} |->
                           IF q = p THEN new ELSE players[q]]
      BY <2>1 DEF EnsurePlayer, Put
    <3>2. p \in DOMAIN players => old = players[p] /\ players[p] \in Record
      BY <1>1 DEF MatchInv, TypeOK
    <3> HIDE DEF old
    <3>3. p \in DOMAIN players =>
            /\ new.kills = players[p].kills /\ new.deaths = players[p].deaths
            /\ new.eliminated = players[p].eliminated
      BY <3>2 DEF Record
    <3> HIDE DEF new
    <3> QED
      BY <3>1, <3>3
  <2>2. ASSUME NEW p \in Players, RemovePlayer(p) PROVE Final
    <3>1. /\ UNCHANGED match_vars
          /\ players' = [players EXCEPT ![p].connected = FALSE, ![p].respawn_in = 0]
      BY <2>2 DEF RemovePlayer
    <3>2. players \in [DOMAIN players -> Record]
      BY <1>1 DEF MatchInv, TypeOK
    <3> QED
      BY <3>1, <3>2 DEF Record
  <2>3. ASSUME NEW killer \in Killings, NEW values \in ValuesAfter(killer),
               AfterMatchTick(killer, values)
        PROVE  Final
    <3> DEFINE alive == [p \in DOMAIN combat_alive |->
                           combat_alive[p] /\ p \notin DOMAIN killer]
    <3>1. UNCHANGED match_vars /\ players' = Synced(alive, values)
      BY <2>3 DEF AfterMatchTick
    <3>2. TypeOK /\ alive \in [DOMAIN combat_alive -> BOOLEAN]
      BY <1>1 DEF MatchInv, TypeOK
    <3>3. values \in [DOMAIN total_value -> Nat]
      BY <3>2, ReportsTyped
    <3> HIDE DEF alive
    <3> QED
      BY <3>1, <3>2, <3>3, SyncedRecords
  <2>4. ~(CountdownReset \/ CountdownRuns \/ MatchStarts)
    BY <1>1 DEF CountdownReset, CountdownRuns, MatchStarts
  <2>5. \A killer \in Killings : \A values \in ValuesAfter(killer) :
          ~MatchTick(killer, values)
    BY <1>1 DEF MatchTick
  <2> HIDE DEF Final
  <2> QED
    BY <1>1, <2>1, <2>2, <2>3, <2>4, <2>5 DEF Next, ResolveTick
<1>2. MatchInv /\ [Next]_vars => [Final]_vars
  BY <1>1
<1>3. ResultIsFinal <=> [][Final]_vars
  BY PTL DEF ResultIsFinal
<1> QED
  BY <1>2, <1>3, MatchInvariant, PTL DEF Spec


-----------------------------------------------------------------------------
(* The scoreboard adds up *)

\* A set of natural numbers has a least one: of the intervals 1 .. n that its
\* numbers bound, one contains no other.
LEMMA LeastNumber ==
  ASSUME NEW T, T \subseteq Nat, T # {}
  PROVE  \E n \in T : \A m \in T : n <= m
<1> DEFINE R == StrictSubsetOrdering(Nat)
           below == {1 .. n : n \in T}
<1>1. IsWellFoundedOn(R, FiniteSubsetsOf(Nat))
  BY FS_StrictSubsetOrderingWellFounded
<1>2. below \subseteq FiniteSubsetsOf(Nat)
  <2> SUFFICES ASSUME NEW n \in T PROVE 1 .. n \in FiniteSubsetsOf(Nat)
    OBVIOUS
  <2>1. IsFiniteSet(1 .. n)
    BY FS_Interval
  <2> QED
    BY <2>1 DEF FiniteSubsetsOf
<1>3. below # {}
  OBVIOUS
<1> HIDE DEF below, R
<1>4. PICK x \in below : \A y \in below : ~(<<y, x>> \in R)
  BY <1>1, <1>2, <1>3, WFMin
<1>5. PICK n \in T : x = 1 .. n
  BY DEF below
<1>6. ASSUME NEW m \in T PROVE n <= m
  <2> SUFFICES ASSUME m < n PROVE FALSE
    OBVIOUS
  <2>1. 1 .. m \in below
    BY DEF below
  <2>2. 1 .. m \in SUBSET Nat /\ 1 .. n \in SUBSET Nat
    OBVIOUS
  <2>3. 1 .. m \subseteq 1 .. n /\ n \in 1 .. n /\ n \notin 1 .. m
    OBVIOUS
  <2>4. 1 .. m # 1 .. n
    BY <2>3
  <2>5. <<1 .. m, 1 .. n>> \in R
    BY <2>2, <2>3, <2>4 DEF R, StrictSubsetOrdering
  <2> QED
    BY <1>4, <1>5, <2>1, <2>5
<1> QED
  BY <1>6

\* A set with 0, and with n + 1 whenever with n, has every number.
LEMMA Induction ==
  ASSUME NEW S, 0 \in S, \A n \in Nat : n \in S => n + 1 \in S
  PROVE  Nat \subseteq S
<1> SUFFICES ASSUME Nat \ S # {} PROVE FALSE
  OBVIOUS
<1>1. PICK n \in Nat \ S : \A m \in Nat \ S : n <= m
  BY LeastNumber
<1>2. n - 1 \in Nat /\ n - 1 \in S
  BY <1>1
<1> QED
  BY <1>1, <1>2

\* The sums of a column over the first players, up to each of n.
IsTotal(f, c, n) ==
  f = [k \in 0 .. n |-> IF k = 0 THEN 0 ELSE f[k - 1] + c[k]]

LEMMA TotalExists ==
  ASSUME NEW c, NEW n \in Nat
  PROVE  \E f : IsTotal(f, c, n)
<1> DEFINE S == {k \in Nat : \E f : IsTotal(f, c, k)}
<1>1. 0 \in S
  <2>1. IsTotal([k \in 0 .. 0 |-> 0], c, 0)
    BY DEF IsTotal
  <2> QED
    BY <2>1
<1>2. ASSUME NEW k \in Nat, k \in S PROVE k + 1 \in S
  <2>1. PICK f : IsTotal(f, c, k)
    BY <1>2
  <2> DEFINE g == [i \in 0 .. k + 1 |-> IF i <= k THEN f[i] ELSE f[k] + c[k + 1]]
  <2>2. ASSUME NEW i \in 0 .. k + 1
        PROVE  g[i] = IF i = 0 THEN 0 ELSE g[i - 1] + c[i]
    <3>1. CASE i = k + 1
      BY <3>1
    <3>2. CASE i = 0
      BY <2>1, <3>2 DEF IsTotal
    <3>3. CASE i # 0 /\ i <= k
      <4>1. i \in 0 .. k /\ i - 1 \in 0 .. k /\ i - 1 \in 0 .. k + 1
        BY <3>3
      <4>2. f[i] = f[i - 1] + c[i]
        BY <2>1, <3>3, <4>1 DEF IsTotal
      <4> QED
        BY <3>3, <4>1, <4>2
    <3> QED
      BY <3>1, <3>2, <3>3
  <2>3. IsTotal(g, c, k + 1)
    BY <2>2 DEF IsTotal
  <2> QED
    BY <2>3
<1> HIDE DEF S
<1>3. n \in S
  BY <1>1, <1>2, Induction
<1> QED
  BY <1>3 DEF S

LEMMA TotalUnique ==
  ASSUME NEW c, NEW n \in Nat, NEW f, NEW g, IsTotal(f, c, n), IsTotal(g, c, n)
  PROVE  f = g
<1> DEFINE S == {k \in Nat : k \in 0 .. n => f[k] = g[k]}
<1>1. 0 \in S
  BY DEF IsTotal
<1>2. ASSUME NEW k \in Nat, k \in S PROVE k + 1 \in S
  <2> SUFFICES ASSUME k + 1 \in 0 .. n PROVE f[k + 1] = g[k + 1]
    OBVIOUS
  <2>1. f[k] = g[k]
    BY <1>2
  <2>2. f[k + 1] = f[k] + c[k + 1] /\ g[k + 1] = g[k] + c[k + 1]
    BY DEF IsTotal
  <2> QED
    BY <2>1, <2>2
<1> HIDE DEF S
<1>3. Nat \subseteq S
  BY <1>1, <1>2, Induction
<1>4. \A k \in 0 .. n : f[k] = g[k]
  BY <1>3 DEF S
<1>5. /\ f = [k \in 0 .. n |-> f[k]]
      /\ g = [k \in 0 .. n |-> g[k]]
  BY DEF IsTotal
<1> QED
  BY <1>4, <1>5

\* A total is reached player by player.
LEMMA TotalSteps ==
  ASSUME NEW c \in [Players -> Nat]
  PROVE  \E f : /\ f[0] = 0
                /\ \A k \in Players : f[k] = f[k - 1] + c[k]
                /\ \A k \in 0 .. MaxPlayers : f[k] \in Nat
                /\ TotalOf(c) = f[MaxPlayers]
<1>1. PICK f : IsTotal(f, c, MaxPlayers)
  BY TotalExists, Constants
<1>2. f[0] = 0 /\ \A k \in Players : f[k] = f[k - 1] + c[k]
  BY <1>1, Constants DEF IsTotal, Players
<1>3. TotalOf(c) = f[MaxPlayers]
  <2>1. \A g : IsTotal(g, c, MaxPlayers) => g = f
    BY <1>1, TotalUnique, Constants
  <2> QED
    BY <1>1, <2>1 DEF TotalOf, IsTotal
<1> DEFINE S == {k \in Nat : k <= MaxPlayers => f[k] \in Nat}
<1>4. 0 \in S
  BY <1>2
<1>5. ASSUME NEW k \in Nat, k \in S PROVE k + 1 \in S
  <2> SUFFICES ASSUME k + 1 <= MaxPlayers PROVE f[k + 1] \in Nat
    OBVIOUS
  <2>1. k + 1 \in Players /\ k <= MaxPlayers
    BY Constants DEF Players
  <2>2. f[k] \in Nat /\ c[k + 1] \in Nat
    BY <1>5, <2>1
  <2>3. f[k + 1] = f[k] + c[k + 1]
    BY <1>2, <2>1
  <2> QED
    BY <2>2, <2>3
<1> HIDE DEF S
<1>6. Nat \subseteq S
  BY <1>4, <1>5, Induction
<1>7. \A k \in 0 .. MaxPlayers : f[k] \in Nat
  BY <1>6, Constants DEF S
<1> QED
  BY <1>2, <1>3, <1>7

\* The total of two columns added is that of one and of the other.
LEMMA TotalAdds ==
  ASSUME NEW a \in [Players -> Nat], NEW b \in [Players -> Nat],
         NEW c \in [Players -> Nat], \A p \in Players : c[p] = a[p] + b[p]
  PROVE  TotalOf(c) = TotalOf(a) + TotalOf(b)
<1>1. PICK f : /\ f[0] = 0 /\ \A k \in Players : f[k] = f[k - 1] + a[k]
               /\ \A k \in 0 .. MaxPlayers : f[k] \in Nat
               /\ TotalOf(a) = f[MaxPlayers]
  BY TotalSteps, Zenon
<1>2. PICK g : /\ g[0] = 0 /\ \A k \in Players : g[k] = g[k - 1] + b[k]
               /\ \A k \in 0 .. MaxPlayers : g[k] \in Nat
               /\ TotalOf(b) = g[MaxPlayers]
  BY TotalSteps, Zenon
<1>3. PICK h : /\ h[0] = 0 /\ \A k \in Players : h[k] = h[k - 1] + c[k]
               /\ \A k \in 0 .. MaxPlayers : h[k] \in Nat
               /\ TotalOf(c) = h[MaxPlayers]
  BY TotalSteps, Zenon
<1> DEFINE S == {k \in Nat : k <= MaxPlayers => h[k] = f[k] + g[k]}
<1>4. 0 \in S
  BY <1>1, <1>2, <1>3
<1>5. ASSUME NEW k \in Nat, k \in S PROVE k + 1 \in S
  <2> SUFFICES ASSUME k + 1 <= MaxPlayers PROVE h[k + 1] = f[k + 1] + g[k + 1]
    OBVIOUS
  <2>1. k + 1 \in Players /\ k <= MaxPlayers /\ k \in 0 .. MaxPlayers /\ (k + 1) - 1 = k
    BY Constants DEF Players
  <2>2. h[k] = f[k] + g[k] /\ f[k] \in Nat /\ g[k] \in Nat
    BY <1>1, <1>2, <1>5, <2>1
  <2>3. a[k + 1] \in Nat /\ b[k + 1] \in Nat /\ c[k + 1] = a[k + 1] + b[k + 1]
    BY <2>1
  <2>4. /\ f[k + 1] = f[k] + a[k + 1] /\ g[k + 1] = g[k] + b[k + 1]
        /\ h[k + 1] = h[k] + c[k + 1]
    BY <1>1, <1>2, <1>3, <2>1
  <2> QED
    BY <2>2, <2>3, <2>4
<1> HIDE DEF S
<1>6. MaxPlayers \in S
  BY <1>4, <1>5, Induction, Constants
<1>7. h[MaxPlayers] = f[MaxPlayers] + g[MaxPlayers]
  BY <1>6, Constants DEF S
<1> QED
  BY <1>1, <1>2, <1>3, <1>7

\* Those among the first k players that are in a set.
Among(S, k) == {p \in S : p <= k}

LEMMA AmongGrows ==
  ASSUME NEW S, S \subseteq Players, NEW k \in Nat
  PROVE  /\ Cardinality(Among(S, 0)) = 0
         /\ Cardinality(Among(S, k)) \in Nat
         /\ Cardinality(Among(S, k + 1))
              = Cardinality(Among(S, k)) + (IF k + 1 \in S THEN 1 ELSE 0)
         /\ Among(S, MaxPlayers) = S
<1>1. Players \subseteq Nat \ {0} /\ IsFiniteSet(Players)
  BY FS_Interval, Constants DEF Players
<1>2. ASSUME NEW p \in S
      PROVE  /\ p \in Nat /\ 1 <= p /\ p <= MaxPlayers
             /\ p <= k + 1 <=> p <= k \/ p = k + 1
  <2>1. p \in Players
    OBVIOUS
  <2> QED
    BY <2>1, Constants DEF Players
<1>3. IsFiniteSet(Among(S, k)) /\ Cardinality(Among(S, k)) \in Nat
  BY <1>1, FS_Subset, FS_CardinalityType DEF Among
<1>4. Among(S, 0) = {}
  BY <1>2 DEF Among
<1>5. Among(S, MaxPlayers) = S
  BY <1>2 DEF Among
<1>6. CASE k + 1 \in S
  <2>1. Among(S, k + 1) = Among(S, k) \cup {k + 1} /\ k + 1 \notin Among(S, k)
    BY <1>2, <1>6 DEF Among
  <2>2. Cardinality(Among(S, k) \cup {k + 1}) = Cardinality(Among(S, k)) + 1
    BY <1>3, <2>1, FS_AddElement
  <2> QED
    BY <1>3, <1>4, <1>5, <1>6, <2>1, <2>2, FS_EmptySet
<1>7. CASE k + 1 \notin S
  <2>1. Among(S, k + 1) = Among(S, k)
    BY <1>2, <1>7 DEF Among
  <2> QED
    BY <1>3, <1>4, <1>5, <1>7, <2>1, FS_EmptySet
<1> QED
  BY <1>6, <1>7

\* The column with a 1 for each of a set of players adds up to their number.
Ones(S) == [p \in Players |-> IF p \in S THEN 1 ELSE 0]

LEMMA TotalOfOnes ==
  ASSUME NEW S, S \subseteq Players
  PROVE  Ones(S) \in [Players -> Nat] /\ TotalOf(Ones(S)) = Cardinality(S)
<1>1. Ones(S) \in [Players -> Nat]
  BY DEF Ones
<1>2. PICK f : /\ f[0] = 0 /\ \A k \in Players : f[k] = f[k - 1] + Ones(S)[k]
               /\ \A k \in 0 .. MaxPlayers : f[k] \in Nat
               /\ TotalOf(Ones(S)) = f[MaxPlayers]
  BY <1>1, TotalSteps, Zenon
<1> DEFINE T == {k \in Nat : k <= MaxPlayers => f[k] = Cardinality(Among(S, k))}
<1>3. 0 \in T
  <2>1. Cardinality(Among(S, 0)) = 0
    BY AmongGrows
  <2> QED
    BY <1>2, <2>1
<1>4. ASSUME NEW k \in Nat, k \in T PROVE k + 1 \in T
  <2> SUFFICES ASSUME k + 1 <= MaxPlayers
               PROVE  f[k + 1] = Cardinality(Among(S, k + 1))
    OBVIOUS
  <2>1. k + 1 \in Players /\ k <= MaxPlayers /\ (k + 1) - 1 = k
    BY Constants DEF Players
  <2>2. f[k] = Cardinality(Among(S, k))
    BY <1>4, <2>1
  <2>3. f[k + 1] = f[k] + (IF k + 1 \in S THEN 1 ELSE 0)
    BY <1>2, <2>1 DEF Ones
  <2>4. Cardinality(Among(S, k + 1))
          = Cardinality(Among(S, k)) + (IF k + 1 \in S THEN 1 ELSE 0)
    BY AmongGrows
  <2> QED
    BY <2>2, <2>3, <2>4
<1> HIDE DEF T
<1>5. MaxPlayers \in T
  BY <1>3, <1>4, Induction, Constants
<1>6. f[MaxPlayers] = Cardinality(Among(S, MaxPlayers))
  BY <1>5, Constants DEF T
<1>7. Among(S, MaxPlayers) = S
  BY AmongGrows, Constants
<1> QED
  BY <1>1, <1>2, <1>6, <1>7

\* The kills of a tick, killer by killer, add up to the number of its victims.
Credit(killer) == [p \in Players |-> KillsOf(p, killer)]

LEMMA TotalOfCredit ==
  ASSUME NEW killer, DOMAIN killer \subseteq Players,
         \A v \in DOMAIN killer : killer[v] \in Players
  PROVE  /\ Credit(killer) \in [Players -> Nat]
         /\ TotalOf(Credit(killer)) = Cardinality(DOMAIN killer)
<1> DEFINE by(k) == {v \in DOMAIN killer : killer[v] <= k}
           of(k) == {v \in DOMAIN killer : killer[v] = k}
<1>1. Credit(killer) \in [Players -> Nat]
  BY KillsCounted DEF Credit
<1>2. PICK f : /\ f[0] = 0 /\ \A k \in Players : f[k] = f[k - 1] + Credit(killer)[k]
               /\ \A k \in 0 .. MaxPlayers : f[k] \in Nat
               /\ TotalOf(Credit(killer)) = f[MaxPlayers]
  BY <1>1, TotalSteps, Zenon
<1>3. IsFiniteSet(DOMAIN killer)
  BY FS_Interval, FS_Subset, Constants DEF Players
<1>4. \A k : /\ IsFiniteSet(by(k)) /\ IsFiniteSet(of(k))
             /\ Cardinality(by(k)) \in Nat /\ Cardinality(of(k)) \in Nat
  BY <1>3, FS_Subset, FS_CardinalityType
<1>5. \A v \in DOMAIN killer :
        killer[v] \in Nat /\ 1 <= killer[v] /\ killer[v] <= MaxPlayers
  BY Constants DEF Players
<1> DEFINE T == {k \in Nat : k <= MaxPlayers => f[k] = Cardinality(by(k))}
<1>6. 0 \in T
  <2>1. by(0) = {}
    BY <1>5
  <2>2. Cardinality(by(0)) = 0
    BY <2>1, FS_EmptySet
  <2> QED
    BY <1>2, <2>2
<1>7. ASSUME NEW k \in Nat, k \in T PROVE k + 1 \in T
  <2> SUFFICES ASSUME k + 1 <= MaxPlayers
               PROVE  f[k + 1] = Cardinality(by(k + 1))
    OBVIOUS
  <2>1. k + 1 \in Players /\ k <= MaxPlayers /\ (k + 1) - 1 = k
    BY Constants DEF Players
  <2>2. f[k] = Cardinality(by(k))
    BY <1>7, <2>1
  <2>3. f[k + 1] = f[k] + Cardinality(of(k + 1))
    BY <1>2, <2>1 DEF Credit, KillsOf
  <2>4. by(k + 1) = by(k) \cup of(k + 1) /\ by(k) \cap of(k + 1) = {}
    BY <1>5
  <2>5. ASSUME NEW A, NEW B, IsFiniteSet(A), IsFiniteSet(B)
        PROVE  Cardinality(A \cup B) = Cardinality(A) + Cardinality(B) - Cardinality(A \cap B)
    BY <2>5, FS_Union
  <2>6. Cardinality(by(k) \cap of(k + 1)) = 0
    BY <2>4, FS_EmptySet
  <2> DEFINE more == Cardinality(of(k + 1))
             before == Cardinality(by(k))
             after == Cardinality(by(k + 1))
             both == Cardinality(by(k) \cap of(k + 1))
  <2>7. /\ more \in Nat /\ before \in Nat /\ after = before + more - both /\ both = 0
        /\ f[k] = before /\ f[k + 1] = f[k] + more
    <3>1. /\ IsFiniteSet(by(k)) /\ IsFiniteSet(of(k + 1))
          /\ more \in Nat /\ before \in Nat
      BY <1>4
    <3>2. Cardinality(by(k) \cup of(k + 1)) = before + more - both
      BY <2>5, <3>1, Zenon
    <3> QED
      BY <2>2, <2>3, <2>4, <2>6, <3>1, <3>2, Zenon
  <2> HIDE DEF more, before, after, both
  <2>8. f[k + 1] = after
    BY <2>7
  <2> QED
    BY <2>8 DEF after
<1> HIDE DEF T
<1>8. MaxPlayers \in T
  BY <1>6, <1>7, Induction, Constants
<1>9. f[MaxPlayers] = Cardinality(by(MaxPlayers))
  BY <1>8, Constants DEF T
<1>10. by(MaxPlayers) = DOMAIN killer
  BY <1>5
<1> QED
  BY <1>1, <1>2, <1>9, <1>10

LEMMA ColumnsTyped ==
  ASSUME TypeOK
  PROVE  KillsColumn \in [Players -> Nat] /\ DeathsColumn \in [Players -> Nat]
<1>1. \A p \in DOMAIN players : players[p].kills \in Nat /\ players[p].deaths \in Nat
  BY DEF TypeOK, Record
<1> QED
  BY <1>1 DEF KillsColumn, DeathsColumn

\* Nobody has scored: who has a record keeps the columns, who is new has none.
SameScores ==
  /\ DOMAIN players \subseteq DOMAIN players'
  /\ \A p \in DOMAIN players : /\ players'[p].kills = players[p].kills
                               /\ players'[p].deaths = players[p].deaths
  /\ \A p \in DOMAIN players' \ DOMAIN players :
       players'[p].kills = 0 /\ players'[p].deaths = 0

LEMMA ScoresStay ==
  ASSUME KillsMatchDeaths, SameScores
  PROVE  KillsMatchDeaths'
<1>1. \A p \in Players :
        (IF p \in DOMAIN players' THEN players'[p].kills ELSE 0)
          = (IF p \in DOMAIN players THEN players[p].kills ELSE 0)
  BY DEF SameScores
<1>2. \A p \in Players :
        (IF p \in DOMAIN players' THEN players'[p].deaths ELSE 0)
          = (IF p \in DOMAIN players THEN players[p].deaths ELSE 0)
  BY DEF SameScores
<1>3. KillsColumn' = KillsColumn
  BY <1>1 DEF KillsColumn
<1>4. DeathsColumn' = DeathsColumn
  BY <1>2 DEF DeathsColumn
<1>5. TotalOf(KillsColumn)' = TotalOf(KillsColumn)
  BY <1>3 DEF TotalOf
<1>6. TotalOf(DeathsColumn)' = TotalOf(DeathsColumn)
  BY <1>4 DEF TotalOf
<1> QED
  BY <1>5, <1>6 DEF KillsMatchDeaths

\* The two loops credit the killers with what they killed.
LEMMA ResolvedKills ==
  ASSUME NEW D, NEW records \in [D -> Record],
         NEW killer, DOMAIN killer \subseteq Players
  PROVE  \A p \in D : Resolved(records, killer)[p].kills
                        = records[p].kills + KillsOf(p, killer)
<1> TAKE p \in D
<1> DEFINE r == IF p \in DOMAIN killer THEN Struck(records[p]) ELSE Waited(records[p])
           k == r.kills + KillsOf(p, killer)
<1>1. r \in Record /\ r.kills = records[p].kills
  BY StruckRecord, WaitedRecord
<1>2. Resolved(records, killer)[p] = [r EXCEPT !.kills = k]
  BY DEF Resolved
<1> HIDE DEF r
<1>3. [r EXCEPT !.kills = k].kills = k
  BY <1>1 DEF Record
<1> QED
  BY <1>1, <1>2, <1>3

\* A tick of the match adds as much to the one column as to the other.
LEMMA ScoresGrowTogether ==
  ASSUME MatchInv, KillsMatchDeaths,
         NEW killer \in Killings, NEW values \in ValuesAfter(killer),
         MatchTick(killer, values)
  PROVE  KillsMatchDeaths'
<1> DEFINE alive == [p \in DOMAIN combat_alive |->
                       combat_alive[p] /\ p \notin DOMAIN killer]
           synced == Synced(alive, values)
<1>1. TypeOK /\ TypeOK' /\ players' = Resolved(synced, killer)
  BY MatchTickKeepsMatch DEF MatchTick, MatchInv
<1>2. alive \in [DOMAIN combat_alive -> BOOLEAN]
  BY <1>1 DEF TypeOK
<1>3. /\ DOMAIN killer \subseteq DOMAIN combat_alive
      /\ values \in [DOMAIN total_value -> Nat]
  BY <1>1, ReportsTyped
<1>4. \A v \in DOMAIN killer : killer[v] \in DOMAIN combat_alive
  BY DEF Killings
<1>5. /\ DOMAIN combat_alive \subseteq DOMAIN players /\ DOMAIN players \subseteq Players
  BY <1>1 DEF TypeOK
<1> HIDE DEF alive
<1>6. /\ synced \in [DOMAIN players -> Record]
      /\ \A p \in DOMAIN players : synced[p].kills = players[p].kills
  BY <1>1, <1>2, <1>3, SyncedRecords
<1>7. /\ DOMAIN players' = DOMAIN players
      /\ \A p \in DOMAIN players :
           /\ p \in DOMAIN killer => StruckFrom(players[p], players'[p])
           /\ p \notin DOMAIN killer => WaitedFrom(players[p], players'[p])
  BY <1>1, <1>2, TickRecords
<1>8. DOMAIN killer \subseteq Players
  BY <1>3, <1>5
<1> HIDE DEF synced
<1>9. \A p \in DOMAIN players : players'[p].kills = players[p].kills + KillsOf(p, killer)
  BY <1>1, <1>6, <1>8, ResolvedKills
<1>10. ASSUME NEW p, p \notin DOMAIN players PROVE KillsOf(p, killer) = 0
  <2>1. {v \in DOMAIN killer : killer[v] = p} = {}
    BY <1>4, <1>5, <1>10
  <2> QED
    BY <2>1, FS_EmptySet DEF KillsOf
<1>11. /\ KillsColumn \in [Players -> Nat] /\ DeathsColumn \in [Players -> Nat]
       /\ KillsColumn' \in [Players -> Nat] /\ DeathsColumn' \in [Players -> Nat]
  <2>1. KillsColumn \in [Players -> Nat] /\ DeathsColumn \in [Players -> Nat]
    BY <1>1, ColumnsTyped
  <2>2. (KillsColumn \in [Players -> Nat] /\ DeathsColumn \in [Players -> Nat])'
    <3>1. \A p \in DOMAIN players' :
            players'[p].kills \in Nat /\ players'[p].deaths \in Nat
      BY <1>1 DEF TypeOK, Record
    <3> QED
      BY <3>1 DEF KillsColumn, DeathsColumn
  <2> QED
    BY <2>1, <2>2 DEF Players
<1>12. \A p \in Players : KillsColumn'[p] = KillsColumn[p] + Credit(killer)[p]
  <2> TAKE p \in Players
  <2>1. Credit(killer)[p] = KillsOf(p, killer)
    BY DEF Credit
  <2>2. CASE p \in DOMAIN players
    BY <1>7, <1>9, <2>1, <2>2 DEF KillsColumn
  <2>3. CASE p \notin DOMAIN players
    BY <1>7, <1>10, <2>1, <2>3 DEF KillsColumn
  <2> QED
    BY <2>2, <2>3
<1>13. \A p \in Players : DeathsColumn'[p] = DeathsColumn[p] + Ones(DOMAIN killer)[p]
  <2> TAKE p \in Players
  <2>1. Ones(DOMAIN killer)[p] = IF p \in DOMAIN killer THEN 1 ELSE 0
    BY DEF Ones
  <2>2. DeathsColumn[p] \in Nat
    BY <1>11
  <2>3. CASE p \in DOMAIN killer
    <3>1. p \in DOMAIN players /\ players'[p].deaths = players[p].deaths + 1
      BY <1>3, <1>5, <1>7, <2>3 DEF StruckFrom
    <3> QED
      BY <1>7, <2>1, <2>3, <3>1 DEF DeathsColumn
  <2>4. CASE p \notin DOMAIN killer
    <3>1. p \in DOMAIN players => players'[p].deaths = players[p].deaths
      BY <1>7, <2>4 DEF WaitedFrom
    <3>2. DeathsColumn'[p] = DeathsColumn[p]
      BY <1>7, <3>1 DEF DeathsColumn
    <3> QED
      BY <2>1, <2>2, <2>4, <3>2
  <2> QED
    BY <2>3, <2>4
<1>14. /\ Credit(killer) \in [Players -> Nat]
       /\ TotalOf(Credit(killer)) = Cardinality(DOMAIN killer)
  BY <1>4, <1>5, <1>8, TotalOfCredit
<1>15. /\ Ones(DOMAIN killer) \in [Players -> Nat]
       /\ TotalOf(Ones(DOMAIN killer)) = Cardinality(DOMAIN killer)
  BY <1>8, TotalOfOnes
<1> DEFINE kills == KillsColumn'
           deaths == DeathsColumn'
<1>16. kills \in [Players -> Nat] /\ deaths \in [Players -> Nat]
  BY <1>11
<1> HIDE DEF kills, deaths
<1>17. TotalOf(kills) = TotalOf(KillsColumn) + TotalOf(Credit(killer))
  BY <1>11, <1>12, <1>14, <1>16, TotalAdds DEF kills
<1>18. TotalOf(deaths) = TotalOf(DeathsColumn) + TotalOf(Ones(DOMAIN killer))
  BY <1>11, <1>13, <1>15, <1>16, TotalAdds DEF deaths
<1>19. TotalOf(kills) = TotalOf(deaths)
  BY <1>14, <1>15, <1>17, <1>18 DEF KillsMatchDeaths
<1> QED
  BY <1>19 DEF KillsMatchDeaths, kills, deaths, TotalOf

LEMMA InitScores == Init => KillsMatchDeaths
<1> SUFFICES ASSUME Init PROVE KillsMatchDeaths
  OBVIOUS
<1>1. DOMAIN players = {}
  BY DEF Init, EmptyMap
<1>2. KillsColumn = DeathsColumn
  BY <1>1 DEF KillsColumn, DeathsColumn
<1> QED
  BY <1>2 DEF KillsMatchDeaths

\* Taking over what combat and inventory say touches no column.
LEMMA SyncedScores ==
  ASSUME TypeOK,
         NEW alive \in [DOMAIN combat_alive -> BOOLEAN],
         NEW values \in [DOMAIN total_value -> Nat],
         players' = Synced(alive, values)
  PROVE  SameScores
<1>1. /\ DOMAIN players' = DOMAIN players
      /\ \A p \in DOMAIN players : /\ players'[p].kills = players[p].kills
                                   /\ players'[p].deaths = players[p].deaths
  BY SyncedRecords
<1> QED
  BY <1>1 DEF SameScores

LEMMA StepKeepsScores ==
  ASSUME MatchInv, KillsMatchDeaths, [Next]_vars
  PROVE  KillsMatchDeaths'
<1> USE DEF MatchInv
<1>1. ASSUME NEW p \in Players, EnsurePlayer(p) PROVE SameScores
  <2> DEFINE old == IF p \in DOMAIN players THEN players[p] ELSE NewRecord
             new == [old EXCEPT !.connected = TRUE]
  <2>1. players' = [q \in DOMAIN players \cup {p} |->
                      IF q = p THEN new ELSE players[q]]
    BY <1>1 DEF EnsurePlayer, Put
  <2>2. old \in Record /\ (p \notin DOMAIN players => old.kills = 0 /\ old.deaths = 0)
    BY Constants DEF TypeOK, NewRecord, Record
  <2>3. p \in DOMAIN players => old = players[p]
    OBVIOUS
  <2> HIDE DEF old
  <2>4. new.kills = old.kills /\ new.deaths = old.deaths
    BY <2>2 DEF Record
  <2> HIDE DEF new
  <2> QED
    BY <2>1, <2>2, <2>3, <2>4 DEF SameScores
<1>2. ASSUME NEW p \in Players, RemovePlayer(p) PROVE SameScores
  <2>1. players' = [players EXCEPT ![p].connected = FALSE, ![p].respawn_in = 0]
    BY <1>2 DEF RemovePlayer
  <2>2. players \in [DOMAIN players -> Record]
    BY DEF TypeOK
  <2>3. /\ DOMAIN players' = DOMAIN players
        /\ \A q \in DOMAIN players : /\ players'[q].kills = players[q].kills
                                     /\ players'[q].deaths = players[q].deaths
    BY <2>1, <2>2 DEF Record
  <2> QED
    BY <2>3 DEF SameScores
<1>3. CASE CountdownReset \/ CountdownRuns
  <2>1. players' = Synced(combat_alive, total_value)
    BY <1>3 DEF CountdownReset, CountdownRuns
  <2>2. /\ combat_alive \in [DOMAIN combat_alive -> BOOLEAN]
        /\ total_value \in [DOMAIN total_value -> Nat]
    BY DEF TypeOK
  <2>3. SameScores
    BY <2>1, <2>2, SyncedScores
  <2> QED
    BY <2>3, ScoresStay
<1>4. CASE MatchStarts
  <2> DEFINE synced == Synced(combat_alive, total_value)
  <2>1. players' = Fresh(synced)
    BY <1>4 DEF MatchStarts
  <2>2. /\ combat_alive \in [DOMAIN combat_alive -> BOOLEAN]
        /\ total_value \in [DOMAIN total_value -> Nat]
    BY DEF TypeOK
  <2>3. /\ synced \in [DOMAIN players -> Record]
        /\ \A p \in DOMAIN players : /\ synced[p].kills = players[p].kills
                                     /\ synced[p].deaths = players[p].deaths
    BY <2>2, SyncedRecords
  <2> HIDE DEF synced
  <2>4. /\ DOMAIN players' = DOMAIN players
        /\ \A p \in DOMAIN players : /\ players'[p].kills = synced[p].kills
                                     /\ players'[p].deaths = synced[p].deaths
    BY <2>1, <2>3 DEF Fresh, Record
  <2>5. SameScores
    BY <2>3, <2>4 DEF SameScores
  <2> QED
    BY <2>5, ScoresStay
<1>5. ASSUME NEW killer \in Killings, NEW values \in ValuesAfter(killer),
             MatchTick(killer, values)
      PROVE  KillsMatchDeaths'
  BY <1>5, ScoresGrowTogether
<1>6. ASSUME NEW killer \in Killings, NEW values \in ValuesAfter(killer),
             AfterMatchTick(killer, values)
      PROVE  SameScores
  <2> DEFINE alive == [p \in DOMAIN combat_alive |->
                         combat_alive[p] /\ p \notin DOMAIN killer]
  <2>1. alive \in [DOMAIN combat_alive -> BOOLEAN] /\ players' = Synced(alive, values)
    BY <1>6 DEF AfterMatchTick, TypeOK
  <2>2. values \in [DOMAIN total_value -> Nat]
    BY ReportsTyped
  <2> HIDE DEF alive
  <2> QED
    BY <2>1, <2>2, SyncedScores
<1>7. CASE UNCHANGED vars
  BY <1>7 DEF KillsMatchDeaths, KillsColumn, DeathsColumn, TotalOf, vars
<1> QED
  BY <1>1, <1>2, <1>3, <1>4, <1>5, <1>6, <1>7, ScoresStay DEF Next, ResolveTick

\* Every death the loop of resolve_tick counts is also counted for its attacker,
\* however many die in one tick, whoever kills twice and whoever has left
\* (remove_player keeps the record, ensure_player finds it again): the kills and
\* the deaths of the scoreboard add up to the same number.
THEOREM ScoreboardAddsUp == Spec => []KillsMatchDeaths
<1>1. MatchInv /\ KillsMatchDeaths /\ [Next]_vars => KillsMatchDeaths'
  BY StepKeepsScores
<1> QED
  BY <1>1, InitScores, MatchInvariant, PTL DEF Spec
-----------------------------------------------------------------------------
(* The winner *)

\* Once resolve_tick has looked at the players with loot, everybody counts as
\* connected.
LEMMA AllConnected ==
  ASSUME TypeOK,
         NEW alive, NEW values \in [DOMAIN total_value -> Nat]
  PROVE  \A p \in DOMAIN players : Synced(alive, values)[p].connected
<1> TAKE p \in DOMAIN players
<1>1. p \in DOMAIN values /\ players[p] \in Record
  BY DEF TypeOK
<1> QED
  BY <1>1 DEF Synced, Record

\* Neither deaths nor waiting nor the start of the match disconnect anybody.
LEMMA ConnectedStays ==
  ASSUME NEW D, NEW records \in [D -> Record], NEW killer,
         \A p \in D : records[p].connected
  PROVE  /\ \A p \in D : Resolved(records, killer)[p].connected
         /\ \A p \in D : Fresh(records)[p].connected
<1>1. ASSUME NEW r \in Record, r.connected
      PROVE  Struck(r).connected /\ Waited(r).connected
  BY <1>1 DEF Struck, Waited, Record
<1>2. ASSUME NEW p \in D PROVE Resolved(records, killer)[p].connected
  <2> DEFINE r == IF p \in DOMAIN killer THEN Struck(records[p]) ELSE Waited(records[p])
  <2>1. r.connected
    BY <1>1
  <2>2. Resolved(records, killer)[p] =
          [r EXCEPT !.kills = @ + KillsOf(p, killer)]
    BY DEF Resolved
  <2> HIDE DEF r
  <2> QED
    BY <2>1, <2>2
<1>3. \A p \in D : Fresh(records)[p].connected
  BY DEF Fresh, Record
<1> QED
  BY <1>2, <1>3

\* Both ways to end a match name somebody who leads those still in it.
LEMMA ConcludedLeader ==
  ASSUME NEW D, NEW records \in [D -> Record],
         \A p \in D : records[p].connected,
         NEW seconds, NEW accumulator,
         Conclude(records, seconds, accumulator), phase' = "post_match"
  PROVE  \A q \in D :
           \/ records[q].eliminated
           \/ records[q].kills <= records[winner_player_id'].kills
<1>1. ASSUME NEW p \in D, Contenders(records) = {p}, EnterPostMatch(p), NEW q \in D
      PROVE  records[q].eliminated \/ records[q].kills <= records[winner_player_id'].kills
  <2>1. winner_player_id' = p
    BY <1>1 DEF EnterPostMatch
  <2>2. CASE q = p
    BY <2>1, <2>2 DEF Record
  <2>3. CASE q # p
    BY <1>1, <2>3 DEF Contenders
  <2> QED
    BY <2>2, <2>3
<1>2. ASSUME NEW p \in D, EnterPostMatch(p), NEW q \in D,
             \A o \in D \ {p} : RankingBetter(records, p, o)
      PROVE  records[q].kills <= records[winner_player_id'].kills
  <2>1. winner_player_id' = p
    BY <1>2 DEF EnterPostMatch
  <2>2. records[p].kills \in Nat /\ records[q].kills \in Nat
    BY DEF Record
  <2>3. CASE q = p
    BY <2>1, <2>2, <2>3
  <2>4. CASE q # p
    <3>1. RankingBetter(records, p, q)
      BY <1>2, <2>4
    <3>2. records[p].kills = records[q].kills \/ records[p].kills > records[q].kills
      BY <3>1 DEF RankingBetter
    <3> QED
      BY <2>1, <2>2, <3>2
  <2> QED
    BY <2>3, <2>4
<1>3. ~StayInMatch(seconds, accumulator)
  BY DEF StayInMatch
<1>4. DOMAIN records = D
  OBVIOUS
<1> QED
  BY <1>1, <1>2, <1>3, <1>4 DEF Conclude

\* resolve_tick ends the match for a sole contender or by the scoreboard; in
\* either case nobody still in it has more kills than the winner, whoever has left
\* and come back before.
THEOREM TheWinnerLeads == Spec => WinnerLeads
<1> DEFINE Leads ==
      phase # "post_match" /\ phase' = "post_match" =>
        \A p \in DOMAIN players' :
          \/ players'[p].eliminated
          \/ players'[p].kills <= players'[winner_player_id'].kills
<1>1. ASSUME MatchInv, Next, phase # "post_match", phase' = "post_match" PROVE Leads
  <2>1. TypeOK
    BY <1>1 DEF MatchInv
  <2>2. CASE MatchStarts
    <3> DEFINE synced == Synced(combat_alive, total_value)
    <3>1. /\ combat_alive \in [DOMAIN combat_alive -> BOOLEAN]
          /\ total_value \in [DOMAIN total_value -> Nat]
      BY <2>1 DEF TypeOK
    <3>2. /\ synced \in [DOMAIN players -> Record]
          /\ \A p \in DOMAIN players : synced[p].connected
      BY <2>1, <3>1, SyncedRecords, AllConnected
    <3>3. /\ players' = Fresh(synced)
          /\ Conclude(Fresh(synced), MatchDurationSeconds, 0)
      BY <2>2 DEF MatchStarts
    <3> HIDE DEF synced
    <3>4. /\ Fresh(synced) \in [DOMAIN players -> Record]
          /\ \A p \in DOMAIN players : Fresh(synced)[p].connected
      BY <3>2, FreshRecords, ConnectedStays
    <3>5. DOMAIN players' = DOMAIN players
      BY <3>3, <3>4
    <3> QED
      BY <1>1, <3>3, <3>4, <3>5, ConcludedLeader
  <2>3. ASSUME NEW killer \in Killings, NEW values \in ValuesAfter(killer),
               MatchTick(killer, values)
        PROVE  Leads
    <3> DEFINE alive == [p \in DOMAIN combat_alive |->
                           combat_alive[p] /\ p \notin DOMAIN killer]
               synced == Synced(alive, values)
               records == Resolved(synced, killer)
               accumulator == in_match_second_accumulator + TickLength
                 - (in_match_seconds_remaining - SecondsLeft) * SecondLength
    <3>1. /\ alive \in [DOMAIN combat_alive -> BOOLEAN]
          /\ values \in [DOMAIN total_value -> Nat]
          /\ DOMAIN killer \subseteq Players
      BY <2>1, ReportsTyped DEF TypeOK
    <3>2. players' = records /\ Conclude(records, SecondsLeft, accumulator)
      BY <2>3 DEF MatchTick
    <3> HIDE DEF alive, accumulator
    <3>3. /\ synced \in [DOMAIN players -> Record]
          /\ \A p \in DOMAIN players : synced[p].connected
      BY <2>1, <3>1, SyncedRecords, AllConnected
    <3> HIDE DEF synced
    <3>4. /\ records \in [DOMAIN players -> Record]
          /\ \A p \in DOMAIN players : records[p].connected
      BY <3>1, <3>3, ResolvedRecords, ConnectedStays
    <3> HIDE DEF records
    <3>5. DOMAIN players' = DOMAIN players
      BY <3>2, <3>4
    <3> QED
      BY <1>1, <3>2, <3>4, <3>5, ConcludedLeader
  <2>4. ASSUME NEW killer, NEW values, AfterMatchTick(killer, values) PROVE FALSE
    BY <1>1, <2>4 DEF AfterMatchTick
  <2>5. CountdownReset \/ CountdownRuns => FALSE
    BY <1>1 DEF CountdownReset, CountdownRuns
  <2>6. ASSUME NEW p, EnsurePlayer(p) \/ RemovePlayer(p) PROVE FALSE
    BY <1>1, <2>6 DEF EnsurePlayer, RemovePlayer, match_vars
  <2> QED
    BY <1>1, <2>2, <2>3, <2>4, <2>5, <2>6 DEF Next, ResolveTick
<1>2. MatchInv /\ [Next]_vars => [Leads]_vars
  BY <1>1
<1> QED
  BY <1>2, MatchInvariant, PTL DEF Spec, WinnerLeads
=============================================================================
