-------------------------- MODULE GameServerProofs --------------------------
(***************************************************************************)
(* GameServer, for any peers, names, timeouts and match rules: at every    *)
(* step of the loop in main.cpp sessions, match and movement are about the *)
(* same players and no session outlives its connection, and a newcomer     *)
(* always finds a free slot.                                               *)
(*                                                                         *)
(* What sessions and match promise by themselves is proved in              *)
(* SessionManagerProofs and MatchLifecycleProofs; here it is taken over    *)
(* for the tables of the loop, whose steps are theirs.  What those modules *)
(* assume of their constants is part of ServerAssumption.                  *)
(***************************************************************************)
EXTENDS GameServer, FiniteSetTheorems, TLAPS

SessionFacts == INSTANCE SessionManagerProofs
MatchFacts == INSTANCE MatchLifecycleProofs

-----------------------------------------------------------------------------
(* The sessions of the loop are those of SessionManagerProofs *)

LEMMA SessionsAreTheSame ==
  Sessions!SessionInv <=> SessionFacts!SessionInv
BY DEF Sessions!SessionInv, Sessions!TypeOK, Sessions!SlotsMatchSessions,
   Sessions!SessionsKeepTheirName, Sessions!Slots, Sessions!SlotIsFree, Sessions!Joined,
   Sessions!SessionRecord, Sessions!Silence,
   SessionFacts!SessionInv, SessionFacts!TypeOK, SessionFacts!SlotsMatchSessions,
   SessionFacts!SessionsKeepTheirName, SessionFacts!Slots, SessionFacts!SlotIsFree,
   SessionFacts!Joined, SessionFacts!SessionRecord, SessionFacts!Silence

\* What the loop does to the sessions keeps their invariant.
LEMMA SessionsKeepInv ==
  ASSUME Sessions!SessionInv,
         \/ \E peer \in Peers :
              \/ \E name \in Names : \/ Sessions!JoinAccepted(peer, name)
                                     \/ Sessions!JoinRepeated(peer, name)
              \/ Sessions!HandleHeartbeat(peer)
              \/ peer \in DOMAIN sessions_by_peer /\ Sessions!EndSessions({peer})
         \/ Sessions!ClockAdvances
         \/ UNCHANGED session_vars
  PROVE  Sessions!SessionInv'
<1>1. ASSUME NEW peer \in Peers, NEW name \in Names, Sessions!JoinAccepted(peer, name)
      PROVE  SessionFacts!Next
  <2>1. SessionFacts!JoinAccepted(peer, name)
    BY <1>1 DEF Sessions!JoinAccepted, Sessions!SlotsFor, Sessions!Slots,
       Sessions!SlotIsFree, Sessions!Joined, Sessions!Put, SessionFacts!JoinAccepted,
       SessionFacts!SlotsFor, SessionFacts!Slots, SessionFacts!SlotIsFree,
       SessionFacts!Joined, SessionFacts!Put
  <2> QED
    BY <2>1 DEF SessionFacts!Next
<1>2. ASSUME NEW peer \in Peers, NEW name \in Names, Sessions!JoinRepeated(peer, name)
      PROVE  SessionFacts!Next
  <2>1. SessionFacts!JoinRepeated(peer, name)
    BY <1>2 DEF Sessions!JoinRepeated, Sessions!Joined, SessionFacts!JoinRepeated,
       SessionFacts!Joined
  <2> QED
    BY <2>1 DEF SessionFacts!Next
<1>3. ASSUME NEW peer \in Peers, Sessions!HandleHeartbeat(peer)
      PROVE  SessionFacts!Next
  <2>1. SessionFacts!HandleHeartbeat(peer)
    BY <1>3 DEF Sessions!HandleHeartbeat, Sessions!Joined, SessionFacts!HandleHeartbeat,
       SessionFacts!Joined
  <2> QED
    BY <2>1 DEF SessionFacts!Next
<1>4. ASSUME NEW peer \in Peers, peer \in DOMAIN sessions_by_peer,
             Sessions!EndSessions({peer})
      PROVE  SessionFacts!Next
  <2>1. SessionFacts!HandleDisconnect(peer)
    BY <1>4 DEF Sessions!EndSessions, Sessions!Slots, Sessions!Erase,
       SessionFacts!HandleDisconnect, SessionFacts!Joined, SessionFacts!EndSessions,
       SessionFacts!Slots, SessionFacts!Erase
  <2> QED
    BY <2>1 DEF SessionFacts!Next
<1>5. ASSUME Sessions!ClockAdvances PROVE SessionFacts!Next
  <2>1. SessionFacts!ClockAdvances
    BY <1>5 DEF Sessions!ClockAdvances, SessionFacts!ClockAdvances
  <2> QED
    BY <2>1 DEF SessionFacts!Next
<1>6. ASSUME UNCHANGED session_vars PROVE UNCHANGED SessionFacts!vars
  BY <1>6 DEF session_vars, SessionFacts!vars
<1>7. [SessionFacts!Next]_(SessionFacts!vars)
  BY <1>1, <1>2, <1>3, <1>4, <1>5, <1>6
<1>8. SessionFacts!SessionInv'
  BY <1>7, ServerAssumption, SessionsAreTheSame, SessionFacts!SessionInvInductive
<1> QED
  BY <1>8, SessionsAreTheSame, PTL

-----------------------------------------------------------------------------
(* The match of the loop is that of MatchLifecycleProofs *)

LEMMA MatchesAreTheSame ==
  Match!MatchInv <=> MatchFacts!MatchInv
BY DEF Match!MatchInv, Match!TypeOK, Match!PhaseConsistent, Match!BudgetFollowsDeaths,
   Match!RespawnsPendForTheDead, Match!Players, Match!Record,
   MatchFacts!MatchInv, MatchFacts!TypeOK, MatchFacts!PhaseConsistent,
   MatchFacts!BudgetFollowsDeaths, MatchFacts!RespawnsPendForTheDead,
   MatchFacts!Players, MatchFacts!Record

\* Every way a tick is resolved in the loop is one of MatchLifecycleProofs.
LEMMA TicksAreTheSame ==
  ASSUME Match!ResolveTick PROVE MatchFacts!ResolveTick
<1>1. ASSUME Match!CountdownReset PROVE MatchFacts!CountdownReset
  BY <1>1 DEF Match!CountdownReset, Match!Synced, Match!ConnectedCount,
     Match!Cardinality, MatchFacts!CountdownReset, MatchFacts!Synced,
     MatchFacts!ConnectedCount, MatchFacts!Cardinality
<1>2. ASSUME Match!CountdownRuns PROVE MatchFacts!CountdownRuns
  BY <1>2 DEF Match!CountdownRuns, Match!Synced, Match!ConnectedCount,
     Match!Cardinality, MatchFacts!CountdownRuns, MatchFacts!Synced,
     MatchFacts!ConnectedCount, MatchFacts!Cardinality
<1>3. ASSUME NEW records, NEW seconds, NEW accumulator,
             Match!Conclude(records, seconds, accumulator)
      PROVE  MatchFacts!Conclude(records, seconds, accumulator)
  BY <1>3 DEF Match!Conclude, Match!Contenders, Match!RankingBetter,
     Match!EnterPostMatch, Match!StayInMatch, Match!Cardinality,
     MatchFacts!Conclude, MatchFacts!Contenders, MatchFacts!RankingBetter,
     MatchFacts!EnterPostMatch, MatchFacts!StayInMatch, MatchFacts!Cardinality
<1>4. ASSUME Match!MatchStarts PROVE MatchFacts!MatchStarts
  BY <1>4, <1>3 DEF Match!MatchStarts, Match!Synced, Match!ConnectedCount, Match!Fresh,
     Match!Cardinality, MatchFacts!MatchStarts, MatchFacts!Synced,
     MatchFacts!ConnectedCount, MatchFacts!Fresh, MatchFacts!Cardinality
<1>5. ASSUME NEW killer, NEW values, Match!MatchTick(killer, values)
      PROVE  MatchFacts!MatchTick(killer, values)
  BY <1>5, <1>3 DEF Match!MatchTick, Match!Synced, Match!Resolved, Match!KillsOf,
     Match!Struck, Match!Waited, Match!RespawnDue, Match!RespawnedPlayers,
     Match!SecondsLeft, Match!Cardinality,
     MatchFacts!MatchTick, MatchFacts!Synced, MatchFacts!Resolved, MatchFacts!KillsOf,
     MatchFacts!Struck, MatchFacts!Waited, MatchFacts!RespawnDue,
     MatchFacts!RespawnedPlayers, MatchFacts!SecondsLeft, MatchFacts!Cardinality
<1>6. ASSUME NEW killer, NEW values, Match!AfterMatchTick(killer, values)
      PROVE  MatchFacts!AfterMatchTick(killer, values)
  BY <1>6 DEF Match!AfterMatchTick, Match!Synced, Match!match_vars, Match!timer_vars,
     MatchFacts!AfterMatchTick, MatchFacts!Synced, MatchFacts!match_vars,
     MatchFacts!timer_vars
<1>7. /\ Match!Killings = MatchFacts!Killings
      /\ \A killer : Match!Others(killer) <=> MatchFacts!Others(killer)
      /\ \A killer : Match!ValuesAfter(killer) = MatchFacts!ValuesAfter(killer)
  BY DEF Match!Killings, Match!Others, Match!ValuesAfter,
     MatchFacts!Killings, MatchFacts!Others, MatchFacts!ValuesAfter
<1> QED
  BY <1>1, <1>2, <1>4, <1>5, <1>6, <1>7 DEF Match!ResolveTick, MatchFacts!ResolveTick

\* What the loop does to the match keeps its invariant.
LEMMA MatchKeepsInv ==
  ASSUME Match!MatchInv,
         \/ \E id \in 1 .. MaxPlayers : Match!EnsurePlayer(id) \/ Match!RemovePlayer(id)
         \/ Match!ResolveTick
         \/ UNCHANGED match_vars
  PROVE  Match!MatchInv'
<1>1. ASSUME NEW id \in 1 .. MaxPlayers, Match!EnsurePlayer(id) PROVE MatchFacts!Next
  <2>1. MatchFacts!EnsurePlayer(id)
    BY <1>1 DEF Match!EnsurePlayer, Match!NewRecord, Match!Put, Match!Emplace,
       Match!match_vars, Match!timer_vars, MatchFacts!EnsurePlayer,
       MatchFacts!NewRecord, MatchFacts!Put, MatchFacts!Emplace,
       MatchFacts!match_vars, MatchFacts!timer_vars
  <2> QED
    BY <2>1 DEF MatchFacts!Next, MatchFacts!Players
<1>2. ASSUME NEW id \in 1 .. MaxPlayers, Match!RemovePlayer(id) PROVE MatchFacts!Next
  <2>1. MatchFacts!RemovePlayer(id)
    BY <1>2 DEF Match!RemovePlayer, Match!Erase, Match!match_vars, Match!timer_vars,
       MatchFacts!RemovePlayer, MatchFacts!Erase, MatchFacts!match_vars,
       MatchFacts!timer_vars
  <2> QED
    BY <2>1 DEF MatchFacts!Next, MatchFacts!Players
<1>3. ASSUME Match!ResolveTick PROVE MatchFacts!Next
  BY <1>3, TicksAreTheSame DEF MatchFacts!Next
<1>4. ASSUME UNCHANGED match_vars PROVE UNCHANGED MatchFacts!vars
  BY <1>4 DEF match_vars, MatchFacts!vars, MatchFacts!match_vars, MatchFacts!timer_vars
<1>5. [MatchFacts!Next]_(MatchFacts!vars)
  BY <1>1, <1>2, <1>3, <1>4
<1>6. MatchFacts!MatchInv'
  BY <1>5, ServerAssumption, MatchesAreTheSame, MatchFacts!StepKeepsMatch
<1> QED
  BY <1>6, MatchesAreTheSame, PTL

-----------------------------------------------------------------------------
(* Who the parts of the loop are about *)

\* Players are slots, and no two sessions have the same.
LEMMA IdsAreSlots ==
  ASSUME Sessions!SessionInv
  PROVE  /\ DOMAIN sessions_by_peer \subseteq Peers
         /\ \A p \in DOMAIN sessions_by_peer :
              sessions_by_peer[p].player_id \in 1 .. MaxPlayers
         /\ \A p, q \in DOMAIN sessions_by_peer :
              sessions_by_peer[p].player_id = sessions_by_peer[q].player_id => p = q
<1>1. /\ DOMAIN sessions_by_peer \subseteq Peers
      /\ \A p \in DOMAIN sessions_by_peer :
           sessions_by_peer[p].player_id \in 1 .. MaxPlayers
  BY DEF Sessions!SessionInv, Sessions!TypeOK, Sessions!SessionRecord, Sessions!Slots
<1>2. \A p \in DOMAIN sessions_by_peer : slot_owners[sessions_by_peer[p].player_id] = p
  BY DEF Sessions!SessionInv, Sessions!SlotsMatchSessions
<1> QED
  BY <1>1, <1>2, Zenon

\* A heartbeat, a repeated join and time passing change no player.
LEMMA SilencePlayers ==
  ASSUME Sessions!SessionInv,
         \/ \E peer \in Peers : \/ Sessions!HandleHeartbeat(peer)
                                \/ \E name \in Names : Sessions!JoinRepeated(peer, name)
         \/ Sessions!ClockAdvances
         \/ UNCHANGED session_vars
  PROVE  DOMAIN sessions_by_peer' = DOMAIN sessions_by_peer /\ PlayerIds' = PlayerIds
<1>1. \A p \in DOMAIN sessions_by_peer : sessions_by_peer[p] \in Sessions!SessionRecord
  BY DEF Sessions!SessionInv, Sessions!TypeOK
<1>2. /\ DOMAIN sessions_by_peer' = DOMAIN sessions_by_peer
      /\ \A p \in DOMAIN sessions_by_peer :
           sessions_by_peer'[p].player_id = sessions_by_peer[p].player_id
  <2>1. ASSUME NEW peer, sessions_by_peer' = [sessions_by_peer EXCEPT ![peer].silent = 0]
        PROVE  <1>2!1 /\ <1>2!2
    BY <1>1, <2>1 DEF Sessions!SessionRecord
  <2>2. ASSUME Sessions!ClockAdvances PROVE <1>2!1 /\ <1>2!2
    BY <1>1, <2>2 DEF Sessions!ClockAdvances, Sessions!SessionRecord
  <2> QED
    BY <2>1, <2>2 DEF Sessions!HandleHeartbeat, Sessions!JoinRepeated, session_vars
<1> QED
  BY <1>2 DEF PlayerIds

\* A session that ends takes its player along and no other.
LEMMA EndedPlayer ==
  ASSUME Sessions!SessionInv, NEW peer \in DOMAIN sessions_by_peer,
         Sessions!EndSessions({peer})
  PROVE  /\ DOMAIN sessions_by_peer' = DOMAIN sessions_by_peer \ {peer}
         /\ PlayerIds' = PlayerIds \ {sessions_by_peer[peer].player_id}
<1>1. sessions_by_peer' = [p \in DOMAIN sessions_by_peer \ {peer} |-> sessions_by_peer[p]]
  BY DEF Sessions!EndSessions, Sessions!Erase
<1>2. \A p \in DOMAIN sessions_by_peer \ {peer} :
        sessions_by_peer[p].player_id # sessions_by_peer[peer].player_id
  BY IdsAreSlots
<1> QED
  BY <1>1, <1>2 DEF PlayerIds

\* A join adds one session with its player.
LEMMA JoinedPlayer ==
  ASSUME NEW peer \in Peers, NEW name \in Names, Sessions!JoinAccepted(peer, name)
  PROVE  /\ DOMAIN sessions_by_peer' = DOMAIN sessions_by_peer \cup {peer}
         /\ sessions_by_peer'[peer].player_id \in 1 .. MaxPlayers
         /\ PlayerIds' = PlayerIds \cup {sessions_by_peer'[peer].player_id}
<1>1. PICK slot \in Sessions!SlotsFor(name) :
        sessions_by_peer' = Sessions!Put(sessions_by_peer, peer,
          [player_id |-> slot, player_name |-> name, silent |-> 0])
  BY DEF Sessions!JoinAccepted
<1>2. slot \in 1 .. MaxPlayers
  BY DEF Sessions!SlotsFor, Sessions!Slots
<1>3. peer \notin DOMAIN sessions_by_peer
  BY DEF Sessions!JoinAccepted, Sessions!Joined
<1>4. /\ DOMAIN sessions_by_peer' = DOMAIN sessions_by_peer \cup {peer}
      /\ sessions_by_peer'[peer].player_id = slot
      /\ \A p \in DOMAIN sessions_by_peer : sessions_by_peer'[p] = sessions_by_peer[p]
  BY <1>1, <1>3 DEF Sessions!Put
<1>5. PlayerIds' = PlayerIds \cup {slot}
  BY <1>4 DEF PlayerIds
<1> QED
  BY <1>2, <1>4, <1>5

\* The match has the players that enter and have not left.
LEMMA EnteredMatch ==
  ASSUME NEW id, Match!EnsurePlayer(id)
  PROVE  /\ DOMAIN combat_alive' = DOMAIN combat_alive \cup {id}
         /\ DOMAIN players' = DOMAIN players \cup {id}
BY DEF Match!EnsurePlayer, Match!Put, Match!Emplace

LEMMA LeftMatch ==
  ASSUME NEW id, Match!RemovePlayer(id)
  PROVE  /\ DOMAIN combat_alive' = DOMAIN combat_alive \ {id}
         /\ DOMAIN players' = DOMAIN players
BY DEF Match!RemovePlayer, Match!Erase

LEMMA TickedMatch ==
  ASSUME Match!ResolveTick
  PROVE  /\ DOMAIN combat_alive' = DOMAIN combat_alive
         /\ DOMAIN players' = DOMAIN players
<1>1. \A alive, values : DOMAIN Match!Synced(alive, values) = DOMAIN players
  BY DEF Match!Synced
<1>2. \A records, killer : /\ DOMAIN Match!Fresh(records) = DOMAIN records
                           /\ DOMAIN Match!Resolved(records, killer) = DOMAIN records
  BY DEF Match!Fresh, Match!Resolved
<1>3. ASSUME Match!CountdownReset \/ Match!CountdownRuns \/ Match!MatchStarts
      PROVE  UNCHANGED combat_alive /\ DOMAIN players' = DOMAIN players
  BY <1>1, <1>2, <1>3 DEF Match!CountdownReset, Match!CountdownRuns, Match!MatchStarts
<1>4. ASSUME NEW killer, NEW values,
             Match!MatchTick(killer, values) \/ Match!AfterMatchTick(killer, values)
      PROVE  /\ DOMAIN combat_alive' = DOMAIN combat_alive
             /\ DOMAIN players' = DOMAIN players
  BY <1>1, <1>2, <1>4 DEF Match!MatchTick, Match!AfterMatchTick
<1> QED
  BY <1>3, <1>4 DEF Match!ResolveTick

-----------------------------------------------------------------------------
(* The inductive invariant *)

\* The variables of the loop itself.
LoopTyped ==
  /\ peers_by_token \subseteq Peers
  /\ link \in [Peers -> {"down", "up", "closing"}]
  /\ pc \in {"pump", "timeouts", "ticks"}
  /\ ticks_due \in 0 .. MaxDue

\* A connection that is open and not being closed is one the server sends to.
OpenAreKnown == \A p \in Peers : link[p] = "up" => p \in peers_by_token

IInv ==
  /\ Sessions!SessionInv /\ Match!MatchInv
  /\ LoopTyped /\ OpenAreKnown
  /\ SimulationsFollowSessions /\ SessionsHaveConnections

LEMMA IInvInitially == Init => IInv
<1> SUFFICES ASSUME Init PROVE IInv
  OBVIOUS
<1>1. Sessions!SessionInv
  <2>1. SessionFacts!Init
    BY DEF Init, Sessions!Init, Sessions!Slots, Sessions!EmptyMap,
       SessionFacts!Init, SessionFacts!Slots, SessionFacts!EmptyMap
  <2> QED
    BY <2>1, ServerAssumption, SessionFacts!SessionInvInitially, SessionsAreTheSame
<1>2. Match!MatchInv
  <2>1. MatchFacts!Init
    BY DEF Init, Match!Init, Match!EmptyMap, MatchFacts!Init, MatchFacts!EmptyMap
  <2> QED
    BY <2>1, ServerAssumption, MatchFacts!InitMatch, MatchesAreTheSame
<1>3. LoopTyped
  BY ServerAssumption DEF Init, LoopTyped
<1>4. DOMAIN sessions_by_peer = {} /\ DOMAIN combat_alive = {} /\ movement = {}
  BY DEF Init, Sessions!Init, Sessions!EmptyMap, Match!Init, Match!EmptyMap
<1>5. SimulationsFollowSessions /\ SessionsHaveConnections
  BY <1>4 DEF Init, SimulationsFollowSessions, SessionsHaveConnections, PlayerIds
<1> QED
  BY <1>1, <1>2, <1>3, <1>5 DEF IInv, Init, OpenAreKnown

\* Connections come and go without sessions.
LEMMA ConnectionsKeepIInv ==
  ASSUME IInv, NEW peer \in Peers,
         \/ Connect(peer)
         \/ \E name \in Names : JoinRejected(peer, name)
         \/ DisconnectStranger(peer)
  PROVE  IInv'
<1>1. UNCHANGED <<session_vars, match_vars, movement, loop_vars>>
  BY DEF Connect, JoinRejected, Sessions!JoinRejected, Sessions!vars, session_vars,
     DisconnectStranger
<1>2. /\ link' \in [Peers -> {"down", "up", "closing"}]
      /\ \A p \in Peers : p # peer => link'[p] = link[p]
  BY DEF IInv, LoopTyped, Connect, JoinRejected, DisconnectStranger
<1>3. \/ peers_by_token' = peers_by_token \cup {peer} /\ link'[peer] = "up"
      \/ peers_by_token' = peers_by_token /\ link'[peer] = "closing"
      \/ /\ peers_by_token' = peers_by_token \ {peer} /\ link'[peer] = "down"
         /\ peer \notin DOMAIN sessions_by_peer
  BY DEF IInv, LoopTyped, Connect, JoinRejected, DisconnectStranger, Sessions!Joined
<1>4. Sessions!SessionInv' /\ Match!MatchInv'
  BY <1>1, SessionsKeepInv, MatchKeepsInv DEF IInv
<1>5. LoopTyped'
  BY <1>1, <1>2, <1>3 DEF IInv, LoopTyped, loop_vars
<1>6. SimulationsFollowSessions'
  BY <1>1 DEF IInv, SimulationsFollowSessions, PlayerIds, session_vars, match_vars
<1>7. SessionsHaveConnections' /\ OpenAreKnown'
  BY <1>1, <1>2, <1>3 DEF IInv, LoopTyped, SessionsHaveConnections, OpenAreKnown,
     session_vars
<1> QED
  BY <1>4, <1>5, <1>6, <1>7 DEF IInv

\* A player joins sessions, match and movement in one step.
LEMMA JoinKeepsIInv ==
  ASSUME IInv, NEW peer \in Peers, NEW name \in Names, Join(peer, name)
  PROVE  IInv'
<1> DEFINE id == sessions_by_peer'[peer].player_id
<1>1. /\ Sessions!JoinAccepted(peer, name) \/ Sessions!JoinRepeated(peer, name)
      /\ Match!EnsurePlayer(id) /\ movement' = movement \cup {id}
      /\ link[peer] = "up"
      /\ UNCHANGED <<net_vars, loop_vars>>
  BY DEF Join, Enter
<1>2. Sessions!SessionInv'
  BY <1>1, SessionsKeepInv DEF IInv
<1>3. /\ id \in 1 .. MaxPlayers /\ PlayerIds' = PlayerIds \cup {id}
      /\ DOMAIN sessions_by_peer' = DOMAIN sessions_by_peer \cup {peer}
  <2>1. CASE Sessions!JoinAccepted(peer, name)
    BY <2>1, JoinedPlayer
  <2>2. CASE Sessions!JoinRepeated(peer, name)
    <3>1. /\ DOMAIN sessions_by_peer' = DOMAIN sessions_by_peer
          /\ PlayerIds' = PlayerIds /\ peer \in DOMAIN sessions_by_peer
      BY <2>2, SilencePlayers DEF IInv, Sessions!JoinRepeated, Sessions!Joined
    <3>2. id \in PlayerIds'
      BY <3>1 DEF PlayerIds
    <3>3. id = sessions_by_peer[peer].player_id
      <4>1. sessions_by_peer[peer] \in Sessions!SessionRecord
        BY <3>1 DEF IInv, Sessions!SessionInv, Sessions!TypeOK
      <4> QED
        BY <2>2, <3>1, <4>1 DEF Sessions!JoinRepeated, Sessions!SessionRecord
    <3> QED
      BY <3>1, <3>2, <3>3, IdsAreSlots DEF IInv
  <2> QED
    BY <1>1, <2>1, <2>2
<1> HIDE DEF id
<1>4. Match!MatchInv'
  BY <1>1, <1>3, MatchKeepsInv DEF IInv
<1>5. SimulationsFollowSessions'
  BY <1>1, <1>3, EnteredMatch DEF IInv, SimulationsFollowSessions
<1>6. peer \in peers_by_token
  BY <1>1 DEF IInv, OpenAreKnown
<1>7. LoopTyped' /\ SessionsHaveConnections' /\ OpenAreKnown'
  BY <1>1, <1>3, <1>6 DEF IInv, LoopTyped, SessionsHaveConnections, OpenAreKnown,
     net_vars, loop_vars
<1> QED
  BY <1>2, <1>4, <1>5, <1>7 DEF IInv

\* A session that ends, by a hang-up or an eviction, is missing everywhere at once.
LEMMA LeaveKeepsIInv ==
  ASSUME IInv, NEW peer \in Peers, DisconnectPlayer(peer) \/ Evict(peer)
  PROVE  IInv'
<1> DEFINE id == sessions_by_peer[peer].player_id
<1>1. /\ peer \in DOMAIN sessions_by_peer /\ Sessions!EndSessions({peer})
      /\ Match!RemovePlayer(id) /\ movement' = movement \ {id}
      /\ peers_by_token' = peers_by_token \ {peer}
      /\ UNCHANGED loop_vars
  BY DEF DisconnectPlayer, Evict, Leave, Sessions!HandleDisconnect, Sessions!Joined,
     Sessions!TimedOut
<1>2. /\ link' \in [Peers -> {"down", "up", "closing"}]
      /\ \A p \in Peers : p # peer => link'[p] = link[p]
      /\ link'[peer] # "up"
  <2>1. CASE DisconnectPlayer(peer)
    BY <2>1 DEF IInv, LoopTyped, DisconnectPlayer
  <2>2. CASE Evict(peer)
    BY <2>2 DEF IInv, LoopTyped, OpenAreKnown, Evict
  <2> QED
    BY <2>1, <2>2
<1>3. id \in 1 .. MaxPlayers
  BY <1>1, IdsAreSlots DEF IInv
<1>4. Sessions!SessionInv' /\ Match!MatchInv'
  BY <1>1, <1>3, SessionsKeepInv, MatchKeepsInv DEF IInv
<1>5. /\ DOMAIN sessions_by_peer' = DOMAIN sessions_by_peer \ {peer}
      /\ PlayerIds' = PlayerIds \ {id}
  BY <1>1, EndedPlayer DEF IInv
<1> HIDE DEF id
<1>6. SimulationsFollowSessions'
  BY <1>1, <1>5, LeftMatch DEF IInv, SimulationsFollowSessions
<1>7. LoopTyped' /\ SessionsHaveConnections' /\ OpenAreKnown'
  BY <1>1, <1>2, <1>5 DEF IInv, LoopTyped, SessionsHaveConnections, OpenAreKnown,
     loop_vars
<1> QED
  BY <1>4, <1>6, <1>7 DEF IInv

\* Heartbeats, ticks, time and the turns of the loop change no membership.
LEMMA LoopKeepsIInv ==
  ASSUME IInv,
         \/ \E peer \in Peers : Message(peer)
         \/ PumpIdle \/ TimeoutsDone \/ RunTick \/ TicksDone
         \/ ClockAdvances
         \/ UNCHANGED <<session_vars, match_vars, movement, net_vars, loop_vars>>
  PROVE  IInv'
<1>1. /\ \/ \E peer \in Peers : Sessions!HandleHeartbeat(peer)
         \/ Sessions!ClockAdvances
         \/ UNCHANGED session_vars
      /\ Match!ResolveTick \/ UNCHANGED match_vars
      /\ UNCHANGED <<movement, net_vars>>
  BY DEF Message, PumpIdle, TimeoutsDone, RunTick, TicksDone, ClockAdvances
<1>2. Sessions!SessionInv'
  BY <1>1, SessionsKeepInv DEF IInv
<1>3. Match!MatchInv'
  BY <1>1, MatchKeepsInv DEF IInv
<1>4. DOMAIN sessions_by_peer' = DOMAIN sessions_by_peer /\ PlayerIds' = PlayerIds
  BY <1>1, SilencePlayers DEF IInv
<1>5. DOMAIN combat_alive' = DOMAIN combat_alive /\ DOMAIN players' = DOMAIN players
  BY <1>1, TickedMatch DEF match_vars
<1>6. ticks_due' \in 0 .. MaxDue /\ pc' \in {"pump", "timeouts", "ticks"}
  <2>1. ticks_due \in Nat /\ ticks_due <= MaxDue /\ MaxDue \in Nat \ {0}
        /\ pc \in {"pump", "timeouts", "ticks"}
    BY ServerAssumption DEF IInv, LoopTyped
  <2> QED
    BY <2>1 DEF Message, Service, PumpIdle, TimeoutsDone, RunTick, TicksDone,
       ClockAdvances, loop_vars
<1>7. SimulationsFollowSessions' /\ SessionsHaveConnections' /\ OpenAreKnown' /\ LoopTyped'
  BY <1>1, <1>4, <1>5, <1>6 DEF IInv, SimulationsFollowSessions,
     SessionsHaveConnections, OpenAreKnown, LoopTyped, net_vars
<1> QED
  BY <1>2, <1>3, <1>7 DEF IInv

LEMMA IInvInductive == IInv /\ [Next]_vars => IInv'
<1> SUFFICES ASSUME IInv, [Next]_vars PROVE IInv'
  OBVIOUS
<1>1. ASSUME NEW peer \in Peers,
             \/ Connect(peer) \/ (\E name \in Names : JoinRejected(peer, name))
             \/ DisconnectStranger(peer)
      PROVE  IInv'
  BY <1>1, ConnectionsKeepIInv
<1>2. ASSUME NEW peer \in Peers, NEW name \in Names, Join(peer, name) PROVE IInv'
  BY <1>2, JoinKeepsIInv
<1>3. ASSUME NEW peer \in Peers, DisconnectPlayer(peer) \/ Evict(peer) PROVE IInv'
  BY <1>3, LeaveKeepsIInv
<1>4. ASSUME \/ \E peer \in Peers : Message(peer) \/ MessageDropped(peer)
             \/ PumpIdle \/ TimeoutsDone \/ RunTick \/ TicksDone
             \/ ClockAdvances
             \/ UNCHANGED vars
      PROVE  IInv'
  BY <1>4, LoopKeepsIInv DEF MessageDropped, vars
<1> QED
  BY <1>1, <1>2, <1>3, <1>4 DEF Next, Server, NetworkEvent, Hears

-----------------------------------------------------------------------------
(* The theorems *)

\* The inductive invariant holds of every reachable state of the server.
THEOREM ServerInvariant == Spec => []IInv
  BY IInvInitially, IInvInductive, PTL DEF Spec

\* Sessions, match and movement have the same players at every step of the loop
\* in main.cpp, whatever joins, hang-ups and evictions come in which order.
THEOREM SimulationsAlwaysFollow == Spec => []SimulationsFollowSessions
<1>1. IInv => SimulationsFollowSessions
  BY DEF IInv
<1> QED
  BY <1>1, ServerInvariant, PTL

\* The bit of the events is one.
EventIsABit == event \in {0, 1}

LEMMA EventStaysABit == Spec => []EventIsABit
<1>1. Init => EventIsABit
  BY DEF Init, EventIsABit
<1>2. EventIsABit /\ [Next]_vars => EventIsABit'
  <2> SUFFICES ASSUME EventIsABit, [Next]_vars PROVE EventIsABit'
    OBVIOUS
  <2>1. Service \/ event' = 0 \/ UNCHANGED event
    BY DEF Next, Server, NetworkEvent, Hears, Connect, Join, JoinRejected, Message,
       MessageDropped, DisconnectStranger, DisconnectPlayer, PumpIdle, ClockAdvances,
       Evict, TimeoutsDone, RunTick, TicksDone, vars
  <2> QED
    BY <2>1 DEF Service, EventIsABit
<1> QED
  BY <1>1, <1>2, PTL DEF Spec

\* The tables of the loop hold what they should, and no session outlives its
\* connection.
THEOREM ServerTablesFit == Spec => []ServerInv
<1>1. IInv /\ EventIsABit => ServerInv
  <2> SUFFICES ASSUME IInv, EventIsABit PROVE ServerInv
    OBVIOUS
  <2>1. Sessions!TypeOK /\ Match!TypeOK
    BY DEF IInv, Sessions!SessionInv, Match!MatchInv
  <2>2. movement \subseteq 1 .. MaxPlayers
    BY IdsAreSlots DEF IInv, SimulationsFollowSessions, PlayerIds
  <2> QED
    BY <2>1, <2>2 DEF IInv, EventIsABit, LoopTyped, ServerInv, TypeOK
<1> QED
  BY <1>1, ServerInvariant, EventStaysABit, PTL

-----------------------------------------------------------------------------
(* Room for newcomers *)

\* A set of natural numbers has a least one: of the intervals 1 .. n that its
\* numbers bound, one contains no other.
LEMMA LeastNumber ==
  ASSUME NEW T, T \subseteq Nat, T # {}
  PROVE  \E n \in T : \A m \in T : n <= m
<1> DEFINE R == StrictSubsetOrdering(Nat)
           below == {1 .. n : n \in T}
<1>1. IsWellFoundedOn(R, FiniteSubsetsOf(Nat))
  BY FS_StrictSubsetOrderingWellFounded
<1>2. below \subseteq FiniteSubsetsOf(Nat)
  <2> SUFFICES ASSUME NEW n \in T PROVE 1 .. n \in FiniteSubsetsOf(Nat)
    OBVIOUS
  <2>1. IsFiniteSet(1 .. n)
    BY FS_Interval
  <2> QED
    BY <2>1 DEF FiniteSubsetsOf
<1>3. below # {}
  OBVIOUS
<1> HIDE DEF below, R
<1>4. PICK x \in below : \A y \in below : ~(<<y, x>> \in R)
  BY <1>1, <1>2, <1>3, WFMin
<1>5. PICK n \in T : x = 1 .. n
  BY DEF below
<1>6. ASSUME NEW m \in T PROVE n <= m
  <2> SUFFICES ASSUME m < n PROVE FALSE
    OBVIOUS
  <2>1. 1 .. m \in below
    BY DEF below
  <2>2. 1 .. m \in SUBSET Nat /\ 1 .. n \in SUBSET Nat
    OBVIOUS
  <2>3. 1 .. m \subseteq 1 .. n /\ n \in 1 .. n /\ n \notin 1 .. m
    OBVIOUS
  <2>4. 1 .. m # 1 .. n
    BY <2>3
  <2>5. <<1 .. m, 1 .. n>> \in R
    BY <2>2, <2>3, <2>4 DEF R, StrictSubsetOrdering
  <2> QED
    BY <1>4, <1>5, <2>1, <2>5
<1> QED
  BY <1>6

\* As long as a peer has no session some slot is free: slots with an owner have
\* different ones, and there are no more peers than slots.
LEMMA SomeSlotIsFree ==
  ASSUME Sessions!SessionInv, NEW peer \in Peers, ~Sessions!Joined(peer)
  PROVE  \E s \in 1 .. MaxPlayers : slot_owners[s] = NoPeer
<1> SUFFICES ASSUME \A s \in 1 .. MaxPlayers : slot_owners[s] # NoPeer PROVE FALSE
  OBVIOUS
<1> DEFINE others == Peers \ {peer}
<1>1. /\ MaxPlayers \in Nat /\ IsFiniteSet(Peers) /\ Cardinality(Peers) <= MaxPlayers
  BY ServerAssumption
<1>2. \A s \in 1 .. MaxPlayers : /\ slot_owners[s] \in DOMAIN sessions_by_peer
                                 /\ sessions_by_peer[slot_owners[s]].player_id = s
  BY DEF Sessions!SessionInv, Sessions!SlotsMatchSessions, Sessions!SlotIsFree,
     Sessions!Joined, Sessions!Slots
<1>3. slot_owners \in [1 .. MaxPlayers -> others]
  <2>1. DOMAIN sessions_by_peer \subseteq others
    BY IdsAreSlots DEF Sessions!Joined
  <2>2. slot_owners \in [1 .. MaxPlayers -> Peers \cup {NoPeer}]
    BY DEF Sessions!SessionInv, Sessions!TypeOK, Sessions!Slots
  <2> QED
    BY <1>2, <2>1, <2>2
<1>4. IsFiniteSet(1 .. MaxPlayers) /\ Cardinality(1 .. MaxPlayers) = MaxPlayers
  BY <1>1, FS_Interval
<1>5. IsFiniteSet(others) /\ Cardinality(others) < MaxPlayers
  <2>1. IsFiniteSet(others) /\ Cardinality(others) = Cardinality(Peers) - 1
    BY <1>1, FS_RemoveElement
  <2>2. Cardinality(Peers) \in Nat
    BY <1>1, FS_CardinalityType
  <2> QED
    BY <1>1, <2>1, <2>2
<1> HIDE DEF others
<1>6. PICK s, t \in 1 .. MaxPlayers : s # t /\ slot_owners[s] = slot_owners[t]
  BY <1>3, <1>4, <1>5, FS_PigeonHole
<1>7. s = t
  BY <1>2, <1>6
<1> QED
  BY <1>6, <1>7

\* A newcomer with a new name always gets a slot: handle_join_request never
\* answers ServerFull to one, since ENet lets in no more peers than there are slots.
THEOREM NewcomersFindRoom == Spec => []NewNamesFindRoom
<1>1. IInv => NewNamesFindRoom
  <2> SUFFICES ASSUME IInv, NEW peer \in Peers, NEW name \in ValidNames,
                      ~Sessions!Joined(peer), name \notin DOMAIN slot_by_player_name
               PROVE  Sessions!SlotsFor(name) # {}
    BY DEF NewNamesFindRoom
  <2> DEFINE free == {s \in 1 .. MaxPlayers : slot_owners[s] = NoPeer}
  <2>1. free # {}
    BY SomeSlotIsFree DEF IInv
  <2>2. free \subseteq Nat
    OBVIOUS
  <2>3. PICK s \in free : \A t \in free : s <= t
    <3> HIDE DEF free
    <3> QED
      BY <2>1, <2>2, LeastNumber
  <2>4. Sessions!SlotsFor(name) = {r \in free : \A t \in free : r <= t}
    BY DEF Sessions!SlotsFor, Sessions!Slots, Sessions!SlotIsFree
  <2> QED
    BY <2>3, <2>4
<1> QED
  BY <1>1, ServerInvariant, PTL
=============================================================================
