----------------------------- MODULE GameServer -----------------------------
(***************************************************************************)
(* server/src/main.cpp: the one thread that owns the ENet host, the        *)
(* sessions and the simulations, and runs                                  *)
(*                                                                         *)
(*   pump      handle network events until none arrives for 16 ms          *)
(*   timeouts  end the sessions that have fallen silent                    *)
(*   ticks     run every tick that is due                                  *)
(*                                                                         *)
(* forever.  SessionManager and MatchLifecycleSimulation are composed with *)
(* the loop; the movement simulation is the set of the players it moves.   *)
(*                                                                         *)
(* One clock unit is one tick: the clock may move whenever the thread      *)
(* waits for an event.                                                     *)
(***************************************************************************)
EXTENDS Integers, FiniteSets, Maps

CONSTANTS
  Peers, NoPeer, Names, ValidNames, MaxPlayers, HeartbeatTimeout,
  NoWinner, PreMatchTicks, MatchDurationSeconds, RespawnDelayTicks,
  RespawnsPerPlayer, MinPlayersToStart, TickLength, SecondLength, MaxTotalValue,
  MaxDue   \* bound: ticks that can be overdue, later ones are not counted

\* enet_host_create is given room for max_players peers; the rest is what the
\* sessions and the match assume of their configuration.
ASSUME ServerAssumption ==
  /\ IsFiniteSet(Peers) /\ Cardinality(Peers) <= MaxPlayers
  /\ MaxDue \in Nat \ {0}
  /\ NoPeer \notin Peers /\ ValidNames \subseteq Names
  /\ NoWinner \notin 1 .. MaxPlayers
  /\ {MaxPlayers, HeartbeatTimeout, PreMatchTicks, RespawnsPerPlayer,
      MaxTotalValue} \subseteq Nat
  /\ {MatchDurationSeconds, RespawnDelayTicks, MinPlayersToStart, TickLength,
      SecondLength} \subseteq Nat \ {0}

VARIABLES
  slot_owners, sessions_by_peer, slot_by_player_name,
  phase, pre_match_ticks_remaining, in_match_seconds_remaining,
  in_match_second_accumulator, winner_player_id, players, combat_alive,
  total_value,
  movement,         \* the players MovementSimulation has a state for
  peers_by_token,   \* the peers the server would send to
  link,             \* peer -> state of its ENet connection
  event,            \* a bit that every network event flips, and the idle pump clears:
                    \* an event that changes nothing else keeps the pump busy, too
  pc,               \* where the loop stands
  ticks_due         \* ticks whose deadline has passed

Sessions == INSTANCE SessionManager
Match == INSTANCE MatchLifecycleSimulation

session_vars == <<slot_owners, sessions_by_peer, slot_by_player_name>>
match_vars == <<phase, pre_match_ticks_remaining, in_match_seconds_remaining,
                in_match_second_accumulator, winner_player_id, players,
                combat_alive, total_value>>
net_vars == <<peers_by_token, link>>
loop_vars == <<pc, ticks_due>>
vars == <<session_vars, match_vars, movement, net_vars, event, loop_vars>>

Init ==
  /\ Sessions!Init
  /\ Match!Init
  /\ movement = {}
  /\ peers_by_token = {}
  /\ link = [p \in Peers |-> "down"]
  /\ event = 0
  /\ pc = "pump"
  /\ ticks_due = 0

-----------------------------------------------------------------------------
(* The simulations seen from the loop *)

\* ensure_player, in all of them.
Enter(id) ==
  /\ Match!EnsurePlayer(id)
  /\ movement' = movement \cup {id}

\* A departure that the movement simulation never hears of.
LeaveStillMoving(id) ==
  /\ Match!RemovePlayer(id)
  /\ UNCHANGED movement

\* clear_player and remove_player, in all of them.
Leave(id) ==
  /\ Match!RemovePlayer(id)
  /\ movement' = movement \ {id}

-----------------------------------------------------------------------------
(* The event pump *)

\* enet_host_service has an event for the thread.
Service == pc = "pump" /\ event' = 1 - event

\* ENET_EVENT_TYPE_CONNECT: connected, but not admitted.
Connect(peer) ==
  /\ Service
  /\ link[peer] = "down"
  /\ link' = [link EXCEPT ![peer] = "up"]
  /\ peers_by_token' = peers_by_token \cup {peer}
  /\ UNCHANGED <<session_vars, match_vars, movement, loop_vars>>

\* A JoinRequest that is accepted, or repeated by a player who is in.
Join(peer, name) ==
  /\ Service
  /\ link[peer] = "up"
  /\ Sessions!JoinAccepted(peer, name) \/ Sessions!JoinRepeated(peer, name)
  /\ Enter(sessions_by_peer'[peer].player_id)
  /\ UNCHANGED <<net_vars, loop_vars>>

\* A JoinRequest that is rejected: the server hangs up, even on a peer that has a
\* session under another name; the session stays until the hang-up is done.
JoinRejected(peer, name) ==
  /\ Service
  /\ link[peer] = "up"
  /\ Sessions!JoinRejected(peer, name)
  /\ link' = [link EXCEPT ![peer] = "closing"]
  /\ UNCHANGED <<match_vars, movement, peers_by_token, loop_vars>>

\* Any other message of a joined peer counts as a heartbeat; what fire and pickup
\* messages lead to shows in the deaths and loot of the ticks.
Message(peer) ==
  /\ Service
  /\ link[peer] = "up"
  /\ Sessions!HandleHeartbeat(peer)
  /\ UNCHANGED <<match_vars, movement, net_vars, loop_vars>>

\* A message that does not parse, or comes before the join.
MessageDropped(peer) ==
  /\ Service
  /\ link[peer] = "up"
  /\ UNCHANGED <<session_vars, match_vars, movement, net_vars, loop_vars>>

\* ENET_EVENT_TYPE_DISCONNECT of a peer without a session.
DisconnectStranger(peer) ==
  /\ Service
  /\ link[peer] # "down"
  /\ ~Sessions!Joined(peer)
  /\ link' = [link EXCEPT ![peer] = "down"]
  /\ peers_by_token' = peers_by_token \ {peer}
  /\ UNCHANGED <<session_vars, match_vars, movement, loop_vars>>

\* A disconnect that ends the connection and not the session.
DisconnectPlayerKeepingSession(peer) ==
  /\ Service
  /\ link[peer] # "down"
  /\ Sessions!Joined(peer)
  /\ link' = [link EXCEPT ![peer] = "down"]
  /\ peers_by_token' = peers_by_token \ {peer}
  /\ UNCHANGED <<session_vars, match_vars, movement, loop_vars>>

\* ENET_EVENT_TYPE_DISCONNECT of a player, who hung up or was hung up on.
DisconnectPlayer(peer) ==
  /\ Service
  /\ link[peer] # "down"
  /\ Sessions!HandleDisconnect(peer)
  /\ Leave(sessions_by_peer[peer].player_id)
  /\ link' = [link EXCEPT ![peer] = "down"]
  /\ peers_by_token' = peers_by_token \ {peer}
  /\ UNCHANGED loop_vars

\* A message that ends the silence of the peer.
Hears(peer) == Message(peer) \/ \E name \in Names : Join(peer, name)

NetworkEvent ==
  \E peer \in Peers :
    \/ Connect(peer)
    \/ Hears(peer)
    \/ \E name \in Names : JoinRejected(peer, name)
    \/ MessageDropped(peer)
    \/ DisconnectStranger(peer)
    \/ DisconnectPlayer(peer)

\* enet_host_service has waited 16 ms for nothing.
PumpIdle ==
  /\ pc = "pump"
  /\ pc' = "timeouts"
  /\ event' = 0
  /\ UNCHANGED <<session_vars, match_vars, movement, net_vars, ticks_due>>

\* Time passes while the thread waits, or handles events.
ClockAdvances ==
  /\ pc = "pump"
  /\ Sessions!ClockAdvances
  /\ ticks_due' = IF ticks_due < MaxDue THEN ticks_due + 1 ELSE MaxDue
  /\ UNCHANGED <<match_vars, movement, net_vars, event, pc>>

-----------------------------------------------------------------------------
(* Timeouts and ticks *)

\* An eviction that leaves the player to the simulations.
EvictSessionOnly(peer) ==
  /\ pc = "timeouts"
  /\ peer \in Sessions!TimedOut
  /\ Sessions!EndSessions({peer})
  /\ link' = [link EXCEPT ![peer] = IF peer \in peers_by_token THEN "closing" ELSE @]
  /\ peers_by_token' = peers_by_token \ {peer}
  /\ UNCHANGED <<match_vars, movement, event, loop_vars>>

\* One of the sessions that collect_timed_out returns: the player leaves the
\* simulations, and the server hangs up.
Evict(peer) ==
  /\ pc = "timeouts"
  /\ peer \in Sessions!TimedOut
  /\ Sessions!EndSessions({peer})
  /\ Leave(sessions_by_peer[peer].player_id)
  /\ link' = [link EXCEPT ![peer] = IF peer \in peers_by_token THEN "closing" ELSE @]
  /\ peers_by_token' = peers_by_token \ {peer}
  /\ UNCHANGED <<event, loop_vars>>

\* A pass that may leave silent sessions where they are.
TimeoutsSkipped ==
  /\ pc = "timeouts"
  /\ pc' = "ticks"
  /\ UNCHANGED <<session_vars, match_vars, movement, net_vars, event, ticks_due>>

TimeoutsDone ==
  /\ pc = "timeouts"
  /\ Sessions!TimedOut = {}
  /\ pc' = "ticks"
  /\ UNCHANGED <<session_vars, match_vars, movement, net_vars, event, ticks_due>>

\* One frame: the players of the sessions move, fight, loot and score.
RunTick ==
  /\ pc = "ticks"
  /\ ticks_due > 0
  /\ Match!ResolveTick
  /\ ticks_due' = ticks_due - 1
  /\ UNCHANGED <<session_vars, movement, net_vars, event, pc>>

TicksDone ==
  /\ pc = "ticks"
  /\ ticks_due = 0
  /\ pc' = "pump"
  /\ UNCHANGED <<session_vars, match_vars, movement, net_vars, event, ticks_due>>

Server ==
  \/ NetworkEvent
  \/ PumpIdle
  \/ \E peer \in Peers : Evict(peer)
  \/ TimeoutsDone
  \/ RunTick
  \/ TicksDone

Next == Server \/ ClockAdvances

Spec == Init /\ [][Next]_vars

\* The thread runs, and time passes whenever it comes back to wait again and again.
\* How events and waiting take turns is up to the clients: the pump finds nothing
\* to do only if no event comes, of whatever kind.
FairSpec ==
  /\ Spec
  /\ WF_vars(Server)
  /\ SF_vars(ClockAdvances)

-----------------------------------------------------------------------------
(* Properties *)

PlayerIds == {sessions_by_peer[p].player_id : p \in DOMAIN sessions_by_peer}

\* Every variable of the loop holds a value of its kind; those of the composed
\* modules keep theirs.
TypeOK ==
  /\ Sessions!TypeOK
  /\ Match!TypeOK
  /\ movement \subseteq 1 .. MaxPlayers
  /\ peers_by_token \subseteq Peers
  /\ link \in [Peers -> {"down", "up", "closing"}]
  /\ event \in {0, 1}
  /\ pc \in {"pump", "timeouts", "ticks"}
  /\ ticks_due \in 0 .. MaxDue

\* The simulations and the session table have the same players at every step of
\* the loop: nobody fights on without a session, and nobody with a session is
\* missing from a tick; whoever was here once has its records.
SimulationsFollowSessions ==
  /\ movement = PlayerIds
  /\ DOMAIN combat_alive = PlayerIds
  /\ PlayerIds \subseteq DOMAIN players

\* A session belongs to a connection that is open or being closed, and that the
\* server still sends to: no session outlives its peer, whose token ENet gives
\* to the next connection.  And the server sends to no connection that is down.
SessionsHaveConnections ==
  /\ DOMAIN sessions_by_peer \subseteq peers_by_token
  /\ \A peer \in peers_by_token : link[peer] # "down"

\* What the tables of the loop hold, and that they fit the connections.
ServerInv == TypeOK /\ SessionsHaveConnections

\* With as many slots as ENet peers, a newcomer with a new name always finds a
\* free one: ServerFull is never the answer.
NewNamesFindRoom ==
  \A peer \in Peers, name \in ValidNames :
    ~Sessions!Joined(peer) /\ name \notin DOMAIN slot_by_player_name
      => Sessions!SlotsFor(name) # {}

\* A peer that falls silent loses its session, whatever the others go on sending:
\* if only the pump, again and again, finds 16 ms without an event.  (It does when
\* all of them stop; under a flood of events, be they noise, it need not.)
SilenceIsNoticed ==
  \A peer \in Peers :
    []<>(pc = "timeouts")
      => []<><<Hears(peer)>>_vars \/ <>[](~Sessions!Joined(peer))

\* docs/architecture.md:132 says the runtime advances on fixed tick deadlines,
\* with catch-up when needed: a tick that is due is run.  The pump goes on for as
\* long as events arrive less than 16 ms apart, and no tick runs meanwhile.
DueTicksRun == ticks_due > 0 ~> ticks_due = 0
=============================================================================
