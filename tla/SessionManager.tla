--------------------------- MODULE SessionManager ---------------------------
(***************************************************************************)
(* server/src/SessionManager.cpp: who is connected, which player slot each *)
(* peer owns, and which slot is remembered for which player name.          *)
(*                                                                         *)
(* A player_id IS a slot number.  Time is kept relative: a session records *)
(* how long its peer has been silent (now - last_heartbeat), saturating    *)
(* one unit past the timeout, since only the comparison with the timeout   *)
(* matters.                                                                *)
(***************************************************************************)
EXTENDS Integers, Maps

CONSTANTS
  Peers,             \* ENet peers (SessionView::peer_token)
  NoPeer,            \* the token 0 that marks a free slot
  Names,             \* the names clients ask for
  ValidNames,        \* those that is_valid_player_name accepts
  MaxPlayers,        \* SessionConfig::max_players
  HeartbeatTimeout   \* SessionConfig::heartbeat_timeout, in clock units

ASSUME SessionAssumption ==
  /\ NoPeer \notin Peers
  /\ ValidNames \subseteq Names
  /\ MaxPlayers \in Nat
  /\ HeartbeatTimeout \in Nat

VARIABLES
  slot_owners,          \* slot -> owning peer, or NoPeer
  sessions_by_peer,     \* peer -> session record; partial
  slot_by_player_name   \* name -> slot it was last given; partial, only grows

vars == <<slot_owners, sessions_by_peer, slot_by_player_name>>

Slots == 1 .. MaxPlayers
Silence == 0 .. HeartbeatTimeout + 1

SessionRecord == [player_id : Slots, player_name : ValidNames, silent : Silence]

Init ==
  /\ slot_owners = [s \in Slots |-> NoPeer]
  /\ sessions_by_peer = EmptyMap
  /\ slot_by_player_name = EmptyMap

-----------------------------------------------------------------------------

Joined(peer) == peer \in DOMAIN sessions_by_peer

SlotIsFree(slot) == slot_owners[slot] = NoPeer

\* The slots offered when the remembered slot is not checked to be free.
SlotsForUnchecked(name) ==
  LET free == {s \in Slots : SlotIsFree(s)}
  IN  IF name \in DOMAIN slot_by_player_name
      THEN {slot_by_player_name[name]}
      ELSE {s \in free : \A t \in free : s <= t}

\* The slots offered when the remembered slot of a name is ignored.
SlotsForForgetful(name) ==
  LET free == {s \in Slots : SlotIsFree(s)}
  IN  {s \in free : \A t \in free : s <= t}

\* The slot a newcomer would get, as a set of at most one slot: the remembered
\* one of its name when that is free, the lowest free one for a new name.
SlotsFor(name) ==
  LET free == {s \in Slots : SlotIsFree(s)}
  IN  IF name \in DOMAIN slot_by_player_name
      THEN free \cap {slot_by_player_name[name]}
      ELSE {s \in free : \A t \in free : s <= t}

\* A join that forgets to ask whether the peer has a session already.
JoinAcceptedTwice(peer, name) ==
  /\ name \in ValidNames
  /\ name \notin {sessions_by_peer[p].player_name : p \in DOMAIN sessions_by_peer}
  /\ \E slot \in SlotsFor(name) :
       /\ slot_owners' = [slot_owners EXCEPT ![slot] = peer]
       /\ slot_by_player_name' = Put(slot_by_player_name, name, slot)
       /\ sessions_by_peer' =
            Put(sessions_by_peer, peer,
                [player_id |-> slot, player_name |-> name, silent |-> 0])

\* handle_join_request, Accepted or Reconnected.
JoinAccepted(peer, name) ==
  /\ name \in ValidNames
  /\ ~Joined(peer)
  /\ \E slot \in SlotsFor(name) :
       /\ slot_owners' = [slot_owners EXCEPT ![slot] = peer]
       /\ slot_by_player_name' = Put(slot_by_player_name, name, slot)
       /\ sessions_by_peer' =
            Put(sessions_by_peer, peer,
                [player_id |-> slot, player_name |-> name, silent |-> 0])

\* handle_join_request, AlreadyJoined: the request counts as a heartbeat.
JoinRepeated(peer, name) ==
  /\ name \in ValidNames
  /\ Joined(peer)
  /\ sessions_by_peer[peer].player_name = name
  /\ sessions_by_peer' = [sessions_by_peer EXCEPT ![peer].silent = 0]
  /\ UNCHANGED <<slot_owners, slot_by_player_name>>

\* handle_join_request, Rejected: InvalidPlayerName, NameInUse or ServerFull.
JoinRejected(peer, name) ==
  /\ \/ name \notin ValidNames
     \/ Joined(peer) /\ sessions_by_peer[peer].player_name # name
     \/ ~Joined(peer) /\ SlotsFor(name) = {}
  /\ UNCHANGED vars

HandleHeartbeat(peer) ==
  /\ Joined(peer)
  /\ sessions_by_peer' = [sessions_by_peer EXCEPT ![peer].silent = 0]
  /\ UNCHANGED <<slot_owners, slot_by_player_name>>

\* An end of session that forgets release_slot.
EndSessionsLeaking(S) ==
  /\ sessions_by_peer' = Erase(sessions_by_peer, S)
  /\ UNCHANGED <<slot_owners, slot_by_player_name>>

\* Ends the sessions of the peers in S and frees their slots; the names keep
\* their entry in slot_by_player_name.
EndSessions(S) ==
  /\ slot_owners' =
       [s \in Slots |-> IF \E p \in S : sessions_by_peer[p].player_id = s
                        THEN NoPeer ELSE slot_owners[s]]
  /\ sessions_by_peer' = Erase(sessions_by_peer, S)
  /\ UNCHANGED slot_by_player_name

HandleDisconnect(peer) == Joined(peer) /\ EndSessions({peer})

TimedOut ==
  {p \in DOMAIN sessions_by_peer :
     sessions_by_peer[p].silent > HeartbeatTimeout}

CollectTimedOut == TimedOut # {} /\ EndSessions(TimedOut)

\* The steady clock moves on by one unit.
ClockAdvances ==
  /\ sessions_by_peer' =
       [p \in DOMAIN sessions_by_peer |->
          [sessions_by_peer[p] EXCEPT
             !.silent = IF @ > HeartbeatTimeout THEN @ ELSE @ + 1]]
  /\ UNCHANGED <<slot_owners, slot_by_player_name>>

Next ==
  \/ \E peer \in Peers, name \in Names :
       \/ JoinAccepted(peer, name)
       \/ JoinRepeated(peer, name)
       \/ JoinRejected(peer, name)
  \/ \E peer \in Peers : HandleHeartbeat(peer) \/ HandleDisconnect(peer)
  \/ CollectTimedOut
  \/ ClockAdvances

Spec == Init /\ [][Next]_vars

-----------------------------------------------------------------------------
(* Properties *)

\* The three tables hold slots, sessions and remembered slots of the right kind.
TypeOK ==
  /\ slot_owners \in [Slots -> Peers \cup {NoPeer}]
  /\ DOMAIN sessions_by_peer \subseteq Peers
  /\ sessions_by_peer \in [DOMAIN sessions_by_peer -> SessionRecord]
  /\ DOMAIN slot_by_player_name \subseteq ValidNames
  /\ slot_by_player_name \in [DOMAIN slot_by_player_name -> Slots]

\* The slot table and the session table never disagree, whatever order joins,
\* hang-ups and evictions come in: a session owns the slot its player_id names,
\* and an owned slot belongs to a live session.  A slot that outlived its
\* session would shrink the server for good; a session without its slot would
\* share its player_id with the next player.
SlotsMatchSessions ==
  /\ \A p \in DOMAIN sessions_by_peer :
       slot_owners[sessions_by_peer[p].player_id] = p
  /\ \A s \in Slots : ~SlotIsFree(s) =>
       /\ Joined(slot_owners[s])
       /\ sessions_by_peer[slot_owners[s]].player_id = s

\* A player who is connected is connected under the slot remembered for the
\* player's name: no later join may move it, or a reconnect would find
\* somebody else's slot.
SessionsKeepTheirName ==
  \A p \in DOMAIN sessions_by_peer :
    /\ sessions_by_peer[p].player_name \in DOMAIN slot_by_player_name
    /\ slot_by_player_name[sessions_by_peer[p].player_name]
         = sessions_by_peer[p].player_id

\* No name is connected twice.
OneSessionPerName ==
  \A p, q \in DOMAIN sessions_by_peer :
    sessions_by_peer[p].player_name = sessions_by_peer[q].player_name => p = q

\* What the tables promise at every moment, each part needed by the others: the
\* slots, the sessions and the remembered names tell one story.
SessionInv == TypeOK /\ SlotsMatchSessions /\ SessionsKeepTheirName

OnlineNames ==
  {sessions_by_peer[p].player_name : p \in DOMAIN sessions_by_peer}

Registry == INSTANCE IdentityRegistry WITH
  Names <- ValidNames, Ids <- Slots,
  identity <- slot_by_player_name, online <- OnlineNames

\* Joins, hang-ups and evictions implement the abstract identity registry: an
\* identity, once given to a name, is the name's for ever, and two names that
\* were given the same one are never connected together.
ImplementsRegistry == Registry!Spec

\* docs/decision-log.md:21 says reconnect identity is kept stable "by reserving
\* player-name-to-slot mappings across disconnects/timeouts": the slot of a
\* name that has left would be used by nobody else.  first_free_slot hands it out.
ReservationsHold ==
  \A n \in DOMAIN slot_by_player_name, p \in DOMAIN sessions_by_peer :
    sessions_by_peer[p].player_id = slot_by_player_name[n]
      => sessions_by_peer[p].player_name = n
=============================================================================
