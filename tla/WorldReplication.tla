-------------------------- MODULE WorldReplication --------------------------
(***************************************************************************)
(* server/src/WorldReplication.cpp with what feeds it and what it feeds:   *)
(* BlockInteraction.cpp and the block store of voxel/World.cpp on the      *)
(* server, ChunkSyncApplier.cpp on the clients, and the lines of the two   *)
(* main loops between them.                                                *)
(*                                                                         *)
(* A chunk holds one block: which block of the chunk is left out.          *)
(* Positions are in chunks (floor_div_chunk) and may lie outside the map.  *)
(* Packets of one connection are reliable and on one channel: they arrive  *)
(* in order, or not at all once the client is gone.  A peer that connects  *)
(* again is a new client process.                                          *)
(***************************************************************************)
EXTENDS Integers, Sequences, SequencesExt, Maps

CONSTANTS
  Peers,             \* clients, each with its connection
  Players,           \* player ids (slots)
  ChunksX, ChunksY, ChunksZ,     \* ReplicationConfig: the size of the map
  Radius,            \* ReplicationConfig::interest_radius_chunks
  ValidBlocks,       \* BlockInteractionConfig::valid_block_ids
  Blocks,            \* bound: the block ids clients send
  Positions,         \* bound: the places <<x, z>> where players stand
  MaxChanges,        \* bound: changes of all blocks together
  MaxInbox           \* bound: packets on their way to one client

Air == 0                         \* kAirBlockId
NoBlock == -1                    \* block_at outside the chunks there are
Beyond == <<-1, 0, 0>>           \* coordinates that are in no chunk
Spawn == <<0, 0>>                \* where MovementSimulation puts a new player

Chunks == (0 .. ChunksX - 1) \X (0 .. ChunksY - 1) \X (0 .. ChunksZ - 1)

ASSUME WorldAssumption ==
  /\ {ChunksX, ChunksY, ChunksZ} \subseteq Nat \ {0}
  /\ Radius \in Nat
  /\ Air \in ValidBlocks /\ ValidBlocks \subseteq Nat
  /\ Blocks \subseteq Nat
  /\ Positions \subseteq Int \X Int
  /\ MaxChanges \in Nat /\ MaxInbox \in Nat \ {0}

VARIABLES
  world,             \* server: chunk -> its block
  chunk_revisions,   \* server: chunk -> times it was changed; partial
  player_states,     \* server: player -> chunk -> revision told; partial
  sessions,          \* server: peer -> player id; partial
  position,          \* server: player -> where it stands; partial
  client,            \* peer -> "gone", "joining" or "joined"
  inbox,             \* peer -> packets on their way to the client
  known_chunks,      \* client: peer -> the chunks of its World
  known_revisions,   \* client: peer -> chunk -> revision; partial
  content            \* history: chunk -> revision -> the block it stood for

client_vars == <<client, known_chunks, known_revisions>>
block_vars == <<world, chunk_revisions, content>>
vars == <<block_vars, player_states, sessions, position, inbox, client_vars>>

\* Stone below, air above: what ensure_generated_chunk makes of the seed.
Terrain(c) == IF c[2] = 0 THEN 2 ELSE Air

Init ==
  /\ world = [c \in Chunks |-> Terrain(c)]
  /\ chunk_revisions = EmptyMap
  /\ player_states = EmptyMap
  /\ sessions = EmptyMap
  /\ position = EmptyMap
  /\ client = [p \in Peers |-> "gone"]
  /\ inbox = [p \in Peers |-> <<>>]
  /\ known_chunks = [p \in Peers |-> {}]
  /\ known_revisions = [p \in Peers |-> EmptyMap]
  /\ content = [c \in Chunks |-> Put(EmptyMap, 0, Terrain(c))]

-----------------------------------------------------------------------------
(* WorldReplication *)

\* A coordinate brought into the map (std::clamp).
Clamp(i, size) == IF i < 0 THEN 0 ELSE IF i >= size THEN size - 1 ELSE i

\* gather_relevant_chunks: the circle around the chunk of the player, all layers.
Relevant(pos) ==
  {c \in Chunks :
     LET dx == c[1] - Clamp(pos[1], ChunksX)
         dz == c[3] - Clamp(pos[2], ChunksZ)
     IN dx * dx + dz * dz <= Radius * Radius}

RevisionFor(c) == IF c \in DOMAIN chunk_revisions THEN chunk_revisions[c] ELSE 0

\* The subscribed chunks are the DOMAIN of the known revisions: the two tables
\* of a PlayerReplicationState are always written together.
Known(player) ==
  IF player \in DOMAIN player_states THEN player_states[player] ELSE EmptyMap

\* A comparison that is off by one.
StaleByTwo(player) ==
  LET known == Known(player)
  IN {c \in Relevant(position[player]) \cap DOMAIN known :
        RevisionFor(c) > known[c] + 1}

\* The subscribed chunks that changed since the client was told.
Stale(player) ==
  LET known == Known(player)
  IN {c \in Relevant(position[player]) \cap DOMAIN known :
        RevisionFor(c) > known[c]}

\* What build_player_update tells the client ...
WorldUpdate(player) ==
  LET target == Relevant(position[player])
      known  == DOMAIN Known(player)
  IN [type    |-> "state_snapshot",
      removed |-> known \ target,
      added   |-> [c \in target \ known |-> RevisionFor(c)],
      deltas  |-> [c \in Stale(player) |-> RevisionFor(c)]]

\* ... and what it remembers to have told.
KnownAfter(player) ==
  [c \in Relevant(position[player]) |->
     IF c \in DOMAIN Known(player) \ Stale(player)
     THEN Known(player)[c] ELSE RevisionFor(c)]

\* The loop over the sessions when a snapshot is due: every player is told; a
\* packet for a client that has gone is lost.
SendSnapshots ==
  LET told == Range(sessions)
      reached == {p \in DOMAIN sessions : client[p] # "gone"}
  IN /\ told # {}
     /\ \A p \in reached : Len(inbox[p]) < MaxInbox
     /\ player_states' = [id \in DOMAIN player_states \cup told |->
                            IF id \in told THEN KnownAfter(id)
                                           ELSE player_states[id]]
     /\ inbox' = [p \in Peers |->
                    IF p \in reached THEN Append(inbox[p], WorldUpdate(sessions[p]))
                                     ELSE inbox[p]]
     /\ UNCHANGED <<block_vars, sessions, position, client_vars>>

-----------------------------------------------------------------------------
(* BlockInteraction *)

BlockAt(c) == IF c \in Chunks THEN world[c] ELSE NoBlock

\* set_block: the store after it.
WithBlock(c, block) == [world EXCEPT ![c] = block]

\* apply: a placed block stays until it is broken, the first writer wins.
Applies(c, block) ==
  /\ block \in ValidBlocks
  /\ BlockAt(c) # NoBlock
  /\ (block = Air) # (BlockAt(c) = Air)

\* A mark that counts the first change of a chunk only.
MarkedOnce(c) == Put(chunk_revisions, c, 1)

\* mark_chunk_dirty: the table after it.
Marked(c) == Put(chunk_revisions, c, RevisionFor(c) + 1)

\* How often blocks were changed, all together: it bounds the runs.
Changes == FoldFunction(+, 0, chunk_revisions)

\* The handler of a BlockUpdate that is applied; a rejected one changes nothing.
BlockUpdate(p, c, block) ==
  /\ p \in DOMAIN sessions
  /\ Applies(c, block)
  /\ Changes < MaxChanges
  /\ world' = WithBlock(c, block)
  /\ chunk_revisions' = Marked(c)
  /\ content' = [content EXCEPT ![c] = Emplace(@, chunk_revisions'[c], block)]
  /\ UNCHANGED <<player_states, sessions, position, inbox, client_vars>>

-----------------------------------------------------------------------------
(* Sessions and movement, as far as replication depends on them *)

\* A new client connects, asks to join and is accepted.
Join(p, id) ==
  /\ client[p] = "gone" /\ p \notin DOMAIN sessions
  /\ id \notin Range(sessions)
  /\ sessions' = Put(sessions, p, id)
  /\ position' = Emplace(position, id, Spawn)
  /\ client' = [client EXCEPT ![p] = "joining"]
  /\ inbox' = [inbox EXCEPT ![p] = <<[type |-> "join_accept"]>>]
  /\ UNCHANGED <<block_vars, player_states, known_chunks, known_revisions>>

\* A departure that world replication is not told of.
EndSessionUnreplicated(p) ==
  /\ p \in DOMAIN sessions
  /\ position' = Erase(position, {sessions[p]})
  /\ sessions' = Erase(sessions, {p})
  /\ UNCHANGED <<block_vars, player_states, inbox, client_vars>>

\* A disconnect event or a timeout.  A client that is only silent learns of it
\* later, after the packets that are on their way.
EndSession(p) ==
  /\ p \in DOMAIN sessions
  /\ player_states' = Erase(player_states, {sessions[p]})
  /\ position' = Erase(position, {sessions[p]})
  /\ sessions' = Erase(sessions, {p})
  /\ UNCHANGED <<block_vars, inbox, client_vars>>

\* Inputs carry the player somewhere else.
Move(p, pos) ==
  /\ p \in DOMAIN sessions
  /\ position' = [position EXCEPT ![sessions[p]] = pos]
  /\ UNCHANGED <<block_vars, player_states, sessions, inbox, client_vars>>

-----------------------------------------------------------------------------
(* Client *)

\* JoinAccept: the client forgets what it knew.
Reset(p) ==
  /\ client' = [client EXCEPT ![p] = "joined"]
  /\ known_chunks' = [known_chunks EXCEPT ![p] = {}]
  /\ known_revisions' = [known_revisions EXCEPT ![p] = EmptyMap]

\* The revisions a client holds after an update, removals forgotten.
AfterUpdateKeeping(revisions, update) ==
  PutAll(PutAll(revisions, update.added), update.deltas)

\* apply_chunk_sync: removed first, then added, then deltas.
AfterUpdate(revisions, update) ==
  PutAll(PutAll(Erase(revisions, update.removed), update.added), update.deltas)

\* The chunks that are generated: an entry whose revision is known already is
\* skipped.
Generated(revisions, update) ==
  LET kept == Erase(revisions, update.removed)
      news == PutAll(update.added, update.deltas)
  IN {c \in DOMAIN news : c \notin DOMAIN kept \/ kept[c] # news[c]}

ApplyChunkSync(p, update) ==
  /\ known_chunks' = [known_chunks EXCEPT ![p] =
                        (@ \ update.removed)
                          \cup Generated(known_revisions[p], update)]
  /\ known_revisions' = [known_revisions EXCEPT ![p] = AfterUpdate(@, update)]
  /\ UNCHANGED client

\* The client reads its next packet.
Receive(p) ==
  /\ inbox[p] # <<>>
  /\ inbox' = [inbox EXCEPT ![p] = Tail(@)]
  /\ IF Head(inbox[p]).type = "join_accept"
     THEN Reset(p)
     ELSE ApplyChunkSync(p, Head(inbox[p]))
  /\ UNCHANGED <<block_vars, player_states, sessions, position>>

\* The client process ends, told to or by itself: what it knew and what is on
\* its way to it is gone.  The server notices later.
Quit(p) ==
  /\ client[p] # "gone"
  /\ client' = [client EXCEPT ![p] = "gone"]
  /\ inbox' = [inbox EXCEPT ![p] = <<>>]
  /\ known_chunks' = [known_chunks EXCEPT ![p] = {}]
  /\ known_revisions' = [known_revisions EXCEPT ![p] = EmptyMap]
  /\ UNCHANGED <<block_vars, player_states, sessions, position>>

-----------------------------------------------------------------------------
Next ==
  \/ SendSnapshots
  \/ \E p \in Peers :
       \/ \E id \in Players : Join(p, id)
       \/ EndSession(p)
       \/ \E pos \in Positions : Move(p, pos)
       \/ \E c \in Chunks \cup {Beyond}, block \in Blocks : BlockUpdate(p, c, block)
       \/ Receive(p)
       \/ Quit(p)

Fairness ==
  /\ WF_vars(SendSnapshots)
  /\ \A p \in Peers : WF_vars(Receive(p))

Spec == Init /\ [][Next]_vars /\ Fairness

-----------------------------------------------------------------------------
(* Properties *)

\* A table of revisions is a partial map from chunks.
IsRevisionMap(m) == DOMAIN m \subseteq Chunks /\ \A c \in DOMAIN m : m[c] \in Nat

\* The type invariant: tables are partial maps over what exists.
TypeOK ==
  /\ world \in [Chunks -> Nat]
  /\ IsRevisionMap(chunk_revisions)
  /\ DOMAIN player_states \subseteq Players
  /\ \A id \in DOMAIN player_states : IsRevisionMap(player_states[id])
  /\ DOMAIN sessions \subseteq Peers /\ Range(sessions) \subseteq Players
  /\ DOMAIN position = Range(sessions)
  /\ client \in [Peers -> {"gone", "joining", "joined"}]
  /\ \A p \in Peers : /\ Len(inbox[p]) <= MaxInbox
                      /\ known_chunks[p] \subseteq Chunks
                      /\ IsRevisionMap(known_revisions[p])

\* Only players in a session are remembered, each session by its own player id
\* (WorldReplication::remove_player on every way out of a session).
StatesBelongToSessions == DOMAIN player_states \subseteq Range(sessions)

\* Nobody is told a revision that does not exist yet.
KnownNeverAhead ==
  /\ \A id \in DOMAIN player_states :
       \A c \in DOMAIN player_states[id] : player_states[id][c] <= RevisionFor(c)
  /\ \A p \in Peers :
       \A c \in DOMAIN known_revisions[p] : known_revisions[p][c] <= RevisionFor(c)

\* The chunks a client has generated are the ones it holds a revision of: an
\* entry that is skipped because its revision is known never leaves a hole in
\* the client's world, and no chunk it was told to drop stays in it.
ChunksMatchRevisions ==
  \A p \in Peers : known_chunks[p] = DOMAIN known_revisions[p]

\* The tables of server and clients are in order.
TablesAgree == TypeOK /\ StatesBelongToSessions /\ KnownNeverAhead /\ ChunksMatchRevisions

\* What a client that knows `revisions' will know when it has read the packets:
\* a join forgets everything, an update is applied.
Read(revisions, packet) ==
  IF packet.type = "join_accept" THEN EmptyMap ELSE AfterUpdate(revisions, packet)

Reading(revisions, packets) ==
  LET after[n \in 0 .. Len(packets)] ==
        IF n = 0 THEN revisions ELSE Read(after[n - 1], packets[n])
  IN  after[Len(packets)]

\* What the server holds a client to know is what the client will know when it
\* has read the packets on their way to it: player_states is never ahead of nor
\* behind what was sent, over joins, slots that change hands, departures nobody
\* has noticed and chunks that leave and enter the area.
ReplicaFollows ==
  \A p \in DOMAIN sessions :
    client[p] # "gone" => Known(sessions[p]) = Reading(known_revisions[p], inbox[p])

\* A revision stands for one content: no change of a block goes without a new
\* revision, and none is given twice, so that who has the revision of a chunk
\* missed nothing (mark_chunk_dirty after every applied update).
RevisionTellsContent ==
  \A c \in Chunks : content[c][RevisionFor(c)] = world[c]

\* A player who stays where it is comes to hold, and keeps, the last revision of
\* every chunk of its area and of no other, if only snapshots go on and packets
\* are read; others may come, go and move for ever.
ReplicaConverges ==
  \A p \in Peers, id \in Players, pos \in Positions :
    <>[](/\ client[p] # "gone"
         /\ p \in DOMAIN sessions /\ sessions[p] = id /\ position[id] = pos)
      => <>[](known_revisions[p] = [c \in Relevant(pos) |-> RevisionFor(c)])
=============================================================================
