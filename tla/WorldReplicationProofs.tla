----------------------- MODULE WorldReplicationProofs -----------------------
(***************************************************************************)
(* WorldReplication for any map, any radius, any number of clients and     *)
(* players and any packets on their way: what the server holds a client to *)
(* know is what the client will know when it has read its packets, nobody  *)
(* is told of a revision that does not exist, and a revision stands for    *)
(* one content.                                                            *)
(***************************************************************************)
EXTENDS WorldReplication, FiniteSetTheorems, TLAPS

-----------------------------------------------------------------------------
(* Induction over the natural numbers, for sets *)

\* A set of natural numbers has a least one: of the intervals 1 .. n that its
\* numbers bound, one contains no other.
LEMMA LeastNumber ==
  ASSUME NEW T, T \subseteq Nat, T # {}
  PROVE  \E n \in T : \A m \in T : n <= m
<1> DEFINE R == StrictSubsetOrdering(Nat)
           below == {1 .. n : n \in T}
<1>1. IsWellFoundedOn(R, FiniteSubsetsOf(Nat))
  BY FS_StrictSubsetOrderingWellFounded
<1>2. below \subseteq FiniteSubsetsOf(Nat)
  <2> SUFFICES ASSUME NEW n \in T PROVE 1 .. n \in FiniteSubsetsOf(Nat)
    OBVIOUS
  <2>1. IsFiniteSet(1 .. n)
    BY FS_Interval
  <2> QED
    BY <2>1 DEF FiniteSubsetsOf
<1>3. below # {}
  OBVIOUS
<1> HIDE DEF below, R
<1>4. PICK x \in below : \A y \in below : ~(<<y, x>> \in R)
  BY <1>1, <1>2, <1>3, WFMin
<1>5. PICK n \in T : x = 1 .. n
  BY DEF below
<1>6. ASSUME NEW m \in T PROVE n <= m
  <2> SUFFICES ASSUME m < n PROVE FALSE
    OBVIOUS
  <2>1. 1 .. m \in below
    BY DEF below
  <2>2. 1 .. m \in SUBSET Nat /\ 1 .. n \in SUBSET Nat
    OBVIOUS
  <2>3. 1 .. m \subseteq 1 .. n /\ n \in 1 .. n /\ n \notin 1 .. m
    OBVIOUS
  <2>4. 1 .. m # 1 .. n
    BY <2>3
  <2>5. <<1 .. m, 1 .. n>> \in R
    BY <2>2, <2>3, <2>4 DEF R, StrictSubsetOrdering
  <2> QED
    BY <1>4, <1>5, <2>1, <2>5
<1> QED
  BY <1>6

\* A set with 0, and with n + 1 whenever with n, has every number.
LEMMA Induction ==
  ASSUME NEW S, 0 \in S, \A n \in Nat : n \in S => n + 1 \in S
  PROVE  Nat \subseteq S
<1> SUFFICES ASSUME Nat \ S # {} PROVE FALSE
  OBVIOUS
<1>1. PICK n \in Nat \ S : \A m \in Nat \ S : n <= m
  BY LeastNumber
<1>2. n - 1 \in Nat /\ n - 1 \in S
  BY <1>1
<1> QED
  BY <1>1, <1>2

-----------------------------------------------------------------------------
(* Reading packets *)

\* What a client knows after each of the first n packets.
IsReading(f, revisions, packets, n) ==
  f = [k \in 0 .. n |-> IF k = 0 THEN revisions ELSE Read(f[k - 1], packets[k])]

\* Packet by packet there is such a function ...
LEMMA ReadingExists ==
  ASSUME NEW r, NEW s, NEW n \in Nat
  PROVE  \E f : IsReading(f, r, s, n)
<1> DEFINE S == {k \in Nat : \E f : IsReading(f, r, s, k)}
<1>1. 0 \in S
  <2>1. IsReading([k \in 0 .. 0 |-> r], r, s, 0)
    BY DEF IsReading
  <2> QED
    BY <2>1
<1>2. ASSUME NEW k \in Nat, k \in S PROVE k + 1 \in S
  <2>1. PICK f : IsReading(f, r, s, k)
    BY <1>2
  <2> DEFINE g == [i \in 0 .. k + 1 |-> IF i <= k THEN f[i] ELSE Read(f[k], s[k + 1])]
  <2>2. ASSUME NEW i \in 0 .. k + 1
        PROVE  g[i] = IF i = 0 THEN r ELSE Read(g[i - 1], s[i])
    <3>1. CASE i = k + 1
      BY <3>1
    <3>2. CASE i = 0
      BY <2>1, <3>2 DEF IsReading
    <3>3. CASE i # 0 /\ i <= k
      <4>1. i \in 0 .. k /\ i - 1 \in 0 .. k /\ i - 1 \in 0 .. k + 1
        BY <3>3
      <4>2. f[i] = Read(f[i - 1], s[i])
        BY <2>1, <3>3, <4>1 DEF IsReading
      <4> QED
        BY <3>3, <4>1, <4>2
    <3> QED
      BY <3>1, <3>2, <3>3
  <2>3. IsReading(g, r, s, k + 1)
    BY <2>2 DEF IsReading
  <2> QED
    BY <2>3
<1> HIDE DEF S
<1>3. n \in S
  BY <1>1, <1>2, Induction
<1> QED
  BY <1>3 DEF S

\* ... and only one.
LEMMA ReadingUnique ==
  ASSUME NEW r, NEW s, NEW n \in Nat, NEW f, NEW g,
         IsReading(f, r, s, n), IsReading(g, r, s, n)
  PROVE  f = g
<1> DEFINE S == {k \in Nat : k \in 0 .. n => f[k] = g[k]}
<1>1. 0 \in S
  BY DEF IsReading
<1>2. ASSUME NEW k \in Nat, k \in S PROVE k + 1 \in S
  <2> SUFFICES ASSUME k + 1 \in 0 .. n PROVE f[k + 1] = g[k + 1]
    OBVIOUS
  <2>1. f[k] = g[k]
    BY <1>2
  <2>2. f[k + 1] = Read(f[k], s[k + 1]) /\ g[k + 1] = Read(g[k], s[k + 1])
    BY DEF IsReading
  <2> QED
    BY <2>1, <2>2
<1> HIDE DEF S
<1>3. Nat \subseteq S
  BY <1>1, <1>2, Induction
<1>4. \A k \in 0 .. n : f[k] = g[k]
  BY <1>3 DEF S
<1>5. /\ f = [k \in 0 .. n |-> f[k]]
      /\ g = [k \in 0 .. n |-> g[k]]
  BY DEF IsReading
<1> QED
  BY <1>4, <1>5

\* So the recursive function of Reading is the one that reads packet by packet.
LEMMA ReadingIs ==
  ASSUME NEW r, NEW s, Len(s) \in Nat, NEW f, IsReading(f, r, s, Len(s))
  PROVE  Reading(r, s) = f[Len(s)]
<1>1. \A g : IsReading(g, r, s, Len(s)) => g = f
  BY ReadingUnique
<1> QED
  BY <1>1 DEF Reading, IsReading

\* Without packets nothing changes.
LEMMA ReadingNothing ==
  ASSUME NEW r PROVE Reading(r, <<>>) = r
<1>1. IsReading([k \in 0 .. 0 |-> r], r, <<>>, 0)
  BY DEF IsReading
<1> QED
  BY <1>1, ReadingIs

\* A packet sent is read after those on their way.
LEMMA ReadingAppended ==
  ASSUME NEW r, NEW T, NEW s \in Seq(T), NEW u \in T
  PROVE  Reading(r, Append(s, u)) = Read(Reading(r, s), u)
<1> DEFINE n == Len(s)
           t == Append(s, u)
<1>1. /\ n \in Nat /\ Len(t) = n + 1 /\ t[n + 1] = u
      /\ \A k \in 1 .. n : t[k] = s[k]
  OBVIOUS
<1> HIDE DEF n, t
<1>2. PICK f : IsReading(f, r, t, n + 1)
  <2>1. n + 1 \in Nat
    BY <1>1
  <2> QED
    BY <2>1, ReadingExists
<1> DEFINE g == [k \in 0 .. n |-> f[k]]
<1>3. ASSUME NEW k \in 0 .. n
      PROVE  g[k] = IF k = 0 THEN r ELSE Read(g[k - 1], s[k])
  <2>1. f[k] = IF k = 0 THEN r ELSE Read(f[k - 1], t[k])
    BY <1>1, <1>2 DEF IsReading
  <2>2. k # 0 => k \in 1 .. n /\ k - 1 \in 0 .. n
    BY <1>1
  <2> QED
    BY <1>1, <2>1, <2>2
<1>4. IsReading(g, r, s, n)
  BY <1>3 DEF IsReading
<1>5. Reading(r, s) = g[n]
  BY <1>1, <1>4, ReadingIs DEF n
<1>6. Reading(r, t) = f[n + 1]
  BY <1>1, <1>2, ReadingIs
<1>7. f[n + 1] = Read(f[n], t[n + 1])
  BY <1>1, <1>2 DEF IsReading
<1>8. g[n] = f[n]
  BY <1>1
<1> QED
  BY <1>1, <1>5, <1>6, <1>7, <1>8 DEF t

\* Reading the first packet now or with the others comes to the same.
LEMMA ReadingFirst ==
  ASSUME NEW r, NEW T, NEW s \in Seq(T), s # <<>>
  PROVE  Reading(r, s) = Reading(Read(r, Head(s)), Tail(s))
<1> DEFINE n == Len(s)
           t == Tail(s)
           first == Read(r, Head(s))
<1>1. /\ n \in Nat /\ n > 0 /\ Len(t) = n - 1 /\ Head(s) = s[1]
      /\ \A k \in 1 .. n - 1 : t[k] = s[k + 1]
  OBVIOUS
<1> HIDE DEF n, t
<1>2. PICK f : IsReading(f, r, s, n)
  BY <1>1, ReadingExists
<1> DEFINE g == [k \in 0 .. n - 1 |-> f[k + 1]]
<1>3. f[0] = r /\ f[1] = first
  BY <1>1, <1>2 DEF IsReading
<1> HIDE DEF first
<1>4. ASSUME NEW k \in 0 .. n - 1
      PROVE  g[k] = IF k = 0 THEN first ELSE Read(g[k - 1], t[k])
  <2>1. CASE k = 0
    BY <1>3, <2>1
  <2>2. CASE k # 0
    <3>1. k \in 1 .. n - 1 /\ k - 1 \in 0 .. n - 1 /\ k + 1 \in 0 .. n /\ k + 1 # 0
      BY <1>1, <2>2
    <3>2. f[k + 1] = Read(f[k], s[k + 1])
      <4>1. \A i \in 0 .. n : i # 0 => f[i] = Read(f[i - 1], s[i])
        BY <1>2 DEF IsReading
      <4>2. k + 1 - 1 = k
        BY <3>1
      <4> QED
        BY <3>1, <4>1, <4>2
    <3> QED
      BY <1>1, <2>2, <3>1, <3>2
  <2> QED
    BY <2>1, <2>2
<1>5. IsReading(g, first, t, n - 1)
  BY <1>4 DEF IsReading
<1>6. Reading(first, t) = g[n - 1]
  BY <1>1, <1>5, ReadingIs
<1>7. Reading(r, s) = f[n]
  BY <1>1, <1>2, ReadingIs DEF n
<1>8. g[n - 1] = f[n]
  BY <1>1
<1> QED
  BY <1>6, <1>7, <1>8 DEF first, t

-----------------------------------------------------------------------------
(* Tables of revisions *)

Revisions == UNION {[D -> Nat] : D \in SUBSET Chunks}

\* The packets there are.
Accept == [type : {"join_accept"}]
Update == [type : {"state_snapshot"}, removed : SUBSET Chunks,
           added : Revisions, deltas : Revisions]
Packets == Accept \cup Update

\* No revision in the table is one that its chunk has yet to reach.
Current(m) == \A c \in DOMAIN m : m[c] <= RevisionFor(c)

LEMMA RevisionsAre ==
  ASSUME NEW m
  PROVE  m \in Revisions <=> DOMAIN m \subseteq Chunks /\ m \in [DOMAIN m -> Nat]
BY DEF Revisions

LEMMA EmptyMapIs ==
  /\ EmptyMap \in Revisions /\ DOMAIN EmptyMap = {} /\ Current(EmptyMap)
  /\ \A m : DOMAIN m = {} /\ m \in Revisions => m = EmptyMap
BY RevisionsAre DEF EmptyMap, Current

\* What an update does to the table of a client, chunk by chunk.
KeptOrNews(r, u) == DOMAIN u.deltas \cup DOMAIN u.added \cup (DOMAIN r \ u.removed)
Told(r, u, c) == IF c \in DOMAIN u.deltas THEN u.deltas[c]
                 ELSE IF c \in DOMAIN u.added THEN u.added[c] ELSE r[c]

LEMMA UpdateIs ==
  ASSUME NEW r, NEW u
  PROVE  AfterUpdate(r, u) = [c \in KeptOrNews(r, u) |-> Told(r, u, c)]
<1> DEFINE kept == Erase(r, u.removed)
<1>1. DOMAIN kept = DOMAIN r \ u.removed /\ \A c \in DOMAIN kept : kept[c] = r[c]
  BY DEF Erase
<1> HIDE DEF kept
<1>2. PutAll(PutAll(kept, u.added), u.deltas) = [c \in KeptOrNews(r, u) |-> Told(r, u, c)]
  BY <1>1 DEF PutAll, KeptOrNews, Told
<1> QED
  BY <1>2 DEF AfterUpdate, kept

LEMMA UpdateTypes ==
  ASSUME NEW r \in Revisions, NEW u \in Update
  PROVE  AfterUpdate(r, u) \in Revisions
<1>1. /\ DOMAIN u.deltas \subseteq Chunks /\ u.deltas \in [DOMAIN u.deltas -> Nat]
      /\ DOMAIN u.added \subseteq Chunks /\ u.added \in [DOMAIN u.added -> Nat]
      /\ DOMAIN r \subseteq Chunks /\ r \in [DOMAIN r -> Nat]
  BY RevisionsAre DEF Update
<1>2. KeptOrNews(r, u) \subseteq Chunks
  BY <1>1 DEF KeptOrNews
<1>3. \A c \in KeptOrNews(r, u) : Told(r, u, c) \in Nat
  BY <1>1 DEF KeptOrNews, Told
<1> QED
  BY <1>2, <1>3, UpdateIs, RevisionsAre

\* What the client knows afterwards is current if the update was.
LEMMA UpdateCurrent ==
  ASSUME NEW r, NEW u, Current(r), Current(u.added), Current(u.deltas)
  PROVE  Current(AfterUpdate(r, u))
<1>1. \A c \in KeptOrNews(r, u) : Told(r, u, c) <= RevisionFor(c)
  BY DEF KeptOrNews, Told, Current
<1> QED
  BY <1>1, UpdateIs DEF Current

\* The chunks of the client's world stay those it holds a revision of.
LEMMA GeneratedFits ==
  ASSUME NEW r \in Revisions, NEW u \in Update
  PROVE  (DOMAIN r \ u.removed) \cup Generated(r, u) = DOMAIN AfterUpdate(r, u)
<1> DEFINE kept == Erase(r, u.removed)
           news == PutAll(u.added, u.deltas)
<1>1. DOMAIN kept = DOMAIN r \ u.removed
  BY DEF Erase
<1>2. DOMAIN news = DOMAIN u.deltas \cup DOMAIN u.added
  BY DEF PutAll
<1>3. Generated(r, u) = {c \in DOMAIN news : c \notin DOMAIN kept \/ kept[c] # news[c]}
  BY DEF Generated
<1> HIDE DEF kept, news
<1>4. DOMAIN kept \cup Generated(r, u) = DOMAIN kept \cup DOMAIN news
  BY <1>3
<1> QED
  BY <1>1, <1>2, <1>4, UpdateIs DEF KeptOrNews

-----------------------------------------------------------------------------
(* The inductive invariant *)

\* The tables are functions, and on the way to the clients are packets.
Typed ==
  /\ world \in [Chunks -> Nat]
  /\ chunk_revisions \in Revisions
  /\ \A id \in DOMAIN player_states : player_states[id] \in Revisions
  /\ DOMAIN sessions \subseteq Peers /\ Range(sessions) \subseteq Players
  /\ DOMAIN position = Range(sessions)
  /\ client \in [Peers -> {"gone", "joining", "joined"}]
  /\ inbox \in [Peers -> Seq(Packets)]
  /\ \A p \in Peers : Len(inbox[p]) <= MaxInbox
  /\ known_chunks \in [Peers -> SUBSET Chunks]
  /\ known_revisions \in [Peers -> Revisions]

\* No two sessions share a player: what one of them is told, the other is not.
OnePeerPerPlayer ==
  \A p, q \in DOMAIN sessions : sessions[p] = sessions[q] => p = q

\* Nor does a packet on its way name a revision that does not exist yet.
PacketsNeverAhead ==
  \A p \in Peers : \A i \in 1 .. Len(inbox[p]) :
    inbox[p][i] \in Update =>
      Current(inbox[p][i].added) /\ Current(inbox[p][i].deltas)

\* The next revision of a chunk has stood for nothing so far.
NoContentAhead ==
  /\ DOMAIN content = Chunks
  /\ \A c \in Chunks :
       /\ RevisionFor(c) \in DOMAIN content[c]
       /\ \A n \in DOMAIN content[c] : n \in Nat /\ n <= RevisionFor(c)

\* A client that is gone has no packets on their way: none makes it come back.
NothingForTheGone == \A p \in Peers : client[p] = "gone" => inbox[p] = <<>>

IInv ==
  /\ Typed
  /\ StatesBelongToSessions /\ OnePeerPerPlayer /\ NothingForTheGone
  /\ KnownNeverAhead /\ PacketsNeverAhead
  /\ ChunksMatchRevisions
  /\ RevisionTellsContent /\ NoContentAhead
  /\ ReplicaFollows

\* A chunk has a revision, marked or not.
LEMMA RevisionIsNat ==
  ASSUME chunk_revisions \in Revisions, NEW c PROVE RevisionFor(c) \in Nat
BY RevisionsAre DEF RevisionFor

\* What is remembered of a player is a table of revisions.
LEMMA KnownIs ==
  ASSUME IInv, NEW id
  PROVE  Known(id) \in Revisions /\ Current(Known(id))
<1>1. CASE id \in DOMAIN player_states
  BY <1>1 DEF IInv, Typed, KnownNeverAhead, Known, Current
<1>2. CASE id \notin DOMAIN player_states
  BY <1>2, EmptyMapIs DEF Known
<1> QED
  BY <1>1, <1>2

\* The update is such that who applies it to what was remembered holds what is
\* remembered next: it removes, adds and changes exactly what differs.
LEMMA UpdateTellsAll ==
  ASSUME IInv, NEW id
  PROVE  /\ WorldUpdate(id) \in Update
         /\ Current(WorldUpdate(id).added) /\ Current(WorldUpdate(id).deltas)
         /\ KnownAfter(id) \in Revisions /\ Current(KnownAfter(id))
         /\ AfterUpdate(Known(id), WorldUpdate(id)) = KnownAfter(id)
<1> DEFINE T == Relevant(position[id])
           known == Known(id)
           stale == Stale(id)
           u == WorldUpdate(id)
           after == KnownAfter(id)
<1>1. known \in Revisions /\ Current(known)
  BY KnownIs
<1>2. \A c : RevisionFor(c) \in Nat
  BY RevisionIsNat DEF IInv, Typed
<1>3. T \subseteq Chunks
  BY DEF Relevant
<1>4. stale = {c \in T \cap DOMAIN known : RevisionFor(c) > known[c]}
  BY DEF Stale
<1>5. /\ u.type = "state_snapshot"
      /\ u.removed = DOMAIN known \ T
      /\ u.added = [c \in T \ DOMAIN known |-> RevisionFor(c)]
      /\ u.deltas = [c \in stale |-> RevisionFor(c)]
      /\ u = [type |-> u.type, removed |-> u.removed, added |-> u.added,
              deltas |-> u.deltas]
  BY DEF WorldUpdate
<1>6. after = [c \in T |-> IF c \in DOMAIN known \ stale
                           THEN known[c] ELSE RevisionFor(c)]
  BY DEF KnownAfter
<1> HIDE DEF T, known, stale, u, after
<1>7. DOMAIN known \subseteq Chunks /\ known \in [DOMAIN known -> Nat]
  BY <1>1, RevisionsAre
<1>8. u \in Update
  <2>1. u.added \in Revisions
    BY <1>2, <1>3, <1>5, RevisionsAre
  <2>2. u.deltas \in Revisions
    BY <1>2, <1>3, <1>4, <1>5, RevisionsAre
  <2>3. u.removed \in SUBSET Chunks /\ u.type \in {"state_snapshot"}
    BY <1>5, <1>7
  <2> QED
    BY <1>5, <2>1, <2>2, <2>3 DEF Update
<1>9. Current(u.added) /\ Current(u.deltas)
  BY <1>2, <1>5 DEF Current
<1>10. after \in Revisions
  <2>1. \A c \in T : after[c] \in Nat
    BY <1>2, <1>6, <1>7
  <2> QED
    BY <1>3, <1>6, <2>1, RevisionsAre
<1>11. Current(after)
  BY <1>1, <1>2, <1>6 DEF Current
<1>12. AfterUpdate(known, u) = after
  <2>1. KeptOrNews(known, u) = T
    BY <1>4, <1>5 DEF KeptOrNews
  <2>2. \A c \in T : Told(known, u, c) = after[c]
    BY <1>4, <1>5, <1>6 DEF Told
  <2>3. AfterUpdate(known, u) = [c \in T |-> Told(known, u, c)]
    BY <2>1, UpdateIs
  <2> QED
    BY <1>6, <2>2, <2>3
<1> QED
  BY <1>8, <1>9, <1>10, <1>11, <1>12 DEF u, after, known

-----------------------------------------------------------------------------
(* The actions *)

LEMMA InitIInv == ASSUME Init PROVE IInv
<1>1. \A c \in Chunks : Terrain(c) \in Nat
  BY DEF Terrain, Air
<1>2. Typed
  <2>1. chunk_revisions \in Revisions /\ \A p \in Peers : known_revisions[p] \in Revisions
    BY EmptyMapIs DEF Init
  <2>2. DOMAIN sessions = {} /\ Range(sessions) = {}
    BY DEF Init, EmptyMap, Range
  <2>3. DOMAIN player_states = {} /\ DOMAIN position = {}
    BY DEF Init, EmptyMap
  <2>4. \A p \in Peers : inbox[p] = <<>>
    BY DEF Init
  <2>5. inbox \in [Peers -> Seq(Packets)] /\ \A p \in Peers : Len(inbox[p]) <= MaxInbox
    BY <2>4, WorldAssumption DEF Init
  <2> QED
    BY <1>1, <2>1, <2>2, <2>3, <2>5 DEF Init, Typed
<1>3. \A c : RevisionFor(c) = 0
  BY DEF Init, RevisionFor, EmptyMap
<1>4. /\ StatesBelongToSessions /\ OnePeerPerPlayer /\ NothingForTheGone
      /\ ReplicaFollows
  BY DEF Init, EmptyMap, StatesBelongToSessions, OnePeerPerPlayer,
     NothingForTheGone, ReplicaFollows
<1>5. KnownNeverAhead /\ PacketsNeverAhead /\ ChunksMatchRevisions
  BY DEF Init, EmptyMap, KnownNeverAhead, PacketsNeverAhead, ChunksMatchRevisions
<1>6. \A c \in Chunks : DOMAIN content[c] = {0} /\ content[c][0] = Terrain(c)
  BY DEF Init, Put, EmptyMap
<1>7. RevisionTellsContent /\ NoContentAhead
  BY <1>3, <1>6 DEF Init, RevisionTellsContent, NoContentAhead
<1> QED
  BY <1>2, <1>4, <1>5, <1>7 DEF IInv

\* A table is current with the revisions there are after a step.
CurrentThen(m) == \A c \in DOMAIN m : m[c] <= RevisionFor(c)'

\* What holds of the blocks stays as long as no block changes.
LEMMA BlocksStay ==
  ASSUME IInv, UNCHANGED block_vars
  PROVE  /\ RevisionTellsContent' /\ NoContentAhead'
         /\ \A c : RevisionFor(c)' = RevisionFor(c)
         /\ \A m : Current(m) => CurrentThen(m)
BY DEF IInv, block_vars, RevisionTellsContent, NoContentAhead, RevisionFor,
   Current, CurrentThen

\* A snapshot: the table of each player and the client that reads its packets
\* take the same step.
LEMMA SendKeepsIInv == ASSUME IInv, SendSnapshots PROVE IInv'
<1> DEFINE told == Range(sessions)
           reached == {p \in DOMAIN sessions : client[p] # "gone"}
<1>1. /\ \A p \in reached : Len(inbox[p]) < MaxInbox
      /\ player_states' = [id \in DOMAIN player_states \cup told |->
                             IF id \in told THEN KnownAfter(id) ELSE player_states[id]]
      /\ inbox' = [p \in Peers |->
                     IF p \in reached THEN Append(inbox[p], WorldUpdate(sessions[p]))
                                      ELSE inbox[p]]
      /\ UNCHANGED <<block_vars, sessions, position, client_vars>>
  BY DEF SendSnapshots
<1>2. \A m : Current(m) => CurrentThen(m)
  BY <1>1, BlocksStay
<1>3. \A id : /\ WorldUpdate(id) \in Update
              /\ Current(WorldUpdate(id).added) /\ Current(WorldUpdate(id).deltas)
              /\ KnownAfter(id) \in Revisions /\ Current(KnownAfter(id))
              /\ AfterUpdate(Known(id), WorldUpdate(id)) = KnownAfter(id)
  BY UpdateTellsAll
<1>4. DOMAIN player_states \subseteq told
  BY DEF IInv, StatesBelongToSessions
<1>5. \A p \in DOMAIN sessions : sessions[p] \in told
  BY DEF Range
<1>6. told \subseteq Players /\ DOMAIN sessions \subseteq Peers
  BY DEF IInv, Typed
<1> HIDE DEF told, reached
<1>7. player_states' = [id \in told |-> KnownAfter(id)]
  BY <1>1, <1>4
<1>8. \A p \in Peers : /\ inbox[p] \in Seq(Packets) /\ Len(inbox[p]) <= MaxInbox
                       /\ Len(inbox[p]) \in Nat
  BY DEF IInv, Typed
<1>9. ASSUME NEW p \in Peers
      PROVE  /\ inbox'[p] \in Seq(Packets)
             /\ Len(inbox'[p]) <= MaxInbox
             /\ \A i \in 1 .. Len(inbox'[p]) :
                  inbox'[p][i] \in Update =>
                    CurrentThen(inbox'[p][i].added) /\ CurrentThen(inbox'[p][i].deltas)
  <2>1. \A i \in 1 .. Len(inbox[p]) :
          inbox[p][i] \in Update =>
            Current(inbox[p][i].added) /\ Current(inbox[p][i].deltas)
    BY DEF IInv, PacketsNeverAhead
  <2>2. CASE p \notin reached
    BY <1>1, <1>2, <1>8, <2>1, <2>2
  <2>3. CASE p \in reached
    <3> DEFINE u == WorldUpdate(sessions[p])
               s == inbox[p]
    <3>1. inbox'[p] = Append(s, u)
      BY <1>1, <2>3
    <3>2. /\ u \in Packets /\ CurrentThen(u.added) /\ CurrentThen(u.deltas)
      BY <1>2, <1>3 DEF Packets
    <3>3. Len(s) < MaxInbox /\ MaxInbox \in Nat
      BY <1>1, <2>3, WorldAssumption
    <3>4. s \in Seq(Packets)
      BY <1>8
    <3> HIDE DEF u, s
    <3>5. /\ Append(s, u) \in Seq(Packets) /\ Len(Append(s, u)) = Len(s) + 1
          /\ \A i \in 1 .. Len(s) : Append(s, u)[i] = s[i]
          /\ Append(s, u)[Len(s) + 1] = u
      BY <3>2, <3>4
    <3>6. \A i \in 1 .. Len(s) :
            s[i] \in Update => CurrentThen(s[i].added) /\ CurrentThen(s[i].deltas)
      BY <1>2, <2>1 DEF s
    <3>7. \A i \in 1 .. Len(s) + 1 : i \in 1 .. Len(s) \/ i = Len(s) + 1
      BY <3>4
    <3> QED
      BY <3>1, <3>2, <3>3, <3>4, <3>5, <3>6, <3>7
  <2> QED
    BY <2>2, <2>3
<1>10. Typed'
  <2>1. inbox' \in [Peers -> Seq(Packets)]
    BY <1>1, <1>9
  <2>2. \A id \in DOMAIN player_states' : player_states'[id] \in Revisions
    BY <1>3, <1>7
  <2> QED
    BY <1>1, <1>9, <2>1, <2>2 DEF IInv, Typed, block_vars, client_vars, Range
<1>11. StatesBelongToSessions' /\ OnePeerPerPlayer' /\ ChunksMatchRevisions'
  BY <1>1, <1>7 DEF IInv, StatesBelongToSessions, OnePeerPerPlayer,
     ChunksMatchRevisions, client_vars, told, Range
<1>12. KnownNeverAhead'
  <2>1. \A id \in DOMAIN player_states' : CurrentThen(player_states'[id])
    BY <1>2, <1>3, <1>7
  <2>2. \A p \in Peers : Current(known_revisions[p])
    BY DEF IInv, KnownNeverAhead, Current
  <2>3. \A p \in Peers : CurrentThen(known_revisions'[p])
    BY <1>1, <1>2, <2>2 DEF client_vars
  <2> QED
    BY <2>1, <2>3 DEF KnownNeverAhead, CurrentThen
<1>13. PacketsNeverAhead'
  BY <1>9 DEF PacketsNeverAhead, Current, CurrentThen
<1>14. ReplicaFollows'
  <2> SUFFICES ASSUME NEW p \in DOMAIN sessions, client[p] # "gone"
               PROVE  Known(sessions[p])' = Reading(known_revisions[p], inbox[p])'
    BY <1>1 DEF ReplicaFollows, client_vars
  <2> DEFINE id == sessions[p]
             u == WorldUpdate(id)
  <2>1. p \in Peers /\ p \in reached /\ id \in told
    BY <1>5, <1>6 DEF reached
  <2>2. Known(id)' = KnownAfter(id)
    BY <1>1, <1>7, <2>1 DEF Known
  <2>3. inbox'[p] = Append(inbox[p], u) /\ known_revisions'[p] = known_revisions[p]
    BY <1>1, <2>1 DEF client_vars
  <2>4. u \in Update /\ u \in Packets /\ u.type # "join_accept"
    BY <1>3 DEF Update, Packets
  <2>5. Known(id) = Reading(known_revisions[p], inbox[p])
    BY DEF IInv, ReplicaFollows
  <2>6. inbox[p] \in Seq(Packets)
    BY <1>8, <2>1
  <2> HIDE DEF u
  <2>7. Reading(known_revisions[p], Append(inbox[p], u))
          = Read(Reading(known_revisions[p], inbox[p]), u)
    BY <2>4, <2>6, ReadingAppended
  <2>8. Read(Known(id), u) = KnownAfter(id)
    BY <1>3, <2>4 DEF Read, u
  <2> QED
    BY <2>2, <2>3, <2>5, <2>7, <2>8
<1>15. NothingForTheGone'
  BY <1>1 DEF IInv, NothingForTheGone, reached, client_vars
<1> QED
  BY <1>1, <1>10, <1>11, <1>12, <1>13, <1>14, <1>15, BlocksStay DEF IInv

\* A change of a block: nothing that was told before becomes a revision ahead,
\* and the revision the change makes has stood for nothing.
LEMMA BlockUpdateKeepsIInv ==
  ASSUME IInv, NEW p, NEW c, NEW block, BlockUpdate(p, c, block) PROVE IInv'
<1> DEFINE next == RevisionFor(c) + 1
<1>1. /\ c \in Chunks /\ block \in Nat
      /\ UNCHANGED <<player_states, sessions, position, inbox, client_vars>>
  BY WorldAssumption DEF BlockUpdate, Applies, BlockAt
<1>2. /\ world' = [world EXCEPT ![c] = block]
      /\ chunk_revisions' = [k \in DOMAIN chunk_revisions \cup {c} |->
                               IF k = c THEN next ELSE chunk_revisions[k]]
      /\ content' = [content EXCEPT ![c] = Emplace(@, chunk_revisions'[c], block)]
  BY DEF BlockUpdate, WithBlock, Marked, Put
<1>3. /\ chunk_revisions \in Revisions
      /\ DOMAIN chunk_revisions \subseteq Chunks
      /\ chunk_revisions \in [DOMAIN chunk_revisions -> Nat]
  BY RevisionsAre DEF IInv, Typed
<1>4. \A k : RevisionFor(k) \in Nat
  BY <1>3, RevisionIsNat
<1>5. next \in Nat
  BY <1>4
<1>6. /\ RevisionFor(c)' = next
      /\ \A k : k # c => RevisionFor(k)' = RevisionFor(k)
  BY <1>2 DEF RevisionFor
<1>7. \A k : RevisionFor(k) <= RevisionFor(k)' /\ RevisionFor(k)' \in Nat
  BY <1>4, <1>6
<1>8. ASSUME NEW m \in Revisions, Current(m) PROVE CurrentThen(m)
  <2>1. \A k \in DOMAIN m : m[k] \in Nat
    BY RevisionsAre
  <2> QED
    BY <1>4, <1>7, <1>8, <2>1 DEF Current, CurrentThen
<1>9. Typed'
  <2>1. chunk_revisions' \in Revisions
    <3>1. DOMAIN chunk_revisions' \subseteq Chunks
      BY <1>1, <1>2, <1>3
    <3>2. \A k \in DOMAIN chunk_revisions' : chunk_revisions'[k] \in Nat
      BY <1>2, <1>3, <1>5
    <3>3. chunk_revisions' = [k \in DOMAIN chunk_revisions' |-> chunk_revisions'[k]]
      BY <1>2
    <3> QED
      BY <3>1, <3>2, <3>3, RevisionsAre
  <2>2. world' \in [Chunks -> Nat]
    BY <1>1, <1>2 DEF IInv, Typed
  <2> QED
    BY <1>1, <2>1, <2>2 DEF IInv, Typed, client_vars, Range
<1>10. KnownNeverAhead'
  <2>1. \A id \in DOMAIN player_states : CurrentThen(player_states[id])
    BY <1>8 DEF IInv, Typed, KnownNeverAhead, Current
  <2>2. \A q \in Peers : CurrentThen(known_revisions[q])
    BY <1>8 DEF IInv, Typed, KnownNeverAhead, Current
  <2> QED
    BY <1>1, <2>1, <2>2 DEF KnownNeverAhead, CurrentThen, client_vars
<1>11. PacketsNeverAhead'
  <2>1. \A u \in Update : u.added \in Revisions /\ u.deltas \in Revisions
    BY DEF Update
  <2>2. \A q \in Peers : \A i \in 1 .. Len(inbox[q]) :
          inbox[q][i] \in Update =>
            CurrentThen(inbox[q][i].added) /\ CurrentThen(inbox[q][i].deltas)
    BY <1>8, <2>1 DEF IInv, PacketsNeverAhead
  <2> QED
    BY <1>1, <2>2 DEF PacketsNeverAhead, Current, CurrentThen
<1>12. RevisionTellsContent' /\ NoContentAhead'
  <2>1. chunk_revisions'[c] = next /\ next \notin DOMAIN content[c]
    BY <1>1, <1>2, <1>4 DEF IInv, NoContentAhead
  <2>2. /\ DOMAIN content' = Chunks
        /\ content'[c] = [n \in DOMAIN content[c] \cup {next} |->
                            IF n = next THEN block ELSE content[c][n]]
        /\ \A k \in Chunks : k # c => content'[k] = content[k]
    BY <1>1, <1>2, <2>1 DEF IInv, NoContentAhead, Emplace, Put
  <2>3. RevisionTellsContent'
    BY <1>1, <1>2, <1>6, <2>2 DEF IInv, Typed, RevisionTellsContent
  <2>4. \A k \in Chunks :
          /\ RevisionFor(k)' \in DOMAIN content'[k]
          /\ \A n \in DOMAIN content'[k] : n \in Nat /\ n <= RevisionFor(k)'
    <3> SUFFICES ASSUME NEW k \in Chunks
                 PROVE  /\ RevisionFor(k)' \in DOMAIN content'[k]
                        /\ \A n \in DOMAIN content'[k] :
                             n \in Nat /\ n <= RevisionFor(k)'
      OBVIOUS
    <3>1. CASE k # c
      BY <1>6, <2>2, <3>1 DEF IInv, NoContentAhead
    <3>2. CASE k = c
      <4>1. DOMAIN content'[c] = DOMAIN content[c] \cup {next}
        BY <2>2
      <4>2. \A n \in DOMAIN content[c] : n \in Nat /\ n <= RevisionFor(c)
        BY <1>1 DEF IInv, NoContentAhead
      <4> QED
        BY <1>4, <1>5, <1>6, <3>2, <4>1, <4>2
    <3> QED
      BY <3>1, <3>2
  <2> QED
    BY <2>2, <2>3, <2>4 DEF NoContentAhead
<1>13. /\ StatesBelongToSessions' /\ OnePeerPerPlayer' /\ ChunksMatchRevisions'
       /\ ReplicaFollows' /\ NothingForTheGone'
  BY <1>1 DEF IInv, NothingForTheGone, StatesBelongToSessions, OnePeerPerPlayer, ChunksMatchRevisions,
     ReplicaFollows, Known, client_vars, Range
<1> QED
  BY <1>9, <1>10, <1>11, <1>12, <1>13 DEF IInv

\* Joining: nothing is remembered of a player without a session, and whatever
\* the client process knows it forgets with the first packet.
LEMMA JoinKeepsIInv ==
  ASSUME IInv, NEW p \in Peers, NEW id \in Players, Join(p, id) PROVE IInv'
<1> DEFINE accept == [type |-> "join_accept"]
<1>1. /\ client[p] = "gone" /\ p \notin DOMAIN sessions /\ id \notin Range(sessions)
      /\ sessions' = [q \in DOMAIN sessions \cup {p} |->
                        IF q = p THEN id ELSE sessions[q]]
      /\ DOMAIN position' = DOMAIN position \cup {id}
      /\ client' = [client EXCEPT ![p] = "joining"]
      /\ inbox' = [inbox EXCEPT ![p] = <<accept>>]
      /\ UNCHANGED <<block_vars, player_states, known_chunks, known_revisions>>
  BY DEF Join, Put, Emplace
<1>2. \A m : Current(m) => CurrentThen(m)
  BY <1>1, BlocksStay
<1>3. Range(sessions') = Range(sessions) \cup {id}
  BY <1>1 DEF Range
<1>4. accept \in Packets /\ accept \notin Update
  BY DEF Packets, Accept, Update
<1> HIDE DEF accept
<1>5. <<accept>> \in Seq(Packets) /\ Len(<<accept>>) = 1 /\ <<accept>>[1] = accept
  BY <1>4
<1>6. Typed'
  <2>1. inbox' \in [Peers -> Seq(Packets)] /\ \A q \in Peers : Len(inbox'[q]) <= MaxInbox
    BY <1>1, <1>5, WorldAssumption DEF IInv, Typed
  <2> QED
    BY <1>1, <1>3, <2>1 DEF IInv, Typed, block_vars
<1>7. StatesBelongToSessions'
  BY <1>1, <1>3 DEF IInv, StatesBelongToSessions
<1>8. OnePeerPerPlayer'
  <2>1. \A q \in DOMAIN sessions : sessions[q] # id
    BY <1>1 DEF Range
  <2> QED
    BY <1>1, <2>1 DEF IInv, OnePeerPerPlayer
<1>9. KnownNeverAhead' /\ ChunksMatchRevisions'
  BY <1>1, <1>2 DEF IInv, KnownNeverAhead, ChunksMatchRevisions, Current, CurrentThen
<1>10. PacketsNeverAhead'
  <2>1. \A i \in 1 .. Len(inbox'[p]) : inbox'[p][i] \notin Update
    BY <1>1, <1>4, <1>5 DEF IInv, Typed
  <2>2. \A q \in Peers : q # p => inbox'[q] = inbox[q]
    BY <1>1 DEF IInv, Typed
  <2>3. \A q \in Peers : \A i \in 1 .. Len(inbox[q]) :
          inbox[q][i] \in Update =>
            CurrentThen(inbox[q][i].added) /\ CurrentThen(inbox[q][i].deltas)
    BY <1>2 DEF IInv, PacketsNeverAhead
  <2> QED
    BY <2>1, <2>2, <2>3 DEF PacketsNeverAhead, Current, CurrentThen
<1>11. ReplicaFollows'
  <2>1. Known(id)' = EmptyMap
    BY <1>1 DEF IInv, StatesBelongToSessions, Known
  <2>2. Reading(known_revisions[p], <<accept>>) = EmptyMap
    <3>1. Reading(known_revisions[p], Append(<<>>, accept))
            = Read(Reading(known_revisions[p], <<>>), accept)
      <4>1. <<>> \in Seq(Packets)
        OBVIOUS
      <4> QED
        BY <1>4, <4>1, ReadingAppended
    <3>2. \A t : t = Append(<<>>, accept) => Reading(known_revisions[p], t) = EmptyMap
      BY <3>1 DEF Read, accept
    <3>3. <<accept>> = Append(<<>>, accept)
      OBVIOUS
    <3> QED
      BY <3>2, <3>3
  <2>3. inbox'[p] = <<accept>> /\ sessions'[p] = id
    BY <1>1 DEF IInv, Typed
  <2>4. ASSUME NEW q \in DOMAIN sessions
        PROVE  /\ q # p /\ inbox'[q] = inbox[q] /\ sessions'[q] = sessions[q]
               /\ client'[q] = client[q]
               /\ Known(sessions[q])' = Known(sessions[q])
    BY <1>1 DEF IInv, Typed, Known
  <2> SUFFICES ASSUME NEW q \in DOMAIN sessions', client'[q] # "gone"
               PROVE  Known(sessions[q])' = Reading(known_revisions[q], inbox[q])'
    BY DEF ReplicaFollows
  <2>5. CASE q = p
    BY <1>1, <2>1, <2>2, <2>3, <2>5 DEF Known
  <2>6. CASE q # p
    <3>1. q \in DOMAIN sessions
      BY <1>1, <2>6
    <3> QED
      BY <1>1, <2>4, <3>1 DEF IInv, ReplicaFollows, Known
  <2> QED
    BY <2>5, <2>6
<1>12. NothingForTheGone'
  BY <1>1 DEF IInv, Typed, NothingForTheGone
<1> QED
  BY <1>1, <1>6, <1>7, <1>8, <1>9, <1>10, <1>11, <1>12, BlocksStay DEF IInv

\* Leaving: nothing is remembered of the player, and no other session has it.
LEMMA EndSessionKeepsIInv ==
  ASSUME IInv, NEW p, EndSession(p) PROVE IInv'
<1> DEFINE id == sessions[p]
<1>1. /\ p \in DOMAIN sessions
      /\ DOMAIN player_states' = DOMAIN player_states \ {id}
      /\ \A k \in DOMAIN player_states' : player_states'[k] = player_states[k]
      /\ DOMAIN position' = DOMAIN position \ {id}
      /\ DOMAIN sessions' = DOMAIN sessions \ {p}
      /\ \A q \in DOMAIN sessions' : sessions'[q] = sessions[q]
      /\ UNCHANGED <<block_vars, inbox, client_vars>>
  BY DEF EndSession, Erase
<1>2. \A m : Current(m) => CurrentThen(m)
  BY <1>1, BlocksStay
<1>3. \A q \in DOMAIN sessions' : q # p /\ sessions[q] # id
  BY <1>1 DEF IInv, OnePeerPerPlayer
<1>4. Range(sessions') = Range(sessions) \ {id}
  <2>1. \A k \in Range(sessions) \ {id} : \E q \in DOMAIN sessions' : sessions'[q] = k
    BY <1>1 DEF Range
  <2>2. \A q \in DOMAIN sessions' : sessions'[q] \in Range(sessions) \ {id}
    BY <1>1, <1>3 DEF Range
  <2> QED
    BY <2>1, <2>2 DEF Range
<1>5. Typed'
  BY <1>1, <1>4 DEF IInv, Typed, block_vars, client_vars
<1>6. StatesBelongToSessions' /\ OnePeerPerPlayer' /\ ChunksMatchRevisions'
      /\ NothingForTheGone'
  BY <1>1, <1>4 DEF IInv, StatesBelongToSessions, OnePeerPerPlayer,
     ChunksMatchRevisions, NothingForTheGone, client_vars
<1>7. KnownNeverAhead' /\ PacketsNeverAhead'
  BY <1>1, <1>2 DEF IInv, KnownNeverAhead, PacketsNeverAhead, Current, CurrentThen,
     client_vars
<1>8. ReplicaFollows'
  <2>1. \A q \in DOMAIN sessions' : Known(sessions[q])' = Known(sessions[q])
    BY <1>1, <1>3 DEF Known
  <2> QED
    BY <1>1, <2>1 DEF IInv, ReplicaFollows, client_vars
<1> QED
  BY <1>1, <1>5, <1>6, <1>7, <1>8, BlocksStay DEF IInv

\* Moving changes the area of the next update, nothing that was told.
LEMMA MoveKeepsIInv ==
  ASSUME IInv, NEW p, NEW pos, Move(p, pos) PROVE IInv'
<1>1. /\ DOMAIN position' = DOMAIN position
      /\ UNCHANGED <<block_vars, player_states, sessions, inbox, client_vars>>
  BY DEF Move
<1>2. \A c : RevisionFor(c)' = RevisionFor(c)
  BY <1>1, BlocksStay
<1>3. Typed' /\ StatesBelongToSessions' /\ OnePeerPerPlayer' /\ ChunksMatchRevisions'
      /\ NothingForTheGone'
  BY <1>1 DEF IInv, Typed, StatesBelongToSessions, OnePeerPerPlayer,
     ChunksMatchRevisions, NothingForTheGone, block_vars, client_vars, Range
<1>4. KnownNeverAhead' /\ PacketsNeverAhead' /\ ReplicaFollows'
  BY <1>1, <1>2 DEF IInv, KnownNeverAhead, PacketsNeverAhead, ReplicaFollows, Known,
     Current, client_vars
<1> QED
  BY <1>1, <1>3, <1>4, BlocksStay DEF IInv

\* Reading a packet: what is read now is what was to be read first.
LEMMA ReceiveKeepsIInv ==
  ASSUME IInv, NEW p \in Peers, Receive(p) PROVE IInv'
<1> DEFINE packet == Head(inbox[p])
           rest == Tail(inbox[p])
           r == known_revisions[p]
<1>1. /\ inbox[p] # <<>> /\ inbox' = [inbox EXCEPT ![p] = rest]
      /\ UNCHANGED <<block_vars, player_states, sessions, position>>
  BY DEF Receive
<1>2. \A m : Current(m) => CurrentThen(m)
  BY <1>1, BlocksStay
<1>3. /\ inbox[p] \in Seq(Packets) /\ r \in Revisions /\ Current(r)
      /\ known_chunks[p] = DOMAIN r
  BY DEF IInv, Typed, KnownNeverAhead, ChunksMatchRevisions, Current
<1>4. /\ packet = inbox[p][1] /\ packet \in Packets /\ rest \in Seq(Packets)
      /\ Len(rest) = Len(inbox[p]) - 1 /\ Len(inbox[p]) \in Nat
      /\ 1 \in 1 .. Len(inbox[p])
      /\ \A i \in 1 .. Len(rest) :
           i + 1 \in 1 .. Len(inbox[p]) /\ rest[i] = inbox[p][i + 1]
  BY <1>1, <1>3
<1>5. packet \in Update => Current(packet.added) /\ Current(packet.deltas)
  BY <1>4 DEF IInv, PacketsNeverAhead
<1> HIDE DEF packet, rest, r
<1>6. packet.type = "join_accept" \/ (packet \in Update /\ packet.type # "join_accept")
  <2>1. CASE packet \in Accept
    BY <2>1 DEF Accept
  <2>2. CASE packet \in Update
    BY <2>2 DEF Update
  <2> QED
    BY <1>4, <2>1, <2>2 DEF Packets
\* The client's tables after the packet.
<1>7. /\ Read(r, packet) \in Revisions /\ Current(Read(r, packet))
      /\ known_revisions' = [known_revisions EXCEPT ![p] = Read(r, packet)]
      /\ known_chunks' = [known_chunks EXCEPT ![p] = DOMAIN Read(r, packet)]
      /\ client' \in [Peers -> {"gone", "joining", "joined"}]
      /\ \A q \in Peers : client'[q] = "gone" <=> client[q] = "gone"
  <2>0. client[p] # "gone"
    BY <1>1 DEF IInv, NothingForTheGone
  <2>1. CASE packet.type = "join_accept"
    <3>1. Read(r, packet) = EmptyMap
      BY <2>1 DEF Read
    <3>2. Reset(p)
      BY <2>1 DEF Receive, packet
    <3> QED
      BY <2>0, <3>1, <3>2, EmptyMapIs DEF Reset, IInv, Typed
  <2>2. CASE packet \in Update /\ packet.type # "join_accept"
    <3>1. Read(r, packet) = AfterUpdate(r, packet)
      BY <2>2 DEF Read
    <3>2. ApplyChunkSync(p, packet)
      BY <2>2 DEF Receive, packet
    <3>3. (known_chunks[p] \ packet.removed) \cup Generated(r, packet)
            = DOMAIN AfterUpdate(r, packet)
      BY <1>3, <2>2, GeneratedFits
    <3>4. /\ known_chunks' = [known_chunks EXCEPT ![p] = DOMAIN AfterUpdate(r, packet)]
          /\ known_revisions' = [known_revisions EXCEPT ![p] = AfterUpdate(r, packet)]
          /\ client' = client
      BY <3>2, <3>3 DEF ApplyChunkSync, r
    <3>5. AfterUpdate(r, packet) \in Revisions /\ Current(AfterUpdate(r, packet))
      BY <1>3, <1>5, <2>2, UpdateTypes, UpdateCurrent
    <3> QED
      BY <3>1, <3>4, <3>5 DEF IInv, Typed
  <2> QED
    BY <1>6, <2>1, <2>2
<1>8. \A q \in Peers : /\ inbox'[q] = IF q = p THEN rest ELSE inbox[q]
                       /\ known_revisions'[q] = IF q = p THEN Read(r, packet)
                                                ELSE known_revisions[q]
                       /\ known_chunks'[q] = IF q = p THEN DOMAIN Read(r, packet)
                                             ELSE known_chunks[q]
  BY <1>1, <1>7 DEF IInv, Typed
<1>9. Typed'
  <2>1. inbox' \in [Peers -> Seq(Packets)]
    BY <1>1, <1>4 DEF IInv, Typed
  <2>2. \A q \in Peers : Len(inbox'[q]) <= MaxInbox
    BY <1>4, <1>8, WorldAssumption DEF IInv, Typed
  <2>3. known_revisions' \in [Peers -> Revisions]
    BY <1>7 DEF IInv, Typed
  <2>4. known_chunks' \in [Peers -> SUBSET Chunks]
    <3>1. DOMAIN Read(r, packet) \in SUBSET Chunks
      BY <1>7, RevisionsAre
    <3> QED
      BY <1>7, <3>1 DEF IInv, Typed
  <2> QED
    BY <1>1, <1>7, <2>1, <2>2, <2>3, <2>4 DEF IInv, Typed, block_vars, Range
<1>10. StatesBelongToSessions' /\ OnePeerPerPlayer' /\ ChunksMatchRevisions'
  BY <1>1, <1>8 DEF IInv, StatesBelongToSessions, OnePeerPerPlayer,
     ChunksMatchRevisions, Range
<1>11. KnownNeverAhead'
  BY <1>1, <1>2, <1>7, <1>8 DEF IInv, KnownNeverAhead, Current, CurrentThen
<1>12. PacketsNeverAhead'
  <2>1. \A q \in Peers : \A i \in 1 .. Len(inbox[q]) :
          inbox[q][i] \in Update =>
            CurrentThen(inbox[q][i].added) /\ CurrentThen(inbox[q][i].deltas)
    BY <1>2 DEF IInv, PacketsNeverAhead
  <2>2. \A q \in Peers : \A i \in 1 .. Len(inbox'[q]) :
          inbox'[q][i] \in Update =>
            CurrentThen(inbox'[q][i].added) /\ CurrentThen(inbox'[q][i].deltas)
    <3> SUFFICES ASSUME NEW q \in Peers, NEW i \in 1 .. Len(inbox'[q])
                 PROVE  \E j \in 1 .. Len(inbox[q]) : inbox'[q][i] = inbox[q][j]
      BY <2>1
    <3>1. CASE q = p
      <4>1. i + 1 \in 1 .. Len(inbox[p]) /\ inbox'[p][i] = inbox[p][i + 1]
        BY <1>4, <1>8, <3>1
      <4> QED
        BY <3>1, <4>1
    <3>2. CASE q # p
      BY <1>8, <3>2
    <3> QED
      BY <3>1, <3>2
  <2> QED
    BY <2>2 DEF PacketsNeverAhead, Current, CurrentThen
<1>13. ReplicaFollows'
  <2> SUFFICES ASSUME NEW q \in DOMAIN sessions, client'[q] # "gone"
               PROVE  Known(sessions[q])' = Reading(known_revisions[q], inbox[q])'
    BY <1>1 DEF ReplicaFollows
  <2>1. q \in Peers
    BY DEF IInv, Typed
  <2>2. client[q] # "gone"
    BY <1>1, <1>7, <2>1 DEF IInv, NothingForTheGone
  <2>3. Known(sessions[q]) = Reading(known_revisions[q], inbox[q])
    BY <2>2 DEF IInv, ReplicaFollows
  <2>4. Known(sessions[q])' = Known(sessions[q])
    BY <1>1 DEF Known
  <2>5. CASE q = p
    <3>1. Reading(r, inbox[p]) = Reading(Read(r, packet), rest)
      BY <1>1, <1>3, ReadingFirst DEF packet, rest
    <3> QED
      BY <1>8, <2>1, <2>3, <2>4, <2>5, <3>1 DEF r
  <2>6. CASE q # p
    BY <1>8, <2>1, <2>3, <2>4, <2>6
  <2> QED
    BY <2>5, <2>6
<1>14. NothingForTheGone'
  BY <1>1, <1>7, <1>8 DEF IInv, NothingForTheGone
<1> QED
  BY <1>1, <1>9, <1>10, <1>11, <1>12, <1>13, <1>14, BlocksStay DEF IInv

\* A process that ends takes what it knew and what was on its way along.
LEMMA QuitKeepsIInv ==
  ASSUME IInv, NEW p \in Peers, Quit(p) PROVE IInv'
<1>1. /\ client' = [client EXCEPT ![p] = "gone"]
      /\ inbox' = [inbox EXCEPT ![p] = <<>>]
      /\ known_chunks' = [known_chunks EXCEPT ![p] = {}]
      /\ known_revisions' = [known_revisions EXCEPT ![p] = EmptyMap]
      /\ UNCHANGED <<block_vars, player_states, sessions, position>>
  BY DEF Quit
<1>2. \A m : Current(m) => CurrentThen(m)
  BY <1>1, BlocksStay
<1>3. /\ \A q \in Peers : q # p => /\ client'[q] = client[q]
                                   /\ inbox'[q] = inbox[q]
                                   /\ known_chunks'[q] = known_chunks[q]
                                   /\ known_revisions'[q] = known_revisions[q]
      /\ client'[p] = "gone" /\ inbox'[p] = <<>> /\ known_chunks'[p] = {}
      /\ known_revisions'[p] = EmptyMap
  BY <1>1 DEF IInv, Typed
<1>4. Typed'
  <2>1. inbox' \in [Peers -> Seq(Packets)] /\ \A q \in Peers : Len(inbox'[q]) <= MaxInbox
    BY <1>1, <1>3, WorldAssumption DEF IInv, Typed
  <2>2. known_revisions' \in [Peers -> Revisions]
    BY <1>1, EmptyMapIs DEF IInv, Typed
  <2> QED
    BY <1>1, <2>1, <2>2 DEF IInv, Typed, block_vars, Range
<1>5. StatesBelongToSessions' /\ OnePeerPerPlayer' /\ NothingForTheGone'
  BY <1>1, <1>3 DEF IInv, StatesBelongToSessions, OnePeerPerPlayer,
     NothingForTheGone, Range
<1>9. ChunksMatchRevisions'
  BY <1>3, EmptyMapIs DEF IInv, ChunksMatchRevisions
<1>6. KnownNeverAhead'
  BY <1>1, <1>2, <1>3, EmptyMapIs DEF IInv, KnownNeverAhead, Current, CurrentThen
<1>7. PacketsNeverAhead'
  <2>1. \A q \in Peers : \A i \in 1 .. Len(inbox[q]) :
          inbox[q][i] \in Update =>
            CurrentThen(inbox[q][i].added) /\ CurrentThen(inbox[q][i].deltas)
    BY <1>2 DEF IInv, PacketsNeverAhead
  <2> QED
    BY <1>3, <2>1 DEF PacketsNeverAhead, Current, CurrentThen
<1>8. ReplicaFollows'
  <2>1. DOMAIN sessions \subseteq Peers
    BY DEF IInv, Typed
  <2> QED
    BY <1>1, <1>3, <2>1 DEF IInv, ReplicaFollows, Known
<1> QED
  BY <1>1, <1>4, <1>5, <1>6, <1>7, <1>8, <1>9, BlocksStay DEF IInv

-----------------------------------------------------------------------------
(* The theorems *)

LEMMA IInvInductive == ASSUME IInv, [Next]_vars PROVE IInv'
<1>1. CASE SendSnapshots
  BY <1>1, SendKeepsIInv
<1>2. ASSUME NEW p \in Peers, NEW id \in Players, Join(p, id) PROVE IInv'
  BY <1>2, JoinKeepsIInv
<1>3. ASSUME NEW p \in Peers, EndSession(p) PROVE IInv'
  BY <1>3, EndSessionKeepsIInv
<1>4. ASSUME NEW p \in Peers, NEW pos \in Positions, Move(p, pos) PROVE IInv'
  BY <1>4, MoveKeepsIInv
<1>5. ASSUME NEW p \in Peers, NEW c \in Chunks \cup {Beyond}, NEW block \in Blocks,
             BlockUpdate(p, c, block)
      PROVE  IInv'
  BY <1>5, BlockUpdateKeepsIInv
<1>6. ASSUME NEW p \in Peers, Receive(p) PROVE IInv'
  BY <1>6, ReceiveKeepsIInv
<1>7. ASSUME NEW p \in Peers, Quit(p) PROVE IInv'
  BY <1>7, QuitKeepsIInv
<1>8. CASE UNCHANGED vars
  <2>1. UNCHANGED <<block_vars, player_states, sessions, position, inbox, client_vars>>
    BY <1>8 DEF vars
  <2>2. \A c : RevisionFor(c)' = RevisionFor(c)
    BY <2>1, BlocksStay
  <2>3. Typed' /\ StatesBelongToSessions' /\ OnePeerPerPlayer' /\ NothingForTheGone'
    BY <2>1 DEF IInv, Typed, StatesBelongToSessions, OnePeerPerPlayer,
       NothingForTheGone, block_vars, client_vars, Range
  <2>4. KnownNeverAhead' /\ PacketsNeverAhead' /\ ChunksMatchRevisions' /\ ReplicaFollows'
    BY <2>1, <2>2 DEF IInv, KnownNeverAhead, PacketsNeverAhead, ChunksMatchRevisions,
       ReplicaFollows, Known, Current, client_vars
  <2> QED
    BY <2>1, <2>3, <2>4, BlocksStay DEF IInv
<1> QED
  BY <1>1, <1>2, <1>3, <1>4, <1>5, <1>6, <1>7, <1>8 DEF Next

LEMMA AlwaysIInv == Spec => []IInv
BY InitIInv, IInvInductive, PTL DEF Spec

\* The tables of server and clients are in order: they are partial maps over what
\* exists, nobody is remembered who has no session (remove_player on every way
\* out), nobody is told a revision that does not exist yet, and a client holds
\* the chunks it has a revision of (apply_chunk_sync).
THEOREM TablesAlwaysAgree == Spec => []TablesAgree
<1>1. IInv => TablesAgree
  <2> SUFFICES ASSUME IInv PROVE TablesAgree
    OBVIOUS
  <2>1. \A m \in Revisions : IsRevisionMap(m)
    BY RevisionsAre DEF IsRevisionMap
  <2>2. DOMAIN player_states \subseteq Players
    BY DEF IInv, Typed, StatesBelongToSessions
  <2>3. TypeOK
    BY <2>1, <2>2 DEF IInv, Typed, TypeOK
  <2> QED
    BY <2>3 DEF IInv, TablesAgree
<1> QED
  BY <1>1, AlwaysIInv, PTL

\* What build_player_update remembers to have told a client is what the client
\* will know when it has read the packets on their way to it.
THEOREM ReplicaAlwaysFollows == Spec => []ReplicaFollows
<1>1. IInv => ReplicaFollows
  BY DEF IInv
<1> QED
  BY <1>1, AlwaysIInv, PTL

\* A revision stands for one content of its chunk: mark_chunk_dirty after every
\* block change, and only then.
THEOREM RevisionsTellContent == Spec => []RevisionTellsContent
<1>1. IInv => RevisionTellsContent
  BY DEF IInv
<1> QED
  BY <1>1, AlwaysIInv, PTL
=============================================================================
