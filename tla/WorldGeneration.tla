--------------------------- MODULE WorldGeneration ---------------------------
(***************************************************************************)
(* shared/src/voxel/World.cpp: how the places of interest (POIs: outposts, *)
(* ruins, loot shrines) get into the world.  The world is cut into cells;  *)
(* a hash of the seed decides whether a cell has a POI, of which type and  *)
(* where.  A POI yields to one of lower rank that is too near, and each    *)
(* chunk, generated on its own and in any order, stamps the POIs that      *)
(* reach it.  Server and clients do so separately and must agree.          *)
(*                                                                         *)
(* Sizes are the program's.  A chunk stands for its whole column (the      *)
(* layers differ only in which blocks of a stamp they keep), a block       *)
(* column for what was stamped on it in which order, which decides its     *)
(* blocks.  The hashes of the seed are free choices.                       *)
(*                                                                         *)
(* Heights are left out: max_height_ may only grow from one generate to    *)
(* the next, but each process passes the one world_height of the           *)
(* configuration it has read to every call.  A client that has read        *)
(* another than the server would build the same stamps at other heights.   *)
(***************************************************************************)
EXTENDS Integers, Sequences, Functions, FiniteSetsExt, Maps

CONSTANTS
  Profiles,          \* bound: WorldGenerationProfiles as configured
  Cells,             \* bound: the cells whose chance lets them have a POI
  CellHashes,        \* bound: hash_world of a cell, per salt
  MapChunks,         \* the chunks generate makes
  Chunks             \* bound: these, and others a client may ask for

VARIABLES
  profile,           \* World::generation_profile_, sanitised
  hashes,            \* cell -> its hashes; partial: the cells with a POI
  chunks             \* World::chunks_: chunk -> POIs stamped on it, in order
vars == <<profile, hashes, chunks>>

ChunkSize == 32                  \* kChunkSize
PoiTypes == {"outpost", "ruins", "loot_shrine"}
RadiusOf == [outpost |-> 8, ruins |-> 7, loot_shrine |-> 5]
MaxRadius == 8

\* A cell before the origin has no POI: build_candidate refuses its centre.
ASSUME GenerationAssumption ==
  /\ IsFiniteSet(Cells) /\ Cells \subseteq Nat \X Nat
  /\ MapChunks \subseteq Chunks /\ Chunks \subseteq Nat \X Nat
  /\ Profiles \subseteq [enabled : BOOLEAN, cell_size_chunks : Int, jitter_units : Int,
                         min_poi_spacing_units : Int, poi_types : SUBSET PoiTypes]
  /\ CellHashes \subseteq [x : Nat, z : Nat, type : Nat, rank : Nat]

Square(n) == n * n
Distance2(p, q) == Square(p.x - q.x) + Square(p.z - q.z)
Clamp(n, low, high) == Max({low, Min({n, high})})
CellSize(prof) == Max({1, prof.cell_size_chunks}) * ChunkSize

\* sanitize_world_generation_profile: defaults for what makes no sense, and no
\* POI that leaves its cell.
Sanitized(prof) ==
  LET cells  == IF prof.cell_size_chunks <= 0 THEN 4 ELSE prof.cell_size_chunks
      jitter == IF prof.jitter_units < 0 THEN 24 ELSE prof.jitter_units
  IN [prof EXCEPT
        !.cell_size_chunks = cells,
        !.jitter_units = Min({jitter, ((cells * ChunkSize) \div 2) - 1}),
        !.min_poi_spacing_units = IF @ < 0 THEN 96 ELSE @,
        !.poi_types = IF @ = {} THEN {"outpost"} ELSE @]

\* floor_div rounds towards minus infinity, as \div does.
FloorDiv(value, divisor) == IF divisor <= 0 THEN 0 ELSE value \div divisor

-----------------------------------------------------------------------------
(* The POI of a cell *)

\* hash_world permutes the numbers it mixes: with one seed and one salt no two
\* cells have the same hash.
Permuted(some) == \A c, d \in DOMAIN some : c # d => some[c].rank # some[d].rank

\* hash_signed_range
SignedRange(hash, jitter) == (hash % (2 * jitter + 1)) - jitter

\* The types a POI may have, in the order in which they are asked for.
EnabledTypes ==
  LET IfEnabled(type) == IF type \in profile.poi_types THEN <<type>> ELSE <<>>
  IN IfEnabled("outpost") \o IfEnabled("ruins") \o IfEnabled("loot_shrine")

\* build_candidate: none (the empty set), or the one of the cell.
Candidate(cell) ==
  IF ~profile.enabled \/ cell \notin DOMAIN hashes THEN {}
  ELSE
    LET hash  == hashes[cell]
        type  == EnabledTypes[(hash.type % Len(EnabledTypes)) + 1]
        At(axis, h) == cell[axis] * CellSize(profile) + (CellSize(profile) \div 2)
                         + SignedRange(h, profile.jitter_units)
    IN {[type |-> type, x |-> At(1, hash.x), z |-> At(2, hash.z),
         cell |-> cell, radius |-> RadiusOf[type], rank |-> hash.rank]}

\* candidate_rank_less
RankLess(p, q) ==
  \/ p.rank < q.rank
  \/ p.rank = q.rank /\ p.cell[1] < q.cell[1]
  \/ p.rank = q.rank /\ p.cell[1] = q.cell[1] /\ p.cell[2] < q.cell[2]

\* A search that takes the spacing for the distance of the cells.
SpacingReachShort ==
  Max({1, profile.min_poi_spacing_units \div CellSize(profile)})

\* How many cells around its own a POI looks at.
SpacingReach ==
  Max({1, (profile.min_poi_spacing_units \div CellSize(profile)) + 2})

\* The squares of survives_spacing are ints: that of the spacing, and those of
\* the distances within the cells looked at, added up.  Nothing ensures that they
\* fit: neither the spacing nor the size of a cell has an upper bound.
MaxInt == 2147483647
SpacingFits ==
  2 * Square(profile.min_poi_spacing_units + 3 * CellSize(profile)) <= MaxInt

\* survives_spacing: nothing nearer than the spacing ranks lower.  One that
\* itself yields still counts.  (True of the code as long as SpacingFits.)
SurvivesSpacing(p) ==
  LET spacing == profile.min_poi_spacing_units
      near    == {<<p.cell[1] + dx, p.cell[2] + dz>> :
                    dx, dz \in -SpacingReach .. SpacingReach} \ {p.cell}
  IN \/ spacing <= 0
     \/ \A q \in UNION {Candidate(c) : c \in near} :
          Distance2(p, q) < Square(spacing) => ~RankLess(q, p)

-----------------------------------------------------------------------------
(* The POIs of a chunk *)

\* intersects_chunk: the circle of the POI reaches the chunk.
Intersects(p, chunk) ==
  LET nearest == [x |-> Clamp(p.x, chunk[1] * ChunkSize, (chunk[1] + 1) * ChunkSize - 1),
                  z |-> Clamp(p.z, chunk[2] * ChunkSize, (chunk[2] + 1) * ChunkSize - 1)]
  IN Distance2(p, nearest) <= Square(p.radius)

\* The order in which gather_chunk_candidates sorts.
StampedBefore(p, q) ==
  \/ p.x < q.x
  \/ p.x = q.x /\ p.z < q.z

Sorted(pois) ==
  CHOOSE s \in [1 .. Cardinality(pois) -> pois] :
    /\ Range(s) = pois
    /\ \A i, j \in DOMAIN s : i < j => StampedBefore(s[i], s[j])

\* The cells that have a part in the chunk, and no others.
CellsAroundNoMargin(chunk) ==
  LET size == CellSize(profile)
      Around(i) == FloorDiv(i * ChunkSize, size)
                   .. FloorDiv((i + 1) * ChunkSize - 1, size)
  IN Around(chunk[1]) \X Around(chunk[2])

\* The cells whose POIs may reach the chunk.
CellsAround(chunk) ==
  LET size   == CellSize(profile)
      margin == MaxRadius + Max({0, profile.jitter_units}) + size
      Around(i) == FloorDiv(i * ChunkSize - margin, size)
                   .. FloorDiv((i + 1) * ChunkSize - 1 + margin, size)
  IN Around(chunk[1]) \X Around(chunk[2])

\* gather_chunk_candidates
Gathered(chunk) ==
  LET found == UNION {Candidate(c) : c \in CellsAround(chunk)}
  IN Sorted({p \in found : SurvivesSpacing(p) /\ Intersects(p, chunk)})

\* Where the stamps put blocks: stamp_outpost, stamp_ruins (its wall may have
\* gaps), stamp_loot_shrine.
Covers(p, column) ==
  LET dx == column[1] - p.x
      dz == column[2] - p.z
      Within(n) == dx \in -n .. n /\ dz \in -n .. n
  IN CASE p.type = "outpost"     -> Within(6)
       [] p.type = "ruins"       -> Within(5)
       [] p.type = "loot_shrine" -> Within(3) /\ Square(dx) + Square(dz) <= 10

ChunkOf(column) == <<column[1] \div ChunkSize, column[2] \div ChunkSize>>

-----------------------------------------------------------------------------
(* The operations of World *)

\* A world before generate: any configured profile, any seed.
Init ==
  /\ \E prof \in Profiles : profile = Sanitized(prof)
  /\ \E some \in SUBSET Cells : hashes \in [some -> CellHashes]
  /\ Permuted(hashes)
  /\ chunks = EmptyMap

\* generate: everything anew, chunk after chunk.
Generate ==
  /\ chunks' = [c \in MapChunks |-> Gathered(c)]
  /\ UNCHANGED <<profile, hashes>>

\* ensure_generated_chunk: a chunk that is there stays as it is.  (max_height_ is
\* left out.)
EnsureGeneratedChunk(c) ==
  /\ chunks' = Emplace(chunks, c, Gathered(c))
  /\ UNCHANGED <<profile, hashes>>

RemoveChunk(c) ==
  /\ chunks' = Erase(chunks, {c})
  /\ UNCHANGED <<profile, hashes>>

Next ==
  \/ Generate
  \/ \E c \in Chunks : EnsureGeneratedChunk(c) \/ RemoveChunk(c)

Spec == Init /\ [][Next]_vars

-----------------------------------------------------------------------------
(* Properties *)

AllCandidates == UNION {Candidate(c) : c \in DOMAIN hashes}
Survivors == {p \in AllCandidates : SurvivesSpacing(p)}

\* The columns of the map a structure has in a chunk: set_block_if_in_chunk
\* keeps the others out.
ColumnsIn(p, chunk) ==
  {k \in (p.x - MaxRadius .. p.x + MaxRadius) \X (p.z - MaxRadius .. p.z + MaxRadius) :
     ChunkOf(k) = chunk /\ Covers(p, k)}

\* The corner of an outpost and of ruins: farther from the middle than the
\* radius the code uses for them, so that a chunk that holds nothing else of
\* the structure does not stamp it.
IsCorner(column, p) ==
  Distance2(p, [x |-> column[1], z |-> column[2]]) > Square(p.radius)

\* No two places of interest that get built are nearer to each other than
\* min_poi_spacing_units (survives_spacing looks at some cells around only, and
\* a POI may yield to one that yields itself), and all stay in their cell.  The
\* spacing is promised only while its arithmetic fits an int.
PoisAreSpaced ==
  /\ SpacingFits =>
       \A p, q \in Survivors :
         p # q => Distance2(p, q) >= Square(profile.min_poi_spacing_units)
  /\ \A p \in AllCandidates :
       <<p.x \div CellSize(profile), p.z \div CellSize(profile)>> = p.cell

\* A chunk made on its own shows what it would show in a world stamped as a
\* whole: the same structures over each other in the same order, whatever was
\* generated or removed before, in the server or in a client.  Only the corner
\* column of a structure may be missing, and only where the corner is all the
\* chunk has of it.  (As long as who survives is told without overflow.)
ChunksMatchTheWhole ==
  SpacingFits =>
    \A c \in DOMAIN chunks :
      LET stamps == chunks[c]
      IN /\ Range(stamps) \subseteq Survivors
         /\ \A i, j \in DOMAIN stamps : i < j => StampedBefore(stamps[i], stamps[j])
         /\ \A p \in Survivors :
              ColumnsIn(p, c) # {} =>
                (p \in Range(stamps) <=> \E k \in ColumnsIn(p, c) : ~IsCorner(k, p))
=============================================================================
