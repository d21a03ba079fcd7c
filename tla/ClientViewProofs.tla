-------------------------- MODULE ClientViewProofs --------------------------
(***************************************************************************)
(* What a client makes of the server, of any size: the world it generates, *)
(* where it finds the server, and what it is shown of the match.           *)
(*                                                                         *)
(* The world (WorldGeneration): for any set of cells, any hashes, any      *)
(* profile, however far out of range, and any chunks.  Places keep apart   *)
(* because survives_spacing looks at every cell that has a place near      *)
(* enough (BothLook), and because of two places of different cells one     *)
(* ranks lower (OneRanksLower): they cannot both stand.  Chunks agree      *)
(* because gather_chunk_candidates looks at every cell whose place reaches *)
(* the chunk (GatherReaches), and because the order of the stamps is total *)
(* (SortedIsSorted): what a chunk gets depends on nothing but the seed and *)
(* the profile.                                                            *)
(*                                                                         *)
(* Where the server is found (EndpointPublication): for any servers and    *)
(* any number of starts.  As long as no two were busy with the files at a  *)
(* time, who is busy finds them as it left them (Undisturbed); as long as  *)
(* none was killed, what is there belongs to somebody who is on its way to *)
(* take it away (LeftToSomebody).                                          *)
(*                                                                         *)
(* What is shown (EventFeed): for any snapshot interval, any health, and   *)
(* as many shots, ticks and packets under way as one likes.  The phase,    *)
(* the coins and the health are shown, or the last packet on its way that  *)
(* tells of them tells them right (PhaseOnItsWay, StateOnItsWay).  A hit   *)
(* is shown once although the ring of signatures forgets: hits come        *)
(* interval by interval (HitsInOrder), so what fell out of the ring is     *)
(* older than all in it (RingInOrder), and there are no more hits in an    *)
(* interval than the ring holds (FewHits).                                 *)
(***************************************************************************)
EXTENDS WorldGeneration, EndpointPublication, EventFeed,
        FiniteSetTheorems, WellFoundedInduction, TLAPS

\* The larger and the smaller of two numbers.
LEMMA LargerOfTwo ==
  ASSUME NEW a \in Int, NEW b \in Int
  PROVE  Max({a, b}) = IF a >= b THEN a ELSE b
<1> DEFINE larger == IF a >= b THEN a ELSE b
<1>1. larger \in {a, b} /\ \A y \in {a, b} : larger >= y
  OBVIOUS
<1>2. \A x \in {a, b} : (\A y \in {a, b} : x >= y) => x = larger
  OBVIOUS
<1> HIDE DEF larger
<1>3. Max({a, b}) = larger
  BY <1>1, <1>2 DEF Max
<1> QED
  BY <1>3 DEF larger

\* And the smaller one.
LEMMA SmallerOfTwo ==
  ASSUME NEW a \in Int, NEW b \in Int
  PROVE  Min({a, b}) = IF a <= b THEN a ELSE b
<1> DEFINE smaller == IF a <= b THEN a ELSE b
<1>1. smaller \in {a, b} /\ \A y \in {a, b} : smaller <= y
  OBVIOUS
<1>2. \A x \in {a, b} : (\A y \in {a, b} : x <= y) => x = smaller
  OBVIOUS
<1> HIDE DEF smaller
<1>3. Min({a, b}) = smaller
  BY <1>1, <1>2 DEF Min
<1> QED
  BY <1>3 DEF smaller

\* The quotient is the number whose interval of b holds a.
LEMMA DivisionBrackets ==
  ASSUME NEW a \in Int, NEW b \in Nat \ {0}
  PROVE  a \div b \in Int /\ b * (a \div b) <= a /\ a < b * (a \div b) + b
  BY SMTT(30)

\* And only that number's.
LEMMA DivisionUnique ==
  ASSUME NEW a \in Int, NEW b \in Nat \ {0}, NEW q \in Int,
         b * q <= a, a < b * q + b
  PROVE  a \div b = q
  BY SMTT(30)

\* Squares grow with the number.
LEMMA SquareOrder ==
  ASSUME NEW a \in Int, NEW b \in Nat, a <= b, -b <= a
  PROVE  Square(a) \in Nat /\ Square(a) <= Square(b)
  BY SMTT(30) DEF Square

\* A remainder is smaller than the divisor.
LEMMA Remainder ==
  ASSUME NEW a \in Nat, NEW b \in Nat \ {0}
  PROVE  a % b \in 0 .. b - 1
  BY SMTT(30)

-----------------------------------------------------------------------------
(* The POI of a cell *)

\* What sanitize_world_generation_profile leaves of a profile.
SaneProfile ==
  /\ profile.cell_size_chunks \in Nat \ {0}
  /\ profile.jitter_units \in 0 .. ((profile.cell_size_chunks * ChunkSize) \div 2) - 1
  /\ profile.min_poi_spacing_units \in Nat
  /\ profile.poi_types \in (SUBSET PoiTypes) \ {{}}

HashesTyped == DOMAIN hashes \subseteq Cells /\ hashes \in [DOMAIN hashes -> CellHashes]


\* sanitize_profile makes a usable profile of any.
LEMMA SanitizedIsSane ==
  ASSUME NEW prof \in Profiles, profile = Sanitized(prof)
  PROVE  SaneProfile
<1> DEFINE cells == IF prof.cell_size_chunks <= 0 THEN 4 ELSE prof.cell_size_chunks
           jitter == IF prof.jitter_units < 0 THEN 24 ELSE prof.jitter_units
           most == ((cells * ChunkSize) \div 2) - 1
           spacing == IF prof.min_poi_spacing_units < 0 THEN 96
                      ELSE prof.min_poi_spacing_units
           types == IF prof.poi_types = {} THEN {"outpost"} ELSE prof.poi_types
<1>1. prof \in [enabled : BOOLEAN, cell_size_chunks : Int, jitter_units : Int,
                min_poi_spacing_units : Int, poi_types : SUBSET PoiTypes]
  BY GenerationAssumption
<1>2. /\ cells \in Nat \ {0} /\ jitter \in Nat /\ spacing \in Nat
      /\ types \in (SUBSET PoiTypes) \ {{}}
  BY <1>1 DEF PoiTypes
<1>3. profile = [prof EXCEPT !.cell_size_chunks = cells,
                             !.jitter_units = Min({jitter, most}),
                             !.min_poi_spacing_units = spacing,
                             !.poi_types = types]
  BY DEF Sanitized
<1> HIDE DEF cells, jitter, spacing, types
<1>4. most \in Nat
  BY <1>2 DEF ChunkSize
<1> HIDE DEF most
<1>5. Min({jitter, most}) \in 0 .. most
  BY <1>2, <1>4, SmallerOfTwo
<1>6. /\ profile.cell_size_chunks = cells
      /\ profile.jitter_units = Min({jitter, most})
      /\ profile.min_poi_spacing_units = spacing
      /\ profile.poi_types = types
  BY <1>1, <1>3
<1> QED
  BY <1>2, <1>5, <1>6 DEF SaneProfile, most

\* The size of a cell is even, and the jitter is less than half of it.
LEMMA SizeOfCells ==
  ASSUME SaneProfile
  PROVE  /\ CellSize(profile) = profile.cell_size_chunks * ChunkSize
         /\ CellSize(profile) \in Nat \ {0}
         /\ profile.jitter_units \in Nat
         /\ profile.jitter_units <= (CellSize(profile) \div 2) - 1
         /\ 2 * (CellSize(profile) \div 2) = CellSize(profile)
<1> DEFINE cells == profile.cell_size_chunks
<1>1. cells \in Nat \ {0}
  BY DEF SaneProfile
<1> HIDE DEF cells
<1>2. Max({1, cells}) = cells
  BY <1>1, LargerOfTwo
<1>3. CellSize(profile) = cells * ChunkSize
  BY <1>2 DEF CellSize, cells
<1>4. cells * ChunkSize \in Nat \ {0} /\ (cells * ChunkSize) \div 2 = cells * 16
      /\ 2 * ((cells * ChunkSize) \div 2) = cells * ChunkSize
  BY <1>1 DEF ChunkSize
<1> QED
  BY <1>3, <1>4 DEF SaneProfile, cells

\* A profile leaves a type to choose, and only types there are.
LEMMA TypesLeft ==
  ASSUME SaneProfile, NEW h \in Nat
  PROVE  EnabledTypes[(h % Len(EnabledTypes)) + 1] \in PoiTypes
<1> DEFINE n == Len(EnabledTypes)
<1>1. EnabledTypes \in Seq(PoiTypes) /\ n \in Nat \ {0}
  <2>1. profile.poi_types \subseteq PoiTypes /\ profile.poi_types # {}
    BY DEF SaneProfile
  <2> DEFINE types == profile.poi_types
             one == IF "outpost" \in types THEN <<"outpost">> ELSE <<>>
             two == IF "ruins" \in types THEN <<"ruins">> ELSE <<>>
             three == IF "loot_shrine" \in types THEN <<"loot_shrine">> ELSE <<>>
  <2>2. one \in Seq(PoiTypes) /\ two \in Seq(PoiTypes) /\ three \in Seq(PoiTypes)
    <3>1. \A t \in PoiTypes : <<t>> \in Seq(PoiTypes)
      OBVIOUS
    <3>2. <<>> \in Seq(PoiTypes)
      OBVIOUS
    <3> QED
      BY <3>1, <3>2, Zenon DEF PoiTypes
  <2>3. Len(one) = 1 \/ Len(two) = 1 \/ Len(three) = 1
    BY <2>1 DEF PoiTypes
  <2>4. EnabledTypes = one \o two \o three
    BY DEF EnabledTypes
  <2> HIDE DEF one, two, three
  <2>5. EnabledTypes \in Seq(PoiTypes)
    BY <2>2, <2>4
  <2>6. n = Len(one) + Len(two) + Len(three)
    BY <2>2, <2>4
  <2> QED
    BY <2>2, <2>3, <2>5, <2>6
<1>2. h % n \in 0 .. n - 1
  BY <1>1, Remainder
<1>3. (h % n) + 1 \in 1 .. n
  BY <1>1, <1>2
<1> QED
  BY <1>1, <1>3

\* A candidate stays strictly inside its cell.
LEMMA OffsetInCell ==
  ASSUME SaneProfile, NEW i \in Nat, NEW h \in Nat
  PROVE  LET size == CellSize(profile)
             at == i * size + (size \div 2) + SignedRange(h, profile.jitter_units)
         IN  at \in Nat /\ size * i < at /\ at < size * i + size
<1> DEFINE size == CellSize(profile)
           half == size \div 2
           jitter == profile.jitter_units
           offset == SignedRange(h, jitter)
           base == size * i
<1>1. size \in Nat \ {0} /\ jitter \in Nat /\ jitter <= half - 1 /\ 2 * half = size
      /\ half \in Int
  BY SizeOfCells
<1>2. 2 * jitter + 1 \in Nat \ {0}
  BY <1>1
<1>3. h % (2 * jitter + 1) \in 0 .. 2 * jitter
  <2>1. h % (2 * jitter + 1) \in 0 .. (2 * jitter + 1) - 1
    BY <1>2, Remainder
  <2> QED
    BY <1>1, <2>1
<1>4. offset \in -jitter .. jitter
  BY <1>1, <1>3 DEF SignedRange
<1>5. base \in Nat /\ i * size = base
  BY <1>1, SMTT(30)
<1> HIDE DEF size, half, jitter, offset, base
<1>6. LET at == base + half + offset
      IN  at \in Nat /\ base < at /\ at < base + size
  BY <1>1, <1>4, <1>5
<1> QED
  BY <1>5, <1>6 DEF size, half, jitter, offset, base

\* The candidate of a cell: what it is, and that its cell is found again from where
\* it stands.
Placed(p, size) ==
  /\ p.x \in Nat /\ size * p.cell[1] < p.x /\ p.x < size * p.cell[1] + size
  /\ p.z \in Nat /\ size * p.cell[2] < p.z /\ p.z < size * p.cell[2] + size

\* build_candidate puts the place of a cell into that cell.
LEMMA CandidateOf ==
  ASSUME SaneProfile, HashesTyped, NEW c, NEW p \in Candidate(c)
  PROVE  /\ c \in DOMAIN hashes /\ p.cell = c /\ Candidate(c) = {p}
         /\ c \in Nat \X Nat
         /\ Placed(p, CellSize(profile))
         /\ p.type \in PoiTypes /\ p.radius = RadiusOf[p.type] /\ p.rank \in Nat
<1> DEFINE hash == hashes[c]
           type == EnabledTypes[(hash.type % Len(EnabledTypes)) + 1]
           At(axis, h) == c[axis] * CellSize(profile) + (CellSize(profile) \div 2)
                            + SignedRange(h, profile.jitter_units)
           q == [type |-> type, x |-> At(1, hash.x), z |-> At(2, hash.z),
                 cell |-> c, radius |-> RadiusOf[type], rank |-> hash.rank]
<1>1. c \in DOMAIN hashes /\ Candidate(c) = {q}
  BY DEF Candidate
<1>2. c \in Nat \X Nat /\ hash \in [x : Nat, z : Nat, type : Nat, rank : Nat]
  BY <1>1, GenerationAssumption DEF HashesTyped
<1>3. type \in PoiTypes
  BY <1>2, TypesLeft
<1>4. /\ At(1, hash.x) \in Nat
      /\ CellSize(profile) * c[1] < At(1, hash.x)
      /\ At(1, hash.x) < CellSize(profile) * c[1] + CellSize(profile)
  BY <1>2, OffsetInCell
<1>5. /\ At(2, hash.z) \in Nat
      /\ CellSize(profile) * c[2] < At(2, hash.z)
      /\ At(2, hash.z) < CellSize(profile) * c[2] + CellSize(profile)
  BY <1>2, OffsetInCell
<1> HIDE DEF type, At, hash
<1>6. /\ p = q /\ p.type = type /\ p.x = At(1, hash.x) /\ p.z = At(2, hash.z)
      /\ p.cell = c /\ p.radius = RadiusOf[type] /\ p.rank = hash.rank
  BY <1>1
<1> HIDE DEF q
<1> QED
  BY <1>1, <1>2, <1>3, <1>4, <1>5, <1>6 DEF Placed

-----------------------------------------------------------------------------
(* Spacing *)

\* POIs of cells that are farther apart than the search reaches are far apart.
LEMMA FarCellsAreFar ==
  ASSUME NEW size \in Nat \ {0}, NEW spacing \in Nat,
         NEW i \in Nat, NEW j \in Nat, NEW x \in Nat, NEW y \in Nat,
         size * i < x, x < size * i + size, size * j < y, y < size * j + size,
         i + (spacing \div size) + 2 < j
  PROVE  spacing < y - x
<1> DEFINE q == spacing \div size
           k == j - (i + 1)
<1>1. q \in Int /\ spacing < size * q + size
  BY DivisionBrackets
<1>2. k \in Int /\ q + 2 <= k
  BY <1>1
<1>3. size * k = size * j - size * i - size
  BY SMTT(30)
<1> HIDE DEF q, k
<1>4. size * (q + 2) <= size * k
  BY <1>1, <1>2, SMTT(30)
<1>5. size * (q + 2) = size * q + 2 * size
  BY <1>1, SMTT(30)
<1>6. size * q \in Int /\ size * k \in Int /\ size * i \in Int /\ size * j \in Int
  BY <1>1, <1>2, SMTT(30)
<1> DEFINE sq == size * q
           sk == size * k
           si == size * i
           sj == size * j
<1> HIDE DEF sq, sk, si, sj
<1> QED
  BY <1>1, <1>3, <1>4, <1>5, <1>6 DEF sq, sk, si, sj

\* The reach of the search, in cells.
LEMMA SpacingReachIs ==
  ASSUME SaneProfile
  PROVE  /\ SpacingReach \in Nat
         /\ SpacingReach = (profile.min_poi_spacing_units \div CellSize(profile)) + 2
<1> DEFINE q == profile.min_poi_spacing_units \div CellSize(profile)
<1>1. q \in Nat
  <2>1. profile.min_poi_spacing_units \in Nat /\ CellSize(profile) \in Nat \ {0}
    BY SizeOfCells DEF SaneProfile
  <2> QED
    BY <2>1, SMTT(30)
<1> HIDE DEF q
<1>2. Max({1, q + 2}) = q + 2
  BY <1>1, LargerOfTwo
<1> QED
  BY <1>1, <1>2 DEF SpacingReach, q

\* What is near is looked at.
LEMMA NearIsSeen ==
  ASSUME SaneProfile, NEW i \in Nat, NEW j \in Nat, NEW x \in Nat, NEW y \in Nat,
         CellSize(profile) * i < x, x < CellSize(profile) * i + CellSize(profile),
         CellSize(profile) * j < y, y < CellSize(profile) * j + CellSize(profile),
         x - y < profile.min_poi_spacing_units, y - x < profile.min_poi_spacing_units
  PROVE  j - i \in -SpacingReach .. SpacingReach
<1> DEFINE size == CellSize(profile)
           spacing == profile.min_poi_spacing_units
           reach == SpacingReach
<1>1. /\ size \in Nat \ {0} /\ spacing \in Nat
      /\ reach \in Nat /\ reach = (spacing \div size) + 2
  BY SizeOfCells, SpacingReachIs DEF SaneProfile
<1> HIDE DEF size, spacing, reach
<1>2. i + reach < j => spacing < y - x
  <2> SUFFICES ASSUME i + reach < j PROVE spacing < y - x
    OBVIOUS
  <2>1. i + (spacing \div size) + 2 < j
    BY <1>1
  <2> QED
    BY <1>1, <2>1, FarCellsAreFar DEF size, spacing
<1>3. j + reach < i => spacing < x - y
  <2> SUFFICES ASSUME j + reach < i PROVE spacing < x - y
    OBVIOUS
  <2>1. j + (spacing \div size) + 2 < i
    BY <1>1
  <2> QED
    BY <1>1, <2>1, FarCellsAreFar DEF size, spacing
<1>4. ~(spacing < y - x) /\ ~(spacing < x - y)
  BY <1>1 DEF spacing
<1> QED
  BY <1>1, <1>2, <1>3, <1>4 DEF reach

\* Two numbers whose squares add up to less than that of a third are less than it.
LEMMA LegsAreShort ==
  ASSUME NEW a \in Int, NEW b \in Int, NEW s \in Nat, a * a + b * b < s * s
  PROVE  a < s /\ -a < s /\ b < s /\ -b < s
  BY SMTT(30)

\* Distances are numbers, the same both ways.
LEMMA DistanceTyped ==
  ASSUME NEW p, NEW q, p.x \in Int, p.z \in Int, q.x \in Int, q.z \in Int
  PROVE  Distance2(p, q) \in Nat /\ Distance2(q, p) = Distance2(p, q)
<1> DEFINE a == p.x - q.x
           b == p.z - q.z
<1>1. a \in Int /\ b \in Int /\ q.x - p.x = -a /\ q.z - p.z = -b
  OBVIOUS
<1> HIDE DEF a, b
<1>2. a * a \in Nat /\ b * b \in Nat /\ (-a) * (-a) = a * a /\ (-b) * (-b) = b * b
  BY <1>1, SMTT(30)
<1>3. Distance2(p, q) = a * a + b * b /\ Distance2(q, p) = (-a) * (-a) + (-b) * (-b)
  BY <1>1 DEF Distance2, Square, a, b
<1> QED
  BY <1>2, <1>3

\* Of two POIs that are too near to each other, each looks at the other's cell.
LEMMA BothLook ==
  ASSUME SaneProfile, HashesTyped, NEW c, NEW d, c # d,
         NEW p \in Candidate(c), NEW q \in Candidate(d),
         Distance2(p, q) < Square(profile.min_poi_spacing_units),
         SurvivesSpacing(p), profile.min_poi_spacing_units > 0
  PROVE  ~RankLess(q, p)
<1> DEFINE spacing == profile.min_poi_spacing_units
           size == CellSize(profile)
           reach == SpacingReach
           near == {<<p.cell[1] + dx, p.cell[2] + dz>> : dx, dz \in -reach .. reach}
                     \ {p.cell}
<1>1. /\ p.cell = c /\ q.cell = d /\ c \in Nat \X Nat /\ d \in Nat \X Nat
      /\ Placed(p, size) /\ Placed(q, size)
  BY CandidateOf
<1>2. spacing \in Nat
  BY DEF SaneProfile
<1>3. /\ p.x - q.x < spacing /\ q.x - p.x < spacing
      /\ p.z - q.z < spacing /\ q.z - p.z < spacing
  <2> DEFINE a == p.x - q.x
             b == p.z - q.z
  <2>1. a \in Int /\ b \in Int /\ -a = q.x - p.x /\ -b = q.z - p.z
    BY <1>1 DEF Placed
  <2>2. a * a + b * b < spacing * spacing
    BY DEF Distance2, Square
  <2> HIDE DEF a, b, spacing
  <2>3. a < spacing /\ -a < spacing /\ b < spacing /\ -b < spacing
    BY <1>2, <2>1, <2>2, LegsAreShort
  <2> QED
    BY <2>1, <2>3 DEF a, b
<1>4. d[1] - c[1] \in -reach .. reach
  BY <1>1, <1>3, NearIsSeen DEF Placed
<1>5. d[2] - c[2] \in -reach .. reach
  BY <1>1, <1>3, NearIsSeen DEF Placed
<1>6. d \in near
  <2>1. c[1] + (d[1] - c[1]) = d[1] /\ c[2] + (d[2] - c[2]) = d[2] /\ d = <<d[1], d[2]>>
    BY <1>1
  <2>2. d = <<c[1] + (d[1] - c[1]), c[2] + (d[2] - c[2])>>
    BY <2>1
  <2> HIDE DEF reach
  <2> QED
    BY <1>1, <1>4, <1>5, <2>2
<1>7. spacing <= 0 \/ \A r \in UNION {Candidate(e) : e \in near} :
                        Distance2(p, r) < Square(spacing) => ~RankLess(r, p)
  BY DEF SurvivesSpacing
<1>8. ~(spacing <= 0)
  BY <1>2
<1> HIDE DEF near, spacing
<1> QED
  BY <1>6, <1>7, <1>8 DEF spacing

\* Of two POIs of different cells one ranks lower, even if their hashes agree.
LEMMA OneRanksLower ==
  ASSUME SaneProfile, HashesTyped, NEW c, NEW d, c # d,
         NEW p \in Candidate(c), NEW q \in Candidate(d)
  PROVE  RankLess(p, q) \/ RankLess(q, p)
<1>1. /\ p.cell = c /\ q.cell = d /\ c \in Nat \X Nat /\ d \in Nat \X Nat
      /\ p.rank \in Nat /\ q.rank \in Nat
  BY CandidateOf
<1>2. c[1] # d[1] \/ c[2] # d[2]
  BY <1>1
<1>3. c[1] \in Nat /\ c[2] \in Nat /\ d[1] \in Nat /\ d[2] \in Nat
  BY <1>1
<1> QED
  BY <1>1, <1>2, <1>3 DEF RankLess

\* Of two places that are built neither is too near to the other.
LEMMA SpacingHolds ==
  ASSUME SaneProfile, HashesTyped
  PROVE  PoisAreSpaced
<1>1. ASSUME NEW p \in Survivors, NEW q \in Survivors, p # q
      PROVE  Distance2(p, q) >= Square(profile.min_poi_spacing_units)
  <2> DEFINE spacing == profile.min_poi_spacing_units
  <2>1. PICK c \in DOMAIN hashes : p \in Candidate(c)
    BY DEF Survivors, AllCandidates
  <2>2. PICK d \in DOMAIN hashes : q \in Candidate(d)
    BY DEF Survivors, AllCandidates
  <2>3. c # d
    BY <1>1, <2>1, <2>2, CandidateOf
  <2>4. SurvivesSpacing(p) /\ SurvivesSpacing(q)
    BY DEF Survivors
  <2>5. /\ p.x \in Int /\ p.z \in Int /\ q.x \in Int /\ q.z \in Int
    BY <2>1, <2>2, CandidateOf DEF Placed
  <2>6. Distance2(p, q) \in Nat /\ Distance2(q, p) = Distance2(p, q)
    BY <2>5, DistanceTyped
  <2>7. spacing \in Nat
    BY DEF SaneProfile
  <2>8. Square(spacing) \in Nat /\ (spacing = 0 => Square(spacing) = 0)
    BY <2>7, SMTT(30) DEF Square
  <2>9. CASE spacing = 0
    BY <2>6, <2>8, <2>9
  <2>10. CASE spacing > 0
    <3>1. Distance2(p, q) < Square(spacing) => ~RankLess(q, p)
      BY <2>1, <2>2, <2>3, <2>4, <2>10, BothLook
    <3>2. Distance2(q, p) < Square(spacing) => ~RankLess(p, q)
      BY <2>1, <2>2, <2>3, <2>4, <2>10, BothLook
    <3>3. RankLess(p, q) \/ RankLess(q, p)
      BY <2>1, <2>2, <2>3, OneRanksLower
    <3> HIDE DEF spacing
    <3>4. ~(Distance2(p, q) < Square(spacing))
      BY <2>6, <3>1, <3>2, <3>3
    <3> QED
      BY <2>6, <2>8, <3>4 DEF spacing
  <2> QED
    BY <2>7, <2>9, <2>10
<1>2. ASSUME NEW p \in AllCandidates
      PROVE  <<p.x \div CellSize(profile), p.z \div CellSize(profile)>> = p.cell
  <2> DEFINE size == CellSize(profile)
  <2>1. PICK c \in DOMAIN hashes : p \in Candidate(c)
    BY DEF AllCandidates
  <2>2. p.cell = c /\ c \in Nat \X Nat /\ Placed(p, size)
    BY <2>1, CandidateOf
  <2>3. size \in Nat \ {0}
    BY SizeOfCells
  <2> HIDE DEF size
  <2>4. /\ c[1] \in Int /\ p.x \in Int /\ size * c[1] <= p.x /\ p.x < size * c[1] + size
        /\ c[2] \in Int /\ p.z \in Int /\ size * c[2] <= p.z /\ p.z < size * c[2] + size
    <3>1. c[1] \in Nat /\ c[2] \in Nat
      BY <2>2
    <3>2. size * c[1] \in Nat /\ size * c[2] \in Nat
      BY <2>3, <3>1, SMTT(30)
    <3> QED
      BY <2>2, <3>1, <3>2 DEF Placed
  <2>5. p.x \div size = c[1]
    BY <2>3, <2>4, DivisionUnique
  <2>6. p.z \div size = c[2]
    BY <2>3, <2>4, DivisionUnique
  <2> QED
    BY <2>2, <2>5, <2>6 DEF size
<1> QED
  BY <1>1, <1>2 DEF PoisAreSpaced

-----------------------------------------------------------------------------
(* The order of the stamps *)

\* A set of natural numbers has a least one: of the intervals 1 .. n that its
\* numbers bound, one contains no other.
LEMMA LeastNumber ==
  ASSUME NEW T, T \subseteq Nat, T # {}
  PROVE  \E n \in T : \A m \in T : n <= m
<1> DEFINE R == StrictSubsetOrdering(Nat)
           below == {1 .. n : n \in T}
<1>1. IsWellFoundedOn(R, FiniteSubsetsOf(Nat))
  BY FS_StrictSubsetOrderingWellFounded
<1>2. below \subseteq FiniteSubsetsOf(Nat)
  <2> SUFFICES ASSUME NEW n \in T PROVE 1 .. n \in FiniteSubsetsOf(Nat)
    OBVIOUS
  <2>1. IsFiniteSet(1 .. n)
    BY FS_Interval
  <2> QED
    BY <2>1 DEF FiniteSubsetsOf
<1>3. below # {}
  OBVIOUS
<1> HIDE DEF below, R
<1>4. PICK x \in below : \A y \in below : ~(<<y, x>> \in R)
  BY <1>1, <1>2, <1>3, WFMin
<1>5. PICK n \in T : x = 1 .. n
  BY DEF below
<1>6. ASSUME NEW m \in T PROVE n <= m
  <2> SUFFICES ASSUME m < n PROVE FALSE
    OBVIOUS
  <2>1. 1 .. m \in below
    BY DEF below
  <2>2. 1 .. m \in SUBSET Nat /\ 1 .. n \in SUBSET Nat
    OBVIOUS
  <2>3. 1 .. m \subseteq 1 .. n /\ n \in 1 .. n /\ n \notin 1 .. m
    OBVIOUS
  <2>4. 1 .. m # 1 .. n
    BY <2>3
  <2>5. <<1 .. m, 1 .. n>> \in R
    BY <2>2, <2>3, <2>4 DEF R, StrictSubsetOrdering
  <2> QED
    BY <1>4, <1>5, <2>1, <2>5
<1> QED
  BY <1>6

\* POIs at different places.
Apart(pois) ==
  /\ IsFiniteSet(pois)
  /\ \A p \in pois : p.x \in Int /\ p.z \in Int
  /\ \A p, q \in pois : p # q => p.x # q.x \/ p.z # q.z

IsInStampOrder(s, pois) ==
  /\ s \in [1 .. Cardinality(pois) -> pois]
  /\ Range(s) = pois
  /\ \A i, j \in 1 .. Cardinality(pois) : i < j => StampedBefore(s[i], s[j])

\* Of finitely many POIs at different places one is stamped last.
LEMMA LastStamp ==
  ASSUME NEW pois, Apart(pois), pois # {}
  PROVE  \E p \in pois : \A q \in pois \ {p} : StampedBefore(q, p)
<1> DEFINE Behind(p) == {q \in pois : StampedBefore(p, q)}
           T == {Cardinality(Behind(p)) : p \in pois}
<1>1. \A p \in pois : IsFiniteSet(Behind(p)) /\ Cardinality(Behind(p)) \in Nat
  <2> TAKE p \in pois
  <2>1. IsFiniteSet(Behind(p))
    BY FS_Subset DEF Apart
  <2> QED
    BY <2>1, FS_CardinalityType
<1>2. T \subseteq Nat /\ T # {}
  BY <1>1
<1>3. PICK n \in T : \A m \in T : n <= m
  BY <1>2, LeastNumber
<1>4. PICK p \in pois : n = Cardinality(Behind(p))
  OBVIOUS
<1>5. ASSUME NEW q \in pois \ {p} PROVE StampedBefore(q, p)
  <2> SUFFICES ASSUME ~StampedBefore(q, p) PROVE FALSE
    OBVIOUS
  <2>1. /\ p.x \in Int /\ p.z \in Int /\ q.x \in Int /\ q.z \in Int
        /\ p.x # q.x \/ p.z # q.z
    BY DEF Apart
  <2>2. StampedBefore(p, q) /\ ~StampedBefore(q, q)
    BY <2>1 DEF StampedBefore
  <2>3. \A r \in pois : StampedBefore(q, r) => StampedBefore(p, r)
    <3> TAKE r \in pois
    <3>1. r.x \in Int /\ r.z \in Int
      BY DEF Apart
    <3> QED
      BY <2>1, <2>2, <3>1 DEF StampedBefore
  <2>4. Behind(q) \subseteq Behind(p) /\ q \in Behind(p) /\ q \notin Behind(q)
    BY <2>2, <2>3
  <2>5. Behind(q) # Behind(p) /\ IsFiniteSet(Behind(p))
    BY <1>1, <2>4
  <2> HIDE DEF Behind
  <2>6. Cardinality(Behind(q)) < Cardinality(Behind(p))
    BY <1>1, <2>4, <2>5, FS_Subset
  <2>7. n <= Cardinality(Behind(q))
    BY <1>3
  <2> QED
    BY <1>1, <1>4, <2>6, <2>7
<1> QED
  BY <1>5

\* Finitely many POIs at different places can be put into the order of the stamps.
LEMMA SortedExists ==
  ASSUME NEW pois, Apart(pois)
  PROVE  \E s : IsInStampOrder(s, pois)
<1> DEFINE Bad == {Cardinality(some) : some \in
                     {t \in SUBSET pois : ~ \E s : IsInStampOrder(s, t)}}
<1>1. \A some \in SUBSET pois : /\ IsFiniteSet(some) /\ Cardinality(some) \in Nat
                                /\ Apart(some)
  <2> TAKE some \in SUBSET pois
  <2>1. IsFiniteSet(some)
    BY FS_Subset DEF Apart
  <2> QED
    BY <2>1, FS_CardinalityType DEF Apart
<1>2. CASE Bad = {}
  <2>1. pois \in SUBSET pois
    OBVIOUS
  <2> QED
    BY <1>2, <2>1
<1>3. CASE Bad # {}
  <2>1. Bad \subseteq Nat
    BY <1>1
  <2>2. PICK n \in Bad : \A m \in Bad : n <= m
    BY <1>3, <2>1, LeastNumber
  <2>3. PICK some \in SUBSET pois : n = Cardinality(some) /\ ~ \E s : IsInStampOrder(s, some)
    OBVIOUS
  <2>4. CASE some = {}
    <3>1. Cardinality({}) = 0
      BY FS_EmptySet
    <3>2. IsInStampOrder(<<>>, {})
      BY <3>1 DEF IsInStampOrder, Range
    <3> QED
      BY <2>3, <2>4, <3>2
  <2>5. CASE some # {}
    <3>1. PICK p \in some : \A q \in some \ {p} : StampedBefore(q, p)
      BY <1>1, <2>5, LastStamp
    <3> DEFINE rest == some \ {p}
               k == Cardinality(rest)
    <3>2. rest \in SUBSET pois /\ k \in Nat /\ n = k + 1
      <4>1. IsFiniteSet(some) /\ rest \in SUBSET pois
        BY <1>1
      <4>2. Cardinality(some \ {p}) = Cardinality(some) - 1
        BY <4>1, FS_RemoveElement
      <4> QED
        BY <1>1, <2>3, <4>1, <4>2
    <3>3. PICK s : IsInStampOrder(s, rest)
      <4> SUFFICES ASSUME ~ \E s : IsInStampOrder(s, rest) PROVE FALSE
        OBVIOUS
      <4>1. k \in Bad
        BY <3>2
      <4> HIDE DEF Bad, k
      <4>2. n <= k
        BY <2>2, <4>1
      <4> QED
        BY <3>2, <4>2
    <3> DEFINE longer == [i \in 1 .. k + 1 |-> IF i = k + 1 THEN p ELSE s[i]]
    <3>4. /\ s \in [1 .. k -> rest] /\ Range(s) = rest
          /\ \A i, j \in 1 .. k : i < j => StampedBefore(s[i], s[j])
      BY <3>3 DEF IsInStampOrder
    <3> HIDE DEF k
    <3>5. \A i \in 1 .. k + 1 : i = k + 1 \/ i \in 1 .. k
      BY <3>2
    <3>6. longer \in [1 .. k + 1 -> some]
      BY <3>4, <3>5
    <3>7. Range(longer) = some
      <4>1. ASSUME NEW q \in some PROVE \E i \in 1 .. k + 1 : longer[i] = q
        <5>1. CASE q = p
          <6>1. k + 1 \in 1 .. k + 1 /\ longer[k + 1] = p
            BY <3>2
          <6> QED
            BY <5>1, <6>1
        <5>2. CASE q # p
          <6>1. q \in Range(s)
            BY <3>4, <5>2
          <6>2. PICK i \in 1 .. k : s[i] = q
            BY <3>4, <6>1 DEF Range
          <6>3. i \in 1 .. k + 1 /\ i # k + 1
            BY <3>2
          <6> QED
            BY <6>2, <6>3
        <5> QED
          BY <5>1, <5>2
      <4> HIDE DEF longer
      <4> QED
        BY <3>6, <4>1 DEF Range
    <3>8. ASSUME NEW i \in 1 .. k + 1, NEW j \in 1 .. k + 1, i < j
          PROVE  StampedBefore(longer[i], longer[j])
      <4>1. i \in 1 .. k /\ i # k + 1
        BY <3>2, <3>8
      <4>2. longer[i] = s[i] /\ s[i] \in rest
        BY <3>4, <4>1
      <4>3. CASE j = k + 1
        BY <3>1, <4>2, <4>3
      <4>4. CASE j # k + 1
        <5>1. j \in 1 .. k /\ longer[j] = s[j]
          BY <3>5, <4>4
        <5> QED
          BY <3>4, <3>8, <4>1, <4>2, <5>1
      <4> QED
        BY <4>3, <4>4
    <3> HIDE DEF longer
    <3>9. Cardinality(some) = k + 1
      BY <2>3, <3>2
    <3>10. IsInStampOrder(longer, some)
      BY <3>6, <3>7, <3>8, <3>9 DEF IsInStampOrder
    <3> QED
      BY <2>3, <3>10
  <2> QED
    BY <2>4, <2>5
<1> QED
  BY <1>2, <1>3

\* Sorting puts them into that order.
LEMMA SortedIsSorted ==
  ASSUME NEW pois, Apart(pois)
  PROVE  IsInStampOrder(Sorted(pois), pois)
<1> DEFINE n == Cardinality(pois)
           Fits(s) == /\ Range(s) = pois
                      /\ \A i, j \in DOMAIN s : i < j => StampedBefore(s[i], s[j])
<1>1. PICK s : IsInStampOrder(s, pois)
  BY SortedExists
<1>2. s \in [1 .. n -> pois] /\ Fits(s)
  BY <1>1 DEF IsInStampOrder
<1>3. Sorted(pois) = CHOOSE t \in [1 .. n -> pois] : Fits(t)
  BY DEF Sorted
<1> HIDE DEF Fits
<1>4. Sorted(pois) \in [1 .. n -> pois] /\ Fits(Sorted(pois))
  BY <1>2, <1>3
<1> QED
  BY <1>4 DEF IsInStampOrder, Fits

-----------------------------------------------------------------------------
(* Chunks *)

\* The nearest point of an interval is no farther than any other of it.
LEMMA ClampIsNearest ==
  ASSUME NEW n \in Int, NEW low \in Int, NEW high \in Int, low <= high,
         NEW k \in low .. high
  PROVE  /\ Clamp(n, low, high) \in low .. high
         /\ Square(n - Clamp(n, low, high)) \in Nat
         /\ Square(n - Clamp(n, low, high)) <= Square(n - k)
         /\ \A w \in Nat : k - n \in -w .. w => Clamp(n, low, high) - n \in -w .. w
<1> DEFINE lower == IF n <= high THEN n ELSE high
           near == IF low >= lower THEN low ELSE lower
           a == n - near
           b == n - k
<1>1. Min({n, high}) = lower
  BY SmallerOfTwo
<1>2. lower \in Int
  OBVIOUS
<1>3. Clamp(n, low, high) = near
  BY <1>1, <1>2, LargerOfTwo DEF Clamp
<1>4. near \in low .. high /\ a \in Int /\ b \in Int
      /\ (n = near \/ (0 <= a /\ a <= b) \/ (0 <= -a /\ -a <= -b))
  OBVIOUS
<1>5. \A w \in Nat : k - n \in -w .. w => near - n \in -w .. w
  BY <1>4
<1> HIDE DEF near
<1>6. Square(a) \in Nat /\ Square(a) <= Square(b)
  <2>1. CASE n = near
    <3>1. a = 0
      BY <1>4, <2>1
    <3> HIDE DEF a, b
    <3> QED
      BY <1>4, <3>1, SMTT(30) DEF Square
  <2>2. CASE 0 <= a /\ a <= b
    <3> HIDE DEF a, b
    <3> QED
      BY <1>4, <2>2, SMTT(30) DEF Square
  <2>3. CASE 0 <= -a /\ -a <= -b
    <3> HIDE DEF a, b
    <3> QED
      BY <1>4, <2>3, SMTT(30) DEF Square
  <2> QED
    BY <1>4, <2>1, <2>2, <2>3
<1> QED
  BY <1>3, <1>4, <1>5, <1>6

\* The point of a chunk that intersects_chunk measures to.
Nearest(p, c) ==
  [x |-> Clamp(p.x, c[1] * ChunkSize, (c[1] + 1) * ChunkSize - 1),
   z |-> Clamp(p.z, c[2] * ChunkSize, (c[2] + 1) * ChunkSize - 1)]

Column(point) == <<point.x, point.z>>

\* What a structure covers of a chunk it also covers at the nearest column.
LEMMA NearestIsCovered ==
  ASSUME NEW p, p.x \in Int, p.z \in Int, p.type \in PoiTypes,
         NEW c \in Nat \X Nat, NEW k \in ColumnsIn(p, c)
  PROVE  /\ Column(Nearest(p, c)) \in ColumnsIn(p, c)
         /\ Distance2(p, Nearest(p, c)) \in Nat
         /\ Distance2(p, [x |-> k[1], z |-> k[2]]) \in Nat
         /\ Distance2(p, Nearest(p, c)) <= Distance2(p, [x |-> k[1], z |-> k[2]])
<1> DEFINE lowx == c[1] * ChunkSize
           highx == (c[1] + 1) * ChunkSize - 1
           lowz == c[2] * ChunkSize
           highz == (c[2] + 1) * ChunkSize - 1
           nx == Clamp(p.x, lowx, highx)
           nz == Clamp(p.z, lowz, highz)
           near == Column(Nearest(p, c))
<1>1. /\ c[1] \in Nat /\ c[2] \in Nat
      /\ lowx \in Int /\ highx \in Int /\ lowx <= highx /\ highx = lowx + 31
      /\ lowz \in Int /\ highz \in Int /\ lowz <= highz /\ highz = lowz + 31
      /\ lowx = 32 * c[1] /\ lowz = 32 * c[2]
  BY DEF ChunkSize
<1>2. /\ k \in (p.x - MaxRadius .. p.x + MaxRadius) \X (p.z - MaxRadius .. p.z + MaxRadius)
      /\ ChunkOf(k) = c /\ Covers(p, k)
  BY DEF ColumnsIn
<1>3. k[1] \in Int /\ k[2] \in Int /\ k = <<k[1], k[2]>>
  BY <1>2 DEF MaxRadius
<1>4. k[1] \div 32 = c[1] /\ k[2] \div 32 = c[2]
  BY <1>2, <1>1 DEF ChunkOf, ChunkSize
<1>5. k[1] \in lowx .. highx /\ k[2] \in lowz .. highz
  BY <1>1, <1>3, <1>4
<1>6. /\ near = <<nx, nz>> /\ near[1] = nx /\ near[2] = nz
      /\ Nearest(p, c).x = nx /\ Nearest(p, c).z = nz
  BY DEF Nearest, Column
<1> HIDE DEF lowx, highx, lowz, highz
<1>7. /\ nx \in lowx .. highx
      /\ Square(p.x - nx) \in Nat /\ Square(p.x - nx) <= Square(p.x - k[1])
      /\ \A w \in Nat : k[1] - p.x \in -w .. w => nx - p.x \in -w .. w
  <2>1. /\ lowx \in Int /\ highx \in Int /\ lowx <= highx
        /\ p.x \in Int /\ k[1] \in lowx .. highx
    BY <1>1, <1>5, Zenon
  <2> QED
    BY <2>1, ClampIsNearest, Zenon
<1>8. /\ nz \in lowz .. highz
      /\ Square(p.z - nz) \in Nat /\ Square(p.z - nz) <= Square(p.z - k[2])
      /\ \A w \in Nat : k[2] - p.z \in -w .. w => nz - p.z \in -w .. w
  <2>1. /\ lowz \in Int /\ highz \in Int /\ lowz <= highz
        /\ p.z \in Int /\ k[2] \in lowz .. highz
    BY <1>1, <1>5, Zenon
  <2> QED
    BY <2>1, ClampIsNearest, Zenon
<1> HIDE DEF nx, nz, near
<1>9. nx \in Int /\ nz \in Int
  BY <1>1, <1>7, <1>8
<1>10. /\ Square(p.x - k[1]) \in Nat /\ Square(p.z - k[2]) \in Nat
       /\ Square(nx - p.x) = Square(p.x - nx) /\ Square(nz - p.z) = Square(p.z - nz)
       /\ Square(k[1] - p.x) = Square(p.x - k[1]) /\ Square(k[2] - p.z) = Square(p.z - k[2])
  BY <1>3, <1>9, SMTT(30) DEF Square
<1>11. /\ Distance2(p, Nearest(p, c)) = Square(p.x - nx) + Square(p.z - nz)
       /\ Distance2(p, [x |-> k[1], z |-> k[2]]) = Square(p.x - k[1]) + Square(p.z - k[2])
  BY <1>6 DEF Distance2
<1>12. near \in (p.x - MaxRadius .. p.x + MaxRadius) \X (p.z - MaxRadius .. p.z + MaxRadius)
  <2>1. k[1] - p.x \in -8 .. 8 /\ k[2] - p.z \in -8 .. 8
    BY <1>2, <1>3 DEF MaxRadius
  <2>2. nx - p.x \in -8 .. 8 /\ nz - p.z \in -8 .. 8
    BY <1>7, <1>8, <2>1
  <2> QED
    BY <1>6, <1>9, <2>2 DEF MaxRadius
<1>13. ChunkOf(near) = c
  <2>1. nx \div 32 = c[1]
    BY <1>1, <1>7, <1>9
  <2>2. nz \div 32 = c[2]
    BY <1>1, <1>8, <1>9
  <2> QED
    BY <1>6, <2>1, <2>2 DEF ChunkOf, ChunkSize
<1>14. Covers(p, near)
  <2>1. \A w \in Nat : k[1] - p.x \in -w .. w /\ k[2] - p.z \in -w .. w
                         => near[1] - p.x \in -w .. w /\ near[2] - p.z \in -w .. w
    BY <1>6, <1>7, <1>8
  <2>2. Square(near[1] - p.x) + Square(near[2] - p.z)
          <= Square(k[1] - p.x) + Square(k[2] - p.z)
    BY <1>6, <1>7, <1>8, <1>10
  <2>3. /\ Square(near[1] - p.x) + Square(near[2] - p.z) \in Nat
        /\ Square(k[1] - p.x) + Square(k[2] - p.z) \in Nat
    BY <1>6, <1>7, <1>8, <1>10
  <2>4. CASE p.type = "outpost"
    BY <1>2, <2>1, <2>4 DEF Covers
  <2>5. CASE p.type = "ruins"
    BY <1>2, <2>1, <2>5 DEF Covers
  <2>6. CASE p.type = "loot_shrine"
    <3>1. /\ k[1] - p.x \in -3 .. 3 /\ k[2] - p.z \in -3 .. 3
          /\ Square(k[1] - p.x) + Square(k[2] - p.z) <= 10
      BY <1>2, <2>6 DEF Covers
    <3>2. near[1] - p.x \in -3 .. 3 /\ near[2] - p.z \in -3 .. 3
      BY <2>1, <3>1
    <3>3. Square(near[1] - p.x) + Square(near[2] - p.z) <= 10
      BY <2>2, <2>3, <3>1
    <3> QED
      BY <2>6, <3>2, <3>3 DEF Covers
  <2> QED
    BY <2>4, <2>5, <2>6 DEF PoiTypes
<1> QED
  BY <1>7, <1>8, <1>10, <1>11, <1>12, <1>13, <1>14 DEF ColumnsIn, near

\* The margin of the search takes in every cell whose POI reaches the chunk.
LEMMA AxisReach ==
  ASSUME NEW size \in Nat \ {0}, NEW jitter \in Nat, NEW low \in Nat, NEW x \in Nat,
         NEW i \in Nat, size * i < x, x < size * i + size,
         low - MaxRadius <= x, x <= low + 31 + MaxRadius
  PROVE  i \in FloorDiv(low - (MaxRadius + jitter + size), size)
               .. FloorDiv(low + 31 + (MaxRadius + jitter + size), size)
<1> DEFINE first == low - (MaxRadius + jitter + size)
           past == low + 31 + (MaxRadius + jitter + size)
           p == first \div size
           q == past \div size
           si == size * i
           sp == size * p
           sq == size * q
<1>1. first \in Int /\ past \in Int
  BY DEF MaxRadius
<1>2. p \in Int /\ sp <= first
  BY <1>1, DivisionBrackets
<1>3. q \in Int /\ past < sq + size
  BY <1>1, DivisionBrackets
<1>4. sp \in Int /\ sq \in Int /\ si \in Int
  BY <1>2, <1>3, SMTT(30)
<1>5. sp < si /\ si < sq
  <2> HIDE DEF sp, si, sq
  <2> QED
    BY <1>2, <1>3, <1>4 DEF MaxRadius, si
<1>6. p < i /\ i < q
  <2> HIDE DEF p, q
  <2>1. ~(i <= p)
    BY <1>2, <1>5, SMTT(30)
  <2>2. ~(q <= i)
    BY <1>3, <1>5, SMTT(30)
  <2> QED
    BY <1>2, <1>3, <2>1, <2>2
<1>7. FloorDiv(first, size) = p /\ FloorDiv(past, size) = q
  BY DEF FloorDiv
<1> HIDE DEF first, past, p, q
<1> QED
  BY <1>2, <1>3, <1>6, <1>7 DEF first, past

\* A place of which a chunk has a part is gathered for the chunk.
LEMMA GatherReaches ==
  ASSUME SaneProfile, HashesTyped, NEW c \in Nat \X Nat, NEW d, NEW p \in Candidate(d),
         Intersects(p, c)
  PROVE  d \in CellsAround(c)
<1> DEFINE size == CellSize(profile)
           jitter == profile.jitter_units
           lowx == c[1] * ChunkSize
           lowz == c[2] * ChunkSize
           nx == Clamp(p.x, lowx, (c[1] + 1) * ChunkSize - 1)
           nz == Clamp(p.z, lowz, (c[2] + 1) * ChunkSize - 1)
           a == p.x - nx
           b == p.z - nz
<1>1. /\ d \in Nat \X Nat /\ p.cell = d /\ Placed(p, size)
      /\ p.radius = RadiusOf[p.type] /\ p.type \in PoiTypes
  BY CandidateOf
<1>2. size \in Nat \ {0} /\ jitter \in Nat
  BY SizeOfCells
<1>3. /\ lowx \in Nat /\ (c[1] + 1) * ChunkSize - 1 = lowx + 31
      /\ lowz \in Nat /\ (c[2] + 1) * ChunkSize - 1 = lowz + 31
  BY DEF ChunkSize
<1>4. nx \in lowx .. lowx + 31 /\ nz \in lowz .. lowz + 31
  <2> DEFINE highx == (c[1] + 1) * ChunkSize - 1
             highz == (c[2] + 1) * ChunkSize - 1
  <2>1. /\ lowx \in Int /\ highx = lowx + 31 /\ highx \in Int /\ lowx <= highx
        /\ lowz \in Int /\ highz = lowz + 31 /\ highz \in Int /\ lowz <= highz
        /\ p.x \in Int /\ p.z \in Int
        /\ nx = Clamp(p.x, lowx, highx) /\ nz = Clamp(p.z, lowz, highz)
    BY <1>1, <1>3 DEF Placed
  <2> HIDE DEF lowx, highx, lowz, highz, nx, nz
  <2>2. lowx \in lowx .. highx /\ lowz \in lowz .. highz
    BY <2>1
  <2>3. nx \in lowx .. highx /\ nz \in lowz .. highz
    BY <2>1, <2>2, ClampIsNearest
  <2> QED
    BY <2>1, <2>3
<1>5. a * a + b * b <= Square(p.radius)
  BY DEF Intersects, Distance2, Square
<1>6. Square(p.radius) <= 64 /\ Square(p.radius) \in Nat
  BY <1>1 DEF Square, RadiusOf, PoiTypes
<1>7. a \in Int /\ b \in Int
  BY <1>1, <1>3, <1>4 DEF Placed
<1> HIDE DEF a, b, nx, nz
<1>8. a < 9 /\ -a < 9 /\ b < 9 /\ -b < 9
  <2>1. a * a \in Int /\ b * b \in Int
    BY <1>7, SMTT(30)
  <2>2. a * a + b * b < 9 * 9
    BY <1>5, <1>6, <2>1
  <2> QED
    BY <1>7, <2>2, LegsAreShort
<1>9. /\ p.x \in Nat /\ lowx - MaxRadius <= p.x /\ p.x <= lowx + 31 + MaxRadius
      /\ p.z \in Nat /\ lowz - MaxRadius <= p.z /\ p.z <= lowz + 31 + MaxRadius
  BY <1>1, <1>3, <1>4, <1>7, <1>8 DEF a, b, Placed, MaxRadius
<1> DEFINE margin == MaxRadius + jitter + size
<1>10. d[1] \in FloorDiv(lowx - margin, size) .. FloorDiv(lowx + 31 + margin, size)
  BY <1>1, <1>2, <1>3, <1>9, AxisReach DEF Placed
<1>11. d[2] \in FloorDiv(lowz - margin, size) .. FloorDiv(lowz + 31 + margin, size)
  BY <1>1, <1>2, <1>3, <1>9, AxisReach DEF Placed
<1>12. Max({0, jitter}) = jitter
  BY <1>2, LargerOfTwo
<1>13. CellsAround(c) =
         (FloorDiv(lowx - margin, size) .. FloorDiv(lowx + 31 + margin, size))
           \X (FloorDiv(lowz - margin, size) .. FloorDiv(lowz + 31 + margin, size))
  BY <1>3, <1>12 DEF CellsAround
<1> HIDE DEF lowx, lowz, margin, size
<1> QED
  BY <1>1, <1>10, <1>11, <1>13

\* The candidates of the world are finitely many and at different places.
LEMMA CandidatesApart ==
  ASSUME SaneProfile, HashesTyped, NEW pois \in SUBSET AllCandidates
  PROVE  Apart(pois)
<1> DEFINE theOne == [c \in DOMAIN hashes |-> CHOOSE p : p \in Candidate(c)]
<1>1. IsFiniteSet(pois)
  <2>1. IsFiniteSet(DOMAIN hashes)
    BY GenerationAssumption, FS_Subset DEF HashesTyped
  <2>2. IsFiniteSet({theOne[c] : c \in DOMAIN hashes})
    <3> DEFINE ones == {theOne[c] : c \in DOMAIN hashes}
    <3>1. theOne \in Surjection(DOMAIN hashes, ones)
      BY DEF Surjection
    <3> HIDE DEF theOne
    <3> QED
      BY <2>1, <3>1, FS_Surjection
  <2>3. AllCandidates \subseteq {theOne[c] : c \in DOMAIN hashes}
    <3> SUFFICES ASSUME NEW c \in DOMAIN hashes, NEW p \in Candidate(c) PROVE p = theOne[c]
      BY DEF AllCandidates
    <3>1. Candidate(c) = {p}
      BY CandidateOf
    <3> QED
      BY <3>1
  <2> HIDE DEF theOne
  <2>4. pois \subseteq {theOne[c] : c \in DOMAIN hashes}
    BY <2>3
  <2> QED
    BY <2>2, <2>4, FS_Subset
<1>2. ASSUME NEW p \in pois PROVE p.x \in Int /\ p.z \in Int
  BY CandidateOf DEF AllCandidates, Placed
<1>3. ASSUME NEW p \in pois, NEW q \in pois, p.x = q.x, p.z = q.z PROVE p = q
  <2>1. PICK c \in DOMAIN hashes : p \in Candidate(c)
    BY DEF AllCandidates
  <2>2. PICK d \in DOMAIN hashes : q \in Candidate(d)
    BY DEF AllCandidates
  <2>3. p.cell = c /\ q.cell = d
    BY <2>1, <2>2, CandidateOf
  <2>4. p.cell = q.cell
    <3>1. p \in AllCandidates /\ q \in AllCandidates
      OBVIOUS
    <3>2. \A r \in AllCandidates :
            r.cell = <<r.x \div CellSize(profile), r.z \div CellSize(profile)>>
      BY SpacingHolds DEF PoisAreSpaced
    <3> QED
      BY <1>3, <3>1, <3>2, Zenon
  <2> QED
    BY <2>1, <2>2, <2>3, <2>4, CandidateOf
<1> QED
  BY <1>1, <1>2, <1>3 DEF Apart

\* What a chunk gathers, in whatever order the chunks are made, is what reaches it
\* of all that is built in the world.
LEMMA GatheredIsTheWhole ==
  ASSUME SaneProfile, HashesTyped, NEW c \in Nat \X Nat
  PROVE  IsInStampOrder(Gathered(c), {p \in Survivors : Intersects(p, c)})
<1> DEFINE found == UNION {Candidate(d) : d \in CellsAround(c)}
           kept == {p \in found : SurvivesSpacing(p) /\ Intersects(p, c)}
           due == {p \in Survivors : Intersects(p, c)}
<1>1. kept \subseteq due
  BY CandidateOf DEF Survivors, AllCandidates
<1>2. due \subseteq kept
  BY GatherReaches DEF Survivors, AllCandidates
<1>3. kept = due /\ due \in SUBSET AllCandidates
  BY <1>1, <1>2 DEF Survivors
<1>4. Gathered(c) = Sorted(kept)
  BY DEF Gathered
<1> HIDE DEF kept, due
<1>5. Gathered(c) = Sorted(due) /\ Apart(due)
  BY <1>3, <1>4, CandidatesApart
<1> QED
  BY <1>5, SortedIsSorted DEF due

\* The circle of a POI reaches a chunk that it covers a part of exactly if it has
\* more than its corner in it.
LEMMA ReachesWhatItCovers ==
  ASSUME SaneProfile, HashesTyped, NEW p \in AllCandidates, NEW c \in Nat \X Nat,
         ColumnsIn(p, c) # {}
  PROVE  Intersects(p, c) <=> \E k \in ColumnsIn(p, c) : ~IsCorner(k, p)
<1>1. /\ p.x \in Int /\ p.z \in Int /\ p.type \in PoiTypes /\ p.radius = RadiusOf[p.type]
  BY CandidateOf DEF AllCandidates, Placed
<1>2. Square(p.radius) \in Nat
  BY <1>1 DEF Square, RadiusOf, PoiTypes
<1> DEFINE near == Nearest(p, c)
           place(k) == [x |-> k[1], z |-> k[2]]
<1>3. ASSUME NEW k \in ColumnsIn(p, c)
      PROVE  /\ Column(near) \in ColumnsIn(p, c)
             /\ Distance2(p, near) \in Nat /\ Distance2(p, place(k)) \in Nat
             /\ Distance2(p, near) <= Distance2(p, place(k))
  BY <1>1, NearestIsCovered
<1>4. Intersects(p, c) <=> Distance2(p, near) <= Square(p.radius)
  BY DEF Intersects, Nearest
<1>5. \A k : IsCorner(k, p) <=> Distance2(p, place(k)) > Square(p.radius)
  BY DEF IsCorner
<1>6. place(Column(near)) = near
  BY DEF Column, Nearest
<1> HIDE DEF near, place
<1>7. ASSUME Intersects(p, c) PROVE \E k \in ColumnsIn(p, c) : ~IsCorner(k, p)
  <2>1. Column(near) \in ColumnsIn(p, c) /\ Distance2(p, near) \in Nat
    BY <1>3
  <2>2. ~(Distance2(p, near) > Square(p.radius))
    BY <1>2, <1>4, <1>7, <2>1
  <2>3. ~IsCorner(Column(near), p)
    BY <1>5, <1>6, <2>2, Zenon
  <2> QED
    BY <2>1, <2>3
<1>8. ASSUME NEW k \in ColumnsIn(p, c), ~IsCorner(k, p) PROVE Intersects(p, c)
  <2>1. Distance2(p, place(k)) <= Square(p.radius)
    BY <1>2, <1>3, <1>5, <1>8
  <2> QED
    BY <1>2, <1>3, <1>4, <2>1
<1> QED
  BY <1>7, <1>8

-----------------------------------------------------------------------------
(* The world *)

\* The profile is sane, and a chunk is what it would be if it were made now.
WorldInv ==
  /\ SaneProfile
  /\ HashesTyped
  /\ DOMAIN chunks \subseteq Chunks
  /\ \A c \in DOMAIN chunks : chunks[c] = Gathered(c)

\* What a chunk gathers depends on the seed and the profile alone.
LEMMA GatheredStays ==
  ASSUME UNCHANGED <<profile, hashes>>, NEW c
  PROVE  Gathered(c)' = Gathered(c)
<1>1. EnabledTypes' = EnabledTypes
  BY DEF EnabledTypes
<1>2. \A cell : Candidate(cell)' = Candidate(cell)
  BY <1>1 DEF Candidate
<1>3. SpacingReach' = SpacingReach
  BY DEF SpacingReach
<1>4. \A p : SurvivesSpacing(p)' = SurvivesSpacing(p)
  BY <1>2, <1>3 DEF SurvivesSpacing
<1>5. CellsAround(c)' = CellsAround(c)
  BY DEF CellsAround
<1> QED
  BY <1>2, <1>4, <1>5 DEF Gathered

\* Generating, replacing and removing keep it.
LEMMA WorldInductive == WorldInv /\ [Next]_vars => WorldInv'
<1> SUFFICES ASSUME WorldInv, [Next]_vars PROVE WorldInv'
  OBVIOUS
<1>1. UNCHANGED <<profile, hashes>>
  BY DEF Next, vars, Generate, EnsureGeneratedChunk, RemoveChunk
<1>2. SaneProfile' /\ HashesTyped'
  BY <1>1 DEF WorldInv, SaneProfile, HashesTyped
<1>3. \A c : Gathered(c)' = Gathered(c)
  BY <1>1, GatheredStays
<1>4. /\ DOMAIN chunks' \subseteq Chunks
      /\ \A c \in DOMAIN chunks' : chunks'[c] = Gathered(c)
  <2>1. CASE Generate
    BY <2>1, GenerationAssumption DEF Generate
  <2>2. ASSUME NEW c \in Chunks, EnsureGeneratedChunk(c)
        PROVE  /\ DOMAIN chunks' \subseteq Chunks
               /\ \A e \in DOMAIN chunks' : chunks'[e] = Gathered(e)
    BY <2>2 DEF EnsureGeneratedChunk, Emplace, Put, WorldInv
  <2>3. ASSUME NEW c \in Chunks, RemoveChunk(c)
        PROVE  /\ DOMAIN chunks' \subseteq Chunks
               /\ \A e \in DOMAIN chunks' : chunks'[e] = Gathered(e)
    BY <2>3 DEF RemoveChunk, Erase, WorldInv
  <2>4. CASE UNCHANGED vars
    BY <2>4 DEF vars, WorldInv
  <2> QED
    BY <2>1, <2>2, <2>3, <2>4 DEF Next
<1> QED
  BY <1>2, <1>3, <1>4 DEF WorldInv

\* What is known of the world and of the chunks that are generated holds at every
\* moment: hashes are fixed, the profile is in range and every chunk has what the
\* seed and the profile say.
THEOREM WorldInvariant == Spec => []WorldInv
<1>1. Init => WorldInv
  <2> SUFFICES ASSUME Init PROVE WorldInv
    OBVIOUS
  <2>1. SaneProfile
    BY SanitizedIsSane DEF Init
  <2>2. HashesTyped
    BY DEF Init, HashesTyped
  <2>3. chunks = EmptyMap
    BY DEF Init
  <2> QED
    BY <2>1, <2>2, <2>3 DEF WorldInv, EmptyMap
<1> QED
  BY <1>1, WorldInductive, PTL DEF Spec

\* survives_spacing looks far enough, whatever the seed and the configured profile:
\* no two places of interest that are built are nearer than min_poi_spacing_units.
THEOREM PlacesKeepApart == Spec => []PoisAreSpaced
<1>1. WorldInv => PoisAreSpaced
  BY SpacingHolds DEF WorldInv
<1> QED
  BY <1>1, WorldInvariant, PTL

\* gather_chunk_candidates looks far enough: server and clients, which generate,
\* remove and generate again chunk by chunk, all get the same world.
THEOREM ChunksAgree == Spec => []ChunksMatchTheWhole
<1>1. ASSUME WorldInv PROVE ChunksMatchTheWhole
  <2> SUFFICES ASSUME NEW c \in DOMAIN chunks
      PROVE  LET stamps == chunks[c]
             IN /\ Range(stamps) \subseteq Survivors
                /\ \A i, j \in DOMAIN stamps : i < j => StampedBefore(stamps[i], stamps[j])
                /\ \A p \in Survivors :
                     ColumnsIn(p, c) # {} =>
                       (p \in Range(stamps) <=> \E k \in ColumnsIn(p, c) : ~IsCorner(k, p))
    BY DEF ChunksMatchTheWhole
  <2> DEFINE due == {p \in Survivors : Intersects(p, c)}
  <2>1. SaneProfile /\ HashesTyped /\ c \in Nat \X Nat /\ chunks[c] = Gathered(c)
    BY <1>1, GenerationAssumption DEF WorldInv
  <2>2. IsInStampOrder(chunks[c], due)
    BY <2>1, GatheredIsTheWhole
  <2>3. /\ Range(chunks[c]) = due
        /\ \A i, j \in DOMAIN chunks[c] : i < j => StampedBefore(chunks[c][i], chunks[c][j])
    BY <2>2 DEF IsInStampOrder
  <2>4. \A p \in Survivors :
          ColumnsIn(p, c) # {} =>
            (Intersects(p, c) <=> \E k \in ColumnsIn(p, c) : ~IsCorner(k, p))
    BY <2>1, ReachesWhatItCovers DEF Survivors
  <2> QED
    BY <2>3, <2>4
<1> QED
  BY <1>1, WorldInvariant, PTL

-----------------------------------------------------------------------------
(* Where clients find the server *)

\* Servers are told apart by when they started; a stream is open in one place
\* only; the two names are never of one inode; published is known only of a
\* server that runs or has just stopped.
EndpointForm ==
  /\ pc \in [Servers -> {"down", "stopped"} \cup Bound \cup Busy]
  /\ published \in [Servers -> BOOLEAN]
  /\ out \in [Servers -> Inodes \cup {None}]
  /\ endpoint \in [Servers -> [port : Nat, started_at : Nat]]
  /\ tmp \in Inodes \cup {None} /\ file \in Inodes \cup {None}
  /\ content \in [Inodes -> Endpoints \cup {None}]
  /\ starts \in 0 .. MaxStarts
  /\ \A s \in Servers :
       /\ pc[s] # "down" => endpoint[s] \in Endpoints
       /\ out[s] # None <=> pc[s] = "opened"
       /\ endpoint[s].started_at <= starts
       /\ published[s] => pc[s] \in {"running", "stopped"}
  /\ \A s, t \in Servers :
       s # t => /\ pc[s] \in Bound /\ pc[t] \in Bound
                     => endpoint[s].port # endpoint[t].port
                /\ pc[s] # "down" /\ pc[t] # "down" => endpoint[s] # endpoint[t]
  /\ tmp # None => tmp # file

\* As long as no two were busy with the files at a time, who is busy finds them
\* as it left them, and they lead to the last to publish.  In the fallback of an
\* undisturbed server the rename was refused: its temporary file is there.
Undisturbed ==
  ~disturbed =>
    /\ \A s, t \in Servers : pc[s] \in Busy /\ pc[t] \in Busy => s = t
    /\ \A s \in Servers :
         /\ pc[s] = "opened" => tmp = out[s]
         /\ pc[s] \in {"written", "fallback", "last_try"}
              => tmp # None /\ content[tmp] = endpoint[s]
         /\ pc[s] = "removing" => file # None /\ content[file] = endpoint[s]
         /\ pc[s] = "running" /\ published[s] /\ endpoint[s] = last
              => file # None /\ content[file] = endpoint[s]

\* As long as none was killed or could not remove a file, somebody is on its way to
\* take away what is there; who renames what another is about to give up, because its
\* rename was refused, has disturbed it.
WillRemove(s) ==
  \/ pc[s] \in {"written", "fallback", "removing"}
  \/ pc[s] \in {"running", "stopped"} /\ published[s]

HasWritten(s) ==
  \/ pc[s] = "written"
  \/ pc[s] \in {"fallback", "last_try"} /\ refused

LeftToSomebody ==
  ~abandoned /\ ~(refused /\ disturbed) =>
    /\ tmp # None
         => \E s \in Servers : pc[s] \in {"opened", "written", "fallback", "last_try"}
    /\ tmp # None /\ content[tmp] # None
         => \E s \in Servers : HasWritten(s) /\ endpoint[s] = content[tmp]
    /\ file # None /\ content[file] # None
         => \E s \in Servers : WillRemove(s) /\ endpoint[s] = content[file]

EndpointIInv == EndpointForm /\ Undisturbed /\ LeftToSomebody
-----------------------------------------------------------------------------

\* There are as many inodes as can be open, and one.
LEMMA FreshIsFresh ==
  ASSUME EndpointAssumption, EndpointForm, tmp = None,
         NEW s \in Servers, pc[s] = "bound"
  PROVE  /\ FreshInode \in Inodes
         /\ FreshInode # file
         /\ \A t \in Servers : out[t] # FreshInode
<1> DEFINE n == Cardinality(Servers)
           others == Servers \ {s}
           open == {out[t] : t \in others}
           used == open \cup {file}
           f == [t \in others |-> out[t]]
<1>1. /\ n \in Nat
      /\ IsFiniteSet(others) /\ Cardinality(others) = n - 1
  BY FS_CardinalityType, FS_RemoveElement DEF EndpointAssumption
<1>2. f \in Surjection(others, open)
  BY DEF Surjection
<1>3. IsFiniteSet(open) /\ Cardinality(open) <= n - 1
  BY <1>1, <1>2, FS_Surjection
<1>4. Cardinality(open) \in Nat
  BY <1>3, FS_CardinalityType
<1>5. IsFiniteSet(used) /\ Cardinality(used) <= n
  <2>1. IsFiniteSet(used) /\ Cardinality(used) \in {Cardinality(open), Cardinality(open) + 1}
    BY <1>3, FS_AddElement
  <2> HIDE DEF open, used, n
  <2> QED
    BY <1>1, <1>3, <1>4, <2>1
<1>6. Cardinality(Inodes) = n + 1
  BY <1>1, FS_Interval DEF Inodes
<1>7. Cardinality(used) \in Nat
  BY <1>5, FS_CardinalityType
<1> HIDE DEF n, open
<1>8. ~(Inodes \subseteq used)
  <2> SUFFICES ASSUME Inodes \subseteq used PROVE FALSE
    OBVIOUS
  <2>1. Cardinality(Inodes) <= Cardinality(used)
    BY <1>5, FS_Subset
  <2> HIDE DEF used
  <2> QED
    BY <1>1, <1>5, <1>6, <1>7, <2>1
<1>9. None \notin Inodes
  <2>1. Inodes \subseteq Nat
    BY <1>1 DEF Inodes, n
  <2> QED
    BY <2>1 DEF EndpointAssumption
<1>10. out[s] = None
  BY DEF EndpointForm
<1>11. {tmp, file} \cup {out[t] : t \in Servers} \subseteq used \cup {None}
  BY <1>10 DEF open
<1>12. \E i \in Inodes : i \notin {tmp, file} \cup {out[t] : t \in Servers}
  BY <1>8, <1>9, <1>11
<1>13. FreshInode \in Inodes /\ FreshInode \notin {tmp, file} \cup {out[t] : t \in Servers}
  BY <1>12 DEF FreshInode
<1> QED
  BY <1>13

\* The port that is taken is free.
LEMMA LowestIsFree ==
  ASSUME EndpointAssumption, FreePorts # {}
  PROVE  Min(FreePorts) \in FreePorts
<1>1. FreePorts \subseteq Nat
  BY DEF FreePorts, EndpointAssumption
<1>2. \E n \in FreePorts : \A m \in FreePorts : n <= m
  BY <1>1, LeastNumber
<1> QED
  BY <1>2 DEF Min

\* Endpoints grow with the clock.
LEMMA EndpointsGrow ==
  ASSUME EndpointAssumption, EndpointForm, starts' \in Nat, starts <= starts'
  PROVE  Endpoints \subseteq Endpoints'
  BY DEF Endpoints, EndpointForm

\* None is no inode.
LEMMA NoneIsNoInode ==
  ASSUME EndpointAssumption
  PROVE  None \notin Inodes
<1>1. Inodes \subseteq Nat
  BY FS_CardinalityType DEF Inodes, EndpointAssumption
<1> QED
  BY <1>1 DEF EndpointAssumption
-----------------------------------------------------------------------------

\* A server that starts takes a port nobody has and a time nobody has.
LEMMA BindKeepsForm ==
  ASSUME EndpointAssumption, EndpointForm, NEW s \in Servers, Bind(s)
  PROVE  EndpointForm'
<1> DEFINE new == [port |-> Min(FreePorts), started_at |-> starts + 1]
<1>1. /\ starts \in Nat /\ starts + 1 \in 1 .. MaxStarts /\ starts' = starts + 1
      /\ pc[s] = "down"
      /\ pc' = [pc EXCEPT ![s] = "bound"]
      /\ endpoint' = [endpoint EXCEPT ![s] = new]
      /\ UNCHANGED <<published, out, tmp, file, content>>
  BY DEF Bind, EndpointForm, EndpointAssumption, Goto, file_vars
<1>2. Min(FreePorts) \in FreePorts
  BY LowestIsFree DEF Bind
<1>3. Endpoints \subseteq Endpoints'
  BY <1>1, EndpointsGrow
<1>4. new \in Endpoints' /\ new \in [port : Nat, started_at : Nat]
  BY <1>1, <1>2 DEF Endpoints, FreePorts, PortsInUse, EndpointAssumption
<1>5. \A t \in Servers : pc[t] \in Bound => endpoint[t].port # new.port
  BY <1>2 DEF FreePorts, PortsInUse
<1>6. \A t \in Servers : endpoint[t] # new /\ endpoint[t].started_at \in Nat
  BY <1>1 DEF EndpointForm
<1>7. new.started_at = starts + 1
  OBVIOUS
<1> HIDE DEF new
<1>8. /\ pc' \in [Servers -> {"down", "stopped"} \cup Bound \cup Busy]
      /\ endpoint' \in [Servers -> [port : Nat, started_at : Nat]]
  BY <1>1, <1>4 DEF EndpointForm, Bound
<1>9. /\ published' \in [Servers -> BOOLEAN]
      /\ out' \in [Servers -> Inodes \cup {None}]
      /\ tmp' \in Inodes \cup {None} /\ file' \in Inodes \cup {None}
      /\ content' \in [Inodes -> Endpoints' \cup {None}]
      /\ starts' \in 0 .. MaxStarts
      /\ tmp' # None => tmp' # file'
  BY <1>1, <1>3 DEF EndpointForm
<1>10. ASSUME NEW t \in Servers
       PROVE  /\ pc'[t] # "down" => endpoint'[t] \in Endpoints'
              /\ out'[t] # None <=> pc'[t] = "opened"
              /\ endpoint'[t].started_at <= starts'
              /\ published'[t] => pc'[t] \in {"running", "stopped"}
  <2>1. CASE t = s
    BY <1>1, <1>4, <1>7, <2>1 DEF EndpointForm
  <2>2. CASE t # s
    BY <1>1, <1>3, <1>6, <2>2 DEF EndpointForm
  <2> QED
    BY <2>1, <2>2
<1>11. ASSUME NEW t \in Servers, NEW u \in Servers, t # u
       PROVE  /\ pc'[t] \in Bound /\ pc'[u] \in Bound
                   => endpoint'[t].port # endpoint'[u].port
              /\ pc'[t] # "down" /\ pc'[u] # "down" => endpoint'[t] # endpoint'[u]
  <2>1. CASE t # s /\ u # s
    BY <1>1, <1>11, <2>1 DEF EndpointForm
  <2>2. CASE t = s
    BY <1>1, <1>5, <1>6, <1>11, <2>2 DEF EndpointForm
  <2>3. CASE u = s
    BY <1>1, <1>5, <1>6, <1>11, <2>3 DEF EndpointForm
  <2> QED
    BY <2>1, <2>2, <2>3
<1>12. Inodes' = Inodes
  BY DEF Inodes
<1> QED
  BY <1>8, <1>9, <1>10, <1>11, <1>12 DEF EndpointForm

\* What a server does after it has started changes its place, whether it is
\* published, its stream, and the files; what it is stays.
Moves(s, place, is_published) ==
  /\ pc' = [pc EXCEPT ![s] = place]
  /\ place \in {"down", "stopped", "running"} \cup Busy
  /\ place \in Bound => pc[s] \in Bound
  /\ pc[s] # "down"
  /\ published' = [published EXCEPT ![s] = is_published]
  /\ is_published \in BOOLEAN
  /\ is_published => place \in {"running", "stopped"}
  /\ UNCHANGED <<endpoint, starts>>

LEMMA MoveKeepsForm ==
  ASSUME EndpointAssumption, EndpointForm, NEW s \in Servers,
         NEW place, NEW is_published, Moves(s, place, is_published),
         out' \in [Servers -> Inodes \cup {None}],
         tmp' \in Inodes \cup {None}, file' \in Inodes \cup {None},
         content' \in [Inodes -> Endpoints \cup {None}],
         \A t \in Servers \ {s} : out'[t] = out[t],
         out'[s] # None <=> place = "opened",
         tmp' # None => tmp' # file'
  PROVE  EndpointForm'
<1>1. Endpoints' = Endpoints /\ Inodes' = Inodes
  BY DEF Endpoints, Inodes, Moves
<1>2. /\ pc' \in [Servers -> {"down", "stopped"} \cup Bound \cup Busy]
      /\ published' \in [Servers -> BOOLEAN]
  BY DEF EndpointForm, Moves, Bound
<1>3. ASSUME NEW t \in Servers
      PROVE  /\ pc'[t] # "down" => endpoint'[t] \in Endpoints'
             /\ out'[t] # None <=> pc'[t] = "opened"
             /\ endpoint'[t].started_at <= starts'
             /\ published'[t] => pc'[t] \in {"running", "stopped"}
  <2>1. CASE t = s
    BY <1>1, <2>1 DEF EndpointForm, Moves
  <2>2. CASE t # s
    BY <1>1, <2>2 DEF EndpointForm, Moves
  <2> QED
    BY <2>1, <2>2
<1>4. ASSUME NEW t \in Servers, NEW u \in Servers, t # u
      PROVE  /\ pc'[t] \in Bound /\ pc'[u] \in Bound
                  => endpoint'[t].port # endpoint'[u].port
             /\ pc'[t] # "down" /\ pc'[u] # "down" => endpoint'[t] # endpoint'[u]
  <2>1. \A v \in Servers : /\ pc'[v] \in Bound => pc[v] \in Bound
                           /\ pc'[v] # "down" => pc[v] # "down"
    BY DEF EndpointForm, Moves
  <2> QED
    BY <1>4, <2>1 DEF EndpointForm, Moves
<1>5. /\ endpoint' \in [Servers -> [port : Nat, started_at : Nat]]
      /\ starts' \in 0 .. MaxStarts
  BY DEF EndpointForm, Moves
<1> QED
  BY <1>1, <1>2, <1>3, <1>4, <1>5 DEF EndpointForm

\* The form is kept by every action of a server.
LEMMA FormKept ==
  ASSUME EndpointAssumption, EndpointForm, [EndpointNext]_endpoint_vars
  PROVE  EndpointForm'
<1>1. CASE UNCHANGED endpoint_vars
  BY <1>1 DEF EndpointForm, endpoint_vars, proc_vars, file_vars, Endpoints, Inodes
<1> SUFFICES ASSUME NEW s \in Servers,
                    \/ Bind(s) \/ OpenTemporary(s) \/ OpenFails(s)
                    \/ WriteTemporary(s) \/ WriteFails(s)
                    \/ Publish(s) \/ ClearForRename(s) \/ PublishAgain(s) \/ Stop(s)
                    \/ CheckOwnership(s) \/ RemoveInfo(s) \/ Crash(s)
             PROVE  EndpointForm'
  BY <1>1 DEF EndpointNext
<1> USE DEF Goto, Touches, proc_vars, file_vars, history_vars
<1>2. CASE Bind(s)
  BY <1>2, BindKeepsForm
<1> DEFINE keeps == published[s]
<1>3. /\ pc \in [Servers -> {"down", "stopped"} \cup Bound \cup Busy]
      /\ published \in [Servers -> BOOLEAN]
      /\ published[s] => pc[s] \in {"running", "stopped"}
      /\ published = [published EXCEPT ![s] = published[s]]
      /\ published[s] \in BOOLEAN
      /\ out \in [Servers -> Inodes \cup {None}]
      /\ out = [out EXCEPT ![s] = out[s]]
      /\ out[s] # None <=> pc[s] = "opened"
      /\ tmp \in Inodes \cup {None} /\ file \in Inodes \cup {None}
      /\ content \in [Inodes -> Endpoints \cup {None}]
      /\ tmp # None => tmp # file
      /\ pc[s] # "down" => endpoint[s] \in Endpoints
      /\ None \notin Inodes
  BY NoneIsNoInode DEF EndpointForm
<1>4. CASE OpenTemporary(s)
  <2> DEFINE inode == IF tmp = None THEN FreshInode ELSE tmp
  <2>1. inode \in Inodes /\ inode # file
    BY <1>3, <1>4, FreshIsFresh DEF OpenTemporary
  <2> HIDE DEF inode
  <2>2. Moves(s, "opened", published[s])
    BY <1>3, <1>4 DEF OpenTemporary, Moves, Busy, Bound
  <2>3. /\ out' = [out EXCEPT ![s] = inode]
        /\ tmp' = inode
        /\ file' = file
        /\ content' = [content EXCEPT ![inode] = None]
    BY <1>4 DEF OpenTemporary, inode
  <2>4. /\ out' \in [Servers -> Inodes \cup {None}]
        /\ content' \in [Inodes -> Endpoints \cup {None}]
        /\ \A t \in Servers \ {s} : out'[t] = out[t]
        /\ out'[s] # None
    BY <1>3, <2>1, <2>3
  <2> QED
    BY <1>3, <2>1, <2>2, <2>3, <2>4, MoveKeepsForm
<1>4a. CASE OpenFails(s)
  <2>1. Moves(s, "running", published[s])
    BY <1>3, <1>4a DEF OpenFails, Moves, Busy, Bound
  <2>2. UNCHANGED <<file, out, tmp, content>> /\ pc[s] = "bound"
    BY <1>4a DEF OpenFails
  <2> QED
    BY <1>3, <2>1, <2>2, MoveKeepsForm
<1>5. CASE WriteTemporary(s)
  <2>1. Moves(s, "written", published[s])
    BY <1>3, <1>5 DEF WriteTemporary, Moves, Busy, Bound
  <2>2. content' = [content EXCEPT ![out[s]] = endpoint[s]]
        /\ out' = [out EXCEPT ![s] = None] /\ endpoint[s] \in Endpoints
    BY <1>3, <1>5 DEF WriteTemporary
  <2>3. content' \in [Inodes -> Endpoints \cup {None}]
    BY <1>3, <2>2
  <2>4. /\ out' \in [Servers -> Inodes \cup {None}]
        /\ \A t \in Servers \ {s} : out'[t] = out[t]
        /\ out'[s] = None
    BY <1>3, <2>2
  <2>5. tmp' = tmp /\ file' = file
    BY <1>5 DEF WriteTemporary
  <2> QED
    BY <1>3, <2>1, <2>3, <2>4, <2>5, MoveKeepsForm
<1>6. CASE WriteFails(s)
  <2>1. Moves(s, "running", published[s])
    BY <1>3, <1>6 DEF WriteFails, Moves, Busy, Bound
  <2>2. /\ out' = [out EXCEPT ![s] = None]
        /\ tmp' \in {None, tmp} /\ file' = file /\ content' = content
    BY <1>6 DEF WriteFails, Removal
  <2>3. /\ out' \in [Servers -> Inodes \cup {None}]
        /\ \A t \in Servers \ {s} : out'[t] = out[t]
        /\ out'[s] = None
    BY <1>3, <2>2
  <2> QED
    BY <1>3, <2>1, <2>2, <2>3, MoveKeepsForm
<1>7. ASSUME pc[s] \in {"written", "last_try"}, Rename(s)
      PROVE  EndpointForm'
  <2>1. /\ tmp' = None /\ tmp # None /\ file' = tmp
        /\ UNCHANGED <<out, content, endpoint, starts>>
    BY <1>7 DEF Rename
  <2>2. Moves(s, "running", TRUE)
    BY <1>3, <1>7, <2>1 DEF Rename, Moves, Bound, Busy
  <2> QED
    BY <1>3, <1>7, <2>1, <2>2, MoveKeepsForm
<1>8. ASSUME NEW otherwise, RenameFails(s, otherwise), tmp' \in {None, tmp},
             \/ pc[s] = "written" /\ otherwise = "fallback"
             \/ pc[s] = "last_try" /\ otherwise = "running"
      PROVE  EndpointForm'
  <2>1. UNCHANGED <<file, out, content>>
    BY <1>8 DEF RenameFails
  <2>2. Moves(s, otherwise, published[s])
    BY <1>3, <1>8 DEF RenameFails, Moves, Bound, Busy
  <2> QED
    BY <1>3, <1>8, <2>1, <2>2, MoveKeepsForm
<1>9. CASE Publish(s) \/ PublishAgain(s)
  BY <1>7, <1>8, <1>9 DEF Publish, PublishAgain, Removal
<1>10. CASE ClearForRename(s)
  <2>1. Moves(s, "last_try", published[s])
    BY <1>3, <1>10 DEF ClearForRename, Moves, Bound, Busy
  <2>2. /\ file' \in {None, file} /\ pc[s] = "fallback"
        /\ UNCHANGED <<out, tmp, content>>
    BY <1>10 DEF ClearForRename, Removal
  <2> QED
    BY <1>3, <2>1, <2>2, MoveKeepsForm
<1>11. CASE Stop(s)
  <2> DEFINE place == IF published[s] THEN "stopped" ELSE "down"
  <2>1. Moves(s, place, published[s])
    BY <1>3, <1>11 DEF Stop, Moves, Bound, Busy
  <2>2. UNCHANGED <<file, out, tmp, content>> /\ pc[s] = "running" /\ place # "opened"
    BY <1>11 DEF Stop
  <2> QED
    BY <1>3, <2>1, <2>2, MoveKeepsForm
<1>12. CASE CheckOwnership(s)
  <2> DEFINE place == IF ReadInfo = endpoint[s] THEN "removing" ELSE "down"
  <2>1. Moves(s, place, FALSE)
    BY <1>3, <1>12 DEF CheckOwnership, Moves, Bound, Busy
  <2>2. UNCHANGED <<file, out, tmp, content>> /\ pc[s] = "stopped" /\ place # "opened"
    BY <1>12 DEF CheckOwnership
  <2> QED
    BY <1>3, <2>1, <2>2, MoveKeepsForm
<1>13. CASE RemoveInfo(s)
  <2>1. Moves(s, "down", published[s])
    BY <1>3, <1>13 DEF RemoveInfo, Moves, Bound, Busy
  <2>2. /\ file' \in {None, file} /\ pc[s] = "removing"
        /\ UNCHANGED <<out, tmp, content>>
    BY <1>13 DEF RemoveInfo, Removal
  <2> QED
    BY <1>3, <2>1, <2>2, MoveKeepsForm
<1>14. CASE Crash(s)
  <2>1. Moves(s, "down", FALSE)
    BY <1>3, <1>14 DEF Crash, Moves, Bound, Busy
  <2>2. out' = [out EXCEPT ![s] = None] /\ UNCHANGED <<file, tmp, content>>
    BY <1>14 DEF Crash
  <2>3. /\ out' \in [Servers -> Inodes \cup {None}]
        /\ \A t \in Servers \ {s} : out'[t] = out[t]
        /\ out'[s] = None
    BY <1>3, <2>2
  <2> QED
    BY <1>3, <2>1, <2>2, <2>3, MoveKeepsForm
<1> QED
  BY <1>2, <1>4, <1>4a, <1>5, <1>6, <1>9, <1>10, <1>11, <1>12, <1>13, <1>14
-----------------------------------------------------------------------------

\* Who touches the files undisturbed is alone with them.
LEMMA AloneWithTheFiles ==
  ASSUME EndpointForm, Undisturbed, NEW s \in Servers, Touches(s), ~disturbed'
  PROVE  ~disturbed /\ \A t \in Servers : pc[t] \in Busy => t = s
  BY DEF Touches

\* While nobody else is busy, Undisturbed speaks of s and of the last to publish.
LEMMA AloneSuffices ==
  ASSUME NEW s \in Servers,
         \A t \in Servers : pc'[t] \in Busy => t = s,
         pc'[s] = "opened" => tmp' = out'[s],
         pc'[s] \in {"written", "fallback", "last_try"}
           => tmp' # None /\ content'[tmp'] = endpoint'[s],
         pc'[s] = "removing" => file' # None /\ content'[file'] = endpoint'[s],
         \A t \in Servers : pc'[t] = "running" /\ published'[t] /\ endpoint'[t] = last'
                              => file' # None /\ content'[file'] = endpoint'[t]
  PROVE  Undisturbed'
<1>1. ASSUME NEW t \in Servers
      PROVE  /\ pc'[t] = "opened" => tmp' = out'[t]
             /\ pc'[t] \in {"written", "fallback", "last_try"}
                  => tmp' # None /\ content'[tmp'] = endpoint'[t]
             /\ pc'[t] = "removing" => file' # None /\ content'[file'] = endpoint'[t]
  <2>1. CASE t = s
    BY <2>1
  <2>2. CASE t # s
    BY <2>2 DEF Busy
  <2> QED
    BY <2>1, <2>2
<1> QED
  BY <1>1 DEF Undisturbed

LEMMA UndisturbedKept ==
  ASSUME EndpointAssumption, EndpointForm, Undisturbed, [EndpointNext]_endpoint_vars
  PROVE  Undisturbed'
<1>1. CASE UNCHANGED endpoint_vars
  BY <1>1 DEF Undisturbed, endpoint_vars, proc_vars, file_vars, history_vars, Busy
<1> SUFFICES ASSUME NEW s \in Servers, ~disturbed',
                    \/ Bind(s) \/ OpenTemporary(s) \/ OpenFails(s)
                    \/ WriteTemporary(s) \/ WriteFails(s)
                    \/ Publish(s) \/ ClearForRename(s) \/ PublishAgain(s) \/ Stop(s)
                    \/ CheckOwnership(s) \/ RemoveInfo(s) \/ Crash(s)
             PROVE  Undisturbed'
  BY <1>1 DEF EndpointNext, Undisturbed
<1> USE DEF Goto
<1>2. ~disturbed
  BY DEF Bind, OpenTemporary, OpenFails, WriteTemporary, WriteFails, Publish,
         PublishAgain, Rename, RenameFails, ClearForRename, Stop, CheckOwnership, RemoveInfo, Crash, Touches, history_vars
<1>3. /\ pc \in [Servers -> {"down", "stopped"} \cup Bound \cup Busy]
      /\ published \in [Servers -> BOOLEAN]
      /\ out \in [Servers -> Inodes \cup {None}]
      /\ out[s] # None <=> pc[s] = "opened"
      /\ tmp \in Inodes \cup {None} /\ file \in Inodes \cup {None}
      /\ content \in [Inodes -> Endpoints \cup {None}]
      /\ tmp # None => tmp # file
      /\ None \notin Inodes
      /\ \A t \in Servers : published[t] => pc[t] \in {"running", "stopped"}
      /\ \A t, u \in Servers :
           t # u => (pc[t] # "down" /\ pc[u] # "down" => endpoint[t] # endpoint[u])
  BY NoneIsNoInode DEF EndpointForm
<1>4. /\ \A t, u \in Servers : pc[t] \in Busy /\ pc[u] \in Busy => t = u
      /\ \A t \in Servers :
         /\ pc[t] = "opened" => tmp = out[t]
         /\ pc[t] \in {"written", "fallback", "last_try"}
              => tmp # None /\ content[tmp] = endpoint[t]
         /\ pc[t] = "removing" => file # None /\ content[file] = endpoint[t]
         /\ pc[t] = "running" /\ published[t] /\ endpoint[t] = last
              => file # None /\ content[file] = endpoint[t]
  BY <1>2 DEF Undisturbed
<1>5. ASSUME Touches(s)
      PROVE  \A t \in Servers : pc[t] \in Busy => t = s
  BY <1>5, AloneWithTheFiles
<1>6. CASE Bind(s)
  <2> DEFINE new == [port |-> Min(FreePorts), started_at |-> starts + 1]
  <2>1. /\ pc[s] = "down" /\ pc' = [pc EXCEPT ![s] = "bound"]
        /\ endpoint' = [endpoint EXCEPT ![s] = new]
        /\ UNCHANGED <<published, out, tmp, file, content, last>>
    BY <1>6 DEF Bind, file_vars, history_vars
  <2> HIDE DEF new
  <2>2. \A t \in Servers \ {s} : pc'[t] = pc[t] /\ endpoint'[t] = endpoint[t]
    BY <2>1, <1>3 DEF EndpointForm
  <2>3. pc'[s] = "bound"
    BY <2>1, <1>3
  <2> QED
    BY <1>4, <2>1, <2>2, <2>3 DEF Undisturbed, Busy
<1>7. CASE OpenTemporary(s)
  <2> DEFINE inode == IF tmp = None THEN FreshInode ELSE tmp
  <2>1. inode \in Inodes /\ inode # file
    BY <1>3, <1>7, FreshIsFresh DEF OpenTemporary
  <2> HIDE DEF inode
  <2>2. /\ pc' = [pc EXCEPT ![s] = "opened"] /\ out' = [out EXCEPT ![s] = inode]
        /\ tmp' = inode
        /\ content' = [content EXCEPT ![inode] = None]
        /\ UNCHANGED <<last, published, file, endpoint>>
    BY <1>7 DEF OpenTemporary, inode, proc_vars
  <2>3. file # None => content'[file] = content[file]
    BY <1>3, <2>1, <2>2
  <2>4. out'[s] = inode /\ pc'[s] = "opened" /\ \A t \in Servers \ {s} : pc'[t] = pc[t]
    BY <1>3, <2>2
  <2>5. \A t \in Servers : pc'[t] \in Busy => t = s
    BY <1>5, <1>7, <2>4 DEF OpenTemporary
  <2>6. ASSUME NEW t \in Servers, pc'[t] = "running", published'[t], endpoint'[t] = last'
        PROVE  file' # None /\ content'[file'] = endpoint'[t]
    BY <1>4, <2>2, <2>3, <2>4, <2>6
  <2> QED
    BY <2>2, <2>4, <2>5, <2>6, AloneSuffices
<1>7a. CASE OpenFails(s)
  <2>1. /\ pc[s] = "bound" /\ pc' = [pc EXCEPT ![s] = "running"]
        /\ UNCHANGED <<published, out, tmp, file, content, endpoint, last>>
    BY <1>7a DEF OpenFails, file_vars, history_vars, proc_vars
  <2>2. /\ pc'[s] = "running" /\ ~published[s]
        /\ \A t \in Servers \ {s} : pc'[t] = pc[t]
    BY <1>3, <2>1
  <2> QED
    BY <1>4, <2>1, <2>2 DEF Undisturbed, Busy
<1>8. CASE WriteTemporary(s)
  <2>1. /\ pc[s] = "opened" /\ pc' = [pc EXCEPT ![s] = "written"]
        /\ content' = [content EXCEPT ![tmp] = endpoint[s]]
        /\ tmp \in Inodes
        /\ UNCHANGED <<last, published, file, tmp, endpoint>>
    BY <1>3, <1>4, <1>8 DEF WriteTemporary, proc_vars
  <2>2. file # None => content'[file] = content[file]
    BY <1>3, <2>1
  <2>3. content'[tmp] = endpoint[s]
    BY <1>3, <2>1
  <2>4. pc'[s] = "written" /\ \A t \in Servers \ {s} : pc'[t] = pc[t]
    BY <1>3, <2>1
  <2>5. \A t \in Servers : pc'[t] \in Busy => t = s
    BY <1>5, <1>8, <2>4 DEF WriteTemporary
  <2>6. ASSUME NEW t \in Servers, pc'[t] = "running", published'[t], endpoint'[t] = last'
        PROVE  file' # None /\ content'[file'] = endpoint'[t]
    BY <1>4, <2>1, <2>2, <2>4, <2>6
  <2> QED
    BY <1>3, <2>1, <2>3, <2>4, <2>5, <2>6, AloneSuffices
<1>9. CASE WriteFails(s)
  <2>1. /\ pc[s] = "opened" /\ pc' = [pc EXCEPT ![s] = "running"]
        /\ UNCHANGED <<last, published, file, content, endpoint>>
    BY <1>9 DEF WriteFails, proc_vars
  <2>2. pc'[s] = "running" /\ ~published[s] /\ \A t \in Servers \ {s} : pc'[t] = pc[t]
    BY <1>3, <2>1
  <2>3. \A t \in Servers : pc'[t] \notin Busy
    BY <1>5, <1>9, <2>2 DEF WriteFails, Busy
  <2>4. ASSUME NEW t \in Servers, pc'[t] = "running", published'[t], endpoint'[t] = last'
        PROVE  file' # None /\ content'[file'] = endpoint'[t]
    BY <1>4, <2>1, <2>2, <2>4
  <2> QED
    BY <2>2, <2>3, <2>4, AloneSuffices
<1>10. ASSUME pc[s] \in {"written", "last_try"}, Rename(s)
       PROVE  Undisturbed'
  <2>1. /\ tmp # None /\ content[tmp] = endpoint[s]
        /\ pc' = [pc EXCEPT ![s] = "running"] /\ last' = endpoint[s] /\ file' = tmp
        /\ UNCHANGED <<content, endpoint>>
    BY <1>4, <1>10 DEF Rename, proc_vars
  <2>2. pc'[s] = "running" /\ \A t \in Servers \ {s} : pc'[t] = pc[t]
    BY <1>3, <2>1
  <2>3. \A t \in Servers : pc'[t] \notin Busy
    BY <1>5, <1>10, <2>2 DEF Rename, Busy
  <2>4. ASSUME NEW t \in Servers, pc'[t] = "running", published'[t], endpoint'[t] = last'
        PROVE  file' # None /\ content'[file'] = endpoint'[t]
    BY <2>1, <2>4
  <2> QED
    BY <2>2, <2>3, <2>4, AloneSuffices
<1>11. ASSUME NEW otherwise, RenameFails(s, otherwise),
              \/ pc[s] = "written" /\ otherwise = "fallback" /\ tmp' = tmp
              \/ pc[s] = "last_try" /\ otherwise = "running"
       PROVE  Undisturbed'
  <2>1. /\ tmp # None /\ content[tmp] = endpoint[s]
        /\ pc' = [pc EXCEPT ![s] = otherwise]
        /\ UNCHANGED <<published, file, content, endpoint, last>>
    BY <1>4, <1>11 DEF RenameFails, proc_vars
  <2>2. /\ pc'[s] = otherwise /\ ~published[s]
        /\ \A t \in Servers \ {s} : pc'[t] = pc[t]
    BY <1>3, <1>11, <2>1
  <2>3. \A t \in Servers : pc'[t] \in Busy => t = s
    BY <1>5, <1>11, <2>2 DEF RenameFails
  <2>4. ASSUME NEW t \in Servers, pc'[t] = "running", published'[t], endpoint'[t] = last'
        PROVE  file' # None /\ content'[file'] = endpoint'[t]
    BY <1>4, <2>1, <2>2, <2>4
  <2>5. otherwise = "fallback" => tmp' = tmp
    BY <1>11
  <2> QED
    BY <1>11, <2>1, <2>2, <2>3, <2>4, <2>5, AloneSuffices
<1>11a. CASE Publish(s) \/ PublishAgain(s)
  BY <1>10, <1>11, <1>11a DEF Publish, PublishAgain
<1>11b. CASE ClearForRename(s)
  <2>1. /\ pc[s] = "fallback" /\ pc' = [pc EXCEPT ![s] = "last_try"]
        /\ tmp # None /\ content[tmp] = endpoint[s]
        /\ last' = IF file' = None THEN None ELSE last
        /\ file' \in {None, file}
        /\ UNCHANGED <<published, tmp, content, endpoint>>
    BY <1>4, <1>11b DEF ClearForRename, Removal, proc_vars
  <2>2. pc'[s] = "last_try" /\ \A t \in Servers \ {s} : pc'[t] = pc[t]
    BY <1>3, <2>1
  <2>3. \A t \in Servers : pc'[t] \in Busy => t = s
    BY <1>5, <1>11b, <2>2 DEF ClearForRename
  <2>4. \A t \in Servers : endpoint[t] # None
    <3>1. \A t \in Servers : endpoint[t] \in [port : Nat, started_at : Nat]
      BY DEF EndpointForm
    <3> QED
      BY <3>1 DEF EndpointAssumption
  <2>5. ASSUME NEW t \in Servers, pc'[t] = "running", published'[t], endpoint'[t] = last'
        PROVE  file' # None /\ content'[file'] = endpoint'[t]
    BY <1>4, <2>1, <2>2, <2>4, <2>5
  <2> QED
    BY <2>1, <2>2, <2>3, <2>5, AloneSuffices
<1>12. CASE Stop(s)
  <2> DEFINE place == IF published[s] THEN "stopped" ELSE "down"
  <2>1. /\ pc' = [pc EXCEPT ![s] = place] /\ place \in {"stopped", "down"}
        /\ UNCHANGED <<published, out, tmp, file, content, endpoint, last>>
    BY <1>12 DEF Stop, file_vars, history_vars, proc_vars
  <2> HIDE DEF place
  <2>2. pc'[s] = place /\ \A t \in Servers \ {s} : pc'[t] = pc[t]
    BY <1>3, <2>1
  <2> QED
    BY <1>4, <2>1, <2>2 DEF Undisturbed, Busy
<1>13. CASE CheckOwnership(s)
  <2> DEFINE place == IF ReadInfo = endpoint[s] THEN "removing" ELSE "down"
  <2>1. /\ pc' = [pc EXCEPT ![s] = place] /\ published' = [published EXCEPT ![s] = FALSE]
        /\ UNCHANGED <<out, tmp, file, content, endpoint, last>>
    BY <1>13 DEF CheckOwnership, file_vars, proc_vars
  <2>2. place = "removing" => file # None /\ content[file] = endpoint[s]
    <3>1. endpoint[s] # None
      <4>1. endpoint[s] \in [port : Nat, started_at : Nat]
        BY DEF EndpointForm
      <4> QED
        BY <4>1 DEF EndpointAssumption
    <3> QED
      BY <3>1 DEF ReadInfo
  <2>3. place \in {"removing", "down"}
    OBVIOUS
  <2> HIDE DEF place
  <2>4. pc'[s] = place /\ \A t \in Servers \ {s} : pc'[t] = pc[t] /\ published'[t] = published[t]
    BY <1>3, <2>1
  <2>5. \A t \in Servers : pc'[t] \in Busy => t = s
    BY <1>5, <1>13, <2>4 DEF CheckOwnership
  <2>6. ASSUME NEW t \in Servers, pc'[t] = "running", published'[t], endpoint'[t] = last'
        PROVE  file' # None /\ content'[file'] = endpoint'[t]
    BY <1>4, <2>1, <2>3, <2>4, <2>6
  <2> QED
    BY <2>1, <2>2, <2>3, <2>4, <2>5, <2>6, AloneSuffices
<1>14. CASE RemoveInfo(s)
  <2>1. /\ pc[s] = "removing" /\ pc' = [pc EXCEPT ![s] = "down"]
        /\ content[file] = endpoint[s]
        /\ UNCHANGED <<published, content, endpoint, last>>
    BY <1>4, <1>14 DEF RemoveInfo, proc_vars
  <2>2. pc'[s] = "down" /\ \A t \in Servers \ {s} : pc'[t] = pc[t]
    BY <1>3, <2>1
  <2>3. \A t \in Servers : pc'[t] \notin Busy
    BY <1>5, <1>14, <2>2 DEF RemoveInfo, Busy
  <2>4. ASSUME NEW t \in Servers, pc'[t] = "running", published'[t], endpoint'[t] = last'
        PROVE  FALSE
    <3>1. t # s /\ pc[t] = "running" /\ published[t] /\ endpoint[t] = last
      BY <2>1, <2>2, <2>4
    <3>2. content[file] = endpoint[t]
      BY <1>4, <3>1
    <3> QED
      BY <1>3, <2>1, <3>1, <3>2
  <2> QED
    BY <2>2, <2>3, <2>4, AloneSuffices
<1>15. CASE Crash(s)
  <2>1. /\ pc' = [pc EXCEPT ![s] = "down"] /\ published' = [published EXCEPT ![s] = FALSE]
        /\ out' = [out EXCEPT ![s] = None]
        /\ UNCHANGED <<tmp, file, content, endpoint, last>>
    BY <1>15 DEF Crash, file_vars, proc_vars
  <2>2. /\ pc'[s] = "down"
        /\ \A t \in Servers \ {s} :
             pc'[t] = pc[t] /\ published'[t] = published[t] /\ out'[t] = out[t]
    BY <1>3, <2>1
  <2> QED
    BY <1>4, <2>1, <2>2 DEF Undisturbed, Busy
<1> QED
  BY <1>6, <1>7, <1>7a, <1>8, <1>9, <1>11a, <1>11b, <1>12, <1>13, <1>14, <1>15
-----------------------------------------------------------------------------

\* Whoever is named keeps its place, or s takes it over.
LEMMA LeftKept ==
  ASSUME EndpointAssumption, EndpointForm, LeftToSomebody, [EndpointNext]_endpoint_vars
  PROVE  LeftToSomebody'
<1>1. CASE UNCHANGED endpoint_vars
  BY <1>1 DEF LeftToSomebody, HasWritten, WillRemove, endpoint_vars, proc_vars, file_vars, history_vars
<1> SUFFICES ASSUME NEW s \in Servers, ~abandoned', ~(refused' /\ disturbed'),
                    \/ Bind(s) \/ OpenTemporary(s) \/ OpenFails(s)
                    \/ WriteTemporary(s) \/ WriteFails(s)
                    \/ Publish(s) \/ ClearForRename(s) \/ PublishAgain(s) \/ Stop(s)
                    \/ CheckOwnership(s) \/ RemoveInfo(s) \/ Crash(s)
             PROVE  LeftToSomebody'
  BY <1>1 DEF EndpointNext, LeftToSomebody
<1> USE DEF Goto
<1>2. ~Crash(s) /\ ~abandoned /\ ~(refused /\ disturbed)
  <2>1. ~Crash(s)
    BY DEF Crash
  <2>2. ~abandoned
    BY <2>1, Zenon DEF Bind, OpenTemporary, OpenFails, WriteTemporary, WriteFails,
         Publish, PublishAgain, Rename, RenameFails, Removal, ClearForRename, Stop,
         CheckOwnership, RemoveInfo, history_vars
  <2>3. refused => refused'
    BY <2>1, Zenon DEF Bind, OpenTemporary, OpenFails, WriteTemporary, WriteFails,
         Publish, PublishAgain, Rename, RenameFails, ClearForRename, Stop,
         CheckOwnership, RemoveInfo, history_vars
  <2>4. disturbed => disturbed'
    BY <2>1, Zenon DEF Bind, OpenTemporary, OpenFails, WriteTemporary, WriteFails,
         Publish, PublishAgain, Rename, RenameFails, ClearForRename, Stop,
         CheckOwnership, RemoveInfo, Touches, history_vars
  <2> QED
    BY <2>1, <2>2, <2>3, <2>4
<1>3. /\ pc \in [Servers -> {"down", "stopped"} \cup Bound \cup Busy]
      /\ published \in [Servers -> BOOLEAN]
      /\ out \in [Servers -> Inodes \cup {None}]
      /\ out[s] # None <=> pc[s] = "opened"
      /\ tmp \in Inodes \cup {None} /\ file \in Inodes \cup {None}
      /\ content \in [Inodes -> Endpoints \cup {None}]
      /\ tmp # None => tmp # file
      /\ None \notin Inodes
      /\ \A t \in Servers : published[t] => pc[t] \in {"running", "stopped"}
  BY NoneIsNoInode DEF EndpointForm
<1>4. /\ tmp # None
           => \E t \in Servers : pc[t] \in {"opened", "written", "fallback", "last_try"}
      /\ tmp # None /\ content[tmp] # None
           => \E t \in Servers : HasWritten(t) /\ endpoint[t] = content[tmp]
      /\ file # None /\ content[file] # None
           => \E t \in Servers : WillRemove(t) /\ endpoint[t] = content[file]
  BY <1>2 DEF LeftToSomebody, HasWritten
<1> DEFINE others == \A t \in Servers \ {s} :
                        /\ pc'[t] = pc[t] /\ published'[t] = published[t]
                        /\ endpoint'[t] = endpoint[t]
<1>5. CASE Bind(s)
  <2> DEFINE new == [port |-> Min(FreePorts), started_at |-> starts + 1]
  <2>1. /\ pc[s] = "down" /\ pc' = [pc EXCEPT ![s] = "bound"]
        /\ endpoint' = [endpoint EXCEPT ![s] = new]
        /\ UNCHANGED <<published, out, tmp, file, content, refused>>
    BY <1>5 DEF Bind, file_vars, history_vars
  <2> HIDE DEF new
  <2>2. others
    BY <1>3, <2>1 DEF EndpointForm
  <2>3. ~WillRemove(s)
    BY <1>3, <2>1 DEF WillRemove
  <2> QED
    BY <1>4, <2>1, <2>2, <2>3 DEF LeftToSomebody, HasWritten, WillRemove
<1>6. CASE OpenTemporary(s)
  <2> DEFINE inode == IF tmp = None THEN FreshInode ELSE tmp
  <2>1. inode \in Inodes /\ inode # file
    BY <1>3, <1>6, FreshIsFresh DEF OpenTemporary
  <2> HIDE DEF inode
  <2>2. /\ pc[s] = "bound" /\ pc' = [pc EXCEPT ![s] = "opened"]
        /\ tmp' = inode
        /\ content' = [content EXCEPT ![inode] = None]
        /\ UNCHANGED <<published, file, endpoint, refused>>
    BY <1>6 DEF OpenTemporary, inode, proc_vars
  <2>3. /\ content'[inode] = None
        /\ file # None => content'[file] = content[file]
    BY <1>3, <2>1, <2>2
  <2>4. pc'[s] = "opened" /\ others
    BY <1>3, <2>2
  <2>5. ~WillRemove(s)
    BY <1>3, <2>2 DEF WillRemove
  <2> QED
    BY <1>4, <2>2, <2>3, <2>4, <2>5 DEF LeftToSomebody, HasWritten, WillRemove
<1>6a. CASE OpenFails(s)
  <2>1. /\ pc[s] = "bound" /\ pc' = [pc EXCEPT ![s] = "running"]
        /\ UNCHANGED <<published, tmp, file, content, endpoint, refused>>
    BY <1>6a DEF OpenFails, file_vars, history_vars, proc_vars
  <2>2. pc'[s] = "running" /\ others
    BY <1>3, <2>1
  <2>3. ~WillRemove(s)
    BY <1>3, <2>1 DEF WillRemove
  <2> QED
    BY <1>4, <2>1, <2>2, <2>3 DEF LeftToSomebody, HasWritten, WillRemove
<1>7. CASE WriteTemporary(s)
  <2> DEFINE inode == out[s]
  <2>1. /\ pc[s] = "opened" /\ pc' = [pc EXCEPT ![s] = "written"]
        /\ inode \in Inodes
        /\ content' = [content EXCEPT ![inode] = endpoint[s]]
        /\ UNCHANGED <<published, tmp, file, endpoint, refused>>
    BY <1>3, <1>7 DEF WriteTemporary, proc_vars
  <2> HIDE DEF inode
  <2>2. \A i \in Inodes : content'[i] = IF i = inode THEN endpoint[s] ELSE content[i]
    BY <1>3, <2>1
  <2>3. pc'[s] = "written" /\ others
    BY <1>3, <2>1
  <2>4. ~WillRemove(s)
    BY <1>3, <2>1 DEF WillRemove
  <2>5. tmp' # None
          => \E t \in Servers : pc'[t] \in {"opened", "written", "fallback", "last_try"}
    BY <2>3
  <2>6. tmp' # None /\ content'[tmp'] # None
          => \E t \in Servers : HasWritten(t)' /\ endpoint'[t] = content'[tmp']
    <3>1. CASE tmp = inode
      BY <1>3, <2>1, <2>2, <2>3, <3>1 DEF HasWritten
    <3>2. CASE tmp # inode
      BY <1>3, <1>4, <2>1, <2>2, <2>3, <3>2 DEF HasWritten
    <3> QED
      BY <3>1, <3>2
  <2>7. file' # None /\ content'[file'] # None
          => \E t \in Servers : WillRemove(t)' /\ endpoint'[t] = content'[file']
    <3>1. CASE file = inode
      BY <1>3, <2>1, <2>2, <2>3, <3>1 DEF WillRemove
    <3>2. CASE file # inode
      BY <1>3, <1>4, <2>1, <2>2, <2>3, <2>4, <3>2 DEF WillRemove
    <3> QED
      BY <3>1, <3>2
  <2> QED
    BY <2>5, <2>6, <2>7 DEF LeftToSomebody, HasWritten, WillRemove
<1>8. CASE WriteFails(s)
  <2>1. /\ pc[s] = "opened" /\ pc' = [pc EXCEPT ![s] = "running"]
        /\ tmp' = None
        /\ UNCHANGED <<published, file, content, endpoint, refused>>
    BY <1>8 DEF WriteFails, Removal, proc_vars
  <2>2. pc'[s] = "running" /\ others
    BY <1>3, <2>1
  <2>3. ~WillRemove(s)
    BY <1>3, <2>1 DEF WillRemove
  <2> QED
    BY <1>4, <2>1, <2>2, <2>3 DEF LeftToSomebody, HasWritten, WillRemove
<1>9. ASSUME pc[s] \in {"written", "last_try"}, Rename(s)
      PROVE  LeftToSomebody'
  <2>1. /\ tmp # None /\ tmp' = None /\ file' = tmp
        /\ pc' = [pc EXCEPT ![s] = "running"]
        /\ published' = [published EXCEPT ![s] = TRUE]
        /\ UNCHANGED <<content, endpoint, refused>>
    BY <1>9 DEF Rename, proc_vars
  <2>2. pc'[s] = "running" /\ published'[s] /\ others
    BY <1>3, <2>1
  <2>3. ASSUME content[tmp] # None
        PROVE  \E t \in Servers : WillRemove(t)' /\ endpoint'[t] = content[tmp]
    <3>1. PICK t \in Servers : HasWritten(t) /\ endpoint[t] = content[tmp]
      BY <1>4, <2>1, <2>3
    <3>2. CASE t = s
      BY <2>1, <2>2, <3>1, <3>2 DEF WillRemove
    <3>3. CASE t # s /\ pc[t] \in {"written", "fallback"}
      BY <2>2, <3>1, <3>3 DEF WillRemove
    <3>4. ASSUME t # s, pc[t] = "last_try", refused PROVE FALSE
      <4>1. disturbed'
        BY <1>9, <3>4 DEF Rename, Touches, Busy
      <4> QED
        BY <2>1, <3>4, <4>1
    <3> QED
      BY <3>1, <3>2, <3>3, <3>4 DEF HasWritten
  <2> QED
    BY <2>1, <2>3 DEF LeftToSomebody, WillRemove
<1>10. CASE pc[s] = "written" /\ RenameFails(s, "fallback") /\ UNCHANGED tmp
  <2>1. /\ pc' = [pc EXCEPT ![s] = "fallback"]
        /\ UNCHANGED <<published, file, content, endpoint>>
        /\ refused' = (refused \/ tmp # None)
    BY <1>10 DEF RenameFails, proc_vars
  <2>2. pc'[s] = "fallback" /\ others
    BY <1>3, <2>1
  <2>3. tmp # None /\ content[tmp] # None
          => \E t \in Servers : HasWritten(t)' /\ endpoint'[t] = content[tmp]
    BY <1>4, <1>10, <2>1, <2>2 DEF HasWritten
  <2>4. /\ tmp' # None
             => \E t \in Servers : pc'[t] \in {"opened", "written", "fallback", "last_try"}
        /\ file # None /\ content[file] # None
             => \E t \in Servers : WillRemove(t)' /\ endpoint'[t] = content[file]
    BY <1>4, <1>10, <2>1, <2>2 DEF WillRemove
  <2> QED
    BY <1>10, <2>1, <2>3, <2>4 DEF LeftToSomebody, HasWritten, WillRemove
<1>11. CASE pc[s] = "last_try" /\ RenameFails(s, "running") /\ Removal(tmp)
  <2>1. /\ pc' = [pc EXCEPT ![s] = "running"]
        /\ tmp' = None
        /\ UNCHANGED <<published, file, content, endpoint>>
    BY <1>11 DEF RenameFails, Removal, proc_vars
  <2>2. pc'[s] = "running" /\ others
    BY <1>3, <2>1
  <2>3. ~WillRemove(s)
    BY <1>3, <1>11 DEF WillRemove
  <2> QED
    BY <1>4, <2>1, <2>2, <2>3 DEF LeftToSomebody, WillRemove
<1>11a. CASE Publish(s) \/ PublishAgain(s)
  BY <1>9, <1>10, <1>11, <1>11a DEF Publish, PublishAgain
<1>12. CASE ClearForRename(s)
  <2>1. /\ pc[s] = "fallback" /\ pc' = [pc EXCEPT ![s] = "last_try"]
        /\ file' = None
        /\ UNCHANGED <<tmp, content, endpoint, refused>>
    BY <1>12 DEF ClearForRename, Removal, proc_vars
  <2>2. pc'[s] = "last_try" /\ \A t \in Servers \ {s} : pc'[t] = pc[t]
    BY <1>3, <2>1
  <2> QED
    BY <1>4, <2>1, <2>2 DEF LeftToSomebody, HasWritten
<1>13. CASE Stop(s)
  <2> DEFINE place == IF published[s] THEN "stopped" ELSE "down"
  <2>1. /\ pc[s] = "running" /\ pc' = [pc EXCEPT ![s] = place]
        /\ UNCHANGED <<published, tmp, file, content, endpoint, refused>>
    BY <1>13 DEF Stop, file_vars, history_vars, proc_vars
  <2>2. pc'[s] = place /\ others
    BY <1>3, <2>1
  <2> QED
    BY <1>4, <2>1, <2>2 DEF LeftToSomebody, HasWritten, WillRemove
<1>14. CASE CheckOwnership(s)
  <2> DEFINE place == IF ReadInfo = endpoint[s] THEN "removing" ELSE "down"
  <2>1. /\ pc[s] = "stopped" /\ pc' = [pc EXCEPT ![s] = place]
        /\ published' = [published EXCEPT ![s] = FALSE]
        /\ UNCHANGED <<tmp, file, content, endpoint, refused>>
    BY <1>14 DEF CheckOwnership, file_vars, proc_vars
  <2>2. pc'[s] = place /\ others
    BY <1>3, <2>1
  <2>3. file # None /\ content[file] = endpoint[s] => place = "removing"
    BY DEF ReadInfo
  <2> HIDE DEF place
  <2> QED
    BY <1>4, <2>1, <2>2, <2>3 DEF LeftToSomebody, HasWritten, WillRemove
<1>15. CASE RemoveInfo(s)
  <2>1. /\ pc[s] = "removing" /\ pc' = [pc EXCEPT ![s] = "down"]
        /\ file' = None
        /\ UNCHANGED <<tmp, content, endpoint, refused>>
    BY <1>15 DEF RemoveInfo, Removal, proc_vars
  <2>2. pc'[s] = "down" /\ \A t \in Servers \ {s} : pc'[t] = pc[t]
    BY <1>3, <2>1
  <2> QED
    BY <1>4, <2>1, <2>2 DEF LeftToSomebody, HasWritten
<1> QED
  BY <1>2, <1>5, <1>6, <1>6a, <1>7, <1>8, <1>11a, <1>12, <1>13, <1>14, <1>15

-----------------------------------------------------------------------------

\* The form, the order of undisturbed servers and what is left to whom hold
\* in every state, by induction over the steps.
LEMMA EndpointIInvHolds == EndpointSpec => []EndpointIInv
<1>1. EndpointInit => EndpointIInv
  <2> SUFFICES ASSUME EndpointInit PROVE EndpointIInv
    OBVIOUS
  <2>1. EndpointForm
    <3>1. /\ pc = [s \in Servers |-> "down"]
          /\ endpoint = [s \in Servers |-> NoEndpoint]
          /\ NoEndpoint \in [port : Nat, started_at : Nat]
          /\ NoEndpoint.started_at = 0
      BY DEF EndpointInit, NoEndpoint
    <3> HIDE DEF NoEndpoint
    <3>2. /\ published = [s \in Servers |-> FALSE] /\ out = [s \in Servers |-> None]
          /\ tmp = None /\ file = None /\ content = [i \in Inodes |-> None] /\ starts = 0
      BY DEF EndpointInit
    <3>3. starts \in 0 .. MaxStarts
      BY <3>2, EndpointAssumption DEF EndpointAssumption
    <3>4. \A s \in Servers : pc[s] = "down" /\ out[s] = None /\ ~published[s]
                              /\ endpoint[s].started_at <= starts
      BY <3>1, <3>2
    <3>5. pc \in [Servers -> {"down", "stopped"} \cup Bound \cup Busy]
      BY <3>1
    <3>6. endpoint \in [Servers -> [port : Nat, started_at : Nat]]
      BY <3>1
    <3>7. /\ published \in [Servers -> BOOLEAN] /\ out \in [Servers -> Inodes \cup {None}]
          /\ content \in [Inodes -> Endpoints \cup {None}]
          /\ tmp \in Inodes \cup {None} /\ file \in Inodes \cup {None} /\ tmp = None
      BY <3>2
    <3>8. \A s \in Servers : pc[s] # "opened" /\ pc[s] \notin Bound
      BY <3>4 DEF Bound, Busy
    <3> QED
      BY <3>3, <3>4, <3>5, <3>6, <3>7, <3>8 DEF EndpointForm
  <2>2. Undisturbed
    BY DEF EndpointInit, Undisturbed, Busy
  <2>3. LeftToSomebody
    BY DEF EndpointInit, LeftToSomebody
  <2> QED
    BY <2>1, <2>2, <2>3 DEF EndpointIInv
<1>2. EndpointIInv /\ [EndpointNext]_endpoint_vars => EndpointIInv'
  BY EndpointAssumption, FormKept, UndisturbedKept, LeftKept DEF EndpointIInv
<1> QED
  BY <1>1, <1>2, PTL DEF EndpointSpec

\* Whichever servers start, stop and crash, and whichever operations on the files
\* fail: no two are bound to one port, and as long as no two were at the files at a
\* time, clients find the last of them to publish, unless the fallback of another,
\* whose rename was refused, has taken the file away since (write_active_server_info,
\* and the cleanup of main that looks whose file it is).
THEOREM EndpointInvHolds == EndpointSpec => []EndpointInv
<1>1. EndpointIInv => EndpointInv
  <2> SUFFICES ASSUME EndpointIInv PROVE EndpointInv
    OBVIOUS
  <2>1. EndpointForm /\ Undisturbed
    BY DEF EndpointIInv
  <2>2. EndpointTypes
    <3>1. \A s \in Servers : pc[s] \in Bound => pc[s] # "down"
      BY DEF Bound, Busy
    <3> QED
      BY <2>1, <3>1 DEF EndpointForm, EndpointTypes
  <2>3. LastIsFound
    BY <2>1 DEF Undisturbed, LastIsFound, ReadInfo
  <2> QED
    BY <2>2, <2>3 DEF EndpointInv
<1> QED
  BY <1>1, EndpointIInvHolds, PTL

\* However publishing and stopping of any number of servers overlap: when all
\* have ended in order, nothing is left that sends a client anywhere, and no
\* temporary file (the rename, its fallback and the failed write); and no rename that
\* is refused changes that, as long as no two were at the files at a time.
THEOREM NothingIsLeftHolds == EndpointSpec => []NothingIsLeft
<1>1. EndpointIInv => NothingIsLeft
  <2> SUFFICES ASSUME EndpointIInv, ~abandoned, ~(refused /\ disturbed),
                      \A s \in Servers : pc[s] = "down"
               PROVE  ReadInfo = None /\ tmp = None
    BY DEF NothingIsLeft
  <2>1. \A s \in Servers : ~WillRemove(s)
    BY DEF WillRemove
  <2> QED
    BY <2>1 DEF EndpointIInv, LeftToSomebody, ReadInfo
<1> QED
  BY <1>1, EndpointIInvHolds, PTL

-----------------------------------------------------------------------------
(* What players are shown *)

\* A set with 0, and with n + 1 whenever with n, has every number.
LEMMA Induction ==
  ASSUME NEW S, 0 \in S, \A n \in Nat : n \in S => n + 1 \in S
  PROVE  Nat \subseteq S
<1> SUFFICES ASSUME Nat \ S # {} PROVE FALSE
  OBVIOUS
<1>1. PICK n \in Nat \ S : \A m \in Nat \ S : n <= m
  BY LeastNumber
<1>2. n - 1 \in Nat /\ n - 1 \in S
  BY <1>1
<1> QED
  BY <1>1, <1>2

\* The sequences glued together, up to each of them.
IsFlattened(f, seqs, n) ==
  f = [i \in 1 .. n |-> IF i = 1 THEN seqs[i] ELSE f[i - 1] \o seqs[i]]

LEMMA FlattenedExists ==
  ASSUME NEW seqs, NEW n \in Nat
  PROVE  \E f : IsFlattened(f, seqs, n)
<1> DEFINE S == {k \in Nat : \E f : IsFlattened(f, seqs, k)}
<1>1. 0 \in S
  <2>1. IsFlattened([i \in 1 .. 0 |-> seqs[i]], seqs, 0)
    BY DEF IsFlattened
  <2> QED
    BY <2>1
<1>2. ASSUME NEW k \in Nat, k \in S PROVE k + 1 \in S
  <2>1. PICK f : IsFlattened(f, seqs, k)
    BY <1>2
  <2> DEFINE longer == IF k = 0 THEN seqs[1] ELSE f[k] \o seqs[k + 1]
             g == [i \in 1 .. k + 1 |-> IF i <= k THEN f[i] ELSE longer]
  <2> HIDE DEF longer
  <2>2. ASSUME NEW i \in 1 .. k + 1
        PROVE  g[i] = IF i = 1 THEN seqs[i] ELSE g[i - 1] \o seqs[i]
    <3>1. CASE i = k + 1
      <4>1. CASE k = 0
        BY <3>1, <4>1 DEF longer
      <4>2. CASE k # 0
        <5>1. g[i] = longer /\ g[i - 1] = f[k] /\ i # 1
          BY <3>1, <4>2
        <5>2. longer = f[k] \o seqs[i]
          BY <3>1, <4>2 DEF longer
        <5> QED
          BY <5>1, <5>2
      <4> QED
        BY <4>1, <4>2
    <3>2. CASE i <= k
      <4>1. i \in 1 .. k
        BY <3>2
      <4>2. f[i] = IF i = 1 THEN seqs[i] ELSE f[i - 1] \o seqs[i]
        BY <2>1, <4>1 DEF IsFlattened
      <4>3. g[i] = f[i] /\ (i # 1 => g[i - 1] = f[i - 1])
        BY <4>1
      <4> HIDE DEF g
      <4> QED
        BY <4>2, <4>3
    <3> QED
      BY <3>1, <3>2
  <2>3. g = [i \in 1 .. k + 1 |-> g[i]]
    OBVIOUS
  <2> HIDE DEF g
  <2>4. IsFlattened(g, seqs, k + 1)
    BY <2>2, <2>3 DEF IsFlattened
  <2> QED
    BY <2>4
<1> HIDE DEF S
<1>3. n \in S
  BY <1>1, <1>2, Induction
<1> QED
  BY <1>3 DEF S

\* Gluing sequences of a kind gives a sequence of that kind.
LEMMA FlattenedTyped ==
  ASSUME NEW T, NEW seqs \in Seq(Seq(T))
  PROVE  FlattenSeq(seqs) \in Seq(T)
<1> DEFINE n == Len(seqs)
           flatten == CHOOSE f : IsFlattened(f, seqs, n)
<1>1. n \in Nat /\ DOMAIN seqs = 1 .. n /\ \A i \in 1 .. n : seqs[i] \in Seq(T)
  OBVIOUS
<1>2. CASE n = 0
  <2>1. FlattenSeq(seqs) = seqs
    BY <1>2 DEF FlattenSeq
  <2>2. seqs = <<>> /\ <<>> \in Seq(T)
    BY <1>2
  <2> QED
    BY <2>1, <2>2
<1>3. CASE n # 0
  <2>1. FlattenSeq(seqs) = flatten[n]
    BY <1>3 DEF FlattenSeq, IsFlattened
  <2>2. IsFlattened(flatten, seqs, n)
    BY <1>1, FlattenedExists
  <2> HIDE DEF flatten, n
  <2> DEFINE S == {k \in Nat : k \in 1 .. n => flatten[k] \in Seq(T)}
  <2>3. 0 \in S
    OBVIOUS
  <2>4. ASSUME NEW k \in Nat, k \in S PROVE k + 1 \in S
    <3> SUFFICES ASSUME k + 1 \in 1 .. n PROVE flatten[k + 1] \in Seq(T)
      OBVIOUS
    <3>1. \A i \in 1 .. n : flatten[i] = IF i = 1 THEN seqs[i]
                                        ELSE flatten[i - 1] \o seqs[i]
      BY <2>2 DEF IsFlattened
    <3>2. seqs[k + 1] \in Seq(T)
      BY <1>1
    <3>3. CASE k = 0
      BY <3>1, <3>2, <3>3
    <3>4. CASE k # 0
      <4>1. flatten[k] \in Seq(T)
        BY <1>1, <2>4, <3>4
      <4>2. (k + 1) - 1 = k /\ k + 1 # 1
        BY <3>4
      <4>3. flatten[k + 1] = flatten[k] \o seqs[k + 1]
        BY <3>1, <4>2, Zenon
      <4> QED
        BY <3>2, <4>1, <4>3
    <3> QED
      BY <3>3, <3>4
  <2> HIDE DEF S
  <2>5. n \in S
    BY <1>1, <2>3, <2>4, Induction
  <2> QED
    BY <1>1, <1>3, <2>1, <2>5 DEF S
<1> QED
  BY <1>2, <1>3

-----------------------------------------------------------------------------

\* What is on its way, by kind.
Hits == [type : {"damage_event"}, tick : Nat, attacker_id : Players, victim_id : Players,
         shot_seq : Nat, victim_health : 0 .. StartingHealth, lethal : BOOLEAN]
DeathEvents == [type : {"death_event"}, tick : Nat, victim_id : Players, killer_id : Players]
RespawnEvents == [type : {"respawn_event"}, tick : Nat, player_id : Players]
PhaseEvents == [type : {"match_state_changed"}, tick : Nat, state : Phases]
Events == Hits \cup DeathEvents \cup RespawnEvents \cup PhaseEvents

Accepts == [type : {"join_accept"}]
MatchStates == [type : {"match_state"}, state : Phases]
Updates == [type : {"inventory_update"}, coins : Coins]
Snapshots == [type : {"state_snapshot"}, health : 0 .. StartingHealth, coins : Coins,
              events : Seq(Events), match_state : Phases]
Packets == Accepts \cup MatchStates \cup Updates \cup Hits \cup Snapshots

Shots == [attacker_id : Players, shot_seq : Nat]
Signatures == Nat \X Players \X Players \X Nat
ShownPhases == Phases \cup {"unknown"}
Huds == [has_player_state : BOOLEAN, health : 0 .. StartingHealth, alive : BOOLEAN,
         coins : Coins, match_state : ShownPhases]
Feeds == [last_match_state : ShownPhases, recent : Seq(Signatures)]

ServerForm ==
  /\ tick \in 0 .. MaxTick
  /\ phase \in Phases
  /\ in_session \in BOOLEAN
  /\ health \in [IF in_session THEN Players ELSE {Rival} -> 0 .. StartingHealth]
  /\ DOMAIN last_shot_seq \subseteq Players
  /\ last_shot_seq \in [DOMAIN last_shot_seq -> Nat]
  /\ flying \subseteq Shots /\ IsFiniteSet(flying)
  /\ coins \in Coins
  /\ pending_snapshot_events \in Seq(Events)
  /\ told \subseteq Hits

\* A client that has not read its JoinAccept shows nothing.
ClientForm ==
  /\ inbox \in Seq(Packets)
  /\ client \in {"gone", "joining", "joined"}
  /\ hud \in Huds
  /\ feed \in Feeds /\ Len(feed.recent) <= RingSize
  /\ next_shot_seq \in 1 .. MaxShots + 1
  /\ seen_snapshot \in BOOLEAN
  /\ DOMAIN shown \subseteq Hits \cup DeathEvents
  /\ shown \in [DOMAIN shown -> Nat \ {0}]
  /\ client = "gone" => inbox = <<>>
  /\ client = "joining" => inbox # <<>> /\ inbox[1] \in Accepts
  /\ client # "joined" => next_shot_seq = 1 /\ ~seen_snapshot /\ shown = EmptyMap
                          /\ feed = BlankFeed /\ hud = BlankHud
  /\ \A i \in DOMAIN inbox : inbox[i] \in Accepts => i = 1 /\ client = "joining"

\* Shots come in order, and after whatever the server has heard.
ShotsInOrder ==
  /\ outbox \in Seq(Nat)
  /\ \A i, j \in DOMAIN outbox : i < j => outbox[i] < outbox[j]
  /\ in_session => \A i \in DOMAIN outbox : LastShot(Local) < outbox[i]
  /\ client = "joined" => /\ LastShot(Local) < next_shot_seq
                          /\ \A i \in DOMAIN outbox : outbox[i] < next_shot_seq
  /\ client = "joining" => outbox = <<>> /\ LastShot(Local) = 0
  /\ ~in_session => Local \notin DOMAIN last_shot_seq

-----------------------------------------------------------------------------

\* The last of the tellers in s tells what is right, or, where none is on its way
\* any more, it is shown already.
Follows(s, tellers, right, is_shown) ==
  \/ \E i \in DOMAIN s : s[i] \in right /\ \A j \in DOMAIN s : i < j => s[j] \notin tellers
  \/ (\A i \in DOMAIN s : s[i] \notin tellers) /\ is_shown

Served == client # "gone" /\ in_session

HudPhaseTellers == MatchStates \cup Snapshots
HudPhaseRight ==
  {p \in MatchStates : p.state = phase} \cup {p \in Snapshots : p.match_state = phase}

PhaseEventsRight == {e \in PhaseEvents : e.state = phase}

FeedPhaseTellers ==
  MatchStates \cup {p \in Snapshots : \E i \in DOMAIN p.events : p.events[i] \in PhaseEvents}
FeedPhaseRight ==
  {p \in MatchStates : p.state = phase}
    \cup {p \in Snapshots : Follows(p.events, PhaseEvents, PhaseEventsRight, FALSE)}

PhaseOnItsWay ==
  /\ Follows(pending_snapshot_events, PhaseEvents, PhaseEventsRight, TRUE)
  /\ Served =>
       /\ Follows(inbox, HudPhaseTellers, HudPhaseRight,
                  client = "joined" /\ hud.match_state = phase)
       /\ Follows(inbox, FeedPhaseTellers, FeedPhaseRight,
                  client = "joined" /\ feed.last_match_state = phase)

CoinTellers == Updates \cup Snapshots
CoinsRight == {p \in CoinTellers : p.coins = coins}

HealthTellers == {h \in Hits : h.victim_id = Local} \cup Snapshots
HealthRight ==
  {h \in Hits : /\ h.victim_id = Local
                /\ h.victim_health = health[Local] /\ h.lethal = (health[Local] = 0)}
    \cup {p \in Snapshots : p.health = health[Local]}

SnapshotComes == seen_snapshot \/ \E i \in DOMAIN inbox : inbox[i] \in Snapshots

RespawnPends ==
  \E i \in DOMAIN pending_snapshot_events :
    /\ pending_snapshot_events[i] \in RespawnEvents
    /\ pending_snapshot_events[i].player_id = Local

StateOnItsWay ==
  Served /\ SnapshotComes =>
    /\ Follows(inbox, CoinTellers, CoinsRight, hud.has_player_state /\ hud.coins = coins)
    /\ \/ Follows(inbox, HealthTellers, HealthRight,
                  /\ hud.has_player_state /\ hud.health = health[Local]
                  /\ hud.alive = (health[Local] > 0))
       \/ RespawnPends

-----------------------------------------------------------------------------

HitsIn(events) == Range(events) \cap Hits
EventsOf(packet) == IF packet \in Snapshots THEN packet.events ELSE <<packet>>
HitsTo(packet) == HitsIn(EventsOf(packet))
HitsShown == DOMAIN shown \cap Hits

HitsComing == UNION {HitsTo(inbox[i]) : i \in DOMAIN inbox}

\* All hits that are shown, or may still be, or should have been.
Known == HitsShown \cup HitsComing \cup HitsIn(pending_snapshot_events) \cup told

\* The snapshot interval of a hit, of a signature and of the coming tick.
IntervalOf(hit) == (hit.tick - 1) \div SnapshotInterval
IntervalIn(signature) == (signature[1] - 1) \div SnapshotInterval
ThisInterval == tick \div SnapshotInterval

SignaturesAt(hits, t) == {Signature(e) : e \in {f \in hits : f.tick = t}}

\* A tick makes no more hits than weapons allow, and no two that look the same.
FewHits(hits) ==
  /\ \A e, f \in hits : Signature(e) = Signature(f) => e = f
  /\ \A t \in Nat : /\ IsFiniteSet(SignaturesAt(hits, t))
                    /\ Cardinality(SignaturesAt(hits, t)) <= MaxHitsPerTick

\* Hits come interval by interval.
HitsInOrder ==
  /\ \A e \in Known : e.tick \in 1 .. tick
  /\ \A e \in HitsIn(pending_snapshot_events) : IntervalOf(e) = ThisInterval
  /\ \A i \in DOMAIN inbox : \A e \in HitsTo(inbox[i]) :
       /\ \A f \in HitsShown : IntervalOf(f) <= IntervalOf(e)
       /\ \A j \in DOMAIN inbox : \A f \in HitsTo(inbox[j]) :
            /\ i < j => IntervalOf(e) <= IntervalOf(f)
            /\ i = j => IntervalOf(e) = IntervalOf(f)

\* The ring holds signatures of what was shown, in the order of the intervals;
\* what fell out of it is of no later interval than what is in it.
RingInOrder(recent, messages) ==
  /\ \A i \in DOMAIN recent : \E e \in DOMAIN messages \cap Hits : recent[i] = Signature(e)
  /\ \A i, j \in DOMAIN recent :
       i < j => recent[i] # recent[j] /\ IntervalIn(recent[i]) <= IntervalIn(recent[j])
  /\ RingHolds => \A e \in DOMAIN messages \cap Hits : messages[e] = 1
  /\ \A e \in DOMAIN messages \cap Hits :
       Signature(e) \notin Range(recent)
            => /\ Len(recent) = RingSize
               /\ \A i \in DOMAIN recent : IntervalOf(e) <= IntervalIn(recent[i])

ToldIsComing == Served => told \subseteq HitsShown \cup Range(inbox)

HitsInv ==
  FewHits(Known) /\ HitsInOrder /\ RingInOrder(feed.recent, shown) /\ ToldIsComing

FeedForm == ServerForm /\ ClientForm /\ ShotsInOrder
FeedIInv == FeedForm /\ PhaseOnItsWay /\ StateOnItsWay /\ HitsInv
-----------------------------------------------------------------------------

\* The elements of a sequence and of what is left of it.
LEMMA TailIs ==
  ASSUME NEW T, NEW s \in Seq(T), s # <<>>
  PROVE  /\ Len(s) \in Nat \ {0} /\ DOMAIN s = 1 .. Len(s) /\ 1 \in DOMAIN s
         /\ s[1] \in T /\ Head(s) = s[1]
         /\ Tail(s) \in Seq(T) /\ DOMAIN Tail(s) = 1 .. Len(s) - 1
         /\ Len(Tail(s)) = Len(s) - 1
         /\ \A i \in DOMAIN Tail(s) : Tail(s)[i] = s[i + 1] /\ i + 1 \in DOMAIN s
         /\ \A i \in DOMAIN s : i = 1 \/ (i - 1 \in DOMAIN Tail(s) /\ s[i] = Tail(s)[i - 1])
<1>1. /\ Len(s) \in Nat \ {0} /\ DOMAIN s = 1 .. Len(s) /\ 1 \in DOMAIN s
      /\ s[1] \in T /\ Head(s) = s[1]
  OBVIOUS
<1>2. /\ Tail(s) \in Seq(T) /\ DOMAIN Tail(s) = 1 .. Len(s) - 1
      /\ Len(Tail(s)) = Len(s) - 1
  OBVIOUS
<1>3. \A i \in 1 .. Len(s) - 1 : Tail(s)[i] = s[i + 1]
  OBVIOUS
<1> DEFINE t == Tail(s)
           n == Len(s)
<1>4. n \in Nat /\ \A i \in 1 .. n - 1 : t[i] = s[i + 1]
  BY <1>1, <1>3
<1> HIDE DEF t, n
<1>5. \A i \in 1 .. n - 1 : i + 1 \in 1 .. n
  BY <1>4
<1>6. \A i \in 1 .. n : i = 1 \/ (i - 1 \in 1 .. n - 1 /\ s[i] = t[i - 1])
  <2> SUFFICES ASSUME NEW i \in 1 .. n, i # 1
               PROVE  i - 1 \in 1 .. n - 1 /\ s[i] = t[i - 1]
    OBVIOUS
  <2>1. i - 1 \in 1 .. n - 1 /\ (i - 1) + 1 = i
    BY <1>4
  <2>2. t[i - 1] = s[(i - 1) + 1]
    BY <1>4, <2>1, Zenon
  <2> QED
    BY <2>1, <2>2
<1> QED
  BY <1>1, <1>2, <1>4, <1>5, <1>6, Zenon DEF t, n

\* The elements of two sequences in a row.
LEMMA ConcatIs ==
  ASSUME NEW T, NEW s \in Seq(T), NEW t \in Seq(T),
         NEW m, m = Len(s), NEW n, n = Len(t), NEW w, w = s \o t
  PROVE  /\ w \in Seq(T) /\ m \in Nat /\ n \in Nat
         /\ DOMAIN s = 1 .. m /\ DOMAIN t = 1 .. n /\ DOMAIN w = 1 .. m + n
         /\ \A i \in 1 .. m : w[i] = s[i] /\ i \in DOMAIN w
         /\ \A i \in 1 .. n : w[m + i] = t[i] /\ m + i \in DOMAIN w
         /\ \A i \in DOMAIN w : i \in 1 .. m \/ (i - m \in 1 .. n /\ w[i] = t[i - m])
  OBVIOUS

\* When the first element is read, the rest still leads to what is right, ...
LEMMA FollowsTail ==
  ASSUME NEW U, NEW s \in Seq(U), s # <<>>, NEW tellers, NEW right, NEW B, NEW C,
         Follows(s, tellers, right, B),
         s[1] \in right => C,
         s[1] \notin tellers /\ B => C
  PROVE  Follows(Tail(s), tellers, right, C)
<1> DEFINE t == Tail(s)
           n == Len(s)
<1>1. /\ n \in Nat \ {0} /\ DOMAIN s = 1 .. n /\ 1 \in DOMAIN s /\ DOMAIN t = 1 .. n - 1
      /\ \A i \in DOMAIN t : t[i] = s[i + 1] /\ i + 1 \in DOMAIN s
      /\ \A i \in DOMAIN s : i = 1 \/ (i - 1 \in DOMAIN t /\ s[i] = t[i - 1])
  BY TailIs, Zenon
<1> HIDE DEF t, n
<1>2. CASE \A i \in DOMAIN s : s[i] \notin tellers
  BY <1>1, <1>2 DEF Follows
<1>3. ASSUME NEW i \in DOMAIN s, s[i] \in right,
             \A j \in DOMAIN s : i < j => s[j] \notin tellers
      PROVE  Follows(t, tellers, right, C)
  <2>1. CASE i = 1
    <3>1. \A j \in DOMAIN t : t[j] \notin tellers
      BY <1>1, <1>3, <2>1
    <3> QED
      BY <1>3, <2>1, <3>1 DEF Follows
  <2>2. CASE i # 1
    <3>1. i - 1 \in DOMAIN t /\ t[i - 1] \in right
      BY <1>1, <1>3, <2>2
    <3>2. \A j \in DOMAIN t : i - 1 < j => t[j] \notin tellers
      BY <1>1, <1>3
    <3> QED
      BY <3>1, <3>2 DEF Follows
  <2> QED
    BY <2>1, <2>2
<1> QED
  BY <1>2, <1>3 DEF Follows, t

\* ... and so does what more is sent, when it tells what is right, ...
LEMMA FollowsMore ==
  ASSUME NEW U, NEW s \in Seq(U), NEW t \in Seq(U), NEW tellers, NEW right, NEW C,
         Follows(t, tellers, right, FALSE)
  PROVE  Follows(s \o t, tellers, right, C)
<1> DEFINE w == s \o t
           m == Len(s)
           n == Len(t)
<1>0. w = s \o t /\ m = Len(s) /\ n = Len(t)
  OBVIOUS
<1> HIDE DEF w, m, n
<1>1. /\ m \in Nat /\ n \in Nat /\ DOMAIN s = 1 .. m /\ DOMAIN t = 1 .. n
      /\ DOMAIN w = 1 .. m + n
      /\ \A i \in 1 .. n : w[m + i] = t[i] /\ m + i \in DOMAIN w
      /\ \A i \in DOMAIN w : i \in 1 .. m \/ (i - m \in 1 .. n /\ w[i] = t[i - m])
  BY <1>0, ConcatIs
<1>2. PICK i \in DOMAIN t : t[i] \in right /\ \A j \in DOMAIN t : i < j => t[j] \notin tellers
  BY DEF Follows
<1>3. m + i \in DOMAIN w /\ w[m + i] \in right
  BY <1>1, <1>2
<1>4. \A j \in DOMAIN w : m + i < j => w[j] \notin tellers
  BY <1>1, <1>2
<1> QED
  BY <1>3, <1>4 DEF Follows, w

\* ... or tells nothing.
LEMMA FollowsSilent ==
  ASSUME NEW U, NEW s \in Seq(U), NEW t \in Seq(U), NEW tellers, NEW right, NEW B,
         \A i \in DOMAIN t : t[i] \notin tellers,
         Follows(s, tellers, right, B)
  PROVE  Follows(s \o t, tellers, right, B)
<1> DEFINE w == s \o t
           m == Len(s)
           n == Len(t)
<1>0. w = s \o t /\ m = Len(s) /\ n = Len(t)
  OBVIOUS
<1> HIDE DEF w, m, n
<1>1. /\ m \in Nat /\ n \in Nat /\ DOMAIN s = 1 .. m /\ DOMAIN t = 1 .. n
      /\ DOMAIN w = 1 .. m + n
      /\ \A i \in 1 .. m : w[i] = s[i] /\ i \in DOMAIN w
      /\ \A i \in DOMAIN w : i \in 1 .. m \/ (i - m \in 1 .. n /\ w[i] = t[i - m])
  BY <1>0, ConcatIs
<1>2. \A i \in 1 .. m : i \in DOMAIN w
  BY <1>1
<1>3. \A i \in DOMAIN w : i \notin 1 .. m => w[i] \notin tellers
  BY <1>1
<1>4. ASSUME NEW i \in DOMAIN s, s[i] \in right,
             \A j \in DOMAIN s : i < j => s[j] \notin tellers
      PROVE  Follows(w, tellers, right, B)
  <2>1. i \in DOMAIN w /\ w[i] \in right
    BY <1>1, <1>2, <1>4
  <2>2. \A j \in DOMAIN w : i < j => w[j] \notin tellers
    BY <1>1, <1>3, <1>4
  <2> QED
    BY <2>1, <2>2 DEF Follows
<1>5. CASE (\A i \in DOMAIN s : s[i] \notin tellers) /\ B
  <2>1. \A i \in DOMAIN w : w[i] \notin tellers
    BY <1>1, <1>3, <1>5
  <2> QED
    BY <1>5, <2>1 DEF Follows
<1> QED
  BY <1>4, <1>5 DEF Follows, w

\* A sequence of one.
LEMMA FollowsOne ==
  ASSUME NEW e, NEW tellers, NEW right, e \in right, NEW C
  PROVE  Follows(<<e>>, tellers, right, C)
<1>1. DOMAIN <<e>> = 1 .. 1 /\ <<e>>[1] = e
  OBVIOUS
<1>2. 1 \in DOMAIN <<e>> /\ \A j \in DOMAIN <<e>> : 1 < j => <<e>>[j] \notin tellers
  BY <1>1
<1> QED
  BY <1>1, <1>2 DEF Follows
-----------------------------------------------------------------------------

IsInOrder(s, hits) ==
  /\ s \in [1 .. Cardinality(hits) -> hits]
  /\ \A i, j \in 1 .. Cardinality(hits) : i < j => Earlier(s[i], s[j])

\* Of finitely many shots one is the last.
LEMMA LatestShot ==
  ASSUME NEW hits, hits \subseteq Shots, IsFiniteSet(hits), hits # {}
  PROVE  \E p \in hits : \A q \in hits \ {p} : Earlier(q, p)
<1> DEFINE Later(p) == {q \in hits : Earlier(p, q)}
           counts == {Cardinality(Later(p)) : p \in hits}
<1>1. \A p \in hits : IsFiniteSet(Later(p)) /\ Cardinality(Later(p)) \in Nat
  <2> TAKE p \in hits
  <2>1. IsFiniteSet(Later(p))
    BY FS_Subset
  <2> QED
    BY <2>1, FS_CardinalityType
<1>2. counts \subseteq Nat /\ counts # {}
  BY <1>1
<1>3. PICK n \in counts : \A m \in counts : n <= m
  BY <1>2, LeastNumber
<1>4. PICK p \in hits : n = Cardinality(Later(p))
  OBVIOUS
<1>5. ASSUME NEW q \in hits \ {p} PROVE Earlier(q, p)
  <2> SUFFICES ASSUME ~Earlier(q, p) PROVE FALSE
    OBVIOUS
  <2>1. \A r \in hits : /\ r.attacker_id \in {1, 2} /\ r.shot_seq \in Nat
                        /\ r = [attacker_id |-> r.attacker_id, shot_seq |-> r.shot_seq]
    BY DEF Shots, Players, Local, Rival
  <2>2. Earlier(p, q) /\ ~Earlier(q, q)
    BY <2>1 DEF Earlier
  <2>3. \A r \in hits : Earlier(q, r) => Earlier(p, r)
    BY <2>1, <2>2 DEF Earlier
  <2>4. Later(q) \subseteq Later(p) /\ q \in Later(p) /\ q \notin Later(q)
    BY <2>2, <2>3
  <2>5. Later(q) # Later(p) /\ IsFiniteSet(Later(p))
    BY <1>1, <2>4
  <2> HIDE DEF Later
  <2>6. Cardinality(Later(q)) < Cardinality(Later(p))
    BY <1>1, <2>4, <2>5, FS_Subset
  <2>7. n <= Cardinality(Later(q))
    BY <1>3
  <2> QED
    BY <1>1, <1>4, <2>6, <2>7
<1> QED
  BY <1>5

\* Finitely many shots can be put into their order.
LEMMA OrderExists ==
  ASSUME NEW hits, hits \subseteq Shots, IsFiniteSet(hits)
  PROVE  \E s : IsInOrder(s, hits)
<1> DEFINE Bad == {Cardinality(some) : some \in
                     {t \in SUBSET hits : ~ \E s : IsInOrder(s, t)}}
<1>1. \A some \in SUBSET hits : IsFiniteSet(some) /\ Cardinality(some) \in Nat
  <2> TAKE some \in SUBSET hits
  <2>1. IsFiniteSet(some)
    BY FS_Subset
  <2> QED
    BY <2>1, FS_CardinalityType
<1>2. CASE Bad = {}
  <2>1. hits \in SUBSET hits
    OBVIOUS
  <2> QED
    BY <1>2, <2>1
<1>3. CASE Bad # {}
  <2>1. Bad \subseteq Nat
    BY <1>1
  <2>2. PICK n \in Bad : \A m \in Bad : n <= m
    BY <1>3, <2>1, LeastNumber
  <2>3. PICK some \in SUBSET hits : n = Cardinality(some) /\ ~ \E s : IsInOrder(s, some)
    OBVIOUS
  <2>4. CASE some = {}
    <3>1. Cardinality({}) = 0
      BY FS_EmptySet
    <3>2. IsInOrder(<<>>, {})
      BY <3>1 DEF IsInOrder
    <3> QED
      BY <2>3, <2>4, <3>2
  <2>5. CASE some # {}
    <3>1. PICK p \in some : \A q \in some \ {p} : Earlier(q, p)
      BY <1>1, <2>5, LatestShot
    <3> DEFINE rest == some \ {p}
               k == Cardinality(rest)
    <3>2. rest \in SUBSET hits /\ k \in Nat /\ n = k + 1
      <4>1. IsFiniteSet(some) /\ rest \in SUBSET hits
        BY <1>1
      <4>2. Cardinality(some \ {p}) = Cardinality(some) - 1
        BY <4>1, FS_RemoveElement
      <4> QED
        BY <1>1, <2>3, <4>1, <4>2
    <3>3. PICK s : IsInOrder(s, rest)
      <4> SUFFICES ASSUME ~ \E s : IsInOrder(s, rest) PROVE FALSE
        OBVIOUS
      <4>1. k \in Bad
        BY <3>2
      <4> HIDE DEF Bad, k
      <4>2. n <= k
        BY <2>2, <4>1
      <4> QED
        BY <3>2, <4>2
    <3> DEFINE longer == [i \in 1 .. k + 1 |-> IF i = k + 1 THEN p ELSE s[i]]
    <3>4. /\ s \in [1 .. k -> rest]
          /\ \A i, j \in 1 .. k : i < j => Earlier(s[i], s[j])
      BY <3>3 DEF IsInOrder
    <3> HIDE DEF k
    <3>5. \A i \in 1 .. k + 1 : i = k + 1 \/ i \in 1 .. k
      BY <3>2
    <3>6. longer \in [1 .. k + 1 -> some]
      BY <3>4, <3>5
    <3>7. ASSUME NEW i \in 1 .. k + 1, NEW j \in 1 .. k + 1, i < j
          PROVE  Earlier(longer[i], longer[j])
      <4>1. i \in 1 .. k /\ i # k + 1
        BY <3>2, <3>7
      <4>2. longer[i] = s[i] /\ s[i] \in rest
        BY <3>4, <4>1
      <4>3. CASE j = k + 1
        BY <3>1, <4>2, <4>3
      <4>4. CASE j # k + 1
        <5>1. j \in 1 .. k /\ longer[j] = s[j]
          BY <3>5, <4>4
        <5> QED
          BY <3>4, <3>7, <4>1, <4>2, <5>1
      <4> QED
        BY <4>3, <4>4
    <3> HIDE DEF longer
    <3>8. Cardinality(some) = k + 1
      BY <2>3, <3>2
    <3>9. IsInOrder(longer, some)
      BY <3>6, <3>7, <3>8 DEF IsInOrder
    <3> QED
      BY <2>3, <3>9
  <2> QED
    BY <2>4, <2>5
<1> QED
  BY <1>2, <1>3

\* In the order each comes once.
LEMMA InOrderIs ==
  ASSUME NEW hits, hits \subseteq Shots, IsFiniteSet(hits)
  PROVE  /\ Cardinality(hits) \in Nat
         /\ \A i \in 1 .. Cardinality(hits) : InOrder(hits)[i] \in hits
         /\ \A i, j \in 1 .. Cardinality(hits) :
              i < j => InOrder(hits)[i] # InOrder(hits)[j]
<1> DEFINE n == Cardinality(hits)
           Fits(s) == \A i, j \in DOMAIN s : i < j => Earlier(s[i], s[j])
           order == InOrder(hits)
<1>1. PICK s : IsInOrder(s, hits)
  BY OrderExists
<1>2. s \in [1 .. n -> hits] /\ Fits(s)
  BY <1>1 DEF IsInOrder
<1>3. order = CHOOSE t \in [1 .. n -> hits] : Fits(t)
  BY DEF InOrder
<1> HIDE DEF Fits, order
<1>4. order \in [1 .. n -> hits] /\ Fits(order)
  BY <1>2, <1>3
<1>5. ASSUME NEW i \in 1 .. n, NEW j \in 1 .. n, i < j PROVE order[i] # order[j]
  <2>1. Earlier(order[i], order[j])
    BY <1>4, <1>5 DEF Fits
  <2>2. order[i] \in Shots
    BY <1>4
  <2> QED
    BY <2>1, <2>2 DEF Earlier, Shots, Players, Local, Rival
<1> QED
  BY <1>4, <1>5, FS_CardinalityType DEF order
-----------------------------------------------------------------------------

\* A sequence and one more element.
LEMMA AppendIs ==
  ASSUME NEW T, NEW s \in Seq(T), NEW e \in T,
         NEW n, n = Len(s), NEW w, w = Append(s, e)
  PROVE  /\ w \in Seq(T) /\ n \in Nat /\ Len(w) = n + 1
         /\ DOMAIN s = 1 .. n /\ DOMAIN w = 1 .. n + 1
         /\ \A i \in 1 .. n : w[i] = s[i] /\ i \in DOMAIN w
         /\ w[n + 1] = e /\ n + 1 \in DOMAIN w
         /\ \A i \in DOMAIN w : i \in 1 .. n \/ i = n + 1
  OBVIOUS

\* The constants are numbers.
LEMMA FeedConstants ==
  /\ StartingHealth \in Nat \ {0} /\ SnapshotInterval \in Nat \ {0} /\ RingSize \in Nat \ {0}
  /\ MaxHitsPerTick \in Nat /\ MaxTick \in Nat /\ MaxShots \in Nat
  /\ 0 \in Coins
  BY FeedAssumption DEF FeedAssumption

HitsOnLocal == {h \in Hits : h.victim_id = Local}
TellsLeft(left) == {h \in HitsOnLocal : h.victim_health = left /\ h.lethal = (left = 0)}

\* The first i hits of a tick: each lands at most once, and the last one on Local
\* tells what is left of it.
FightForm(fight, order, i) ==
  /\ fight.health \in [DOMAIN health -> 0 .. StartingHealth]
  /\ fight.damages \in Seq(Hits)
  /\ Len(fight.damages) <= i
  /\ \A k \in DOMAIN fight.damages :
       /\ fight.damages[k].tick = tick + 1
       /\ \E j \in 1 .. i : /\ fight.damages[k].attacker_id = order[j].attacker_id
                            /\ fight.damages[k].shot_seq = order[j].shot_seq
  /\ \A k, l \in DOMAIN fight.damages :
       k < l => Signature(fight.damages[k]) # Signature(fight.damages[l])
  /\ Local \in DOMAIN health
       => Follows(fight.damages, HitsOnLocal, TellsLeft(fight.health[Local]),
                  fight.health[Local] = health[Local])

LEMMA LandKeepsForm ==
  ASSUME ServerForm, NEW order, NEW i \in Nat, order[i + 1] \in Shots,
         \A j \in 1 .. i : order[j] \in Shots /\ order[j] # order[i + 1],
         NEW fight, FightForm(fight, order, i)
  PROVE  FightForm(Land(fight, order[i + 1]), order, i + 1)
<1> DEFINE hit == order[i + 1]
           victim == Other(hit.attacker_id)
<1>1. /\ hit.attacker_id \in Players /\ hit.shot_seq \in Nat /\ victim \in Players
      /\ hit = [attacker_id |-> hit.attacker_id, shot_seq |-> hit.shot_seq]
  BY DEF Shots, Players, Other
<1>2. /\ fight.health \in [DOMAIN health -> 0 .. StartingHealth]
      /\ fight.damages \in Seq(Hits)
      /\ Len(fight.damages) <= i
      /\ tick \in Nat /\ DOMAIN fight.health = DOMAIN health
  BY FeedConstants DEF FightForm, ServerForm
<1>3. \A j \in 1 .. i : j \in 1 .. i + 1
  OBVIOUS
<1>4. CASE ~(victim \in DOMAIN fight.health /\ fight.health[victim] > 0)
  <2>1. Land(fight, hit) = fight
    BY <1>4 DEF Land
  <2>2. Len(fight.damages) <= i + 1
    BY <1>2
  <2> HIDE DEF hit
  <2> QED
    BY <1>3, <2>1, <2>2 DEF FightForm, hit
<1>5. CASE victim \in DOMAIN fight.health /\ fight.health[victim] > 0
  <2> DEFINE left == fight.health[victim] - 1
             damage == Damage(hit, left)
             damages == fight.damages
             longer == Append(damages, damage)
             after == [fight.health EXCEPT ![victim] = left]
             n == Len(damages)
  <2>1. left \in 0 .. StartingHealth
    BY <1>2, <1>5, FeedConstants
  <2>2. Land(fight, hit) = [health |-> after, damages |-> longer]
    BY <1>5 DEF Land
  <2>3. /\ damage.type = "damage_event" /\ damage.tick = tick + 1
        /\ damage.attacker_id = hit.attacker_id
        /\ damage.victim_id = victim /\ damage.shot_seq = hit.shot_seq
        /\ damage.victim_health = left /\ damage.lethal = (left = 0)
    BY DEF Damage
  <2>4. damage \in Hits
    BY <1>1, <1>2, <2>1 DEF Damage, Hits
  <2>5. after \in [DOMAIN health -> 0 .. StartingHealth]
    BY <1>2, <2>1
  <2>6. after[victim] = left /\ \A p \in DOMAIN health : p # victim => after[p] = fight.health[p]
    BY <1>2, <1>5
  <2>7. n = Len(damages) /\ longer = Append(damages, damage) /\ damages \in Seq(Hits)
    BY <1>2
  <2>8. FightForm(fight, order, i)
    OBVIOUS
  <2> HIDE DEF damage, longer, n, after, left, hit, victim
  <2>9. /\ longer \in Seq(Hits) /\ n \in Nat /\ Len(longer) = n + 1
        /\ DOMAIN damages = 1 .. n /\ DOMAIN longer = 1 .. n + 1
        /\ \A k \in 1 .. n : longer[k] = damages[k] /\ k \in DOMAIN longer
        /\ longer[n + 1] = damage /\ n + 1 \in DOMAIN longer
        /\ \A k \in DOMAIN longer : k \in 1 .. n \/ k = n + 1
    BY <2>4, <2>7, AppendIs
  <2>10. n <= i
    BY <1>2, <2>7
  <2>11. i + 1 \in 1 .. i + 1 /\ hit = order[i + 1]
    BY DEF hit
  <2>12. ASSUME NEW k \in DOMAIN longer
         PROVE  /\ longer[k].tick = tick + 1
                /\ \E j \in 1 .. i + 1 : /\ longer[k].attacker_id = order[j].attacker_id
                                         /\ longer[k].shot_seq = order[j].shot_seq
    <3>1. CASE k \in 1 .. n
      <4>1. longer[k] = damages[k] /\ k \in DOMAIN damages
        BY <2>9, <3>1
      <4>2. /\ damages[k].tick = tick + 1
            /\ \E j \in 1 .. i : /\ damages[k].attacker_id = order[j].attacker_id
                                 /\ damages[k].shot_seq = order[j].shot_seq
        BY <2>8, <4>1 DEF FightForm
      <4> QED
        BY <1>3, <4>1, <4>2
    <3>2. CASE k = n + 1
      BY <2>3, <2>9, <2>11, <3>2
    <3> QED
      BY <2>9, <3>1, <3>2
  <2>13. ASSUME NEW k \in DOMAIN longer, NEW l \in DOMAIN longer, k < l
         PROVE  Signature(longer[k]) # Signature(longer[l])
    <3>1. k \in 1 .. n
      BY <2>9, <2>13
    <3>2. CASE l \in 1 .. n
      BY <2>8, <2>9, <2>13, <3>1, <3>2 DEF FightForm
    <3>3. CASE l = n + 1
      <4>1. PICK j \in 1 .. i : /\ longer[k].attacker_id = order[j].attacker_id
                                /\ longer[k].shot_seq = order[j].shot_seq
        BY <2>8, <2>9, <3>1 DEF FightForm
      <4>2. order[j] \in Shots /\ order[j] # hit
        BY <2>11
      <4>3. longer[k].attacker_id # hit.attacker_id \/ longer[k].shot_seq # hit.shot_seq
        BY <1>1, <4>1, <4>2 DEF Shots
      <4> QED
        BY <2>3, <2>9, <3>3, <4>3 DEF Signature
    <3> QED
      BY <2>9, <3>2, <3>3
  <2>14. ASSUME Local \in DOMAIN health
         PROVE  Follows(longer, HitsOnLocal, TellsLeft(after[Local]), after[Local] = health[Local])
    <3>1. CASE victim = Local
      <4>1. damage \in TellsLeft(after[Local])
        BY <2>3, <2>4, <2>6, <3>1 DEF TellsLeft, HitsOnLocal
      <4>2. \A j \in DOMAIN longer : ~(n + 1 < j)
        BY <2>9
      <4> QED
        BY <2>9, <4>1, <4>2 DEF Follows
    <3>2. CASE victim # Local
      <4>1. damage \notin HitsOnLocal
        BY <2>3, <3>2 DEF HitsOnLocal
      <4>2. after[Local] = fight.health[Local]
        BY <2>6, <2>14, <3>2
      <4>3. Follows(damages, HitsOnLocal, TellsLeft(after[Local]), after[Local] = health[Local])
        BY <2>8, <2>14, <4>2 DEF FightForm
      <4>4. \A j \in DOMAIN longer : longer[j] \in HitsOnLocal => j \in 1 .. n
        BY <2>9, <4>1
      <4> QED
        BY <2>9, <4>3, <4>4 DEF Follows
    <3> QED
      BY <3>1, <3>2
  <2>15. Len(longer) <= i + 1
    BY <2>9, <2>10
  <2> DEFINE new == [health |-> after, damages |-> longer]
  <2>16. new.health = after /\ new.damages = longer
    OBVIOUS
  <2> HIDE DEF new
  <2>17. FightForm(new, order, i + 1)
    BY <2>5, <2>9, <2>12, <2>13, <2>14, <2>15, <2>16 DEF FightForm
  <2> QED
    BY <2>2, <2>11, <2>17 DEF new
<1> QED
  BY <1>4, <1>5

-----------------------------------------------------------------------------

\* The hits of a tick, up to each of them.
IsFight(f, hits, n) ==
  f = [i \in 0 .. n |-> IF i = 0 THEN [health |-> health, damages |-> <<>>]
                        ELSE Land(f[i - 1], InOrder(hits)[i])]

LEMMA FightExists ==
  ASSUME NEW hits, NEW n \in Nat
  PROVE  \E f : IsFight(f, hits, n)
<1> DEFINE S == {k \in Nat : \E f : IsFight(f, hits, k)}
           base == [health |-> health, damages |-> <<>>]
           order == InOrder(hits)
<1>0. \A f, k : IsFight(f, hits, k) <=>
        f = [i \in 0 .. k |-> IF i = 0 THEN base ELSE Land(f[i - 1], order[i])]
  BY DEF IsFight
<1> HIDE DEF base, order
<1>1. 0 \in S
  <2> DEFINE f == [i \in 0 .. 0 |-> base]
  <2>1. \A i \in 0 .. 0 : f[i] = IF i = 0 THEN base ELSE Land(f[i - 1], order[i])
    OBVIOUS
  <2>2. f = [i \in 0 .. 0 |-> f[i]]
    OBVIOUS
  <2> HIDE DEF f
  <2>3. f = [i \in 0 .. 0 |-> IF i = 0 THEN base ELSE Land(f[i - 1], order[i])]
    BY <2>1, <2>2
  <2>4. IsFight(f, hits, 0)
    BY <1>0, <2>3
  <2> QED
    BY <2>4
<1>2. ASSUME NEW k \in Nat, k \in S PROVE k + 1 \in S
  <2>1. PICK f : IsFight(f, hits, k)
    BY <1>2
  <2> DEFINE longer == Land(f[k], order[k + 1])
             g == [i \in 0 .. k + 1 |-> IF i <= k THEN f[i] ELSE longer]
  <2>2. f = [i \in 0 .. k |-> IF i = 0 THEN base ELSE Land(f[i - 1], order[i])]
    BY <1>0, <2>1
  <2> HIDE DEF longer
  <2>3. ASSUME NEW i \in 0 .. k + 1
        PROVE  g[i] = IF i = 0 THEN base ELSE Land(g[i - 1], order[i])
    <3>1. CASE i = k + 1
      <4>1. g[i] = longer /\ g[i - 1] = f[k] /\ i # 0
        BY <3>1
      <4> HIDE DEF g
      <4> QED
        BY <3>1, <4>1 DEF longer
    <3>2. CASE i <= k
      <4>1. i \in 0 .. k
        BY <3>2
      <4>2. f[i] = IF i = 0 THEN base ELSE Land(f[i - 1], order[i])
        BY <2>2, <4>1
      <4>3. g[i] = f[i] /\ (i # 0 => g[i - 1] = f[i - 1])
        BY <4>1
      <4> HIDE DEF g
      <4> QED
        BY <4>2, <4>3
    <3> QED
      BY <3>1, <3>2
  <2>4. g = [i \in 0 .. k + 1 |-> g[i]]
    OBVIOUS
  <2> HIDE DEF g
  <2>5. g = [i \in 0 .. k + 1 |-> IF i = 0 THEN base ELSE Land(g[i - 1], order[i])]
    BY <2>3, <2>4
  <2>6. IsFight(g, hits, k + 1)
    BY <1>0, <2>5
  <2> QED
    BY <2>6
<1> HIDE DEF S
<1>3. n \in S
  BY <1>1, <1>2, Induction
<1> QED
  BY <1>3 DEF S

\* What a tick of combat does.
LEMMA FightIs ==
  ASSUME ServerForm, NEW hits, hits \subseteq Shots, IsFiniteSet(hits)
  PROVE  FightForm(Fight(hits), InOrder(hits), Cardinality(hits))
<1> DEFINE n == Cardinality(hits)
           order == InOrder(hits)
           fight == CHOOSE f : IsFight(f, hits, n)
           base == [health |-> health, damages |-> <<>>]
<1>1. /\ n \in Nat /\ \A i \in 1 .. n : order[i] \in Shots
      /\ \A i, j \in 1 .. n : i < j => order[i] # order[j]
  BY InOrderIs
<1>2. Fight(hits) = fight[n]
  BY DEF Fight, IsFight
<1>3. IsFight(fight, hits, n)
  BY <1>1, FightExists
<1> HIDE DEF fight
<1>4. \A i \in 0 .. n : fight[i] = IF i = 0 THEN base ELSE Land(fight[i - 1], order[i])
  BY <1>3 DEF IsFight
<1> DEFINE S == {k \in Nat : k \in 0 .. n => FightForm(fight[k], order, k)}
<1>5. 0 \in S
  <2>1. fight[0] = base
    BY <1>1, <1>4
  <2>2. health \in [DOMAIN health -> 0 .. StartingHealth]
    BY DEF ServerForm
  <2>3. FightForm(base, order, 0)
    BY <2>2 DEF FightForm, Follows
  <2> QED
    BY <2>1, <2>3
<1> HIDE DEF base, order, n
<1>6. ASSUME NEW k \in Nat, k \in S PROVE k + 1 \in S
  <2> SUFFICES ASSUME k + 1 \in 0 .. n PROVE FightForm(fight[k + 1], order, k + 1)
    OBVIOUS
  <2>1. k \in 0 .. n /\ k + 1 \in 1 .. n /\ k + 1 # 0 /\ (k + 1) - 1 = k
        /\ \A j \in 1 .. k : j \in 1 .. n /\ j < k + 1
    BY <1>1
  <2>2. fight[k + 1] = Land(fight[k], order[k + 1])
    BY <1>4, <2>1, Zenon
  <2>3. FightForm(fight[k], order, k)
    BY <1>6, <2>1
  <2>4. order[k + 1] \in Shots /\ \A j \in 1 .. k : order[j] \in Shots /\ order[j] # order[k + 1]
    BY <1>1, <2>1
  <2> QED
    BY <2>2, <2>3, <2>4, LandKeepsForm
<1> HIDE DEF S
<1>7. n \in S
  BY <1>1, <1>5, <1>6, Induction
<1> QED
  BY <1>1, <1>2, <1>7 DEF S, order, n
-----------------------------------------------------------------------------

\* The interval of a hit can be read from its signature.
LEMMA SignatureTells ==
  ASSUME NEW e \in Hits
  PROVE  /\ Signature(e) \in Signatures /\ Signature(e)[1] = e.tick
         /\ IntervalIn(Signature(e)) = IntervalOf(e) /\ IntervalOf(e) \in Int
<1>1. /\ e.tick \in Nat /\ e.attacker_id \in Players /\ e.victim_id \in Players
      /\ e.shot_seq \in Nat
  BY DEF Hits
<1>2. Signature(e) \in Signatures /\ Signature(e)[1] = e.tick
  BY <1>1 DEF Signature, Signatures
<1>3. e.tick - 1 \in Int
  BY <1>1
<1>4. (e.tick - 1) \div SnapshotInterval \in Int
  BY <1>3, DivisionBrackets, FeedConstants
<1> QED
  BY <1>2, <1>4 DEF IntervalIn, IntervalOf

\* An interval has no more hits than its ticks allow.
LEMMA FewHitsInAnInterval ==
  ASSUME RingHolds, NEW hits, hits \subseteq Hits, FewHits(hits), NEW k \in Int, k >= 0
  PROVE  LET all == {Signature(e) : e \in {f \in hits : IntervalOf(f) = k}}
         IN  IsFiniteSet(all) /\ Cardinality(all) <= RingSize
<1> DEFINE all == {Signature(e) : e \in {f \in hits : IntervalOf(f) = k}}
           first == SnapshotInterval * k
           Upto(n) == {Signature(e) : e \in {f \in hits : f.tick \in first + 1 .. first + n}}
           S == {n \in Nat : IsFiniteSet(Upto(n)) /\ Cardinality(Upto(n)) <= n * MaxHitsPerTick}
<1>1. first \in Nat
  <2>1. \A a, b \in Nat : a * b \in Nat
    OBVIOUS
  <2> QED
    BY <2>1, FeedConstants
<1>2. all \subseteq Upto(SnapshotInterval)
  <2> SUFFICES ASSUME NEW e \in hits, IntervalOf(e) = k
               PROVE  e.tick \in first + 1 .. first + SnapshotInterval
    OBVIOUS
  <2>1. e.tick \in Nat /\ e.tick - 1 \in Int
    BY DEF Hits
  <2> DEFINE a == e.tick - 1
             b == SnapshotInterval
  <2>2. b * (a \div b) <= a /\ a < b * (a \div b) + b
    BY <2>1, DivisionBrackets, FeedConstants
  <2>3. a \div b = k
    BY DEF IntervalOf
  <2>4. first <= a /\ a < first + b
    BY <2>2, <2>3
  <2> HIDE DEF first
  <2> QED
    BY <1>1, <2>1, <2>4, FeedConstants
<1> HIDE DEF first
<1>3. 0 \in S
  <2>1. Upto(0) = {}
    BY <1>1
  <2>2. 0 * MaxHitsPerTick = 0
    BY FeedConstants
  <2>3. IsFiniteSet({}) /\ Cardinality({}) = 0
    BY FS_EmptySet
  <2> HIDE DEF Upto
  <2>4. Cardinality(Upto(0)) <= 0 * MaxHitsPerTick
    BY <2>1, <2>2, <2>3
  <2> QED
    BY <2>1, <2>3, <2>4
<1>4. ASSUME NEW n \in Nat, n \in S PROVE n + 1 \in S
  <2> DEFINE new == SignaturesAt(hits, first + n + 1)
             old == Upto(n)
  <2>1. Upto(n + 1) \subseteq old \cup new
    <3> SUFFICES ASSUME NEW e \in hits, e.tick \in first + 1 .. first + (n + 1)
                 PROVE  e.tick \in first + 1 .. first + n \/ e.tick = first + n + 1
      BY DEF SignaturesAt
    <3> QED
      BY <1>1
  <2>2. IsFiniteSet(new) /\ Cardinality(new) <= MaxHitsPerTick
    BY <1>1 DEF FewHits
  <2>3. IsFiniteSet(old) /\ Cardinality(old) <= n * MaxHitsPerTick
    BY <1>4
  <2> HIDE DEF new, old
  <2>4. /\ IsFiniteSet(old \cup new)
        /\ Cardinality(old \cup new)
             = Cardinality(old) + Cardinality(new) - Cardinality(old \cap new)
    BY <2>2, <2>3, FS_Union
  <2>5. IsFiniteSet(old \cap new)
    BY <2>3, FS_Intersection
  <2>6. /\ Cardinality(old) \in Nat /\ Cardinality(new) \in Nat
        /\ Cardinality(old \cap new) \in Nat
    BY <2>2, <2>3, <2>5, FS_CardinalityType
  <2> DEFINE whole == n * MaxHitsPerTick
  <2>7. whole \in Nat /\ (n + 1) * MaxHitsPerTick = whole + MaxHitsPerTick
    <3>1. \A a, b \in Nat : a * b \in Nat /\ (a + 1) * b = a * b + b
      BY SMTT(30)
    <3> QED
      BY <3>1, FeedConstants
  <2> HIDE DEF whole
  <2>8. Cardinality(old \cup new) <= whole + MaxHitsPerTick
    BY <2>2, <2>3, <2>4, <2>6, <2>7, FeedConstants DEF whole
  <2>9. /\ IsFiniteSet(Upto(n + 1))
        /\ Cardinality(Upto(n + 1)) <= Cardinality(old \cup new)
    BY <2>1, <2>4, FS_Subset
  <2>10. Cardinality(Upto(n + 1)) \in Nat /\ Cardinality(old \cup new) \in Nat
    BY <2>4, <2>9, FS_CardinalityType
  <2> HIDE DEF Upto
  <2>11. Cardinality(Upto(n + 1)) <= whole + MaxHitsPerTick
    BY <2>7, <2>8, <2>9, <2>10, FeedConstants
  <2> QED
    BY <2>7, <2>9, <2>11
<1> HIDE DEF S
<1>5. SnapshotInterval \in S
  BY <1>3, <1>4, Induction, FeedConstants
<1>6. /\ IsFiniteSet(Upto(SnapshotInterval))
      /\ Cardinality(Upto(SnapshotInterval)) <= SnapshotInterval * MaxHitsPerTick
  BY <1>5 DEF S
<1> HIDE DEF Upto, all
<1>7. IsFiniteSet(all) /\ Cardinality(all) <= Cardinality(Upto(SnapshotInterval))
  BY <1>2, <1>6, FS_Subset
<1>8. Cardinality(all) \in Nat /\ Cardinality(Upto(SnapshotInterval)) \in Nat
  BY <1>6, <1>7, FS_CardinalityType
<1> DEFINE most == SnapshotInterval * MaxHitsPerTick
<1>9. most \in Nat /\ most <= RingSize
  <2>1. \A a, b \in Nat : a * b \in Nat
    OBVIOUS
  <2> QED
    BY <2>1, FeedConstants DEF RingHolds
<1> HIDE DEF most
<1>10. Cardinality(all) <= RingSize
  BY <1>6, <1>7, <1>8, <1>9, FeedConstants DEF most
<1> QED
  BY <1>7, <1>10 DEF all

-----------------------------------------------------------------------------

\* The client has read some events: what it remembers of them.
MessageForm(state) ==
  /\ state = [last_match_state |-> state.last_match_state, recent |-> state.recent,
              shown |-> state.shown]
  /\ state.last_match_state \in ShownPhases
  /\ state.recent \in Seq(Signatures) /\ Len(state.recent) <= RingSize
  /\ DOMAIN state.shown \subseteq Hits \cup DeathEvents
  /\ state.shown \in [DOMAIN state.shown -> Nat \ {0}]

\* A hit that comes again is still remembered: since it was shown there was no
\* later interval, and an interval has no more hits than the ring has room for.
LEMMA ShownIsRemembered ==
  ASSUME RingHolds, NEW state, MessageForm(state), RingInOrder(state.recent, state.shown),
         NEW hits, hits \subseteq Hits, FewHits(hits), \A e \in hits : e.tick >= 1,
         DOMAIN state.shown \cap Hits \subseteq hits,
         NEW hit \in DOMAIN state.shown, hit \in Hits,
         \A e \in DOMAIN state.shown \cap Hits : IntervalOf(e) <= IntervalOf(hit)
  PROVE  Signature(hit) \in Range(state.recent)
<1> SUFFICES ASSUME Signature(hit) \notin Range(state.recent) PROVE FALSE
  OBVIOUS
<1> DEFINE recent == state.recent
           k == IntervalOf(hit)
           all == {Signature(e) : e \in {f \in hits : IntervalOf(f) = k}}
           longer == Append(recent, Signature(hit))
           n == Len(recent)
<1>1. recent \in Seq(Signatures) /\ Signature(hit) \in Signatures /\ k \in Int
  BY SignatureTells DEF MessageForm
<1>2. n = RingSize /\ \A i \in DOMAIN recent : k <= IntervalIn(recent[i])
  BY DEF RingInOrder
<1>3. k >= 0
  <2>1. hit.tick \in Nat /\ hit.tick >= 1
    BY DEF Hits
  <2> DEFINE a == hit.tick - 1
  <2>2. a \in Nat /\ \A c, d \in Nat : d # 0 => c \div d >= 0
    BY <2>1, SMTT(30)
  <2> QED
    BY <2>2, FeedConstants DEF IntervalOf
<1>4. IsFiniteSet(all) /\ Cardinality(all) <= RingSize
  BY <1>1, <1>3, FewHitsInAnInterval
<1>5. n = Len(recent) /\ longer = Append(recent, Signature(hit))
  OBVIOUS
<1> HIDE DEF longer, n
<1>6. /\ n \in Nat /\ DOMAIN recent = 1 .. n /\ DOMAIN longer = 1 .. n + 1
      /\ \A i \in 1 .. n : longer[i] = recent[i] /\ i \in DOMAIN longer
      /\ longer[n + 1] = Signature(hit) /\ n + 1 \in DOMAIN longer
      /\ \A i \in DOMAIN longer : i \in 1 .. n \/ i = n + 1
      /\ longer \in Seq(Signatures) /\ Len(longer) = n + 1
  BY <1>1, <1>5, AppendIs
<1>7. ASSUME NEW i \in DOMAIN recent PROVE recent[i] \in all
  <2>1. PICK e \in DOMAIN state.shown \cap Hits : recent[i] = Signature(e)
    BY DEF RingInOrder
  <2>2. IntervalOf(e) <= k /\ k <= IntervalOf(e) /\ IntervalOf(e) \in Int
    BY <1>2, <2>1, SignatureTells
  <2>3. IntervalOf(e) = k
    BY <1>1, <2>2
  <2> QED
    BY <2>1, <2>3
<1>8. Signature(hit) \in all
  OBVIOUS
<1> HIDE DEF all, k
<1>9. \A i \in 1 .. n + 1 : longer[i] \in all
  BY <1>6, <1>7, <1>8
<1>10. ASSUME NEW i \in 1 .. n + 1, NEW j \in 1 .. n + 1, i < j PROVE longer[i] # longer[j]
  <2>1. i \in 1 .. n /\ longer[i] = recent[i]
    BY <1>6, <1>10
  <2>2. CASE j \in 1 .. n
    BY <1>6, <1>10, <2>1, <2>2 DEF RingInOrder
  <2>3. CASE j = n + 1
    BY <1>6, <2>1, <2>3 DEF Range
  <2> QED
    BY <1>6, <2>2, <2>3
<1> DEFINE f == [i \in 1 .. n + 1 |-> longer[i]]
<1>11. f \in Injection(1 .. n + 1, all)
  <2>1. f \in [1 .. n + 1 -> all]
    BY <1>9
  <2>2. ASSUME NEW i \in 1 .. n + 1, NEW j \in 1 .. n + 1, f[i] = f[j] PROVE i = j
    <3>1. longer[i] = longer[j]
      BY <2>2
    <3>2. ~(i < j) /\ ~(j < i)
      BY <1>10, <3>1
    <3> QED
      BY <1>6, <3>2
  <2> HIDE DEF f
  <2> QED
    BY <2>1, <2>2 DEF Injection, IsInjective
<1>12. Cardinality(1 .. n + 1) = n + 1
  <2>1. Cardinality(1 .. n + 1) = IF 1 > n + 1 THEN 0 ELSE n + 1 - 1 + 1
    BY <1>6, FS_Interval
  <2> QED
    BY <1>6, <2>1
<1>13. Cardinality(1 .. n + 1) <= Cardinality(all)
  BY <1>4, <1>11, FS_Injection
<1>14. Cardinality(all) \in Nat
  BY <1>4, FS_CardinalityType
<1> QED
  BY <1>2, <1>4, <1>5, <1>6, <1>12, <1>13, <1>14, FeedConstants
-----------------------------------------------------------------------------

\* What one event of each kind does.
LEMMA ConsumeCases ==
  ASSUME NEW state, MessageForm(state), NEW event
  PROVE  /\ event \in Hits /\ Signature(event) \in Range(state.recent)
              => Consume(state, event) = state
         /\ event \in Hits /\ Signature(event) \notin Range(state.recent)
              => Consume(state, event)
                   = [last_match_state |-> state.last_match_state,
                      recent |-> Remember(state.recent, Signature(event)),
                      shown |-> Show(state.shown, event)]
         /\ event \in DeathEvents
              => Consume(state, event)
                   = [last_match_state |-> state.last_match_state,
                      recent |-> state.recent, shown |-> Show(state.shown, event)]
         /\ event \in PhaseEvents \cup MatchStates
              => Consume(state, event)
                   = [last_match_state |-> event.state,
                      recent |-> state.recent, shown |-> state.shown]
         /\ event \in RespawnEvents => Consume(state, event) = state
<1>1. state = [last_match_state |-> state.last_match_state, recent |-> state.recent,
               shown |-> state.shown]
  BY DEF MessageForm
<1>2. CASE event \in Hits
  <2>1. event.type = "damage_event" /\ event \notin DeathEvents /\ event \notin RespawnEvents
        /\ event \notin PhaseEvents \cup MatchStates
    BY <1>2 DEF Hits, DeathEvents, RespawnEvents, PhaseEvents, MatchStates
  <2> QED
    BY <1>1, <2>1 DEF Consume
<1>3. CASE event \in DeathEvents
  <2>1. event.type = "death_event" /\ event \notin Hits /\ event \notin RespawnEvents
        /\ event \notin PhaseEvents \cup MatchStates
    BY <1>3 DEF Hits, DeathEvents, RespawnEvents, PhaseEvents, MatchStates
  <2> QED
    BY <1>1, <2>1 DEF Consume
<1>4. CASE event \in PhaseEvents \cup MatchStates
  <2>1. event.type \in {"match_state_changed", "match_state"} /\ event \notin Hits
        /\ event \notin RespawnEvents /\ event \notin DeathEvents
    BY <1>4 DEF Hits, DeathEvents, RespawnEvents, PhaseEvents, MatchStates
  <2>2. event.type # "damage_event" /\ event.type # "death_event"
    BY <2>1
  <2> QED
    BY <1>1, <2>1, <2>2 DEF Consume
<1>5. CASE event \in RespawnEvents
  <2>1. event.type = "respawn_event" /\ event \notin Hits
        /\ event \notin DeathEvents /\ event \notin PhaseEvents \cup MatchStates
    BY <1>5 DEF Hits, DeathEvents, RespawnEvents, PhaseEvents, MatchStates
  <2> QED
    BY <1>1, <2>1 DEF Consume
<1> QED
  BY <1>2, <1>3, <1>4, <1>5

\* A message is shown once more.
LEMMA ShowIs ==
  ASSUME NEW messages, messages \in [DOMAIN messages -> Nat \ {0}], NEW event
  PROVE  /\ DOMAIN Show(messages, event) = DOMAIN messages \cup {event}
         /\ Show(messages, event) \in [DOMAIN messages \cup {event} -> Nat \ {0}]
         /\ \A m \in DOMAIN messages : m # event => Show(messages, event)[m] = messages[m]
         /\ event \notin DOMAIN messages => Show(messages, event)[event] = 1
  BY DEF Show, Put

\* Of the n signatures remembered the first d have fallen out, s is the last.
IsRemembered(longer, recent, s, n, d) ==
  /\ n \in Nat /\ DOMAIN recent = 1 .. n /\ d <= n
  /\ longer \in Seq(Signatures) /\ Len(longer) = n - d + 1 /\ Len(longer) <= RingSize
  /\ DOMAIN longer = 1 .. n - d + 1
  /\ longer[n - d + 1] = s
  /\ \A i \in 1 .. n - d : longer[i] = recent[i + d] /\ i + d \in 1 .. n
  /\ \A i \in 1 .. n - d + 1 : i \in 1 .. n - d \/ i = n - d + 1
  /\ d = 1 => n = RingSize

\* The ring after one signature more: the oldest has fallen out of a full one.
LEMMA RememberIs ==
  ASSUME NEW recent \in Seq(Signatures), Len(recent) <= RingSize, NEW s \in Signatures,
         NEW longer, longer = Remember(recent, s), NEW n, n = Len(recent)
  PROVE  \E d \in {0, 1} : IsRemembered(longer, recent, s, n, d)
<1>1. n \in Nat /\ DOMAIN recent = 1 .. n
  OBVIOUS
<1>2. CASE n < RingSize
  <2>1. longer = Append(recent, s)
    BY <1>2 DEF Remember
  <2>2. /\ longer \in Seq(Signatures) /\ Len(longer) = n + 1 /\ DOMAIN longer = 1 .. n + 1
        /\ \A i \in 1 .. n : longer[i] = recent[i]
        /\ longer[n + 1] = s
    BY <2>1, AppendIs
  <2>3. n + 1 <= RingSize /\ n - 0 = n /\ \A i \in 1 .. n : i + 0 = i
    BY <1>1, <1>2, FeedConstants
  <2>4. \A i \in 1 .. n + 1 : i \in 1 .. n \/ i = n + 1
    BY <1>1
  <2> QED
    <3>1. IsRemembered(longer, recent, s, n, 0)
      BY <1>1, <2>2, <2>3, <2>4 DEF IsRemembered
    <3> QED
      BY <3>1
<1>3. CASE ~(n < RingSize)
  <2>1. longer = Append(Tail(recent), s) /\ n = RingSize
    BY <1>1, <1>3, FeedConstants DEF Remember
  <2>2. n # 0 /\ recent # <<>>
    BY <2>1, FeedConstants
  <2> DEFINE t == Tail(recent)
  <2>3. /\ t \in Seq(Signatures) /\ Len(t) = n - 1 /\ DOMAIN t = 1 .. n - 1
        /\ \A i \in DOMAIN t : t[i] = recent[i + 1] /\ i + 1 \in DOMAIN recent
    BY <2>2, TailIs
  <2>4. longer = Append(t, s)
    BY <2>1
  <2> HIDE DEF t
  <2> DEFINE m == n - 1
  <2>5. m = Len(t)
    BY <2>3
  <2> HIDE DEF m
  <2>6. /\ longer \in Seq(Signatures) /\ Len(longer) = m + 1 /\ DOMAIN longer = 1 .. m + 1
        /\ \A i \in 1 .. m : longer[i] = t[i]
        /\ longer[m + 1] = s
    BY <2>3, <2>4, <2>5, AppendIs
  <2>7. \A i \in 1 .. m + 1 : i \in 1 .. m \/ i = m + 1
    BY <1>1 DEF m
  <2>8. m + 1 <= RingSize
    BY <1>1, <2>1, FeedConstants DEF m
  <2>9. \A i \in 1 .. m : longer[i] = recent[i + 1] /\ i + 1 \in 1 .. n
    BY <1>1, <2>3, <2>6 DEF m
  <2> QED
    <3>1. IsRemembered(longer, recent, s, n, 1)
      BY <1>1, <2>1, <2>2, <2>6, <2>7, <2>8, <2>9 DEF m, IsRemembered
    <3> QED
      BY <3>1
<1> QED
  BY <1>1, <1>2, <1>3, FeedConstants

\* A hit of an interval no earlier than any before is shown; once, if the ring holds.
LEMMA HitKeepsRing ==
  ASSUME NEW state, MessageForm(state), RingInOrder(state.recent, state.shown),
         NEW hits, hits \subseteq Hits, FewHits(hits), \A e \in hits : e.tick >= 1,
         DOMAIN state.shown \cap Hits \subseteq hits, NEW hit \in hits,
         \A e \in DOMAIN state.shown \cap Hits : IntervalOf(e) <= IntervalOf(hit),
         NEW new, new = Consume(state, hit)
  PROVE  /\ MessageForm(new) /\ RingInOrder(new.recent, new.shown)
         /\ DOMAIN new.shown \cap Hits = (DOMAIN state.shown \cap Hits) \cup {hit}
         /\ new.last_match_state = state.last_match_state
<1> DEFINE recent == state.recent
           messages == state.shown
           s == Signature(hit)
           before == DOMAIN messages \cap Hits
<1>1. /\ recent \in Seq(Signatures) /\ Len(recent) <= RingSize
      /\ messages \in [DOMAIN messages -> Nat \ {0}]
      /\ DOMAIN messages \subseteq Hits \cup DeathEvents
      /\ s \in Signatures /\ hit \in Hits
      /\ IntervalIn(s) = IntervalOf(hit) /\ IntervalOf(hit) \in Int
  BY SignatureTells DEF MessageForm
<1>2. CASE s \in Range(recent)
  <2>1. PICK e \in before : s = Signature(e)
    <3>1. PICK i \in DOMAIN recent : s = recent[i]
      BY <1>2 DEF Range
    <3> QED
      BY <3>1 DEF RingInOrder
  <2>2. hit = e
    BY <2>1 DEF FewHits
  <2>3. new = state
    BY <1>1, <1>2, ConsumeCases
  <2> QED
    BY <2>1, <2>2, <2>3
<1>3. CASE s \notin Range(recent)
  <2> DEFINE longer == Remember(recent, s)
             more == Show(messages, hit)
             n == Len(recent)
  <2>1. RingHolds => hit \notin DOMAIN messages
    BY <1>1, <1>3, ShownIsRemembered
  <2>2. new = [last_match_state |-> state.last_match_state, recent |-> longer, shown |-> more]
    BY <1>1, <1>3, ConsumeCases
  <2>3. /\ DOMAIN more = DOMAIN messages \cup {hit}
        /\ more \in [DOMAIN messages \cup {hit} -> Nat \ {0}]
        /\ \A m \in DOMAIN messages : m # hit => more[m] = messages[m]
        /\ hit \notin DOMAIN messages => more[hit] = 1
    <3>1. messages \in [DOMAIN messages -> Nat \ {0}]
      BY <1>1
    <3> HIDE DEF messages
    <3> QED
      BY <3>1, ShowIs DEF more
  <2>4. longer = Remember(recent, s) /\ n = Len(recent)
    OBVIOUS
  <2> HIDE DEF longer, more, n
  <2>4a. /\ recent \in Seq(Signatures) /\ Len(recent) <= RingSize /\ s \in Signatures
    BY <1>1
  <2> HIDE DEF recent, s
  <2>4b. PICK d \in {0, 1} : IsRemembered(longer, recent, s, n, d)
    BY <2>4, <2>4a, RememberIs
  <2>5.
         /\ n \in Nat /\ DOMAIN recent = 1 .. n /\ d <= n
         /\ longer \in Seq(Signatures) /\ Len(longer) = n - d + 1 /\ Len(longer) <= RingSize
         /\ DOMAIN longer = 1 .. n - d + 1
         /\ longer[n - d + 1] = s
         /\ \A i \in 1 .. n - d : longer[i] = recent[i + d] /\ i + d \in 1 .. n
         /\ \A i \in 1 .. n - d + 1 : i \in 1 .. n - d \/ i = n - d + 1
         /\ d = 1 => n = RingSize
    BY <2>4b DEF IsRemembered
  <2> USE DEF recent, s
  <2>6. /\ new.last_match_state = state.last_match_state /\ new.recent = longer
        /\ new.shown = more
        /\ new = [last_match_state |-> new.last_match_state, recent |-> new.recent,
                  shown |-> new.shown]
    BY <2>2
  <2>7. MessageForm(new)
    BY <1>1, <2>3, <2>5, <2>6 DEF MessageForm
  <2>8. DOMAIN more \cap Hits = before \cup {hit}
    BY <1>1, <2>3
  <2>9. ASSUME NEW i \in DOMAIN recent
        PROVE  /\ IntervalIn(recent[i]) \in Int
               /\ IntervalIn(recent[i]) <= IntervalOf(hit)
               /\ recent[i] # s
    <3>1. PICK e \in before : recent[i] = Signature(e)
      BY DEF RingInOrder
    <3>2. IntervalOf(e) \in Int /\ IntervalIn(recent[i]) = IntervalOf(e)
      BY <3>1, SignatureTells
    <3> QED
      BY <1>3, <3>2 DEF Range
  <2> DEFINE newest == n - d + 1
  <2>10. \A i \in DOMAIN longer : \E e \in before \cup {hit} : longer[i] = Signature(e)
    <3> TAKE i \in DOMAIN longer
    <3>1. CASE i = newest
      BY <2>5, <3>1
    <3>2. CASE i \in 1 .. n - d
      <4>1. i + d \in DOMAIN recent /\ longer[i] = recent[i + d]
        BY <2>5, <3>2
      <4>2. \E e \in before : recent[i + d] = Signature(e)
        BY <4>1 DEF RingInOrder
      <4> QED
        BY <4>1, <4>2
    <3> QED
      BY <2>5, <3>1, <3>2
  <2>11. ASSUME NEW i \in DOMAIN longer, NEW j \in DOMAIN longer, i < j
         PROVE  longer[i] # longer[j] /\ IntervalIn(longer[i]) <= IntervalIn(longer[j])
    <3>1. i \in 1 .. n - d
      BY <2>5, <2>11
    <3>2. i + d \in DOMAIN recent /\ longer[i] = recent[i + d]
      BY <2>5, <3>1
    <3>3. CASE j = newest
      <4>1. longer[j] = s
        BY <2>5, <3>3
      <4>2. /\ IntervalIn(recent[i + d]) <= IntervalOf(hit)
            /\ recent[i + d] # s
        BY <2>9, <3>2
      <4>3. IntervalIn(s) = IntervalOf(hit)
        BY <1>1
      <4> HIDE DEF s, newest, recent
      <4> QED
        BY <3>2, <4>1, <4>2, <4>3
    <3>4. CASE j \in 1 .. n - d
      <4>1. j + d \in DOMAIN recent /\ longer[j] = recent[j + d]
        BY <2>5, <3>4
      <4>2. i + d < j + d
        <5>1. n \in Nat /\ d \in {0, 1}
          BY <2>5
        <5> HIDE DEF n
        <5> QED
          BY <2>11, <3>1, <3>4, <5>1
      <4> QED
        BY <3>2, <4>1, <4>2 DEF RingInOrder
    <3> QED
      BY <2>5, <3>3, <3>4
  <2>12. ASSUME NEW e \in before \cup {hit}, Signature(e) \notin Range(longer)
         PROVE  /\ Len(longer) = RingSize
                /\ \A i \in DOMAIN longer : IntervalOf(e) <= IntervalIn(longer[i])
    <3>1. s \in Range(longer)
      <4>1. newest \in DOMAIN longer /\ longer[newest] = s
        BY <2>5
      <4> HIDE DEF newest
      <4> QED
        BY <4>1 DEF Range
    <3>2. e \in before /\ IntervalOf(e) <= IntervalOf(hit) /\ IntervalOf(e) \in Int
      BY <2>12, <3>1, SignatureTells
    <3>3. CASE Signature(e) \notin Range(recent)
      <4>1. n = RingSize /\ \A i \in DOMAIN recent : IntervalOf(e) <= IntervalIn(recent[i])
        BY <2>4, <3>2, <3>3 DEF RingInOrder
      <4>2. d = 1
        <5> SUFFICES ASSUME d = 0 PROVE FALSE
          OBVIOUS
        <5> QED
          BY <2>5, <4>1, FeedConstants
      <4>3. Len(longer) = RingSize
        BY <2>5, <4>1, <4>2
      <4>4. ASSUME NEW i \in DOMAIN longer PROVE IntervalOf(e) <= IntervalIn(longer[i])
        <5>1. CASE i = newest
          <6>1. longer[i] = s
            BY <2>5, <5>1
          <6>2. IntervalIn(s) = IntervalOf(hit)
            BY <1>1
          <6> HIDE DEF s, newest
          <6> QED
            BY <3>2, <6>1, <6>2
        <5>2. CASE i \in 1 .. n - d
          BY <2>5, <4>1, <5>2
        <5> QED
          BY <2>5, <5>1, <5>2
      <4> QED
        BY <4>3, <4>4
    <3>4. CASE Signature(e) \in Range(recent)
      <4>1. PICK j \in DOMAIN recent : Signature(e) = recent[j]
        BY <3>4 DEF Range
      <4>2. j <= d
        <5> SUFFICES ASSUME j > d PROVE FALSE
          BY <2>5, <4>1
        <5>1. j - d \in 1 .. n - d /\ (j - d) + d = j
          <6>1. n \in Nat /\ j \in 1 .. n /\ d \in Nat
            BY <2>5, <4>1
          <6> HIDE DEF n
          <6> QED
            BY <6>1
        <5>2. longer[j - d] = recent[j]
          BY <2>5, <5>1
        <5>3. j - d \in 1 .. n - d + 1
          <6>1. n \in Nat /\ d \in Nat
            BY <2>5
          <6> HIDE DEF n
          <6> QED
            BY <5>1, <6>1
        <5>4. j - d \in DOMAIN longer
          BY <2>5, <5>3
        <5> QED
          BY <2>12, <4>1, <5>2, <5>4 DEF Range
      <4>3. d = 1 /\ j = 1 /\ n = RingSize
        BY <2>5, <4>1, <4>2
      <4>4. Len(longer) = RingSize
        BY <2>5, <4>3
      <4>5. IntervalOf(e) = IntervalIn(recent[1])
        BY <4>1, <4>3, SignatureTells
      <4>6. ASSUME NEW i \in DOMAIN longer PROVE IntervalOf(e) <= IntervalIn(longer[i])
        <5>1. CASE i = newest
          <6>1. longer[i] = s
            BY <2>5, <5>1
          <6>2. IntervalIn(s) = IntervalOf(hit)
            BY <1>1
          <6> HIDE DEF s, newest
          <6> QED
            BY <3>2, <6>1, <6>2
        <5>2. CASE i \in 1 .. n - d
          <6>1. i + 1 \in DOMAIN recent /\ 1 \in DOMAIN recent /\ 1 < i + 1
                /\ longer[i] = recent[i + 1]
            BY <2>5, <4>1, <4>3, <5>2
          <6> QED
            BY <4>5, <6>1 DEF RingInOrder
        <5> QED
          BY <2>5, <5>1, <5>2
      <4> QED
        BY <4>4, <4>6
    <3> QED
      BY <3>3, <3>4
  <2>13. RingHolds => \A e \in before \cup {hit} : more[e] = 1
    BY <2>1, <2>3 DEF RingInOrder
  <2>14. RingInOrder(longer, more)
    BY <2>8, <2>10, <2>11, <2>12, <2>13 DEF RingInOrder
  <2> QED
    BY <2>6, <2>7, <2>8, <2>14
<1> QED
  BY <1>2, <1>3

\* What is no hit leaves the ring and the hits shown as they are.
LEMMA OthersKeepRing ==
  ASSUME NEW state, MessageForm(state), RingInOrder(state.recent, state.shown),
         NEW event \in Events \cup MatchStates, event \notin Hits,
         NEW new, new = Consume(state, event)
  PROVE  /\ MessageForm(new) /\ RingInOrder(new.recent, new.shown)
         /\ DOMAIN new.shown \cap Hits = DOMAIN state.shown \cap Hits
         /\ event \in PhaseEvents \cup MatchStates => new.last_match_state = event.state
         /\ event \notin PhaseEvents \cup MatchStates
              => new.last_match_state = state.last_match_state
<1>1. CASE event \in DeathEvents
  <2> DEFINE more == Show(state.shown, event)
  <2>1. event \notin PhaseEvents \cup MatchStates
    BY <1>1 DEF DeathEvents, PhaseEvents, MatchStates
  <2>2. new = [last_match_state |-> state.last_match_state, recent |-> state.recent,
               shown |-> more]
    BY <1>1, ConsumeCases
  <2>3. /\ DOMAIN more = DOMAIN state.shown \cup {event}
        /\ more \in [DOMAIN state.shown \cup {event} -> Nat \ {0}]
        /\ \A m \in DOMAIN state.shown : m # event => more[m] = state.shown[m]
    <3>1. state.shown \in [DOMAIN state.shown -> Nat \ {0}]
      BY DEF MessageForm
    <3> QED
      BY <3>1, ShowIs
  <2> HIDE DEF more
  <2>4. new.recent = state.recent /\ new.shown = more
        /\ new.last_match_state = state.last_match_state
        /\ new = [last_match_state |-> new.last_match_state, recent |-> new.recent,
                  shown |-> new.shown]
    BY <2>2
  <2>5. MessageForm(new)
    BY <1>1, <2>3, <2>4 DEF MessageForm
  <2>6. DOMAIN more \cap Hits = DOMAIN state.shown \cap Hits
        /\ \A m \in DOMAIN more \cap Hits : more[m] = state.shown[m]
    BY <2>3
  <2>7. RingInOrder(state.recent, more)
    BY <2>6 DEF RingInOrder
  <2> QED
    BY <2>1, <2>4, <2>5, <2>6, <2>7
<1>2. CASE event \in PhaseEvents \cup MatchStates
  <2>1. new = [last_match_state |-> event.state, recent |-> state.recent, shown |-> state.shown]
    BY <1>2, ConsumeCases
  <2>2. event.state \in ShownPhases
    BY <1>2 DEF PhaseEvents, MatchStates, ShownPhases
  <2> QED
    BY <1>2, <2>1, <2>2 DEF MessageForm
<1>3. CASE event \in RespawnEvents
  <2>1. event \notin PhaseEvents \cup MatchStates
    BY <1>3 DEF RespawnEvents, PhaseEvents, MatchStates
  <2>2. new = state
    BY <1>3, ConsumeCases
  <2> QED
    BY <2>1, <2>2
<1> QED
  BY <1>1, <1>2, <1>3 DEF Events
-----------------------------------------------------------------------------

\* The events that a client reads, up to each of them.
IsConsumed(f, events, n) ==
  f = [i \in 0 .. n |-> IF i = 0 THEN [last_match_state |-> feed.last_match_state,
                                       recent |-> feed.recent, shown |-> shown]
                        ELSE Consume(f[i - 1], events[i])]

LEMMA ConsumedExists ==
  ASSUME NEW events, NEW n \in Nat
  PROVE  \E f : IsConsumed(f, events, n)
<1> DEFINE S == {k \in Nat : \E f : IsConsumed(f, events, k)}
           base == [last_match_state |-> feed.last_match_state,
                    recent |-> feed.recent, shown |-> shown]
<1>0. \A f, k : IsConsumed(f, events, k) <=>
        f = [i \in 0 .. k |-> IF i = 0 THEN base ELSE Consume(f[i - 1], events[i])]
  BY DEF IsConsumed
<1> HIDE DEF base
<1>1. 0 \in S
  <2> DEFINE f == [i \in 0 .. 0 |-> base]
  <2>1. \A i \in 0 .. 0 : f[i] = IF i = 0 THEN base ELSE Consume(f[i - 1], events[i])
    OBVIOUS
  <2>2. f = [i \in 0 .. 0 |-> f[i]]
    OBVIOUS
  <2> HIDE DEF f
  <2>3. f = [i \in 0 .. 0 |-> IF i = 0 THEN base ELSE Consume(f[i - 1], events[i])]
    BY <2>1, <2>2
  <2>4. IsConsumed(f, events, 0)
    BY <1>0, <2>3
  <2> QED
    BY <2>4
<1>2. ASSUME NEW k \in Nat, k \in S PROVE k + 1 \in S
  <2>1. PICK f : IsConsumed(f, events, k)
    BY <1>2
  <2> DEFINE longer == Consume(f[k], events[k + 1])
             g == [i \in 0 .. k + 1 |-> IF i <= k THEN f[i] ELSE longer]
  <2>2. f = [i \in 0 .. k |-> IF i = 0 THEN base ELSE Consume(f[i - 1], events[i])]
    BY <1>0, <2>1
  <2> HIDE DEF longer
  <2>3. ASSUME NEW i \in 0 .. k + 1
        PROVE  g[i] = IF i = 0 THEN base ELSE Consume(g[i - 1], events[i])
    <3>1. CASE i = k + 1
      <4>1. g[i] = longer /\ g[i - 1] = f[k] /\ i # 0
        BY <3>1
      <4> HIDE DEF g
      <4> QED
        BY <3>1, <4>1 DEF longer
    <3>2. CASE i <= k
      <4>1. i \in 0 .. k
        BY <3>2
      <4>2. f[i] = IF i = 0 THEN base ELSE Consume(f[i - 1], events[i])
        BY <2>2, <4>1
      <4>3. g[i] = f[i] /\ (i # 0 => g[i - 1] = f[i - 1])
        BY <4>1
      <4> HIDE DEF g
      <4> QED
        BY <4>2, <4>3
    <3> QED
      BY <3>1, <3>2
  <2>4. g = [i \in 0 .. k + 1 |-> g[i]]
    OBVIOUS
  <2> HIDE DEF g
  <2>5. g = [i \in 0 .. k + 1 |-> IF i = 0 THEN base ELSE Consume(g[i - 1], events[i])]
    BY <2>3, <2>4
  <2>6. IsConsumed(g, events, k + 1)
    BY <1>0, <2>5
  <2> QED
    BY <2>6
<1> HIDE DEF S
<1>3. n \in S
  BY <1>1, <1>2, Induction
<1> QED
  BY <1>3 DEF S

PhaseWords == PhaseEvents \cup MatchStates

\* What the client makes of the first i of some events: all hits among them are
\* shown, and the last word about the phase counts.
FedForm(state, events, i) ==
  /\ MessageForm(state) /\ RingInOrder(state.recent, state.shown)
  /\ \A e \in Hits : e \in DOMAIN state.shown <=>
                       (e \in HitsShown \/ (\E j \in 1 .. i : events[j] = e))
  /\ \/ \E j \in 1 .. i : /\ events[j] \in PhaseWords
                          /\ state.last_match_state = events[j].state
                          /\ \A l \in 1 .. i : j < l => events[l] \notin PhaseWords
     \/ /\ \A j \in 1 .. i : events[j] \notin PhaseWords
        /\ state.last_match_state = feed.last_match_state

LEMMA ConsumeKeepsForm ==
  ASSUME NEW events, NEW i \in Nat, events[i + 1] \in Events \cup MatchStates,
         NEW hits, hits \subseteq Hits, FewHits(hits), \A e \in hits : e.tick >= 1,
         HitsShown \subseteq hits,
         \A j \in 1 .. i + 1 : events[j] \in Hits =>
           /\ events[j] \in hits
           /\ \A f \in HitsShown : IntervalOf(f) <= IntervalOf(events[j])
           /\ \A l \in 1 .. i + 1 : events[l] \in Hits
                => IntervalOf(events[l]) = IntervalOf(events[j]),
         NEW state, FedForm(state, events, i),
         NEW new, new = Consume(state, events[i + 1])
  PROVE  FedForm(new, events, i + 1)
<1> DEFINE event == events[i + 1]
           k == i + 1
<1>0. /\ MessageForm(state) /\ RingInOrder(state.recent, state.shown)
      /\ event \in Events \cup MatchStates /\ k \in 1 .. k
      /\ \A j \in 1 .. k : j \in 1 .. i \/ j = k
      /\ \A j \in 1 .. i : j \in 1 .. k /\ j # k /\ j < k
      /\ \A j \in 1 .. k : ~ k < j
      /\ new = Consume(state, event)
  BY DEF FedForm
<1>shown. \A e \in Hits : e \in DOMAIN state.shown <=>
                         (e \in HitsShown \/ (\E j \in 1 .. i : events[j] = e))
  BY DEF FedForm
<1>hits. \A j \in 1 .. k : events[j] \in Hits =>
           /\ events[j] \in hits
           /\ \A f \in HitsShown : IntervalOf(f) <= IntervalOf(events[j])
           /\ \A l \in 1 .. k : events[l] \in Hits
                => IntervalOf(events[l]) = IntervalOf(events[j])
  OBVIOUS
<1>phase. \/ \E j \in 1 .. i : /\ events[j] \in PhaseWords
                          /\ state.last_match_state = events[j].state
                          /\ \A l \in 1 .. i : j < l => events[l] \notin PhaseWords
      \/ /\ \A j \in 1 .. i : events[j] \notin PhaseWords
         /\ state.last_match_state = feed.last_match_state
  BY DEF FedForm
<1>last. event = events[k]
  OBVIOUS
<1> HIDE DEF k, event
<1>1. CASE event \in Hits
  <2>1. event \notin PhaseWords
    BY <1>1 DEF Hits, PhaseWords, PhaseEvents, MatchStates
  <2>2. \A e \in DOMAIN state.shown \cap Hits :
          e \in hits /\ IntervalOf(e) <= IntervalOf(event)
    <3> TAKE e \in DOMAIN state.shown \cap Hits
    <3>1. CASE e \in HitsShown
      BY <1>0, <1>1, <1>hits, <1>last, <3>1
    <3>2. CASE \E j \in 1 .. i : events[j] = e
      <4>1. PICK j \in 1 .. i : events[j] = e
        BY <3>2
      <4>2. j \in 1 .. k /\ events[j] \in Hits
        BY <1>0, <4>1
      <4>3. IntervalOf(e) = IntervalOf(event) /\ e \in hits
        BY <1>0, <1>1, <1>hits, <1>last, <4>1, <4>2, Zenon
      <4>4. IntervalOf(event) \in Int
        BY <1>1, SignatureTells
      <4> QED
        BY <4>3, <4>4
    <3> QED
      BY <1>shown, <3>1, <3>2
  <2>3. event \in hits
    BY <1>0, <1>1, <1>hits, <1>last
  <2>4. /\ MessageForm(new) /\ RingInOrder(new.recent, new.shown)
        /\ DOMAIN new.shown \cap Hits = (DOMAIN state.shown \cap Hits) \cup {event}
        /\ new.last_match_state = state.last_match_state
    BY <1>0, <2>2, <2>3, HitKeepsRing
  <2>5. \A e \in Hits : e \in DOMAIN new.shown <=>
                          (e \in HitsShown \/ (\E j \in 1 .. k : events[j] = e))
    <3> TAKE e \in Hits
    <3>1. e \in DOMAIN new.shown <=> (e \in DOMAIN state.shown \/ e = event)
      BY <1>1, <2>4
    <3>2. (\E j \in 1 .. k : events[j] = e) <=> ((\E j \in 1 .. i : events[j] = e) \/ e = event)
      BY <1>0, <1>last
    <3> QED
      BY <1>shown, <3>1, <3>2
  <2>6. \/ \E j \in 1 .. k : /\ events[j] \in PhaseWords
                             /\ new.last_match_state = events[j].state
                             /\ \A l \in 1 .. k : j < l => events[l] \notin PhaseWords
        \/ /\ \A j \in 1 .. k : events[j] \notin PhaseWords
           /\ new.last_match_state = feed.last_match_state
    BY <1>0, <1>phase, <1>last, <2>1, <2>4
  <2>7. FedForm(new, events, k)
    BY <2>4, <2>5, <2>6 DEF FedForm
  <2> QED
    BY <2>7 DEF k
<1>2. CASE event \notin Hits
  <2>1. /\ MessageForm(new) /\ RingInOrder(new.recent, new.shown)
        /\ DOMAIN new.shown \cap Hits = DOMAIN state.shown \cap Hits
        /\ event \in PhaseWords => new.last_match_state = event.state
        /\ event \notin PhaseWords => new.last_match_state = state.last_match_state
    BY <1>0, <1>2, OthersKeepRing DEF PhaseWords
  <2>2. \A e \in Hits : e \in DOMAIN new.shown <=>
                          (e \in HitsShown \/ (\E j \in 1 .. k : events[j] = e))
    <3> TAKE e \in Hits
    <3>1. e \in DOMAIN new.shown <=> e \in DOMAIN state.shown
      BY <2>1
    <3>2. (\E j \in 1 .. k : events[j] = e) <=> (\E j \in 1 .. i : events[j] = e)
      BY <1>0, <1>2, <1>last
    <3> QED
      BY <1>shown, <3>1, <3>2
  <2>3. \/ \E j \in 1 .. k : /\ events[j] \in PhaseWords
                             /\ new.last_match_state = events[j].state
                             /\ \A l \in 1 .. k : j < l => events[l] \notin PhaseWords
        \/ /\ \A j \in 1 .. k : events[j] \notin PhaseWords
           /\ new.last_match_state = feed.last_match_state
    <3>1. CASE event \in PhaseWords
      BY <1>0, <1>last, <2>1, <3>1
    <3>2. CASE event \notin PhaseWords
      BY <1>0, <1>phase, <1>last, <2>1, <3>2
    <3> QED
      BY <3>1, <3>2
  <2>4. FedForm(new, events, k)
    BY <2>1, <2>2, <2>3 DEF FedForm
  <2> QED
    BY <2>4 DEF k
<1> QED
  BY <1>1, <1>2

\* What the client makes of a packet of events: a snapshot's, or one alone.
LEMMA ConsumedIs ==
  ASSUME feed \in Feeds, Len(feed.recent) <= RingSize,
         DOMAIN shown \subseteq Hits \cup DeathEvents,
         shown \in [DOMAIN shown -> Nat \ {0}],
         RingInOrder(feed.recent, shown),
         NEW events \in Seq(Events \cup MatchStates),
         NEW hits, hits \subseteq Hits, FewHits(hits), \A e \in hits : e.tick >= 1,
         HitsShown \subseteq hits, HitsIn(events) \subseteq hits,
         \A e \in HitsIn(events) :
           /\ \A f \in HitsShown : IntervalOf(f) <= IntervalOf(e)
           /\ \A f \in HitsIn(events) : IntervalOf(f) = IntervalOf(e)
  PROVE  FedForm(Consumed(events), events, Len(events))
<1> DEFINE n == Len(events)
           fed == CHOOSE f : IsConsumed(f, events, n)
           base == [last_match_state |-> feed.last_match_state,
                    recent |-> feed.recent, shown |-> shown]
<1>1. /\ n \in Nat /\ DOMAIN events = 1 .. n
      /\ \A i \in 1 .. n : events[i] \in Events \cup MatchStates
  OBVIOUS
<1>2. Consumed(events) = fed[n]
  BY DEF Consumed, IsConsumed
<1>3. IsConsumed(fed, events, n)
  BY <1>1, ConsumedExists
<1> HIDE DEF fed
<1>4. \A i \in 0 .. n : fed[i] = IF i = 0 THEN base ELSE Consume(fed[i - 1], events[i])
  BY <1>3 DEF IsConsumed
<1>5. \A j \in 1 .. n : events[j] \in Hits =>
           /\ events[j] \in hits
           /\ \A f \in HitsShown : IntervalOf(f) <= IntervalOf(events[j])
           /\ \A l \in 1 .. n : events[l] \in Hits
                => IntervalOf(events[l]) = IntervalOf(events[j])
  <2>1. \A j \in 1 .. n : events[j] \in Hits => events[j] \in HitsIn(events)
    BY <1>1 DEF HitsIn, Range
  <2> QED
    BY <2>1
<1> DEFINE S == {k \in Nat : k \in 0 .. n => FedForm(fed[k], events, k)}
<1>6. 0 \in S
  <2>1. fed[0] = base
    BY <1>1, <1>4
  <2>2. MessageForm(base)
    BY DEF MessageForm, Feeds
  <2>3. FedForm(base, events, 0)
    BY <2>2 DEF FedForm, HitsShown
  <2> QED
    BY <2>1, <2>3
<1> HIDE DEF base, n
<1>7. ASSUME NEW k \in Nat, k \in S PROVE k + 1 \in S
  <2> SUFFICES ASSUME k + 1 \in 0 .. n PROVE FedForm(fed[k + 1], events, k + 1)
    OBVIOUS
  <2>1. k \in 0 .. n /\ k + 1 \in 1 .. n /\ k + 1 # 0 /\ (k + 1) - 1 = k
        /\ \A j \in 1 .. k + 1 : j \in 1 .. n
    BY <1>1
  <2>2. fed[k + 1] = Consume(fed[k], events[k + 1])
    BY <1>4, <2>1, Zenon
  <2>3. FedForm(fed[k], events, k)
    BY <1>7, <2>1
  <2>4. events[k + 1] \in Events \cup MatchStates
    BY <1>1, <2>1
  <2>5. \A j \in 1 .. k + 1 : events[j] \in Hits =>
           /\ events[j] \in hits
           /\ \A f \in HitsShown : IntervalOf(f) <= IntervalOf(events[j])
           /\ \A l \in 1 .. k + 1 : events[l] \in Hits
                => IntervalOf(events[l]) = IntervalOf(events[j])
    BY <1>5, <2>1
  <2> QED
    BY <2>2, <2>3, <2>4, <2>5, ConsumeKeepsForm
<1> HIDE DEF S
<1>8. n \in S
  BY <1>1, <1>6, <1>7, Induction
<1>9. FedForm(Consumed(events), events, n)
  BY <1>1, <1>2, <1>8 DEF S
<1> QED
  BY <1>9 DEF n
-----------------------------------------------------------------------------
(* What a tick tells *)

\* The elements of two sequences in a row, as a set.
LEMMA RangeOfConcat ==
  ASSUME NEW T, NEW s \in Seq(T), NEW t \in Seq(T)
  PROVE  s \o t \in Seq(T) /\ Range(s \o t) = Range(s) \cup Range(t)
<1> DEFINE m == Len(s)
           n == Len(t)
           w == s \o t
<1>1. m = Len(s) /\ n = Len(t) /\ w = s \o t
  OBVIOUS
<1> HIDE DEF m, n, w
<1>2. /\ w \in Seq(T) /\ m \in Nat /\ n \in Nat
      /\ DOMAIN s = 1 .. m /\ DOMAIN t = 1 .. n /\ DOMAIN w = 1 .. m + n
      /\ \A i \in 1 .. m : w[i] = s[i] /\ i \in DOMAIN w
      /\ \A i \in 1 .. n : w[m + i] = t[i] /\ m + i \in DOMAIN w
      /\ \A i \in DOMAIN w : i \in 1 .. m \/ (i - m \in 1 .. n /\ w[i] = t[i - m])
  BY <1>1, ConcatIs
<1>3. Range(w) \subseteq Range(s) \cup Range(t)
  <2> SUFFICES ASSUME NEW i \in DOMAIN w PROVE w[i] \in Range(s) \cup Range(t)
    BY DEF Range
  <2>1. CASE i \in 1 .. m
    BY <1>2, <2>1 DEF Range
  <2>2. CASE i - m \in 1 .. n /\ w[i] = t[i - m]
    BY <1>2, <2>2 DEF Range
  <2> QED
    BY <1>2, <2>1, <2>2
<1>4. Range(s) \subseteq Range(w)
  <2> SUFFICES ASSUME NEW i \in DOMAIN s PROVE s[i] \in Range(w)
    BY DEF Range
  <2> QED
    BY <1>2 DEF Range
<1>5. Range(t) \subseteq Range(w)
  <2> SUFFICES ASSUME NEW i \in DOMAIN t PROVE t[i] \in Range(w)
    BY DEF Range
  <2> QED
    BY <1>2 DEF Range
<1> QED
  BY <1>1, <1>2, <1>3, <1>4, <1>5 DEF w

\* Nothing in s tells anything.
Silent(s, tellers) == \A i \in DOMAIN s : s[i] \notin tellers

LEMMA SilentIs ==
  ASSUME NEW s, NEW tellers
  PROVE  Silent(s, tellers) <=> (Range(s) \cap tellers = {})
  BY DEF Silent, Range

\* A tick sends four kinds of packets, in a row: the last that tells anything
\* must tell what is right.
LEMMA FollowsFour ==
  ASSUME NEW U, NEW s \in Seq(U), NEW a \in Seq(U), NEW b \in Seq(U), NEW c \in Seq(U),
         NEW d \in Seq(U), NEW tellers, NEW right, NEW B,
         \/ Follows(d, tellers, right, FALSE)
         \/ Silent(d, tellers) /\ Follows(c, tellers, right, FALSE)
         \/ Silent(d, tellers) /\ Silent(c, tellers) /\ Follows(b, tellers, right, FALSE)
         \/ /\ Silent(d, tellers) /\ Silent(c, tellers) /\ Silent(b, tellers)
            /\ Follows(a, tellers, right, FALSE)
         \/ /\ Silent(d, tellers) /\ Silent(c, tellers) /\ Silent(b, tellers)
            /\ Silent(a, tellers) /\ Follows(s, tellers, right, B)
  PROVE  Follows(s \o a \o b \o c \o d, tellers, right, B)
<1> DEFINE s1 == s \o a
           s2 == s1 \o b
           s3 == s2 \o c
<1>1. s1 \in Seq(U) /\ s2 \in Seq(U) /\ s3 \in Seq(U)
  OBVIOUS
<1>2. s \o a \o b \o c \o d = s3 \o d
  OBVIOUS
<1>3. Follows(d, tellers, right, FALSE) => Follows(s3 \o d, tellers, right, B)
  BY <1>1, FollowsMore
<1>4. Silent(d, tellers) /\ Follows(s3, tellers, right, B)
        => Follows(s3 \o d, tellers, right, B)
  BY <1>1, FollowsSilent DEF Silent
<1>5. s3 = s2 \o c /\ s2 = s1 \o b /\ s1 = s \o a
  OBVIOUS
<1> HIDE DEF s1, s2, s3
<1>6. Follows(c, tellers, right, FALSE) => Follows(s2 \o c, tellers, right, B)
  BY <1>1, FollowsMore
<1>7. Silent(c, tellers) /\ Follows(s2, tellers, right, B)
        => Follows(s2 \o c, tellers, right, B)
  BY <1>1, FollowsSilent DEF Silent
<1>8. Follows(b, tellers, right, FALSE) => Follows(s1 \o b, tellers, right, B)
  BY <1>1, FollowsMore
<1>9. Silent(b, tellers) /\ Follows(s1, tellers, right, B)
        => Follows(s1 \o b, tellers, right, B)
  BY <1>1, FollowsSilent DEF Silent
<1>10. Follows(a, tellers, right, FALSE) => Follows(s \o a, tellers, right, B)
  BY FollowsMore
<1>11. Silent(a, tellers) /\ Follows(s, tellers, right, B)
        => Follows(s \o a, tellers, right, B)
  BY FollowsSilent DEF Silent
<1> QED
  BY <1>2, <1>3, <1>4, <1>5, <1>6, <1>7, <1>8, <1>9, <1>10, <1>11

\* The deaths of a tick.
LEMMA DeathsTyped ==
  ASSUME NEW damages \in Seq(Hits)
  PROVE  Deaths(damages) \in Seq(DeathEvents)
<1> DEFINE seqs == [i \in DOMAIN damages |->
                      IF damages[i].lethal THEN <<Death(damages[i])>> ELSE <<>>]
<1>1. DOMAIN damages = 1 .. Len(damages) /\ Len(damages) \in Nat
  OBVIOUS
<1>2. \A i \in DOMAIN damages : seqs[i] \in Seq(DeathEvents)
  <2> SUFFICES ASSUME NEW i \in DOMAIN damages
               PROVE  (IF damages[i].lethal THEN <<Death(damages[i])>> ELSE <<>>)
                        \in Seq(DeathEvents)
    OBVIOUS
  <2>1. damages[i] \in Hits
    OBVIOUS
  <2>2. Death(damages[i]) \in DeathEvents
    BY <2>1 DEF Death, DeathEvents, Hits
  <2> HIDE DEF Death, DeathEvents
  <2> QED
    BY <2>2
<1>3. seqs \in [1 .. Len(damages) -> Seq(DeathEvents)]
  BY <1>1, <1>2
<1>4. seqs \in Seq(Seq(DeathEvents))
  BY <1>1, <1>3
<1>5. FlattenSeq(seqs) \in Seq(DeathEvents)
  BY <1>4, FlattenedTyped
<1> QED
  BY <1>5 DEF Deaths

\* Hits are no other events.
LEMMA EventsDiffer ==
  /\ Hits \cap DeathEvents = {} /\ Hits \cap RespawnEvents = {} /\ Hits \cap PhaseEvents = {}
  /\ DeathEvents \cap PhaseEvents = {} /\ RespawnEvents \cap PhaseEvents = {}
  BY DEF Hits, DeathEvents, RespawnEvents, PhaseEvents

\* Packets of different kinds differ.
LEMMA PacketsDiffer ==
  /\ Hits \cap MatchStates = {} /\ Hits \cap Updates = {} /\ Hits \cap Snapshots = {}
  /\ Hits \cap Accepts = {} /\ Accepts \cap MatchStates = {} /\ Accepts \cap Updates = {}
  /\ Accepts \cap Snapshots = {} /\ MatchStates \cap Updates = {}
  /\ MatchStates \cap Snapshots = {} /\ Updates \cap Snapshots = {}
  BY DEF Hits, MatchStates, Updates, Snapshots, Accepts

LEMMA RangeOfOne ==
  ASSUME NEW T, NEW e \in T
  PROVE  <<e>> \in Seq(T) /\ Range(<<e>>) = {e}
<1>1. <<e>> \in Seq(T) /\ DOMAIN <<e>> = {1} /\ <<e>>[1] = e
  OBVIOUS
<1> QED
  BY <1>1 DEF Range

LEMMA RangeOfNone ==
  ASSUME NEW T
  PROVE  <<>> \in Seq(T) /\ Range(<<>>) = {}
  BY DEF Range

\* The events of a tick: its hits among them; they tell of a change of phase and of
\* who came back.
EventsMade(respawned, new, changed, damages, fresh) ==
  /\ fresh \in Seq(Events)
  /\ HitsIn(fresh) = Range(damages)
  /\ changed => Follows(fresh, PhaseEvents, {e \in PhaseEvents : e.state = new}, FALSE)
  /\ ~changed => Silent(fresh, PhaseEvents)
  /\ Local \in respawned
       => \E e \in Range(fresh) : e \in RespawnEvents /\ e.player_id = Local

LEMMA EventsOfTick ==
  ASSUME tick \in Nat, NEW damages \in Seq(Hits), NEW respawned, NEW new \in Phases,
         NEW changed \in BOOLEAN,
         NEW fresh, fresh = TickEvents(respawned, new, changed, damages)
  PROVE  EventsMade(respawned, new, changed, damages, fresh)
<1> DEFINE r1 == Respawn(Local, respawned)
           r2 == Respawn(Rival, respawned)
           one == [type |-> "match_state_changed", tick |-> tick + 1, state |-> new]
           ch == IF changed THEN <<one>> ELSE <<>>
           de == Deaths(damages)
           right == {e \in PhaseEvents : e.state = new}
           comeback(p) == [type |-> "respawn_event", tick |-> tick + 1, player_id |-> p]
<1>1. /\ Hits \subseteq Events /\ DeathEvents \subseteq Events
      /\ RespawnEvents \subseteq Events /\ PhaseEvents \subseteq Events
  BY DEF Events
<1>2. one \in PhaseEvents /\ one \in right
  BY DEF PhaseEvents
<1>3. \A p \in Players : comeback(p) \in RespawnEvents /\ comeback(p).player_id = p
  BY DEF RespawnEvents
<1>4. Local \in Players /\ Rival \in Players
  BY DEF Players
<1> HIDE DEF one, right, comeback
<1>5. r1 \in Seq(Events) /\ Range(r1) \subseteq RespawnEvents
      /\ (Local \in respawned => comeback(Local) \in Range(r1))
  <2>1. CASE Local \in respawned
    <3>1. r1 = <<comeback(Local)>>
      BY <2>1 DEF Respawn, comeback
    <3> QED
      BY <1>1, <1>3, <1>4, <3>1, RangeOfOne
  <2>2. CASE Local \notin respawned
    BY <2>2, RangeOfNone DEF Respawn
  <2> QED
    BY <2>1, <2>2
<1>6. r2 \in Seq(Events) /\ Range(r2) \subseteq RespawnEvents
  <2>1. CASE Rival \in respawned
    <3>1. r2 = <<comeback(Rival)>>
      BY <2>1 DEF Respawn, comeback
    <3> QED
      BY <1>1, <1>3, <1>4, <3>1, RangeOfOne
  <2>2. CASE Rival \notin respawned
    BY <2>2, RangeOfNone DEF Respawn
  <2> QED
    BY <2>1, <2>2
<1>7. /\ ch \in Seq(Events) /\ Range(ch) \subseteq PhaseEvents
      /\ changed => Follows(ch, PhaseEvents, right, FALSE)
      /\ ~changed => Range(ch) = {}
  <2>1. CASE changed
    <3>1. ch = <<one>>
      BY <2>1
    <3>2. <<one>> \in Seq(Events) /\ Range(<<one>>) = {one}
      BY <1>1, <1>2, RangeOfOne
    <3>3. Follows(<<one>>, PhaseEvents, right, FALSE)
      BY <1>2, FollowsOne
    <3> HIDE DEF ch
    <3> QED
      BY <1>2, <2>1, <3>1, <3>2, <3>3
  <2>2. CASE ~changed
    BY <2>2, RangeOfNone
  <2> QED
    BY <2>1, <2>2
<1>8. damages \in Seq(Events) /\ Range(damages) \subseteq Hits
  BY <1>1 DEF Range
<1>9. de \in Seq(Events) /\ Range(de) \subseteq DeathEvents
  BY <1>1, DeathsTyped DEF Range
<1> DEFINE co == damages \o de
           a == r1 \o r2
           b == a \o ch
           w == b \o co
<1>10. fresh = w
  BY DEF TickEvents, CombatOutputs, one
<1> HIDE DEF r1, r2, ch, de
<1>11. co \in Seq(Events) /\ Range(co) = Range(damages) \cup Range(de)
  BY <1>8, <1>9, RangeOfConcat
<1>12. a \in Seq(Events) /\ Range(a) = Range(r1) \cup Range(r2)
  BY <1>5, <1>6, RangeOfConcat
<1>13. b = a \o ch /\ w = b \o co
  OBVIOUS
<1> HIDE DEF co, a, b, w
<1>14. b \in Seq(Events) /\ Range(b) = Range(a) \cup Range(ch)
  BY <1>7, <1>12, <1>13, RangeOfConcat
<1>15. w \in Seq(Events) /\ Range(w) = Range(b) \cup Range(co)
  <2>1. b \o co \in Seq(Events) /\ Range(b \o co) = Range(b) \cup Range(co)
    BY <1>11, <1>14, RangeOfConcat
  <2> QED
    BY <1>13, <2>1
<1>16. HitsIn(w) = Range(damages)
  BY <1>5, <1>6, <1>7, <1>8, <1>9, <1>11, <1>12, <1>14, <1>15, EventsDiffer DEF HitsIn
<1>17. ASSUME changed PROVE Follows(w, PhaseEvents, right, FALSE)
  <2>1. Follows(b, PhaseEvents, right, FALSE)
    BY <1>7, <1>12, <1>13, <1>17, FollowsMore
  <2>2. \A i \in DOMAIN co : co[i] \notin PhaseEvents
    <3>1. Range(co) \cap PhaseEvents = {}
      BY <1>8, <1>9, <1>11, EventsDiffer
    <3> QED
      BY <3>1 DEF Range
  <2> QED
    BY <1>11, <1>13, <1>14, <2>1, <2>2, FollowsSilent
<1>18. ASSUME ~changed PROVE Silent(w, PhaseEvents)
  <2>1. Range(w) \cap PhaseEvents = {}
    BY <1>5, <1>6, <1>7, <1>8, <1>9, <1>11, <1>12, <1>14, <1>15, <1>18, EventsDiffer
  <2> QED
    BY <2>1, SilentIs
<1>19. Local \in respawned => \E e \in Range(w) : e \in RespawnEvents /\ e.player_id = Local
  BY <1>3, <1>4, <1>5, <1>12, <1>14, <1>15
<1> QED
  BY <1>10, <1>15, <1>16, <1>17, <1>18, <1>19 DEF right, EventsMade

\* w is s with more behind, all of it out of R.
GrowsBy(s, w, R) ==
  /\ \A i \in DOMAIN s : i \in DOMAIN w /\ w[i] = s[i]
  /\ \A i \in DOMAIN w : i \in DOMAIN s \/ w[i] \in R
  /\ \A i \in DOMAIN w, j \in DOMAIN s : i \in DOMAIN s \/ j < i
  /\ Range(w) = Range(s) \cup R

LEMMA GrowsOnce ==
  ASSUME NEW T, NEW s \in Seq(T), NEW t \in Seq(T)
  PROVE  GrowsBy(s, s \o t, Range(t))
<1> DEFINE m == Len(s)
           n == Len(t)
           w == s \o t
<1>1. m = Len(s) /\ n = Len(t) /\ w = s \o t
  OBVIOUS
<1>2. Range(w) = Range(s) \cup Range(t)
  BY RangeOfConcat
<1> HIDE DEF m, n, w
<1>3. /\ m \in Nat /\ n \in Nat
      /\ DOMAIN s = 1 .. m /\ DOMAIN t = 1 .. n /\ DOMAIN w = 1 .. m + n
      /\ \A i \in 1 .. m : w[i] = s[i] /\ i \in DOMAIN w
      /\ \A i \in DOMAIN w : i \in 1 .. m \/ (i - m \in 1 .. n /\ w[i] = t[i - m])
  BY <1>1, ConcatIs
<1>4. \A i \in DOMAIN w : i \in DOMAIN s \/ w[i] \in Range(t)
  BY <1>3 DEF Range
<1>5. \A i \in DOMAIN w, j \in DOMAIN s : i \in DOMAIN s \/ j < i
  BY <1>3
<1>6. GrowsBy(s, w, Range(t))
  BY <1>2, <1>3, <1>4, <1>5 DEF GrowsBy
<1> QED
  BY <1>6 DEF w

LEMMA GrowsTwice ==
  ASSUME NEW s, NEW w, NEW x, NEW R, NEW Q, GrowsBy(s, w, R), GrowsBy(w, x, Q)
  PROVE  GrowsBy(s, x, R \cup Q)
<1>1. /\ \A i \in DOMAIN s : i \in DOMAIN w /\ w[i] = s[i]
      /\ \A i \in DOMAIN w : i \in DOMAIN s \/ w[i] \in R
      /\ \A i \in DOMAIN w, j \in DOMAIN s : i \in DOMAIN s \/ j < i
      /\ Range(w) = Range(s) \cup R
  BY DEF GrowsBy
<1>2. /\ \A i \in DOMAIN w : i \in DOMAIN x /\ x[i] = w[i]
      /\ \A i \in DOMAIN x : i \in DOMAIN w \/ x[i] \in Q
      /\ \A i \in DOMAIN x, j \in DOMAIN w : i \in DOMAIN w \/ j < i
      /\ Range(x) = Range(w) \cup Q
  BY DEF GrowsBy
<1>3. \A i \in DOMAIN s : i \in DOMAIN x /\ x[i] = s[i]
  BY <1>1, <1>2, Zenon
<1>4. \A i \in DOMAIN x : i \in DOMAIN s \/ x[i] \in R \cup Q
  BY <1>1, <1>2
<1>5. \A i \in DOMAIN x, j \in DOMAIN s : i \in DOMAIN s \/ j < i
  BY <1>1, <1>2, Zenon
<1>6. Range(x) = Range(s) \cup (R \cup Q)
  BY <1>1, <1>2
<1> QED
  BY <1>3, <1>4, <1>5, <1>6 DEF GrowsBy

\* Four sequences behind s.
LEMMA GrowsFour ==
  ASSUME NEW U, NEW s \in Seq(U), NEW a \in Seq(U), NEW b \in Seq(U), NEW c \in Seq(U),
         NEW d \in Seq(U)
  PROVE  /\ s \o a \o b \o c \o d \in Seq(U)
         /\ GrowsBy(s, s \o a \o b \o c \o d, Range(a) \cup Range(b) \cup Range(c) \cup Range(d))
<1> DEFINE s1 == s \o a
           s2 == s1 \o b
           s3 == s2 \o c
           s4 == s3 \o d
<1>1. s1 \in Seq(U) /\ s2 \in Seq(U) /\ s3 \in Seq(U) /\ s4 \in Seq(U)
  OBVIOUS
<1>2. s \o a \o b \o c \o d = s4
  OBVIOUS
<1>3. GrowsBy(s, s1, Range(a))
  BY GrowsOnce
<1> HIDE DEF s1
<1>4. GrowsBy(s1, s2, Range(b))
  BY <1>1, GrowsOnce
<1> HIDE DEF s2
<1>5. GrowsBy(s2, s3, Range(c))
  BY <1>1, GrowsOnce
<1> HIDE DEF s3
<1>6. GrowsBy(s3, s4, Range(d))
  BY <1>1, GrowsOnce
<1> HIDE DEF s4
<1>7. GrowsBy(s, s2, Range(a) \cup Range(b))
  BY <1>3, <1>4, GrowsTwice
<1>8. GrowsBy(s, s3, (Range(a) \cup Range(b)) \cup Range(c))
  BY <1>5, <1>7, GrowsTwice
<1>9. GrowsBy(s, s4, ((Range(a) \cup Range(b)) \cup Range(c)) \cup Range(d))
  BY <1>6, <1>8, GrowsTwice
<1> QED
  BY <1>1, <1>2, <1>9
-----------------------------------------------------------------------------

LEMMA MultipleLeavesNone ==
  ASSUME NEW q \in Int, NEW s \in Nat \ {0}, NEW n \in Nat, n = s * q
  PROVE  n % s = 0
  BY SMTT(30)

LEMMA DivisionGrows ==
  ASSUME NEW b \in Nat \ {0}, NEW x \in Int, NEW y \in Int, x <= y
  PROVE  x \div b <= y \div b
<1> DEFINE p == x \div b
           q == y \div b
<1>1. /\ p \in Int /\ q \in Int /\ b * p <= x /\ y < b * q + b
  BY DivisionBrackets
<1> HIDE DEF p, q
<1>2. b * p < b * q + b
  BY <1>1
<1>3. \A n \in Nat \ {0}, i, j \in Int : n * i < n * j + n => i <= j
  BY SMTT(30)
<1>4. p <= q
  BY <1>1, <1>2, <1>3
<1> QED
  BY <1>4 DEF p, q

\* A hit so far is of no later interval than the coming tick.
LEMMA IntervalsSoFar ==
  ASSUME NEW e \in Hits, tick \in Nat, e.tick <= tick
  PROVE  IntervalOf(e) <= ThisInterval /\ IntervalOf(e) \in Int /\ ThisInterval \in Int
<1>1. e.tick \in Nat /\ e.tick - 1 \in Int /\ e.tick - 1 <= tick /\ tick \in Int
  BY DEF Hits
<1>2. SnapshotInterval \in Nat \ {0}
  BY FeedConstants
<1>3. (e.tick - 1) \div SnapshotInterval <= tick \div SnapshotInterval
  BY <1>1, <1>2, DivisionGrows
<1>4. (e.tick - 1) \div SnapshotInterval \in Int /\ tick \div SnapshotInterval \in Int
  BY <1>1, <1>2, DivisionBrackets
<1> QED
  BY <1>3, <1>4 DEF IntervalOf, ThisInterval

\* Between two snapshots the interval stays.
LEMMA IntervalStays ==
  ASSUME tick \in Nat, ~SnapshotDue
  PROVE  (tick + 1) \div SnapshotInterval = ThisInterval
<1> DEFINE s == SnapshotInterval
           q == tick \div s
           n == tick + 1
<1>1. s \in Nat \ {0} /\ n \in Nat
  BY FeedConstants
<1>2. q \in Int /\ s * q <= tick /\ tick < s * q + s
  BY <1>1, DivisionBrackets
<1>3. n % s # 0
  BY DEF SnapshotDue
<1> HIDE DEF s, q
<1>6. n # s * q + s
  <2> SUFFICES ASSUME n = s * q + s PROVE FALSE
    OBVIOUS
  <2>1. \A a \in Nat \ {0}, b \in Int : a * (b + 1) = a * b + a /\ b + 1 \in Int
    OBVIOUS
  <2>2. n = s * (q + 1) /\ q + 1 \in Int
    BY <1>1, <1>2, <2>1
  <2> HIDE DEF n
  <2>3. n % s = 0
    BY <1>1, <2>2, MultipleLeavesNone
  <2> QED
    BY <1>3, <2>3
<1>7. s * q <= n /\ n < s * q + s
  BY <1>1, <1>2, <1>6
<1>8. n \div s = q
  BY <1>1, <1>2, <1>7, DivisionUnique
<1> QED
  BY <1>8 DEF ThisInterval, q, s

LEMMA FewerHits ==
  ASSUME NEW hits, NEW fewer, fewer \subseteq hits, FewHits(hits)
  PROVE  FewHits(fewer)
<1> SUFFICES ASSUME NEW t \in Nat
             PROVE  /\ IsFiniteSet(SignaturesAt(fewer, t))
                    /\ Cardinality(SignaturesAt(fewer, t)) <= MaxHitsPerTick
  BY DEF FewHits
<1>1. SignaturesAt(fewer, t) \subseteq SignaturesAt(hits, t)
  BY DEF SignaturesAt
<1>2. IsFiniteSet(SignaturesAt(hits, t)) /\ Cardinality(SignaturesAt(hits, t)) <= MaxHitsPerTick
  BY DEF FewHits
<1>3. /\ IsFiniteSet(SignaturesAt(fewer, t))
      /\ Cardinality(SignaturesAt(fewer, t)) <= Cardinality(SignaturesAt(hits, t))
  BY <1>1, <1>2, FS_Subset
<1>4. Cardinality(SignaturesAt(fewer, t)) \in Nat /\ Cardinality(SignaturesAt(hits, t)) \in Nat
  BY <1>2, <1>3, FS_CardinalityType
<1> QED
  BY <1>2, <1>3, <1>4, FeedConstants

\* The hits of a tick more.
LEMMA FewHitsMore ==
  ASSUME tick \in Nat, NEW hits, hits \subseteq Hits, FewHits(hits), \A e \in hits : e.tick <= tick,
         NEW damages \in Seq(Hits), Len(damages) <= MaxHitsPerTick,
         \A k \in DOMAIN damages : damages[k].tick = tick + 1,
         \A k, l \in DOMAIN damages : k < l => Signature(damages[k]) # Signature(damages[l])
  PROVE  FewHits(hits \cup Range(damages))
<1> DEFINE all == hits \cup Range(damages)
           n == Len(damages)
<1>1. /\ n \in Nat /\ DOMAIN damages = 1 .. n
      /\ \A k \in 1 .. n : damages[k] \in Hits /\ damages[k].tick = tick + 1
      /\ n <= MaxHitsPerTick
  OBVIOUS
<1>2. \A e \in Range(damages) : /\ e \in Hits /\ e.tick = tick + 1
                                /\ \E k \in 1 .. n : e = damages[k]
  BY <1>1 DEF Range
<1>3. \A e \in Hits : Signature(e)[1] = e.tick /\ e.tick \in Nat
  BY SignatureTells DEF Hits
<1>4. ASSUME NEW e \in all, NEW f \in all, Signature(e) = Signature(f)
      PROVE  e = f
  <2>1. e.tick = f.tick /\ e.tick \in Nat /\ e \in Hits /\ f \in Hits
    BY <1>2, <1>3, <1>4
  <2>2. CASE e \in hits /\ f \in hits
    BY <1>4, <2>2 DEF FewHits
  <2>3. CASE e \in Range(damages) /\ f \in Range(damages)
    <3>1. PICK k \in 1 .. n : e = damages[k]
      BY <1>2, <2>3
    <3>2. PICK l \in 1 .. n : f = damages[l]
      BY <1>2, <2>3
    <3>3. ~ k < l /\ ~ l < k
      BY <1>1, <1>4, <3>1, <3>2
    <3> QED
      BY <1>1, <3>1, <3>2, <3>3
  <2>4. CASE e \in hits /\ f \in Range(damages)
    BY <1>2, <2>1, <2>4
  <2>5. CASE f \in hits /\ e \in Range(damages)
    BY <1>2, <2>1, <2>5
  <2> QED
    BY <2>2, <2>3, <2>4, <2>5
<1>5. ASSUME NEW t \in Nat
      PROVE  /\ IsFiniteSet(SignaturesAt(all, t))
             /\ Cardinality(SignaturesAt(all, t)) <= MaxHitsPerTick
  <2>1. CASE t # tick + 1
    <3>1. SignaturesAt(all, t) = SignaturesAt(hits, t)
      BY <1>2, <2>1 DEF SignaturesAt
    <3> QED
      BY <3>1 DEF FewHits
  <2>2. CASE t = tick + 1
    <3> DEFINE signatures == {Signature(e) : e \in Range(damages)}
               f == [k \in 1 .. n |-> Signature(damages[k])]
    <3>1. SignaturesAt(all, t) = signatures
      <4>1. \A e \in hits : e.tick # t
        <5> TAKE e \in hits
        <5>1. e.tick \in Nat /\ e.tick <= tick
          BY <1>3
        <5> QED
          BY <2>2, <5>1
      <4> QED
        BY <1>2, <2>2, <4>1 DEF SignaturesAt
    <3>2. f \in Surjection(1 .. n, signatures)
      <4>1. \A k \in 1 .. n : f[k] \in signatures
        BY <1>1 DEF Range
      <4>2. \A s \in signatures : \E k \in 1 .. n : f[k] = s
        BY <1>2
      <4> QED
        BY <4>1, <4>2 DEF Surjection
    <3>3. IsFiniteSet(1 .. n) /\ Cardinality(1 .. n) = n
      <4>1. /\ IsFiniteSet(1 .. n)
            /\ Cardinality(1 .. n) = IF 1 > n THEN 0 ELSE n - 1 + 1
        BY <1>1, FS_Interval
      <4> HIDE DEF n
      <4> QED
        BY <1>1, <4>1
    <3>4. IsFiniteSet(signatures) /\ Cardinality(signatures) <= Cardinality(1 .. n)
      BY <3>2, <3>3, FS_Surjection
    <3>5. Cardinality(signatures) \in Nat
      BY <3>4, FS_CardinalityType
    <3> HIDE DEF signatures, n
    <3> QED
      BY <1>1, <3>1, <3>3, <3>4, <3>5, FeedConstants
  <2> QED
    BY <2>1, <2>2
<1>6. FewHits(all)
  BY <1>4, <1>5 DEF FewHits
<1> QED
  BY <1>6
-----------------------------------------------------------------------------
(* A tick *)

\* What tick makes: the damages and what they leave, the events of the tick and those
\* that pend with them, the packets sent after the damages.
TickMakes(landed, respawned, value, new, changed, damages, left, after, fresh, events,
          inv, ms, snap) ==
  /\ damages \in Seq(Hits) /\ Len(damages) <= MaxHitsPerTick
  /\ \A k \in DOMAIN damages : damages[k].tick = tick + 1
  /\ \A k, l \in DOMAIN damages : k < l => Signature(damages[k]) # Signature(damages[l])
  /\ Local \in DOMAIN health
       => Follows(damages, HitsOnLocal, TellsLeft(left[Local]), left[Local] = health[Local])
  /\ left \in [DOMAIN health -> 0 .. StartingHealth]
  /\ after \in [DOMAIN health -> 0 .. StartingHealth]
  /\ \A p \in DOMAIN health : p \notin respawned => after[p] = left[p]
  /\ fresh \in Seq(Events) /\ HitsIn(fresh) = Range(damages)
  /\ changed => Follows(fresh, PhaseEvents, {e \in PhaseEvents : e.state = new}, FALSE)
  /\ ~changed => Silent(fresh, PhaseEvents)
  /\ Local \in respawned
       => \E e \in Range(fresh) : e \in RespawnEvents /\ e.player_id = Local
  /\ events = pending_snapshot_events \o fresh /\ events \in Seq(Events)
  /\ Range(events) = Range(pending_snapshot_events) \cup Range(fresh)
  /\ HitsIn(events) = HitsIn(pending_snapshot_events) \cup Range(damages)
  /\ inv \in Seq(Packets) /\ Range(inv) \subseteq Updates
  /\ value # coins => Follows(inv, CoinTellers, {p \in CoinTellers : p.coins = value}, FALSE)
  /\ value = coins => Range(inv) = {}
  /\ ms \in Seq(Packets)
  /\ \/ ~changed /\ ms = <<>>
     \/ ms = <<[type |-> "match_state", state |-> new]>>
  /\ Range(ms) \subseteq MatchStates
  /\ snap = IF SnapshotDue
            THEN <<[type |-> "state_snapshot", health |-> after[Local], coins |-> value,
                    events |-> events, match_state |-> new]>>
            ELSE <<>>
  /\ in_session => snap \in Seq(Packets) /\ Range(snap) \subseteq Snapshots

LEMMA TickIs ==
  ASSUME FeedForm,
         NEW landed \in SUBSET flying, Cardinality(landed) <= MaxHitsPerTick,
         NEW respawned, NEW value \in Coins, NEW new \in Phases, NEW changed \in BOOLEAN,
         NEW damages, damages = Fight(landed).damages, NEW left, left = Fight(landed).health,
         NEW after, after = HealthAfter(left, respawned),
         NEW fresh, fresh = TickEvents(respawned, new, changed, damages),
         NEW events, events = pending_snapshot_events \o fresh,
         NEW inv, inv = InventoryUpdate(value), NEW ms, ms = MatchState(new, changed),
         NEW snap, snap = Snapshot(after, value, new, events)
  PROVE  TickMakes(landed, respawned, value, new, changed, damages, left, after, fresh,
                   events, inv, ms, snap)
<1>1. /\ ServerForm /\ tick \in Nat /\ landed \subseteq Shots /\ IsFiniteSet(landed)
      /\ DOMAIN health = IF in_session THEN Players ELSE {Rival}
      /\ health \in [DOMAIN health -> 0 .. StartingHealth]
      /\ pending_snapshot_events \in Seq(Events)
  <2>1. ServerForm
    BY DEF FeedForm
  <2>2. landed \subseteq Shots /\ IsFiniteSet(landed)
    BY <2>1, FS_Subset DEF ServerForm
  <2>3. tick \in Nat
    BY <2>1, FeedConstants DEF ServerForm
  <2> QED
    BY <2>1, <2>2, <2>3 DEF ServerForm
<1> DEFINE n == Cardinality(landed)
<1>2. FightForm(Fight(landed), InOrder(landed), n) /\ n \in Nat
  BY <1>1, FightIs, FS_CardinalityType
<1> HIDE DEF n
<1>3. /\ left \in [DOMAIN health -> 0 .. StartingHealth]
      /\ damages \in Seq(Hits) /\ Len(damages) <= n
      /\ \A k \in DOMAIN damages : damages[k].tick = tick + 1
      /\ \A k, l \in DOMAIN damages : k < l => Signature(damages[k]) # Signature(damages[l])
      /\ Local \in DOMAIN health
           => Follows(damages, HitsOnLocal, TellsLeft(left[Local]), left[Local] = health[Local])
  BY <1>2 DEF FightForm
<1>4. Len(damages) <= MaxHitsPerTick
  <2>1. n <= MaxHitsPerTick
    BY DEF n
  <2>2. Len(damages) \in Nat
    BY <1>3
  <2> QED
    BY <1>2, <1>3, <2>1, <2>2, FeedConstants
<1>5. /\ after \in [DOMAIN health -> 0 .. StartingHealth]
      /\ \A p \in DOMAIN health : p \notin respawned => after[p] = left[p]
  <2>1. DOMAIN left = DOMAIN health /\ \A p \in DOMAIN health : left[p] \in 0 .. StartingHealth
    BY <1>3
  <2>2. StartingHealth \in 0 .. StartingHealth
    BY FeedConstants
  <2>3. after = [p \in DOMAIN health |-> IF p \in respawned THEN StartingHealth ELSE left[p]]
    BY <2>1 DEF HealthAfter
  <2> QED
    BY <2>1, <2>2, <2>3
<1>6. /\ fresh \in Seq(Events) /\ HitsIn(fresh) = Range(damages)
      /\ changed => Follows(fresh, PhaseEvents, {e \in PhaseEvents : e.state = new}, FALSE)
      /\ ~changed => Silent(fresh, PhaseEvents)
      /\ Local \in respawned
           => \E e \in Range(fresh) : e \in RespawnEvents /\ e.player_id = Local
  <2>1. EventsMade(respawned, new, changed, damages, fresh)
    BY <1>1, <1>3, EventsOfTick
  <2> QED
    BY <2>1 DEF EventsMade
<1>7. /\ events \in Seq(Events)
      /\ Range(events) = Range(pending_snapshot_events) \cup Range(fresh)
  BY <1>1, <1>6, RangeOfConcat
<1>8. HitsIn(events) = HitsIn(pending_snapshot_events) \cup Range(damages)
  BY <1>6, <1>7 DEF HitsIn
<1>9. Updates \subseteq Packets /\ MatchStates \subseteq Packets /\ Snapshots \subseteq Packets
  BY DEF Packets
<1>10. /\ inv \in Seq(Packets) /\ Range(inv) \subseteq Updates
       /\ value # coins => Follows(inv, CoinTellers, {p \in CoinTellers : p.coins = value}, FALSE)
       /\ value = coins => Range(inv) = {}
  <2>1. CASE value = coins
    <3>1. inv = <<>>
      BY <2>1 DEF InventoryUpdate
    <3> QED
      BY <2>1, <3>1, RangeOfNone
  <2>2. CASE value # coins
    <3> DEFINE one == [type |-> "inventory_update", coins |-> value]
    <3>1. inv = <<one>>
      BY <2>2 DEF InventoryUpdate
    <3>2. one \in Updates /\ one.coins = value
      BY DEF Updates
    <3> HIDE DEF one
    <3>3. one \in Packets
      BY <1>9, <3>2
    <3>4. <<one>> \in Seq(Packets) /\ Range(<<one>>) = {one}
      BY <3>3, RangeOfOne
    <3>5. one \in {p \in CoinTellers : p.coins = value}
      BY <3>2 DEF CoinTellers
    <3>6. Follows(<<one>>, CoinTellers, {p \in CoinTellers : p.coins = value}, FALSE)
      BY <3>5, FollowsOne
    <3> QED
      BY <2>2, <3>1, <3>2, <3>4, <3>6
  <2> QED
    BY <2>1, <2>2
<1>11. /\ ms \in Seq(Packets) /\ Range(ms) \subseteq MatchStates
       /\ \/ ~changed /\ ms = <<>>
          \/ ms = <<[type |-> "match_state", state |-> new]>>
  <2> DEFINE one == [type |-> "match_state", state |-> new]
  <2>1. one \in MatchStates
    BY DEF MatchStates
  <2>2. \/ ~changed /\ ms = <<>>
        \/ ms = <<one>>
    BY DEF MatchState
  <2> HIDE DEF one
  <2>3. one \in Packets
    BY <1>9, <2>1
  <2>4. <<one>> \in Seq(Packets) /\ Range(<<one>>) = {one}
    BY <2>3, RangeOfOne
  <2>5. <<>> \in Seq(Packets) /\ Range(<<>>) = {}
    BY RangeOfNone
  <2>6. ms \in Seq(Packets) /\ Range(ms) \subseteq MatchStates
    BY <2>1, <2>2, <2>4, <2>5
  <2> QED
    BY <2>2, <2>6 DEF one
<1>12. snap = IF SnapshotDue
              THEN <<[type |-> "state_snapshot", health |-> after[Local], coins |-> value,
                      events |-> events, match_state |-> new]>>
              ELSE <<>>
  BY DEF Snapshot
<1>13. ASSUME in_session
       PROVE  snap \in Seq(Packets) /\ Range(snap) \subseteq Snapshots
  <2> DEFINE one == [type |-> "state_snapshot", health |-> after[Local], coins |-> value,
                     events |-> events, match_state |-> new]
  <2>1. after[Local] \in 0 .. StartingHealth
    BY <1>1, <1>5, <1>13 DEF Players
  <2>2. one \in Snapshots
    BY <1>7, <2>1 DEF Snapshots
  <2>3. snap = IF SnapshotDue THEN <<one>> ELSE <<>>
    BY <1>12
  <2> HIDE DEF one
  <2>4. one \in Packets
    BY <1>9, <2>2
  <2>5. <<one>> \in Seq(Packets) /\ Range(<<one>>) = {one}
    BY <2>4, RangeOfOne
  <2>6. <<>> \in Seq(Packets) /\ Range(<<>>) = {}
    BY RangeOfNone
  <2> QED
    BY <2>2, <2>3, <2>5, <2>6
<1>14. events = pending_snapshot_events \o fresh
  OBVIOUS
<1> QED
  BY <1>3, <1>4, <1>5, <1>6, <1>7, <1>8, <1>10, <1>11, <1>12, <1>13, <1>14 DEF TickMakes

\* What a tick does with what it makes.
TickDoes(respawned, value, new, changed, damages, after, events, inv, ms, snap) ==
  /\ tick < MaxTick
  /\ MayAnnounce(new, changed)
  /\ value \in Coins /\ new \in Phases /\ changed \in BOOLEAN
  /\ ~in_session => value = coins
  /\ tick' = tick + 1 /\ phase' = new /\ health' = after /\ coins' = value
  /\ flying' \subseteq flying
  /\ pending_snapshot_events' = IF SnapshotDue THEN <<>> ELSE events
  /\ told' = IF in_session THEN told \cup Range(damages) ELSE told
  /\ inbox' = IF Served THEN inbox \o damages \o inv \o ms \o snap ELSE inbox
  /\ UNCHANGED <<last_shot_seq, in_session, client, hud, feed, next_shot_seq,
                 seen_snapshot, shown, outbox>>

\* The packets of a tick.
TickSent(damages, inv, ms, snap) ==
  /\ inbox \in Seq(Packets) /\ inbox' \in Seq(Packets)
  /\ Served => /\ damages \in Seq(Packets) /\ inv \in Seq(Packets)
               /\ ms \in Seq(Packets) /\ snap \in Seq(Packets)
               /\ Range(damages) \subseteq Hits /\ Range(inv) \subseteq Updates
               /\ Range(ms) \subseteq MatchStates /\ Range(snap) \subseteq Snapshots
               /\ inbox' = inbox \o damages \o inv \o ms \o snap
               /\ GrowsBy(inbox, inbox', Range(damages) \cup Range(inv)
                                           \cup Range(ms) \cup Range(snap))
  /\ ~Served => inbox' = inbox

LEMMA TickSends ==
  ASSUME FeedForm,
         NEW landed, NEW respawned, NEW value, NEW new, NEW changed, NEW damages, NEW left,
         NEW after, NEW fresh, NEW events, NEW inv, NEW ms, NEW snap,
         TickMakes(landed, respawned, value, new, changed, damages, left, after, fresh,
                   events, inv, ms, snap),
         TickDoes(respawned, value, new, changed, damages, after, events, inv, ms, snap)
  PROVE  TickSent(damages, inv, ms, snap)
<1>1. inbox \in Seq(Packets)
  BY DEF FeedForm, ClientForm
<1>2. CASE Served
  <2>1. inbox' = inbox \o damages \o inv \o ms \o snap /\ in_session
    BY <1>2 DEF TickDoes, Served
  <2>2. /\ damages \in Seq(Hits) /\ inv \in Seq(Packets) /\ ms \in Seq(Packets)
        /\ snap \in Seq(Packets)
        /\ Range(inv) \subseteq Updates
        /\ Range(ms) \subseteq MatchStates /\ Range(snap) \subseteq Snapshots
    BY <2>1 DEF TickMakes
  <2>3. damages \in Seq(Packets) /\ Range(damages) \subseteq Hits
    <3>1. Hits \subseteq Packets
      BY DEF Packets
    <3> QED
      BY <2>2, <3>1 DEF Range
  <2>4. /\ inbox \o damages \o inv \o ms \o snap \in Seq(Packets)
        /\ GrowsBy(inbox, inbox \o damages \o inv \o ms \o snap,
                   Range(damages) \cup Range(inv) \cup Range(ms) \cup Range(snap))
    BY <1>1, <2>2, <2>3, GrowsFour
  <2> QED
    BY <1>1, <1>2, <2>1, <2>2, <2>3, <2>4 DEF TickSent
<1>3. CASE ~Served
  BY <1>1, <1>3 DEF TickDoes, TickSent
<1> QED
  BY <1>2, <1>3

LEMMA TickKeepsForm ==
  ASSUME FeedForm,
         NEW landed, NEW respawned, NEW value, NEW new, NEW changed, NEW damages, NEW left,
         NEW after, NEW fresh, NEW events, NEW inv, NEW ms, NEW snap,
         TickMakes(landed, respawned, value, new, changed, damages, left, after, fresh,
                   events, inv, ms, snap),
         TickDoes(respawned, value, new, changed, damages, after, events, inv, ms, snap)
  PROVE  FeedForm'
<1>1. ServerForm /\ ClientForm /\ ShotsInOrder
  BY DEF FeedForm
<1>2. /\ tick < MaxTick /\ value \in Coins /\ new \in Phases
      /\ tick' = tick + 1 /\ phase' = new /\ health' = after /\ coins' = value
      /\ flying' \subseteq flying
      /\ pending_snapshot_events' = IF SnapshotDue THEN <<>> ELSE events
      /\ told' = IF in_session THEN told \cup Range(damages) ELSE told
      /\ UNCHANGED <<last_shot_seq, in_session, client, hud, feed, next_shot_seq,
                     seen_snapshot, shown, outbox>>
  BY DEF TickDoes
<1>3. /\ after \in [DOMAIN health -> 0 .. StartingHealth]
      /\ events \in Seq(Events)
      /\ Range(damages) \subseteq Hits
  BY DEF TickMakes, Range
<1>4. ServerForm'
  <2>1. tick' \in 0 .. MaxTick
    BY <1>1, <1>2, FeedConstants DEF ServerForm
  <2>2. health' \in [IF in_session' THEN Players ELSE {Rival} -> 0 .. StartingHealth]
    BY <1>1, <1>2, <1>3 DEF ServerForm
  <2>3. flying' \subseteq Shots /\ IsFiniteSet(flying')
    BY <1>1, <1>2, FS_Subset DEF ServerForm
  <2>4. pending_snapshot_events' \in Seq(Events)
    BY <1>2, <1>3
  <2>5. told' \subseteq Hits
    BY <1>1, <1>2, <1>3 DEF ServerForm
  <2> QED
    BY <1>1, <1>2, <2>1, <2>2, <2>3, <2>4, <2>5 DEF ServerForm
<1>5. ClientForm'
  <2> DEFINE R == Range(damages) \cup Range(inv) \cup Range(ms) \cup Range(snap)
  <2>1. /\ inbox' \in Seq(Packets)
        /\ Served => GrowsBy(inbox, inbox', R) /\ R \cap Accepts = {}
        /\ ~Served => inbox' = inbox
    <3>1. TickSent(damages, inv, ms, snap)
      BY TickSends
    <3> QED
      BY <3>1, PacketsDiffer DEF TickSent
  <2> HIDE DEF R
  <2>2. client' = "gone" => inbox' = <<>>
    BY <1>1, <1>2, <2>1 DEF ClientForm, Served
  <2>3. /\ \A i \in DOMAIN inbox : i \in DOMAIN inbox' /\ inbox'[i] = inbox[i]
        /\ \A i \in DOMAIN inbox' : inbox'[i] \in Accepts => i \in DOMAIN inbox
    <3>1. CASE Served
      BY <2>1, <3>1 DEF GrowsBy
    <3>2. CASE ~Served
      BY <2>1, <3>2
    <3> QED
      BY <3>1, <3>2
  <2>4. client' = "joining" => inbox' # <<>> /\ inbox'[1] \in Accepts
    <3> SUFFICES ASSUME client = "joining" PROVE inbox' # <<>> /\ inbox'[1] \in Accepts
      BY <1>2
    <3>1. inbox # <<>> /\ inbox[1] \in Accepts /\ inbox \in Seq(Packets)
      BY <1>1 DEF ClientForm
    <3>2. 1 \in DOMAIN inbox
      BY <3>1, TailIs
    <3> QED
      BY <2>3, <3>1, <3>2
  <2>5. \A i \in DOMAIN inbox' : inbox'[i] \in Accepts => i = 1 /\ client' = "joining"
    BY <1>1, <1>2, <2>3 DEF ClientForm
  <2> QED
    BY <1>1, <1>2, <2>1, <2>2, <2>4, <2>5 DEF ClientForm
<1>6. ShotsInOrder'
  <2>1. LastShot(Local)' = LastShot(Local)
    BY <1>2 DEF LastShot
  <2> QED
    BY <1>1, <1>2, <2>1 DEF ShotsInOrder
<1> QED
  BY <1>4, <1>5, <1>6 DEF FeedForm

LEMMA SilentOne ==
  ASSUME NEW e, NEW tellers, e \notin tellers
  PROVE  Silent(<<e>>, tellers)
  BY DEF Silent

LEMMA SilentNone ==
  ASSUME NEW tellers
  PROVE  Silent(<<>>, tellers)
  BY DEF Silent

\* A tick tells of the phase it ends in.
LEMMA TickKeepsPhase ==
  ASSUME FeedForm, PhaseOnItsWay,
         NEW landed, NEW respawned, NEW value, NEW new, NEW changed, NEW damages, NEW left,
         NEW after, NEW fresh, NEW events, NEW inv, NEW ms, NEW snap,
         TickMakes(landed, respawned, value, new, changed, damages, left, after, fresh,
                   events, inv, ms, snap),
         TickDoes(respawned, value, new, changed, damages, after, events, inv, ms, snap)
  PROVE  PhaseOnItsWay'
<1>0. Served => /\ inbox \in Seq(Packets) /\ damages \in Seq(Packets) /\ inv \in Seq(Packets)
                /\ ms \in Seq(Packets) /\ snap \in Seq(Packets)
                /\ Range(damages) \subseteq Hits /\ Range(inv) \subseteq Updates
                /\ Range(ms) \subseteq MatchStates /\ Range(snap) \subseteq Snapshots
                /\ inbox' = inbox \o damages \o inv \o ms \o snap
  <2>1. TickSent(damages, inv, ms, snap)
    BY TickSends
  <2> QED
    BY <2>1 DEF TickSent
<1> DEFINE right == {e \in PhaseEvents : e.state = new}
           hright == {p \in MatchStates : p.state = new}
                       \cup {p \in Snapshots : p.match_state = new}
           fright == {p \in MatchStates : p.state = new}
                       \cup {p \in Snapshots : Follows(p.events, PhaseEvents, right, FALSE)}
           m == [type |-> "match_state", state |-> new]
           one == [type |-> "state_snapshot", health |-> after[Local], coins |-> value,
                   events |-> events, match_state |-> new]
           B == client = "joined" /\ hud.match_state = new
           C == client = "joined" /\ feed.last_match_state = new
<1>1. /\ phase' = new /\ changed \in BOOLEAN
      /\ ~changed => new = phase
      /\ pending_snapshot_events' = IF SnapshotDue THEN <<>> ELSE events
      /\ UNCHANGED <<in_session, client, hud, feed>>
  BY DEF TickDoes, MayAnnounce
<1>2. /\ PhaseEventsRight' = right /\ HudPhaseRight' = hright /\ FeedPhaseRight' = fright
      /\ (client = "joined" /\ hud.match_state = phase)' = B
      /\ (client = "joined" /\ feed.last_match_state = phase)' = C
  BY <1>1 DEF PhaseEventsRight, HudPhaseRight, FeedPhaseRight
<1>3. ~changed => /\ PhaseEventsRight = right /\ HudPhaseRight = hright
                  /\ FeedPhaseRight = fright
  BY <1>1 DEF PhaseEventsRight, HudPhaseRight, FeedPhaseRight
<1>4. ~changed => /\ (client = "joined" /\ hud.match_state = phase) = B
                  /\ (client = "joined" /\ feed.last_match_state = phase) = C
  BY <1>1
<1>5. /\ pending_snapshot_events \in Seq(Events) /\ fresh \in Seq(Events)
      /\ events = pending_snapshot_events \o fresh /\ events \in Seq(Events)
      /\ changed => Follows(fresh, PhaseEvents, right, FALSE)
      /\ ~changed => Silent(fresh, PhaseEvents)
      /\ \/ ~changed /\ ms = <<>>
         \/ ms = <<m>>
      /\ snap = IF SnapshotDue THEN <<one>> ELSE <<>>
  BY DEF FeedForm, ServerForm, TickMakes
<1>6. m.state = new /\ one.match_state = new /\ one.events = events
  OBVIOUS
<1> HIDE DEF right, m, one, B, C
<1>7. changed => \A X \in BOOLEAN : Follows(events, PhaseEvents, right, X)
  BY <1>5, FollowsMore
<1>8. Follows(pending_snapshot_events, PhaseEvents, PhaseEventsRight, TRUE)
  BY DEF PhaseOnItsWay
<1>9. Follows(events, PhaseEvents, right, TRUE)
  <2>1. CASE changed
    BY <1>7, <2>1
  <2>2. CASE ~changed
    <3>1. Follows(pending_snapshot_events, PhaseEvents, right, TRUE)
      BY <1>3, <1>8, <2>2
    <3> QED
      BY <1>5, <2>2, <3>1, FollowsSilent DEF Silent
  <2> QED
    BY <1>1, <2>1, <2>2
<1>10. Follows(pending_snapshot_events, PhaseEvents, PhaseEventsRight, TRUE)'
  <2>1. Follows(<<>>, PhaseEvents, right, TRUE)
    BY DEF Follows
  <2>2. Follows(pending_snapshot_events', PhaseEvents, right, TRUE)
    BY <1>1, <1>9, <2>1
  <2> QED
    BY <1>2, <2>2 DEF Follows
<1>11. ASSUME Served
       PROVE  /\ Follows(inbox', HudPhaseTellers, hright, B)
              /\ Follows(inbox', FeedPhaseTellers, fright, C)
  <2>1. /\ inbox \in Seq(Packets) /\ damages \in Seq(Packets) /\ inv \in Seq(Packets)
        /\ ms \in Seq(Packets) /\ snap \in Seq(Packets)
        /\ Range(damages) \subseteq Hits /\ Range(inv) \subseteq Updates
        /\ Range(ms) \subseteq MatchStates /\ Range(snap) \subseteq Snapshots
        /\ inbox' = inbox \o damages \o inv \o ms \o snap
    BY <1>0, <1>11
  <2>2. /\ Silent(damages, HudPhaseTellers) /\ Silent(inv, HudPhaseTellers)
        /\ Silent(damages, FeedPhaseTellers) /\ Silent(inv, FeedPhaseTellers)
    <3>1. HudPhaseTellers \subseteq MatchStates \cup Snapshots
          /\ FeedPhaseTellers \subseteq MatchStates \cup Snapshots
      BY DEF HudPhaseTellers, FeedPhaseTellers
    <3>2. \A T : T \subseteq MatchStates \cup Snapshots
            => Range(damages) \cap T = {} /\ Range(inv) \cap T = {}
      BY <2>1, PacketsDiffer
    <3> QED
      BY <3>1, <3>2, SilentIs
  <2>3. ms = <<m>> => /\ Follows(ms, HudPhaseTellers, hright, FALSE)
                      /\ Follows(ms, FeedPhaseTellers, fright, FALSE)
    <3> SUFFICES ASSUME ms = <<m>>
                 PROVE  /\ Follows(ms, HudPhaseTellers, hright, FALSE)
                        /\ Follows(ms, FeedPhaseTellers, fright, FALSE)
      OBVIOUS
    <3>1. m \in MatchStates
      BY <2>1, RangeOfOne
    <3>2. m \in hright /\ m \in fright
      BY <1>6, <3>1
    <3> QED
      BY <3>2, FollowsOne
  <2>4. ms = <<>> => Silent(ms, HudPhaseTellers) /\ Silent(ms, FeedPhaseTellers)
    BY SilentNone
  <2>5. SnapshotDue => one \in Snapshots
    BY <1>5, <2>1, RangeOfOne
  <2>6. SnapshotDue => Follows(snap, HudPhaseTellers, hright, FALSE)
    <3> SUFFICES ASSUME SnapshotDue PROVE Follows(<<one>>, HudPhaseTellers, hright, FALSE)
      BY <1>5
    <3>1. one \in hright
      BY <1>6, <2>5
    <3> QED
      BY <3>1, FollowsOne
  <2>7. ~SnapshotDue => Silent(snap, HudPhaseTellers) /\ Silent(snap, FeedPhaseTellers)
    BY <1>5, SilentNone
  <2>8. SnapshotDue => \/ Follows(snap, FeedPhaseTellers, fright, FALSE)
                       \/ ~changed /\ Silent(snap, FeedPhaseTellers)
    <3> SUFFICES ASSUME SnapshotDue
                 PROVE  \/ Follows(<<one>>, FeedPhaseTellers, fright, FALSE)
                        \/ ~changed /\ Silent(<<one>>, FeedPhaseTellers)
      BY <1>5
    <3>1. Follows(events, PhaseEvents, right, FALSE)
            => Follows(<<one>>, FeedPhaseTellers, fright, FALSE)
      <4> SUFFICES ASSUME Follows(events, PhaseEvents, right, FALSE)
                   PROVE  Follows(<<one>>, FeedPhaseTellers, fright, FALSE)
        OBVIOUS
      <4>1. one \in fright
        BY <1>6, <2>5
      <4> QED
        BY <4>1, FollowsOne
    <3>2. CASE changed
      BY <1>7, <3>1, <3>2
    <3>3. CASE ~changed
      <4>1. CASE Follows(events, PhaseEvents, right, FALSE)
        BY <3>1, <4>1
      <4>2. CASE ~Follows(events, PhaseEvents, right, FALSE)
        <5>1. Silent(events, PhaseEvents)
          BY <1>9, <4>2 DEF Follows, Silent
        <5>2. one \notin FeedPhaseTellers
          BY <1>6, <2>5, <5>1, PacketsDiffer DEF FeedPhaseTellers, Silent
        <5> QED
          BY <3>3, <5>2, SilentOne
      <4> QED
        BY <4>1, <4>2
    <3> QED
      BY <1>1, <3>2, <3>3
  <2>9. /\ ~changed => Follows(inbox, HudPhaseTellers, hright, B)
        /\ ~changed => Follows(inbox, FeedPhaseTellers, fright, C)
    <3> SUFFICES ASSUME ~changed
                 PROVE  /\ Follows(inbox, HudPhaseTellers, hright, B)
                        /\ Follows(inbox, FeedPhaseTellers, fright, C)
      OBVIOUS
    <3>1. /\ Follows(inbox, HudPhaseTellers, HudPhaseRight,
                     client = "joined" /\ hud.match_state = phase)
          /\ Follows(inbox, FeedPhaseTellers, FeedPhaseRight,
                     client = "joined" /\ feed.last_match_state = phase)
      BY <1>11 DEF PhaseOnItsWay
    <3> QED
      BY <1>3, <1>4, <3>1
  <2> HIDE DEF hright, fright
  <2>10. Follows(inbox', HudPhaseTellers, hright, B)
    BY <1>1, <1>5, <2>1, <2>2, <2>3, <2>4, <2>6, <2>7, <2>9, FollowsFour
  <2>11. Follows(inbox', FeedPhaseTellers, fright, C)
    BY <1>1, <1>5, <2>1, <2>2, <2>3, <2>4, <2>7, <2>8, <2>9, FollowsFour
  <2> QED
    BY <2>10, <2>11
<1> HIDE DEF hright, fright
<1>12. Served' = Served
  BY <1>1 DEF Served
<1>13. Served' =>
         /\ Follows(inbox, HudPhaseTellers, HudPhaseRight,
                    client = "joined" /\ hud.match_state = phase)'
         /\ Follows(inbox, FeedPhaseTellers, FeedPhaseRight,
                    client = "joined" /\ feed.last_match_state = phase)'
  <2> SUFFICES ASSUME Served
               PROVE  /\ Follows(inbox, HudPhaseTellers, HudPhaseRight,
                                 client = "joined" /\ hud.match_state = phase)'
                      /\ Follows(inbox, FeedPhaseTellers, FeedPhaseRight,
                                 client = "joined" /\ feed.last_match_state = phase)'
    BY <1>12
  <2> QED
    BY <1>2, <1>11
<1> QED
  BY <1>10, <1>13 DEF PhaseOnItsWay

\* A tick tells what the player carries, and of its health: a hit at once, and a
\* respawn with the events that pend.
LEMMA TickKeepsState ==
  ASSUME FeedForm, StateOnItsWay,
         NEW landed, NEW respawned, NEW value, NEW new, NEW changed, NEW damages, NEW left,
         NEW after, NEW fresh, NEW events, NEW inv, NEW ms, NEW snap,
         TickMakes(landed, respawned, value, new, changed, damages, left, after, fresh,
                   events, inv, ms, snap),
         TickDoes(respawned, value, new, changed, damages, after, events, inv, ms, snap)
  PROVE  StateOnItsWay'
<1>0. TickSent(damages, inv, ms, snap)
  BY TickSends
<1> DEFINE cright == {p \in CoinTellers : p.coins = value}
           left_of == after[Local]
           hright == {h \in Hits : /\ h.victim_id = Local
                                   /\ h.victim_health = left_of /\ h.lethal = (left_of = 0)}
                       \cup {p \in Snapshots : p.health = left_of}
           one == [type |-> "state_snapshot", health |-> left_of, coins |-> value,
                   events |-> events, match_state |-> new]
           B == hud.has_player_state /\ hud.coins = value
           C == /\ hud.has_player_state /\ hud.health = left_of
                /\ hud.alive = (left_of > 0)
           pends == \E e \in Range(events) : e \in RespawnEvents /\ e.player_id = Local
<1>1. /\ health' = after /\ coins' = value
      /\ pending_snapshot_events' = IF SnapshotDue THEN <<>> ELSE events
      /\ UNCHANGED <<in_session, client, hud, feed, seen_snapshot>>
  BY DEF TickDoes
<1>2. /\ CoinsRight' = cright /\ HealthRight' = hright
      /\ (hud.has_player_state /\ hud.coins = coins)' = B
      /\ (/\ hud.has_player_state /\ hud.health = health[Local]
          /\ hud.alive = (health[Local] > 0))' = C
  BY <1>1 DEF CoinsRight, HealthRight
<1>3. value = coins => cright = CoinsRight /\ B = (hud.has_player_state /\ hud.coins = coins)
  BY DEF CoinsRight
<1>4. left_of = health[Local]
        => /\ hright = HealthRight
           /\ C = (/\ hud.has_player_state /\ hud.health = health[Local]
                   /\ hud.alive = (health[Local] > 0))
  BY DEF HealthRight
<1>5. snap = IF SnapshotDue THEN <<one>> ELSE <<>>
  BY DEF TickMakes
<1>6. one.coins = value /\ one.health = left_of
  OBVIOUS
<1>7. /\ damages \in Seq(Hits)
      /\ Local \in DOMAIN health
           => Follows(damages, HitsOnLocal, TellsLeft(left[Local]), left[Local] = health[Local])
      /\ \A p \in DOMAIN health : p \notin respawned => after[p] = left[p]
      /\ Local \in respawned
           => \E e \in Range(fresh) : e \in RespawnEvents /\ e.player_id = Local
      /\ Range(events) = Range(pending_snapshot_events) \cup Range(fresh)
      /\ value # coins => Follows(inv, CoinTellers, cright, FALSE)
      /\ value = coins => Range(inv) = {}
  BY DEF TickMakes
<1> HIDE DEF cright, one, B, C
<1>8. ASSUME Served, SnapshotComes'
      PROVE  /\ Follows(inbox', CoinTellers, cright, B)
             /\ Follows(inbox', HealthTellers, hright, C) \/ (pends /\ ~SnapshotDue)
  <2>1. /\ inbox \in Seq(Packets) /\ damages \in Seq(Packets) /\ inv \in Seq(Packets)
        /\ ms \in Seq(Packets) /\ snap \in Seq(Packets)
        /\ Range(damages) \subseteq Hits /\ Range(inv) \subseteq Updates
        /\ Range(ms) \subseteq MatchStates /\ Range(snap) \subseteq Snapshots
        /\ inbox' = inbox \o damages \o inv \o ms \o snap
        /\ GrowsBy(inbox, inbox', Range(damages) \cup Range(inv)
                                    \cup Range(ms) \cup Range(snap))
    BY <1>0, <1>8 DEF TickSent
  <2>2. /\ Silent(damages, CoinTellers)
        /\ Silent(ms, CoinTellers) /\ Silent(ms, HealthTellers)
        /\ Silent(inv, HealthTellers)
    <3>1. CoinTellers = Updates \cup Snapshots /\ HealthTellers \subseteq Hits \cup Snapshots
      BY DEF CoinTellers, HealthTellers
    <3>2. /\ Range(damages) \cap CoinTellers = {} /\ Range(ms) \cap CoinTellers = {}
          /\ Range(ms) \cap HealthTellers = {} /\ Range(inv) \cap HealthTellers = {}
      BY <2>1, <3>1, PacketsDiffer
    <3> QED
      BY <3>2, SilentIs
  <2>3. CASE SnapshotDue
    <3>1. snap = <<one>>
      BY <1>5, <2>3
    <3>2. one \in Snapshots
      BY <2>1, <3>1, RangeOfOne
    <3>3. one \in cright /\ one \in hright
      BY <1>6, <3>2 DEF cright, CoinTellers
    <3>4. Follows(snap, CoinTellers, cright, FALSE) /\ Follows(snap, HealthTellers, hright, FALSE)
      BY <3>1, <3>3, FollowsOne
    <3> HIDE DEF hright
    <3>5. Follows(inbox', CoinTellers, cright, B)
      BY <2>1, <3>4, FollowsFour
    <3>6. Follows(inbox', HealthTellers, hright, C)
      BY <2>1, <3>4, FollowsFour
    <3> QED
      BY <3>5, <3>6
  <2>4. CASE ~SnapshotDue
    <3>1. snap = <<>>
      BY <1>5, <2>4
    <3>2. Silent(snap, CoinTellers) /\ Silent(snap, HealthTellers)
      BY <3>1, SilentNone
    <3>3. SnapshotComes
      <4>1. CASE seen_snapshot
        BY <4>1 DEF SnapshotComes
      <4>2. CASE ~seen_snapshot
        <5>1. PICK i \in DOMAIN inbox' : inbox'[i] \in Snapshots
          BY <1>1, <1>8, <4>2 DEF SnapshotComes
        <5>2. Range(snap) = {}
          BY <3>1, RangeOfNone
        <5>3. (Range(damages) \cup Range(inv) \cup Range(ms) \cup Range(snap)) \cap Snapshots = {}
          BY <2>1, <5>2, PacketsDiffer
        <5>4. i \in DOMAIN inbox /\ inbox[i] = inbox'[i]
          BY <2>1, <5>1, <5>3 DEF GrowsBy
        <5> QED
          BY <5>1, <5>4 DEF SnapshotComes
      <4> QED
        BY <4>1, <4>2
    <3>4. /\ Follows(inbox, CoinTellers, CoinsRight, hud.has_player_state /\ hud.coins = coins)
          /\ \/ Follows(inbox, HealthTellers, HealthRight,
                        /\ hud.has_player_state /\ hud.health = health[Local]
                        /\ hud.alive = (health[Local] > 0))
             \/ RespawnPends
      BY <1>8, <3>3 DEF StateOnItsWay
    <3>5. Follows(inbox', CoinTellers, cright, B)
      <4>1. CASE value # coins
        BY <1>7, <2>1, <2>2, <3>2, <4>1, FollowsFour
      <4>2. CASE value = coins
        <5>1. Silent(inv, CoinTellers)
          BY <1>7, <4>2, SilentIs
        <5>2. Follows(inbox, CoinTellers, cright, B)
          BY <1>3, <3>4, <4>2
        <5> QED
          BY <2>1, <2>2, <3>2, <5>1, <5>2, FollowsFour
      <4> QED
        BY <4>1, <4>2
    <3>6. CASE RespawnPends
      <4>1. PICK i \in DOMAIN pending_snapshot_events :
              /\ pending_snapshot_events[i] \in RespawnEvents
              /\ pending_snapshot_events[i].player_id = Local
        BY <3>6 DEF RespawnPends
      <4>2. pending_snapshot_events[i] \in Range(events)
        BY <1>7, <4>1 DEF Range
      <4> QED
        BY <2>4, <3>5, <4>1, <4>2
    <3>7. CASE Local \in respawned
      BY <1>7, <2>4, <3>5, <3>7
    <3>8. CASE Local \notin respawned /\ ~RespawnPends
      <4>1. Local \in DOMAIN health
        BY <1>8 DEF FeedForm, ServerForm, Served, Players
      <4>2. left_of = left[Local]
        BY <1>7, <3>8, <4>1
      <4>3. Follows(damages, HitsOnLocal, TellsLeft(left_of), left_of = health[Local])
        BY <1>7, <4>1, <4>2
      <4>4. \A i \in DOMAIN damages : damages[i] \in Hits
        BY <1>7
      <4>5. CASE Follows(damages, HitsOnLocal, TellsLeft(left_of), FALSE)
        <5>1. PICK i \in DOMAIN damages :
                /\ damages[i] \in TellsLeft(left_of)
                /\ \A j \in DOMAIN damages : i < j => damages[j] \notin HitsOnLocal
          BY <4>5 DEF Follows
        <5>2. damages[i] \in hright
          BY <5>1 DEF TellsLeft, HitsOnLocal
        <5>3. \A j \in DOMAIN damages : i < j => damages[j] \notin HealthTellers
          BY <4>4, <5>1, PacketsDiffer DEF HealthTellers, HitsOnLocal
        <5>4. Follows(damages, HealthTellers, hright, FALSE)
          BY <5>2, <5>3 DEF Follows
        <5> HIDE DEF hright
        <5>5. Follows(inbox', HealthTellers, hright, C)
          BY <2>1, <2>2, <3>2, <5>4, FollowsFour
        <5> QED
          BY <3>5, <5>5
      <4>6. CASE ~Follows(damages, HitsOnLocal, TellsLeft(left_of), FALSE)
        <5>1. (\A i \in DOMAIN damages : damages[i] \notin HitsOnLocal) /\ left_of = health[Local]
          BY <4>3, <4>6 DEF Follows
        <5>2. Silent(damages, HealthTellers)
          BY <4>4, <5>1, PacketsDiffer DEF HealthTellers, HitsOnLocal, Silent
        <5>3. Follows(inbox, HealthTellers, hright, C)
          BY <1>4, <3>4, <3>8, <5>1
        <5> HIDE DEF hright
        <5>4. Follows(inbox', HealthTellers, hright, C)
          BY <2>1, <2>2, <3>2, <5>2, <5>3, FollowsFour
        <5> QED
          BY <3>5, <5>4
      <4> QED
        BY <4>5, <4>6
    <3> QED
      BY <3>6, <3>7, <3>8
  <2> QED
    BY <2>3, <2>4
<1>9. pends /\ ~SnapshotDue => RespawnPends'
  <2> SUFFICES ASSUME pends, ~SnapshotDue PROVE RespawnPends'
    OBVIOUS
  <2>1. pending_snapshot_events' = events
    BY <1>1
  <2>2. PICK e \in Range(events) : e \in RespawnEvents /\ e.player_id = Local
    OBVIOUS
  <2>3. PICK i \in DOMAIN events : events[i] = e
    BY <2>2 DEF Range
  <2> QED
    BY <2>1, <2>2, <2>3 DEF RespawnPends
<1>10. Served' = Served
  BY <1>1 DEF Served
<1> HIDE DEF hright, pends
<1>11. Served' /\ SnapshotComes' =>
         /\ Follows(inbox, CoinTellers, CoinsRight, hud.has_player_state /\ hud.coins = coins)'
         /\ \/ Follows(inbox, HealthTellers, HealthRight,
                       /\ hud.has_player_state /\ hud.health = health[Local]
                       /\ hud.alive = (health[Local] > 0))'
            \/ RespawnPends'
  <2> SUFFICES ASSUME Served, SnapshotComes'
               PROVE  /\ Follows(inbox, CoinTellers, CoinsRight,
                                 hud.has_player_state /\ hud.coins = coins)'
                      /\ \/ Follows(inbox, HealthTellers, HealthRight,
                                    /\ hud.has_player_state /\ hud.health = health[Local]
                                    /\ hud.alive = (health[Local] > 0))'
                         \/ RespawnPends'
    BY <1>10
  <2> QED
    BY <1>2, <1>8, <1>9
<1> QED
  BY <1>11 DEF StateOnItsWay

\* What is known.
LEMMA KnownAre ==
  /\ HitsShown \subseteq Known /\ HitsIn(pending_snapshot_events) \subseteq Known
  /\ told \subseteq Known
  /\ \A i \in DOMAIN inbox : HitsTo(inbox[i]) \subseteq Known
<1>1. \A i \in DOMAIN inbox : HitsTo(inbox[i]) \subseteq HitsComing
  BY DEF HitsComing
<1>2. Known = HitsShown \cup HitsComing \cup HitsIn(pending_snapshot_events) \cup told
  BY DEF Known
<1> QED
  BY <1>1, <1>2

LEMMA KnownAreHits ==
  ASSUME told \subseteq Hits
  PROVE  Known \subseteq Hits
<1>1. \A events : HitsIn(events) \subseteq Hits
  BY DEF HitsIn
<1>2. HitsComing \subseteq Hits
  BY <1>1 DEF HitsTo, HitsComing
<1>3. Known = HitsShown \cup HitsComing \cup HitsIn(pending_snapshot_events) \cup told
  BY DEF Known
<1> QED
  BY <1>1, <1>2, <1>3 DEF HitsShown

LEMMA HitsComingNext ==
  HitsComing' = UNION {HitsTo(inbox'[i]) : i \in DOMAIN inbox'}
  BY DEF HitsComing, HitsTo, EventsOf, HitsIn

\* The hits of a tick are new, and of the interval of that tick.
LEMMA TickKeepsHits ==
  ASSUME FeedForm, HitsInv,
         NEW landed, NEW respawned, NEW value, NEW new, NEW changed, NEW damages, NEW left,
         NEW after, NEW fresh, NEW events, NEW inv, NEW ms, NEW snap,
         TickMakes(landed, respawned, value, new, changed, damages, left, after, fresh,
                   events, inv, ms, snap),
         TickDoes(respawned, value, new, changed, damages, after, events, inv, ms, snap)
  PROVE  HitsInv'
<1>0. TickSent(damages, inv, ms, snap)
  BY TickSends
<1> DEFINE one == [type |-> "state_snapshot", health |-> after[Local], coins |-> value,
                   events |-> events, match_state |-> new]
           pending == pending_snapshot_events
           hits == Range(damages)
           now == ThisInterval
           R == Range(damages) \cup Range(inv) \cup Range(ms) \cup Range(snap)
<1>1. /\ tick' = tick + 1
      /\ pending' = IF SnapshotDue THEN <<>> ELSE events
      /\ told' = IF in_session THEN told \cup hits ELSE told
      /\ UNCHANGED <<in_session, client, hud, feed, shown>>
  BY DEF TickDoes
<1>2. /\ damages \in Seq(Hits) /\ Len(damages) <= MaxHitsPerTick
      /\ \A k \in DOMAIN damages : damages[k].tick = tick + 1
      /\ \A k, l \in DOMAIN damages : k < l => Signature(damages[k]) # Signature(damages[l])
      /\ HitsIn(events) = HitsIn(pending) \cup hits
      /\ snap = IF SnapshotDue THEN <<one>> ELSE <<>>
  BY DEF TickMakes
<1>3. /\ tick \in Nat /\ Known \subseteq Hits
      /\ FewHits(Known) /\ RingInOrder(feed.recent, shown)
      /\ \A e \in Known : e.tick \in 1 .. tick
      /\ \A e \in HitsIn(pending) : IntervalOf(e) = now
      /\ HitsShown \subseteq Known /\ HitsIn(pending) \subseteq Known /\ told \subseteq Known
      /\ \A i \in DOMAIN inbox : HitsTo(inbox[i]) \subseteq Known
  <2>1. tick \in Nat /\ told \subseteq Hits
    BY FeedConstants DEF FeedForm, ServerForm
  <2>2. Known \subseteq Hits
    BY <2>1, KnownAreHits
  <2>3. FewHits(Known) /\ RingInOrder(feed.recent, shown) /\ HitsInOrder
    BY DEF HitsInv
  <2>4. /\ HitsShown \subseteq Known /\ HitsIn(pending) \subseteq Known /\ told \subseteq Known
        /\ \A i \in DOMAIN inbox : HitsTo(inbox[i]) \subseteq Known
    BY KnownAre
  <2> QED
    BY <2>1, <2>2, <2>3, <2>4 DEF HitsInOrder
<1>4. \A e \in Known : IntervalOf(e) <= now /\ IntervalOf(e) \in Int /\ now \in Int
  <2> TAKE e \in Known
  <2>1. e \in Hits /\ e.tick <= tick
    BY <1>3
  <2> QED
    BY <1>3, <2>1, IntervalsSoFar
<1>5. \A e \in hits : e \in Hits /\ e.tick = tick + 1
  BY <1>2 DEF Range
<1>6. \A e \in hits : IntervalOf(e) = now
  <2> TAKE e \in hits
  <2>1. e.tick - 1 = tick
    BY <1>3, <1>5
  <2> QED
    BY <2>1 DEF IntervalOf, ThisInterval
<1>7. FewHits(Known \cup hits)
  <2>1. \A e \in Known : e.tick <= tick
    BY <1>3
  <2> QED
    BY <1>2, <1>3, <2>1, FewHitsMore
<1> HIDE DEF pending, hits, now, R, one
<1>8. /\ \A i \in DOMAIN inbox' :
             (i \in DOMAIN inbox /\ inbox'[i] = inbox[i]) \/ (Served /\ inbox'[i] \in R)
      /\ \A i \in DOMAIN inbox', j \in DOMAIN inbox : i \in DOMAIN inbox \/ j < i
      /\ Range(inbox) \subseteq Range(inbox')
      /\ Served => hits \subseteq Range(inbox')
      /\ inbox \in Seq(Packets) /\ inbox' \in Seq(Packets)
  <2>1. CASE Served
    <3>1. GrowsBy(inbox, inbox', R)
      BY <1>0, <2>1 DEF TickSent, R
    <3>2. hits \subseteq R
      BY DEF R, hits
    <3> QED
      BY <1>0, <2>1, <3>1, <3>2 DEF GrowsBy, TickSent
  <2>2. CASE ~Served
    BY <1>0, <2>2 DEF TickSent
  <2> QED
    BY <2>1, <2>2
<1>9. ASSUME Served, NEW p \in R
      PROVE  HitsTo(p) \subseteq HitsIn(pending) \cup hits
  <2>1. /\ Range(inv) \subseteq Updates /\ Range(ms) \subseteq MatchStates
        /\ Range(snap) \subseteq Snapshots
    BY <1>0, <1>9 DEF TickSent
  <2>2. Range(<<p>>) = {p}
    BY RangeOfOne
  <2>3. CASE p \in hits
    <3>1. p \notin Snapshots
      BY <1>5, <2>3, PacketsDiffer
    <3> QED
      BY <2>2, <2>3, <3>1 DEF HitsTo, HitsIn, EventsOf
  <2>4. CASE p \in Updates \cup MatchStates
    BY <2>2, <2>4, PacketsDiffer DEF HitsTo, HitsIn, EventsOf
  <2>5. CASE p \in Range(snap)
    <3>1. snap = <<one>> /\ p = one
      <4>1. CASE SnapshotDue
        BY <1>2, <2>5, <4>1, RangeOfOne
      <4>2. CASE ~SnapshotDue
        BY <1>2, <2>5, <4>2, RangeOfNone
      <4> QED
        BY <4>1, <4>2
    <3>2. p.events = events
      BY <3>1 DEF one
    <3> QED
      BY <1>2, <2>1, <2>5, <3>2 DEF HitsTo, EventsOf
  <2> QED
    BY <2>1, <2>3, <2>4, <2>5 DEF R, hits
<1>10. ASSUME NEW i \in DOMAIN inbox', NEW e \in HitsTo(inbox'[i])
       PROVE  \/ i \in DOMAIN inbox /\ inbox'[i] = inbox[i] /\ e \in HitsTo(inbox[i])
              \/ (\A j \in DOMAIN inbox : j < i) /\ i \notin DOMAIN inbox
                 /\ e \in HitsIn(pending) \cup hits
  <2>1. CASE i \in DOMAIN inbox /\ inbox'[i] = inbox[i]
    BY <2>1, <1>10
  <2>2. CASE i \notin DOMAIN inbox
    BY <1>8, <1>9, <1>10, <2>2
  <2>3. i \in DOMAIN inbox => inbox'[i] = inbox[i]
    <3>1. CASE Served
      BY <1>0, <3>1 DEF TickSent, GrowsBy
    <3>2. CASE ~Served
      BY <1>0, <3>2 DEF TickSent
    <3> QED
      BY <3>1, <3>2
  <2> QED
    BY <2>1, <2>2, <2>3
<1>11. \A e \in HitsIn(pending) \cup hits : IntervalOf(e) = now
  BY <1>3, <1>6
<1>12. /\ HitsShown' = HitsShown
       /\ HitsIn(pending)' \subseteq HitsIn(pending) \cup hits
       /\ SnapshotDue => HitsIn(pending)' = {}
  <2>1. HitsShown' = HitsShown
    BY <1>1 DEF HitsShown
  <2>2. CASE SnapshotDue
    <3>1. HitsIn(pending') = {}
      BY <1>1, <2>2, RangeOfNone DEF HitsIn
    <3> QED
      BY <2>1, <3>1 DEF HitsIn
  <2>3. CASE ~SnapshotDue
    <3>1. HitsIn(pending') = HitsIn(pending) \cup hits
      BY <1>1, <1>2, <2>3
    <3> QED
      BY <2>1, <2>3, <3>1 DEF HitsIn
  <2> QED
    BY <2>2, <2>3
<1>13. Known' \subseteq Known \cup hits
  <2>1. Known' = HitsShown' \cup HitsComing' \cup HitsIn(pending)' \cup told'
    BY DEF Known, pending
  <2>2. told' \subseteq told \cup hits
    BY <1>1
  <2>3. HitsComing' \subseteq Known \cup hits
    <3> SUFFICES ASSUME NEW i \in DOMAIN inbox', NEW e \in HitsTo(inbox'[i])
                 PROVE  e \in Known \cup hits
      BY HitsComingNext
    <3> QED
      BY <1>3, <1>10
  <2>4. HitsShown' \subseteq Known \cup hits /\ HitsIn(pending)' \subseteq Known \cup hits
        /\ told' \subseteq Known \cup hits
    BY <1>3, <1>12, <2>2
  <2> QED
    BY <2>1, <2>3, <2>4
<1>14. FewHits(Known')
  BY <1>7, <1>13, FewerHits
<1>15. \A e \in Known' : e.tick \in 1 .. tick'
  <2> TAKE e \in Known'
  <2>1. CASE e \in Known
    BY <1>1, <1>3, <2>1
  <2>2. CASE e \in hits
    BY <1>1, <1>3, <1>5, <2>2
  <2> QED
    BY <1>13, <2>1, <2>2
<1>16. \A e \in HitsIn(pending)' : IntervalOf(e) = ThisInterval'
  <2>1. CASE SnapshotDue
    BY <1>12, <2>1
  <2>2. CASE ~SnapshotDue
    <3>1. ThisInterval' = now
      BY <1>1, <1>3, <2>2, IntervalStays DEF now, ThisInterval
    <3> QED
      BY <1>11, <1>12, <3>1
  <2> QED
    BY <2>1, <2>2
<1>17. \A i \in DOMAIN inbox : \A e \in HitsTo(inbox[i]) :
         /\ \A f \in HitsShown : IntervalOf(f) <= IntervalOf(e)
         /\ \A j \in DOMAIN inbox : \A f \in HitsTo(inbox[j]) :
              /\ i < j => IntervalOf(e) <= IntervalOf(f)
              /\ i = j => IntervalOf(e) = IntervalOf(f)
  BY DEF HitsInv, HitsInOrder
<1>18. ASSUME NEW i \in DOMAIN inbox', NEW e \in HitsTo(inbox'[i])
       PROVE  /\ \A f \in HitsShown : IntervalOf(f) <= IntervalOf(e)
              /\ \A j \in DOMAIN inbox' : \A f \in HitsTo(inbox'[j]) :
                   /\ i < j => IntervalOf(e) <= IntervalOf(f)
                   /\ i = j => IntervalOf(e) = IntervalOf(f)
  <2>0. DOMAIN inbox \subseteq Int /\ DOMAIN inbox' \subseteq Int
    BY <1>8
  <2>1. CASE i \in DOMAIN inbox /\ e \in HitsTo(inbox[i])
    <3>1. \A f \in HitsShown : IntervalOf(f) <= IntervalOf(e)
      BY <1>17, <2>1
    <3>2. e \in Known
      BY <1>3, <2>1
    <3>3. ASSUME NEW j \in DOMAIN inbox', NEW f \in HitsTo(inbox'[j])
          PROVE  /\ i < j => IntervalOf(e) <= IntervalOf(f)
                 /\ i = j => IntervalOf(e) = IntervalOf(f)
      <4>1. CASE j \in DOMAIN inbox /\ f \in HitsTo(inbox[j])
        BY <1>17, <2>1, <4>1
      <4>2. CASE (\A l \in DOMAIN inbox : l < j) /\ f \in HitsIn(pending) \cup hits
        <5>1. i < j /\ i # j
          BY <2>0, <2>1, <4>2
        <5>2. IntervalOf(f) = now /\ IntervalOf(e) <= now
          BY <1>4, <1>11, <3>2, <4>2
        <5> QED
          BY <5>1, <5>2
      <4> QED
        BY <1>10, <4>1, <4>2
    <3> QED
      BY <3>1, <3>3
  <2>2. CASE i \notin DOMAIN inbox /\ (\A l \in DOMAIN inbox : l < i)
             /\ e \in HitsIn(pending) \cup hits
    <3>1. IntervalOf(e) = now /\ now \in Int
      BY <1>3, <1>11, <2>2, IntervalsSoFar, DivisionBrackets, FeedConstants DEF now, ThisInterval
    <3>2. \A f \in HitsShown : IntervalOf(f) <= IntervalOf(e)
      BY <1>3, <1>4, <3>1
    <3>3. ASSUME NEW j \in DOMAIN inbox', NEW f \in HitsTo(inbox'[j])
          PROVE  /\ i < j => IntervalOf(e) <= IntervalOf(f)
                 /\ i = j => IntervalOf(e) = IntervalOf(f)
      <4>1. CASE j \in DOMAIN inbox /\ f \in HitsTo(inbox[j])
        <5>1. j < i
          BY <2>2, <4>1
        <5>2. i \in Int /\ j \in Int
          BY <2>0
        <5> QED
          BY <5>1, <5>2
      <4>2. CASE f \in HitsIn(pending) \cup hits
        <5>1. IntervalOf(f) = now
          BY <1>11, <4>2
        <5> QED
          BY <3>1, <5>1
      <4> QED
        BY <1>10, <4>1, <4>2
    <3> QED
      BY <3>2, <3>3
  <2> QED
    BY <1>10, <2>1, <2>2
<1>19. HitsInOrder'
  <2>1. \A i \in DOMAIN inbox' : \A e \in HitsTo(inbox'[i]) :
          /\ \A f \in HitsShown' : IntervalOf(f) <= IntervalOf(e)
          /\ \A j \in DOMAIN inbox' : \A f \in HitsTo(inbox'[j]) :
               /\ i < j => IntervalOf(e) <= IntervalOf(f)
               /\ i = j => IntervalOf(e) = IntervalOf(f)
    BY <1>12, <1>18
  <2>2. \A e \in HitsIn(pending_snapshot_events)' : IntervalOf(e) = ThisInterval'
    BY <1>16 DEF pending
  <2> QED
    BY <1>15, <2>1, <2>2 DEF HitsInOrder
<1>20. ToldIsComing'
  <2> SUFFICES ASSUME Served' PROVE told' \subseteq HitsShown' \cup Range(inbox')
    BY DEF ToldIsComing
  <2>1. Served
    BY <1>1 DEF Served
  <2>2. told \subseteq HitsShown \cup Range(inbox)
    BY <2>1 DEF HitsInv, ToldIsComing
  <2> QED
    BY <1>1, <1>8, <1>12, <2>1, <2>2
<1>21. RingInOrder(feed.recent, shown)'
  BY <1>1, <1>3 DEF RingInOrder
<1> QED
  BY <1>14, <1>19, <1>20, <1>21 DEF HitsInv
-----------------------------------------------------------------------------
(* A packet that is read *)

\* The last word about the phase counts.
LEMMA FedSays ==
  ASSUME NEW state, NEW events \in Seq(Events \cup MatchStates),
         FedForm(state, events, Len(events))
  PROVE  /\ \A i \in DOMAIN events :
              events[i] \in PhaseWords
                /\ (\A j \in DOMAIN events : i < j => events[j] \notin PhaseWords)
                => state.last_match_state = events[i].state
         /\ Silent(events, PhaseWords) => state.last_match_state = feed.last_match_state
<1> DEFINE n == Len(events)
<1>1. DOMAIN events = 1 .. n /\ n \in Nat
  OBVIOUS
<1>2. \/ \E j \in 1 .. n : /\ events[j] \in PhaseWords
                           /\ state.last_match_state = events[j].state
                           /\ \A l \in 1 .. n : j < l => events[l] \notin PhaseWords
      \/ /\ \A j \in 1 .. n : events[j] \notin PhaseWords
         /\ state.last_match_state = feed.last_match_state
  BY DEF FedForm
<1> HIDE DEF n
<1>3. ASSUME NEW i \in 1 .. n, events[i] \in PhaseWords,
             \A j \in 1 .. n : i < j => events[j] \notin PhaseWords
      PROVE  state.last_match_state = events[i].state
  <2>1. PICK j \in 1 .. n : /\ events[j] \in PhaseWords
                            /\ state.last_match_state = events[j].state
                            /\ \A l \in 1 .. n : j < l => events[l] \notin PhaseWords
    BY <1>2, <1>3
  <2>2. ~ i < j /\ ~ j < i
    BY <1>3, <2>1
  <2>3. i = j
    BY <1>1, <2>2
  <2> QED
    BY <2>1, <2>3
<1>4. Silent(events, PhaseWords) => state.last_match_state = feed.last_match_state
  BY <1>1, <1>2 DEF Silent
<1> QED
  BY <1>1, <1>3, <1>4

\* What the client makes of a packet that has events.
LEMMA PacketIsFed ==
  ASSUME FeedForm, HitsInv, inbox # <<>>, NEW packet, packet = inbox[1],
         packet \in Hits \cup MatchStates \cup Snapshots,
         NEW state, state = Consumed(EventsOf(packet))
  PROVE  /\ EventsOf(packet) \in Seq(Events \cup MatchStates)
         /\ FedForm(state, EventsOf(packet), Len(EventsOf(packet)))
         /\ MessageForm(state) /\ RingInOrder(state.recent, state.shown)
         /\ DOMAIN state.shown \cap Hits = HitsShown \cup HitsTo(packet)
<1> DEFINE events == EventsOf(packet)
<1>1. /\ ClientForm /\ inbox \in Seq(Packets) /\ told \subseteq Hits /\ tick \in Nat
      /\ 1 \in DOMAIN inbox
  <2>1. inbox \in Seq(Packets)
    BY DEF FeedForm, ClientForm
  <2>2. 1 \in DOMAIN inbox
    BY <2>1, TailIs
  <2> QED
    BY <2>1, <2>2, FeedConstants DEF FeedForm, ServerForm
<1>2. events \in Seq(Events \cup MatchStates)
  <2>1. CASE packet \in Snapshots
    <3>1. events = packet.events /\ packet.events \in Seq(Events)
      BY <2>1 DEF EventsOf, Snapshots
    <3> HIDE DEF events
    <3> QED
      BY <3>1
  <2>2. CASE packet \notin Snapshots
    <3>1. events = <<packet>> /\ packet \in Events \cup MatchStates
      BY <2>2 DEF EventsOf, Events
    <3> HIDE DEF events
    <3> QED
      BY <3>1, RangeOfOne
  <2> QED
    BY <2>1, <2>2
<1>3. HitsIn(events) = HitsTo(packet)
  BY DEF HitsTo
<1> HIDE DEF events
<1>4. /\ FewHits(Known) /\ Known \subseteq Hits /\ HitsShown \subseteq Known
      /\ HitsTo(packet) \subseteq Known
      /\ \A e \in Known : e.tick >= 1
      /\ RingInOrder(feed.recent, shown)
      /\ \A e \in HitsTo(packet) :
           /\ \A f \in HitsShown : IntervalOf(f) <= IntervalOf(e)
           /\ \A f \in HitsTo(packet) : IntervalOf(e) = IntervalOf(f)
  <2>1. FewHits(Known) /\ HitsInOrder /\ RingInOrder(feed.recent, shown)
    BY DEF HitsInv
  <2>2. \A e \in Known : e.tick >= 1
    BY <1>1, <2>1 DEF HitsInOrder
  <2> QED
    BY <1>1, <2>1, <2>2, KnownAre, KnownAreHits DEF HitsInOrder
<1>5. FedForm(state, events, Len(events))
  <2>1. /\ feed \in Feeds /\ Len(feed.recent) <= RingSize
        /\ DOMAIN shown \subseteq Hits \cup DeathEvents
        /\ shown \in [DOMAIN shown -> Nat \ {0}]
    BY <1>1 DEF ClientForm
  <2>2. \A e \in HitsIn(events) :
           /\ \A f \in HitsShown : IntervalOf(f) <= IntervalOf(e)
           /\ \A f \in HitsIn(events) : IntervalOf(f) = IntervalOf(e)
    BY <1>3, <1>4
  <2>3. HitsIn(events) \subseteq Known
    BY <1>3, <1>4
  <2>4. FedForm(Consumed(events), events, Len(events))
    BY <1>2, <1>4, <2>1, <2>2, <2>3, ConsumedIs
  <2> QED
    BY <2>4 DEF events
<1>6. /\ MessageForm(state) /\ RingInOrder(state.recent, state.shown)
      /\ \A e \in Hits : e \in DOMAIN state.shown <=>
           (e \in HitsShown \/ (\E j \in 1 .. Len(events) : events[j] = e))
  BY <1>5 DEF FedForm
<1>7. DOMAIN state.shown \cap Hits = HitsShown \cup HitsTo(packet)
  <2>1. DOMAIN events = 1 .. Len(events)
    BY <1>2
  <2>2. \A e \in Hits : (\E j \in 1 .. Len(events) : events[j] = e) <=> e \in HitsIn(events)
    BY <2>1 DEF HitsIn, Range
  <2>3. HitsShown \subseteq Hits /\ HitsTo(packet) \subseteq Hits
    BY <1>1, <1>4
  <2> QED
    BY <1>3, <1>6, <2>2, <2>3
<1> QED
  BY <1>2, <1>5, <1>6, <1>7 DEF events

\* What the client does with a packet of each kind.
ReadsOne(packet) ==
  \/ /\ packet \in Accepts /\ client = "joining" /\ client' = "joined"
     /\ UNCHANGED <<hud, feed, next_shot_seq, seen_snapshot, shown>>
  \/ /\ packet \in Snapshots /\ client = "joined"
     /\ hud' = ApplySnapshot(packet) /\ seen_snapshot' = TRUE /\ Feed(packet.events)
     /\ UNCHANGED <<client, next_shot_seq>>
  \/ /\ packet \in Updates /\ client = "joined"
     /\ hud' = ApplyInventoryUpdate(packet)
     /\ UNCHANGED <<client, feed, next_shot_seq, seen_snapshot, shown>>
  \/ /\ packet \in Hits /\ client = "joined"
     /\ hud' = ApplyDamageEvent(packet) /\ Feed(<<packet>>)
     /\ UNCHANGED <<client, next_shot_seq, seen_snapshot>>
  \/ /\ packet \in MatchStates /\ client = "joined"
     /\ hud' = ApplyMatchState(packet) /\ Feed(<<packet>>)
     /\ UNCHANGED <<client, next_shot_seq, seen_snapshot>>

LEMMA ReceiveCases ==
  ASSUME FeedForm, Receive, NEW packet, packet = inbox[1]
  PROVE  /\ inbox \in Seq(Packets) /\ inbox # <<>> /\ 1 \in DOMAIN inbox
         /\ packet \in Packets /\ inbox' = Tail(inbox)
         /\ ReadsOne(packet)
         /\ UNCHANGED <<server_vars, outbox, told>>
<1>1. ClientForm /\ inbox \in Seq(Packets) /\ inbox # <<>> /\ inbox' = Tail(inbox)
      /\ UNCHANGED <<server_vars, outbox, told>>
  BY DEF FeedForm, ClientForm, Receive
<1>2. 1 \in DOMAIN inbox /\ packet \in Packets /\ Head(inbox) = packet
  BY <1>1, TailIs
<1>3. \/ packet.type = "join_accept" /\ Reset
      \/ /\ packet.type = "state_snapshot"
         /\ hud' = ApplySnapshot(packet)
         /\ seen_snapshot' = TRUE
         /\ Feed(packet.events)
         /\ UNCHANGED <<client, next_shot_seq>>
      \/ /\ packet.type = "inventory_update"
         /\ hud' = ApplyInventoryUpdate(packet)
         /\ UNCHANGED <<client, feed, next_shot_seq, seen_snapshot, shown>>
      \/ /\ packet.type = "damage_event"
         /\ hud' = ApplyDamageEvent(packet)
         /\ Feed(<<packet>>)
         /\ UNCHANGED <<client, next_shot_seq, seen_snapshot>>
      \/ /\ packet.type = "match_state"
         /\ hud' = ApplyMatchState(packet)
         /\ Feed(<<packet>>)
         /\ UNCHANGED <<client, next_shot_seq, seen_snapshot>>
  BY <1>2 DEF Receive
<1>4. /\ packet.type = "join_accept" => packet \in Accepts
      /\ packet.type = "state_snapshot" => packet \in Snapshots
      /\ packet.type = "inventory_update" => packet \in Updates
      /\ packet.type = "damage_event" => packet \in Hits
      /\ packet.type = "match_state" => packet \in MatchStates
  BY <1>2 DEF Packets, Accepts, Snapshots, Updates, Hits, MatchStates
<1>5. /\ packet \in Accepts => client = "joining"
      /\ packet \notin Accepts => client = "joined"
  BY <1>1, <1>2 DEF ClientForm
<1>6. ASSUME packet.type = "join_accept", Reset
      PROVE  ReadsOne(packet)
  <2>1. packet \in Accepts /\ client = "joining"
    BY <1>4, <1>5, <1>6
  <2>2. UNCHANGED <<hud, feed, next_shot_seq, seen_snapshot, shown>> /\ client' = "joined"
    BY <1>1, <1>6, <2>1 DEF ClientForm, Reset
  <2> QED
    BY <2>1, <2>2 DEF ReadsOne
<1>7. ReadsOne(packet)
  BY <1>3, <1>4, <1>5, <1>6, PacketsDiffer DEF ReadsOne
<1> QED
  BY <1>1, <1>2, <1>7

\* What the feed says after a packet is what it should.
FedRight(packet) ==
  /\ feed' \in Feeds /\ Len(feed'.recent) <= RingSize
  /\ DOMAIN shown' \subseteq Hits \cup DeathEvents
  /\ shown' \in [DOMAIN shown' -> Nat \ {0}]
  /\ RingInOrder(feed'.recent, shown')
  /\ HitsShown' = HitsShown \cup HitsTo(packet)
  /\ packet \in FeedPhaseRight => feed'.last_match_state = phase
  /\ packet \notin FeedPhaseTellers /\ feed.last_match_state = phase
       => feed'.last_match_state = phase

LEMMA ReceiveFeeds ==
  ASSUME FeedForm, HitsInv, Receive, NEW packet, packet = inbox[1]
  PROVE  FedRight(packet)
<1>1. ReadsOne(packet) /\ packet \in Packets /\ inbox # <<>>
  BY ReceiveCases
<1>2. CASE packet \in Accepts \cup Updates
  <2>1. UNCHANGED <<feed, shown>>
    BY <1>1, <1>2, PacketsDiffer DEF ReadsOne
  <2>2. HitsTo(packet) = {}
    <3>1. packet \notin Snapshots /\ packet \notin Hits
      BY <1>2, PacketsDiffer
    <3>2. Range(<<packet>>) = {packet}
      BY RangeOfOne
    <3> QED
      BY <3>1, <3>2 DEF HitsTo, HitsIn, EventsOf
  <2>3. packet \notin FeedPhaseRight
    BY <1>2, PacketsDiffer DEF FeedPhaseRight
  <2>4. HitsShown' = HitsShown
    BY <2>1 DEF HitsShown
  <2>5. /\ feed \in Feeds /\ Len(feed.recent) <= RingSize
        /\ DOMAIN shown \subseteq Hits \cup DeathEvents
        /\ shown \in [DOMAIN shown -> Nat \ {0}] /\ RingInOrder(feed.recent, shown)
    BY DEF FeedForm, ClientForm, HitsInv
  <2> QED
    BY <2>1, <2>2, <2>3, <2>4, <2>5 DEF FedRight
<1>3. CASE packet \in Hits \cup MatchStates \cup Snapshots
  <2> DEFINE events == EventsOf(packet)
             state == Consumed(events)
  <2>1. /\ events \in Seq(Events \cup MatchStates)
        /\ FedForm(state, events, Len(events))
        /\ MessageForm(state) /\ RingInOrder(state.recent, state.shown)
        /\ DOMAIN state.shown \cap Hits = HitsShown \cup HitsTo(packet)
    BY <1>1, <1>3, PacketIsFed
  <2>2. Feed(events)
    <3>1. CASE packet \in Snapshots
      BY <1>1, <3>1, PacketsDiffer DEF ReadsOne, EventsOf
    <3>2. CASE packet \in Hits \cup MatchStates
      BY <1>1, <3>2, PacketsDiffer DEF ReadsOne, EventsOf
    <3> QED
      BY <1>3, <3>1, <3>2
  <2>3. events = EventsOf(packet)
    OBVIOUS
  <2> HIDE DEF events
  <2>4. /\ feed' = [last_match_state |-> state.last_match_state, recent |-> state.recent]
        /\ shown' = state.shown
    BY <2>2 DEF Feed
  <2> HIDE DEF state
  <2>5. /\ feed' \in Feeds /\ Len(feed'.recent) <= RingSize /\ feed'.recent = state.recent
        /\ feed'.last_match_state = state.last_match_state
        /\ DOMAIN shown' \subseteq Hits \cup DeathEvents
        /\ shown' \in [DOMAIN shown' -> Nat \ {0}]
    BY <2>1, <2>4 DEF MessageForm, Feeds
  <2>6. HitsShown' = HitsShown \cup HitsTo(packet)
    BY <2>1, <2>4 DEF HitsShown
  <2>7. /\ \A i \in DOMAIN events :
             events[i] \in PhaseWords
               /\ (\A j \in DOMAIN events : i < j => events[j] \notin PhaseWords)
               => state.last_match_state = events[i].state
        /\ Silent(events, PhaseWords) => state.last_match_state = feed.last_match_state
    BY <2>1, FedSays
  <2>8. /\ packet \in FeedPhaseRight => state.last_match_state = phase
        /\ packet \notin FeedPhaseTellers => state.last_match_state = feed.last_match_state
    <3>1. CASE packet \in Snapshots
      <4>1. events = packet.events /\ packet.events \in Seq(Events)
        BY <2>3, <3>1 DEF EventsOf, Snapshots
      <4>2. \A i \in DOMAIN events : events[i] \in PhaseWords <=> events[i] \in PhaseEvents
        <5>1. \A e \in Events : e \notin MatchStates
          BY DEF Events, Hits, DeathEvents, RespawnEvents, PhaseEvents, MatchStates
        <5> QED
          BY <4>1, <5>1 DEF PhaseWords
      <4>3. ASSUME packet \in FeedPhaseRight
            PROVE  state.last_match_state = phase
        <5>1. Follows(events, PhaseEvents, PhaseEventsRight, FALSE)
          BY <3>1, <4>1, <4>3, PacketsDiffer DEF FeedPhaseRight
        <5>2. PICK i \in DOMAIN events :
                /\ events[i] \in PhaseEventsRight
                /\ \A j \in DOMAIN events : i < j => events[j] \notin PhaseEvents
          BY <5>1 DEF Follows
        <5>3. events[i] \in PhaseEvents /\ events[i].state = phase
          BY <5>2 DEF PhaseEventsRight
        <5> QED
          BY <2>7, <4>2, <5>2, <5>3
      <4>4. ASSUME packet \notin FeedPhaseTellers
            PROVE  state.last_match_state = feed.last_match_state
        <5>1. \A i \in DOMAIN events : events[i] \notin PhaseEvents
          BY <3>1, <4>1, <4>4 DEF FeedPhaseTellers
        <5> QED
          BY <2>7, <4>2, <5>1 DEF Silent
      <4> QED
        BY <4>3, <4>4
    <3>2. CASE packet \in MatchStates
      <4>1. events = <<packet>>
        BY <2>3, <3>2, PacketsDiffer DEF EventsOf
      <4>2. 1 \in DOMAIN events /\ events[1] = packet /\ DOMAIN events = {1}
        BY <4>1
      <4>3. state.last_match_state = packet.state
        BY <2>7, <3>2, <4>2 DEF PhaseWords
      <4> QED
        BY <3>2, <4>3, PacketsDiffer DEF FeedPhaseRight, FeedPhaseTellers
    <3>3. CASE packet \in Hits
      <4>1. events = <<packet>>
        BY <2>3, <3>3, PacketsDiffer DEF EventsOf
      <4>2. packet \notin PhaseWords
        BY <3>3, PacketsDiffer, EventsDiffer DEF PhaseWords
      <4>3. Silent(events, PhaseWords)
        BY <4>1, <4>2, SilentOne
      <4>4. packet \notin FeedPhaseRight
        BY <3>3, PacketsDiffer DEF FeedPhaseRight
      <4> QED
        BY <2>7, <4>3, <4>4
    <3> QED
      BY <1>3, <3>1, <3>2, <3>3
  <2> QED
    BY <2>1, <2>4, <2>5, <2>6, <2>8 DEF FedRight
<1> QED
  BY <1>1, <1>2, <1>3 DEF Packets

ShowsCoins(h, value) == h.has_player_state /\ h.coins = value
ShowsHealth(h, left) == h.has_player_state /\ h.health = left /\ h.alive = (left > 0)

\* What the HUD shows after a packet is what it should.
HudRight(packet) ==
  /\ hud' \in Huds /\ seen_snapshot' \in BOOLEAN
  /\ seen_snapshot' => seen_snapshot \/ packet \in Snapshots
  /\ client \in {"joining", "joined"} /\ client' = "joined"
  /\ packet \in Accepts <=> client = "joining"
  /\ next_shot_seq' = next_shot_seq
  /\ packet \in HudPhaseRight => hud'.match_state = phase
  /\ packet \notin HudPhaseTellers /\ hud.match_state = phase => hud'.match_state = phase
  /\ packet \in CoinsRight => ShowsCoins(hud', coins)
  /\ packet \notin CoinTellers /\ ShowsCoins(hud, coins) => ShowsCoins(hud', coins)
  /\ in_session /\ packet \in HealthRight => ShowsHealth(hud', health[Local])
  /\ packet \notin HealthTellers /\ ShowsHealth(hud, health[Local])
       => ShowsHealth(hud', health[Local])

LEMMA ReceiveShows ==
  ASSUME FeedForm, Receive, NEW packet, packet = inbox[1]
  PROVE  HudRight(packet)
<1>1. ReadsOne(packet) /\ packet \in Packets
  BY ReceiveCases
<1>2. /\ hud \in Huds /\ seen_snapshot \in BOOLEAN /\ coins \in Coins /\ phase \in Phases
      /\ in_session => health[Local] \in 0 .. StartingHealth
  BY DEF FeedForm, ServerForm, ClientForm, Players
<1> DEFINE h == health[Local]
<1> HIDE DEF h
<1>3. h = health[Local] /\ (in_session => h \in Nat)
  BY <1>2, FeedConstants DEF h
<1>4. CASE packet \in Accepts
  <2>1. /\ client = "joining" /\ client' = "joined"
        /\ UNCHANGED <<hud, next_shot_seq, seen_snapshot>>
    BY <1>1, <1>4, PacketsDiffer DEF ReadsOne
  <2>2. packet \notin HudPhaseRight /\ packet \notin CoinsRight /\ packet \notin HealthRight
    BY <1>4, PacketsDiffer DEF HudPhaseRight, CoinsRight, CoinTellers, HealthRight
  <2> QED
    BY <1>2, <1>4, <2>1, <2>2, PacketsDiffer DEF HudRight
<1>5. CASE packet \in Snapshots
  <2>1. /\ client = "joined" /\ client' = "joined" /\ next_shot_seq' = next_shot_seq
        /\ hud' = ApplySnapshot(packet) /\ seen_snapshot' = TRUE
    BY <1>1, <1>5, PacketsDiffer DEF ReadsOne
  <2>2. /\ packet.health \in 0 .. StartingHealth /\ packet.coins \in Coins
        /\ packet.match_state \in Phases
    BY <1>5 DEF Snapshots
  <2>3. /\ hud' = [has_player_state |-> TRUE, health |-> packet.health,
                   alive |-> packet.health > 0, coins |-> packet.coins,
                   match_state |-> packet.match_state]
        /\ hud' \in Huds
    BY <2>1, <2>2 DEF ApplySnapshot, Huds, ShownPhases
  <2>4. packet \notin Accepts /\ packet \in HudPhaseTellers /\ packet \in CoinTellers
        /\ packet \in HealthTellers
    BY <1>5, PacketsDiffer DEF HudPhaseTellers, CoinTellers, HealthTellers
  <2>5. /\ packet \in HudPhaseRight => packet.match_state = phase
        /\ packet \in CoinsRight => packet.coins = coins
        /\ packet \in HealthRight => packet.health = health[Local]
    BY <1>5, PacketsDiffer DEF HudPhaseRight, CoinsRight, HealthRight
  <2>6. packet \in CoinsRight => ShowsCoins(hud', coins)
    BY <2>3, <2>5 DEF ShowsCoins
  <2>7. packet \in HealthRight => ShowsHealth(hud', health[Local])
    BY <2>3, <2>5, Zenon DEF ShowsHealth
  <2>8. hud'.match_state = packet.match_state
    BY <2>3
  <2> QED
    BY <1>5, <2>1, <2>3, <2>4, <2>5, <2>6, <2>7, <2>8 DEF HudRight
<1>6. CASE packet \in Updates
  <2>1. /\ client = "joined" /\ client' = "joined" /\ next_shot_seq' = next_shot_seq
        /\ hud' = ApplyInventoryUpdate(packet) /\ seen_snapshot' = seen_snapshot
    BY <1>1, <1>6, PacketsDiffer DEF ReadsOne
  <2>2. packet.coins \in Coins
    BY <1>6 DEF Updates
  <2>3. /\ hud' = [has_player_state |-> TRUE, health |-> hud.health, alive |-> hud.alive,
                   coins |-> packet.coins, match_state |-> hud.match_state]
        /\ hud' \in Huds
    BY <1>2, <2>1, <2>2 DEF ApplyInventoryUpdate, Huds
  <2>4. /\ packet \notin Accepts /\ packet \notin Snapshots /\ packet \in CoinTellers
        /\ packet \notin HudPhaseRight /\ packet \notin HealthRight
    BY <1>6, PacketsDiffer DEF CoinTellers, HudPhaseRight, HealthRight
  <2>5. packet \in CoinsRight => packet.coins = coins
    BY DEF CoinsRight
  <2>6. packet \in CoinsRight => ShowsCoins(hud', coins)
    BY <2>3, <2>5 DEF ShowsCoins
  <2>7. ShowsHealth(hud, health[Local]) => ShowsHealth(hud', health[Local])
    BY <2>3, Zenon DEF ShowsHealth
  <2>8. hud'.match_state = hud.match_state
    BY <2>3
  <2> QED
    BY <1>2, <1>6, <2>1, <2>3, <2>4, <2>6, <2>7, <2>8 DEF HudRight
<1>7. CASE packet \in MatchStates
  <2>1. /\ client = "joined" /\ client' = "joined" /\ next_shot_seq' = next_shot_seq
        /\ hud' = ApplyMatchState(packet) /\ seen_snapshot' = seen_snapshot
    BY <1>1, <1>7, PacketsDiffer DEF ReadsOne
  <2>2. packet.state \in Phases
    BY <1>7 DEF MatchStates
  <2>3. /\ hud' = [has_player_state |-> hud.has_player_state, health |-> hud.health,
                   alive |-> hud.alive, coins |-> hud.coins, match_state |-> packet.state]
        /\ hud' \in Huds
    BY <1>2, <2>1, <2>2 DEF ApplyMatchState, Huds, ShownPhases
  <2>4. /\ packet \notin Accepts /\ packet \notin Snapshots /\ packet \in HudPhaseTellers
        /\ packet \notin CoinsRight /\ packet \notin HealthRight
    BY <1>7, PacketsDiffer DEF HudPhaseTellers, CoinsRight, CoinTellers, HealthRight
  <2>5. packet \in HudPhaseRight => packet.state = phase
    BY <1>7, PacketsDiffer DEF HudPhaseRight
  <2>6. ShowsCoins(hud, coins) => ShowsCoins(hud', coins)
    BY <2>3, Zenon DEF ShowsCoins
  <2>7. ShowsHealth(hud, health[Local]) => ShowsHealth(hud', health[Local])
    BY <2>3, Zenon DEF ShowsHealth
  <2>8. hud'.match_state = packet.state
    BY <2>3
  <2> QED
    BY <1>2, <1>7, <2>1, <2>3, <2>4, <2>5, <2>6, <2>7, <2>8 DEF HudRight
<1>8. CASE packet \in Hits
  <2>1. /\ client = "joined" /\ client' = "joined" /\ next_shot_seq' = next_shot_seq
        /\ hud' = ApplyDamageEvent(packet) /\ seen_snapshot' = seen_snapshot
    BY <1>1, <1>8, PacketsDiffer DEF ReadsOne
  <2>2. packet.victim_health \in 0 .. StartingHealth /\ packet.lethal \in BOOLEAN
    BY <1>8 DEF Hits
  <2>3. /\ packet \notin Accepts /\ packet \notin Snapshots
        /\ packet \notin HudPhaseRight /\ packet \notin CoinsRight
    BY <1>8, PacketsDiffer DEF HudPhaseRight, CoinsRight, CoinTellers
  <2>4. CASE packet.victim_id = Local
    <3>1. /\ hud' = [has_player_state |-> TRUE, health |-> packet.victim_health,
                     alive |-> ~packet.lethal, coins |-> hud.coins,
                     match_state |-> hud.match_state]
          /\ hud' \in Huds
      BY <1>2, <2>1, <2>2, <2>4 DEF ApplyDamageEvent, Huds
    <3>2. packet \in HealthTellers
      BY <1>8, <2>4 DEF HealthTellers
    <3>3. packet \in HealthRight => packet.victim_health = h /\ packet.lethal = (h = 0)
      BY <1>3, <1>8, PacketsDiffer DEF HealthRight
    <3>4. in_session => (~(h = 0)) = (h > 0)
      BY <1>3
    <3>5. in_session /\ packet \in HealthRight => (~packet.lethal) = (h > 0)
      BY <3>3, <3>4
    <3>6. in_session /\ packet \in HealthRight => ShowsHealth(hud', h)
      BY <3>1, <3>3, <3>5, Zenon DEF ShowsHealth
    <3>7. ShowsCoins(hud, coins) => ShowsCoins(hud', coins)
      BY <3>1, Zenon DEF ShowsCoins
    <3>8. hud'.match_state = hud.match_state
      BY <3>1
    <3> QED
      BY <1>2, <1>3, <1>8, <2>1, <2>3, <3>1, <3>2, <3>6, <3>7, <3>8 DEF HudRight
  <2>5. CASE packet.victim_id # Local
    <3>1. hud' = hud
      BY <2>1, <2>5 DEF ApplyDamageEvent
    <3>2. packet \notin HealthRight
      BY <1>8, <2>5, PacketsDiffer DEF HealthRight
    <3> QED
      BY <1>2, <1>8, <2>1, <2>3, <3>1, <3>2 DEF HudRight
  <2> QED
    BY <2>4, <2>5
<1> QED
  BY <1>1, <1>4, <1>5, <1>6, <1>7, <1>8 DEF Packets

\* Reading a packet, the client comes a step nearer to what is right.
LEMMA ReceiveKeeps ==
  ASSUME FeedIInv, Receive
  PROVE  FeedIInv'
<1> DEFINE packet == inbox[1]
<1>0. FeedForm /\ ServerForm /\ ClientForm /\ ShotsInOrder /\ PhaseOnItsWay
      /\ StateOnItsWay /\ HitsInv /\ HitsInOrder
  BY DEF FeedIInv, FeedForm, HitsInv
<1>1. /\ inbox \in Seq(Packets) /\ inbox # <<>> /\ 1 \in DOMAIN inbox /\ packet \in Packets
      /\ inbox' = Tail(inbox) /\ FedRight(packet) /\ HudRight(packet)
  BY <1>0, ReceiveCases, ReceiveFeeds, ReceiveShows
<1>2. /\ UNCHANGED <<tick, phase, health, last_shot_seq, flying, coins,
                     pending_snapshot_events, in_session, outbox, told>>
  <2>1. UNCHANGED <<server_vars, outbox, told>>
    BY <1>0, ReceiveCases
  <2> QED
    BY <2>1 DEF server_vars, combat_vars
<1> HIDE DEF packet
<1>3. /\ inbox' \in Seq(Packets)
      /\ \A i \in DOMAIN inbox' : /\ inbox'[i] = inbox[i + 1] /\ i + 1 \in DOMAIN inbox
                                  /\ i \in Nat \ {0}
      /\ \A i \in DOMAIN inbox : i = 1 \/ (i - 1 \in DOMAIN inbox' /\ inbox[i] = inbox'[i - 1])
  <2> DEFINE t == Tail(inbox)
  <2>1. /\ t \in Seq(Packets) /\ DOMAIN t = 1 .. Len(t) /\ Len(t) \in Nat
        /\ \A i \in DOMAIN t : t[i] = inbox[i + 1] /\ i + 1 \in DOMAIN inbox
        /\ \A i \in DOMAIN inbox : i = 1 \/ (i - 1 \in DOMAIN t /\ inbox[i] = t[i - 1])
    BY <1>1, TailIs
  <2>2. inbox' = t
    BY <1>1
  <2> HIDE DEF t
  <2> QED
    BY <2>1, <2>2
<1>4. /\ client \in {"joining", "joined"} /\ client' = "joined"
      /\ packet \in Accepts <=> client = "joining"
      /\ next_shot_seq' = next_shot_seq /\ hud' \in Huds /\ seen_snapshot' \in BOOLEAN
      /\ seen_snapshot' => seen_snapshot \/ packet \in Snapshots
  BY <1>1 DEF HudRight
<1>5. ServerForm'
  BY <1>0, <1>2 DEF ServerForm
<1>6. ClientForm'
  <2>1. /\ feed' \in Feeds /\ Len(feed'.recent) <= RingSize
        /\ DOMAIN shown' \subseteq Hits \cup DeathEvents
        /\ shown' \in [DOMAIN shown' -> Nat \ {0}]
    BY <1>1 DEF FedRight
  <2>2. \A i \in DOMAIN inbox' : inbox'[i] \notin Accepts
    <3> SUFFICES ASSUME NEW i \in DOMAIN inbox', inbox'[i] \in Accepts PROVE FALSE
      OBVIOUS
    <3>1. i + 1 \in DOMAIN inbox /\ inbox[i + 1] \in Accepts /\ i \in Nat \ {0}
      BY <1>3
    <3>2. i + 1 = 1
      BY <1>0, <3>1 DEF ClientForm
    <3> QED
      BY <3>1, <3>2
  <2>3. next_shot_seq \in 1 .. MaxShots + 1
    BY <1>0 DEF ClientForm
  <2> QED
    BY <1>3, <1>4, <2>1, <2>2, <2>3 DEF ClientForm
<1>7. ShotsInOrder'
  <2>1. LastShot(Local)' = LastShot(Local)
    BY <1>2 DEF LastShot
  <2>2. CASE client = "joined"
    BY <1>0, <1>2, <1>4, <2>1, <2>2 DEF ShotsInOrder
  <2>3. CASE client = "joining"
    <3>1. next_shot_seq = 1 /\ outbox = <<>> /\ LastShot(Local) = 0
      BY <1>0, <2>3 DEF ClientForm, ShotsInOrder
    <3> QED
      BY <1>0, <1>2, <1>4, <2>1, <3>1 DEF ShotsInOrder
  <2> QED
    BY <1>4, <2>2, <2>3
<1>8. (Served' => in_session) /\ (in_session => Served)
  BY <1>2, <1>4 DEF Served
<1>9. PhaseOnItsWay'
  <2>1. /\ HudPhaseRight' = HudPhaseRight /\ FeedPhaseRight' = FeedPhaseRight
        /\ PhaseEventsRight' = PhaseEventsRight
    BY <1>2 DEF HudPhaseRight, FeedPhaseRight, PhaseEventsRight
  <2>2. Follows(pending_snapshot_events, PhaseEvents, PhaseEventsRight, TRUE)'
    BY <1>0, <1>2, <2>1 DEF PhaseOnItsWay, Follows
  <2>3. ASSUME in_session
        PROVE  /\ Follows(inbox', HudPhaseTellers, HudPhaseRight, hud'.match_state = phase)
               /\ Follows(inbox', FeedPhaseTellers, FeedPhaseRight,
                          feed'.last_match_state = phase)
    <3>1. /\ Follows(inbox, HudPhaseTellers, HudPhaseRight,
                     client = "joined" /\ hud.match_state = phase)
          /\ Follows(inbox, FeedPhaseTellers, FeedPhaseRight,
                     client = "joined" /\ feed.last_match_state = phase)
      BY <1>0, <1>8, <2>3 DEF PhaseOnItsWay
    <3>2. /\ packet \in HudPhaseRight => hud'.match_state = phase
          /\ packet \notin HudPhaseTellers /\ (client = "joined" /\ hud.match_state = phase)
               => hud'.match_state = phase
      BY <1>1 DEF HudRight
    <3>3. /\ packet \in FeedPhaseRight => feed'.last_match_state = phase
          /\ packet \notin FeedPhaseTellers /\ (client = "joined" /\ feed.last_match_state = phase)
               => feed'.last_match_state = phase
      BY <1>1 DEF FedRight
    <3>4. Follows(Tail(inbox), HudPhaseTellers, HudPhaseRight, hud'.match_state = phase)
      BY <1>1, <3>1, <3>2, FollowsTail DEF packet
    <3>5. Follows(Tail(inbox), FeedPhaseTellers, FeedPhaseRight, feed'.last_match_state = phase)
      BY <1>1, <3>1, <3>3, FollowsTail DEF packet
    <3> QED
      BY <1>1, <3>4, <3>5
  <2>4. Served' =>
          /\ Follows(inbox, HudPhaseTellers, HudPhaseRight,
                     client = "joined" /\ hud.match_state = phase)'
          /\ Follows(inbox, FeedPhaseTellers, FeedPhaseRight,
                     client = "joined" /\ feed.last_match_state = phase)'
    BY <1>2, <1>4, <1>8, <2>1, <2>3 DEF Follows
  <2> QED
    BY <2>2, <2>4 DEF PhaseOnItsWay
<1>10. StateOnItsWay'
  <2>1. CoinsRight' = CoinsRight /\ HealthRight' = HealthRight
    BY <1>2 DEF CoinsRight, HealthRight
  <2>2. RespawnPends' <=> RespawnPends
    BY <1>2 DEF RespawnPends
  <2>3. SnapshotComes' => SnapshotComes
    BY <1>1, <1>3, <1>4 DEF SnapshotComes, packet
  <2>4. ASSUME in_session, SnapshotComes
        PROVE  /\ Follows(inbox', CoinTellers, CoinsRight, ShowsCoins(hud', coins))
               /\ \/ Follows(inbox', HealthTellers, HealthRight, ShowsHealth(hud', health[Local]))
                  \/ RespawnPends
    <3>1. /\ Follows(inbox, CoinTellers, CoinsRight, ShowsCoins(hud, coins))
          /\ \/ Follows(inbox, HealthTellers, HealthRight, ShowsHealth(hud, health[Local]))
             \/ RespawnPends
      BY <1>0, <1>8, <2>4 DEF StateOnItsWay, ShowsCoins, ShowsHealth
    <3>2. /\ packet \in CoinsRight => ShowsCoins(hud', coins)
          /\ packet \notin CoinTellers /\ ShowsCoins(hud, coins) => ShowsCoins(hud', coins)
          /\ packet \in HealthRight => ShowsHealth(hud', health[Local])
          /\ packet \notin HealthTellers /\ ShowsHealth(hud, health[Local])
               => ShowsHealth(hud', health[Local])
      BY <1>1, <2>4 DEF HudRight
    <3>3. Follows(Tail(inbox), CoinTellers, CoinsRight, ShowsCoins(hud', coins))
      BY <1>1, <3>1, <3>2, FollowsTail DEF packet
    <3>4. Follows(inbox, HealthTellers, HealthRight, ShowsHealth(hud, health[Local]))
            => Follows(Tail(inbox), HealthTellers, HealthRight, ShowsHealth(hud', health[Local]))
      BY <1>1, <3>2, FollowsTail DEF packet
    <3> QED
      BY <1>1, <3>1, <3>3, <3>4
  <2>5. Served' /\ SnapshotComes' =>
          /\ Follows(inbox, CoinTellers, CoinsRight, hud.has_player_state /\ hud.coins = coins)'
          /\ \/ Follows(inbox, HealthTellers, HealthRight,
                        /\ hud.has_player_state /\ hud.health = health[Local]
                        /\ hud.alive = (health[Local] > 0))'
             \/ RespawnPends'
    <3>1. /\ ShowsCoins(hud', coins) = (hud.has_player_state /\ hud.coins = coins)'
          /\ ShowsHealth(hud', health[Local])
               = (/\ hud.has_player_state /\ hud.health = health[Local]
                  /\ hud.alive = (health[Local] > 0))'
      BY <1>2 DEF ShowsCoins, ShowsHealth
    <3> QED
      BY <1>8, <2>1, <2>2, <2>3, <2>4, <3>1
  <2> QED
    BY <2>5 DEF StateOnItsWay
<1>11. HitsInv'
  <2>1. /\ HitsShown' = HitsShown \cup HitsTo(packet)
        /\ RingInOrder(feed'.recent, shown')
    BY <1>1 DEF FedRight
  <2>2. ThisInterval' = ThisInterval
        /\ HitsIn(pending_snapshot_events)' = HitsIn(pending_snapshot_events)
    BY <1>2 DEF ThisInterval, HitsIn
  <2>3. HitsComing' \subseteq HitsComing
    <3> SUFFICES ASSUME NEW i \in DOMAIN inbox', NEW e \in HitsTo(inbox'[i])
                 PROVE  e \in HitsComing
      BY HitsComingNext
    <3> QED
      BY <1>3 DEF HitsComing
  <2>4. HitsTo(packet) \subseteq HitsComing
    BY <1>1 DEF HitsComing, packet
  <2>5. Known' \subseteq Known
    <3>1. Known' = HitsShown' \cup HitsComing' \cup HitsIn(pending_snapshot_events)' \cup told'
      BY DEF Known
    <3> QED
      BY <1>2, <2>1, <2>2, <2>3, <2>4, <3>1 DEF Known
  <2>6. FewHits(Known')
    BY <1>0, <2>5, FewerHits DEF HitsInv
  <2>7. \A e \in Known' : e.tick \in 1 .. tick'
    BY <1>0, <1>2, <2>5 DEF HitsInOrder
  <2>8. \A e \in HitsIn(pending_snapshot_events)' : IntervalOf(e) = ThisInterval'
    BY <1>0, <2>2 DEF HitsInOrder
  <2>9. \A i \in DOMAIN inbox : \A e \in HitsTo(inbox[i]) :
          /\ \A f \in HitsShown : IntervalOf(f) <= IntervalOf(e)
          /\ \A j \in DOMAIN inbox : \A f \in HitsTo(inbox[j]) :
               /\ i < j => IntervalOf(e) <= IntervalOf(f)
               /\ i = j => IntervalOf(e) = IntervalOf(f)
    BY <1>0 DEF HitsInOrder
  <2>10. \A i \in DOMAIN inbox' : \A e \in HitsTo(inbox'[i]) :
           /\ \A f \in HitsShown' : IntervalOf(f) <= IntervalOf(e)
           /\ \A j \in DOMAIN inbox' : \A f \in HitsTo(inbox'[j]) :
                /\ i < j => IntervalOf(e) <= IntervalOf(f)
                /\ i = j => IntervalOf(e) = IntervalOf(f)
    <3> TAKE i \in DOMAIN inbox'
    <3> TAKE e \in HitsTo(inbox'[i])
    <3>1. i + 1 \in DOMAIN inbox /\ e \in HitsTo(inbox[i + 1]) /\ 1 < i + 1 /\ i \in Nat
      BY <1>3
    <3>2. \A f \in HitsShown' : IntervalOf(f) <= IntervalOf(e)
      <4> TAKE f \in HitsShown'
      <4>1. CASE f \in HitsShown
        BY <2>9, <3>1, <4>1
      <4>2. CASE f \in HitsTo(packet)
        BY <1>1, <2>9, <3>1, <4>2 DEF packet
      <4> QED
        BY <2>1, <4>1, <4>2
    <3>3. ASSUME NEW j \in DOMAIN inbox', NEW f \in HitsTo(inbox'[j])
          PROVE  /\ i < j => IntervalOf(e) <= IntervalOf(f)
                 /\ i = j => IntervalOf(e) = IntervalOf(f)
      <4>1. j + 1 \in DOMAIN inbox /\ f \in HitsTo(inbox[j + 1]) /\ j \in Nat
        BY <1>3
      <4>2. (i < j => i + 1 < j + 1) /\ (i = j => i + 1 = j + 1)
        BY <3>1, <4>1
      <4> QED
        BY <2>9, <3>1, <4>1, <4>2
    <3> QED
      BY <3>2, <3>3
  <2>11. HitsInOrder'
    BY <2>7, <2>8, <2>10 DEF HitsInOrder
  <2>12. ToldIsComing'
    <3> SUFFICES ASSUME Served', NEW e \in told' PROVE e \in HitsShown' \cup Range(inbox')
      BY DEF ToldIsComing
    <3>1. e \in told /\ e \in Hits /\ Served
      BY <1>0, <1>2, <1>8 DEF ServerForm
    <3>2. CASE e \in HitsShown
      BY <2>1, <3>2
    <3>3. CASE e \in Range(inbox)
      <4>1. PICK i \in DOMAIN inbox : inbox[i] = e
        BY <3>3 DEF Range
      <4>2. CASE i = 1
        <5>1. e = packet
          BY <4>1, <4>2 DEF packet
        <5>2. e \in HitsTo(packet)
          BY <3>1, <5>1, PacketsDiffer, RangeOfOne DEF HitsTo, HitsIn, EventsOf
        <5> QED
          BY <2>1, <5>2
      <4>3. CASE i # 1
        BY <1>3, <4>1, <4>3 DEF Range
      <4> QED
        BY <4>2, <4>3
    <3> QED
      BY <1>0, <3>1, <3>2, <3>3 DEF HitsInv, ToldIsComing
  <2>13. RingInOrder(feed.recent, shown)'
    BY <2>1 DEF RingInOrder
  <2> QED
    BY <2>6, <2>11, <2>12, <2>13 DEF HitsInv
<1> QED
  BY <1>5, <1>6, <1>7, <1>9, <1>10, <1>11 DEF FeedIInv, FeedForm
-----------------------------------------------------------------------------
(* The other steps *)

\* Where no hit is added anywhere, those there are stay in order.
LEMMA HitsLeftInOrder ==
  ASSUME HitsInv, UNCHANGED <<tick, pending_snapshot_events>>, told' \subseteq told,
         HitsShown' \subseteq HitsShown,
         inbox' = inbox \/ \A i \in DOMAIN inbox' : HitsTo(inbox'[i]) = {},
         RingInOrder(feed.recent, shown)', ToldIsComing'
  PROVE  HitsInv'
<1>1. FewHits(Known) /\ HitsInOrder
  BY DEF HitsInv
<1>2. ThisInterval' = ThisInterval
      /\ HitsIn(pending_snapshot_events)' = HitsIn(pending_snapshot_events)
  BY DEF ThisInterval, HitsIn
<1>3. HitsComing' \subseteq HitsComing
  <2>1. CASE inbox' = inbox
    BY <2>1, HitsComingNext DEF HitsComing
  <2>2. CASE \A i \in DOMAIN inbox' : HitsTo(inbox'[i]) = {}
    BY <2>2, HitsComingNext
  <2> QED
    BY <2>1, <2>2
<1>4. Known' \subseteq Known
  <2>1. Known' = HitsShown' \cup HitsComing' \cup HitsIn(pending_snapshot_events)' \cup told'
    BY DEF Known
  <2> QED
    BY <1>2, <1>3, <2>1 DEF Known
<1>5. FewHits(Known')
  BY <1>1, <1>4, FewerHits
<1>6. \A e \in Known' : e.tick \in 1 .. tick'
  BY <1>1, <1>4 DEF HitsInOrder
<1>7. \A e \in HitsIn(pending_snapshot_events)' : IntervalOf(e) = ThisInterval'
  BY <1>1, <1>2 DEF HitsInOrder
<1>8. \A i \in DOMAIN inbox' : \A e \in HitsTo(inbox'[i]) :
         /\ \A f \in HitsShown' : IntervalOf(f) <= IntervalOf(e)
         /\ \A j \in DOMAIN inbox' : \A f \in HitsTo(inbox'[j]) :
              /\ i < j => IntervalOf(e) <= IntervalOf(f)
              /\ i = j => IntervalOf(e) = IntervalOf(f)
  BY <1>1 DEF HitsInOrder
<1>9. HitsInOrder'
  BY <1>6, <1>7, <1>8 DEF HitsInOrder
<1> QED
  BY <1>5, <1>9 DEF HitsInv

\* Where nothing of what is told changes, it stays on its way.
LEMMA StaysOnItsWay ==
  ASSUME PhaseOnItsWay, StateOnItsWay,
         UNCHANGED <<phase, pending_snapshot_events, coins>>,
         Served' => /\ Served
                    /\ UNCHANGED <<client, health, inbox, hud, feed, seen_snapshot>>
  PROVE  PhaseOnItsWay' /\ StateOnItsWay'
<1>1. Follows(pending_snapshot_events, PhaseEvents, PhaseEventsRight, TRUE)'
  BY DEF PhaseOnItsWay, Follows, PhaseEventsRight
<1>2. CASE ~Served'
  BY <1>1, <1>2 DEF PhaseOnItsWay, StateOnItsWay
<1>3. CASE Served'
  <2>1. PhaseOnItsWay'
    <3>1. /\ HudPhaseRight' = HudPhaseRight /\ FeedPhaseRight' = FeedPhaseRight
      BY DEF HudPhaseRight, FeedPhaseRight, PhaseEventsRight
    <3>2. /\ Follows(inbox, HudPhaseTellers, HudPhaseRight,
                     client = "joined" /\ hud.match_state = phase)'
          /\ Follows(inbox, FeedPhaseTellers, FeedPhaseRight,
                     client = "joined" /\ feed.last_match_state = phase)'
      BY <1>3, <3>1 DEF PhaseOnItsWay, Follows
    <3> QED
      BY <1>1, <3>2 DEF PhaseOnItsWay
  <2>2. StateOnItsWay'
    <3>1. CoinsRight' = CoinsRight /\ HealthRight' = HealthRight
      BY <1>3 DEF CoinsRight, HealthRight
    <3>2. RespawnPends' <=> RespawnPends
      BY DEF RespawnPends
    <3>3. SnapshotComes' => SnapshotComes
      BY <1>3 DEF SnapshotComes
    <3>4. SnapshotComes' =>
            /\ Follows(inbox, CoinTellers, CoinsRight,
                       hud.has_player_state /\ hud.coins = coins)'
            /\ \/ Follows(inbox, HealthTellers, HealthRight,
                          /\ hud.has_player_state /\ hud.health = health[Local]
                          /\ hud.alive = (health[Local] > 0))'
               \/ RespawnPends'
      BY <1>3, <3>1, <3>2, <3>3 DEF StateOnItsWay, Follows
    <3> QED
      BY <3>4 DEF StateOnItsWay
  <2> QED
    BY <2>1, <2>2
<1> QED
  BY <1>2, <1>3

LEMMA BlanksTyped ==
  /\ BlankHud \in Huds /\ BlankFeed \in Feeds /\ Len(BlankFeed.recent) <= RingSize
  /\ DOMAIN EmptyMap = {} /\ EmptyMap \in [DOMAIN EmptyMap -> Nat \ {0}]
  /\ RingInOrder(BlankFeed.recent, EmptyMap)
<1>1. BlankHud \in Huds
  BY FeedConstants DEF BlankHud, Huds, ShownPhases
<1>2. BlankFeed \in Feeds /\ BlankFeed.recent = <<>>
  BY DEF BlankFeed, Feeds, ShownPhases
<1>3. Len(BlankFeed.recent) <= RingSize
  BY <1>2, FeedConstants
<1>4. DOMAIN EmptyMap = {} /\ EmptyMap \in [DOMAIN EmptyMap -> Nat \ {0}]
  BY DEF EmptyMap
<1>5. RingInOrder(BlankFeed.recent, EmptyMap)
  BY <1>2, <1>4 DEF RingInOrder
<1> QED
  BY <1>1, <1>2, <1>3, <1>4, <1>5

LEMMA JoinKeeps ==
  ASSUME FeedIInv, Join
  PROVE  FeedIInv'
<1> DEFINE accept == [type |-> "join_accept"]
           m == [type |-> "match_state", state |-> phase]
<1>0. FeedForm /\ ServerForm /\ ClientForm /\ ShotsInOrder /\ PhaseOnItsWay /\ HitsInv
  BY DEF FeedIInv, FeedForm
<1>1. /\ client = "gone" /\ ~in_session /\ client' = "joining" /\ in_session' = TRUE
      /\ health' = Emplace(health, Local, StartingHealth)
      /\ inbox' = <<accept, m>> /\ outbox' = <<>> /\ told' = {}
      /\ UNCHANGED <<tick, phase, last_shot_seq, flying, coins, pending_snapshot_events,
                     hud, feed, next_shot_seq, seen_snapshot, shown>>
  BY DEF Join
<1>2. accept \in Accepts /\ m \in MatchStates /\ m.state = phase
  BY <1>0 DEF Accepts, MatchStates, ServerForm
<1> HIDE DEF accept, m
<1>3. /\ inbox' \in Seq(Packets) /\ inbox' # <<>> /\ inbox'[1] = accept /\ inbox'[2] = m
      /\ DOMAIN inbox' = {1, 2}
  <2>1. accept \in Packets /\ m \in Packets
    BY <1>2 DEF Packets
  <2> QED
    BY <1>1, <2>1
<1>4. ServerForm'
  <2>1. health' \in [Players -> 0 .. StartingHealth]
    BY <1>0, <1>1, FeedConstants DEF ServerForm, Emplace, Put, Players
  <2> QED
    BY <1>0, <1>1, <2>1 DEF ServerForm
<1>5. ClientForm'
  <2>1. \A i \in DOMAIN inbox' : inbox'[i] \in Accepts => i = 1
    BY <1>2, <1>3, PacketsDiffer
  <2>2. next_shot_seq = 1 /\ ~seen_snapshot /\ shown = EmptyMap /\ feed = BlankFeed
        /\ hud = BlankHud
    BY <1>0, <1>1 DEF ClientForm
  <2> QED
    BY <1>0, <1>1, <1>2, <1>3, <2>1, <2>2 DEF ClientForm
<1>6. ShotsInOrder'
  <2>1. Local \notin DOMAIN last_shot_seq'
    BY <1>0, <1>1 DEF ShotsInOrder
  <2>2. LastShot(Local)' = 0
    BY <2>1 DEF LastShot
  <2> QED
    BY <1>1, <2>1, <2>2 DEF ShotsInOrder
<1>7. PhaseOnItsWay'
  <2>1. PhaseEventsRight' = PhaseEventsRight /\ m \in HudPhaseRight' /\ m \in FeedPhaseRight'
    BY <1>1, <1>2 DEF PhaseEventsRight, HudPhaseRight, FeedPhaseRight
  <2>2. Follows(pending_snapshot_events, PhaseEvents, PhaseEventsRight, TRUE)'
    BY <1>0, <1>1, <2>1 DEF PhaseOnItsWay, Follows
  <2>3. 2 \in DOMAIN inbox' /\ \A j \in DOMAIN inbox' : ~ 2 < j
    BY <1>3
  <2>4. /\ Follows(inbox, HudPhaseTellers, HudPhaseRight,
                   client = "joined" /\ hud.match_state = phase)'
        /\ Follows(inbox, FeedPhaseTellers, FeedPhaseRight,
                   client = "joined" /\ feed.last_match_state = phase)'
    BY <1>3, <2>1, <2>3 DEF Follows
  <2> QED
    BY <2>2, <2>4 DEF PhaseOnItsWay
<1>8. StateOnItsWay'
  <2>1. ~seen_snapshot'
    BY <1>0, <1>1 DEF ClientForm
  <2>2. \A i \in DOMAIN inbox' : inbox'[i] \notin Snapshots
    BY <1>2, <1>3, PacketsDiffer
  <2> QED
    BY <2>1, <2>2 DEF StateOnItsWay, SnapshotComes
<1>9. HitsInv'
  <2>1. \A i \in DOMAIN inbox' : HitsTo(inbox'[i]) = {}
    <3> SUFFICES ASSUME NEW p \in {accept, m} PROVE HitsTo(p) = {}
      BY <1>3
    <3>1. p \notin Snapshots /\ p \notin Hits /\ Range(<<p>>) = {p}
      BY <1>2, PacketsDiffer, RangeOfOne
    <3> QED
      BY <3>1 DEF HitsTo, HitsIn, EventsOf
  <2>2. HitsShown' \subseteq HitsShown
    BY <1>1 DEF HitsShown
  <2>3. RingInOrder(feed.recent, shown)'
    BY <1>0, <1>1 DEF HitsInv, RingInOrder
  <2>4. ToldIsComing'
    BY <1>1 DEF ToldIsComing
  <2> QED
    BY <1>0, <1>1, <2>1, <2>2, <2>3, <2>4, HitsLeftInOrder
<1> QED
  BY <1>4, <1>5, <1>6, <1>7, <1>8, <1>9 DEF FeedIInv, FeedForm

LEMMA EndSessionKeeps ==
  ASSUME FeedIInv, EndSession
  PROVE  FeedIInv'
<1>0. FeedForm /\ ServerForm /\ ClientForm /\ ShotsInOrder /\ PhaseOnItsWay /\ StateOnItsWay
      /\ HitsInv
  BY DEF FeedIInv, FeedForm
<1>1. /\ in_session /\ in_session' = FALSE
      /\ health' = Erase(health, {Local}) /\ last_shot_seq' = Erase(last_shot_seq, {Local})
      /\ flying' = {}
      /\ UNCHANGED <<tick, phase, coins, pending_snapshot_events, client, hud, feed,
                     next_shot_seq, seen_snapshot, shown, inbox, outbox, told>>
  BY DEF EndSession, client_vars
<1>2. ServerForm'
  <2>1. health' \in [{Rival} -> 0 .. StartingHealth]
    BY <1>0, <1>1 DEF ServerForm, Erase, Players, Local, Rival
  <2>2. DOMAIN last_shot_seq' \subseteq Players
        /\ last_shot_seq' \in [DOMAIN last_shot_seq' -> Nat]
    BY <1>0, <1>1 DEF ServerForm, Erase
  <2>3. flying' \subseteq Shots /\ IsFiniteSet(flying')
    BY <1>1, FS_EmptySet
  <2> QED
    BY <1>0, <1>1, <2>1, <2>2, <2>3 DEF ServerForm
<1>3. ClientForm'
  BY <1>0, <1>1 DEF ClientForm
<1>4. ShotsInOrder'
  <2>1. Local \notin DOMAIN last_shot_seq'
    BY <1>1 DEF Erase
  <2>2. LastShot(Local)' = 0
    BY <2>1 DEF LastShot
  <2>3. next_shot_seq \in Nat /\ 0 < next_shot_seq
    BY <1>0, FeedConstants DEF ClientForm
  <2> QED
    BY <1>0, <1>1, <2>1, <2>2, <2>3 DEF ShotsInOrder
<1>5. PhaseOnItsWay' /\ StateOnItsWay'
  <2>1. ~Served'
    BY <1>1 DEF Served
  <2> QED
    BY <1>0, <1>1, <2>1, StaysOnItsWay
<1>6. HitsInv'
  <2>1. HitsShown' \subseteq HitsShown
    BY <1>1 DEF HitsShown
  <2>2. RingInOrder(feed.recent, shown)'
    BY <1>0, <1>1 DEF HitsInv, RingInOrder
  <2>3. ToldIsComing'
    BY <1>1 DEF ToldIsComing, Served
  <2> QED
    BY <1>0, <1>1, <2>1, <2>2, <2>3, HitsLeftInOrder
<1> QED
  BY <1>2, <1>3, <1>4, <1>5, <1>6 DEF FeedIInv, FeedForm

\* A shot that is taken, or not.
LEMMA TakeShotIs ==
  ASSUME ServerForm, NEW p \in Players, NEW seq \in Nat, TakeShot(p, seq)
  PROVE  /\ DOMAIN last_shot_seq' \subseteq Players
         /\ last_shot_seq' \in [DOMAIN last_shot_seq' -> Nat]
         /\ flying' \subseteq Shots /\ IsFiniteSet(flying')
         /\ DOMAIN last_shot_seq' \subseteq DOMAIN last_shot_seq \cup {p}
         /\ LastShot(p)' \in {LastShot(p), seq}
         /\ \A q \in Players : q # p => LastShot(q)' = LastShot(q)
<1>1. /\ DOMAIN last_shot_seq \subseteq Players
      /\ last_shot_seq \in [DOMAIN last_shot_seq -> Nat]
      /\ flying \subseteq Shots /\ IsFiniteSet(flying)
  BY DEF ServerForm
<1>2. CASE UNCHANGED <<last_shot_seq, flying>>
  <2>1. \A q \in Players : LastShot(q)' = LastShot(q)
    BY <1>2 DEF LastShot
  <2> QED
    BY <1>1, <1>2, <2>1
<1>3. CASE /\ last_shot_seq' = Put(last_shot_seq, p, seq)
           /\ flying' = flying \cup {[attacker_id |-> p, shot_seq |-> seq]}
  <2>1. /\ DOMAIN last_shot_seq' = DOMAIN last_shot_seq \cup {p}
        /\ last_shot_seq' \in [DOMAIN last_shot_seq' -> Nat]
        /\ last_shot_seq'[p] = seq
        /\ \A q \in DOMAIN last_shot_seq : q # p => last_shot_seq'[q] = last_shot_seq[q]
    BY <1>1, <1>3 DEF Put
  <2>2. [attacker_id |-> p, shot_seq |-> seq] \in Shots
    BY DEF Shots
  <2>3. flying' \subseteq Shots /\ IsFiniteSet(flying')
    BY <1>1, <1>3, <2>2, FS_AddElement
  <2>4. LastShot(p)' = seq /\ \A q \in Players : q # p => LastShot(q)' = LastShot(q)
    BY <2>1 DEF LastShot
  <2> QED
    BY <1>1, <2>1, <2>3, <2>4
<1> QED
  BY <1>2, <1>3 DEF TakeShot

LEMMA LastShotTyped ==
  ASSUME ServerForm, NEW p
  PROVE  LastShot(p) \in Nat
  BY DEF ServerForm, LastShot

LEMMA ShotArrivesKeeps ==
  ASSUME FeedIInv, ShotArrives
  PROVE  FeedIInv'
<1>0. FeedForm /\ ServerForm /\ ClientForm /\ ShotsInOrder /\ PhaseOnItsWay /\ StateOnItsWay
      /\ HitsInv
  BY DEF FeedIInv, FeedForm
<1>1. /\ in_session /\ outbox # <<>> /\ outbox' = Tail(outbox)
      /\ TakeShot(Local, Head(outbox))
      /\ UNCHANGED <<tick, phase, health, coins, pending_snapshot_events, in_session,
                     client, hud, feed, next_shot_seq, seen_snapshot, shown, inbox, told>>
  BY DEF ShotArrives, client_vars
<1> DEFINE t == Tail(outbox)
           seq == outbox[1]
<1>2. /\ outbox \in Seq(Nat) /\ 1 \in DOMAIN outbox /\ seq \in Nat /\ Head(outbox) = seq
      /\ t \in Seq(Nat)
      /\ \A i \in DOMAIN t : /\ t[i] = outbox[i + 1] /\ i + 1 \in DOMAIN outbox
                             /\ i \in Nat /\ 1 < i + 1
  <2>1. outbox \in Seq(Nat)
    BY <1>0 DEF ShotsInOrder
  <2>2. /\ 1 \in DOMAIN outbox /\ seq \in Nat /\ Head(outbox) = seq
        /\ t \in Seq(Nat) /\ DOMAIN t = 1 .. Len(outbox) - 1 /\ Len(outbox) \in Nat
        /\ \A i \in DOMAIN t : t[i] = outbox[i + 1] /\ i + 1 \in DOMAIN outbox
    BY <1>1, <2>1, TailIs
  <2> HIDE DEF t
  <2>3. \A i \in DOMAIN t : i \in Nat /\ 1 < i + 1
    BY <2>2
  <2> QED
    BY <2>1, <2>2, <2>3
<1>3. outbox' = t
  BY <1>1
<1> HIDE DEF t, seq
<1>4. /\ DOMAIN last_shot_seq' \subseteq Players
      /\ last_shot_seq' \in [DOMAIN last_shot_seq' -> Nat]
      /\ flying' \subseteq Shots /\ IsFiniteSet(flying')
      /\ LastShot(Local)' \in {LastShot(Local), seq}
  <2>1. Local \in Players /\ TakeShot(Local, seq)
    BY <1>1, <1>2 DEF Players
  <2> QED
    BY <1>0, <1>2, <2>1, TakeShotIs
<1>5. ServerForm'
  BY <1>0, <1>1, <1>4 DEF ServerForm
<1>6. ClientForm'
  BY <1>0, <1>1 DEF ClientForm
<1>7. ShotsInOrder'
  <2>1. /\ \A i, j \in DOMAIN outbox : i < j => outbox[i] < outbox[j]
        /\ \A i \in DOMAIN outbox : LastShot(Local) < outbox[i]
        /\ client # "joining"
        /\ client = "joined" => /\ LastShot(Local) < next_shot_seq
                                /\ \A i \in DOMAIN outbox : outbox[i] < next_shot_seq
    BY <1>0, <1>1 DEF ShotsInOrder
  <2>2. \A i, j \in DOMAIN t : i < j => t[i] < t[j]
    <3> TAKE i, j \in DOMAIN t
    <3>1. i < j => i + 1 < j + 1
      BY <1>2
    <3> QED
      BY <1>2, <2>1, <3>1
  <2>3. \A i \in DOMAIN t : LastShot(Local)' < t[i]
    BY <1>2, <1>4, <2>1 DEF seq
  <2>4. client = "joined" => /\ LastShot(Local)' < next_shot_seq
                             /\ \A i \in DOMAIN t : t[i] < next_shot_seq
    BY <1>2, <1>4, <2>1 DEF seq
  <2> QED
    BY <1>1, <1>2, <1>3, <2>1, <2>2, <2>3, <2>4 DEF ShotsInOrder
<1>8. PhaseOnItsWay' /\ StateOnItsWay'
  <2>1. Served' => Served
    BY <1>1 DEF Served
  <2> QED
    BY <1>0, <1>1, <2>1, StaysOnItsWay
<1>9. HitsInv'
  <2>1. HitsShown' \subseteq HitsShown
    BY <1>1 DEF HitsShown
  <2>2. RingInOrder(feed.recent, shown)'
    BY <1>0, <1>1 DEF HitsInv, RingInOrder
  <2>3. ToldIsComing'
    BY <1>0, <1>1 DEF HitsInv, ToldIsComing, Served, HitsShown
  <2> QED
    BY <1>0, <1>1, <2>1, <2>2, <2>3, HitsLeftInOrder
<1> QED
  BY <1>5, <1>6, <1>7, <1>8, <1>9 DEF FeedIInv, FeedForm

LEMMA RivalShootsKeeps ==
  ASSUME FeedIInv, RivalShoots
  PROVE  FeedIInv'
<1>0. FeedForm /\ ServerForm /\ ClientForm /\ ShotsInOrder /\ PhaseOnItsWay /\ StateOnItsWay
      /\ HitsInv
  BY DEF FeedIInv, FeedForm
<1> DEFINE seq == LastShot(Rival) + 1
<1>1. /\ TakeShot(Rival, seq)
      /\ UNCHANGED <<tick, phase, health, coins, pending_snapshot_events, in_session,
                     client, hud, feed, next_shot_seq, seen_snapshot, shown, inbox, outbox,
                     told>>
  BY DEF RivalShoots, client_vars
<1>2. seq \in Nat
  BY <1>0, LastShotTyped
<1> HIDE DEF seq
<1>3. Rival \in Players /\ Local \in Players /\ Local # Rival
  BY DEF Players, Local, Rival
<1>4. /\ DOMAIN last_shot_seq' \subseteq Players
      /\ last_shot_seq' \in [DOMAIN last_shot_seq' -> Nat]
      /\ flying' \subseteq Shots /\ IsFiniteSet(flying')
      /\ DOMAIN last_shot_seq' \subseteq DOMAIN last_shot_seq \cup {Rival}
      /\ LastShot(Local)' = LastShot(Local)
  BY <1>0, <1>1, <1>2, <1>3, TakeShotIs
<1>5. ServerForm'
  BY <1>0, <1>1, <1>4 DEF ServerForm
<1>6. ClientForm'
  BY <1>0, <1>1 DEF ClientForm
<1>7. ShotsInOrder'
  BY <1>0, <1>1, <1>3, <1>4 DEF ShotsInOrder
<1>8. PhaseOnItsWay' /\ StateOnItsWay'
  <2>1. Served' => Served
    BY <1>1 DEF Served
  <2> QED
    BY <1>0, <1>1, <2>1, StaysOnItsWay
<1>9. HitsInv'
  <2>1. HitsShown' \subseteq HitsShown
    BY <1>1 DEF HitsShown
  <2>2. RingInOrder(feed.recent, shown)'
    BY <1>0, <1>1 DEF HitsInv, RingInOrder
  <2>3. ToldIsComing'
    BY <1>0, <1>1 DEF HitsInv, ToldIsComing, Served, HitsShown
  <2> QED
    BY <1>0, <1>1, <2>1, <2>2, <2>3, HitsLeftInOrder
<1> QED
  BY <1>5, <1>6, <1>7, <1>8, <1>9 DEF FeedIInv, FeedForm

LEMMA FireKeeps ==
  ASSUME FeedIInv, Fire
  PROVE  FeedIInv'
<1>0. FeedForm /\ ServerForm /\ ClientForm /\ ShotsInOrder /\ PhaseOnItsWay /\ StateOnItsWay
      /\ HitsInv
  BY DEF FeedIInv, FeedForm
<1>1. /\ client = "joined" /\ next_shot_seq <= MaxShots
      /\ next_shot_seq' = next_shot_seq + 1 /\ outbox' = Append(outbox, next_shot_seq)
      /\ UNCHANGED <<tick, phase, health, last_shot_seq, flying, coins,
                     pending_snapshot_events, in_session, client, hud, feed, seen_snapshot,
                     shown, inbox, told>>
  BY DEF Fire, Emit, server_vars, combat_vars
<1>2. next_shot_seq \in Nat /\ next_shot_seq \in 1 .. MaxShots + 1
  BY <1>0, FeedConstants DEF ClientForm
<1>3. ServerForm'
  BY <1>0, <1>1 DEF ServerForm
<1>4. ClientForm'
  <2>1. next_shot_seq' \in 1 .. MaxShots + 1
    BY <1>1, <1>2, FeedConstants
  <2> QED
    BY <1>0, <1>1, <2>1 DEF ClientForm
<1>5. ShotsInOrder'
  <2>1. /\ outbox \in Seq(Nat)
        /\ \A i, j \in DOMAIN outbox : i < j => outbox[i] < outbox[j]
        /\ in_session => \A i \in DOMAIN outbox : LastShot(Local) < outbox[i]
        /\ LastShot(Local) < next_shot_seq
        /\ \A i \in DOMAIN outbox : outbox[i] < next_shot_seq
        /\ ~in_session => Local \notin DOMAIN last_shot_seq
    BY <1>0, <1>1 DEF ShotsInOrder
  <2>2. LastShot(Local)' = LastShot(Local) /\ LastShot(Local) \in Nat
    BY <1>0, <1>1, LastShotTyped DEF LastShot
  <2> DEFINE n == Len(outbox)
             w == Append(outbox, next_shot_seq)
  <2>3. n = Len(outbox) /\ w = Append(outbox, next_shot_seq)
    OBVIOUS
  <2>4. outbox' = w
    BY <1>1
  <2> HIDE DEF n, w
  <2>5. /\ w \in Seq(Nat) /\ n \in Nat /\ DOMAIN outbox = 1 .. n
        /\ \A i \in 1 .. n : w[i] = outbox[i]
        /\ w[n + 1] = next_shot_seq
        /\ \A i \in DOMAIN w : i \in 1 .. n \/ i = n + 1
    BY <1>2, <2>1, <2>3, AppendIs
  <2>6. \A i, j \in DOMAIN w : i < j => w[i] < w[j]
    <3> TAKE i, j \in DOMAIN w
    <3> SUFFICES ASSUME i < j PROVE w[i] < w[j]
      OBVIOUS
    <3>1. i \in 1 .. n
      BY <2>5
    <3>2. CASE j \in 1 .. n
      BY <2>1, <2>5, <3>1, <3>2
    <3>3. CASE j = n + 1
      BY <2>1, <2>5, <3>1, <3>3
    <3> QED
      BY <2>5, <3>2, <3>3
  <2>7. in_session => \A i \in DOMAIN w : LastShot(Local) < w[i]
    BY <2>1, <2>5
  <2>8. \A i \in DOMAIN w : w[i] < next_shot_seq + 1
    <3> TAKE i \in DOMAIN w
    <3>1. CASE i \in 1 .. n
      <4>1. w[i] \in Nat /\ w[i] < next_shot_seq
        BY <2>1, <2>5, <3>1
      <4> QED
        BY <1>2, <4>1
    <3>2. CASE i = n + 1
      BY <1>2, <2>5, <3>2
    <3> QED
      BY <2>5, <3>1, <3>2
  <2>9. LastShot(Local)' < next_shot_seq'
    BY <1>1, <1>2, <2>1, <2>2
  <2> QED
    BY <1>1, <2>1, <2>2, <2>4, <2>5, <2>6, <2>7, <2>8, <2>9 DEF ShotsInOrder
<1>6. PhaseOnItsWay' /\ StateOnItsWay'
  <2>1. Served' => Served
    BY <1>1 DEF Served
  <2> QED
    BY <1>0, <1>1, <2>1, StaysOnItsWay
<1>7. HitsInv'
  <2>1. HitsShown' \subseteq HitsShown
    BY <1>1 DEF HitsShown
  <2>2. RingInOrder(feed.recent, shown)'
    BY <1>0, <1>1 DEF HitsInv, RingInOrder
  <2>3. ToldIsComing'
    BY <1>0, <1>1 DEF HitsInv, ToldIsComing, Served, HitsShown
  <2> QED
    BY <1>0, <1>1, <2>1, <2>2, <2>3, HitsLeftInOrder
<1> QED
  BY <1>3, <1>4, <1>5, <1>6, <1>7 DEF FeedIInv, FeedForm

LEMMA QuitKeeps ==
  ASSUME FeedIInv, Quit
  PROVE  FeedIInv'
<1>0. FeedForm /\ ServerForm /\ ClientForm /\ ShotsInOrder /\ PhaseOnItsWay /\ StateOnItsWay
      /\ HitsInv
  BY DEF FeedIInv, FeedForm
<1>1. /\ client' = "gone" /\ hud' = BlankHud /\ feed' = BlankFeed /\ next_shot_seq' = 1
      /\ seen_snapshot' = FALSE /\ shown' = EmptyMap /\ inbox' = <<>>
      /\ UNCHANGED <<tick, phase, health, last_shot_seq, flying, coins,
                     pending_snapshot_events, in_session, outbox, told>>
  BY DEF Quit, server_vars, combat_vars
<1>2. ServerForm'
  BY <1>0, <1>1 DEF ServerForm
<1>3. ClientForm'
  <2>1. 1 \in 1 .. MaxShots + 1
    BY FeedConstants
  <2>2. inbox' \in Seq(Packets) /\ DOMAIN inbox' = {}
    BY <1>1
  <2>3. /\ hud' \in Huds /\ feed' \in Feeds /\ Len(feed'.recent) <= RingSize
        /\ next_shot_seq' \in 1 .. MaxShots + 1 /\ seen_snapshot' = FALSE
        /\ shown' = EmptyMap /\ DOMAIN shown' = {} /\ shown' \in [DOMAIN shown' -> Nat \ {0}]
    BY <1>1, <2>1, BlanksTyped
  <2> QED
    BY <1>1, <2>2, <2>3 DEF ClientForm
<1>4. ShotsInOrder'
  <2>1. LastShot(Local)' = LastShot(Local)
    BY <1>1 DEF LastShot
  <2> QED
    BY <1>0, <1>1, <2>1 DEF ShotsInOrder
<1>5. PhaseOnItsWay' /\ StateOnItsWay'
  <2>1. ~Served'
    BY <1>1 DEF Served
  <2> QED
    BY <1>0, <1>1, <2>1, StaysOnItsWay
<1>6. HitsInv'
  <2>1. HitsShown' \subseteq HitsShown
    BY <1>1, BlanksTyped DEF HitsShown
  <2>2. RingInOrder(feed.recent, shown)'
    BY <1>1, BlanksTyped DEF RingInOrder
  <2>3. ToldIsComing'
    BY <1>1 DEF ToldIsComing, Served
  <2>4. \A i \in DOMAIN inbox' : HitsTo(inbox'[i]) = {}
    BY <1>1
  <2> QED
    BY <1>0, <1>1, <2>1, <2>2, <2>3, <2>4, HitsLeftInOrder
<1> QED
  BY <1>2, <1>3, <1>4, <1>5, <1>6 DEF FeedIInv, FeedForm

LEMMA TickKeeps ==
  ASSUME FeedIInv,
         NEW landed \in SUBSET flying, Cardinality(landed) <= MaxHitsPerTick,
         NEW respawned \in SUBSET (IF phase = "in_match" THEN Dead ELSE {}),
         NEW value \in IF in_session THEN Coins ELSE {coins},
         NEW new \in NextPhases[phase], NEW changed \in BOOLEAN,
         Tick(landed, respawned, value, new, changed)
  PROVE  FeedIInv'
<1>0. FeedForm /\ ServerForm /\ PhaseOnItsWay /\ StateOnItsWay /\ HitsInv
  BY DEF FeedIInv, FeedForm
<1>1. new \in Phases
  BY <1>0 DEF ServerForm, Phases, NextPhases
<1>2. value \in Coins
  BY <1>0 DEF ServerForm
<1> DEFINE damages == Fight(landed).damages
           left == Fight(landed).health
           after == HealthAfter(left, respawned)
           fresh == TickEvents(respawned, new, changed, damages)
           events == pending_snapshot_events \o fresh
           inv == InventoryUpdate(value)
           ms == MatchState(new, changed)
           snap == Snapshot(after, value, new, events)
<1>3. /\ tick < MaxTick /\ MayAnnounce(new, changed)
      /\ tick' = tick + 1 /\ phase' = new /\ health' = after /\ coins' = value
      /\ flying' = {h \in flying \ landed : Other(h.attacker_id) \notin respawned}
      /\ pending_snapshot_events' = IF SnapshotDue THEN <<>> ELSE events
      /\ told' = IF in_session THEN told \cup Range(damages) ELSE told
      /\ inbox' = IF in_session /\ client # "gone"
                  THEN inbox \o damages \o inv \o ms \o snap ELSE inbox
      /\ UNCHANGED <<last_shot_seq, in_session, client_vars, outbox>>
  BY Zenon DEF Tick
<1>4. /\ damages = Fight(landed).damages /\ left = Fight(landed).health
      /\ after = HealthAfter(left, respawned)
      /\ fresh = TickEvents(respawned, new, changed, damages)
      /\ events = pending_snapshot_events \o fresh
      /\ inv = InventoryUpdate(value) /\ ms = MatchState(new, changed)
      /\ snap = Snapshot(after, value, new, events)
  OBVIOUS
<1> HIDE DEF damages, left, after, fresh, events, inv, ms, snap
<1>5. TickMakes(landed, respawned, value, new, changed, damages, left, after, fresh,
                events, inv, ms, snap)
  BY <1>0, <1>1, <1>2, <1>4, TickIs
<1>6. TickDoes(respawned, value, new, changed, damages, after, events, inv, ms, snap)
  <2>1. ~in_session => value = coins
    OBVIOUS
  <2>2. inbox' = IF Served THEN inbox \o damages \o inv \o ms \o snap ELSE inbox
    BY <1>3 DEF Served
  <2>3. flying' \subseteq flying
    BY <1>3
  <2>4. UNCHANGED <<last_shot_seq, in_session, client, hud, feed, next_shot_seq,
                    seen_snapshot, shown, outbox>>
    BY <1>3 DEF client_vars
  <2> QED
    BY <1>1, <1>2, <1>3, <2>1, <2>2, <2>3, <2>4 DEF TickDoes
<1>7. FeedForm'
  BY <1>0, <1>5, <1>6, TickKeepsForm
<1>8. PhaseOnItsWay'
  BY <1>0, <1>5, <1>6, TickKeepsPhase
<1>9. StateOnItsWay'
  BY <1>0, <1>5, <1>6, TickKeepsState
<1>10. HitsInv'
  BY <1>0, <1>5, <1>6, TickKeepsHits
<1> QED
  BY <1>7, <1>8, <1>9, <1>10 DEF FeedIInv

-----------------------------------------------------------------------------
(* From the beginning *)

LEMMA FeedStarts == FeedInit => FeedIInv
<1> SUFFICES ASSUME FeedInit PROVE FeedIInv
  OBVIOUS
<1>1. /\ tick = 0 /\ phase = "pre_match" /\ health = Put(EmptyMap, Rival, StartingHealth)
      /\ last_shot_seq = Put(EmptyMap, Rival, 0) /\ flying = {} /\ coins = 0
      /\ pending_snapshot_events = <<>> /\ in_session = FALSE /\ inbox = <<>> /\ outbox = <<>>
      /\ client = "gone" /\ hud = BlankHud /\ feed = BlankFeed /\ next_shot_seq = 1
      /\ seen_snapshot = FALSE /\ shown = EmptyMap /\ told = {}
  BY DEF FeedInit
<1>2. ServerForm
  <2>1. health \in [{Rival} -> 0 .. StartingHealth]
    BY <1>1, FeedConstants DEF Put, EmptyMap
  <2>2. DOMAIN last_shot_seq = {Rival} /\ last_shot_seq \in [DOMAIN last_shot_seq -> Nat]
    BY <1>1 DEF Put, EmptyMap
  <2>3. tick \in 0 .. MaxTick /\ phase \in Phases /\ coins \in Coins
    BY <1>1, FeedConstants DEF Phases
  <2>4. flying \subseteq Shots /\ IsFiniteSet(flying)
    BY <1>1, FS_EmptySet
  <2>5. health \in [IF in_session THEN Players ELSE {Rival} -> 0 .. StartingHealth]
    BY <1>1, <2>1
  <2>6. DOMAIN last_shot_seq \subseteq Players
    BY <2>2 DEF Players
  <2>7. in_session \in BOOLEAN /\ told \subseteq Hits
    BY <1>1
  <2>8. pending_snapshot_events \in Seq(Events)
    BY <1>1
  <2> QED
    BY <2>2, <2>3, <2>4, <2>5, <2>6, <2>7, <2>8 DEF ServerForm
<1>3. ClientForm
  <2>1. 1 \in 1 .. MaxShots + 1
    BY FeedConstants
  <2>2. inbox \in Seq(Packets) /\ DOMAIN inbox = {}
    BY <1>1
  <2>3. /\ hud \in Huds /\ feed \in Feeds /\ Len(feed.recent) <= RingSize
        /\ DOMAIN shown = {} /\ shown \in [DOMAIN shown -> Nat \ {0}]
    BY <1>1, BlanksTyped
  <2> QED
    BY <1>1, <2>1, <2>2, <2>3 DEF ClientForm
<1>4. ShotsInOrder
  <2>1. Local \notin DOMAIN last_shot_seq
    BY <1>1 DEF Put, EmptyMap, Local, Rival
  <2> QED
    BY <1>1, <2>1 DEF ShotsInOrder
<1>5. PhaseOnItsWay /\ StateOnItsWay
  BY <1>1 DEF PhaseOnItsWay, StateOnItsWay, Served, Follows
<1>6. HitsInv
  <2>1. HitsShown = {}
    BY <1>1, BlanksTyped DEF HitsShown
  <2>2. HitsIn(pending_snapshot_events) = {}
    BY <1>1, RangeOfNone DEF HitsIn
  <2>3. HitsComing = {}
    BY <1>1 DEF HitsComing
  <2>4. Known = {}
    BY <1>1, <2>1, <2>2, <2>3 DEF Known
  <2>5. FewHits(Known)
    <3>1. \A t \in Nat : SignaturesAt(Known, t) = {}
      BY <2>4 DEF SignaturesAt
    <3>2. IsFiniteSet({}) /\ Cardinality({}) = 0
      BY FS_EmptySet
    <3>3. 0 <= MaxHitsPerTick
      BY FeedConstants
    <3> QED
      BY <2>4, <3>1, <3>2, <3>3 DEF FewHits
  <2>6. HitsInOrder
    BY <1>1, <2>2, <2>4 DEF HitsInOrder
  <2>7. RingInOrder(feed.recent, shown)
    BY <1>1, BlanksTyped
  <2>8. ToldIsComing
    BY <1>1 DEF ToldIsComing
  <2> QED
    BY <2>5, <2>6, <2>7, <2>8 DEF HitsInv
<1> QED
  BY <1>2, <1>3, <1>4, <1>5, <1>6 DEF FeedIInv, FeedForm

LEMMA FeedIInvKept == FeedIInv /\ [FeedNext]_feed_vars => FeedIInv'
<1> SUFFICES ASSUME FeedIInv, [FeedNext]_feed_vars PROVE FeedIInv'
  OBVIOUS
<1>1. CASE Join
  BY <1>1, JoinKeeps
<1>2. CASE EndSession
  BY <1>2, EndSessionKeeps
<1>3. CASE ShotArrives
  BY <1>3, ShotArrivesKeeps
<1>4. CASE RivalShoots
  BY <1>4, RivalShootsKeeps
<1>5. CASE \E landed \in {s \in SUBSET flying : Cardinality(s) <= MaxHitsPerTick},
              respawned \in SUBSET (IF phase = "in_match" THEN Dead ELSE {}),
              value \in IF in_session THEN Coins ELSE {coins},
              new \in NextPhases[phase], changed \in BOOLEAN :
             Tick(landed, respawned, value, new, changed)
  <2>1. PICK landed \in {s \in SUBSET flying : Cardinality(s) <= MaxHitsPerTick},
              respawned \in SUBSET (IF phase = "in_match" THEN Dead ELSE {}),
              value \in IF in_session THEN Coins ELSE {coins},
              new \in NextPhases[phase], changed \in BOOLEAN :
             Tick(landed, respawned, value, new, changed)
    BY <1>5
  <2>2. landed \in SUBSET flying /\ Cardinality(landed) <= MaxHitsPerTick
    OBVIOUS
  <2> QED
    BY <2>1, <2>2, TickKeeps
<1>6. CASE Receive
  BY <1>6, ReceiveKeeps
<1>7. CASE Fire
  BY <1>7, FireKeeps
<1>8. CASE Quit
  BY <1>8, QuitKeeps
<1>9. CASE UNCHANGED feed_vars
  <2>1. UNCHANGED <<tick, phase, health, last_shot_seq, flying, coins,
                    pending_snapshot_events, in_session, client, hud, feed, next_shot_seq,
                    seen_snapshot, shown, inbox, outbox, told>>
    BY <1>9 DEF feed_vars, server_vars, client_vars, combat_vars
  <2>2. FeedForm /\ PhaseOnItsWay /\ StateOnItsWay /\ HitsInv
    BY DEF FeedIInv
  <2>3. FeedForm'
    <3>1. ServerForm'
      BY <2>1, <2>2 DEF FeedForm, ServerForm
    <3>2. ClientForm'
      BY <2>1, <2>2 DEF FeedForm, ClientForm
    <3>3. ShotsInOrder'
      BY <2>1, <2>2 DEF FeedForm, ShotsInOrder, LastShot
    <3> QED
      BY <3>1, <3>2, <3>3 DEF FeedForm
  <2>4. PhaseOnItsWay' /\ StateOnItsWay'
    <3>1. Served' => Served
      BY <2>1 DEF Served
    <3> QED
      BY <2>1, <2>2, <3>1, StaysOnItsWay
  <2>5. HitsInv'
    <3>1. HitsShown' \subseteq HitsShown
      BY <2>1 DEF HitsShown
    <3>2. RingInOrder(feed.recent, shown)'
      BY <2>1, <2>2 DEF HitsInv, RingInOrder
    <3>3. ToldIsComing'
      BY <2>1, <2>2 DEF HitsInv, ToldIsComing, Served, HitsShown
    <3> QED
      BY <2>1, <2>2, <3>1, <3>2, <3>3, HitsLeftInOrder
  <2> QED
    BY <2>3, <2>4, <2>5 DEF FeedIInv
<1> QED
  BY <1>1, <1>2, <1>3, <1>4, <1>5, <1>6, <1>7, <1>8, <1>9 DEF FeedNext

LEMMA FeedIInvHolds == FeedSpec => []FeedIInv
<1> QED
  BY FeedStarts, FeedIInvKept, PTL DEF FeedSpec

\* Types are kept on both ends, and the server never takes a shot of the client for
\* an old one, whoever came and went before (remove_player of combat against reset of
\* the emitter of shots).
THEOREM FeedInvHolds == FeedSpec => []FeedInv
<1>1. FeedIInv => FeedInv
  <2> SUFFICES ASSUME FeedIInv PROVE FeedInv
    OBVIOUS
  <2>1. ServerForm /\ ClientForm /\ ShotsInOrder
    BY DEF FeedIInv, FeedForm
  <2>2. FeedTypes
    <3>1. /\ DOMAIN health = IF in_session THEN Players ELSE {Rival}
          /\ Range(health) \subseteq 0 .. StartingHealth
      BY <2>1 DEF ServerForm, Range
    <3>2. Range(last_shot_seq) \subseteq Nat
      BY <2>1 DEF ServerForm, Range
    <3>3. /\ hud.health \in 0 .. StartingHealth
          /\ {hud.match_state, feed.last_match_state} \subseteq Phases \cup {"unknown"}
      BY <2>1 DEF ClientForm, Huds, Feeds, ShownPhases
    <3>4. Range(shown) \subseteq Nat \ {0}
      BY <2>1 DEF ClientForm, Range
    <3>5. /\ tick \in 0 .. MaxTick /\ phase \in Phases /\ coins \in Coins
          /\ client \in {"gone", "joining", "joined"} /\ Len(feed.recent) <= RingSize
          /\ next_shot_seq \in 1 .. MaxShots + 1
      BY <2>1 DEF ServerForm, ClientForm
    <3> QED
      BY <3>1, <3>2, <3>3, <3>4, <3>5 DEF FeedTypes
  <2>3. ShotsAreHeard
    <3> SUFFICES ASSUME in_session, outbox # <<>> PROVE Head(outbox) > LastShot(Local)
      BY DEF ShotsAreHeard
    <3>1. outbox \in Seq(Nat) /\ \A i \in DOMAIN outbox : LastShot(Local) < outbox[i]
      BY <2>1 DEF ShotsInOrder
    <3>2. 1 \in DOMAIN outbox /\ Head(outbox) = outbox[1] /\ outbox[1] \in Nat
      BY <3>1, TailIs
    <3>3. LastShot(Local) \in Nat
      BY <2>1, LastShotTyped
    <3> QED
      BY <3>1, <3>2, <3>3
  <2> QED
    BY <2>2, <2>3 DEF FeedInv
<1> QED
  BY <1>1, FeedIInvHolds, PTL

\* Every hit of a session is shown, for any ring of signatures; and shown once,
\* although each is sent twice, for a ring that holds the hits of a snapshot interval
\* (RingHolds, the condition in HitsShownOnce, which validate_server_config does not check).
THEOREM HitsShownOnceHolds == FeedSpec => []HitsShownOnce
<1>1. FeedIInv => HitsShownOnce
  <2> SUFFICES ASSUME FeedIInv PROVE HitsShownOnce
    OBVIOUS
  <2>1. ClientForm /\ RingInOrder(feed.recent, shown) /\ ToldIsComing
    BY DEF FeedIInv, FeedForm, HitsInv
  <2>2. ASSUME RingHolds, NEW event \in DOMAIN shown, event.type = "damage_event"
        PROVE  shown[event] = 1
    <3>1. event \in Hits
      BY <2>1, <2>2 DEF ClientForm, DeathEvents
    <3> QED
      BY <2>1, <2>2, <3>1 DEF RingInOrder
  <2>3. ASSUME client = "joined", in_session, inbox = <<>>
        PROVE  told \subseteq DOMAIN shown
    <3>1. Range(inbox) = {}
      BY <2>3, RangeOfNone
    <3> QED
      BY <2>1, <2>3, <3>1 DEF ToldIsComing, Served, HitsShown
  <2> QED
    BY <2>2, <2>3 DEF HitsShownOnce
<1> QED
  BY <1>1, FeedIInvHolds, PTL

\* A client that has read all there is shows the phase of the match, in its HUD and
\* in its feed.
THEOREM PhaseFollowsHolds == FeedSpec => []PhaseFollows
<1>1. FeedIInv => PhaseFollows
  BY DEF FeedIInv, PhaseOnItsWay, PhaseFollows, Follows, Served
<1> QED
  BY <1>1, FeedIInvHolds, PTL

\* And it shows the player as it is, from the first snapshot on, but for a respawn
\* that waits for the next one.
THEOREM HudFollowsHolds == FeedSpec => []HudFollows
<1>1. FeedIInv => HudFollows
  <2> SUFFICES ASSUME FeedIInv, client = "joined", in_session, inbox = <<>>, seen_snapshot
               PROVE  /\ hud.has_player_state
                      /\ hud.coins = coins
                      /\ \/ hud.health = health[Local] /\ hud.alive = (health[Local] > 0)
                         \/ \E event \in Range(pending_snapshot_events) :
                              event.type = "respawn_event" /\ event.player_id = Local
    BY DEF HudFollows
  <2>1. /\ Follows(inbox, CoinTellers, CoinsRight, ShowsCoins(hud, coins))
        /\ \/ Follows(inbox, HealthTellers, HealthRight, ShowsHealth(hud, health[Local]))
           \/ RespawnPends
    BY DEF FeedIInv, StateOnItsWay, Served, SnapshotComes, ShowsCoins, ShowsHealth
  <2>2. /\ ShowsCoins(hud, coins)
        /\ ShowsHealth(hud, health[Local]) \/ RespawnPends
    BY <2>1 DEF Follows
  <2>3. RespawnPends => \E event \in Range(pending_snapshot_events) :
                          event.type = "respawn_event" /\ event.player_id = Local
    BY DEF RespawnPends, Range, RespawnEvents
  <2> QED
    BY <2>2, <2>3 DEF ShowsCoins, ShowsHealth
<1> QED
  BY <1>1, FeedIInvHolds, PTL
=============================================================================
