-------------------------- MODULE MCWorldGeneration --------------------------
(* Three cells, three chunks around a corner, two of them in the map. *)
EXTENDS WorldGeneration

\* Cells of one chunk with more jitter asked for than they allow: POIs that may
\* overlap, POIs that must keep apart, no type left on, and none at all.
MCProfiles ==
  LET base == [enabled |-> TRUE, cell_size_chunks |-> 1, jitter_units |-> 40,
               min_poi_spacing_units |-> 0,
               poi_types |-> {"outpost", "loot_shrine"}]
  IN {base,
      [base EXCEPT !.min_poi_spacing_units = 40, !.poi_types = {}],
      [base EXCEPT !.min_poi_spacing_units = 20, !.poi_types = {"ruins"}],
      [base EXCEPT !.enabled = FALSE]}

MCCells == {<<0, 0>>, <<1, 1>>, <<2, 0>>}

\* With a jitter of 15 a hash h moves the POI by h - 15 from the middle of its
\* cell: 0 and 30 to its edges, 25 to where the corner of an outpost is alone in
\* the next chunk.
MCCellHashes ==
  [x : {0, 25, 30}, z : {0, 25}, type : {0}, rank : {1, 2, 3}]
    \cup [x : {1}, z : {6}, type : {1}, rank : {1, 2}]

MCMapChunks == {<<0, 0>>, <<1, 0>>}
MCChunks == MCMapChunks \cup {<<1, 1>>}
=============================================================================
