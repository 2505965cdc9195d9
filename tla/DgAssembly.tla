----------------------------- MODULE DgAssembly -----------------------------
(***************************************************************************)
(* Parallel assembly of the DG equations (transport/assembly_dg.hh).  Each *)
(* rank goes through its elements and the ghost elements around them,      *)
(* collects the integrals of an element and of its sides, marks the points *)
(* where fields are needed in the element cache, and adds the terms of the *)
(* rows it owns.                                                           *)
(*                                                                         *)
(* A term is known by its kind, its row and column elements and where it   *)
(* is integrated; its value is left out.                                   *)
(***************************************************************************)
EXTENDS Integers, Sequences, FiniteSets, SequencesExt, Bags

CONSTANTS DaRanks,      \* set of ranks
          DaMesh,       \* [dim, region, nodes, edges: per element; edge: sides <<element, side>> and
                        \*  boundary; neighbours: lower element and side above it]
          DaOwners,     \* partitionings: functions from elements to ranks
          DaBulkPoints, DaSidePoints,   \* numbers of quadrature points
          n_cached_elements

VARIABLES da_owner,     \* rank of each element
          da_kind,      \* assembly: "mass", "stiffness" or "bdr_cond"
          da_upwards,   \* order of the map of regions, which the hash decides
          da_pos,       \* rank: number of elements done
          da_data,      \* rank: integrals of the last element
          da_cache,     \* rank: element_cache_map_
          da_matrix,    \* bag of terms added
          da_failed     \* an assertion failed

da_vars == <<da_owner, da_kind, da_upwards, da_pos, da_data, da_cache, da_matrix, da_failed>>

da_elements == DOMAIN DaMesh.dim
active_integrals == IF da_kind = "stiffness" THEN {"bulk", "edge", "coupling", "boundary"} ELSE {"bulk"}

---------------------------------------------------------------------------
(* Evaluation points (fields/eval_points.cc). *)

\* create_integrals of the dimensions 1, 2, 3 in this order: the subsets of points of one
\* dimension, in the order they are added
eval_subsets(dim) ==
  SelectSeq(<<"bulk", "edge", "coupling_side", "boundary", "coupling_bulk">>,
            LAMBDA name : CASE name = "coupling_side" -> dim > 1 /\ "coupling" \in active_integrals
                            [] name = "coupling_bulk" -> dim < 3 /\ "coupling" \in active_integrals
                            [] OTHER -> name \in active_integrals)

subset_size(dim, name) ==
  CASE name = "bulk" -> DaBulkPoints
    [] name = "coupling_bulk" -> DaSidePoints
    [] OTHER -> (dim + 1) * DaSidePoints

subset_begin(dim, name) ==
  LET before == SelectInSeq(eval_subsets(dim), LAMBDA x : x = name) - 1
      sizes == [i \in 1..before |-> subset_size(dim, eval_subsets(dim)[i])]
  IN  FoldSeq(LAMBDA a, b : a + b, 0, sizes)

\* Points of a subset on a whole element, or on one of its sides
points_of(dim, name, side) ==
  LET begin == subset_begin(dim, name)
  IN  IF name \in {"bulk", "coupling_bulk"} THEN begin..begin + subset_size(dim, name) - 1
      ELSE begin + DaSidePoints * (side - 1)..begin + DaSidePoints * side - 1

---------------------------------------------------------------------------
(* Accessors (fem/dh_cell_accessor.hh, dofhandler.cc). *)

is_own(p, e) == da_owner[e] = p

\* make_elem_partitioning: elements that share a node with an own one, or are its neighbours
is_ghost(p, e) ==
  /\ ~ is_own(p, e)
  /\ \E o \in da_elements :
       /\ is_own(p, o)
       /\ \/ DaMesh.nodes[o] \cap DaMesh.nodes[e] # {}
          \/ \E nb \in Range(DaMesh.neighbours) : {nb.lower, nb.side[1]} = {o, e}

is_local(p, e) == is_own(p, e) \/ is_ghost(p, e)

\* local_range: own elements, then the ghosts
local_range(p) ==
  LET all == [e \in da_elements |-> e]
  IN  SelectSeq(all, LAMBDA e : is_own(p, e)) \o SelectSeq(all, LAMBDA e : is_ghost(p, e))

edge_of(e, side) == DaMesh.edges[DaMesh.element_edges[e][side]]
elements_of(edge) == {edge.sides[i][1] : i \in DOMAIN edge.sides}

n_edge_sides(p, edge) == IF \E e \in elements_of(edge) : is_own(p, e) THEN Len(edge.sides) ELSE 0

\* neighb_sides: neighbours whose elements are not local are skipped
neighb_sides(p, e) ==
  LET above == SelectSeq(DaMesh.neighbours, LAMBDA nb : nb.lower = e /\ is_local(p, nb.side[1]))
  IN  [i \in DOMAIN above |-> above[i].side]

---------------------------------------------------------------------------
(* Integrals of one element (add_integrals_of_computing_step). *)

side_is_boundary(e, side) == Len(edge_of(e, side).sides) = 1 /\ edge_of(e, side).boundary

boundary_sides(p, e) ==
  IF is_own(p, e) /\ "boundary" \in active_integrals
  THEN SelectSeq([s \in 1..DaMesh.dim[e] + 1 |-> s], LAMBDA s : side_is_boundary(e, s))
  ELSE <<>>

\* Mutant: edges are taken from own elements only.
first_of_edge_own(p, e, edge) == is_own(p, e) /\ n_edge_sides(p, edge) >= 2 /\ edge.sides[1][1] = e

\* An edge is integrated with the element of its first side, which may be a ghost.
first_of_edge(p, e, edge) == n_edge_sides(p, edge) >= 2 /\ edge.sides[1][1] = e

edge_sides(p, e) ==
  IF "edge" \in active_integrals
  THEN SelectSeq([s \in 1..DaMesh.dim[e] + 1 |-> s],
                 LAMBDA s : ~ Contains(boundary_sides(p, e), s) /\ first_of_edge(p, e, edge_of(e, s)))
  ELSE <<>>

coupling_sides(p, e) ==
  IF "coupling" \in active_integrals
  THEN SelectSeq(neighb_sides(p, e), LAMBDA s : DaMesh.dim[e] = DaMesh.dim[s[1]] - 1)
  ELSE <<>>

integrals(p, e) ==
  [cell |-> e, bulk |-> is_own(p, e) /\ "bulk" \in active_integrals,
   boundary |-> boundary_sides(p, e), edge |-> edge_sides(p, e), coupling |-> coupling_sides(p, e)]

\* cell_accessor_from_element: elements touched have to be own or ghosts.
accessors_valid(p, e) ==
  \A s \in 1..DaMesh.dim[e] + 1 :
    LET edge == edge_of(e, s)
    IN  n_edge_sides(p, edge) >= 2 /\ "edge" \in active_integrals => 
          /\ is_local(p, edge.sides[1][1])
          /\ first_of_edge(p, e, edge) => \A x \in elements_of(edge) : is_local(p, x)

\* Elements in the order they are added to the cache, and the points marked: <<element, point>>
added(d) ==
  LET once == IF d.bulk THEN <<d.cell>> ELSE <<>>
      sides == FlattenSeq([s \in 1..DaMesh.dim[d.cell] + 1 |->
                 IF Contains(d.boundary, s) THEN <<d.cell>>
                 ELSE IF Contains(d.edge, s)
                 THEN [i \in DOMAIN edge_of(d.cell, s).sides |-> edge_of(d.cell, s).sides[i][1]] ELSE <<>>])
      pairs == FlattenSeq([i \in DOMAIN d.coupling |-> <<d.cell, d.coupling[i][1]>>])
  IN  once \o sides \o pairs

marked(d) ==
  LET on(e, name, side) == {e} \X points_of(DaMesh.dim[e], name, side)
  IN  (IF d.bulk THEN on(d.cell, "bulk", 1) ELSE {})
        \cup UNION {UNION {on(s[1], "edge", s[2]) : s \in Range(edge_of(d.cell, x).sides)} : x \in Range(d.edge)}
        \cup UNION {on(d.cell, "coupling_bulk", 1) \cup on(s[1], "coupling_side", s[2]) : s \in Range(d.coupling)}
        \cup UNION {on(d.cell, "boundary", x) : x \in Range(d.boundary)}

---------------------------------------------------------------------------
(* The element cache (fields/field_value_cache.cc). *)

\* add_to_region: elements without repetition; the assertion fails before the one too many.
distinct(s) == SelectSeq([i \in DOMAIN s |-> i], LAMBDA i : \A j \in 1..i - 1 : s[j] # s[i])
elements_added(s) == [i \in DOMAIN distinct(s) |-> s[distinct(s)[i]]]

cache_overflows(s) ==
  \E i \in DOMAIN s : Cardinality({s[j] : j \in 1..i - 1}) >= n_cached_elements

\* prepare_elements_to_update: elements sorted by the order of the map of regions
regions_of(elements) ==
  SetToSortSeq({DaMesh.region[e] : e \in Range(elements)},
               LAMBDA a, b : IF da_upwards THEN a < b ELSE a > b)

sorted_by_region(elements) ==
  LET regions == regions_of(elements)
  IN  FlattenSeq([i \in DOMAIN regions |-> SelectSeq(elements, LAMBDA e : DaMesh.region[e] = regions[i])])

\* create_elements_points_map: points are numbered by elements in the cache
numbered_before(elm_idx, points, pt) ==
  LET place(e) == SelectInSeq(elm_idx, LAMBDA x : x = e)
  IN  {x \in points : place(x[1]) < place(pt[1]) \/ (x[1] = pt[1] /\ x[2] < pt[2])}

\* region_value_cache_range_: numbers of points before the end of each region
update_cache(d) ==
  LET elements == elements_added(added(d))
      elm_idx == sorted_by_region(elements)
      regions == regions_of(elements)
      points == marked(d)
      upto(n) == {x \in points : \E i \in 1..n : DaMesh.region[x[1]] = regions[i]}
  IN  [elm_idx |-> elm_idx,
       points |-> [pt \in points |-> Cardinality(numbered_before(elm_idx, points, pt))],
       region_value_cache_range |-> [n \in 0..Len(regions) |-> Cardinality(upto(n))]]

no_cache == [elm_idx |-> <<>>, points |-> <<>>, region_value_cache_range |-> <<>>]

---------------------------------------------------------------------------
(* Terms added (mat_set_values, rhs_set_values). *)

volume_terms(p, d) == IF d.bulk THEN {<<"volume", d.cell>>} ELSE {}

boundary_terms(p, d) == {<<"boundary", d.cell, s>> : s \in Range(d.boundary)}

row_added(p, row) == is_own(p, row)

\* assemble_fluxes_element_element: pairs of sides of an edge, rows of own elements
edge_terms(p, d) ==
  UNION {LET sides == edge_of(d.cell, x).sides
         IN  {<<"edge", sides[i], sides[j], n, m>> :
                <<i, j, n, m>> \in {t \in (DOMAIN sides) \X (DOMAIN sides) \X da_elements \X da_elements :
                                      /\ t[1] < t[2]
                                      /\ {t[3], t[4]} \subseteq {sides[t[1]][1], sides[t[2]][1]}
                                      /\ row_added(p, t[3])}}
         : x \in Range(d.edge)}

\* assemble_fluxes_element_side
coupling_terms(p, d) ==
  UNION {{<<"coupling", d.cell, s, n>> : n \in {e \in {d.cell, s[1]} : row_added(p, e)}} : s \in Range(d.coupling)}

\* BdrConditionAssemblyDG: sides of own elements
condition_terms(p, d) ==
  IF d.bulk
  THEN {<<"condition", d.cell, s>> :
          s \in {x \in 1..DaMesh.dim[d.cell] + 1 :
                   n_edge_sides(p, edge_of(d.cell, x)) <= 1 /\ edge_of(d.cell, x).boundary}}
  ELSE {}

terms(p, d) ==
  IF da_kind = "bdr_cond" THEN condition_terms(p, d)
  ELSE volume_terms(p, d) \cup boundary_terms(p, d) \cup edge_terms(p, d) \cup coupling_terms(p, d)

---------------------------------------------------------------------------

DaInit ==
  /\ da_owner \in DaOwners
  /\ da_kind \in {"mass", "stiffness", "bdr_cond"}
  /\ da_upwards \in BOOLEAN
  /\ da_pos = [p \in DaRanks |-> 0]
  /\ da_data = [p \in DaRanks |-> <<>>]
  /\ da_cache = [p \in DaRanks |-> no_cache]
  /\ da_matrix = EmptyBag
  /\ da_failed = FALSE

\* One pass of the loop of GenericAssembly::assemble
DaCell(p) ==
  LET e == local_range(p)[da_pos[p] + 1]
      d == integrals(p, e)
  IN  /\ ~ da_failed /\ da_pos[p] < Len(local_range(p))
      /\ IF accessors_valid(p, e) /\ ~ cache_overflows(added(d))
         THEN /\ da_pos' = [da_pos EXCEPT ![p] = @ + 1]
              /\ da_data' = [da_data EXCEPT ![p] = d]
              /\ da_cache' = [da_cache EXCEPT ![p] = update_cache(d)]
              /\ da_matrix' = da_matrix (+) SetToBag(terms(p, d))
              /\ UNCHANGED da_failed
         ELSE /\ da_failed' = TRUE
              /\ UNCHANGED <<da_pos, da_data, da_cache, da_matrix>>
      /\ UNCHANGED <<da_owner, da_kind, da_upwards>>

da_finished == \A p \in DaRanks : da_pos[p] = Len(local_range(p))

DaAtEnd == (da_finished \/ da_failed) /\ UNCHANGED da_vars

DaNext == (\E p \in DaRanks : DaCell(p)) \/ DaAtEnd

DaSpec == DaInit /\ [][DaNext]_da_vars

---------------------------------------------------------------------------
(* Properties. *)

\* The terms of the whole mesh, from its geometry alone
all_terms ==
  LET sides == {<<e, s>> \in da_elements \X (1..4) : s <= DaMesh.dim[e] + 1}
      outer == {x \in sides : side_is_boundary(x[1], x[2])}
      fluxes == UNION {{<<"edge", t[1], t[2], n, m>> : n, m \in {t[1][1], t[2][1]}} :
                         t \in UNION {{<<edge.sides[i], edge.sides[j]>> :
                                         <<i, j>> \in {u \in (DOMAIN edge.sides) \X (DOMAIN edge.sides) : u[1] < u[2]}} :
                                        edge \in Range(DaMesh.edges)}}
      between == UNION {{<<"coupling", nb.lower, nb.side, n>> : n \in {nb.lower, nb.side[1]}} :
                          nb \in Range(DaMesh.neighbours)}
  IN  CASE da_kind = "bdr_cond" -> {<<"condition", x[1], x[2]>> : x \in outer}
        [] da_kind = "mass" -> {<<"volume", e>> : e \in da_elements}
        [] OTHER -> {<<"volume", e>> : e \in da_elements} \cup fluxes \cup between
                      \cup {<<"boundary", x[1], x[2]>> : x \in outer}

\* The points of one region lie together in the value cache, between the limits kept for it.
RegionsContiguous ==
  \A p \in DaRanks :
    LET c == da_cache[p]
        regions == regions_of(c.elm_idx)
    IN  c # no_cache =>
          \A pt \in DOMAIN c.points :
            LET n == SelectInSeq(regions, LAMBDA r : r = DaMesh.region[pt[1]])
            IN  /\ c.region_value_cache_range[n - 1] <= c.points[pt]
                /\ c.points[pt] < c.region_value_cache_range[n]

\* Whatever the partitioning, the ranks together add every term of the mesh once: an edge
\* whose first side is on another rank is not lost, and one seen by several ranks is not doubled
\* (GenericAssembly::assemble, is_side_own, own_element_id).  No rank makes an accessor for an
\* element it does not know on the way, and it finds the values of every point in the part of
\* the cache that was filled for its region.
TermsAddedOnce ==
  /\ ~ da_failed
  /\ RegionsContiguous
  /\ \A t \in BagToSet(da_matrix) : CopiesIn(t, da_matrix) = 1
  /\ da_matrix # EmptyBag => BagToSet(da_matrix) \subseteq all_terms
  /\ da_finished => BagToSet(da_matrix) = all_terms
=============================================================================
