---------------------------- MODULE MeshTopology ----------------------------
(***************************************************************************)
(* The topology of a mesh that was read (Mesh::setup_topology, mesh.cc):   *)
(* nodes used by no element are removed, sides are joined into edges, or   *)
(* into neighbours of elements of lower dimension, boundary elements are   *)
(* found or made, and nodes are duplicated where fractures separate        *)
(* elements (duplicate_nodes.cc).                                          *)
(*                                                                         *)
(* An element is the sequence of its nodes.  Elements, nodes, edges and    *)
(* boundaries are numbered from 1; 0 is an undefined index.                *)
(***************************************************************************)
EXTENDS Integers, Sequences, FiniteSets, SequencesExt

CONSTANT MtMeshes   \* [n_nodes, bulk, boundary]: nodes, elements and boundary elements of the file

undef_idx == 0

VARIABLES mt_mesh,         \* the file
          mt_pc,           \* "read", "boundary", "sides", "nodes", "done" or "failed"
          mt_at,           \* boundary element, side <<element, side>> or node done next
          element_vec,     \* elements, those of the bulk first
          node_ids,        \* node -> its number in the file
          edges,           \* sequence of edges, each a sequence of sides <<element, side>>
          edge_idx,        \* <<element, side>> -> edge
          boundary,        \* sequence of boundary objects [bc_ele_idx, edge_idx]
          boundary_idx,    \* <<element, side>> -> boundary object
          vb_neighbours,   \* sequence of [elem_idx, edge_idx]
          tree_nodes,      \* element -> its nodes after duplication
          n_duplicated_nodes

mt_vars == <<mt_mesh, mt_pc, mt_at, element_vec, node_ids, edges, edge_idx, boundary, boundary_idx,
             vb_neighbours, tree_nodes, n_duplicated_nodes>>

bulk == 1..Len(mt_mesh.bulk)
dim_of(e) == Len(element_vec[e]) - 1
sides_of(e) == 1..dim_of(e) + 1
all_sides == UNION {{e} \X sides_of(e) : e \in bulk}

\* Nodes of a side: all but one
side_nodes_in(nodes, s) == {nodes[i] : i \in DOMAIN nodes \ {Len(nodes) + 1 - s}}
side_nodes(e, s) == side_nodes_in(element_vec[e], s)

MtInit ==
  /\ mt_mesh \in MtMeshes
  /\ mt_pc = "read" /\ mt_at = <<>>
  /\ element_vec = mt_mesh.bulk \o mt_mesh.boundary
  /\ node_ids = [n \in 1..mt_mesh.n_nodes |-> n]
  /\ edges = <<>> /\ boundary = <<>> /\ vb_neighbours = <<>>
  /\ edge_idx = [x \in all_sides |-> undef_idx]
  /\ boundary_idx = [x \in all_sides |-> undef_idx]
  /\ tree_nodes = <<>> /\ n_duplicated_nodes = 0

---------------------------------------------------------------------------
(* check_mesh_on_read *)

\* The elements whose nodes are numbered anew
renumbered == bulk

MtCheck ==
  LET used == UNION {Range(element_vec[e]) : e \in bulk}
      kept == SetToSortSeq(used, <)
      new(n) == Cardinality({m \in used : m <= n})
  IN  /\ mt_pc = "read"
      /\ node_ids' = [i \in DOMAIN kept |-> node_ids[kept[i]]]
      /\ element_vec' = [e \in DOMAIN element_vec |->
                           IF e \in renumbered THEN [i \in DOMAIN element_vec[e] |-> new(element_vec[e][i])]
                           ELSE element_vec[e]]
      /\ mt_pc' = "boundary" /\ mt_at' = Len(mt_mesh.bulk) + 1
      /\ UNCHANGED <<mt_mesh, edges, edge_idx, boundary, boundary_idx, vb_neighbours,
                     tree_nodes, n_duplicated_nodes>>

---------------------------------------------------------------------------
(* make_neighbours_and_edges *)

\* intersect_element_lists and find_lower_dim_element: elements of the bulk on all the nodes
elements_on(nodes, dim) ==
  SelectSeq([e \in bulk |-> e], LAMBDA e : nodes \subseteq Range(element_vec[e]) /\ dim_of(e) = dim)

\* same_sides: the sides of an element on the nodes; the first is taken
first_side(e, nodes, free) ==
  LET found == {s \in sides_of(e) : (free => edge_idx[<<e, s>>] = undef_idx) /\ side_nodes(e, s) \subseteq nodes}
  IN  IF found = {} THEN undef_idx ELSE CHOOSE s \in found : \A t \in found : s <= t

sides_on(elements, nodes, free) ==
  SelectSeq([i \in DOMAIN elements |-> <<elements[i], first_side(elements[i], nodes, free)>>],
            LAMBDA x : x[2] # undef_idx)

set_edge(sides, n) == [x \in DOMAIN edge_idx |-> IF Contains(sides, x) THEN n ELSE edge_idx[x]]
set_boundary(sides, n) == [x \in DOMAIN boundary_idx |-> IF Contains(sides, x) THEN n ELSE boundary_idx[x]]

\* The loop over boundary elements of the file.  The list of a node behind the end of the table
\* is read from whatever memory is there: the run ends or nothing matches.
MtBoundary ==
  LET i == mt_at
      nodes == Range(element_vec[i])
      above == elements_on(nodes, dim_of(i) + 1)
      sides == sides_on(above, nodes, FALSE)
  IN  /\ mt_pc = "boundary" /\ i <= Len(mt_mesh.bulk) + Len(mt_mesh.boundary)
      /\ mt_at' = i + 1
      /\ IF ~ nodes \subseteq DOMAIN node_ids
         THEN mt_pc' \in {"failed", mt_pc} /\ UNCHANGED <<edges, edge_idx, boundary, boundary_idx>>
         ELSE IF
            \/ elements_on(nodes, dim_of(i)) # <<>>                          \* matches a regular element
            \/ \E k \in DOMAIN sides : edge_idx[sides[k]] # undef_idx        \* ExcDuplicateBoundary
         THEN mt_pc' = "failed" /\ UNCHANGED <<edges, edge_idx, boundary, boundary_idx>>
         ELSE IF above = <<>>                                                 \* lonely
         THEN UNCHANGED <<mt_pc, edges, edge_idx, boundary, boundary_idx>>
         ELSE /\ edges' = Append(edges, sides)
              /\ edge_idx' = set_edge(sides, Len(edges) + 1)
              /\ boundary' = Append(boundary, [bc_ele_idx |-> i, edge_idx |-> Len(edges) + 1])
              /\ boundary_idx' = set_boundary(sides, Len(boundary) + 1)
              /\ UNCHANGED mt_pc
      /\ UNCHANGED <<mt_mesh, element_vec, node_ids, vb_neighbours, tree_nodes,
                     n_duplicated_nodes>>

MtBulk ==
  /\ mt_pc = "boundary" /\ mt_at > Len(mt_mesh.bulk) + Len(mt_mesh.boundary)
  /\ mt_pc' = "sides" /\ mt_at' = <<1, 1>>
  /\ UNCHANGED <<mt_mesh, element_vec, node_ids, edges, edge_idx, boundary, boundary_idx, vb_neighbours,
                 tree_nodes, n_duplicated_nodes>>

side_after(e, s) == IF s < dim_of(e) + 1 THEN <<e, s + 1>> ELSE <<e + 1, 1>>

\* bdr_idx of an outer edge: one object is left empty before it.
bdr_idx == Len(boundary) + 2

\* An outer edge: a boundary object and its element are made.
outer_edge(e, s) ==
  /\ edges' = Append(edges, << <<e, s>> >>)
  /\ edge_idx' = set_edge(<< <<e, s>> >>, Len(edges) + 1)
  /\ boundary_idx' = set_boundary(<< <<e, s>> >>, bdr_idx)
  /\ boundary' = boundary \o <<[bc_ele_idx |-> undef_idx, edge_idx |-> undef_idx],
                               [bc_ele_idx |-> Len(element_vec) + 1, edge_idx |-> Len(edges) + 1]>>
  /\ element_vec' = Append(element_vec, SetToSortSeq(side_nodes(e, s), <))
  /\ UNCHANGED <<vb_neighbours, mt_pc>>

\* An edge between elements of the same dimension
inner_edge(sides, connected) ==
  /\ edges' = Append(edges, sides)
  /\ edge_idx' = set_edge(sides, Len(edges) + 1)
  /\ mt_pc' = IF Len(sides) = Len(connected) THEN mt_pc ELSE "failed"
  /\ UNCHANGED <<boundary, boundary_idx, element_vec, vb_neighbours>>

\* A neighbour and an edge for each side on the element of lower dimension
neighbours_of(sides, lower) ==
  LET n == Len(edges)
  IN  /\ edges' = edges \o [k \in DOMAIN sides |-> <<sides[k]>>]
      /\ edge_idx' = [x \in DOMAIN edge_idx |->
                        IF Contains(sides, x) THEN n + SelectInSeq(sides, LAMBDA y : y = x) ELSE edge_idx[x]]
      /\ vb_neighbours' = vb_neighbours \o [k \in DOMAIN sides |-> [elem_idx |-> lower, edge_idx |-> n + k]]
      /\ UNCHANGED <<boundary, boundary_idx, element_vec, mt_pc>>

\* Mutant: the elements found are taken whether there is one of lower dimension or not.
lower_on_none(nodes, dim) == <<>>

lower_on(nodes, dim) == elements_on(nodes, dim - 1)

\* The loop over sides of elements of the bulk
MtSide ==
  LET e == mt_at[1]  s == mt_at[2]
      nodes == side_nodes(e, s)
      connected == elements_on(nodes, dim_of(e))
      lower == lower_on(nodes, dim_of(e))
      sides == sides_on(connected, nodes, TRUE)
  IN  /\ mt_pc = "sides" /\ e \in bulk
      /\ mt_at' = side_after(e, s)
      /\ IF edge_idx[mt_at] # undef_idx
         THEN UNCHANGED <<edges, edge_idx, boundary, boundary_idx, element_vec, vb_neighbours, mt_pc>>
         ELSE IF Len(lower) > 1
         THEN /\ mt_pc' = "failed"
              /\ UNCHANGED <<edges, edge_idx, boundary, boundary_idx, element_vec, vb_neighbours>>
         ELSE IF Len(lower) = 1 THEN neighbours_of(sides, lower[1])
         ELSE IF Len(connected) = 1 THEN outer_edge(e, s) ELSE inner_edge(sides, connected)
      /\ UNCHANGED <<mt_mesh, node_ids, tree_nodes, n_duplicated_nodes>>

---------------------------------------------------------------------------
(* DuplicateNodes *)

\* init_nodes, init_from_edges, init_from_elements
MtObjects ==
  /\ mt_pc = "sides" /\ mt_at[1] \notin bulk
  /\ tree_nodes' = [e \in bulk |-> element_vec[e]]
  /\ n_duplicated_nodes' = Len(node_ids)
  /\ mt_pc' = "nodes" /\ mt_at' = 1
  /\ UNCHANGED <<mt_mesh, element_vec, node_ids, edges, edge_idx, boundary, boundary_idx, vb_neighbours>>

adjacent(a, b) == \E n \in DOMAIN edges : {a, b} \subseteq {edges[n][k][1] : k \in DOMAIN edges[n]}

\* Mutant: only elements next to the first one are joined with it.
component_next(e, elements) == {x \in elements : x = e \/ adjacent(e, x)}

\* Elements reached from e through edges without leaving the given ones
component(e, elements) ==
  LET reached[k \in 0..Cardinality(elements)] ==
        IF k = 0 THEN {e} ELSE {x \in elements : \E y \in reached[k - 1] : x = y \/ adjacent(x, y)}
  IN  reached[Cardinality(elements)]

\* The loop of duplicate_nodes: each component but the first gets a new node.
MtNode ==
  LET n == mt_at
      around == {e \in bulk : n \in Range(element_vec[e])}
      of(e) == component(e, around)
      first(e) == CHOOSE x \in of(e) : \A y \in of(e) : x <= y
      firsts == SetToSortSeq({first(e) : e \in around}, <)
      new(e) == LET k == SelectInSeq(firsts, LAMBDA x : x = first(e))
                IN  IF k = 1 THEN n ELSE n_duplicated_nodes + k - 1
  IN  /\ mt_pc = "nodes" /\ n <= Len(node_ids)
      /\ tree_nodes' = [e \in bulk |-> [i \in DOMAIN tree_nodes[e] |->
                          IF tree_nodes[e][i] = n THEN new(e) ELSE tree_nodes[e][i]]]
      /\ n_duplicated_nodes' = n_duplicated_nodes + Len(firsts) - 1
      /\ mt_at' = n + 1
      /\ mt_pc' = IF n = Len(node_ids) THEN "done" ELSE "nodes"
      /\ UNCHANGED <<mt_mesh, element_vec, node_ids, edges, edge_idx, boundary, boundary_idx, vb_neighbours>>

MtAtEnd == mt_pc \in {"done", "failed"} /\ UNCHANGED mt_vars

MtNext == MtCheck \/ MtBoundary \/ MtBulk \/ MtSide \/ MtObjects \/ MtNode \/ MtAtEnd

MtSpec == MtInit /\ [][MtNext]_mt_vars

---------------------------------------------------------------------------
(* Properties. *)

\* In the end two sides are of one edge just when they have the same nodes and no element of
\* lower dimension lies between them; then each has an edge and a neighbour of its own.
EdgesFromNodes ==
  mt_pc \in {"nodes", "done"} =>
    \A x, y \in all_sides :
      /\ edge_idx[x] # undef_idx /\ Contains(edges[edge_idx[x]], x)
      /\ x # y => ((edge_idx[x] = edge_idx[y]) <=>
           /\ side_nodes(x[1], x[2]) = side_nodes(y[1], y[2])
           /\ dim_of(x[1]) = dim_of(y[1])
           /\ ~ \E e \in bulk : Range(element_vec[e]) = side_nodes(x[1], x[2]))

\* A side alone on its edge has a boundary condition or a neighbour, never both; the boundary
\* element lies on the side.
EveryOuterSideClosed ==
  mt_pc \in {"nodes", "done"} =>
    \A x \in all_sides :
      LET has_neighbour == \E k \in DOMAIN vb_neighbours : vb_neighbours[k].edge_idx = edge_idx[x]
          has_boundary == boundary_idx[x] # undef_idx
      IN  /\ Len(edges[edge_idx[x]]) = 1 => has_neighbour # has_boundary
          /\ has_boundary => /\ boundary[boundary_idx[x]].edge_idx = edge_idx[x]
                             /\ Range(element_vec[boundary[boundary_idx[x]].bc_ele_idx]) = side_nodes(x[1], x[2])

\* "The nodes are then duplicated where the elements are separated by fractures": elements of an
\* edge keep their common nodes, elements of different dimensions share none.
DuplicatedAtFractures ==
  mt_pc = "done" =>
    \A a, b \in bulk :
      /\ dim_of(a) # dim_of(b) => Range(tree_nodes[a]) \cap Range(tree_nodes[b]) = {}
      /\ adjacent(a, b) => \A i \in DOMAIN element_vec[a], j \in DOMAIN element_vec[b] :
           element_vec[a][i] = element_vec[b][j] => tree_nodes[a][i] = tree_nodes[b][j]

\* "if some node erased, update node ids in elements": elements have the nodes of the file.
NodesAsRead ==
  mt_pc \notin {"read", "failed"} =>
    \A e \in 1..Len(mt_mesh.bulk) + Len(mt_mesh.boundary) :
      \A i \in DOMAIN element_vec[e] :
        /\ element_vec[e][i] \in DOMAIN node_ids
        /\ node_ids[element_vec[e][i]] = (mt_mesh.bulk \o mt_mesh.boundary)[e][i]

\* Sides are joined by their nodes alone and each is closed exactly once.
SidesJoinedAndClosed == EdgesFromNodes /\ EveryOuterSideClosed
=============================================================================
