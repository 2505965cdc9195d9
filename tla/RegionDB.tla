------------------------------ MODULE RegionDB ------------------------------
(***************************************************************************)
(* The database of regions of a mesh (mesh/region.cc) and the reading of a *)
(* mesh that fills it: physical names of the mesh file, then the records   *)
(* of the input that rename regions, declare new ones or form sets         *)
(* (mesh/region_set.cc), then the elements, then the assignment of         *)
(* elements listed in the input.  A region is known by its index: even for *)
(* a boundary region, odd for a bulk one.                                  *)
(***************************************************************************)
EXTENDS Integers, Sequences, SequencesExt, FiniteSets, FiniteSetsExt

CONSTANTS RgMeshes,      \* meshes: [names : Seq([id, dim, label]), elements : Seq([id, dim])]
          RgNames,       \* names that the records of the input give
          RgBoundary,    \* labels that begin with a dot
          RgIds, RgDims, \* ids and dimensions that occur in the input
          create_label_from_id(_),   \* "region_" followed by the id
          RgRecords      \* bound: number of records in the input

\* Elements have a dimension, and a mesh has elements; it may have no physical names.
ASSUME RegionInputsAssumption ==
  /\ \A m \in RgMeshes :
       /\ m.names \in Seq([id : Nat, dim : Nat, label : STRING])
       /\ m.elements \in Seq([id : Nat, dim : 0 .. 3]) /\ Len(m.elements) >= 1
  /\ RgNames \subseteq STRING /\ RgIds \subseteq Nat /\ RgDims \subseteq Nat

undefined_dim == 10
ImplicitId == 1000       \* Region::undefined-2
ImplicitLabel == ".IMPLICIT_BOUNDARY"
NoRegion == -1           \* Region::undefined, no index of a region

VARIABLES rg_mesh,        \* the mesh that is read
          rg_phase,       \* "names", "regions", "elements", "topology", "finish", "done" or "error"
          rg_read,        \* number of names, records or elements that are done in this phase
          region_table,   \* index -> [id, dim, label, used]
          max_id,
          sets,           \* name of set -> indices of its regions
          el_to_reg_map,  \* element -> id of the region the input gives it
          rg_element     \* element -> index of its region

rg_vars == <<rg_mesh, rg_phase, rg_read, region_table, max_id, sets, el_to_reg_map, rg_element>>

RgInit ==
  /\ rg_mesh \in RgMeshes /\ rg_read = 0
  /\ rg_phase \in IF rg_mesh.names = <<>> THEN {"regions", "elements"} ELSE {"names"}
  /\ region_table = <<>> /\ max_id = 0 /\ sets = <<>>
  /\ el_to_reg_map = <<>> /\ rg_element = <<>>

---------------------------------------------------------------------------
(* Operations of the database d = [table, max_id, sets, ok]; region is the index returned. *)

db == [table |-> region_table, max_id |-> max_id, sets |-> sets, ok |-> TRUE, region |-> NoRegion]

put(f, x, v) == [y \in DOMAIN f \cup {x} |-> IF y = x THEN v ELSE f[y]]
without(f, x) == [y \in DOMAIN f \ {x} |-> f[y]]

is_boundary(label) == label \in RgBoundary
is_boundary_index(i) == i % 2 = 0
throws(d) == [d EXCEPT !.ok = FALSE]
returns(d, i) == [d EXCEPT !.region = i]

with_dim_id(d, dim, id) == {i \in DOMAIN d.table : d.table[i].dim = dim /\ d.table[i].id = id}
with_id(d, id) == {i \in DOMAIN d.table : d.table[i].id = id}
with_label(d, label) == {i \in DOMAIN d.table : d.table[i].label = label}
the(S) == CHOOSE i \in S : TRUE

add_to_set(s, name, i) == put(s, name, IF name \in DOMAIN s THEN s[name] \cup {i} ELSE {i})

\* an existing set of that name is kept
add_set(s, name, regions) == IF name \in DOMAIN s THEN s ELSE put(s, name, regions)

kind_set(boundary) == IF boundary THEN ".BOUNDARY" ELSE "BULK"

insert_region(d, id, label, dim, boundary) ==
  LET same == {i \in DOMAIN d.table : is_boundary_index(i) = boundary}
      i == 2 * Cardinality(same) + (IF boundary THEN 0 ELSE 1)
      s == add_to_set(add_set(d.sets, label, {i}), "ALL", i)
  IN  [table |-> put(d.table, i, [id |-> id, dim |-> dim, label |-> label, used |-> FALSE]),
       max_id |-> Max({d.max_id, id}),
       sets |-> add_to_set(s, kind_set(boundary), i),
       ok |-> TRUE, region |-> i]

replace_region_dim(d, i, dim, boundary) ==
  LET r == [d EXCEPT !.table[i].dim = dim, !.table[i].used = FALSE, !.region = i]
  IN  IF is_boundary_index(i) = boundary THEN r ELSE throws(r)

find_by_dimid(d, i, label, boundary) ==
  IF d.table[i].label # label \/ is_boundary_index(i) # boundary THEN throws(d) ELSE returns(d, i)

add_region(d, id, label, dim) ==
  LET exact == with_dim_id(d, dim, id)
      undef == with_dim_id(d, undefined_dim, id)
      boundary == is_boundary(label)
  IN  CASE exact # {} -> find_by_dimid(d, the(exact), label, boundary)
        [] exact = {} /\ undef # {} -> replace_region_dim(d, the(undef), dim, boundary)
        [] exact = {} /\ undef = {} /\ with_label(d, label) # {} -> throws(d)
        [] OTHER -> insert_region(d, id, label, dim, boundary)

get_region(d, id, dim) ==
  LET exact == with_dim_id(d, dim, id)
      undef == with_dim_id(d, undefined_dim, id)
  IN  CASE exact # {} -> returns(d, the(exact))
        [] exact = {} /\ undef # {} ->
             replace_region_dim(d, the(undef), dim, is_boundary(d.table[the(undef)].label))
        [] OTHER -> d

\* Mutant: the set of the region keeps the old name.
renamed_sets_keep(s, old, new) == s

\* rename_region: the set is moved under the new name.
renamed_sets(s, old, new) == without(put(s, new, s[old]), old)

\* rename_region.  A region of the new label is taken for reg itself when its index equals the
\* id of reg.  Whether the region is a boundary one follows from its index, which stays.
rename_region(d, i, label) ==
  LET other == with_label(d, label)
  IN  IF other # {} THEN IF d.table[i].id = the(other) THEN returns(d, i) ELSE throws(d)
      ELSE [d EXCEPT !.table[i].label = label, !.table[i].used = FALSE,
                     !.sets = renamed_sets(@, d.table[i].label, label), !.region = i]

mark_used_region(d, i) == [d EXCEPT !.table[i].used = TRUE]

---------------------------------------------------------------------------

becomes_db(d) ==
  /\ region_table' = d.table /\ max_id' = d.max_id /\ sets' = d.sets

\* The phase that follows once n of the count items of this one are read, next otherwise; an
\* exception ends the reading.
moves_on(d, n, count, this, next) ==
  /\ rg_phase' = IF ~ d.ok THEN "error" ELSE IF n = count THEN next ELSE this
  /\ rg_read' = IF n = count THEN 0 ELSE n

\* read_physical_names, add_physical_name; the input may have no records of regions.
RgPhysicalName ==
  LET n == rg_read + 1
      p == rg_mesh.names[n]
      d == add_region(db, p.id, p.label, p.dim)
  IN  /\ rg_phase = "names"
      /\ becomes_db(d)
      /\ \E next \in {"regions", "elements"} : moves_on(d, n, Len(rg_mesh.names), "names", next)
      /\ UNCHANGED <<rg_mesh, el_to_reg_map, rg_element>>

\* A record of the input that changes the database to d; the list of records may end after it.
record_read(d) ==
  /\ rg_phase = "regions"
  /\ becomes_db(d)
  /\ \E count \in {rg_read + 1, RgRecords} : moves_on(d, rg_read + 1, count, "regions", "elements")
  /\ UNCHANGED <<rg_mesh, rg_element>>

\* "It has to be unique per single mesh": a name given twice is tried only for two regions,
\* where the code looks.
allowed_name(name) == name \in DOMAIN sets => with_label(db, name) # {}

get_max_region_id == max_id + 1

\* RegionSetFromId.  The exception of an ambiguous id is caught and goes no further.
RgFromId(name, id, dim) ==
  LET found == with_id(db, id)
  IN  /\ allowed_name(name)
      /\ record_read(IF Cardinality(found) = 1 THEN rename_region(db, the(found), name)
                     ELSE add_region(db, id, name, dim))
      /\ UNCHANGED el_to_reg_map

\* RegionSetFromLabel
RgFromLabel(name, mesh_label, allow_empty) ==
  LET found == with_label(db, mesh_label)
  IN  /\ allowed_name(name)
      /\ record_read(IF found # {} THEN rename_region(db, the(found), name)
                     ELSE IF allow_empty THEN add_region(db, get_max_region_id, name, 0)
                     ELSE db)
      /\ UNCHANGED el_to_reg_map

\* RegionSetFromElements, without an id for id = 0.  An element that is in the map stays there.
RgFromElements(name, id, list) ==
  LET region_id == IF id = 0 THEN get_max_region_id ELSE id
      d == add_region(db, region_id, name, undefined_dim)
  IN  /\ allowed_name(name)
      /\ record_read(d)
      /\ el_to_reg_map' = IF d.ok THEN [e \in DOMAIN el_to_reg_map \cup list |->
                                          IF e \in DOMAIN el_to_reg_map THEN el_to_reg_map[e] ELSE region_id]
                          ELSE el_to_reg_map

\* RegionSetUnion of a set and of the region of an id, which is created when there is none
RgUnion(name, set_name, id) ==
  LET found == with_id(db, id)
      d == IF found # {} THEN returns(db, the(found))
           ELSE add_region(db, id, create_label_from_id(id), undefined_dim)
      both == d.sets[set_name] \cup d.sets[d.table[d.region].label]
  IN  /\ allowed_name(name)
      /\ record_read(IF set_name \notin DOMAIN sets \/ Cardinality(found) > 1 THEN throws(db)
                     ELSE IF ~ d.ok THEN d
                     ELSE [d EXCEPT !.sets = add_set(@, name, both)])
      /\ UNCHANGED el_to_reg_map

\* RegionSetDifference and RegionSetIntersection of two sets
RgCombine(name, first, second, difference) ==
  LET result == IF difference THEN sets[first] \ sets[second] ELSE sets[first] \cap sets[second]
  IN  /\ allowed_name(name)
      /\ record_read(IF ~ {first, second} \subseteq DOMAIN sets THEN throws(db)
                     ELSE IF result = {} THEN throws(db)
                     ELSE [db EXCEPT !.sets = add_set(@, name, result)])
      /\ UNCHANGED el_to_reg_map

\* add_element
RgElement ==
  LET n == rg_read + 1
      e == rg_mesh.elements[n]
      g == get_region(db, e.id, e.dim)
      a == IF g.ok /\ g.region = NoRegion THEN add_region(g, e.id, create_label_from_id(e.id), e.dim) ELSE g
      d == IF a.ok THEN mark_used_region(a, a.region) ELSE a
  IN  /\ rg_phase = "elements"
      /\ becomes_db(d)
      /\ rg_element' = IF d.ok THEN put(rg_element, n, d.region) ELSE rg_element
      /\ moves_on(d, n, Len(rg_mesh.elements), "elements", "topology")
      /\ UNCHANGED <<rg_mesh, el_to_reg_map>>

\* setup_topology: outer sides, if there are any, get elements in the implicit boundary region.
RgTopology(outer) ==
  LET found == with_dim_id(db, undefined_dim, ImplicitId)
      d == IF found # {} THEN returns(db, the(found))
           ELSE insert_region(db, ImplicitId, ImplicitLabel, undefined_dim, TRUE)
  IN  /\ rg_phase = "topology"
      /\ becomes_db(IF outer THEN mark_used_region(d, d.region) ELSE db)
      /\ rg_phase' = "finish"
      /\ UNCHANGED <<rg_mesh, rg_read, el_to_reg_map, rg_element>>

\* modify_element_ids: what is done with the region of a listed element
modified(d, i) == mark_used_region(d, i)

\* check_and_finish, modify_element_ids for the next element of the map.  All elements of the
\* map must have the dimension of the first one.  An element without a region is fatal.
RgModify ==
  LET e == Min({x \in DOMAIN el_to_reg_map : x > rg_read})
      dim == rg_mesh.elements[e].dim
      g == get_region(db, el_to_reg_map[e], dim)
      d == IF g.ok /\ g.region # NoRegion THEN modified(g, g.region) ELSE throws(g)
      r == IF dim = rg_mesh.elements[Min(DOMAIN el_to_reg_map)].dim THEN d ELSE throws(db)
  IN  /\ rg_phase = "finish" /\ \E x \in DOMAIN el_to_reg_map : x > rg_read
      /\ becomes_db(r)
      /\ rg_element' = IF r.ok THEN put(rg_element, e, r.region) ELSE rg_element
      /\ rg_phase' = IF r.ok THEN "finish" ELSE "error"
      /\ rg_read' = e
      /\ UNCHANGED <<rg_mesh, el_to_reg_map>>

\* check_and_finish: the database is closed and checked.  The map, which nothing reads from now
\* on, is kept for the properties.
RgFinish ==
  /\ rg_phase = "finish" /\ \A x \in DOMAIN el_to_reg_map : x <= rg_read
  /\ rg_phase' = "done"
  /\ UNCHANGED <<rg_mesh, rg_read, region_table, max_id, sets, el_to_reg_map, rg_element>>

RgAtEnd == rg_phase \in {"done", "error"} /\ UNCHANGED rg_vars

RgNext ==
  \/ RgPhysicalName
  \/ \E name \in RgNames, id \in RgIds, dim \in RgDims \cup {undefined_dim} : RgFromId(name, id, dim)
  \/ \E name \in RgNames, label \in RgNames \cup {p.label : p \in Range(rg_mesh.names)}, allow_empty \in BOOLEAN :
       RgFromLabel(name, label, allow_empty)
  \/ \E name \in RgNames, id \in RgIds \cup {0}, list \in SUBSET (1..Len(rg_mesh.elements)) \ {{}} :
       RgFromElements(name, id, list)
  \/ \E name \in RgNames, set_name \in RgNames \cup {"BULK"}, id \in RgIds : RgUnion(name, set_name, id)
  \/ \E name \in RgNames, first \in {"ALL", "BULK"}, second \in RgNames \cup {".BOUNDARY"}, difference \in BOOLEAN :
       RgCombine(name, first, second, difference)
  \/ \E outer \in BOOLEAN : RgTopology(outer)
  \/ RgElement \/ RgModify \/ RgFinish \/ RgAtEnd

RgSpec == RgInit /\ [][RgNext]_rg_vars

---------------------------------------------------------------------------
(* Properties. *)

elements_read == DOMAIN rg_element
declared_id(e) == IF e \in DOMAIN el_to_reg_map THEN el_to_reg_map[e] ELSE rg_mesh.elements[e].id

\* However regions were added, renamed and put into sets, the name of a region stands for that
\* region alone where fields and sets are given by names, and the set ALL is all of them.
LabelNamesItsRegion ==
  \A i \in DOMAIN region_table :
    /\ region_table[i].label \in DOMAIN sets
    /\ sets[region_table[i].label] = {i}
    /\ i \in sets["ALL"]

\* When a mesh has been read without error, each element is in a region of its own dimension
\* and of the id it has in the mesh file or was given by the input.
ElementsAsDeclared ==
  rg_phase = "done" =>
    \A e \in elements_read :
      LET r == region_table[rg_element[e]]
      IN  r.dim = rg_mesh.elements[e].dim /\ r.id = declared_id(e)

\* check_regions warns of no region that has an element, though renaming a region and setting
\* its dimension forget the mark of its use.
RegionsOfElementsUsed ==
  rg_phase = "done" => \A e \in elements_read : region_table[rg_element[e]].used

\* Names, elements and marks of use tell the same regions, whatever the order of the records.
RegionsAsDeclared == LabelNamesItsRegion /\ ElementsAsDeclared /\ RegionsOfElementsUsed
=============================================================================
