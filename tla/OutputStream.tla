---------------------------- MODULE OutputStream ----------------------------
(***************************************************************************)
(* One output stream shared by several EquationOutput objects              *)
(* (io/output_time.cc, io/observe.cc, io/element_data_cache.cc): solute    *)
(* transport and its reactions.  Fields put their values into caches of    *)
(* the ranks, write_time_frame() gathers them and writes one frame, or     *)
(* nothing if no field was due.  Values in observe points are kept in a    *)
(* table of max_observe_value_time times and written when it is full or    *)
(* together with a frame.                                                  *)
(*                                                                         *)
(* The value of a field at a time in an element, a corner of it or a point *)
(* is the tuple of these.  Indices of caches start from 0 as in the code.  *)
(***************************************************************************)
EXTENDS Integers, Sequences, FiniteSets, SequencesExt, FiniteSetsExt

CONSTANTS OsRanks,        \* 0..n_proc - 1
          OsLayouts,      \* meshes: sequences of [rank, nodes] of elements, of ranks of points
          OsEquations,    \* what the equations output: pairs of lists of [name, space, observed]
          OsDue,          \* sets of names of fields that are due at a time
          OsEnd,          \* bound: the last time
          max_observe_value_time

VARIABLES os_layout,      \* [elements, points]
          os_equations,   \* transport and reactions
          os_parallel,    \* parallel_: every rank writes its own part
          os_now, os_due, \* time of the step and the fields to be written at it
          os_calls,       \* calls of EquationOutput::output left in this step
          os_pc,          \* "output", "next" or "closed"
          os_stream,      \* OutputTime: mesh, time, write_time, current_step, data, frames of the file
          os_observe,     \* Observe: times, time_idx, values, rows of the file
          os_failed,      \* an assertion
          os_asked        \* history: per time the fields that were due

os_vars == <<os_layout, os_equations, os_parallel, os_now, os_due, os_calls, os_pc, os_stream, os_observe, os_failed, os_asked>>

os_fields == UNION {ToSet(os_equations[e]) : e \in DOMAIN os_equations}
os_names(S) == {f.name : f \in S}

nan == <<"nan">>
not_a_time == -2

---------------------------------------------------------------------------
(* ElementDataCache: values by ranks. *)

\* Global indices of the parts of a rank, in ascending order: el_4_loc and point_4_loc
loc_to_global(ranks, p) == SetToSortSeq({i \in 0..Len(ranks) - 1 : ranks[i + 1] = p}, <)

\* ElementDataCache::gather: rank p sends its first Len(l2g[p]) values, whatever more it has.
gather(l2g, local) ==
  LET size == FoldSet(LAMBDA p, n : n + Len(l2g[p]), 0, OsRanks)
      sent(g) == {<<p, i>> \in OsRanks \X (1..size) : i <= Len(l2g[p]) /\ l2g[p][i] = g}
  IN  [g \in 0..size - 1 |->
         IF sent(g) = {} THEN nan ELSE LET s == CHOOSE s \in sent(g) : TRUE IN local[s[1]][s[2] - 1]]

\* Numbers of nodes of elements added up
offsets(n_nodes) == [i \in 0..Len(n_nodes) |-> FoldLeft(LAMBDA a, b : a + b, 0, SubSeq(n_nodes, 1, i))]

\* The element of a corner
element_of(off, c) == CHOOSE i \in 0..Cardinality(DOMAIN off) - 2 : off[i] <= c /\ c < off[i + 1]

\* element_node_cache_fixed_size: four places per element
element_node_cache_fixed_size(corners, off) ==
  [i \in 0..Cardinality(DOMAIN off) - 2 |->
     [k \in 1..4 |-> IF k <= off[i + 1] - off[i] THEN corners[off[i] + k - 1] ELSE nan]]

\* element_node_cache_optimize_size: the used places in a row
element_node_cache_optimize_size(fixed, off) ==
  [c \in 0..off[Cardinality(DOMAIN off) - 1] - 1 |->
     fixed[element_of(off, c)][c - off[element_of(off, c)] + 1]]

\* compute_node_data: the mean, as what is added and how often
compute_node_data(corners, conn) ==
  [n \in {conn[c] : c \in DOMAIN conn} |->
     [sum |-> {corners[c] : c \in {c \in DOMAIN conn : conn[c] = n}},
      count |-> Cardinality({c \in DOMAIN conn : conn[c] = n})]]

---------------------------------------------------------------------------
(* The output mesh: elements of a rank, and the serial mesh of rank 0. *)

ranks_of(elements) == [i \in DOMAIN elements |-> elements[i].rank]
el_4_loc == [p \in OsRanks |-> loc_to_global(ranks_of(os_layout.elements), p)]
nodes_of(e) == os_layout.elements[e + 1].nodes
local_offsets(p) == offsets([i \in DOMAIN el_4_loc[p] |-> Len(nodes_of(el_4_loc[p][i]))])
row(s) == [i \in 0..Len(s) - 1 |-> s[i + 1]]
local_connectivity(p) == row(FlattenSeq([i \in DOMAIN el_4_loc[p] |-> nodes_of(el_4_loc[p][i])]))

\* EquationOutput::make_output_mesh: the equation that comes first decides if elements share
\* nodes ("orig") or have corners of their own ("discont").
make_output_mesh(s, fields) ==
  [s EXCEPT !.mesh = IF @ # "none" THEN @
                     ELSE IF \E i \in DOMAIN fields : fields[i].space = "corner" THEN "discont" ELSE "orig"]

\* make_serial_master_mesh: offsets and connectivity, gathered as data are
master_offsets ==
  LET n_nodes == gather(el_4_loc, [p \in OsRanks |->
                   row([i \in DOMAIN el_4_loc[p] |-> Len(nodes_of(el_4_loc[p][i]))])])
  IN  offsets([i \in 1..Cardinality(DOMAIN n_nodes) |-> n_nodes[i - 1]])

orig_connectivity ==
  element_node_cache_optimize_size(
    gather(el_4_loc, [p \in OsRanks |-> element_node_cache_fixed_size(local_connectivity(p), local_offsets(p))]),
    master_offsets)

master_connectivity(mesh) ==
  IF mesh = "orig" THEN orig_connectivity
  ELSE [c \in 0..master_offsets[Len(os_layout.elements)] - 1 |-> c]

---------------------------------------------------------------------------
(* OutputTime *)

dummy(space) == [dummy |-> TRUE, space |-> space, local |-> <<>>]

\* fill_data_cache: what rank p computes, one value per element or per corner
local_values(f, p) ==
  CASE f.space = "elem" -> row([i \in DOMAIN el_4_loc[p] |-> <<f.name, os_now, el_4_loc[p][i]>>])
    [] OTHER -> LET corners(e) == [k \in 1..Len(nodes_of(e)) |-> <<f.name, os_now, e, k>>]
                IN  row(FlattenSeq([i \in DOMAIN el_4_loc[p] |-> corners(el_4_loc[p][i])]))

\* Field::field_output and OutputTime::prepare_compute_data: a field not known yet is only
\* accepted before the first frame.
field_output(s, f) ==
  [s EXCEPT !.data = [n \in DOMAIN @ \cup {f.name} |->
                        IF n = f.name
                        THEN [dummy |-> FALSE, space |-> f.space,
                              local |-> [p \in OsRanks |-> local_values(f, p)]]
                        ELSE @[n]],
            !.time = IF @ < os_now THEN os_now ELSE @]

known(s, f) == s.current_step = 0 \/ f.name \in DOMAIN s.data

\* gather_output_data for one field: by rank what that rank writes
gathered_data(mesh, d) ==
  IF d.dummy THEN <<>>
  ELSE IF os_parallel
  THEN [p \in OsRanks |-> IF d.space = "node" THEN compute_node_data(d.local[p], local_connectivity(p))
                          ELSE d.local[p]]
  ELSE [p \in {0} |->
          IF d.space = "elem" THEN gather(el_4_loc, d.local)
          ELSE LET fixed == [q \in OsRanks |-> element_node_cache_fixed_size(d.local[q], local_offsets(q))]
                   corners == element_node_cache_optimize_size(gather(el_4_loc, fixed), master_offsets)
               IN  IF d.space = "node" THEN compute_node_data(corners, master_connectivity(mesh)) ELSE corners]

\* write_data of the formats: one data set per time, named by the step
write_data(s) ==
  [s EXCEPT !.frames = Append(@, [step |-> s.current_step, time |-> s.time,
                                  data |-> [n \in DOMAIN s.data |-> gathered_data(s.mesh, s.data[n])]])]

clear_data(s) == [s EXCEPT !.data = [n \in DOMAIN @ |-> dummy(@[n].space)]]

\* The part of write_time_frame after the observe points
write_frame(s) ==
  clear_data(IF s.write_time < s.time
             THEN [write_data(s) EXCEPT !.write_time = s.time, !.current_step = @ + 1]
             ELSE s)

---------------------------------------------------------------------------
(* Observe *)

n_points == Len(os_layout.points)
point_4_loc == [p \in OsRanks |-> loc_to_global(os_layout.points, p)]
n_local(p) == Len(point_4_loc[p])

empty_values(n) == [i \in 0..n - 1 |-> nan]

\* Observe::prepare_compute_data: the time of the row and the cache of the field
prepare_compute_data(o, f) ==
  [o EXCEPT !.times = IF Last(@) = not_a_time THEN Append(Front(@), os_now) ELSE @,
            !.values = IF f.name \in DOMAIN @ THEN @
                       ELSE [n \in DOMAIN @ \cup {f.name} |->
                               IF n = f.name
                               THEN [p \in OsRanks |-> empty_values(max_observe_value_time * n_local(p))]
                               ELSE @[n]]]

\* Mutant: the place is counted with all points and not with those of the rank.
loc_point_time_index_all(o, p, loc) == n_points * o.time_idx + loc

loc_point_time_index(o, p, loc) == n_local(p) * o.time_idx + loc

\* Field::observe_output
observe_output(o, f) ==
  IF n_points = 0 THEN o
  ELSE LET ready == prepare_compute_data(o, f)
           stored(p, i) == {loc \in 0..n_local(p) - 1 : loc_point_time_index(o, p, loc) = i}
       IN  [ready EXCEPT !.values[f.name] = [p \in OsRanks |->
              [i \in DOMAIN @[p] |->
                 IF stored(p, i) = {} THEN @[p][i]
                 ELSE <<f.name, os_now, point_4_loc[p][1 + CHOOSE loc \in stored(p, i) : TRUE]>>]]]

\* The row is already one of another time.
other_time(o) == n_points > 0 /\ Last(o.times) \notin {not_a_time, os_now}

\* Observe::flush_values: rank 0 goes on with the gathered cache, the others with their own.
flush_values(o) ==
  LET l2g == [p \in OsRanks |->
                FlattenSeq([t \in 1..max_observe_value_time |->
                  [j \in DOMAIN point_4_loc[p] |-> (t - 1) * n_points + point_4_loc[p][j]]])]
      serial == [n \in DOMAIN o.values |-> gather(l2g, o.values[n])]
      line(t) == [time |-> o.times[t + 1],
                  values |-> [n \in DOMAIN serial |-> [i \in 1..n_points |-> serial[n][t * n_points + i - 1]]]]
  IN  [o EXCEPT !.values = [n \in DOMAIN @ |-> [@[n] EXCEPT ![0] = serial[n]]],
                !.rows = @ \o [t \in 1..o.time_idx |-> line(t - 1)],
                !.times = <<not_a_time>>,
                !.time_idx = 0]

\* Observe::output_time_frame
output_time_frame(o, flush) ==
  LET next == [o EXCEPT !.time_idx = @ + 1]
  IN  IF n_points = 0 \/ Last(o.times) = not_a_time THEN o
      ELSE IF next.time_idx = max_observe_value_time \/ flush THEN flush_values(next)
      ELSE [next EXCEPT !.times = Append(@, not_a_time)]

\* A row without values after others have been stored
row_missing(o) == n_points > 0 /\ Last(o.times) = not_a_time /\ o.values # <<>>

---------------------------------------------------------------------------
(* The equations. *)

\* zero_time_step of operator splitting: the reactions are output by their own
\* zero_time_step and once more.  Every field is due at the initial time.
OsInit ==
  /\ os_now = 0 /\ os_due = os_names(os_fields) /\ os_calls = <<1, 2, 2>> /\ os_pc = "output"
  /\ os_stream = [mesh |-> "none", time |-> -1, write_time |-> -1, current_step |-> 0, data |-> <<>>, frames |-> <<>>]
  /\ os_observe = [times |-> <<not_a_time>>, time_idx |-> 0, values |-> <<>>, rows |-> <<>>]
  /\ os_failed = FALSE
  /\ os_asked = <<os_due>>

\* EquationOutput::output
OsOutput ==
  LET fields == os_equations[Head(os_calls)]
      due == SelectSeq(fields, LAMBDA f : f.name \in os_due)
      observed == SelectSeq(fields, LAMBDA f : f.observed)
  IN  /\ os_pc = "output" /\ os_calls # <<>> /\ ~ os_failed
      /\ os_stream' = FoldLeft(field_output, make_output_mesh(os_stream, fields), due)
      /\ os_observe' = FoldLeft(observe_output, os_observe, observed)
      /\ os_failed' = \/ \E i \in DOMAIN due : ~ known(os_stream, due[i])
                      \/ observed # <<>> /\ other_time(os_observe)
      /\ os_calls' = Tail(os_calls)
      /\ UNCHANGED <<os_layout, os_equations, os_parallel, os_now, os_due, os_pc, os_asked>>

\* OutputTime::write_time_frame
OsWriteTimeFrame ==
  /\ os_pc = "output" /\ os_calls = <<>> /\ ~ os_failed
  /\ os_observe' = output_time_frame(os_observe, os_stream.write_time < os_stream.time)
  /\ os_stream' = write_frame(os_stream)
  /\ os_failed' = row_missing(os_observe)
  /\ os_pc' = "next"
  /\ UNCHANGED <<os_layout, os_equations, os_parallel, os_now, os_due, os_calls, os_asked>>

\* The next step: output_data of transport and of reactions, whatever fields are due
OsNextTime ==
  /\ os_pc = "next" /\ os_now < OsEnd /\ ~ os_failed
  /\ os_now' = os_now + 1
  /\ os_due' \in OsDue
  /\ os_asked' = Append(os_asked, os_due')
  /\ os_calls' = <<1, 2>>
  /\ os_pc' = "output"
  /\ UNCHANGED <<os_layout, os_equations, os_parallel, os_stream, os_observe, os_failed>>

\* ~Observe after the last step
OsClose ==
  /\ os_pc = "next" /\ os_now = OsEnd /\ ~ os_failed
  /\ os_observe' = IF n_points > 0 /\ os_observe.values # <<>> THEN flush_values(os_observe) ELSE os_observe
  /\ os_pc' = "closed"
  /\ UNCHANGED <<os_layout, os_equations, os_parallel, os_now, os_due, os_calls, os_stream, os_failed, os_asked>>

OsAtEnd == os_pc = "closed" /\ UNCHANGED os_vars

OsNext == OsOutput \/ OsWriteTimeFrame \/ OsNextTime \/ OsClose \/ OsAtEnd

---------------------------------------------------------------------------
(* Properties. *)

\* What a file is to hold for a field: the value of every element or corner, and in a point
\* the mean over all the corners in it, in the numbering of the whole mesh.
all_elements == 0..Len(os_layout.elements) - 1
whole(f, t) ==
  LET all == offsets([i \in DOMAIN os_layout.elements |-> Len(os_layout.elements[i].nodes)])
      at(n) == {<<e, k>> \in all_elements \X (1..4) : k <= Len(nodes_of(e)) /\ nodes_of(e)[k] = n}
  IN  CASE f.space = "elem" -> [e \in all_elements |-> <<f.name, t, e>>]
        [] f.space = "corner" -> [c \in 0..all[Len(os_layout.elements)] - 1 |->
                                    <<f.name, t, element_of(all, c), c - all[element_of(all, c)] + 1>>]
        [] os_stream.mesh = "discont" ->
             [c \in 0..all[Len(os_layout.elements)] - 1 |->
                [sum |-> {<<f.name, t, element_of(all, c), c - all[element_of(all, c)] + 1>>}, count |-> 1]]
        [] OTHER -> [n \in UNION {ToSet(nodes_of(e)) : e \in all_elements} |->
                       [sum |-> {<<f.name, t, a[1], a[2]>> : a \in at(n)}, count |-> Cardinality(at(n))]]

\* The points of the part of the mesh that rank p writes: data in points need a value for each.
mesh_points(p) ==
  LET conn == IF os_parallel THEN local_connectivity(p) ELSE orig_connectivity
  IN  IF os_stream.mesh = "orig" THEN Range(conn) ELSE DOMAIN conn

\* Averages in the numbering of shared nodes do not fit points that are not shared
\* (gather_output_data of parallel streams).
misfit(f) == os_parallel /\ os_stream.mesh = "discont" /\ f.space = "node"

\* In a frame a field that was due has its values of that time, and the others are empty.
frame_right(fr) ==
  \A f \in os_fields :
    LET written == fr.data[f.name]
    IN  IF f.name \notin os_asked[fr.time + 1] THEN written = <<>>
        ELSE /\ DOMAIN written = (IF os_parallel THEN OsRanks ELSE {0})
             /\ \A p \in DOMAIN written : f.space # "elem" /\ ~ misfit(f) => DOMAIN written[p] = mesh_points(p)
             /\ ~ os_parallel => written[0] = whole(f, fr.time)
             /\ os_parallel /\ f.space # "node" =>
                  UNION {Range(written[p]) : p \in OsRanks} = Range(whole(f, fr.time))

\* A stream shared by transport and reactions writes one frame per time at which any field
\* is due, with ascending numbers, and in it exactly the fields that are due with the values of
\* this time in the numbering of the mesh, one for each of its points or elements: caches that are refilled, cleared and gathered
\* by write_time_frame() neither keep an older value nor mix up elements of ranks.
FramesComplete ==
  /\ ~ os_failed
  /\ os_pc = "next" =>
       /\ \A i \in DOMAIN os_stream.frames :
            os_stream.frames[i].step = i - 1 /\ frame_right(os_stream.frames[i])
       /\ [i \in DOMAIN os_stream.frames |-> os_stream.frames[i].time]
            = SelectSeq([t \in 1..os_now + 1 |-> t - 1], LAMBDA t : os_asked[t + 1] # {})

\* The observe file has a row for every step in order, with the values of that step in every
\* point in the order of the input, no matter on which rank the point lies, how often the table
\* was flushed and that rank 0 goes on with the gathered cache; nothing is left at the end.
ObserveComplete ==
  /\ \A i \in DOMAIN os_observe.rows :
       LET r == os_observe.rows[i]
       IN  /\ r.time = i - 1
           /\ r.values = [n \in os_names({f \in os_fields : f.observed}) |->
                            [k \in 1..n_points |-> <<n, i - 1, k - 1>>]]
  /\ os_pc = "closed" /\ n_points > 0 => Len(os_observe.rows) = OsEnd + 1

\* What a stream shared by equations writes is complete and right, in frames and in observe points.
StreamComplete == FramesComplete /\ ObserveComplete
=============================================================================
