----------------------------- MODULE FieldFiles -----------------------------
(***************************************************************************)
(* Values of fields from mesh data files (io/reader_cache.cc,              *)
(* io/msh_basereader.cc, io/msh_gmshreader.cc, fields/field_elementwise.cc)*)
(* One reader per file serves all fields that name the file.  It keeps the *)
(* last data read under every field name and gives them to whoever asks    *)
(* for the same time; fields hold on to the vectors they were given.       *)
(*                                                                         *)
(* A value is <<v>>, and <<>> where the file has none.                     *)
(***************************************************************************)
EXTENDS Integers, Sequences, FiniteSets, SequencesExt, FiniteSetsExt

CONSTANTS FfFiles,       \* file -> its sections [name, time, rows], in order; a row is <<id, value>>
          FfIds,         \* [bulk, boundary]: ids of the elements of the mesh, ascending
          FfFields,      \* field -> [file, name, boundary, coef, default, shift]
          FfTimes,       \* ends of time steps
          FfReads        \* bound: vectors read in all

VARIABLES ff_readers,    \* ReaderCache: opened file -> [table, ids, cache]
          ff_vectors,    \* vectors made so far; caches and fields refer to them by number
          ff_fields,     \* field -> [mesh, time, data] of its algorithm
          ff_failed      \* <<>>, or what was thrown and for whom

ff_vars == <<ff_readers, ff_vectors, ff_fields, ff_failed>>

with_entry(f, k, v) == [x \in DOMAIN f \cup {k} |-> IF x = k THEN v ELSE f[x]]

---------------------------------------------------------------------------
(* The reader of GMSH files. *)

\* make_header_table: sections by name; one that is not later than the last is left out.
make_header_table(sections) ==
  FoldLeft(LAMBDA t, s : IF s.name \notin DOMAIN t THEN with_entry(t, s.name, <<s>>)
                         ELSE IF s.time <= Last(t[s.name]).time THEN t
                         ELSE with_entry(t, s.name, Append(t[s.name], s)),
           <<>>, sections)

\* t * (1 + 2 eps) < a: the factor moves a negative t to the other side.
earlier(t, a) == t < a \/ (t < 0 /\ t = a)

\* find_header: the number of the header before the upper bound, 0 if there is none
find_header(headers, t) == Cardinality({i \in DOMAIN headers : ~ earlier(t, headers[i].time)})

\* read_element_data: rows and ids are walked through together; an id behind the last one ends it.
read_row(state, row, ids) ==
  LET found == SelectInSubSeq(ids, state.id, Len(ids), LAMBDA i : i >= row[1])
  IN  IF state.id > Len(ids) \/ found = 0 THEN [state EXCEPT !.id = Len(ids) + 1]
      ELSE [state EXCEPT !.id = found,
                         !.data = IF ids[found] = row[1] THEN [@ EXCEPT ![found] = <<row[2]>>] ELSE @]

read_element_data(rows, ids) ==
  FoldLeft(LAMBDA s, r : read_row(s, r, ids),
           [id |-> 1, data |-> [i \in DOMAIN ids |-> <<>>]], rows).data

---------------------------------------------------------------------------
(* The caches. *)

\* Mutant: data read for another time are taken for those of the header.
is_actual_name(c, header) == c.name = header.name

is_actual(c, header) == c.time = header.time /\ c.name = header.name

elements_of(reader, field) == IF field.boundary THEN reader.ids.boundary ELSE reader.ids.bulk

\* check_values and scale_data: only the one who read the data changes them.
check_values(vector, default) ==
  IF vector.state # "none" THEN vector
  ELSE [vector EXCEPT !.state = "check",
                      !.data = [i \in DOMAIN @ |-> IF @[i] = <<>> THEN default ELSE @[i]]]

scale_data(vector, coef) ==
  IF vector.state = "scale" THEN vector
  ELSE [vector EXCEPT !.state = "scale",
                      !.data = [i \in DOMAIN @ |-> IF @[i] = <<>> THEN <<>> ELSE <<@[i][1] * coef>>]]

not_a_number(vector, default) ==
  vector.state = "none" /\ default = <<>> /\ \E i \in DOMAIN vector.data : vector.data[i] = <<>>

\* get_element_data: the vector in the cache, or a new one
get_element_data(reader, field, header) ==
  IF field.name \in DOMAIN reader.cache /\ is_actual(reader.cache[field.name], header)
  THEN LET v == reader.cache[field.name].vector IN [number |-> v, vector |-> ff_vectors[v]]
  ELSE [number |-> Len(ff_vectors) + 1,
        vector |-> [state |-> "none", data |-> read_element_data(header.rows, elements_of(reader, field))]]

scale_and_check_limits(vector, field) == scale_data(check_values(vector, field.default), field.coef)

---------------------------------------------------------------------------
\* The reader of a file, made when the file is asked for the first time
get_reader(file) ==
  IF file \in DOMAIN ff_readers THEN ff_readers[file]
  ELSE [table |-> make_header_table(FfFiles[file]), ids |-> <<>>, cache |-> <<>>]

FfInit ==
  /\ ff_readers = <<>>
  /\ ff_vectors = <<>>
  /\ ff_fields = [f \in DOMAIN FfFields |-> [mesh |-> FALSE, time |-> -1, data |-> 0]]
  /\ ff_failed = <<>>

\* set_mesh of FieldElementwise: the reader gets the ids of the mesh.
FfSetMesh(f) ==
  LET file == FfFields[f].file
  IN  /\ ff_failed = <<>> /\ ~ ff_fields[f].mesh
      /\ ff_readers' = with_entry(ff_readers, file, [get_reader(file) EXCEPT !.ids = FfIds])
      /\ ff_fields' = [ff_fields EXCEPT ![f].mesh = TRUE]
      /\ UNCHANGED <<ff_vectors, ff_failed>>

read_time(f, t) == t + FfFields[f].shift

\* set_time of FieldElementwise and of FieldInterpolatedP0
FfSetTime(f, t) ==
  LET field == FfFields[f]
      reader == ff_readers[field.file]
      n == find_header(reader.table[field.name], read_time(f, t))
      header == reader.table[field.name][n]
      given == get_element_data(reader, field, header)
      v == given.number
  IN  /\ ff_failed = <<>> /\ ff_fields[f].mesh /\ t > ff_fields[f].time
      /\ IF field.name \notin DOMAIN reader.table \/ n = 0
         THEN ff_failed' = <<"not found", f, t>> /\ UNCHANGED <<ff_readers, ff_vectors, ff_fields>>
         ELSE /\ v <= FfReads
              /\ ff_readers' = [ff_readers EXCEPT ![field.file].cache =
                                  with_entry(@, field.name, [name |-> header.name, time |-> header.time, vector |-> v])]
              /\ ff_vectors' = [i \in 1..Max({v, Len(ff_vectors)}) |->
                                  IF i = v THEN scale_and_check_limits(given.vector, field)
                                  ELSE ff_vectors[i]]
              /\ ff_fields' = [ff_fields EXCEPT ![f].time = t, ![f].data = v]
              /\ ff_failed' = IF not_a_number(given.vector, field.default) THEN <<"undefined", f, t>> ELSE <<>>

FfAtEnd ==
  /\ \/ ff_failed # <<>>
     \/ Len(ff_vectors) = FfReads
     \/ \A f \in DOMAIN FfFields : \A t \in FfTimes : t <= ff_fields[f].time
  /\ UNCHANGED ff_vars

FfNext ==
  \/ \E f \in DOMAIN FfFields : FfSetMesh(f) \/ \E t \in FfTimes : FfSetTime(f, t)
  \/ FfAtEnd

---------------------------------------------------------------------------
(* Properties. *)

\* Sections of the field that are later than all before them
sections_in_order(f) ==
  LET s == FfFiles[FfFields[f].file]
  IN  {s[i] : i \in {i \in DOMAIN s : /\ s[i].name = FfFields[f].name
                                      /\ \A j \in 1..i - 1 : s[j].name = s[i].name => s[j].time < s[i].time}}

in_force(f, t) == {s \in sections_in_order(f) : s.time <= read_time(f, t)}

value_in(f, s, id) ==
  LET given == {r \in ToSet(s.rows) : r[1] = id}
  IN  IF given # {} THEN (CHOOSE r \in given : TRUE)[2]
      ELSE FfFields[f].default[1]

\* In spite of the shared reader, a field has for every element the value of the last section at or before
\* the end of its own step, in its own unit and with its default where the file has none: fields of
\* other names, of the same name at other times, and fields that ask again, change nothing in it,
\* also not in what was given out before.  The program stops only if the file has no
\* such section, or no value and the input no default.  (Fields that share a name in a file are to agree in
\* domain, unit and default.)
DataOfReadTime ==
  /\ \A f \in DOMAIN FfFields :
       LET now == ff_fields[f]
           ids == IF FfFields[f].boundary THEN FfIds.boundary ELSE FfIds.bulk
           last == CHOOSE s \in in_force(f, now.time) : \A x \in in_force(f, now.time) : x.time <= s.time
       IN  now.data # 0 /\ ff_failed = <<>> =>
             ff_vectors[now.data].data = [i \in DOMAIN ids |-> <<value_in(f, last, ids[i]) * FfFields[f].coef>>]
  /\ ff_failed # <<>> =>
       LET sections == in_force(ff_failed[2], ff_failed[3])
       IN  IF ff_failed[1] = "not found" THEN sections = {}
           ELSE FfFields[ff_failed[2]].default = <<>> /\ sections # {}
=============================================================================
