---------------------------- MODULE InputReader ----------------------------
(***************************************************************************)
(* Reading of an input file into the tree of storages by the tree of types *)
(* (input/reader_internal*.cc, input/path_json.cc, input/path_yaml.cc):    *)
(* references, included files, tables, and the automatic conversions.      *)
(* Where an array is expected and something else found, arrays that stand  *)
(* in place of scalars are transposed.                                     *)
(*                                                                         *)
(* Nodes of the input are records by kind: [int], [real], [bool], [str],   *)
(* [null], [seq], [map], [ref] (an address), [col] (a string that is the   *)
(* placeholder of a column), with an optional tag: <<name>>, <<"include">>,*)
(* <<"include", name>>, <<"include_csv">> or <<"include_csv", name>>.      *)
(* Storages are [int], [double], [bool], [str], [null] and [arr].          *)
(***************************************************************************)
EXTENDS Integers, Sequences, FiniteSets, SequencesExt, FiniteSetsExt

CONSTANTS InTypes,     \* name -> type that is the root of the tree of types
          InFiles,     \* name -> included file: [format, root], or [rows] of a table
          InCases      \* what is read: [type, format, root]

VARIABLES in_case,    \* what has been read, <<>> at first
          in_result   \* <<>>, then <<the storage>>, or <<error>>

in_vars == <<in_case, in_result>>

is(n, kind) == kind \in DOMAIN n
Null == [null |-> TRUE]
Error == [error |-> TRUE]

---------------------------------------------------------------------------
(* PathBase: the nodes from the root to the actual one, and the references *)
(* followed on the way.                                                    *)

root_path(format, root) == [format |-> format, root |-> root, path |-> <<>>, seen |-> {}, found |-> TRUE]

head(p) == FoldLeft(LAMBDA n, s : IF is(n, "seq") THEN n.seq[s.index + 1] ELSE n.map[s.key], p.root, p.path)

down_key(p, key, index) == [p EXCEPT !.path = Append(@, [index |-> index, key |-> key])]
down_index(p, index) == [p EXCEPT !.path = Append(@, [index |-> index, key |-> ""])]
has_key(n, key) == is(n, "map") /\ key \in DOMAIN n.map

\* find_ref_node: an address is followed step by step, from the root or from the reference itself.
follow(p, s) ==
  LET n == head(p)
      lost == [p EXCEPT !.found = FALSE]
  IN  IF ~ p.found THEN p
      ELSE IF is(s, "up") THEN (IF p.path = <<>> THEN lost ELSE [p EXCEPT !.path = Front(@)])
      ELSE IF is(s, "index") THEN (IF is(n, "seq") /\ s.index < Len(n.seq) THEN down_index(p, s.index) ELSE lost)
      ELSE IF has_key(n, s.key) THEN down_key(p, s.key, -1)
      ELSE lost

find_ref_node(p) ==
  LET a == head(p).ref
  IN  FoldLeft(follow,
               [p EXCEPT !.seen = @ \cup {a}, !.path = IF a.absolute THEN <<>> ELSE @, !.found = a \notin p.seen],
               a.steps)

\* The key TYPE in JSON, the tag in YAML
get_record_tag(p) ==
  LET n == head(p)
      t == down_key(p, "TYPE", -1)
  IN  IF p.format = "YAML" THEN (IF is(n, "tag") THEN n.tag ELSE <<>>)
      ELSE IF ~ has_key(n, "TYPE") THEN <<>>
      ELSE IF is(head(t), "ref") THEN head(find_ref_node(t)).str
      ELSE head(t).str

is_effectively_null(p) == p.format = "YAML" /\ (is(head(p), "null") \/ (is(head(p), "str") /\ head(p).str = ""))

\* get_int_value and the others: <<the value>>, or <<>> if there is none of that kind.  In YAML
\* every scalar is a string as well.
get_value(format, n, kind) ==
  CASE kind = "int" -> IF is(n, "int") THEN <<n.int>> ELSE <<>>
    [] kind = "double" -> IF is(n, "int") THEN <<n.int>> ELSE IF is(n, "real") THEN <<n.real>> ELSE <<>>
    [] kind = "bool" -> IF is(n, "bool") THEN <<n.bool>> ELSE <<>>
    [] OTHER -> IF is(n, "str") THEN <<n.str>>
                ELSE IF is(n, "col") THEN <<"$">>
                ELSE IF format = "YAML" /\ is(n, "int") THEN <<ToString(n.int)>>
                ELSE IF format = "YAML" /\ is(n, "real") THEN <<ToString(n.real)>>
                ELSE IF format = "YAML" /\ is(n, "bool") THEN <<ToString(n.bool)>>
                ELSE <<>>

---------------------------------------------------------------------------
(* The readers: "plain", "transpose" with the index of the item that is    *)
(* made, "csv" with the depth of the format.  Each gives the storage and   *)
(* what it has found on the way: sizes of transposed arrays, columns.      *)

plain == [mode |-> "plain", index |-> 0, depth |-> 0]
transpose(i) == [mode |-> "transpose", index |-> i, depth |-> 0]
csv(depth) == [mode |-> "csv", index |-> 0, depth |-> depth]

only(storage) == [storage |-> storage, found |-> <<>>]
fail == only(Error)
good(out) == out.storage # Error

\* An array of storages; what fails in one item fails in all.
join(outs) ==
  IF \E i \in DOMAIN outs : ~ good(outs[i]) THEN fail
  ELSE [storage |-> [arr |-> [i \in DOMAIN outs |-> outs[i].storage]],
        found |-> FlattenSeq([i \in DOMAIN outs |-> outs[i].found])]

match_size(type, n) == type.lower <= n /\ n <= type.upper

RECURSIVE make_storage(_, _, _)

make_storage_from_default(node, type) == make_storage(plain, root_path("JSON", node), type)

\* A key that is not on input
key_not_on_input(k) ==
  IF is(k.default, "obligatory") THEN fail
  ELSE IF is(k.default, "value") THEN make_storage_from_default(k.default.value, k.type)
  ELSE only(Null)

\* A key on input: the default value replaces a null.
key_on_input(r, p, k) ==
  LET out == make_storage(r, p, k.type)
  IN  IF out.storage = Null /\ is(k.default, "value")
      THEN [out EXCEPT !.storage = make_storage_from_default(k.default.value, k.type).storage]
      ELSE out

make_include_storage(p, type) ==
  LET n == head(p)
      name == IF has_key(n, "file") THEN n.map["file"].str ELSE n.str
      file == InFiles[name]
  IN  IF is(n, "map") /\ ~ has_key(n, "file") THEN fail
      ELSE make_storage(plain, root_path(file.format, file.root), type)

\* One key from the input, the others from their defaults
record_automatic_conversion(r, p, type) ==
  IF type.auto = "" THEN fail
  ELSE join([i \in DOMAIN type.keys |->
               IF type.keys[i].key = type.auto THEN make_storage(r, p, type.keys[i].type)
               ELSE key_not_on_input(type.keys[i])])

make_record(r, p, type) ==
  LET tag == get_record_tag(p)
      present(k) == ~ is_effectively_null(p) /\ has_key(head(p), k.key)
  IN  CASE tag = <<"include">> -> make_include_storage(p, type)
        [] tag \notin {<<>>, <<"include">>, <<type.name>>} -> fail
        [] OTHER ->
             IF is(head(p), "map") \/ is_effectively_null(p)
             THEN join([i \in DOMAIN type.keys |->
                          IF present(type.keys[i])
                          THEN key_on_input(r, down_key(p, type.keys[i].key, i - 1), type.keys[i])
                          ELSE key_not_on_input(type.keys[i])])
             ELSE record_automatic_conversion(r, p, type)

make_tuple(r, p, type) ==
  IF is(head(p), "seq")
  THEN join([i \in DOMAIN type.keys |->
               IF i <= Len(head(p).seq) THEN key_on_input(r, down_index(p, i - 1), type.keys[i])
               ELSE key_not_on_input(type.keys[i])])
  ELSE make_record(r, p, type)

make_abstract(r, p, type) ==
  LET tag == get_record_tag(p)
  IN  CASE tag = <<>> -> IF type.default = "" THEN fail ELSE make_record(r, p, type.children[type.default])
        [] Len(tag) = 2 /\ tag[1] = "include" ->
             IF tag[2] \in DOMAIN type.children THEN make_include_storage(p, type.children[tag[2]]) ELSE fail
        [] OTHER -> IF Len(tag) = 1 /\ tag[1] \in DOMAIN type.children
                    THEN make_record(r, p, type.children[tag[1]]) ELSE fail

---------------------------------------------------------------------------
(* Tables: the format is read once, with the places of the columns in it.  *)

RECURSIVE set_item(_, _, _)
set_item(storage, indexes, v) ==
  IF indexes = <<>> THEN v ELSE [storage EXCEPT !.arr[Head(indexes) + 1] = set_item(@, Tail(indexes), v)]

in_bounds(type, v) == type.lower <= v /\ v <= type.upper

\* The storage of a scalar; constants of a format are not tested, and a boolean one becomes an integer.
scalar_storage(r, type, v) ==
  CASE type.kind = "selection" -> IF v \in DOMAIN type.values THEN [int |-> type.values[v]] ELSE Error
    [] type.kind = "bool" -> IF r.mode = "csv" THEN [int |-> IF v THEN 1 ELSE 0] ELSE [bool |-> v]
    [] type.kind = "int" -> IF r.mode = "csv" \/ in_bounds(type, v) THEN [int |-> v] ELSE Error
    [] type.kind = "double" -> IF r.mode = "csv" \/ in_bounds(type, v) THEN [double |-> v] ELSE Error
    [] OTHER -> [str |-> v]

\* What the tokenizer gives for a cell, tested as a value of the input would be
csv_value(type, cell) ==
  LET v == get_value("YAML", cell, IF type.kind = "bool" THEN "int" ELSE type.kind)
  IN  IF v = <<>> THEN Error
      ELSE IF type.kind = "bool" THEN [bool |-> v[1] # 0]
      ELSE scalar_storage(plain, type, v[1])

\* Storages that hold the place of a column
no_value(type) == CASE type.kind = "double" -> [double |-> 0] [] type.kind = "string" -> [str |-> ""] [] OTHER -> [int |-> 0]

\* set_storage_from_csv for the columns of a line, in the storage left by the line before
csv_line(columns, row, storage) ==
  LET last == Max({c.column : c \in columns})
      value(c) == csv_value(c.type, row[c.column + 1])
  IN  IF storage = Error \/ last > Len(row) - 1 \/ \E c \in columns : value(c) = Error THEN Error
      ELSE FoldSet(LAMBDA c, s : set_item(s, c.indexes, value(c)), storage, columns)

read_csv(p, type) ==
  LET n == head(p)
      tag == get_record_tag(p)
      abstract == type.of.kind = "abstract"
      sub == IF abstract THEN type.of.children[tag[2]] ELSE type.of
      file == InFiles[n.map["file"].str]
      skip == IF has_key(n, "n_head_lines") THEN n.map["n_head_lines"].int ELSE 0
      rows == SubSeq(file.rows, skip + 1, Len(file.rows))
      item == make_storage(csv(Len(p.path) + 1), down_key(p, "format", -1), sub)
      columns == ToSet(item.found)
      lines == FoldLeft(LAMBDA all, row : Append(all, csv_line(columns, row, Last(all))), <<item.storage>>, rows)
  IN  IF \/ ~ has_key(n, "file")
         \/ ~ has_key(n, "format")
         \/ abstract /\ (Len(tag) < 2 \/ tag[2] \notin DOMAIN type.of.children)
         \/ \E i, j \in DOMAIN item.found : i # j /\ item.found[i].column = item.found[j].column
         \/ Error \in ToSet(lines)
      THEN fail
      ELSE only([arr |-> Tail(lines)])

---------------------------------------------------------------------------
(* Arrays and scalars. *)

one_element(type, out) ==
  IF good(out) /\ match_size(type, 1) THEN [out EXCEPT !.storage = [arr |-> <<@>>]] ELSE fail

\* Transposed arrays have the same size.
equal_sizes(sizes) == \A i \in DOMAIN sizes : sizes[i] = sizes[1]

\* ReaderInternalTranspose::read_storage: the first item finds the sizes, then the others are made.
read_transposed(p, type) ==
  LET first == make_storage(transpose(0), p, type.of)
      sizes == first.found
      item(i) == only(IF i = 1 THEN first.storage ELSE make_storage(transpose(i - 1), p, type.of).storage)
  IN  IF ~ good(first) THEN fail
      ELSE IF sizes = <<>> THEN one_element(type, first)
      ELSE IF equal_sizes(sizes) /\ match_size(type, sizes[1]) THEN join([i \in 1..sizes[1] |-> item(i)])
      ELSE fail

make_array(r, p, type) ==
  LET n == head(p)
      tag == get_record_tag(p)
  IN  CASE is(n, "seq") ->
             IF match_size(type, Len(n.seq))
             THEN join([i \in DOMAIN n.seq |-> make_storage(r, down_index(p, i - 1), type.of)])
             ELSE fail
        [] ~ is(n, "seq") /\ r.mode = "plain" ->
             IF tag = <<"include">> THEN make_include_storage(p, type)
             ELSE IF tag # <<>> /\ tag[1] = "include_csv" THEN read_csv(p, type)
             ELSE read_transposed(p, type)
        [] ~ is(n, "seq") /\ r.mode = "transpose" -> one_element(type, make_storage(r, p, type.of))
        [] OTHER -> fail

\* Mutant: always the first item of the array is taken.
make_transposed_storage_first(r, p, type) ==
  LET size == Len(head(p).seq)
      out == make_storage(r, down_index(p, 0), type)
  IN  IF size = 0 THEN fail
      ELSE [out EXCEPT !.found = (IF r.index = 0 THEN <<size>> ELSE <<>>) \o @]

\* make_transposed_storage: the item of the array that stands in place of a scalar
make_transposed_storage(r, p, type) ==
  LET size == Len(head(p).seq)
      out == make_storage(r, down_index(p, r.index), type)
  IN  IF size = 0 THEN fail
      ELSE [out EXCEPT !.found = (IF r.index = 0 THEN <<size>> ELSE <<>>) \o @]

make_scalar(r, p, type) ==
  LET n == head(p)
      v == get_value(p.format, n, type.kind)
      indexes == [i \in 1..Len(p.path) - r.depth |-> p.path[r.depth + i].index]
  IN  IF r.mode = "transpose" /\ is(n, "seq") THEN make_transposed_storage(r, p, type)
      ELSE IF r.mode = "csv" /\ is(n, "col")
      THEN [storage |-> no_value(type), found |-> <<[column |-> n.col, indexes |-> indexes, type |-> type]>>]
      ELSE IF v = <<>> THEN fail
      ELSE only(scalar_storage(r, type, v[1]))

make_storage(r, p, type) ==
  CASE ~ p.found -> fail
    [] p.found /\ is(head(p), "ref") -> make_storage(r, find_ref_node(p), type)
    [] OTHER -> CASE type.kind = "tuple" -> make_tuple(r, p, type)
                  [] type.kind = "record" -> make_record(r, p, type)
                  [] type.kind = "array" -> make_array(r, p, type)
                  [] type.kind = "abstract" -> make_abstract(r, p, type)
                  [] OTHER -> IF is(head(p), "null") THEN only(Null) ELSE make_scalar(r, p, type)

---------------------------------------------------------------------------
\* ReaderToStorage::read_stream
InInit == in_case = <<>> /\ in_result = <<>>

InRead ==
  /\ in_result = <<>>
  /\ \E c \in InCases :
       /\ in_case' = c
       /\ in_result' = <<make_storage(plain, root_path(c.format, c.root), InTypes[c.type]).storage>>

InAtEnd == in_result # <<>> /\ UNCHANGED in_vars

InNext == InRead \/ InAtEnd

---------------------------------------------------------------------------
(* Properties: what the input means when everything short is written out.  *)

Bad == [bad |-> TRUE]

\* References and included files are replaced by what they stand for; a reference met again
\* on its own way stands for nothing.
RECURSIVE resolved(_)
resolved(p) ==
  LET n == head(p)
      target == [find_ref_node([p EXCEPT !.seen = {}]) EXCEPT !.seen = p.seen \cup {p.path}]
      tag == get_record_tag(p)
      file == InFiles[IF has_key(n, "file") THEN n.map["file"].str ELSE n.str]
      included == resolved(root_path(file.format, file.root))
  IN  CASE is(n, "ref") -> IF p.path \in p.seen \/ ~ target.found THEN Bad ELSE resolved(target)
        [] tag = <<"include">> -> included
        [] Len(tag) = 2 /\ tag[1] = "include" ->
             [k \in DOMAIN included \cup {"tag"} |-> IF k = "tag" THEN <<tag[2]>> ELSE included[k]]
        [] is(n, "seq") -> [n EXCEPT !.seq = [i \in DOMAIN @ |-> resolved(down_index(p, i - 1))]]
        [] is(n, "map") /\ tag # <<"include">> -> [n EXCEPT !.map = [k \in DOMAIN @ |-> resolved(down_key(p, k, 0))]]
        [] OTHER -> n

empty(n) == in_case.format = "YAML" /\ (is(n, "null") \/ (is(n, "str") /\ n.str = ""))

tag_of(n) ==
  IF in_case.format = "YAML" THEN (IF is(n, "tag") THEN n.tag ELSE <<>>)
  ELSE IF has_key(n, "TYPE") THEN n.map["TYPE"].str ELSE <<>>

\* The record that is meant by an abstract type
implementation(type, n) ==
  IF type.kind # "abstract" THEN type
  ELSE LET name == IF tag_of(n) = <<>> THEN type.default ELSE tag_of(n)[1]
       IN  IF name \in DOMAIN type.children THEN type.children[name] ELSE [kind |-> "none"]

\* The values of keys by the four ways to write a record; <<Bad>> if it is none of them
key_values(type, n) ==
  CASE is(n, "map") -> n.map
    [] empty(n) -> <<>>
    [] ~ empty(n) /\ is(n, "seq") /\ type.kind = "tuple" ->
         [k \in {type.keys[i].key : i \in DOMAIN n.seq \cap DOMAIN type.keys} |->
            n.seq[CHOOSE i \in DOMAIN n.seq : type.keys[i].key = k]]
    [] OTHER -> IF type.auto # "" THEN [k \in {type.auto} |-> n] ELSE [k \in {"bad"} |-> Bad]

compound == {"record", "tuple", "abstract"}

\* Sizes of the arrays that stand in place of scalars
RECURSIVE sizes_under(_, _)
sizes_under(type, n) ==
  LET t == implementation(type, n)
      v == key_values(t, n)
  IN  CASE type.kind = "array" ->
             IF is(n, "seq") THEN UNION {sizes_under(type.of, n.seq[i]) : i \in DOMAIN n.seq}
             ELSE sizes_under(type.of, n)
        [] type.kind \in compound ->
             IF t.kind = "none" THEN {}
             ELSE UNION {sizes_under(t.keys[i].type, v[t.keys[i].key]) :
                           i \in {i \in DOMAIN t.keys : t.keys[i].key \in DOMAIN v}}
        [] OTHER -> IF is(n, "seq") THEN {Len(n.seq)} \cup UNION {sizes_under(type, n.seq[i]) : i \in DOMAIN n.seq}
                    ELSE {}

\* The copy of the input that keeps only the i-th elements of these arrays
RECURSIVE keeping(_, _, _)
keeping(type, n, i) ==
  LET t == implementation(type, n)
      v == key_values(t, n)
      kept(k) == LET is_key == {j \in DOMAIN t.keys : t.keys[j].key = k}
                 IN  IF is_key = {} THEN v[k] ELSE keeping(t.keys[CHOOSE j \in is_key : TRUE].type, v[k], i)
      m == [map |-> [k \in DOMAIN v |-> kept(k)]]
  IN  CASE type.kind = "array" ->
             IF is(n, "seq") THEN [n EXCEPT !.seq = [j \in DOMAIN @ |-> keeping(type.of, @[j], i)]]
             ELSE keeping(type.of, n, i)
        [] type.kind \in compound ->
             IF t.kind = "none" \/ "bad" \in DOMAIN v THEN n
             ELSE IF is(n, "tag") THEN [map |-> m.map, tag |-> n.tag] ELSE m
        [] OTHER -> IF is(n, "seq") THEN keeping(type, n.seq[i], i) ELSE n

\* A line of a table put into the format
RECURSIVE filled(_, _)
filled(n, row) ==
  CASE is(n, "col") -> IF n.col < Len(row) THEN row[n.col + 1] ELSE Bad
    [] is(n, "seq") -> [n EXCEPT !.seq = [i \in DOMAIN @ |-> filled(@[i], row)]]
    [] is(n, "map") -> [n EXCEPT !.map = [k \in DOMAIN @ |-> filled(@[k], row)]]
    [] OTHER -> n

is_table(n) == tag_of(n) # <<>> /\ tag_of(n)[1] = "include_csv"

\* The format of a table, with the name of the record that the lines are
table_format(type, n) ==
  LET tag == tag_of(n)
  IN  IF Len(tag) = 2 THEN [map |-> n.map["format"].map, tag |-> <<tag[2]>>]
      ELSE IF type.of.kind = "abstract" THEN Bad ELSE n.map["format"]

\* Items of an array: those of a list, lines of a table, or copies of something else
items(type, n) ==
  LET sizes == sizes_under(type.of, n)
      skip == IF has_key(n, "n_head_lines") THEN n.map["n_head_lines"].int ELSE 0
      rows == InFiles[n.map["file"].str].rows
      lines == SubSeq(rows, skip + 1, Len(rows))
  IN  IF is(n, "seq") THEN n.seq
      ELSE IF is_table(n) THEN [i \in DOMAIN lines |-> filled(table_format(type, n), lines[i])]
      ELSE IF sizes = {} THEN <<n>>
      ELSE IF Cardinality(sizes) = 1 /\ sizes # {0}
      THEN [i \in 1..(CHOOSE s \in sizes : TRUE) |-> keeping(type.of, n, i)]
      ELSE <<Bad>>

\* The storage of an input in which no array stands in place of a scalar
RECURSIVE meaning(_, _)
meaning(type, n) ==
  LET t == implementation(type, n)
      v == key_values(t, n)
      all == [i \in DOMAIN items(type, n) |-> meaning(type.of, items(type, n)[i])]
      default(k) == IF is(k.default, "value") THEN meaning(k.type, k.default.value)
                    ELSE IF is(k.default, "optional") THEN Null ELSE Error
      key(k) == LET m == meaning(k.type, v[k.key])
                IN  IF k.key \notin DOMAIN v THEN default(k)
                    ELSE IF m = Null /\ is(k.default, "value") THEN default(k) ELSE m
      parts == IF type.kind = "array" THEN all ELSE [i \in DOMAIN t.keys |-> key(t.keys[i])]
      value == get_value(in_case.format, n, type.kind)
  IN  CASE is(n, "bad") -> Error
        [] ~ is(n, "bad") /\ type.kind \in compound \cup {"array"} ->
             IF \/ t.kind = "none"
                \/ type.kind # "array" /\ "bad" \in DOMAIN v
                \/ type.kind = "array" /\ ~ match_size(type, Len(all))
                \/ Error \in ToSet(parts)
             THEN Error ELSE [arr |-> parts]
        [] OTHER -> IF is(n, "null") THEN Null
                    ELSE IF value = <<>> THEN Error ELSE scalar_storage(plain, type, value[1])

\* Nothing in the format of a table is short: the manual says that tables cannot be combined
\* with automatic conversions (JSON_input.tex:303), and no reader refuses all of them.
RECURSIVE tables_in_full(_, _, _)
tables_in_full(type, n, in_table) ==
  LET t == implementation(type, n)
      v == key_values(t, n)
  IN  \/ is(n, "bad")
      \/ CASE type.kind = "array" ->
                IF is(n, "seq") THEN \A i \in DOMAIN n.seq : tables_in_full(type.of, n.seq[i], in_table)
                ELSE IF is_table(n) THEN tables_in_full(type.of, table_format(type, n), TRUE)
                ELSE ~ in_table /\ tables_in_full(type.of, n, FALSE)
           [] type.kind \in compound ->
                /\ in_table => is(n, "map") \/ (type.kind = "tuple" /\ is(n, "seq"))
                /\ t.kind # "none" =>
                     \A i \in DOMAIN t.keys : t.keys[i].key \in DOMAIN v => tables_in_full(t.keys[i].type, v[t.keys[i].key], in_table)
           [] OTHER -> TRUE

\* However references, included files, tables with formats in full, short records and transposed arrays
\* are nested, the reader gives what the input means when all of it is written out: the i-th item of a
\* transposed array is the copy of the input that keeps only the i-th elements of the arrays in place of
\* scalars, a line of a table is the format with its cells, and an input without meaning (cyclic references,
\* unequal sizes, missing keys, values out of bounds) is refused as a whole.
InputAsWritten ==
  LET type == InTypes[in_case.type]
      input == resolved(root_path(in_case.format, in_case.root))
  IN  in_result # <<>> /\ tables_in_full(type, input, FALSE) => in_result[1] = meaning(type, input)
=============================================================================
