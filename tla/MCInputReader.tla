--------------------------- MODULE MCInputReader ---------------------------
(* A list of records with a field, a tuple and a list in them.  Each key is   *)
(* given in every way: as it is, short, null, out of bounds, transposed with *)
(* equal and unequal sizes; in the root there are references, tables and     *)
(* included files as well.                                                    *)
EXTENDS InputReader

in_scalar(k, lo, hi) == [kind |-> k, lower |-> lo, upper |-> hi]
in_key(k, t, d) == [key |-> k, type |-> t, default |-> d]
in_record(k, name, auto, keys) == [kind |-> k, name |-> name, auto |-> auto, keys |-> keys]
in_array(t, lo, hi) == [kind |-> "array", of |-> t, lower |-> lo, upper |-> hi]
Obligatory == [obligatory |-> TRUE]
Optional == [optional |-> TRUE]
Value(n) == [value |-> n]

in_str == in_scalar("string", 0, 0)
in_dbl == in_scalar("double", 0, 100)
in_type(name) == in_key("TYPE", in_str, Value([str |-> <<name>>]))
in_unit == [kind |-> "selection", values |-> [s |-> 1, day |-> 2]]
in_const == in_record("record", "Const", "value", <<in_type("Const"), in_key("value", in_array(in_dbl, 1, 3), Obligatory)>>)
in_formula == in_record("record", "Formula", "", <<in_type("Formula"), in_key("expr", in_str, Obligatory)>>)
in_field == [kind |-> "abstract", default |-> "Const", children |-> [Const |-> in_const, Formula |-> in_formula]]
in_time == in_record("tuple", "Time", "time", <<in_key("time", in_dbl, Obligatory), in_key("unit", in_unit, Value([str |-> "s"]))>>)
in_item ==
  in_record("record", "Item", "",
            <<in_type("Item"), in_key("a", in_scalar("int", 0, 9), Obligatory),
              in_key("b", in_scalar("int", 0, 9), Value([int |-> 7])), in_key("f", in_field, Optional),
              in_key("g", in_array(in_scalar("int", 0, 9), 1, 2), Optional), in_key("t", in_time, Optional)>>)
in_root ==
  in_record("record", "Root", "",
            <<in_type("Root"), in_key("list", in_array(in_item, 1, 3), Optional), in_key("one", in_item, Optional),
              in_key("fields", in_array(in_field, 1, 4), Optional)>>)

Num(i) == [int |-> i]
Dbl(x) == [real |-> x]
Str(x) == [str |-> x]
Arr(s) == [seq |-> s]
Map(m) == [map |-> m]
Tag(t, n) == [k \in DOMAIN n \cup {"tag"} |-> IF k = "tag" THEN t ELSE n[k]]
Ref(absolute, steps) == [ref |-> [absolute |-> absolute, steps |-> steps]]
Key(k) == [key |-> k]
Up == [up |-> TRUE]
Without == [without |-> TRUE]

list(s) == Arr([i \in DOMAIN s |-> Num(s[i])])
square == Arr(<<list(<<1, 2>>), list(<<3, 4>>)>>)

a_nodes == {Num(1), list(<<1, 2>>), list(<<3, 4, 5>>), list(<<>>), list(<<6>>), Arr(<<Num(1), Num(12)>>), square, Str("x")}
b_nodes == {Without, Null, Arr(<<Null, Num(2)>>), list(<<1, 2, 3>>)}
f_nodes == {Without, Dbl(2), Arr(<<Dbl(1), Dbl(2)>>), square, Map([value |-> Dbl(3)]),
            Tag(<<"Formula">>, Map([expr |-> Arr(<<Str("x"), Str("y")>>)])), Tag(<<"None">>, Map(<<>>))}
g_nodes == {Without, Num(3), list(<<1, 2, 3>>), square}
t_nodes == {Without, Dbl(5), Arr(<<list(<<1, 2>>), Str("day")>>), Map([time |-> Num(1), unit |-> Arr(<<Str("s"), Str("year")>>)])}

in_map(m) == Map([k \in {k \in DOMAIN m : m[k] # Without} |-> m[k]])
in_items == {in_map([a |-> a, b |-> b, f |-> f, g |-> g, t |-> t]) :
               a \in a_nodes, b \in b_nodes, f \in f_nodes, g \in g_nodes, t \in t_nodes}

MCInFiles ==
  [items |-> [format |-> "YAML", root |-> Arr(<<Map([a |-> Num(1)]), Map([a |-> Num(2), b |-> Null])>>)],
   const |-> [format |-> "JSON", root |-> Map([value |-> list(<<4, 5>>)])],
   table |-> [rows |-> <<<<Str("n"), Str("x"), Str("u")>>, <<Num(1), Dbl(5), Str("s")>>, <<Num(2), Dbl(6), Str("day")>>>>],
   short |-> [rows |-> <<<<Num(1), Dbl(5), Str("s")>>, <<Num(2), Dbl(6)>>>>]]

in_table(name, file, skip, format) ==
  Tag(name, Map([file |-> Str(file), n_head_lines |-> Num(skip), format |-> format]))
row_format ==
  Map([a |-> [col |-> 0], b |-> Num(3), f |-> Tag(<<"Const">>, Map([value |-> Arr(<<[col |-> 1], Dbl(8)>>)])),
       t |-> Map([time |-> Num(1), unit |-> [col |-> 2]])])

\* In the second format a cell stands in place of the tuple as a short one does.
short_format == Map([a |-> Num(1), t |-> [col |-> 0]])

yaml_roots ==
  {Map([list |-> Tag(<<"include">>, Str("items")), one |-> Map([a |-> Num(0), f |-> Tag(<<"include", "Const">>, Str("const"))])]),
   Map([list |-> Map([a |-> list(<<1, 2>>), f |-> Tag(<<"include", "Const">>, Map([file |-> Str("const")]))])]),
   Map([fields |-> in_table(<<"include_csv", "Formula">>, "table", 0, Map([expr |-> [col |-> 2]]))]),
   Map([fields |-> in_table(<<"include_csv", "Const">>, "table", 1, Map([value |-> Arr(<<[col |-> 1]>>)]))]),
   Map([fields |-> in_table(<<"include_csv">>, "table", 1, Map([value |-> Arr(<<[col |-> 1]>>)]))]),
   Map([list |-> Arr(<<Map([a |-> Num(1), f |-> Str("")]), Map([a |-> Num(1), g |-> Arr(<<Str("")>>)])>>)])}
  \cup {Map([list |-> in_table(<<"include_csv">>, file, skip, row_format)]) : file \in {"table", "short"}, skip \in 0..1}
  \cup {Map([list |-> in_table(<<"include_csv">>, "table", 1, short_format)])}

to_one(k) == Ref(TRUE, <<Key("one"), Key(k)>>)
json_roots ==
  {Map([one |-> Map([a |-> a, b |-> b, f |-> f]), list |-> l]) :
     a \in {Num(1), to_one("b"), to_one("a")},
     b \in {Num(2), list(<<1, 2>>), Ref(FALSE, <<Up, Key("a")>>)},
     f \in {Dbl(3), Ref(TRUE, <<Key("one")>>), Map([TYPE |-> Str(<<"Formula">>), expr |-> Str("z")])},
     l \in {Ref(TRUE, <<Key("one")>>), Ref(TRUE, <<Key("list")>>), Arr(<<Ref(TRUE, <<Key("one")>>), Map([a |-> to_one("b")])>>),
            Map([a |-> to_one("b"), f |-> to_one("f")]), Map([a |-> Arr(<<Num(1), Ref(FALSE, <<Up, [index |-> 0]>>)>>)]),
            Map([a |-> Ref(FALSE, <<Up, Up, Up, Key("one")>>)]), Map([a |-> Ref(TRUE, <<Key("list"), [index |-> 0]>>)])}}

MCInTypes == [list |-> in_array(in_item, 1, 3), root |-> in_root]

MCInCases ==
  {[type |-> "list", format |-> "YAML", root |-> n] : n \in in_items}
  \cup {[type |-> "root", format |-> "YAML", root |-> n] : n \in yaml_roots}
  \cup {[type |-> "root", format |-> "JSON", root |-> n] : n \in json_roots}
=============================================================================
