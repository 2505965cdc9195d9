--------------------------- MODULE MCOutputTimes ---------------------------
(* Times in units of which 2 are time_step_precision and 3 the tolerance of
   safe_compare.  Marks that are not merged differ by more than the tolerance.
   Beside the times of one equation, the stream that equations share. *)
EXTENDS OutputTimes, MCOutputStream

single(t) == [begin |-> t, step |-> <<>>, end |-> EndTime]
evenly(b, s, e) == [begin |-> b, step |-> <<s>>, end |-> e]
field(f, grids) == [field |-> f, times |-> grids]
record(common, fields, inputs) ==
  [times |-> common, stream_times |-> <<evenly(0, 800, 1900)>>, fields |-> fields,
   add_input_times |-> inputs]

given(grids) == <<grids>>
none == <<>>

OwnTimes == {none} \cup {given(grids) : grids \in
  {<<single(501)>>, <<evenly(0, 500, 2000)>>, <<evenly(900, 400, 300), single(1200)>>,
   <<evenly(200, 0, 900), single(1999)>>, <<evenly(-400, 400, 1999)>>, <<evenly(0, 100, 2000)>>}}

SeparatedRecords ==
  {record(common, <<field("pressure", a), field("velocity", b)>>, inputs) :
     common \in {none, given(<<>>), given(<<evenly(500, 700, 2000)>>)},
     a \in {none, given(<<evenly(0, 500, 2000)>>)}, b \in OwnTimes, inputs \in BOOLEAN}

MCInputTimes == <<0, 600, 1200>>
MCBalanceTimes == <<400, 1600>>
MCRounding == {-1, 1}
============================================================================
