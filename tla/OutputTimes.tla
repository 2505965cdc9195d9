---------------------------- MODULE OutputTimes ----------------------------
(***************************************************************************)
(* When a field is written: EquationOutput (fields/equation_output.cc) and *)
(* OutputTimeSet (io/output_time_set.cc) on top of the time marks of one   *)
(* equation.  The output times of the input become marks of the equation,  *)
(* every field remembers the times of its marks, and after every time step *)
(* the field is written if the current output mark is one of its own.      *)
(* The governor is represented by what it is proved to do in               *)
(* TimeGovernorProofs: a step ends in the next fixed mark or before it, up *)
(* to the rounding of t + dt.                                              *)
(***************************************************************************)
EXTENDS TimeMarksOps, TLC
LOCAL INSTANCE SequencesExt

CONSTANTS Records,      \* input records "output" of an equation
          InitTime, EndTime,
          InputTimes,   \* times of the input data, marked before the output is set up
          BalanceTimes, \* times of the balance, which are output marks of the equation too
          Cuts,         \* times at which a step may end before the next mark
          Rounding,     \* rounding errors of the end of a step that aims at a mark
          MaxSteps      \* bound on the steps of one time grid (10^6 in the code)

VARIABLES marks,        \* marks_ of the equation
          times,        \* field_output_times_: times per output field
          step,         \* the step of the equation's governor
          pc,           \* "read", "output" or "next"
          asked,        \* history: times the input asks for, per field
          written       \* history: ends of the steps after which a field was written

vars == <<marks, times, step, pc, asked, written>>

fixed == {"fixed"}
output_type == {"output"}

---------------------------------------------------------------------------
(* OutputTimeSet: a set of mark times, filled together with the marks. *)

\* Mutant: remembers the time that was asked for, not the time of the mark.
add_output_time_raw(s, time, types) ==
  [marks |-> add(s.marks, time, types \cup output_type), times |-> s.times \cup {time}]

\* OutputTimeSet::add of one time
add_output_time(s, time, types) ==
  [marks |-> add(s.marks, time, types \cup output_type),
   times |-> s.times \cup {added_time(s.marks, time)}]

\* An optional key of the input is a sequence of at most one value.
missing(key) == key = <<>>

\* The step of a grid; too many steps are spread over MaxSteps.
grid_step(from, dt, to) ==
  IF (to - from) \div dt > MaxSteps THEN (to - from) \div MaxSteps ELSE dt

\* The times of one record of the input: a single time without step, none if ignored.
grid_times(g) ==
  IF missing(g.step) THEN <<g.begin>>
  ELSE IF g.begin > g.end \/ g.step[1] <= 0 THEN <<>>
  ELSE grid(g.begin, grid_step(g.begin, g.step[1], g.end), g.end)

\* OutputTimeSet::read_from_input
read_times(s, grids, types) ==
  FoldLeft(LAMBDA acc, time : add_output_time(acc, time, types), s,
           FlattenSeq([i \in DOMAIN grids |-> grid_times(grids[i])]))

contains_mark(set, mark) == mark.time \in set

---------------------------------------------------------------------------
(* EquationOutput *)

\* "times" of the equation, or those of the output stream if the key is missing.
common_grids(rec) == IF missing(rec.times) THEN rec.stream_times ELSE rec.times[1]

\* Times of the marks of the input data, the stoppers excluded: begin() to end() runs over
\* -INF too, whose only effect is a second mark at -INF.
input_mark_times(ms) ==
  SelectSeq([i \in DOMAIN ms |-> ms[i].time],
            LAMBDA t : -Inf < t /\ t < Inf /\ \E i \in DOMAIN ms :
                         ms[i].time = t /\ match_mask(ms[i], {"input"}))

\* The common set: its grids, the end time and, if asked_times, the times of the input data.
common_times(ms, rec) ==
  LET given == add_output_time(read_times([marks |-> ms, times |-> {}], common_grids(rec), fixed),
                               EndTime, fixed)
  IN  IF rec.add_input_times
      THEN FoldLeft(LAMBDA acc, t : add_output_time(acc, t, fixed), given,
                    input_mark_times(given.marks))
      ELSE given

\* One output field: its own times or a copy of the common ones, and the initial time.
field_times(ms, common, own) ==
  add_output_time(IF missing(own) THEN [marks |-> ms, times |-> common]
                  ELSE read_times([marks |-> ms, times |-> {}], own[1], fixed),
                  InitTime, fixed)

\* EquationOutput::read_from_input: [marks, times per field]
read_from_input(ms, rec) ==
  LET common == common_times(ms, rec)
      one(acc, f) == LET r == field_times(acc.marks, common.times, f.times)
                     IN  [marks |-> r.marks, times |-> (f.field :> r.times) @@ acc.times]
  IN  FoldLeft(one, [marks |-> common.marks, times |-> <<>>], rec.fields)

\* EquationOutput::is_field_output_time
is_field_output_time(f) ==
  LET i == current(marks, step, output_type)
  IN  /\ f \in DOMAIN times
      /\ i # end(marks)
      /\ contains_mark(times[f], marks[i])

---------------------------------------------------------------------------
(* The equation: reads its output record, then steps and outputs. *)

\* The governor marks its initial and end time, the fields their input times, the balance
\* its own output times.
initial_marks ==
  LET governor == add(add(stoppers, InitTime, fixed), EndTime, fixed)
      input == FoldLeft(LAMBDA ms, t : add(ms, t, {"fixed", "input"}), governor, InputTimes)
  IN  FoldLeft(LAMBDA ms, t : add(ms, t, {"fixed", "output", "balance"}), input, BalanceTimes)

Init == /\ marks = initial_marks
        /\ times = <<>>
        /\ step = [end |-> InitTime, length |-> 1000]   \* TimeStep(init_time) has length 1.0
        /\ pc = "read"
        /\ asked = <<>>
        /\ written = <<>>

\* What the input asks for, by the text of its declaration.
asked_times(rec, f) ==
  LET given == IF missing(f.times) THEN common_grids(rec) ELSE f.times[1]
      always == {InitTime} \cup (IF missing(f.times) THEN {EndTime} ELSE {})
      inputs == IF missing(f.times) /\ rec.add_input_times THEN ToSet(InputTimes) ELSE {}
  IN  UNION {ToSet(grid_times(given[i])) : i \in DOMAIN given} \cup always \cup inputs

ReadFromInput(rec) ==
  /\ pc = "read"
  /\ \E read \in {read_from_input(marks, rec)} : marks' = read.marks /\ times' = read.times
  /\ asked' = [f \in DOMAIN times' |->
                 asked_times(rec, rec.fields[SelectLastInSeq(rec.fields, LAMBDA r : r.field = f)])]
  /\ written' = [f \in DOMAIN times' |-> <<>>]
  /\ pc' = "output"
  /\ UNCHANGED step

\* EquationOutput::output after the zero step and after every step
Output ==
  /\ pc = "output"
  /\ written' = [f \in DOMAIN written |->
                   IF is_field_output_time(f) THEN Append(written[f], step.end) ELSE written[f]]
  /\ pc' = "next"
  /\ UNCHANGED <<marks, times, step, asked>>

NextTime ==
  LET mark == marks[next(marks, step.end, fixed)].time
  IN  /\ pc = "next"
      /\ lt(step.end, EndTime)
      /\ \E t \in {mark + r : r \in Rounding} \cup {c \in Cuts : lt(step.end, c) /\ lt(c, mark)} :
           step' = [end |-> t, length |-> t - step.end]
      /\ pc' = "output"
      /\ UNCHANGED <<marks, times, asked, written>>

AtEnd == pc = "next" /\ ~ lt(step.end, EndTime) /\ UNCHANGED vars

Next == (\E rec \in Records : ReadFromInput(rec)) \/ Output \/ NextTime \/ AtEnd

Spec == Init /\ [][Next]_vars

---------------------------------------------------------------------------
(* Properties. *)

near(a, b) == ge(a, b) /\ ge(b, a)

\* Every time the input asks for a field, inside the computed interval, is written once
\* for that field, whatever other fields, the input data and the rounding of the steps put
\* close to it: read_from_input() must remember the time of the mark that add() returned,
\* and is_field_output_time() must find that mark again.
AskedTimesWrittenOnce ==
  pc = "next" => \A f \in DOMAIN asked : \A t \in asked[f] :
    InitTime <= t /\ ge(step.end, t) =>
      Cardinality({i \in DOMAIN written[f] : near(written[f][i], t)}) = 1

\* A field is written only at times that were asked for that field: the output times of
\* the other fields of the equation, which are marks of the same list, do not leak.
NothingElseWritten ==
  \A f \in DOMAIN written : \A i \in DOMAIN written[f] : \E t \in asked[f] : near(written[f][i], t)

\* A field is written at the times it was asked for, once each, and at no other.
WrittenWhenAsked == AskedTimesWrittenOnce /\ NothingElseWritten
============================================================================
