---------------------------- MODULE TimeMarksOps ----------------------------
(***************************************************************************)
(* One list of TimeMarks (tools/time_marks.hh, .cc): the marks of one       *)
(* equation, sorted by time between two stoppers.  A mark is [time, types]; *)
(* types is the set of the base types whose bit is set.                     *)
(*                                                                         *)
(* Times are counted in units so small that the two tolerances of the code *)
(* are visible: marks closer than Prec (time_step_precision, an absolute    *)
(* number) are merged, comparisons with the time of a governor accept a     *)
(* difference up to Tol (TimeStep::safe_compare, relative to the time).     *)
(***************************************************************************)
EXTENDS Integers, Sequences, FiniteSets, SequencesExt

CONSTANTS Inf,         \* INFINITY
          Prec,        \* TimeGovernor::time_step_precision
          Tol,         \* tolerance of safe_compare
          BaseTypes    \* fixed, output, input, balance_output

ASSUME ToleranceAssumption ==
  /\ Inf \in Nat /\ Prec \in Nat \ {0} /\ Tol \in Nat /\ Prec <= Tol + 1 /\ Tol < Inf

\* TimeStep::ge and lt, rounding safe.
ge(time, other) == time >= other - Tol
lt(time, other) == ~ ge(time, other)

\* TimeStep::contains: other lies in the left-open interval of the step.
contains(step, other) == ge(step.end, other) /\ lt(step.end, other + step.length)

\* The stoppers satisfy every mask.
stoppers == <<[time |-> -Inf, types |-> BaseTypes], [time |-> Inf, types |-> BaseTypes]>>

match_mask(mark, mask) == mask \subseteq mark.types

\* Index of the first mark at or after time.
lower_bound(ms, time) == SelectInSeq(ms, LAMBDA m : m.time >= time)

\* "Equal" times; the difference of two infinities is not a number and compares false.
same_time(a, b) == a < Inf /\ -Inf < a /\ (IF a <= b THEN b - a ELSE a - b) < Prec

add_to_type(ms, i, types) == [ms EXCEPT ![i].types = @ \cup types]

\* Mutant: merges whatever safe_compare calls equal.
merged_with_tolerance(ms, time) ==
  LET close == {i \in DOMAIN ms : ge(ms[i].time, time) /\ ge(time, ms[i].time)}
  IN  IF close = {} THEN 0 ELSE CHOOSE i \in close : TRUE

\* Where the mark lands: at first_ge, at the mark before it, or 0 for a new mark.
merged_with(ms, time) ==
  LET first_ge == lower_bound(ms, time)
  IN  IF same_time(ms[first_ge].time, time) THEN first_ge
      ELSE IF first_ge > 1 /\ same_time(ms[first_ge - 1].time, time) THEN first_ge - 1
      ELSE 0

\* TimeMarks::add
add(ms, time, types) ==
  LET i == merged_with(ms, time)
  IN  IF i > 0 THEN add_to_type(ms, i, types)
      ELSE InsertAt(ms, lower_bound(ms, time), [time |-> time, types |-> types])

\* The time of the mark that add() returns.
added_time(ms, time) == LET i == merged_with(ms, time) IN IF i > 0 THEN ms[i].time ELSE time

\* The times of an evenly spaced grid, in the order they are added.
grid(from, dt, to) ==
  [i \in 1 .. ((to - from) \div dt + 1) |-> from + (i - 1) * dt]

\* TimeMarks::add_time_marks
add_time_marks(ms, from, dt, to, types) ==
  LET times == grid(from, dt, to)
      after[i \in 0 .. Len(times)] == IF i = 0 THEN ms ELSE add(after[i - 1], times[i], types)
  IN  after[Len(times)]

\* TimeMarks::add_to_type_all; the stoppers keep all their bits.
add_to_type_all(ms, filter, types) ==
  [i \in DOMAIN ms |->
     IF match_mask(ms[i], filter) THEN [ms[i] EXCEPT !.types = @ \cup types] ELSE ms[i]]

\* Mutant: the exact comparison of lower_bound decides alone.
next_exact(ms, time, mask) ==
  SelectInSeq(ms, LAMBDA m : m.time > time /\ match_mask(m, mask))

\* TimeMarks::next: index of the first matching mark strictly after the time; the +INF
\* stopper when there is none.
next(ms, time, mask) ==
  LET from == lower_bound(ms, time)
      found == {i \in from .. Len(ms) : lt(time, ms[i].time) /\ match_mask(ms[i], mask)}
  IN  IF found = {} THEN Len(ms) ELSE CHOOSE i \in found : \A j \in found : i <= j

\* TimeMarks::last: index of the last matching mark at or before the end of the step,
\* searched back from a hundredth of the step behind it.
last(ms, step, mask) ==
  LET from == lower_bound(ms, step.end + step.length \div 100)
      found == {i \in 1 .. from : ge(step.end, ms[i].time) /\ match_mask(ms[i], mask)}
  IN  CHOOSE i \in found : \A j \in found : i >= j

\* TimeMarks::begin and end: the positions of the two stoppers, whatever the mask.
begin(ms) == 1
end(ms) == Len(ms)

\* TimeMarks::current: the last mark if the step contains it, else end() - the stopper.
current(ms, step, mask) ==
  LET i == last(ms, step, mask)
  IN  IF contains(step, ms[i].time) THEN i ELSE end(ms)
=============================================================================
