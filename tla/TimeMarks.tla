----------------------------- MODULE TimeMarks -----------------------------
(***************************************************************************)
(* The TimeMarks of the whole problem: one list per equation, filled by    *)
(* equations, fields and outputs, and asked by governors at any time.      *)
(***************************************************************************)
EXTENDS TimeMarksOps

CONSTANTS TmEquations,     \* number of mark types that are allocated
          TmTimes,         \* times at which single marks are added
          TmGrids,         \* [begin, dt, end] of evenly spaced marks
          TmMasks,         \* sets of base types used by callers
          TmProbes,        \* times at which governors ask
          TmMaxMarks       \* bound: marks per equation, stoppers included

VARIABLES tm_marks,         \* marks_: the sorted lists, by equation index
          tm_requested      \* history: what was asked for

tm_vars == <<tm_marks, tm_requested>>

TmInit == tm_marks = <<>> /\ tm_requested = {}

\* A new list with its two stoppers.
new_mark_type == /\ Len(tm_marks) < TmEquations
                 /\ tm_marks' = Append(tm_marks, stoppers)
                 /\ tm_requested' = tm_requested

Add(e, time, types) ==
  /\ Len(tm_marks[e]) < TmMaxMarks
  /\ tm_marks' = [tm_marks EXCEPT ![e] = add(@, time, types)]
  /\ tm_requested' = tm_requested \cup {[eq |-> e, time |-> time, types |-> types]}

AddTimeMarks(e, g, types) ==
  /\ Len(tm_marks[e]) < TmMaxMarks
  /\ tm_marks' = [tm_marks EXCEPT ![e] = add_time_marks(@, g.begin, g.dt, g.end, types)]
  /\ tm_requested' = tm_requested \cup
       {[eq |-> e, time |-> grid(g.begin, g.dt, g.end)[i], types |-> types] :
          i \in DOMAIN grid(g.begin, g.dt, g.end)}

AddToTypeAll(e, filter, types) ==
  /\ tm_marks' = [tm_marks EXCEPT ![e] = add_to_type_all(@, filter, types)]
  /\ tm_requested' = tm_requested

TmNext == \/ new_mark_type
        \/ \E e \in DOMAIN tm_marks, m \in TmMasks :
             \/ \E time \in TmTimes : Add(e, time, m)
             \/ \E g \in TmGrids : AddTimeMarks(e, g, m)
             \/ \E filter \in TmMasks : AddToTypeAll(e, filter, m)

TmSpec == TmInit /\ [][TmNext]_tm_vars

---------------------------------------------------------------------------
(* Properties. *)

\* Every list is sorted and no two of its marks are closer than the precision: the add()
\* of a time between two marks compares it with both neighbours.
MarksSeparated ==
  \A e \in DOMAIN tm_marks : \A i \in 1 .. (Len(tm_marks[e]) - 1) :
    tm_marks[e][i + 1].time - tm_marks[e][i].time >= Prec

\* No request is lost: whatever was merged since, some mark that counts as the same time
\* carries all the bits that were asked for.
RequestsKept ==
  \A r \in tm_requested : \E i \in DOMAIN tm_marks[r.eq] :
    same_time(tm_marks[r.eq][i].time, r.time) /\ r.types \subseteq tm_marks[r.eq][i].types

\* next() and last() split the marks of every mask at the time of the governor: last() is
\* before next(), no matching mark lies between them and none is on both sides, however
\* close to the time the marks are.
NextAndLastSplitMarks ==
  \A e \in DOMAIN tm_marks, mask \in TmMasks, p \in TmProbes :
    LET ms == tm_marks[e]
        l == last(ms, p, mask)
        n == next(ms, p.end, mask)
    IN  /\ l < n
        /\ \A i \in DOMAIN ms : match_mask(ms[i], mask) =>
             /\ i <= l <=> ge(p.end, ms[i].time)
             /\ i >= n <=> lt(p.end, ms[i].time)

\* Merging close times keeps the marks apart and loses no request.
MergedWithoutLoss == MarksSeparated /\ RequestsKept
============================================================================
