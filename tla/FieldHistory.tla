---------------------------- MODULE FieldHistory ----------------------------
(***************************************************************************)
(* A field of input data in time (fields/field.impl.hh): records of the    *)
(* input list give the field on sets of regions from a time on.  Every     *)
(* region keeps a short history of field instances, newest first; set_time *)
(* reads the records up to the time and picks an instance per region, from *)
(* the left or from the right of a jump.  Copies of a field in other       *)
(* equations have their own time but share the list position and the       *)
(* history.                                                                *)
(*                                                                         *)
(* A field instance is the index of its record; 0 is the default value.    *)
(* Comparisons of times are exact here: their tolerance is the subject of  *)
(* TimeMarks.                                                              *)
(***************************************************************************)
EXTENDS Integers, Sequences, FiniteSets, SequencesExt

CONSTANTS FdRegions,
          FdInputLists,    \* sequences of [time, regions, varies]
          FdCopies, FdOwner, \* copies of the field; the owner marks the input times
          FdStepEnds,      \* times of the equations
          FdInitTimes,     \* their possible initial times
          FdHasDefault,    \* the field has a default value
          FdNotNeeded      \* regions on which the control field switches the check off

ASSUME CopiesAssumption ==
  /\ FdOwner \in FdCopies /\ FdHasDefault \in BOOLEAN
  /\ FdInitTimes \subseteq FdStepEnds /\ FdStepEnds \subseteq Nat

\* set_input_list() throws ExcNonascendingTime for any other list.
ASSUME ListsAssumption ==
  \A list \in FdInputLists :
    /\ list \in Seq([time : Nat, regions : SUBSET FdRegions, varies : BOOLEAN])
    /\ \A i, j \in DOMAIN list : i < j => list[i].time <= list[j].time

history_length_limit == 3
fd_none == -1
fd_past == -1        \* last_time_ before the first set_time (-INF)

VARIABLES fd_input,           \* input_list_
          fd_list_idx,        \* position in it, shared
          region_history,  \* per region: sequence of [time, field], shared
          fd_copy,            \* per copy: [last_time, side, jump, changed, fields]
          fd_failed           \* the exception that ended the program, "no" otherwise

fd_vars == <<fd_input, fd_list_idx, region_history, fd_copy, fd_failed>>

\* Mutant: a history that remembers the newest instance only.
push_front_only(h, point) == <<point>>

\* boost::circular_buffer::push_front of capacity history_length_limit_
push_front(h, point) ==
  SubSeq(<<point>> \o h, 1, IF Len(h) < history_length_limit THEN Len(h) + 1 ELSE Len(h))

\* update_history() of one region with a record of the given time: a new instance in
\* front, or a rewrite at the back.
add_to_history(h, point) ==
  IF Len(h) = 0 \/ Last(h).time < point.time THEN push_front(h, point)
  ELSE [h EXCEPT ![Len(h)] = point]

\* Mutant: the record behind the last one in force is read as well.
to_read_ahead(idx, t) == {i \in (idx + 1) .. Len(fd_input) : i = idx + 1 \/ fd_input[i - 1].time <= t}

\* The records the while loop of update_history() reads: times ascend in the list.
to_read(idx, t) == {i \in (idx + 1) .. Len(fd_input) : fd_input[i].time <= t}

\* Field::update_history for one region: the history after each record of the list
update_history(h, r, t) ==
  LET after[i \in fd_list_idx .. Len(fd_input)] ==
        IF i = fd_list_idx THEN h
        ELSE IF i \in to_read(fd_list_idx, t) /\ r \in fd_input[i].regions
             THEN add_to_history(after[i - 1], [time |-> fd_input[i].time, field |-> i])
             ELSE after[i - 1]
  IN  after[Len(fd_input)]

\* check_initialized_region_fields_: the default value from time 0 on
with_default(h, r) ==
  IF h = <<>> /\ r \notin FdNotNeeded /\ FdHasDefault THEN <<[time |-> 0, field |-> 0]>> ELSE h

\* Position in the history of a region: the second one from the left of a jump.
i_history(h, t, side) == IF t > h[1].time \/ side = "right" \/ Len(h) = 1 THEN 1 ELSE 2

\* set_time() has nothing to do
up_to_date(c, t, side) == t = fd_copy[c].last_time /\ (~ fd_copy[c].jump \/ side = fd_copy[c].side)

FdInit == /\ fd_input \in FdInputLists
        /\ fd_list_idx = 0
        /\ region_history = [r \in FdRegions |-> <<>>]
        /\ fd_copy = [c \in FdCopies |-> [last_time |-> fd_past, side |-> "left", jump |-> FALSE,
                                     changed |-> FALSE, fields |-> [r \in FdRegions |-> fd_none]]]
        /\ fd_failed = "no"

\* The owner's governor ends its steps in the input times, which are its fixed marks; the
\* time of an equation does not go back.
may_be_set(c, t) ==
  /\ t >= fd_copy[c].last_time
  /\ fd_copy[c].last_time = fd_past => t \in FdInitTimes
  /\ c = FdOwner /\ fd_copy[c].last_time # fd_past =>
       \A i \in DOMAIN fd_input : fd_input[i].time > fd_copy[c].last_time => t <= fd_input[i].time

FdSkipSetTime(c, t, side) ==
  /\ fd_failed = "no" /\ may_be_set(c, t)
  /\ up_to_date(c, t, side)
  /\ fd_copy' = [fd_copy EXCEPT ![c].side = side]
  /\ UNCHANGED <<fd_input, fd_list_idx, region_history, fd_failed>>

\* Field::set_time of one copy
FdSetTime(c, t, side) ==
  LET hist == [r \in FdRegions |-> with_default(update_history(region_history[r], r, t), r)]
      set == {r \in FdRegions : hist[r] # <<>>}
      chosen == [r \in FdRegions |-> IF r \in set THEN hist[r][i_history(hist[r], t, side)].field
                                   ELSE fd_copy[c].fields[r]]
  IN  /\ fd_failed = "no" /\ may_be_set(c, t)
      /\ ~ up_to_date(c, t, side)
      /\ fd_list_idx' = fd_list_idx + Cardinality(to_read(fd_list_idx, t))
      /\ region_history' = hist
      /\ fd_failed' = IF \E r \in FdRegions \ (set \cup FdNotNeeded) : TRUE THEN "missing value"
                   ELSE IF \E r \in set : t < hist[r][1].time THEN "back in history"
                   ELSE "no"
      /\ fd_copy' = [fd_copy EXCEPT ![c] =
           [last_time |-> t, side |-> side,
            jump |-> \E r \in set : hist[r][1].time = t,
            changed |-> \E r \in set : \/ chosen[r] # fd_copy[c].fields[r]
                                       \/ chosen[r] > 0 /\ fd_input[chosen[r]].varies,
            fields |-> IF fd_failed' = "no" THEN chosen ELSE fd_copy[c].fields]]
      /\ UNCHANGED fd_input

\* The exception ends the program.
FdAborted == fd_failed # "no" /\ UNCHANGED fd_vars

FdNext == \/ \E c \in FdCopies, t \in FdStepEnds, side \in {"left", "right"} :
             FdSetTime(c, t, side) \/ FdSkipSetTime(c, t, side)
        \/ FdAborted

FdSpec == FdInit /\ [][FdNext]_fd_vars

---------------------------------------------------------------------------
(* Properties. *)

\* Records for region r whose time is before t, or at t as well.
fd_before(r, t) == {i \in DOMAIN fd_input : r \in fd_input[i].regions /\ fd_input[i].time < t}
fd_until(r, t) == {i \in DOMAIN fd_input : r \in fd_input[i].regions /\ fd_input[i].time <= t}
newest(S) == CHOOSE i \in S : \A j \in S : j <= i

\* The instance an equation expects: the last record in force from that side.  From the
\* left of the first time that has a value, that value itself is taken.
expected(r, t, side) ==
  LET strict == fd_before(r, t)
      upto == fd_until(r, t)
      unset == IF FdHasDefault /\ r \notin FdNotNeeded THEN 0 ELSE fd_none
  IN  IF side = "left" /\ strict # {} THEN {newest(strict)}
      ELSE IF side = "left" /\ upto # {} THEN {newest(upto), unset}
      ELSE IF upto # {} THEN {newest(upto)}
      ELSE {unset}

\* Whatever the order in which copies are set, each sees on every region the last record
\* in force at its own time and limit side, although list position and history are shared.
CopySeesRecordInForce ==
  fd_failed = "no" => \A c \in FdCopies : fd_copy[c].last_time # fd_past =>
    \A r \in FdRegions : fd_copy[c].fields[r] \in expected(r, fd_copy[c].last_time, fd_copy[c].side)

\* Copies can be used in equations with different time settings: the error "Setting field
\* time back in history" ends the program only if another copy has already read a record
\* that the failing copy has not reached.
FailsOnlyBehindRecord ==
  fd_failed = "back in history" =>
    \E c, d \in FdCopies, i \in DOMAIN fd_input :
      fd_copy[c].last_time < fd_input[i].time /\ fd_input[i].time <= fd_copy[d].last_time

=============================================================================
