----------------------------- MODULE TimeInput -----------------------------
(***************************************************************************)
(* The time record of the input file, from which the governors of an       *)
(* equation are made, and what a governor made from it looks like.         *)
(***************************************************************************)
EXTENDS TimeGovernorOps

CONSTANTS Start,         \* start_time
          End,           \* end_time
          Table,         \* dt_limits_table_: rows [time, min_dt, max_dt]
          InitDt,        \* init_dt, 0 if not given
          Second         \* ticks of the artificial zero step

Row == [time : Int, min_dt : Nat, max_dt : Nat]

ASSUME RecordAssumption ==
  /\ Start \in Nat /\ End \in Nat /\ Start < End /\ End < Inf
  /\ Second \in Time /\ InitDt \in 0 .. (Inf - 1)

ASSUME TableAssumption ==
  /\ Table \in Seq(Row) /\ Len(Table) >= 2
  /\ \A i \in 1 .. Len(Table) :
       /\ Table[i].min_dt <= Table[i].max_dt /\ Table[i].max_dt \in 1 .. (Inf - 1)
       /\ i < Len(Table) => Table[i].time < Table[i + 1].time
  /\ Table[Len(Table)].time = End

Cfg == [init_time |-> Start, end_time |-> End, steady |-> FALSE, dt_limits_table |-> Table]

TimeStep == [index : Nat, length : Time, end : Time]

Governor ==
  [recent_steps : Seq(TimeStep),
   end_of_fixed_dt_interval : NegInf .. Inf,
   fixed_time_step : Time,
   is_time_step_fixed : BOOLEAN, time_step_changed : BOOLEAN,
   lower_constraint : Nat, upper_constraint : Nat,
   min_time_step : Nat, max_time_step : Nat,
   last_lower_constraint : Nat, last_upper_constraint : Nat,
   dt_limits_pos : Nat]
============================================================================
