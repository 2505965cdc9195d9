----------------------------- MODULE DarcyFlow -----------------------------
(***************************************************************************)
(* The time loop of the flow equation (flow/darcy_flow_lmh.cc).  Where the *)
(* storativity is zero the flow is steady: it is solved with the data from *)
(* the right of a time and holds until the data change.  Where it is not,  *)
(* every step is solved with the data from the left of its end, starting   *)
(* from the solution accepted last.  Storativity and data may change at    *)
(* any fixed mark, and with them the equation switches between both.       *)
(*                                                                         *)
(* A solution is what tells solutions apart here: when and how it was      *)
(* computed and the flux through the boundary.  Which step is taken (and   *)
(* its adaptation after solve_nonlinear) is the matter of                  *)
(* SequentialCoupling: any step up to the next fixed mark may come.  A     *)
(* solver that diverges ends the program.                                  *)
(***************************************************************************)
EXTENDS BalanceOps

CONSTANTS LmhEndTime,
          LmhSchedules,   \* [zero, data, jumps]: values on [t, t+1) by t, times of storativity records
          LmhMarks,       \* output times of the equation, also of its balance
          LmhDts,
          LmhFluxes       \* fluxes an unsteady step may end with

\* Storativity changes at the times of its records only.
ASSUME LmhAssumption ==
  /\ LmhEndTime \in Nat \ {0} /\ LmhMarks \subseteq Nat
  /\ LmhDts \subseteq Nat \ {0} /\ LmhFluxes \subseteq Int
  /\ \A i \in LmhSchedules :
       /\ i.zero \in [0 .. LmhEndTime -> BOOLEAN] /\ i.data \in [0 .. LmhEndTime -> Int]
       /\ \A s \in 1 .. LmhEndTime : i.zero[s] # i.zero[s - 1] => s \in i.jumps

VARIABLES lmh_input,       \* the schedule in the input file
          lmh_t, lmh_dt, lmh_tlevel,
          p_edge_solution,    \* p_edge_solution, full_solution
          p_edge_solution_previous,    \* p_edge_solution_previous_time
          lmh_start,       \* history: what the last unsteady solve started from, and when:
                           \* the time and the number of steps made before
          lmh_balance,           \* Balance
          lmh_written,     \* history: times of output_data()
          in_flow,     \* history: what flowed in since the initial time
          lmh_pc           \* "start", "run"

lmh_vars == <<lmh_input, lmh_t, lmh_dt, lmh_tlevel, p_edge_solution, p_edge_solution_previous, lmh_start, lmh_balance, lmh_written, in_flow, lmh_pc>>

lmh_unset == [at |-> -1, kind |-> "none", flux |-> 0]

\* Limits of the fields at a time; storativity.is_jump_time()
zero_from_right(s) == lmh_input.zero[s]
zero_from_left(s) == lmh_input.zero[s - 1]
data_from_left(s) == lmh_input.data[s - 1]
is_jump_time(s) == s \in lmh_input.jumps

lmh_steady(s) == [at |-> s, kind |-> "steady", flux |-> lmh_input.data[s]]
lmh_unsteady(s, f) == [at |-> s, kind |-> "unsteady", flux |-> f]

\* Fixed marks: output times and the times of the input records.
fixed_marks == LmhMarks \cup lmh_input.jumps \cup {LmhEndTime}
                 \cup {s \in 1 .. LmhEndTime : lmh_input.data[s] # lmh_input.data[s - 1]}

\* output_data(): fields, cumulative and instant balance, output of the balance
balance_output(bal, sol, s, len, level) ==
  LET c == calculate_cumulative(bal, level, len, [r \in Ranks |-> 0], -sol.flux)
  IN  IF s \in LmhMarks THEN output(c) ELSE c

LmhInit == /\ lmh_input \in LmhSchedules
        /\ lmh_t = 0 /\ lmh_dt = 1 /\ lmh_tlevel = 0
        /\ p_edge_solution = lmh_unset /\ p_edge_solution_previous = lmh_unset
        /\ lmh_start = [from |-> lmh_unset, time |-> -1, level |-> 0]
        /\ lmh_balance = new_balance(TRUE)
        /\ lmh_written = {} /\ in_flow = 0 /\ lmh_pc = "start"

\* DarcyLMH::zero_time_step: a steady solution is not accepted, an initial condition is.
LmhZeroTimeStep ==
  LET sol == IF zero_from_right(0) THEN lmh_steady(0) ELSE [at |-> 0, kind |-> "initial", flux |-> 0]
  IN  /\ lmh_pc = "start"
      /\ p_edge_solution' = sol
      /\ p_edge_solution_previous' = IF zero_from_right(0) THEN p_edge_solution_previous ELSE sol
      /\ lmh_balance' = balance_output(lmh_balance, sol, 0, lmh_dt, lmh_tlevel)
      /\ lmh_written' = {0}
      /\ lmh_pc' = "run"
      /\ UNCHANGED <<lmh_input, lmh_t, lmh_dt, lmh_tlevel, lmh_start, in_flow>>

\* Mutant: the unsteady solution is not accepted.
after_left_forgotten(s, f, sol, prev) ==
  IF zero_from_left(s) THEN [sol |-> sol, prev |-> prev]
  ELSE [sol |-> lmh_unsteady(s, f), prev |-> prev]

\* The part of solve_time_step with data from the left: solution and accepted solution
after_left(s, f, sol, prev) ==
  IF zero_from_left(s) THEN [sol |-> sol, prev |-> prev]
  ELSE [sol |-> lmh_unsteady(s, f), prev |-> lmh_unsteady(s, f)]

\* The part with data from the right
after_right(s, left) ==
  IF zero_from_right(s) THEN [sol |-> lmh_steady(s), prev |-> lmh_steady(s)] ELSE left

\* Mutant: the last step writes nothing.
writes_before_end(s) == s # LmhEndTime

\* output_data() is called, except in a last step that is steady or a jump.
writes(s) == s = LmhEndTime => ~ zero_from_left(s) /\ ~ is_jump_time(s)

\* DarcyLMH::update_solution: next_time and solve_time_step
LmhUpdateSolution(len, f) ==
  LET s == lmh_t + len
      left == after_left(s, f, p_edge_solution, p_edge_solution_previous)
      now == IF s = LmhEndTime THEN left ELSE after_right(s, left)
  IN  /\ lmh_pc = "run" /\ lmh_t < LmhEndTime
      /\ s <= LmhEndTime /\ \A m \in fixed_marks : ~ (lmh_t < m /\ m < s)
      /\ zero_from_left(s) => f = 0     \* no unsteady solve, no choice
      /\ lmh_t' = s /\ lmh_dt' = len /\ lmh_tlevel' = lmh_tlevel + 1
      /\ p_edge_solution' = now.sol
      /\ p_edge_solution_previous' = now.prev
      /\ lmh_start' = IF zero_from_left(s) THEN lmh_start
                      ELSE [from |-> p_edge_solution_previous, time |-> lmh_t, level |-> lmh_tlevel]
      /\ lmh_balance' = IF writes(s) THEN balance_output(lmh_balance, now.sol, s, len, lmh_tlevel') ELSE lmh_balance
      /\ lmh_written' = IF writes(s) THEN lmh_written \cup {s} ELSE lmh_written
      /\ in_flow' = in_flow + len * (IF zero_from_left(s) THEN data_from_left(s) ELSE f)
      /\ UNCHANGED <<lmh_input, lmh_pc>>

LmhAtEnd == lmh_t = LmhEndTime /\ UNCHANGED lmh_vars

LmhNext == LmhZeroTimeStep \/ (\E len \in LmhDts, f \in LmhFluxes : LmhUpdateSolution(len, f)) \/ LmhAtEnd

LmhSpec == LmhInit /\ [][LmhNext]_lmh_vars

---------------------------------------------------------------------------
(* Properties. *)

\* An unsteady step starts from the solution in force at its start: the one computed for
\* that time, or the steady one that holds until then.  "Solver should be able to switch
\* from and to steady case depending on the zero time term."  The one exception is a steady
\* start of a single step: zero_time_step() does not accept its solution, nothing is accepted
\* in the step that leaves it, and the next starts from what was never set.
StartsFromSolutionInForce ==
  lmh_start.time >= 0 =>
    IF lmh_start.level = 1 /\ zero_from_right(0)
    THEN lmh_start.from = lmh_unset
    ELSE \/ lmh_start.from.at = lmh_start.time
         \/ /\ lmh_start.time > 0 /\ zero_from_left(lmh_start.time)
            /\ lmh_start.from.kind = "steady"
            /\ lmh_start.from.flux = data_from_left(lmh_start.time)

\* Every output time that was reached is written, but an end time only when the flow is
\* unsteady up to it and the storativity has no record for it.
OutputTimesWritten ==
  lmh_pc = "run" =>
    \A m \in LmhMarks : m <= lmh_t =>
      (m \in lmh_written <=> (m = LmhEndTime => ~ zero_from_left(m) /\ ~ is_jump_time(m)))

\* As long as the flow is unsteady the cumulative flux in the output of the balance is what
\* flowed in since the initial time, though it is integrated at the marks only.
CumulativeFluxFromStart ==
  lmh_pc = "run" /\ lmh_t \in LmhMarks \cap lmh_written
    /\ (\A s \in 0 .. lmh_t : ~ lmh_input.zero[s]) => lmh_balance.integrated_fluxes = in_flow

\* What is written is complete: no other output time is missed and, as long as the flow is
\* unsteady, the cumulative flux counts from the initial time.
OutputComplete == OutputTimesWritten /\ CumulativeFluxFromStart
============================================================================
