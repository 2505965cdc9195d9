------------------------------- MODULE FlowMH -------------------------------
(***************************************************************************)
(* The older mixed-hybrid flow (flow/darcy_flow_mh.cc): its system is      *)
(* assembled anew only when data have changed.  Otherwise an unsteady step *)
(* keeps the matrix, rescales the time term on its diagonal if the length  *)
(* of the step has changed, and renews the right-hand side.                *)
(*                                                                         *)
(* The time term is the version of the data it was computed from times a   *)
(* fraction num / den, 1 / dt if all is right.  Solutions are versions.    *)
(***************************************************************************)
EXTENDS Naturals

CONSTANTS MhSteps,    \* bound: number of steps
          MhDts       \* lengths of steps

ASSUME MhDtsAssumption == MhDts \subseteq Nat \ {0}

VARIABLES mh_pc,         \* "start" or "step"
          mh_index,      \* index of the step
          mh_dt,         \* step().length(), 1 before the first step
          mh_zero,       \* zero_time_term() in the present interval
          mh_data,       \* version of the input data
          data_changed,
          new_diagonal,  \* the time term
          matrix_diagonal,  \* the time term that is in the matrix
          mh_solution, mh_previous,   \* versions of schur0->get_solution(), previous_solution
          mh_used        \* history: what the last unsteady solve was done with

mh_vars == <<mh_pc, mh_index, mh_dt, mh_zero, mh_data, data_changed, new_diagonal, matrix_diagonal,
             mh_solution, mh_previous, mh_used>>

no_term == [data |-> 0, num |-> 0, den |-> 1]

MhInit ==
  /\ mh_pc = "start" /\ mh_index = 0 /\ mh_dt = 1 /\ mh_zero \in BOOLEAN
  /\ mh_data = 1 /\ data_changed = TRUE
  /\ new_diagonal = no_term /\ matrix_diagonal = no_term
  /\ mh_solution = 0 /\ mh_previous = 0
  /\ mh_used = [term |-> no_term, rhs |-> no_term, previous |-> 0, expected |-> 0,
                data |-> 0, dt |-> 1, twice |-> FALSE]

\* setup_time_term
setup_time_term(d, dt) == [data |-> d, num |-> 1, den |-> dt]

\* Mutant: the time term is not rescaled.
rescaled_never(term, last, dt) == term

\* modify_system: the scaling of the time term when the step changes its length
rescaled(term, last, dt) == [term EXCEPT !.num = @ * last, !.den = @ * dt]

\* assembly_linear_system of an unsteady step of length dt and given index, after a step of
\* length last: the time term, and the one in the matrix
unsteady_assembly(full, d, index, last, dt) ==
  LET set == IF full THEN setup_time_term(d, dt) ELSE new_diagonal
      scales == index > 0 /\ last # dt
      term == IF scales THEN rescaled(set, last, dt) ELSE set
  IN  [term |-> term, matrix |-> IF full \/ scales THEN term ELSE matrix_diagonal]

\* zero_time_step: a steady solution, or the initial condition and an assembly without solve
MhZeroTimeStep ==
  LET a == unsteady_assembly(TRUE, mh_data, 0, 1, 1)
  IN  /\ mh_pc = "start"
      /\ mh_solution' = 1
      /\ data_changed' = FALSE
      /\ new_diagonal' = IF mh_zero THEN new_diagonal ELSE a.term
      /\ matrix_diagonal' = IF mh_zero THEN no_term ELSE a.matrix
      /\ mh_pc' = "step"
      /\ UNCHANGED <<mh_index, mh_dt, mh_zero, mh_data, mh_previous, mh_used>>

\* prepare_new_time_step: the last solution becomes previous_solution.
prepared(sol, prev) == sol

\* update_solution.  Data may change up to the left limit of the new time (left), and at the
\* time itself (right), then with them the time term; a nonlinear problem assembles and solves
\* twice.  The end of the simulation returns before the right limit.
MhStep(dt, left, right, zero, twice) ==
  LET d == IF left THEN mh_data + 1 ELSE mh_data
      full == data_changed \/ left \/ twice
      a == unsteady_assembly(full, d, mh_index + 1, mh_dt, dt)
      unsteady_sol == IF mh_zero THEN mh_solution ELSE mh_solution + 1
      end == mh_index + 1 = MhSteps
      d2 == IF right THEN d + 1 ELSE d
      steady_right == ~ end /\ zero
      term_in_matrix == IF mh_zero THEN matrix_diagonal ELSE a.matrix
      changed2 == (mh_zero /\ (data_changed \/ left)) \/ right
  IN  /\ mh_pc = "step" /\ mh_index < MhSteps
      /\ end => ~ right
      /\ ~ right => zero = mh_zero
      /\ twice => ~ mh_zero
      /\ mh_index' = mh_index + 1 /\ mh_dt' = dt
      /\ mh_data' = d2 /\ mh_zero' = zero
      /\ new_diagonal' = IF mh_zero THEN new_diagonal ELSE a.term
      /\ mh_previous' = IF mh_zero THEN mh_previous ELSE prepared(mh_solution, mh_previous)
      /\ mh_used' = IF mh_zero THEN mh_used
                    ELSE [term |-> a.matrix, rhs |-> a.term, previous |-> mh_previous',
                          expected |-> mh_solution, data |-> d, dt |-> dt,
                          twice |-> IF full THEN mh_dt # dt ELSE mh_used.twice]
      /\ mh_solution' = IF steady_right THEN unsteady_sol + 1 ELSE unsteady_sol
      /\ data_changed' = IF steady_right THEN FALSE ELSE changed2
      /\ matrix_diagonal' = IF steady_right /\ changed2 THEN no_term ELSE term_in_matrix
      /\ UNCHANGED mh_pc

MhAtEnd == mh_index = MhSteps /\ UNCHANGED mh_vars

MhNext == \/ MhZeroTimeStep
          \/ \E dt \in MhDts, left \in BOOLEAN, right \in BOOLEAN, zero \in BOOLEAN, twice \in BOOLEAN :
               MhStep(dt, left, right, zero, twice)
          \/ MhAtEnd

MhSpec == MhInit /\ [][MhNext]_mh_vars

---------------------------------------------------------------------------
(* Properties. *)

term_of_step(term) == term.data = mh_used.data /\ term.num * mh_used.dt = term.den

\* Whatever was reused, every unsteady step is solved with the time term of the present data
\* and the length of the step, in the matrix and in the right-hand side; apart from a step
\* that is assembled in full and changes its length as well, and those that reuse its term.
TimeTermReused ==
  mh_used.term # no_term /\ ~ mh_used.twice =>
    term_of_step(mh_used.term) /\ term_of_step(mh_used.rhs)

\* "if time step has changed and setup_time_term not called": a time term just computed is
\* not rescaled.
TimeTermOfStep == mh_used.term # no_term => term_of_step(mh_used.term)

\* An unsteady step starts from the last solution, steady or not.
StartsFromLastSolution == mh_used.previous = mh_used.expected

\* Whatever a step takes over from the steps before is theirs: time term and last solution.
TakenOverFromLastStep == TimeTermReused /\ StartsFromLastSolution
=============================================================================
