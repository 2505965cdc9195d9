---------------------------- MODULE HMIterative ----------------------------
(***************************************************************************)
(* Iterative coupling of flow and mechanics (coupling/hm_iterative.cc).    *)
(* In every time step flow and mechanics are solved in turn until the      *)
(* pressure of two iterations is close; the flow gets the change of volume *)
(* as a source, the mechanics the pressure as a load.  Vectors of the last *)
(* iteration and of the last accepted step are kept in copies of their own *)
(* by the coupling and by both equations.                                  *)
(*                                                                         *)
(* A pressure or a displacement is the pair <<step, iteration>> it was     *)
(* computed in, so that copies of different age can be told apart.  The    *)
(* mechanics (mechanics/elasticity.cc) reassembles its matrix or vector    *)
(* when a field flagged for it has changed.                                *)
(***************************************************************************)
EXTENDS Naturals

CONSTANTS HmSteps,      \* bound: number of time steps
          HmLimits      \* pairs <<min_it, max_it>> of the input

ASSUME HmLimitsAssumption == HmLimits \subseteq Nat \X Nat

---------------------------------------------------------------------------
(* Mechanics: the terms every field is declared for, and what the assembly reads. *)

elasticity_data ==
  [bc_type |-> {"matrix", "rhs"}, bc_displacement |-> {"rhs"}, bc_traction |-> {"rhs"},
   load |-> {"rhs"}, young_modulus |-> {"matrix", "rhs"}, poisson_ratio |-> {"matrix", "rhs"},
   fracture_sigma |-> {"matrix", "rhs"}, cross_section |-> {"matrix", "rhs"},
   potential_load |-> {"rhs"}]

dirichlet_penalty_reads == {"young_modulus", "poisson_ratio"}
volume_integrals_reads == {"cross_section", "young_modulus", "poisson_ratio"}
fluxes_boundary_reads == {"bc_type"} \cup dirichlet_penalty_reads
matrix_element_side_reads == {"cross_section", "fracture_sigma", "young_modulus", "poisson_ratio"}
sources_reads == {"cross_section", "load", "potential_load"}
rhs_element_side_reads == {"fracture_sigma", "potential_load"}
boundary_conditions_reads ==
  {"bc_type", "cross_section", "bc_displacement", "bc_traction", "potential_load"}
    \cup dirichlet_penalty_reads

stiffness_matrix_reads ==
  volume_integrals_reads \cup fluxes_boundary_reads \cup matrix_element_side_reads
rhs_reads == sources_reads \cup rhs_element_side_reads \cup boundary_conditions_reads

mech_reads == [matrix |-> stiffness_matrix_reads, rhs |-> rhs_reads]

\* Mutant: the load is taken for a constant of the step.
mech_reassembled_once(changed, have) ==
  {k \in {"matrix", "rhs"} :
     ~ have \/ \E f \in changed \ {"potential_load"} : k \in elasticity_data[f]}

\* The conditions of solve_linear_system
mech_reassembled(changed, have) ==
  {k \in {"matrix", "rhs"} : ~ have \/ \E f \in changed : k \in elasticity_data[f]}

---------------------------------------------------------------------------
VARIABLES hm_pc,         \* "start", "step", "compare", "mechanics", "update"
          hm_limits,     \* <<min_it_, max_it_>>
          hm_step,       \* index of the time step
          it,            \* iteration
          close,         \* the error is within one of the tolerances
          hm_changed,    \* fields of the mechanics that changed in this step
          hm_copy,       \* vectors of the coupling: pressures, divergences
          hm_source,     \* the copies the flow source was computed from
          flow,          \* pressure and p_edge_solution_previous_time
          mech           \* solution, its divergence, load, stale fields, stiffness_matrix # NULL

hm_vars == <<hm_pc, hm_limits, hm_step, it, close, hm_changed, hm_copy, hm_source, flow, mech>>

nothing == <<0, 0>>        \* a vector of zeros
now == <<hm_step, it>>

HmInit ==
  /\ hm_pc = "start" /\ hm_limits \in HmLimits
  /\ hm_step = 0 /\ it = 0 /\ close = FALSE /\ hm_changed = {}
  /\ hm_copy = [old_pressure |-> nothing, old_iter_pressure |-> nothing,
                div_u |-> nothing, old_div_u |-> nothing]
  /\ hm_source = [p |-> nothing, old_p |-> nothing, div_u |-> nothing, old_div_u |-> nothing]
  /\ flow = [pressure |-> nothing, previous_time |-> nothing]
  /\ mech = [solution |-> nothing, divergence |-> nothing, load |-> nothing,
             stale |-> [k \in {"matrix", "rhs"} |-> {}], have |-> FALSE]

\* zero_time_step of a flow that is unsteady from the start (its initial condition is
\* accepted), of potential and mechanics; the solutions of time zero are of iteration 1 of
\* step 0.  The divergence of the last step is not set.
HmZeroTimeStep ==
  /\ hm_pc = "start"
  /\ flow' = [pressure |-> <<0, 1>>, previous_time |-> <<0, 1>>]
  /\ mech' = [mech EXCEPT !.solution = <<0, 1>>, !.load = <<0, 1>>, !.divergence = <<0, 1>>]
  /\ hm_copy' = [hm_copy EXCEPT !.old_pressure = <<0, 1>>, !.old_iter_pressure = <<0, 1>>,
                                !.div_u = <<0, 1>>]
  /\ hm_pc' = "step"
  /\ UNCHANGED <<hm_limits, hm_step, it, close, hm_changed, hm_source>>

\* update_solution: next_time, set_time, and the start of solve_step; f is the field of the
\* mechanics that has a new value at the new time, if any.
HmStep(f) ==
  /\ hm_pc = "step" /\ hm_step < HmSteps
  /\ hm_step' = hm_step + 1
  /\ it' = 0 /\ close' = FALSE
  /\ hm_changed' = IF f = "none" THEN {} ELSE {f}
  /\ mech' = [mech EXCEPT !.stale =
                [k \in {"matrix", "rhs"} |-> mech.stale[k] \cup (hm_changed' \cap mech_reads[k])]]
  /\ hm_pc' = "compare"
  /\ UNCHANGED <<hm_limits, hm_copy, hm_source, flow>>

\* The loop of solve_step
another_iteration == it < hm_limits[1] \/ (~ close /\ it < hm_limits[2])

\* Mutant: the counter is never advanced.
counted_not(i) == i

\* it++
counted(i) == i + 1

\* update_flow_fields
flow_source ==
  [p |-> flow.pressure, old_p |-> hm_copy.old_pressure,
   div_u |-> hm_copy.div_u, old_div_u |-> hm_copy.old_div_u]

\* solve_iteration: update_flow_fields and the flow, not accepted yet
HmSolveFlow ==
  /\ hm_pc = "compare" /\ another_iteration
  /\ it' = counted(it)
  /\ hm_source' = flow_source
  /\ flow' = [flow EXCEPT !.pressure = <<hm_step, it'>>]
  /\ hm_pc' = "mechanics"
  /\ UNCHANGED <<hm_limits, hm_step, close, hm_changed, hm_copy, mech>>

\* solve_iteration: update_potential and solve_linear_system.  The changed flag of the load
\* outlives set_time(), as the coupling has set its field to the same time before.
HmSolveMechanics ==
  LET changed == hm_changed \cup {"potential_load"}
      new == mech_reassembled(changed, mech.have)
  IN  /\ hm_pc = "mechanics"
      /\ mech' = [mech EXCEPT !.load = IF "rhs" \in new THEN flow.pressure ELSE mech.load,
                              !.solution = now, !.have = TRUE,
                              !.stale = [k \in {"matrix", "rhs"} |->
                                           IF k \in new THEN {} ELSE mech.stale[k]]]
      /\ hm_pc' = "update"
      /\ UNCHANGED <<hm_limits, hm_step, it, close, hm_changed, hm_copy, hm_source, flow>>

\* compute_iteration_error compares the pressure with old_iter_pressure, with any result;
\* update_after_iteration computes the divergence and
\* copies both unknowns.
HmUpdateAfterIteration(c) ==
  /\ hm_pc = "update"
  /\ close' = c
  /\ hm_copy' = [hm_copy EXCEPT !.div_u = mech.solution,
                                !.old_iter_pressure = flow.pressure]
  /\ mech' = [mech EXCEPT !.divergence = mech.solution]
  /\ hm_pc' = "compare"
  /\ UNCHANGED <<hm_limits, hm_step, it, hm_changed, hm_source, flow>>

\* flow_->accept_time_step()
accepted_flow == [flow EXCEPT !.previous_time = flow.pressure]

\* update_after_converged: also when max_it_ was reached without convergence
HmUpdateAfterConverged ==
  /\ hm_pc = "compare" /\ ~ another_iteration
  /\ flow' = accepted_flow
  /\ mech' = [mech EXCEPT !.divergence = mech.solution]    \* output_data
  /\ hm_copy' = [hm_copy EXCEPT !.old_pressure = flow.pressure, !.old_div_u = mech.solution]
  /\ hm_pc' = "step"
  /\ UNCHANGED <<hm_limits, hm_step, it, close, hm_changed, hm_source>>

HmAtEnd == hm_pc = "step" /\ hm_step = HmSteps /\ UNCHANGED hm_vars

HmNext == \/ HmZeroTimeStep
          \/ \E f \in (DOMAIN elasticity_data \ {"potential_load"}) \cup {"none"} : HmStep(f)
          \/ HmSolveFlow
          \/ HmSolveMechanics
          \/ \E c \in BOOLEAN : HmUpdateAfterIteration(c)
          \/ HmUpdateAfterConverged
          \/ HmAtEnd

HmSpec == HmInit /\ [][HmNext]_hm_vars /\ WF_hm_vars(HmNext)

---------------------------------------------------------------------------
(* Properties. *)

\* The flow is solved with the change of pressure and volume since the last accepted time:
\* the coupling's copy of the old pressure is the one the flow itself starts from, the
\* divergence is that of the last iteration, the old divergence that of the last step.  In
\* the first step the old divergence is zero, whatever the initial displacement is.
SourceOverTheStep ==
  hm_pc = "mechanics" =>
    /\ hm_source.old_p = flow.previous_time
    /\ hm_source.div_u = mech.solution
    /\ hm_source.old_div_u = IF hm_step = 1 THEN nothing ELSE hm_source.old_p

\* When a step is accepted the displacement was computed from the accepted pressure, with a
\* matrix and a vector assembled from the data of this step.
AcceptedTogether ==
  hm_pc = "step" /\ it > 0 =>
    /\ flow.pressure = mech.load /\ flow.pressure = mech.solution
    /\ \A k \in {"matrix", "rhs"} : mech.stale[k] = {}
    /\ hm_copy.old_pressure = flow.previous_time /\ hm_copy.old_div_u = mech.solution

\* Once the initial step is made every time step ends, converged or not.
StepsEnd == hm_pc # "start" ~> hm_pc = "step" /\ hm_step = HmSteps

\* Flow and mechanics of a time step belong together, in each iteration and when the step
\* is accepted.
StepCoupled == SourceOverTheStep /\ AcceptedTogether
=============================================================================
