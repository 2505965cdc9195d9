---------------------------- MODULE TransportDG ----------------------------
(***************************************************************************)
(* Implicit transport of solutes and of heat: which of its matrices and    *)
(* vectors are assembled anew in a step.  Every input field carries flags  *)
(* that say which terms of the equation it is part of; a step reassembles  *)
(* a term when a field flagged for it has changed.  The assembly classes   *)
(* read whatever fields they need, and nothing but care keeps the flags    *)
(* and the reads together.                                                 *)
(*                                                                         *)
(* A term is represented by the fields that changed since it was assembled *)
(* though the assembly reads them.  The solution and the mass matrix are   *)
(* versions, so that the product mass_vec can be told from older products. *)
(***************************************************************************)
EXTENDS Naturals

CONSTANT DgMaxSteps    \* bound: number of steps

\* The flags of a field
in_time_term == "in_time_term"
in_main_matrix == "in_main_matrix"
in_rhs == "in_rhs"

\* The fields of a class and of the class it inherits from
inherits(own, base) ==
  [f \in DOMAIN own \cup DOMAIN base |-> IF f \in DOMAIN own THEN own[f] ELSE base[f]]

\* Mutant: the dependence of the matrix on the sources is not declared.
transport_data_no_sigma ==
  [porosity |-> {in_main_matrix, in_rhs},
   water_content |-> {in_time_term, in_main_matrix, in_rhs},
   cross_section |-> {in_time_term, in_main_matrix, in_rhs},
   flow_flux |-> {in_time_term, in_main_matrix, in_rhs},
   sources_density |-> {in_rhs}, sources_sigma |-> {in_rhs}, sources_conc |-> {in_rhs}]

\* TransportEqData: fields of every solute transport
transport_data ==
  [porosity |-> {in_main_matrix, in_rhs},
   water_content |-> {in_time_term, in_main_matrix, in_rhs},
   cross_section |-> {in_time_term, in_main_matrix, in_rhs},
   flow_flux |-> {in_time_term, in_main_matrix, in_rhs},
   sources_density |-> {in_rhs}, sources_sigma |-> {in_main_matrix, in_rhs},
   sources_conc |-> {in_rhs}]

\* ... and those of the implicit one
concentration_own_data ==
  [bc_type |-> {in_rhs, in_main_matrix}, bc_dirichlet_value |-> {in_rhs}, bc_flux |-> {in_rhs},
   bc_robin_sigma |-> {in_rhs, in_main_matrix}, init_conc |-> {},
   disp_l |-> {in_main_matrix, in_rhs}, disp_t |-> {in_main_matrix, in_rhs},
   diff_m |-> {in_main_matrix, in_rhs},
   rock_density |-> {in_time_term}, sorption_coefficient |-> {in_time_term}]

concentration_data == inherits(concentration_own_data, transport_data)

heat_data ==
  [bc_type |-> {in_rhs, in_main_matrix}, bc_dirichlet_value |-> {in_rhs}, bc_flux |-> {in_rhs},
   bc_robin_sigma |-> {in_rhs, in_main_matrix}, init_temperature |-> {},
   porosity |-> {in_main_matrix, in_time_term}, water_content |-> {in_main_matrix, in_time_term},
   flow_flux |-> {in_time_term, in_main_matrix, in_rhs},
   fluid_density |-> {in_main_matrix, in_time_term},
   fluid_heat_capacity |-> {in_main_matrix, in_time_term},
   fluid_heat_conductivity |-> {in_main_matrix},
   solid_density |-> {in_time_term}, solid_heat_capacity |-> {in_time_term},
   solid_heat_conductivity |-> {in_main_matrix},
   disp_l |-> {in_main_matrix}, disp_t |-> {in_main_matrix},
   fluid_thermal_source |-> {in_rhs}, solid_thermal_source |-> {in_rhs},
   fluid_heat_exchange_rate |-> {in_rhs}, solid_heat_exchange_rate |-> {in_rhs},
   fluid_ref_temperature |-> {in_rhs}, solid_ref_temperature |-> {in_rhs},
   cross_section |-> {in_time_term, in_main_matrix}]

dg_data == [fracture_sigma |-> {in_main_matrix}, dg_penalty |-> {in_rhs, in_main_matrix}]

flags == [solute |-> inherits(dg_data, concentration_data), heat |-> inherits(dg_data, heat_data)]

---------------------------------------------------------------------------
(* What the coefficients of the two models are computed from. *)

concentration_mass_reads == {"cross_section", "water_content"}
concentration_retardation_reads ==
  {"cross_section", "porosity", "rock_density", "sorption_coefficient"}
concentration_advection_reads ==
  {"porosity", "water_content", "cross_section", "diff_m", "disp_l", "disp_t"}
concentration_source_reads == {"cross_section", "sources_conc", "sources_density", "sources_sigma"}
concentration_sigma_reads == {"cross_section", "sources_sigma"}

heat_mass_reads == {"cross_section", "porosity", "fluid_density", "fluid_heat_capacity",
                    "solid_density", "solid_heat_capacity"}
heat_advection_reads ==
  {"fluid_density", "fluid_heat_capacity", "fluid_heat_conductivity", "solid_heat_conductivity",
   "disp_l", "disp_t", "porosity", "cross_section"}
heat_sigma_reads == heat_mass_reads \cup {"fluid_heat_exchange_rate", "solid_heat_exchange_rate"}
heat_source_reads ==
  heat_sigma_reads \cup {"fluid_thermal_source", "solid_thermal_source",
                         "fluid_ref_temperature", "solid_ref_temperature"}

concentration_bc_reads == {"bc_type", "bc_flux", "bc_robin_sigma", "bc_dirichlet_value"}
heat_bc_reads == {"bc_type", "bc_flux", "bc_robin_sigma", "bc_dirichlet_value"}

coefficient(m) ==
  IF m = "solute"
  THEN [mass |-> concentration_mass_reads, retardation |-> concentration_retardation_reads,
        advection |-> concentration_advection_reads, sources |-> concentration_source_reads,
        sigma |-> concentration_sigma_reads, bc |-> concentration_bc_reads]
  ELSE [mass |-> heat_mass_reads, retardation |-> {}, advection |-> heat_advection_reads,
        sources |-> heat_source_reads, sigma |-> heat_sigma_reads, bc |-> heat_bc_reads]

(* What the assembly classes read; the advection coefficients need the velocity too. *)

mass_assembly(m) == coefficient(m).mass \cup coefficient(m).retardation

volume_integrals(m) == coefficient(m).advection \cup coefficient(m).sigma \cup {"flow_flux"}
fluxes_boundary(m) == coefficient(m).advection \cup {"flow_flux", "bc_type", "cross_section",
                                                     "dg_penalty", "bc_robin_sigma"}
fluxes_element_element(m) == coefficient(m).advection \cup {"flow_flux", "dg_penalty"}
fluxes_element_side(m) == coefficient(m).advection \cup {"flow_flux", "cross_section", "fracture_sigma"}

stiffness_assembly(m) == volume_integrals(m) \cup fluxes_boundary(m)
                           \cup fluxes_element_element(m) \cup fluxes_element_side(m)

sources_assembly(m) == coefficient(m).sources

\* gamma, set by the boundary integrals of the matrix, brings the penalty into the vector.
bdr_cond_assembly(m) == coefficient(m).advection \cup coefficient(m).bc
                          \cup {"flow_flux", "cross_section", "dg_penalty"}

Terms == {"mass", "stiffness", "rhs"}

reads(m) == [mass |-> mass_assembly(m), stiffness |-> stiffness_assembly(m),
             rhs |-> sources_assembly(m) \cup bdr_cond_assembly(m)]

flag_of == [mass |-> in_time_term, stiffness |-> in_main_matrix, rhs |-> in_rhs]

---------------------------------------------------------------------------
VARIABLES dg_pc,         \* "start", "step" or "react"
          dg_model,      \* the equation: solute or heat
          dg_steps,      \* tlevel
          assembled,     \* stiffness_matrix, mass_matrix and rhs exist
          stale,         \* per term, the fields that changed since its assembly
          flux_changed,  \* set_time_result_ of flow_flux is "changed"
          flux_late,     \* history: the last flux taken over was of a later time than its step
          mass_matrix,   \* version of ls_dt
          solution,      \* version of the solution
          mass_vec,      \* the product of the two
          used_mass      \* history: mass_vec in the last solve

dg_vars == <<dg_pc, dg_model, dg_steps, assembled, stale, flux_changed, flux_late, mass_matrix,
             solution, mass_vec, used_mass>>

DgInit ==
  /\ dg_pc = "start" /\ dg_model \in {"solute", "heat"}
  /\ dg_steps = 0 /\ assembled = FALSE
  /\ stale = [k \in Terms |-> {}]
  /\ flux_changed = FALSE /\ flux_late = FALSE
  /\ mass_matrix = 0 /\ solution = 0 /\ mass_vec = <<0, 0>> /\ used_mass = <<0, 0>>

\* zero_time_step: the initial condition is projected; preallocate() runs the assemblies on
\* systems that only count entries, so that nothing is assembled yet.
DgZeroTimeStep ==
  /\ dg_pc = "start"
  /\ solution' = 1
  /\ dg_pc' = "step"
  /\ UNCHANGED <<dg_model, dg_steps, assembled, stale, flux_changed, flux_late, mass_matrix, mass_vec,
                 used_mass>>

\* HC_ExplicitSequential hands over the flux of a new flow solution.
DgNewVelocity ==
  /\ dg_pc = "step" /\ ~ flux_changed
  /\ flux_changed' = TRUE
  /\ stale' = [k \in Terms |-> stale[k] \cup ({"flow_flux"} \cap reads(dg_model)[k])]
  /\ UNCHANGED <<dg_pc, dg_model, dg_steps, assembled, flux_late, mass_matrix, solution, mass_vec,
                 used_mass>>

\* The conditions of update_solution; matrix and vector also ask flow_flux, which is flagged
\* for every term anyway.
reassembled_terms(changed) ==
  {k \in Terms : ~ assembled \/ \E f \in changed : flag_of[k] \in flags[dg_model][f]}

\* update_solution: set_time() of all fields, of which f has a new value (none if f is
\* "none"); the flag of the flux outlives it only if the flux is of the very end of the step.
\* Then assembly, the solve with the mass of the last step, and the new mass.
DgUpdateSolution(f, flux_in_time) ==
  LET changed == (IF f = "none" THEN {} ELSE {f})
                   \cup (IF flux_changed /\ flux_in_time THEN {"flow_flux"} ELSE {})
      new == reassembled_terms(changed)
      matrix == IF "mass" \in new THEN mass_matrix + 1 ELSE mass_matrix
      vec == IF assembled THEN mass_vec ELSE <<matrix, solution>>
  IN  /\ dg_pc = "step" /\ dg_steps < DgMaxSteps
      /\ ~ flux_changed => flux_in_time
      /\ stale' = [k \in Terms |->
                     IF k \in new THEN {} ELSE stale[k] \cup (changed \cap reads(dg_model)[k])]
      /\ assembled' = TRUE
      /\ mass_matrix' = matrix
      /\ used_mass' = vec
      /\ solution' = solution + 1
      /\ mass_vec' = <<matrix, solution'>>
      /\ flux_changed' = FALSE
      /\ flux_late' = (assembled /\ IF flux_changed THEN ~ flux_in_time ELSE flux_late)
      /\ dg_steps' = dg_steps + 1
      /\ dg_pc' = IF dg_model = "solute" THEN "react" ELSE "step"
      /\ UNCHANGED dg_model

\* Mutant: the mass is not updated after the reactions.
mass_after_reactions_kept(sol) == mass_vec

\* "update mass_vec for the case that mass matrix changes in next time step"
mass_after_reactions(sol) == <<mass_matrix, sol>>

\* TransportOperatorSplitting after its inner step: with reactions the solution is changed
\* by them (calculate_concentration_matrix, update_after_reactions).
DgReactions(changed) ==
  /\ dg_pc = "react"
  /\ solution' = IF changed THEN solution + 1 ELSE solution
  /\ mass_vec' = mass_after_reactions(solution')
  /\ dg_pc' = "step"
  /\ UNCHANGED <<dg_model, dg_steps, assembled, stale, flux_changed, flux_late, mass_matrix, used_mass>>

DgAtEnd == dg_pc = "step" /\ dg_steps = DgMaxSteps /\ UNCHANGED dg_vars

DgNext == \/ DgZeroTimeStep
          \/ DgNewVelocity
          \/ \E f \in (DOMAIN flags[dg_model] \ {"flow_flux"}) \cup {"none"}, in_time \in BOOLEAN :
               DgUpdateSolution(f, in_time)
          \/ \E changed \in BOOLEAN : DgReactions(changed)
          \/ DgAtEnd

DgSpec == DgInit /\ [][DgNext]_dg_vars

---------------------------------------------------------------------------
(* Properties. *)

\* Fields whose flags lack a term that reads them.  The retardation in the mass matrix
\* depends on the porosity; the heat sources in matrix and vector, and the fluxes on the
\* boundary of the heat equation, depend on data that are declared for other terms only.
undeclared(m) ==
  IF m = "solute"
  THEN [mass |-> {"porosity"}, stiffness |-> {}, rhs |-> {}]
  ELSE [mass |-> {},
        stiffness |-> {"solid_density", "solid_heat_capacity",
                       "fluid_heat_exchange_rate", "solid_heat_exchange_rate"},
        rhs |-> {"porosity", "cross_section", "fluid_density", "solid_density",
                 "fluid_heat_capacity", "solid_heat_capacity", "fluid_heat_conductivity",
                 "solid_heat_conductivity", "disp_l", "disp_t"}]

\* Whatever changes between two steps, the system that is solved was assembled from the data
\* of its step, apart from the undeclared dependences above and from one velocity: a flux of a
\* later time than the end of the step that takes it over is not noticed by update_solution(),
\* since set_time() clears its flag first, and only then may terms of the older flux be left.
SystemFromCurrentData ==
  dg_steps > 0 /\ ~ flux_changed =>
    \A k \in Terms : stale[k] \subseteq undeclared(dg_model)[k]
                                     \cup (IF flux_late THEN {"flow_flux"} ELSE {})

\* The mass a step starts from is that of the solution at the end of the last step, after
\* the reactions, with the mass matrix of that time, even when this step has a new matrix.
MassCarriedOver ==
  [][dg_steps' > dg_steps /\ dg_steps > 0 => used_mass' = <<mass_matrix, solution>>]_dg_vars
=============================================================================
