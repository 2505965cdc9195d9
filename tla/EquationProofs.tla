--------------------------- MODULE EquationProofs ---------------------------
(***************************************************************************)
(* Proofs about the equations that work on the flow: implicit transport    *)
(* (TransportDG) for every number of steps, the reaction terms             *)
(* (ReactionTerms) for every set of elements, data, levels of              *)
(* concentration, inputs and step lengths, and the iterative coupling with *)
(* mechanics (HMIterative) for every number of time steps and all limits   *)
(* of iterations.                                                          *)
(***************************************************************************)
EXTENDS TransportDG, ReactionTerms, HMIterative, TLAPS, FiniteSetTheorems, WellFoundedInduction,
        NaturalsInduction

---------------------------------------------------------------------------
(* TransportDG *)

Models == {"solute", "heat"}

DgTypeOK ==
  /\ dg_pc \in {"start", "step", "react"} /\ dg_model \in Models
  /\ dg_steps \in Nat /\ assembled \in BOOLEAN /\ flux_changed \in BOOLEAN /\ flux_late \in BOOLEAN
  /\ DOMAIN stale = Terms
  /\ mass_matrix \in Nat /\ solution \in Nat

\* A velocity that the terms need not have
lagging_flux == IF flux_changed \/ flux_late THEN {"flow_flux"} ELSE {}

\* What an assembled term lacks is one of the undeclared dependences, a velocity the next step
\* takes over, or one that came for a later time.
TermsCurrent ==
  assembled => \A k \in Terms : stale[k] \subseteq undeclared(dg_model)[k] \cup lagging_flux

\* Between two steps the mass is the product of the present matrix and solution.
MassProduct ==
  /\ assembled <=> dg_steps > 0
  /\ dg_pc = "start" => dg_steps = 0
  /\ dg_pc = "step" /\ assembled => mass_vec = <<mass_matrix, solution>>

DgInv == DgTypeOK /\ TermsCurrent /\ MassProduct

---------------------------------------------------------------------------
\* The flags declared for the fields of the solute transport cover what its assembly reads.
LEMMA SoluteFlags ==
  \A k \in Terms :
    /\ \A f \in reads("solute")[k] \ undeclared("solute")[k] :
         f \in DOMAIN flags["solute"] /\ flag_of[k] \in flags["solute"][f]
    /\ flag_of[k] \in flags["solute"]["flow_flux"]
<1> DEFINE own == {"bc_type", "bc_dirichlet_value", "bc_flux", "bc_robin_sigma", "init_conc",
                   "disp_l", "disp_t", "diff_m", "rock_density", "sorption_coefficient"}
<1>1. flags["solute"] = inherits(dg_data, concentration_data)
  BY DEF flags
<1>2. \A f \in {"fracture_sigma", "dg_penalty"} :
        f \in DOMAIN flags["solute"] /\ flags["solute"][f] = dg_data[f]
  <2>1. DOMAIN dg_data = {"fracture_sigma", "dg_penalty"}
    BY DEF dg_data
  <2> QED BY <1>1, <2>1 DEF inherits
<1>3. \A f \in DOMAIN concentration_data : f \notin {"fracture_sigma", "dg_penalty"} =>
        f \in DOMAIN flags["solute"] /\ flags["solute"][f] = concentration_data[f]
  <2>1. DOMAIN dg_data = {"fracture_sigma", "dg_penalty"}
    BY DEF dg_data
  <2> QED BY <1>1, <2>1 DEF inherits
<1>4. DOMAIN concentration_own_data = own
  BY DEF concentration_own_data
<1> HIDE DEF own
<1>5. \A f \in own : f \in DOMAIN concentration_data /\ concentration_data[f] = concentration_own_data[f]
  BY <1>4 DEF concentration_data, inherits
<1>6. \A f \in DOMAIN transport_data : f \notin own =>
        f \in DOMAIN concentration_data /\ concentration_data[f] = transport_data[f]
  BY <1>4 DEF concentration_data, inherits
<1> USE DEF own
<1>7. \A f \in own : f \in DOMAIN flags["solute"] /\ flags["solute"][f] = concentration_own_data[f]
  BY <1>3, <1>5
<1>8. DOMAIN transport_data = {"porosity", "water_content", "cross_section", "flow_flux",
                               "sources_density", "sources_sigma", "sources_conc"}
  BY DEF transport_data
<1>9. \A f \in DOMAIN transport_data :
        f \in DOMAIN flags["solute"] /\ flags["solute"][f] = transport_data[f]
  BY <1>3, <1>6, <1>8
<1> HIDE DEF own
<1> HIDE DEF own
<1> DEFINE T == {"water_content", "cross_section", "rock_density", "sorption_coefficient"}
           M == {"porosity", "water_content", "cross_section", "flow_flux", "sources_sigma", "bc_type",
                 "bc_robin_sigma", "disp_l", "disp_t", "diff_m", "fracture_sigma", "dg_penalty"}
           R == {"porosity", "water_content", "cross_section", "flow_flux", "sources_density",
                 "sources_sigma", "sources_conc", "bc_type", "bc_dirichlet_value", "bc_flux",
                 "bc_robin_sigma", "disp_l", "disp_t", "diff_m", "dg_penalty"}
<1>10. \A f \in T : f \in DOMAIN flags["solute"] /\ in_time_term \in flags["solute"][f]
  BY <1>7, <1>8, <1>9 DEF transport_data, concentration_own_data, own
<1>11. \A f \in M : f \in DOMAIN flags["solute"] /\ in_main_matrix \in flags["solute"][f]
  BY <1>2, <1>7, <1>8, <1>9 DEF transport_data, concentration_own_data, own, dg_data
<1>12. \A f \in R : f \in DOMAIN flags["solute"] /\ in_rhs \in flags["solute"][f]
  BY <1>2, <1>7, <1>8, <1>9 DEF transport_data, concentration_own_data, own, dg_data
<1> USE DEF coefficient
<1>13. \A f \in reads("solute")["mass"] \ undeclared("solute")["mass"] : f \in T
  BY DEF reads, undeclared, mass_assembly, concentration_mass_reads, concentration_retardation_reads
<1>14. \A f \in reads("solute")["stiffness"] : f \in M
  BY DEF reads, stiffness_assembly, volume_integrals, fluxes_boundary, fluxes_element_element,
         fluxes_element_side, concentration_advection_reads, concentration_sigma_reads
<1>15. \A f \in reads("solute")["rhs"] : f \in R
  BY DEF reads, sources_assembly, bdr_cond_assembly, concentration_advection_reads,
         concentration_source_reads, concentration_bc_reads
<1>16. flags["solute"]["flow_flux"] = {in_time_term, in_main_matrix, in_rhs}
  <2>1. flags["solute"]["flow_flux"] = transport_data["flow_flux"]
    BY <1>8, <1>9
  <2> QED BY <2>1 DEF transport_data
<1> HIDE DEF T, M, R
<1>17. undeclared("solute")["stiffness"] = {} /\ undeclared("solute")["rhs"] = {}
  BY DEF undeclared
<1> QED BY <1>10, <1>11, <1>12, <1>13, <1>14, <1>15, <1>16, <1>17 DEF Terms, flag_of

\* The flags declared for the fields of the heat equation cover what its assembly reads, apart
\* from the undeclared dependences.
LEMMA HeatFlags ==
  \A k \in Terms :
    /\ \A f \in reads("heat")[k] \ undeclared("heat")[k] :
         f \in DOMAIN flags["heat"] /\ flag_of[k] \in flags["heat"][f]
    /\ flag_of[k] \in flags["heat"]["flow_flux"]
<1>1. flags["heat"] = inherits(dg_data, heat_data)
  BY DEF flags
<1>2. DOMAIN dg_data = {"fracture_sigma", "dg_penalty"}
  BY DEF dg_data
<1>3. \A f \in {"fracture_sigma", "dg_penalty"} :
        f \in DOMAIN flags["heat"] /\ flags["heat"][f] = dg_data[f]
  BY <1>1, <1>2 DEF inherits
<1>4. \A f \in DOMAIN heat_data : f \notin {"fracture_sigma", "dg_penalty"} =>
        f \in DOMAIN flags["heat"] /\ flags["heat"][f] = heat_data[f]
  BY <1>1, <1>2 DEF inherits
<1> DEFINE T == {"cross_section", "porosity", "fluid_density", "fluid_heat_capacity",
                 "solid_density", "solid_heat_capacity"}
           M == {"porosity", "cross_section", "flow_flux", "fluid_density", "fluid_heat_capacity",
                 "fluid_heat_conductivity", "solid_heat_conductivity", "bc_type", "bc_robin_sigma",
                 "disp_l", "disp_t"}
           R == {"flow_flux", "bc_type", "bc_dirichlet_value", "bc_flux", "bc_robin_sigma",
                 "fluid_thermal_source", "solid_thermal_source", "fluid_heat_exchange_rate",
                 "solid_heat_exchange_rate", "fluid_ref_temperature", "solid_ref_temperature"}
<1>5. \A f \in T : f \in DOMAIN heat_data /\ in_time_term \in heat_data[f]
  BY DEF heat_data
<1>6. \A f \in M : f \in DOMAIN heat_data /\ in_main_matrix \in heat_data[f]
  BY DEF heat_data
<1>7. \A f \in R : f \in DOMAIN heat_data /\ in_rhs \in heat_data[f]
  BY DEF heat_data
<1>8. /\ "fracture_sigma" \notin T \cup M \cup R /\ "dg_penalty" \notin T \cup M \cup R
      /\ \A f \in {"fracture_sigma", "dg_penalty"} : in_main_matrix \in dg_data[f]
      /\ in_rhs \in dg_data["dg_penalty"]
  BY DEF dg_data
<1> USE DEF coefficient, heat_mass_reads, heat_advection_reads, heat_sigma_reads
<1>9. \A f \in reads("heat")["mass"] : f \in T
  BY DEF reads, mass_assembly
<1>10. \A f \in reads("heat")["stiffness"] \ undeclared("heat")["stiffness"] :
         f \in M \cup {"fracture_sigma", "dg_penalty"}
  BY DEF reads, undeclared, stiffness_assembly, volume_integrals, fluxes_boundary,
         fluxes_element_element, fluxes_element_side
<1>11. \A f \in reads("heat")["rhs"] \ undeclared("heat")["rhs"] : f \in R \cup {"dg_penalty"}
  BY DEF reads, undeclared, sources_assembly, bdr_cond_assembly, heat_source_reads, heat_bc_reads
<1>12. flags["heat"]["flow_flux"] = {in_time_term, in_main_matrix, in_rhs}
  <2>1. flags["heat"]["flow_flux"] = heat_data["flow_flux"]
    BY <1>4, <1>6
  <2> QED BY <2>1 DEF heat_data
<1> HIDE DEF T, M, R
<1> QED BY <1>12, <1>3, <1>4, <1>5, <1>6, <1>7, <1>8, <1>9, <1>10, <1>11 DEF Terms, flag_of

\* A changed field that an assembly reads makes its term be assembled again, apart from the
\* undeclared dependences; a changed velocity does so for every term.
LEMMA ReassembledIfRead ==
  ASSUME dg_model \in Models, NEW changed, NEW k \in Terms, k \notin reassembled_terms(changed)
  PROVE  /\ assembled
         /\ changed \cap reads(dg_model)[k] \subseteq undeclared(dg_model)[k]
         /\ "flow_flux" \notin changed
<1>1. assembled /\ \A f \in changed : flag_of[k] \notin flags[dg_model][f]
  BY DEF reassembled_terms
<1>2. CASE dg_model = "solute"
  BY <1>1, <1>2, SoluteFlags
<1>3. CASE dg_model = "heat"
  BY <1>1, <1>3, HeatFlags
<1> QED BY <1>2, <1>3 DEF Models

---------------------------------------------------------------------------
\* HC_ExplicitSequential sets the flux
LEMMA VelocityPreserves == DgInv /\ DgNewVelocity => DgInv'
<1> SUFFICES ASSUME DgInv, DgNewVelocity PROVE DgInv'
  OBVIOUS
<1> USE DEF DgInv, DgNewVelocity
<1>1. DgTypeOK' /\ MassProduct'
  BY DEF DgTypeOK, MassProduct
<1>2. lagging_flux' = {"flow_flux"}
  BY DEF lagging_flux
<1>3. lagging_flux \subseteq {"flow_flux"}
  BY DEF lagging_flux
<1>4. TermsCurrent'
  BY <1>2, <1>3 DEF TermsCurrent
<1> QED BY <1>1, <1>4

\* update_solution
LEMMA UpdatePreserves ==
  ASSUME NEW f, NEW in_time \in BOOLEAN, DgInv, DgUpdateSolution(f, in_time)
  PROVE  DgInv'
<1> DEFINE changed == (IF f = "none" THEN {} ELSE {f})
                        \cup (IF flux_changed /\ in_time THEN {"flow_flux"} ELSE {})
           new == reassembled_terms(changed)
           matrix == IF "mass" \in new THEN mass_matrix + 1 ELSE mass_matrix
<1>1. /\ stale' = [k \in Terms |->
                     IF k \in new THEN {} ELSE stale[k] \cup (changed \cap reads(dg_model)[k])]
      /\ assembled' = TRUE /\ flux_changed' = FALSE /\ dg_model' = dg_model
      /\ mass_matrix' = matrix /\ solution' = solution + 1 /\ mass_vec' = <<matrix, solution + 1>>
      /\ dg_steps' = dg_steps + 1 /\ dg_pc' = IF dg_model = "solute" THEN "react" ELSE "step"
      /\ flux_late' = (assembled /\ IF flux_changed THEN ~ in_time ELSE flux_late)
  BY DEF DgUpdateSolution
<1>2. flux_changed /\ in_time => "flow_flux" \in changed
  OBVIOUS
<1>3. DgTypeOK /\ dg_model \in Models
  BY DEF DgInv, DgTypeOK
<1> HIDE DEF changed
<1>4. DgTypeOK'
  <2>1. mass_matrix' \in Nat /\ solution' \in Nat /\ dg_steps' \in Nat
    BY <1>1, <1>3 DEF DgTypeOK
  <2>2. assembled' \in BOOLEAN /\ flux_changed' \in BOOLEAN /\ flux_late' \in BOOLEAN
    BY <1>1
  <2> QED BY <1>1, <1>3, <2>1, <2>2 DEF DgTypeOK
<1>5. MassProduct'
  BY <1>1, <1>3 DEF MassProduct, DgTypeOK
<1>6. ASSUME NEW k \in Terms
      PROVE  stale'[k] \subseteq undeclared(dg_model)[k] \cup lagging_flux'
  <2>1. CASE k \in new
    BY <1>1, <2>1
  <2>2. CASE k \notin new
    <3>1. /\ assembled
          /\ changed \cap reads(dg_model)[k] \subseteq undeclared(dg_model)[k]
          /\ "flow_flux" \notin changed
      BY <1>3, <2>2, ReassembledIfRead
    <3>2. stale'[k] = stale[k] \cup (changed \cap reads(dg_model)[k])
      BY <1>1, <2>2
    <3>3. stale[k] \subseteq undeclared(dg_model)[k] \cup lagging_flux
      BY <3>1 DEF DgInv, TermsCurrent
    <3>4. lagging_flux \subseteq lagging_flux'
      BY <1>1, <1>2, <3>1 DEF lagging_flux
    <3> QED BY <3>1, <3>2, <3>3, <3>4
  <2> QED BY <2>1, <2>2
<1>7. TermsCurrent'
  BY <1>1, <1>6 DEF TermsCurrent
<1> QED BY <1>4, <1>5, <1>7 DEF DgInv

\* DgInv is inductive.
THEOREM DgInvariant == DgSpec => []DgInv
<1>1. DgInit => DgInv
  <2> SUFFICES ASSUME DgInit PROVE DgInv
    OBVIOUS
  <2>1. DgTypeOK
    BY DEF DgInit, DgTypeOK, Models
  <2>2. TermsCurrent /\ MassProduct
    BY DEF DgInit, TermsCurrent, MassProduct
  <2> QED BY <2>1, <2>2 DEF DgInv
<1>2. DgInv /\ [DgNext]_dg_vars => DgInv'
  <2> SUFFICES ASSUME DgInv, [DgNext]_dg_vars PROVE DgInv'
    OBVIOUS
  <2>0. ASSUME UNCHANGED <<dg_model, assembled, stale, flux_changed, flux_late>>
        PROVE  TermsCurrent'
    BY <2>0 DEF DgInv, TermsCurrent, lagging_flux
  <2>1. CASE DgZeroTimeStep
    <3>1. ~ assembled /\ DgTypeOK'
      BY <2>1 DEF DgZeroTimeStep, DgInv, DgTypeOK, MassProduct
    <3>2. MassProduct'
      BY <2>1, <3>1 DEF DgZeroTimeStep, DgInv, DgTypeOK, MassProduct
    <3> QED BY <2>0, <2>1, <3>1, <3>2 DEF DgZeroTimeStep, DgInv
  <2>2. ASSUME NEW changed \in BOOLEAN, DgReactions(changed) PROVE DgInv'
    <3>1. solution' \in Nat /\ mass_vec' = <<mass_matrix, solution'>>
      BY <2>2 DEF DgReactions, mass_after_reactions, DgInv, DgTypeOK
    <3>2. DgTypeOK'
      BY <2>2, <3>1 DEF DgReactions, DgInv, DgTypeOK
    <3>3. MassProduct'
      BY <2>2, <3>1 DEF DgReactions, DgInv, MassProduct
    <3> QED BY <2>0, <2>2, <3>2, <3>3 DEF DgReactions, DgInv
  <2>3. CASE UNCHANGED dg_vars
    BY <2>3 DEF dg_vars, DgInv, DgTypeOK, TermsCurrent, MassProduct, lagging_flux
  <2> QED BY <2>1, <2>2, <2>3, VelocityPreserves, UpdatePreserves DEF DgNext, DgAtEnd
<1> QED BY <1>1, <1>2, PTL DEF DgSpec

\* SystemFromCurrentData for every number of steps and every order of new data and flow
\* solutions, of the end of a step or of a later time: the flags of over forty fields cover what
\* six assemblies read, and only a flux of a later time stays out of the terms.
THEOREM AssembledFromCurrentData == DgSpec => []SystemFromCurrentData
<1>1. DgInv => SystemFromCurrentData
  BY DEF DgInv, TermsCurrent, MassProduct, SystemFromCurrentData, lagging_flux
<1> QED BY <1>1, DgInvariant, PTL

\* MassCarriedOver for every number of steps: reactions and a new mass matrix in between do not
\* change the mass a step starts from.
THEOREM MassOfLastStep == DgSpec => MassCarriedOver
<1> DEFINE A == dg_steps' > dg_steps /\ dg_steps > 0 => used_mass' = <<mass_matrix, solution>>
<1>1. DgInv /\ [DgNext]_dg_vars => [A]_dg_vars
  <2> SUFFICES ASSUME DgInv, DgNext, dg_steps' > dg_steps, dg_steps > 0
               PROVE  used_mass' = <<mass_matrix, solution>>
    OBVIOUS
  <2>1. PICK f \in (DOMAIN flags[dg_model] \ {"flow_flux"}) \cup {"none"}, in_time \in BOOLEAN :
          DgUpdateSolution(f, in_time)
    BY DEF DgNext, DgZeroTimeStep, DgNewVelocity, DgReactions, DgAtEnd, dg_vars, DgInv, DgTypeOK
  <2>2. assembled /\ dg_pc = "step"
    BY <2>1 DEF DgInv, MassProduct, DgUpdateSolution
  <2>3. used_mass' = mass_vec
    BY <2>1, <2>2 DEF DgUpdateSolution
  <2> QED BY <2>2, <2>3 DEF DgInv, MassProduct
<1> QED BY <1>1, DgInvariant, PTL DEF DgSpec, MassCarriedOver

---------------------------------------------------------------------------
(* ReactionTerms *)

Parameters == RcData \cup {NoTable}
Isotherms == [par : Parameters, table : Parameters, limit : Nat]

RcTypeOK ==
  /\ rc_case \in RcCases
  /\ rc_step \in Int /\ rc_step >= -1
  /\ rc_dt \in Nat /\ rc_unset \in BOOLEAN
  /\ rc_data \in [RcElements -> RcData]
  /\ rc_conc \in [RcElements -> Nat]
  /\ rc_arrived # NotArrived => rc_arrived \in [RcElements -> RcLevels]
  /\ rc_isotherm \in Isotherms
  /\ rc_max \in Nat
  /\ rc_ode \in [step : Nat, step_changed : BOOLEAN, matrix_changed : BOOLEAN, solution : Nat]

\* Nothing arrives before the reactions are started.
StartedFirst == rc_arrived # NotArrived => rc_step >= 0

\* On a region of constant data the isotherm has that data; a table is one of the isotherm
\* and of a constant region.
TableInForce ==
  /\ rc_step >= 0 /\ is_constant(rc_data) =>
       \A e \in RcElements : rc_isotherm.par = rc_data[e]
  /\ rc_isotherm.table # NoTable =>
       rc_isotherm.table = rc_isotherm.par /\ is_constant(rc_data)

\* With an automatic limit the highest concentration is that of the last step.
MaxOfLastStep ==
  rc_case.table_limit < 0 /\ rc_step >= 0 => rc_max = highest(rc_conc)

\* The solver has the length of the last step, or its own zero as long as no step differed in
\* length from the artificial one.
OdeInStep ==
  /\ rc_step <= 0 => rc_unset
  /\ rc_unset => rc_dt = RcSecond /\ rc_ode.step = 0 /\ rc_ode.solution = 0
  /\ ~ rc_unset => rc_ode.step = rc_dt /\ rc_ode.solution = rc_dt

RcInv == RcTypeOK /\ StartedFirst /\ TableInForce /\ MaxOfLastStep /\ OdeInStep /\ SorbedAsSolved

----------------------------------------------------------------------------
\* A set of numbers has a least one.
LEMMA Least ==
  ASSUME NEW S, S \subseteq Nat, S # {}
  PROVE  \E x \in S : \A y \in S : x <= y
<1>1. PICK x \in S : \A y \in S : ~ (<<y, x>> \in OpToRel(<, Nat))
  BY NatLessThanWellFounded, WFMin
<1>2. \A y \in S : ~ (y < x)
  BY <1>1 DEF OpToRel
<1> QED BY <1>2

\* A finite set of numbers has an upper bound: a number that is exceeded by the fewest of its
\* elements is exceeded by none.
LEMMA Bounded ==
  ASSUME NEW S, S \subseteq Nat, IsFiniteSet(S)
  PROVE  \E b \in Nat : \A x \in S : x <= b
<1> DEFINE above(b) == {x \in S : b < x}
           counts == {Cardinality(above(b)) : b \in Nat}
<1>1. ASSUME NEW b \in Nat
      PROVE  IsFiniteSet(above(b)) /\ Cardinality(above(b)) \in Nat
  BY FS_Subset, FS_CardinalityType
<1>2. counts \subseteq Nat /\ counts # {}
  BY <1>1
<1>3. PICK n \in counts : \A k \in counts : n <= k
  <2> HIDE DEF counts
  <2> QED BY <1>2, Least
<1>4. PICK b \in Nat : n = Cardinality(above(b))
  OBVIOUS
<1>5. ASSUME NEW x \in S, ~ (x <= b) PROVE FALSE
  <2>1. x \in Nat /\ b < x
    BY <1>4, <1>5
  <2>2. above(x) \subseteq above(b) /\ x \in above(b) /\ x \notin above(x)
    BY <1>4, <2>1
  <2>3. n <= Cardinality(above(x))
    BY <1>3, <2>1
  <2> HIDE DEF above
  <2>4. Cardinality(above(x)) <= n /\ Cardinality(above(x)) # n
    BY <1>1, <1>4, <2>2, FS_Subset
  <2> QED BY <1>1, <1>4, <2>1, <2>3, <2>4
<1> QED BY <1>4, <1>5

\* The values of a function on the region are finitely many.
LEMMA FiniteRange ==
  ASSUME NEW T, NEW c \in [RcElements -> T]
  PROVE  IsFiniteSet({c[e] : e \in RcElements})
<1> DEFINE R == {c[e] : e \in RcElements}
<1>1. c \in Surjection(RcElements, R)
  BY DEF Surjection
<1> HIDE DEF R
<1>2. IsFiniteSet(R)
  BY <1>1, RcAssumption, FS_Surjection
<1> QED BY <1>2 DEF R

\* The highest concentration of a region is a number.
LEMMA HighestIsNumber ==
  ASSUME NEW c \in [RcElements -> Nat]
  PROVE  highest(c) \in Nat
<1> DEFINE S == {0} \cup {c[e] : e \in RcElements}
           bounds == {b \in Nat : \A x \in S : x <= b}
<1>1. S \subseteq Nat /\ 0 \in S
  OBVIOUS
<1>2. IsFiniteSet(S)
  <2> DEFINE R == {c[e] : e \in RcElements}
  <2>1. IsFiniteSet(R)
    BY FiniteRange
  <2>2. IsFiniteSet({0})
    BY FS_Singleton
  <2> HIDE DEF R
  <2>3. IsFiniteSet({0} \cup R)
    BY <2>1, <2>2, FS_Union
  <2> QED BY <2>3 DEF R
<1>a. highest(c) = CHOOSE x \in S : \A y \in S : x >= y
  BY DEF highest, Max
<1> HIDE DEF S
<1>3. bounds \subseteq Nat /\ bounds # {}
  BY <1>1, <1>2, Bounded
<1>4. PICK b \in bounds : \A k \in bounds : b <= k
  <2> HIDE DEF bounds
  <2> QED BY <1>3, Least
<1>5. b \in S
  <2>1. SUFFICES ASSUME b \notin S PROVE FALSE
    OBVIOUS
  <2>2. b \in Nat /\ \A x \in S : x <= b
    BY <1>4
  <2>3. \A x \in S : x \in Nat /\ x <= b - 1
    BY <1>1, <2>1, <2>2
  <2>4. b > 0
    BY <1>1, <2>2, <2>3
  <2>5. b - 1 \in bounds
    BY <2>2, <2>3, <2>4
  <2>6. b <= b - 1
    BY <1>4, <2>5
  <2> QED BY <2>2, <2>6
<1>6. \E x \in S : \A y \in S : x >= y
  BY <1>1, <1>4, <1>5
<1>7. highest(c) \in S
  BY <1>6, <1>a
<1> QED BY <1>1, <1>7

\* The elements of a constant region have the same data.
LEMMA ConstantData ==
  ASSUME NEW d \in [RcElements -> RcData], is_constant(d), NEW e \in RcElements,
         NEW f \in RcElements
  PROVE  d[e] = d[f]
<1> DEFINE S == {d[x] : x \in RcElements}
<1>1. IsFiniteSet(S)
  BY FiniteRange
<1>2. Cardinality(S) = 1
  BY DEF is_constant
<1>3. d[e] \in S /\ d[f] \in S
  OBVIOUS
<1> HIDE DEF S
<1>4. \E x : S = {x}
  BY <1>1, <1>2, FS_Singleton
<1> QED BY <1>3, <1>4

\* What a function on the region is not: nothing has arrived.
LEMMA ArrivedIsFunction ==
  ASSUME NEW f \in [RcElements -> RcLevels]
  PROVE  f # NotArrived
<1>1. DOMAIN f = RcElements /\ DOMAIN NotArrived = {}
  BY DEF NotArrived
<1> QED BY <1>1, RcAssumption

----------------------------------------------------------------------------
\* make_tables: the isotherm of a constant region has its data, a table is made from the
\* isotherm and only on a constant region, and an automatic table reaches max_conc.
LEMMA TablesMade ==
  ASSUME NEW iso \in Isotherms, NEW d \in [RcElements -> RcData], NEW changed \in BOOLEAN,
         NEW max_conc \in Nat, rc_case \in RcCases,
         iso.table # NoTable => iso.table = iso.par,
         ~ changed /\ is_constant(d) => \A e \in RcElements : iso.par = d[e],
         NEW made, made = make_tables(iso, d, changed, max_conc)
  PROVE  /\ made \in Isotherms
         /\ is_constant(d) => \A e \in RcElements : made.par = d[e]
         /\ made.table # NoTable => made.table = made.par /\ is_constant(d)
         /\ rc_case.table_limit < 0 /\ is_constant(d) => made.limit >= max_conc
<1> DEFINE first == CHOOSE e \in RcElements : TRUE
           call_reinit == changed /\ is_constant(d)
           fresh == IF call_reinit THEN [iso EXCEPT !.par = d[first]] ELSE iso
           automatic == rc_case.table_limit < 0
           reached == automatic /\ iso.limit < max_conc
           limit == CASE reached -> 2 * max_conc
                      [] automatic /\ ~reached -> iso.limit
                      [] OTHER -> rc_case.table_limit
<1>1. made = CASE clears_table(d) -> make_table(fresh, 0)
               [] ~clears_table(d) /\ (call_reinit \/ reached) -> make_table(fresh, limit)
               [] OTHER -> fresh
  BY DEF make_tables
<1>2. first \in RcElements
  BY RcAssumption
<1>3. rc_case.table_limit \in Int
  BY RcAssumption
<1>4. limit \in Int /\ (automatic => limit \in Nat /\ limit >= max_conc)
  BY <1>3 DEF Isotherms
<1> HIDE DEF first
<1>5. /\ fresh \in Isotherms /\ fresh.limit = iso.limit /\ fresh.table = iso.table
      /\ is_constant(d) => \A e \in RcElements : fresh.par = d[e]
      /\ ~ call_reinit => fresh = iso
  <2>1. CASE call_reinit
    <3>1. d[first] \in Parameters
      BY <1>2 DEF Parameters
    <3>2. fresh = [iso EXCEPT !.par = d[first]]
      BY <2>1
    <3>3. fresh \in Isotherms /\ fresh.limit = iso.limit /\ fresh.table = iso.table
          /\ fresh.par = d[first]
      BY <3>1, <3>2 DEF Isotherms
    <3> QED BY <1>2, <2>1, <3>3, ConstantData
  <2>2. CASE ~ call_reinit
    BY <2>2
  <2> QED BY <2>1, <2>2
<1>6. ASSUME NEW l \in Int
      PROVE  /\ make_table(fresh, l) \in Isotherms
             /\ make_table(fresh, l).par = fresh.par
             /\ l > 0 => make_table(fresh, l).limit = l /\ make_table(fresh, l).table = fresh.par
             /\ ~ (l > 0) => make_table(fresh, l).limit = 0 /\ make_table(fresh, l).table = NoTable
  <2> HIDE DEF fresh
  <2>1. fresh \in Isotherms
    BY <1>5
  <2>2. CASE l > 0
    <3>1. make_table(fresh, l) = [fresh EXCEPT !.table = fresh.par, !.limit = l]
      BY <2>2 DEF make_table
    <3>2. fresh.par \in Parameters /\ l \in Nat
      BY <2>1, <2>2 DEF Isotherms
    <3> QED BY <2>1, <2>2, <3>1, <3>2 DEF Isotherms
  <2>3. CASE ~ (l > 0)
    <3>1. make_table(fresh, l) = [par |-> fresh.par, table |-> NoTable, limit |-> 0]
      BY <2>1, <2>3 DEF make_table, Isotherms
    <3>2. NoTable \in Parameters /\ fresh.par \in Parameters /\ 0 \in Nat
      BY <2>1 DEF Isotherms, Parameters
    <3>3. make_table(fresh, l) \in Isotherms
      BY <3>1, <3>2 DEF Isotherms
    <3>4. /\ make_table(fresh, l).limit = 0 /\ make_table(fresh, l).table = NoTable
          /\ make_table(fresh, l).par = fresh.par
      BY <2>1, <3>1 DEF Isotherms
    <3> QED BY <2>3, <3>3, <3>4
  <2> QED BY <2>2, <2>3
<1> HIDE DEF fresh, limit
<1>7. CASE clears_table(d)
  <2>1. made = make_table(fresh, 0)
    BY <1>1, <1>7
  <2>2. ~ (automatic /\ is_constant(d))
    BY <1>7, <1>3 DEF clears_table
  <2> QED BY <1>5, <1>6, <2>1, <2>2
<1>8. CASE ~ clears_table(d) /\ (call_reinit \/ reached)
  <2>1. made = make_table(fresh, limit)
    BY <1>1, <1>8
  <2>2. is_constant(d)
    BY <1>8 DEF clears_table
  <2> QED BY <1>4, <1>5, <1>6, <2>1, <2>2
<1>9. CASE ~ clears_table(d) /\ ~ call_reinit /\ ~ reached
  <2>1. made = fresh
    BY <1>1, <1>9
  <2>2. is_constant(d)
    BY <1>9 DEF clears_table
  <2>3. automatic => iso.limit >= max_conc
    BY <1>9 DEF Isotherms
  <2> QED BY <1>5, <1>9, <2>1, <2>2, <2>3
<1> QED BY <1>7, <1>8, <1>9

\* compute_reaction: by a table of the data of the element or without one, the result is the
\* solution for that data.
LEMMA ReactionComputed ==
  ASSUME NEW iso \in Isotherms, NEW d \in [RcElements -> RcData], NEW e \in RcElements,
         NEW c \in RcLevels, NEW eq \in RcLevels, rc_case \in RcCases,
         iso.table # NoTable => iso.table = iso.par /\ iso.par = d[e],
         NEW r, r = compute_reaction(iso, d, e, c, eq)
  PROVE  r.par = d[e] /\ r.conc = solve_conc(d[e], r.came, r.eq) /\ r.conc \in Nat
<1>1. c \in Nat /\ eq \in Nat /\ rc_case.solubility \in Nat
  BY RcAssumption
<1>2. solve_conc(d[e], c, eq) \in Nat
  BY <1>1 DEF solve_conc
<1>3. CASE iso.table # NoTable
  <2>1. r = [par |-> iso.table, came |-> c, eq |-> eq, conc |-> interpolate(iso, c, eq)]
    BY <1>3 DEF compute_reaction
  <2>2. iso.par = d[e] /\ iso.table = d[e]
    BY <1>3
  <2>3. interpolate(iso, c, eq) = solve_conc(d[e], c, eq)
    BY <1>1, <2>2 DEF interpolate, solve_conc, table_range
  <2> QED BY <1>2, <2>1, <2>2, <2>3
<1>4. CASE iso.table = NoTable
  <2>1. r = [par |-> d[e], came |-> c, eq |-> eq, conc |-> solve_conc(d[e], c, eq)]
    BY <1>4 DEF compute_reaction
  <2> QED BY <1>2, <2>1
<1> QED BY <1>3, <1>4

\* The matrix exponential is that of the step just made, or stays as it is with its length.
LEMMA ExponentialOfTheStep ==
  ASSUME NEW ode \in [step : Nat, step_changed : BOOLEAN, matrix_changed : BOOLEAN,
                      solution : Nat],
         NEW dt \in Nat, NEW old, NEW length \in Nat,
         dt = old => ode.step = length /\ ode.solution = length,
         dt # old => length = dt
  PROVE  /\ ode_solved(ode, dt, dt # old) \in [step : Nat, step_changed : BOOLEAN,
                                               matrix_changed : BOOLEAN, solution : Nat]
         /\ ode_solved(ode, dt, dt # old).step = length
         /\ ode_solved(ode, dt, dt # old).solution = length
<1> DEFINE rescaled == IF dt # old THEN set_step(ode, dt) ELSE ode
           ends == IF rescaled.step_changed \/ rescaled.matrix_changed
                   THEN [rescaled EXCEPT !.solution = rescaled.step, !.step_changed = FALSE,
                                    !.matrix_changed = FALSE]
                   ELSE rescaled
<1>1. ode_solved(ode, dt, dt # old) = ends
  BY DEF ode_solved
<1>2. rescaled \in [step : Nat, step_changed : BOOLEAN, matrix_changed : BOOLEAN, solution : Nat]
      /\ rescaled.step = length
  BY DEF set_step
<1>3. rescaled.step_changed \/ rescaled.solution = length
  BY DEF set_step
<1> HIDE DEF rescaled
<1>4. CASE rescaled.step_changed \/ rescaled.matrix_changed
  BY <1>1, <1>2, <1>4
<1>5. CASE ~ (rescaled.step_changed \/ rescaled.matrix_changed)
  BY <1>1, <1>2, <1>3, <1>5
<1> QED BY <1>4, <1>5

----------------------------------------------------------------------------
\* The reactions as constructed satisfy the invariant.
LEMMA RcInitial == RcInit => RcInv
<1> SUFFICES ASSUME RcInit PROVE RcInv
  OBVIOUS
<1> USE DEF RcInit
<1>1. RcTypeOK
  BY RcAssumption DEF RcTypeOK, Isotherms, Parameters
<1>2. StartedFirst /\ TableInForce /\ MaxOfLastStep /\ OdeInStep /\ SorbedAsSolved
  BY DEF StartedFirst, TableInForce, MaxOfLastStep, OdeInStep, SorbedAsSolved
<1> QED BY <1>1, <1>2 DEF RcInv

\* zero_time_step() keeps the invariant.
LEMMA ZeroTimeStepKeeps ==
  ASSUME RcInv, RcZeroTimeStep
  PROVE  RcInv'
<1> USE DEF RcInv
<1>1. PICK init \in [RcElements -> RcLevels] :
         /\ rc_max' = highest(init)
         /\ rc_conc' = init
         /\ rc_isotherm' = make_tables(rc_isotherm, rc_data, TRUE, rc_max')
         /\ rc_ode' = [rc_ode EXCEPT !.matrix_changed = TRUE]
         /\ rc_step' = 0
  BY DEF RcZeroTimeStep, initial_condition
<1>2. /\ rc_step = -1 /\ rc_arrived = NotArrived /\ rc_unset
      /\ UNCHANGED <<rc_case, rc_dt, rc_data, rc_arrived, rc_result, rc_unset>>
  BY DEF RcZeroTimeStep, RcTypeOK, StartedFirst, OdeInStep
<1>3. init \in [RcElements -> Nat]
  BY RcAssumption
<1>4. rc_max' \in Nat
  BY <1>1, <1>3, HighestIsNumber
<1>5. /\ rc_isotherm' \in Isotherms
      /\ is_constant(rc_data) => \A e \in RcElements : rc_isotherm'.par = rc_data[e]
      /\ rc_isotherm'.table # NoTable =>
           rc_isotherm'.table = rc_isotherm'.par /\ is_constant(rc_data)
  <2> DEFINE changed == TRUE
  <2>1. /\ changed \in BOOLEAN /\ rc_isotherm' = make_tables(rc_isotherm, rc_data, changed, rc_max')
        /\ ~ changed /\ is_constant(rc_data) => \A e \in RcElements : rc_isotherm.par = rc_data[e]
    BY <1>1
  <2>2. rc_isotherm \in Isotherms /\ rc_case \in RcCases /\ rc_data \in [RcElements -> RcData]
    BY DEF RcTypeOK
  <2>3. rc_isotherm.table # NoTable => rc_isotherm.table = rc_isotherm.par
    BY DEF TableInForce
  <2> HIDE DEF changed
  <2> QED BY <1>4, <2>1, <2>2, <2>3, TablesMade
<1>6. RcTypeOK'
  <2>1. rc_ode' \in [step : Nat, step_changed : BOOLEAN, matrix_changed : BOOLEAN, solution : Nat]
    BY <1>1 DEF RcTypeOK
  <2>2. /\ rc_conc' \in [RcElements -> Nat] /\ rc_step' \in Int /\ rc_step' >= -1
        /\ rc_arrived' = NotArrived
    BY <1>1, <1>2, <1>3
  <2>3. rc_case' \in RcCases /\ rc_dt' \in Nat /\ rc_unset' \in BOOLEAN /\ rc_data' \in [RcElements -> RcData]
    BY <1>2 DEF RcTypeOK
  <2> QED BY <1>4, <1>5, <2>1, <2>2, <2>3 DEF RcTypeOK
<1>7. TableInForce'
  BY <1>1, <1>2, <1>5 DEF TableInForce, is_constant
<1>8. MaxOfLastStep'
  BY <1>1 DEF MaxOfLastStep, highest
<1>9. StartedFirst' /\ OdeInStep' /\ SorbedAsSolved'
  BY <1>1, <1>2 DEF StartedFirst, OdeInStep, SorbedAsSolved
<1> QED BY <1>6, <1>7, <1>8, <1>9

\* New concentrations from the transport keep the invariant.
LEMMA TransportKeeps ==
  ASSUME RcInv, RcTransport
  PROVE  RcInv'
<1> USE DEF RcInv
<1>1. rc_arrived' \in [RcElements -> RcLevels]
  BY DEF RcTransport, arriving
<1>2. rc_arrived' # NotArrived
  BY <1>1, ArrivedIsFunction
<1>3. /\ rc_step \in 0 .. RcSteps - 1
      /\ UNCHANGED <<rc_case, rc_step, rc_dt, rc_data, rc_conc, rc_isotherm, rc_max, rc_ode,
                     rc_unset>>
  BY DEF RcTransport
<1>4. RcTypeOK'
  BY <1>1, <1>3 DEF RcTypeOK
<1>5. StartedFirst'
  BY <1>3, RcAssumption DEF StartedFirst
<1>6. TableInForce' /\ MaxOfLastStep' /\ OdeInStep'
  BY <1>3 DEF TableInForce, MaxOfLastStep, OdeInStep, is_constant, highest
<1>7. SorbedAsSolved'
  BY <1>2 DEF SorbedAsSolved
<1> QED BY <1>4, <1>5, <1>6, <1>7

\* The step of the reactions: it leaves the invariant, and an automatic table on a constant
\* region reaches the highest concentration before the step.
LEMMA UpdateSolutionKeeps ==
  ASSUME RcInv, NEW dt \in RcDts, NEW d \in [RcElements -> RcData],
         NEW eq \in [RcElements -> RcLevels], RcUpdateSolution(dt, d, eq)
  PROVE  /\ RcInv'
         /\ rc_case.table_limit < 0 /\ is_constant(rc_data')
              => rc_isotherm'.limit >= highest(rc_conc)
<1> USE DEF RcInv
<1> DEFINE iso == make_tables(rc_isotherm, d, d # rc_data, rc_max)
           result == [e \in RcElements |->
                        compute_reaction(iso, d, e, rc_arrived[e], eq[e])]
<1>1. /\ rc_arrived # NotArrived
      /\ rc_result' = result
      /\ rc_conc' = [e \in RcElements |-> result[e].conc]
      /\ rc_max' = max_conc_in_step(result)
      /\ \/ iso.table # NoTable /\ rc_isotherm' = iso
         \/ /\ iso.table = NoTable
            /\ \E e \in RcElements : rc_isotherm' = [iso EXCEPT !.par = d[e]]
      /\ rc_ode' = ode_solved(rc_ode, dt, dt # rc_dt)
      /\ rc_unset' = (rc_unset /\ dt = RcSecond)
      /\ rc_dt' = dt
      /\ rc_data' = d
      /\ rc_step' = rc_step + 1
      /\ rc_arrived' = NotArrived
      /\ rc_case' = rc_case
  BY DEF RcUpdateSolution, is_changed_dt
<1>2. rc_step >= 0 /\ rc_step \in Int /\ rc_arrived \in [RcElements -> RcLevels]
      /\ dt \in Nat /\ dt > 0
  BY <1>1, RcAssumption DEF RcTypeOK, StartedFirst
<1>3. /\ iso \in Isotherms
      /\ is_constant(d) => \A e \in RcElements : iso.par = d[e]
      /\ iso.table # NoTable => iso.table = iso.par /\ is_constant(d)
      /\ rc_case.table_limit < 0 /\ is_constant(d) => iso.limit >= rc_max
  <2> DEFINE changed == d # rc_data
  <2>1. changed \in BOOLEAN /\ iso = make_tables(rc_isotherm, d, changed, rc_max)
    OBVIOUS
  <2>2. ~ changed /\ is_constant(d) => \A e \in RcElements : rc_isotherm.par = d[e]
    BY <1>2 DEF TableInForce
  <2>3. rc_isotherm \in Isotherms /\ rc_max \in Nat /\ rc_case \in RcCases
    BY DEF RcTypeOK
  <2>4. rc_isotherm.table # NoTable => rc_isotherm.table = rc_isotherm.par
    BY DEF TableInForce
  <2> HIDE DEF changed, iso
  <2> QED BY <2>1, <2>2, <2>3, <2>4, TablesMade
<1> HIDE DEF iso
<1>4. ASSUME NEW e \in RcElements
      PROVE  /\ result[e].par = d[e]
             /\ result[e].conc = solve_conc(d[e], result[e].came, result[e].eq)
             /\ result[e].conc \in Nat
  <2>1. result[e] = compute_reaction(iso, d, e, rc_arrived[e], eq[e])
    OBVIOUS
  <2>2. iso.table # NoTable => iso.table = iso.par /\ iso.par = d[e]
    BY <1>3
  <2>3. rc_arrived[e] \in RcLevels /\ eq[e] \in RcLevels /\ rc_case \in RcCases
    BY <1>2 DEF RcTypeOK
  <2> HIDE DEF result
  <2> QED BY <1>3, <2>1, <2>2, <2>3, ReactionComputed
<1> HIDE DEF result
<1>5. rc_conc' \in [RcElements -> Nat]
  BY <1>1, <1>4
<1>6. MaxOfLastStep' /\ rc_max' \in Nat
  <2>1. rc_case.table_limit < 0 => rc_max' = highest(rc_conc')
    BY <1>1 DEF max_conc_in_step
  <2>2. highest(rc_conc') \in Nat
    BY <1>5, HighestIsNumber
  <2>3. rc_max' \in Nat
    BY <1>1, <2>1, <2>2 DEF max_conc_in_step
  <2>4. MaxOfLastStep'
    BY <1>1, <2>1 DEF MaxOfLastStep, highest
  <2> QED BY <2>3, <2>4
<1>7. /\ rc_isotherm' \in Isotherms
      /\ rc_isotherm'.table = iso.table /\ rc_isotherm'.limit = iso.limit
      /\ is_constant(d) => \A e \in RcElements : rc_isotherm'.par = d[e]
      /\ iso.table # NoTable => rc_isotherm' = iso
  <2>1. CASE iso.table # NoTable
    BY <1>1, <1>3, <2>1
  <2>2. CASE iso.table = NoTable
    <3>1. PICK f \in RcElements : rc_isotherm' = [iso EXCEPT !.par = d[f]]
      BY <1>1, <2>2
    <3>2. d[f] \in Parameters
      BY DEF Parameters
    <3>3. /\ rc_isotherm' \in Isotherms /\ rc_isotherm'.par = d[f]
          /\ rc_isotherm'.table = iso.table /\ rc_isotherm'.limit = iso.limit
      BY <1>3, <3>1, <3>2 DEF Isotherms
    <3> QED BY <2>2, <3>3, ConstantData
  <2> QED BY <2>1, <2>2
<1>8. TableInForce'
  BY <1>1, <1>3, <1>7 DEF TableInForce, is_constant
<1> DEFINE length == IF rc_unset /\ dt = RcSecond THEN 0 ELSE dt
<1>9. /\ rc_ode' = ode_solved(rc_ode, dt, dt # rc_dt) /\ rc_dt' = dt
      /\ rc_unset' = (rc_unset /\ dt = RcSecond) /\ rc_step' = rc_step + 1
  BY <1>1, Zenon
<1>10. /\ rc_ode' \in [step : Nat, step_changed : BOOLEAN, matrix_changed : BOOLEAN, solution : Nat]
       /\ rc_ode'.step = length /\ rc_ode'.solution = length
       /\ OdeInStep'
  <2>1. /\ length \in Nat
        /\ dt = rc_dt => rc_ode.step = length /\ rc_ode.solution = length
        /\ dt # rc_dt => length = dt
    BY <1>2 DEF OdeInStep, RcTypeOK
  <2>2. rc_ode \in [step : Nat, step_changed : BOOLEAN, matrix_changed : BOOLEAN,
                    solution : Nat]
    BY DEF RcTypeOK
  <2> HIDE DEF length
  <2>3. /\ rc_ode' \in [step : Nat, step_changed : BOOLEAN, matrix_changed : BOOLEAN, solution : Nat]
        /\ rc_ode'.step = length /\ rc_ode'.solution = length
    BY <1>2, <1>9, <2>1, <2>2, ExponentialOfTheStep
  <2>4. OdeInStep'
    <3>1. rc_unset' <=> rc_unset /\ dt = RcSecond
      BY <1>9, Zenon
    <3>2. rc_step' > 0 /\ rc_dt' = dt
      BY <1>2, <1>9
    <3>3. rc_unset' => rc_ode'.step = 0 /\ rc_ode'.solution = 0 /\ rc_dt' = RcSecond
      BY <2>3, <3>1, <3>2 DEF length
    <3>4. ~ rc_unset' => rc_ode'.step = rc_dt' /\ rc_ode'.solution = rc_dt'
      BY <2>3, <3>1, <3>2 DEF length
    <3>5. rc_step' \in Int /\ (rc_step' <= 0 => rc_unset')
      BY <1>2, <1>9
    <3> QED BY <3>3, <3>4, <3>5 DEF OdeInStep
  <2> QED BY <2>3, <2>4
<1>11. SorbedAsSolved'
  BY <1>1, <1>4 DEF SorbedAsSolved, solve_conc
<1>12. RcTypeOK'
  <2>1. rc_unset' \in BOOLEAN
    BY <1>9 DEF RcTypeOK
  <2> QED BY <1>1, <1>2, <1>5, <1>6, <1>7, <1>10, <2>1 DEF RcTypeOK
<1>13. StartedFirst'
  BY <1>1 DEF StartedFirst
<1>14. rc_case.table_limit < 0 /\ is_constant(rc_data') => rc_isotherm'.limit >= highest(rc_conc)
  <2>1. rc_case.table_limit < 0 => rc_max = highest(rc_conc)
    BY <1>2 DEF MaxOfLastStep
  <2> QED BY <1>1, <1>3, <1>7, <2>1
<1> QED BY <1>6, <1>8, <1>10, <1>11, <1>12, <1>13, <1>14

\* A step that changes nothing keeps the invariant.
LEMMA StutterKeeps ==
  ASSUME RcInv, UNCHANGED rc_vars
  PROVE  RcInv'
<1> USE DEF rc_vars
<1>1. RcTypeOK' /\ StartedFirst' /\ OdeInStep'
  BY DEF RcInv, RcTypeOK, StartedFirst, OdeInStep
<1>2. TableInForce' /\ MaxOfLastStep' /\ SorbedAsSolved'
  BY DEF RcInv, TableInForce, MaxOfLastStep, SorbedAsSolved, solve_conc
<1> QED BY <1>1, <1>2 DEF RcInv

\* Tables, the highest concentration and the matrix exponential are kept between steps and
\* are those of the data and the length of the last one, or the exponential of nothing while no
\* change of the artificial length was reported (sorption_base.cc, isotherm.cc,
\* linear_ode_solver.cc).
THEOREM ReactionInvariant == RcSpec => []RcInv
<1>1. RcInv /\ [RcNext \/ (RcAtEnd /\ UNCHANGED rc_vars)]_rc_vars => RcInv'
  BY ZeroTimeStepKeeps, TransportKeeps, UpdateSolutionKeeps, StutterKeeps DEF RcNext
<1> QED BY <1>1, RcInitial, PTL DEF RcSpec

\* Sorption and the reaction behind it use the data and the length of this step
\* (compute_reaction and make_tables of sorption_base.cc, update_solution of
\* first_order_reaction_base.cc), whatever the lengths of the steps: only as long as all of them
\* have the length of the artificial zero step does the reaction stand still.
THEOREM ReactionsOwnStep == RcSpec => []ReactionsOfTheStep
<1>1. RcInv => ReactionsOfTheStep
  BY DEF RcInv, ReactionsOfTheStep, DecayOverTheStep, OdeInStep
<1> QED BY <1>1, ReactionInvariant, PTL

\* An automatic table reaches the highest concentration the last step left on the region
\* (update_max_conc and make_tables of sorption_base.cc).
THEOREM TableCovers == RcSpec => TableCoversLastStep
<1> DEFINE covers == rc_case.table_limit < 0 /\ rc_arrived # NotArrived /\ is_constant(rc_data')
                       => rc_isotherm'.limit >= highest(rc_conc)
<1>1. RcInv /\ [RcNext \/ (RcAtEnd /\ UNCHANGED rc_vars)]_rc_vars => [covers]_rc_vars
  <2> SUFFICES ASSUME RcInv, RcNext PROVE covers
    OBVIOUS
  <2>1. CASE RcZeroTimeStep
    <3>1. rc_arrived = NotArrived
      BY <2>1 DEF RcZeroTimeStep, RcInv, StartedFirst
    <3> QED BY <3>1
  <2>2. CASE RcTransport
    BY <2>2 DEF RcTransport
  <2>3. ASSUME NEW dt \in RcDts, NEW d \in [RcElements -> RcData],
               NEW eq \in [RcElements -> RcLevels], RcUpdateSolution(dt, d, eq)
        PROVE  covers
    BY <2>3, UpdateSolutionKeeps
  <2> QED BY <2>1, <2>2, <2>3 DEF RcNext
<1> QED BY <1>1, ReactionInvariant, PTL DEF RcSpec, TableCoversLastStep

---------------------------------------------------------------------------
(* HMIterative *)

Blocks == {"matrix", "rhs"}
Version == Nat \X Nat

HmTypeOK ==
  /\ hm_pc \in {"start", "step", "compare", "mechanics", "update"}
  /\ hm_limits \in Nat \X Nat /\ hm_step \in Nat /\ it \in Nat /\ close \in BOOLEAN
  /\ hm_changed \subseteq DOMAIN elasticity_data
  /\ hm_copy \in [old_pressure : Version, old_iter_pressure : Version,
                  div_u : Version, old_div_u : Version]
  /\ hm_source \in [p : Version, old_p : Version, div_u : Version, old_div_u : Version]
  /\ flow \in [pressure : Version, previous_time : Version]
  /\ mech \in [solution : Version, divergence : Version, load : Version,
               stale : [Blocks -> SUBSET DOMAIN elasticity_data], have : BOOLEAN]

\* The copies of the coupling are those of the equations: the old pressure at all times, the
\* divergence except between the solution of the mechanics and its copying.  Between two steps
\* the pressure is the accepted one.
CopiesInStep ==
  /\ hm_copy.old_pressure = flow.previous_time
  /\ hm_pc = "step" => flow.previous_time = flow.pressure
  /\ hm_pc # "update" => hm_copy.div_u = mech.solution

\* Pressure and displacement are of the same iteration except between the two solves.
SameIteration ==
  IF hm_pc = "mechanics" THEN flow.pressure = now /\ it > 0
  ELSE flow.pressure = mech.solution

\* No step is accepted yet, so that the divergence of the last step is not set.
NoneAccepted == hm_step = 0 \/ (hm_step = 1 /\ hm_pc # "step")

OldDivergence ==
  hm_copy.old_div_u = IF NoneAccepted THEN nothing ELSE hm_copy.old_pressure

\* A coupling that never iterates, as both limits are zero; every other one makes at least one
\* iteration in a step: the error is not close before the first.
NeverIterates == hm_limits[1] = 0 /\ hm_limits[2] = 0

FirstIteration ==
  /\ hm_pc \in {"start", "step"} /\ hm_step = 0 => it = 0
  /\ hm_pc = "start" => hm_step = 0
  /\ hm_pc \in {"mechanics", "update"} => it > 0
  /\ hm_pc \in {"compare", "mechanics", "update"} => hm_step > 0
  /\ hm_pc = "compare" /\ it = 0 => ~ close
  /\ NeverIterates => it = 0
  /\ ~ NeverIterates /\ hm_pc = "step" /\ hm_step > 0 => it > 0

\* What is stale in the system of the mechanics was changed in this step, and is renewed by the
\* first iteration; the load is the pressure of the iteration.
MechanicsCurrent ==
  ~ NeverIterates =>
    /\ \A k \in Blocks :
         IF hm_pc \in {"compare", "mechanics"} /\ mech.stale[k] # {}
         THEN mech.stale[k] \subseteq hm_changed \cap mech_reads[k]
         ELSE mech.stale[k] = {}
    /\ hm_pc \in {"step", "compare"} /\ it > 0 =>
         mech.load = flow.pressure /\ \A k \in Blocks : mech.stale[k] = {}
    /\ hm_pc = "update" => mech.load = flow.pressure

\* What the last flow was solved with
SourceKept ==
  hm_pc = "mechanics" =>
    /\ hm_source.old_p = hm_copy.old_pressure
    /\ hm_source.div_u = hm_copy.div_u
    /\ hm_source.old_div_u = hm_copy.old_div_u

HmInv ==
  /\ HmTypeOK /\ CopiesInStep /\ SameIteration /\ OldDivergence
  /\ FirstIteration /\ MechanicsCurrent /\ SourceKept

---------------------------------------------------------------------------
\* The flags declared for the fields of the mechanics cover what its assembly reads: a term
\* that reads a changed field is assembled again.
LEMMA FlagsCoverReads ==
  \A k \in Blocks : \A f \in mech_reads[k] : f \in DOMAIN elasticity_data /\ k \in elasticity_data[f]
BY DEF Blocks, mech_reads, elasticity_data, stiffness_matrix_reads, rhs_reads,
       volume_integrals_reads, fluxes_boundary_reads, matrix_element_side_reads,
       dirichlet_penalty_reads, sources_reads, rhs_element_side_reads, boundary_conditions_reads

\* The state after create and the construction of both equations.
LEMMA HmInitial == HmInit => HmInv
<1> SUFFICES ASSUME HmInit PROVE HmInv
  OBVIOUS
<1> USE DEF HmInit
<1>1. HmTypeOK
  <2>1. nothing \in Version
    BY DEF nothing, Version
  <2>2. mech.stale \in [Blocks -> SUBSET DOMAIN elasticity_data]
    BY DEF Blocks
  <2> QED BY <2>1, <2>2, HmLimitsAssumption DEF HmTypeOK
<1>2. CopiesInStep /\ SameIteration /\ SourceKept /\ OldDivergence
  BY DEF CopiesInStep, SameIteration, SourceKept, OldDivergence, NoneAccepted
<1>3. FirstIteration /\ MechanicsCurrent
  BY DEF FirstIteration, NeverIterates, MechanicsCurrent, Blocks
<1> QED BY <1>1, <1>2, <1>3 DEF HmInv

\* zero_time_step: all copies are of the initial solution, the old divergence is not set.
LEMMA HmZeroPreserves == HmInv /\ HmZeroTimeStep => HmInv'
<1> SUFFICES ASSUME HmInv, HmZeroTimeStep PROVE HmInv'
  OBVIOUS
<1> USE DEF HmInv, HmZeroTimeStep, Version
<1>1. HmTypeOK'
  BY DEF HmTypeOK
<1>2. CopiesInStep' /\ SameIteration' /\ SourceKept'
  BY DEF HmTypeOK, CopiesInStep, SameIteration, SourceKept, now
<1>3. OldDivergence' /\ FirstIteration'
  BY DEF HmTypeOK, OldDivergence, NoneAccepted, FirstIteration, NeverIterates
<1>4. MechanicsCurrent'
  BY DEF HmTypeOK, MechanicsCurrent, FirstIteration, NeverIterates, Blocks
<1> QED BY <1>1, <1>2, <1>3, <1>4

\* The start of a time step makes what its changed field is read by stale.
LEMMA HmStepPreserves ==
  ASSUME NEW f \in (DOMAIN elasticity_data \ {"potential_load"}) \cup {"none"},
         HmInv, HmStep(f)
  PROVE  HmInv'
<1> USE DEF HmInv, HmStep, Version
<1>0. hm_changed' \subseteq DOMAIN elasticity_data
  OBVIOUS
<1>1. HmTypeOK'
  <2>1. mech'.stale \in [Blocks -> SUBSET DOMAIN elasticity_data]
    BY <1>0 DEF HmTypeOK, Blocks
  <2>2. mech' = [mech EXCEPT !.stale = mech'.stale]
    BY DEF HmTypeOK
  <2>3. mech' \in [solution : Version, divergence : Version, load : Version,
                   stale : [Blocks -> SUBSET DOMAIN elasticity_data], have : BOOLEAN]
    BY <2>1, <2>2 DEF HmTypeOK
  <2>4. hm_step' \in Nat /\ it' \in Nat
    BY DEF HmTypeOK
  <2>5. close' \in BOOLEAN
    OBVIOUS
  <2> QED BY <1>0, <2>3, <2>4, <2>5, Zenon DEF HmTypeOK
<1>2. CopiesInStep' /\ SameIteration' /\ SourceKept'
  BY DEF HmTypeOK, CopiesInStep, SameIteration, SourceKept, now
<1>3. OldDivergence' /\ FirstIteration'
  BY DEF HmTypeOK, OldDivergence, NoneAccepted, FirstIteration, NeverIterates
<1>4. MechanicsCurrent'
  BY DEF HmTypeOK, MechanicsCurrent, FirstIteration, NeverIterates, Blocks
<1> QED BY <1>1, <1>2, <1>3, <1>4

\* The flow is solved with the copies of the coupling.
LEMMA HmFlowPreserves == HmInv /\ HmSolveFlow => HmInv'
<1> SUFFICES ASSUME HmInv, HmSolveFlow PROVE HmInv'
  OBVIOUS
<1> USE DEF HmInv, HmSolveFlow, Version, counted, flow_source
<1>1. HmTypeOK'
  BY DEF HmTypeOK
<1>2. CopiesInStep' /\ SameIteration' /\ SourceKept'
  BY DEF HmTypeOK, CopiesInStep, SameIteration, SourceKept, now
<1>3. OldDivergence' /\ FirstIteration'
  BY DEF HmTypeOK, OldDivergence, NoneAccepted, FirstIteration, NeverIterates, another_iteration
<1>4. MechanicsCurrent'
  BY DEF HmTypeOK, MechanicsCurrent, FirstIteration, NeverIterates, Blocks
<1> QED BY <1>1, <1>2, <1>3, <1>4

\* The mechanics takes the new pressure as its load and renews every stale term.
LEMMA HmMechanicsPreserves == HmInv /\ HmSolveMechanics => HmInv'
<1> SUFFICES ASSUME HmInv, HmSolveMechanics PROVE HmInv'
  OBVIOUS
<1> USE DEF HmInv, HmSolveMechanics, Version
<1> DEFINE new == mech_reassembled(hm_changed \cup {"potential_load"}, mech.have)
<1>0. "rhs" \in new
  BY DEF mech_reassembled, elasticity_data
<1>1. HmTypeOK'
  BY DEF HmTypeOK, Blocks, now
<1>2. CopiesInStep' /\ SameIteration' /\ SourceKept'
  BY DEF HmTypeOK, CopiesInStep, SameIteration, SourceKept, now
<1>3. OldDivergence' /\ FirstIteration'
  BY DEF HmTypeOK, OldDivergence, NoneAccepted, FirstIteration, NeverIterates
<1>4. \A k \in Blocks : ~ NeverIterates => k \in new \/ mech.stale[k] = {}
  <2> SUFFICES ASSUME NEW k \in Blocks, ~ NeverIterates, mech.stale[k] # {}
               PROVE  k \in new
    OBVIOUS
  <2>1. PICK g \in hm_changed : g \in mech_reads[k]
    BY DEF MechanicsCurrent
  <2> QED BY <2>1, FlagsCoverReads DEF mech_reassembled, Blocks
<1>5. MechanicsCurrent'
  BY <1>0, <1>4 DEF HmTypeOK, MechanicsCurrent, NeverIterates, Blocks
<1> QED BY <1>1, <1>2, <1>3, <1>5

\* Both unknowns of the iteration are copied.
LEMMA HmIterationPreserves ==
  ASSUME NEW c \in BOOLEAN, HmInv, HmUpdateAfterIteration(c)
  PROVE  HmInv'
<1> USE DEF HmInv, HmUpdateAfterIteration, Version
<1>1. HmTypeOK'
  BY DEF HmTypeOK
<1>2. CopiesInStep' /\ SameIteration' /\ SourceKept'
  BY DEF HmTypeOK, CopiesInStep, SameIteration, SourceKept, now
<1>3. OldDivergence' /\ FirstIteration'
  BY DEF HmTypeOK, OldDivergence, NoneAccepted, FirstIteration, NeverIterates
<1>4. MechanicsCurrent'
  BY DEF HmTypeOK, MechanicsCurrent, FirstIteration, NeverIterates, Blocks
<1> QED BY <1>1, <1>2, <1>3, <1>4

\* The accepted pressure and displacement become the old ones together.
LEMMA HmConvergedPreserves == HmInv /\ HmUpdateAfterConverged => HmInv'
<1> SUFFICES ASSUME HmInv, HmUpdateAfterConverged PROVE HmInv'
  OBVIOUS
<1> USE DEF HmInv, HmUpdateAfterConverged, Version, accepted_flow
<1>1. HmTypeOK'
  BY DEF HmTypeOK
<1>2. CopiesInStep' /\ SameIteration' /\ SourceKept'
  BY DEF HmTypeOK, CopiesInStep, SameIteration, SourceKept, now
<1>3. FirstIteration'
  BY DEF HmTypeOK, FirstIteration, NeverIterates, another_iteration
<1>4. OldDivergence'
  BY DEF HmTypeOK, OldDivergence, NoneAccepted, FirstIteration, SameIteration
<1>5. MechanicsCurrent'
  BY <1>3 DEF HmTypeOK, MechanicsCurrent, FirstIteration, NeverIterates, Blocks
<1> QED BY <1>1, <1>2, <1>3, <1>4, <1>5

\* HmInv is inductive: every operation of the coupling preserves it.
THEOREM CouplingInvariant == HmSpec => []HmInv
<1>1. HmInv /\ [HmNext]_hm_vars => HmInv'
  <2> SUFFICES ASSUME HmInv, [HmNext]_hm_vars PROVE HmInv'
    OBVIOUS
  <2>1. CASE UNCHANGED hm_vars
    BY <2>1 DEF HmInv, HmTypeOK, CopiesInStep, SameIteration, OldDivergence, NoneAccepted,
                FirstIteration, NeverIterates, MechanicsCurrent, SourceKept, now, hm_vars
  <2> QED BY <2>1, HmZeroPreserves, HmStepPreserves, HmFlowPreserves, HmMechanicsPreserves,
             HmIterationPreserves, HmConvergedPreserves DEF HmNext, HmAtEnd
<1> QED BY <1>1, HmInitial, PTL DEF HmSpec

\* StepCoupled for every number of steps and all limits: the flow is solved with the changes
\* since the last accepted time, and pressure, displacement, load and system of the mechanics
\* of an accepted step belong together.
THEOREM CoupledInEveryStep == HmSpec => []StepCoupled
<1>1. HmInv => SourceOverTheStep
  BY DEF HmInv, CopiesInStep, OldDivergence, NoneAccepted, FirstIteration, SourceKept,
         SourceOverTheStep
<1>2. HmInv => AcceptedTogether
  <2> SUFFICES ASSUME HmInv, hm_pc = "step", it > 0 PROVE AcceptedTogether
    BY DEF AcceptedTogether
  <2>1. hm_step # 0 /\ ~ NeverIterates
    BY DEF HmInv, FirstIteration, HmTypeOK
  <2> QED BY <2>1 DEF HmInv, HmTypeOK, CopiesInStep, SameIteration, OldDivergence, NoneAccepted,
                      FirstIteration, MechanicsCurrent, AcceptedTogether, Blocks
<1> QED BY <1>1, <1>2, CouplingInvariant, PTL DEF StepCoupled
=============================================================================
