---------------------------- MODULE ReactionTerms ----------------------------
(* The reaction terms of the operator splitting: sorption with its isotherm   *)
(* tables (src/src/reaction/sorption_base.cc, isotherm.cc), alone or in the   *)
(* immobile zone of a dual porosity (dual_porosity.cc), followed by a first   *)
(* order reaction or decay of the fluid (first_order_reaction_base.cc,        *)
(* linear_ode_solver.cc). One region of RcElements, one substance.            *)
(*                                                                            *)
(* The data of the region (porosity, densities, isotherm and its parameters)  *)
(* is one value per element; NoSurface is the data without a sorbing surface. *)
(* A concentration is a level; the equilibrium of the sorbed and the fluid    *)
(* part is an input, since it depends on the data and on the total mass only. *)
EXTENDS Integers, FiniteSets, FiniteSetsExt

CONSTANTS RcElements,    \* elements of the region
          RcData,        \* values of the data of an element
          NoSurface,     \* data without a sorbing surface, an element of RcData
          RcLevels,      \* concentrations
          RcCases,       \* inputs: in a dual porosity, solubility (0: not
                         \* limited), table limit (-1: automatic, 0: off)
          RcDts,         \* lengths of time steps
          RcSecond,      \* length of the artificial step in front of the first one
          RcSteps        \* bound: number of time steps

\* Concentrations and the solubility are not negative, a time step is not empty.
ASSUME RcAssumption ==
  /\ RcElements # {} /\ IsFiniteSet(RcElements)
  /\ RcLevels \subseteq Nat
  /\ RcCases \subseteq [dual : BOOLEAN, solubility : Nat, table_limit : Int]
  /\ RcDts \subseteq Nat \ {0} /\ RcSecond \in Nat \ {0}
  /\ RcSteps \in Nat

NoTable == "none"
NotArrived == <<>>
NoResult == [par |-> NoTable, came |-> 0, conc |-> 0, eq |-> 0]

VARIABLES rc_case,       \* input: [dual, solubility, table_limit]
          rc_step,       \* time level, -1 before zero_time_step
          rc_dt,         \* length of the last step
          rc_data,       \* data of each element in force
          rc_conc,       \* fluid concentration the reactions left
          rc_arrived,    \* fluid concentration before the sorption of this step
          rc_isotherm,   \* [par, table, limit] of the region
          rc_max,        \* max_conc of the region
          rc_result,     \* what the last sorption did on each element
          rc_ode,        \* [step, step_changed, matrix_changed, solution]
          rc_unset       \* history: every step was as long as the artificial one

rc_vars == <<rc_case, rc_step, rc_dt, rc_data, rc_conc, rc_arrived, rc_isotherm,
             rc_max, rc_result, rc_ode, rc_unset>>

is_constant(d) == Cardinality({d[e] : e \in RcElements}) = 1

highest(c) == Max({0} \cup {c[e] : e \in RcElements})

\* Isotherm::make_table: a limit that is not positive clears the table, else
\* the table is made with the parameters of the isotherm.
make_table(iso, limit) ==
    IF limit > 0 THEN [iso EXCEPT !.table = iso.par, !.limit = limit]
                 ELSE [iso EXCEPT !.table = NoTable, !.limit = 0]

\* The fluid concentration up to which a table interpolates.
table_range(iso) ==
    IF rc_case.solubility > 0 THEN rc_case.solubility ELSE iso.limit

\* Mutant: only a table that is switched off by the input is cleared.
clears_switched_off(d) == rc_case.table_limit = 0

\* No table: the data differs on the elements or tables are switched off.
clears_table(d) == ~is_constant(d) \/ rc_case.table_limit = 0

\* SorptionBase::make_tables on the region, with data d that did or did not
\* change in the step.
make_tables(iso, d, changed, max_conc) ==
    LET call_reinit == changed /\ is_constant(d)
        fresh == IF call_reinit
                 THEN [iso EXCEPT !.par = d[CHOOSE e \in RcElements : TRUE]]
                 ELSE iso
        automatic == rc_case.table_limit < 0
        reached == automatic /\ iso.limit < max_conc
        limit == CASE reached -> 2 * max_conc
                   [] automatic /\ ~reached -> iso.limit
                   [] OTHER -> rc_case.table_limit
    IN  CASE clears_table(d) -> make_table(fresh, 0)
          [] ~clears_table(d) /\ (call_reinit \/ reached) -> make_table(fresh, limit)
          [] OTHER -> fresh

\* Isotherm::solve_conc: fluid concentration after sorption with parameters p,
\* when c comes in and eq would be the equilibrium with unlimited solubility.
solve_conc(p, c, eq) ==
    CASE p = NoSurface -> c
      [] p # NoSurface /\ rc_case.solubility > 0 /\ eq > rc_case.solubility
           -> rc_case.solubility
      [] OTHER -> eq

\* Isotherm::interpolate: behind the table the mass precipitates or the
\* equilibrium is computed.
interpolate(iso, c, eq) ==
    CASE iso.par = NoSurface -> c
      [] iso.par # NoSurface /\ eq < table_range(iso) -> eq
      [] OTHER -> IF rc_case.solubility > 0 THEN rc_case.solubility
                  ELSE solve_conc(iso.par, c, eq)

\* SorptionBase::compute_reaction on element e: by the table of the region if
\* there is one, else with the isotherm of the element's own data.
compute_reaction(iso, d, e, c, eq) ==
    IF iso.table # NoTable
    THEN [par |-> iso.table, came |-> c, eq |-> eq, conc |-> interpolate(iso, c, eq)]
    ELSE [par |-> d[e], came |-> c, eq |-> eq, conc |-> solve_conc(d[e], c, eq)]

\* LinearODESolver::set_step
set_step(ode, dt) == [ode EXCEPT !.step = dt, !.step_changed = TRUE]

\* FirstOrderReactionBase::update_solution: the matrix exponential of the step
\* is computed when the step or the matrix changed.
ode_solved(ode, dt, dt_changed) ==
    LET now == IF dt_changed THEN set_step(ode, dt) ELSE ode
    IN  IF now.step_changed \/ now.matrix_changed
        THEN [now EXCEPT !.solution = now.step, !.step_changed = FALSE,
                         !.matrix_changed = FALSE]
        ELSE now

\* TimeGovernor::is_changed_dt after a step: in the first one the length is compared with the
\* artificial step the governor begins with.
is_changed_dt(dt) == dt # rc_dt

RcInit == /\ rc_case \in RcCases
          /\ rc_step = -1
          /\ rc_dt = RcSecond
          /\ rc_data \in [RcElements -> RcData]
          /\ rc_conc = [e \in RcElements |-> 0]
          /\ rc_arrived = NotArrived
          /\ rc_isotherm = [par |-> NoTable, table |-> NoTable, limit |-> 0]
          /\ rc_max = 0
          /\ rc_result = [e \in RcElements |-> NoResult]
          /\ rc_ode = [step |-> 0, step_changed |-> TRUE,
                       matrix_changed |-> FALSE, solution |-> 0]
          /\ rc_unset = TRUE

\* Mutant: the immobile concentrations are set after the reactions were started.
initial_condition_late(init) == IF rc_case.dual THEN rc_conc ELSE init

\* zero_time_step: the transport has set its initial concentrations; a dual
\* porosity sets those of the immobile zone before its reactions start.
initial_condition(init) == init

RcZeroTimeStep ==
    /\ rc_step = -1
    /\ \E init \in [RcElements -> RcLevels] :
         /\ rc_max' = highest(initial_condition(init))
         /\ rc_conc' = init
         /\ rc_isotherm' = make_tables(rc_isotherm, rc_data, TRUE, rc_max')
         /\ rc_ode' = [rc_ode EXCEPT !.matrix_changed = TRUE]
         /\ rc_step' = 0
    /\ UNCHANGED <<rc_case, rc_dt, rc_data, rc_arrived, rc_result, rc_unset>>

\* DualPorosity::compute_reaction between the mobile concentration m and the
\* immobile one c: the new one lies between them.
exchanged(m, c) == IF m < c THEN m .. c ELSE c .. m

\* Concentrations that the sorption finds: the transported ones, or those of
\* the immobile zone after the exchange with the transported ones.
arriving ==
    IF rc_case.dual
    THEN {c \in [RcElements -> RcLevels] :
            \E m \in [RcElements -> RcLevels] :
              \A e \in RcElements : c[e] \in exchanged(m[e], rc_conc[e])}
    ELSE [RcElements -> RcLevels]

max_conc_in_step(result) ==
    IF rc_case.table_limit < 0
    THEN highest([e \in RcElements |-> result[e].conc]) ELSE 0

\* The convection step before the reactions, then the exchange of porosities.
RcTransport ==
    /\ rc_step \in 0 .. RcSteps - 1
    /\ rc_arrived = NotArrived
    /\ rc_arrived' \in arriving
    /\ rc_result' = [e \in RcElements |-> NoResult]
    /\ UNCHANGED <<rc_case, rc_step, rc_dt, rc_data, rc_conc, rc_isotherm, rc_max,
                   rc_ode, rc_unset>>

\* update_solution of the reactions, with the data d in force at the end of the
\* step: tables, sorption on every element, reaction of the fluid. Without a
\* table the isotherm is left with the data of the last element.
RcUpdateSolution(dt, d, eq) ==
    /\ rc_arrived # NotArrived
    /\ LET iso == make_tables(rc_isotherm, d, d # rc_data, rc_max)
           result == [e \in RcElements |->
                        compute_reaction(iso, d, e, rc_arrived[e], eq[e])]
       IN  /\ rc_result' = result
           /\ rc_conc' = [e \in RcElements |-> result[e].conc]
           /\ rc_max' = max_conc_in_step(result)
           /\ \/ iso.table # NoTable /\ rc_isotherm' = iso
              \/ /\ iso.table = NoTable
                 /\ \E e \in RcElements : rc_isotherm' = [iso EXCEPT !.par = d[e]]
    /\ rc_ode' = ode_solved(rc_ode, dt, is_changed_dt(dt))
    /\ rc_unset' = (rc_unset /\ dt = RcSecond)
    /\ rc_dt' = dt
    /\ rc_data' = d
    /\ rc_step' = rc_step + 1
    /\ rc_arrived' = NotArrived
    /\ UNCHANGED rc_case

RcNext == \/ RcZeroTimeStep
          \/ RcTransport
          \/ \E dt \in RcDts, d \in [RcElements -> RcData], eq \in [RcElements -> RcLevels] :
               RcUpdateSolution(dt, d, eq)

RcAtEnd == rc_step = RcSteps

RcSpec == RcInit /\ [][RcNext \/ (RcAtEnd /\ UNCHANGED rc_vars)]_rc_vars

------------------------------------------------------------------------------
\* The sorption of every element is that of the data in force on it, with the
\* fluid concentration that solving for the equilibrium would give: a table is
\* never one of older data, of a region that is no longer constant, or used
\* behind its range (make_tables and compute_reaction of sorption_base.cc,
\* compute_projection of isotherm.cc).
SorbedAsSolved ==
    rc_step > 0 /\ rc_arrived = NotArrived =>
      \A e \in RcElements :
        /\ rc_result[e].par = rc_data[e]
        /\ rc_result[e].conc = solve_conc(rc_data[e], rc_result[e].came, rc_result[e].eq)

\* With an automatic limit the table of a step reaches the highest fluid
\* concentration the previous step left in the region, the initial one for the
\* first step (update_max_conc, make_tables before clear_max_conc).
TableCoversLastStep ==
    [][ rc_case.table_limit < 0 /\ rc_arrived # NotArrived /\ is_constant(rc_data')
        => rc_isotherm'.limit >= highest(rc_conc) ]_rc_vars

\* The reaction of the fluid is advanced by the matrix exponential of the step
\* just made, though it is computed again only when the step length changes -
\* but for a start with steps as long as the artificial one: no change is
\* reported then, the step of the solver stays zero, and until the length
\* changes nothing decays (is_changed_dt in first_order_reaction_base.cc, the
\* zero step of time_governor.cc and the constructor in linear_ode_solver.cc).
DecayOverTheStep == rc_step > 0 => rc_ode.solution = IF rc_unset THEN 0 ELSE rc_dt

\* What the header of the solver says, "uses matrix exponential to compute the
\* solution at given times", of every step (linear_ode_solver.hh).
DecayEveryStep == rc_step > 0 => rc_ode.solution = rc_dt

\* Both stages of a reaction step, sorption and the reaction behind it, use the data and the
\* length of this step, though tables and matrices are kept between steps; the one exception
\* is a start with steps as long as the artificial one, which the reaction does not see.
ReactionsOfTheStep == SorbedAsSolved /\ DecayOverTheStep
==============================================================================
