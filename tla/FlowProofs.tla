----------------------------- MODULE FlowProofs -----------------------------
(***************************************************************************)
(* Proofs about the flow equations: the older one (FlowMH) for every       *)
(* number of steps and all their lengths, the nonlinear solver             *)
(* (NonlinearFlow) for every number of elements and of solves, all limits  *)
(* of iterations and all residuals, the time loop (DarcyFlow) for all      *)
(* schedules of storativity and data, all steps and fluxes, and the linear *)
(* system (SchurSystem) for every number of assemblies and chains of no,   *)
(* one and two complements.                                                *)
(***************************************************************************)
EXTENDS FlowMH, NonlinearFlow, DarcyFlow, SchurSystem, TLAPS, WellFoundedInduction

---------------------------------------------------------------------------
(* FlowMH *)

Term == [data : Nat, num : Nat, den : Nat]

MhTypeOK ==
  /\ mh_pc \in {"start", "step"}
  /\ mh_index \in Nat /\ mh_dt \in Nat /\ mh_data \in Nat
  /\ mh_zero \in BOOLEAN /\ data_changed \in BOOLEAN
  /\ new_diagonal \in Term /\ matrix_diagonal \in Term
  /\ mh_solution \in Nat /\ mh_previous \in Nat
  /\ mh_used \in [term : Term, rhs : Term, previous : Nat, expected : Nat,
                  data : Nat, dt : Nat, twice : BOOLEAN]

\* A term that may be reused, as the interval is unsteady and no data have changed: it is in
\* the matrix, of the present data and of the length of the last step, unless it was rescaled
\* when it was assembled.
TermReusable ==
  mh_pc = "step" /\ ~ mh_zero /\ ~ data_changed =>
    /\ matrix_diagonal = new_diagonal
    /\ new_diagonal.data = mh_data
    /\ mh_used.twice \/ new_diagonal.num * mh_dt = new_diagonal.den

\* Before the first step nothing was solved with a time term of its own.
NothingUsed == mh_pc = "start" => mh_dt = 1 /\ ~ mh_used.twice

MhInv == MhTypeOK /\ TermReusable /\ NothingUsed /\ TakenOverFromLastStep

---------------------------------------------------------------------------
\* Rescaling from the length last to dt turns the term of a step of length last into that of a
\* step of length dt, of the same data.
LEMMA RescaledTerm ==
  ASSUME NEW term \in Term, NEW last \in Nat, NEW dt \in Nat
  PROVE  /\ rescaled(term, last, dt) \in Term
         /\ rescaled(term, last, dt).data = term.data
         /\ term.num * last = term.den =>
              rescaled(term, last, dt).num * dt = rescaled(term, last, dt).den
<1> DEFINE r == rescaled(term, last, dt)
<1>1. r.data = term.data /\ r.num = term.num * last /\ r.den = term.den * dt
  BY DEF rescaled, Term
<1>2. term.num * last \in Nat /\ term.den * dt \in Nat
  BY DEF Term
<1> QED BY <1>1, <1>2 DEF rescaled, Term

\* The time term of a step and the one in the matrix are the same, well typed, of the present
\* data if it is assembled or those of the last term, and of the length dt unless a term just
\* assembled is rescaled.
LEMMA AssembledTerm ==
  ASSUME MhTypeOK, NEW full \in BOOLEAN, NEW d \in Nat, NEW index \in Nat, index > 0,
         NEW dt \in Nat, full \/ matrix_diagonal = new_diagonal
  PROVE  LET a == unsteady_assembly(full, d, index, mh_dt, dt)
         IN  /\ a.term \in Term /\ a.matrix = a.term
             /\ a.term.data = IF full THEN d ELSE new_diagonal.data
             /\ full /\ mh_dt = dt => a.term.num * dt = a.term.den
             /\ ~ full /\ new_diagonal.num * mh_dt = new_diagonal.den =>
                  a.term.num * dt = a.term.den
<1> DEFINE set == IF full THEN setup_time_term(d, dt) ELSE new_diagonal
           a == unsteady_assembly(full, d, index, mh_dt, dt)
<1>1. /\ set \in Term /\ mh_dt \in Nat
      /\ set.data = IF full THEN d ELSE new_diagonal.data
      /\ full => set.num * dt = set.den
      /\ ~ full => set = new_diagonal
  BY DEF setup_time_term, MhTypeOK, Term
<1>2. /\ a.term = IF mh_dt # dt THEN rescaled(set, mh_dt, dt) ELSE set
      /\ a.matrix = IF full \/ mh_dt # dt THEN a.term ELSE matrix_diagonal
  BY DEF unsteady_assembly
<1>3. a.matrix = a.term
  BY <1>1, <1>2
<1>4. CASE mh_dt # dt
  <2> HIDE DEF set
  <2>1. a.term = rescaled(set, mh_dt, dt)
    BY <1>2, <1>4
  <2>2. /\ rescaled(set, mh_dt, dt) \in Term
        /\ rescaled(set, mh_dt, dt).data = set.data
        /\ set.num * mh_dt = set.den =>
             rescaled(set, mh_dt, dt).num * dt = rescaled(set, mh_dt, dt).den
    BY <1>1, RescaledTerm
  <2> HIDE DEF a
  <2> QED BY <1>1, <1>3, <1>4, <2>1, <2>2 DEF a
<1>5. CASE mh_dt = dt
  BY <1>1, <1>2, <1>3, <1>5
<1> QED BY <1>4, <1>5

\* zero_time_step sets up the term of an unsteady start for the length 1.
LEMMA MhZeroPreserves == MhInv /\ MhZeroTimeStep => MhInv'
<1> SUFFICES ASSUME MhInv, MhZeroTimeStep PROVE MhInv'
  OBVIOUS
<1> DEFINE term == [data |-> mh_data, num |-> 1, den |-> 1]
<1>1. /\ mh_zero => new_diagonal' = new_diagonal /\ matrix_diagonal' = no_term
      /\ ~ mh_zero => new_diagonal' = term /\ matrix_diagonal' = term
  BY DEF MhZeroTimeStep, unsteady_assembly, setup_time_term
<1>2. /\ mh_pc = "start" /\ mh_pc' = "step" /\ mh_solution' = 1 /\ data_changed' = FALSE
      /\ mh_index' = mh_index /\ mh_dt' = mh_dt /\ mh_zero' = mh_zero /\ mh_data' = mh_data
      /\ mh_previous' = mh_previous /\ mh_used' = mh_used
  BY DEF MhZeroTimeStep
<1>3. MhTypeOK'
  <2>1. term \in Term /\ no_term \in Term /\ new_diagonal \in Term
    BY DEF MhInv, MhTypeOK, Term, no_term
  <2>2. new_diagonal' \in Term /\ matrix_diagonal' \in Term
    BY <1>1, <2>1
  <2> QED BY <1>2, <2>2 DEF MhInv, MhTypeOK
<1>4. TermReusable' /\ NothingUsed'
  <2>1. ~ mh_zero => new_diagonal'.num * mh_dt = new_diagonal'.den /\ new_diagonal'.data = mh_data
    BY <1>1, <1>2 DEF MhInv, NothingUsed
  <2> QED BY <1>1, <1>2, <2>1 DEF TermReusable, NothingUsed
<1>5. TakenOverFromLastStep'
  BY <1>2 DEF MhInv, TakenOverFromLastStep, TimeTermReused, StartsFromLastSolution, term_of_step
<1> QED BY <1>3, <1>4, <1>5 DEF MhInv

\* update_solution
LEMMA MhStepPreserves ==
  ASSUME NEW dt \in MhDts, NEW left \in BOOLEAN, NEW right \in BOOLEAN, NEW zero \in BOOLEAN,
         NEW twice \in BOOLEAN, MhInv, MhStep(dt, left, right, zero, twice)
  PROVE  MhInv'
<1> DEFINE d == IF left THEN mh_data + 1 ELSE mh_data
           full == data_changed \/ left \/ twice
           a == unsteady_assembly(full, d, mh_index + 1, mh_dt, dt)
           d2 == IF right THEN d + 1 ELSE d
<1>1. dt \in Nat /\ d \in Nat /\ d2 \in Nat /\ full \in BOOLEAN /\ mh_index + 1 \in Nat /\ mh_index + 1 > 0
  BY MhDtsAssumption DEF MhInv, MhTypeOK
<1>2. mh_pc = "step" /\ MhTypeOK
  BY DEF MhStep, MhInv
<1>3. CASE mh_zero
  <2>1. /\ new_diagonal' = new_diagonal /\ mh_previous' = mh_previous /\ mh_used' = mh_used
        /\ matrix_diagonal' = matrix_diagonal \/ matrix_diagonal' = no_term
        /\ mh_index' = mh_index + 1 /\ mh_dt' = dt /\ mh_data' = d2 /\ mh_zero' = zero /\ mh_pc' = mh_pc
    BY <1>3 DEF MhStep
  <2>2. data_changed' \in BOOLEAN /\ (~ mh_zero' => data_changed')
    BY <1>3 DEF MhStep
  <2>5. mh_solution' \in Nat
    BY <1>2, <1>3 DEF MhStep, MhTypeOK
  <2>3. MhTypeOK'
    BY <1>1, <1>2, <2>1, <2>2, <2>5 DEF MhTypeOK, Term, no_term
  <2>4. TakenOverFromLastStep'
    BY <2>1 DEF MhInv, TakenOverFromLastStep, TimeTermReused, StartsFromLastSolution, term_of_step
  <2> QED BY <1>2, <2>1, <2>2, <2>3, <2>4 DEF MhInv, TermReusable, NothingUsed
<1>4. CASE ~ mh_zero
  <2>1. /\ ~ full => new_diagonal.data = mh_data /\ matrix_diagonal = new_diagonal
        /\ ~ full /\ ~ mh_used.twice => new_diagonal.num * mh_dt = new_diagonal.den
    BY <1>2, <1>4 DEF MhInv, TermReusable
  <2>2. /\ a.term \in Term /\ a.matrix = a.term /\ a.term.data = d
        /\ full /\ mh_dt = dt => a.term.num * dt = a.term.den
        /\ ~ full /\ new_diagonal.num * mh_dt = new_diagonal.den => a.term.num * dt = a.term.den
    <3>1. full \/ matrix_diagonal = new_diagonal
      BY <2>1
    <3> HIDE DEF a, d, full
    <3>2. /\ a.term \in Term /\ a.matrix = a.term
          /\ a.term.data = IF full THEN d ELSE new_diagonal.data
          /\ full /\ mh_dt = dt => a.term.num * dt = a.term.den
          /\ ~ full /\ new_diagonal.num * mh_dt = new_diagonal.den => a.term.num * dt = a.term.den
      BY <1>1, <1>2, <3>1, AssembledTerm DEF a
    <3>3. ~ full => d = mh_data
      BY DEF full, d
    <3> QED BY <3>2, <3>3, <2>1
  <2>3. /\ new_diagonal' = a.term /\ mh_previous' = mh_solution
        /\ mh_used' = [term |-> a.matrix, rhs |-> a.term, previous |-> mh_solution,
                       expected |-> mh_solution, data |-> d, dt |-> dt,
                       twice |-> IF full THEN mh_dt # dt ELSE mh_used.twice]
        /\ mh_index' = mh_index + 1 /\ mh_dt' = dt /\ mh_data' = d2 /\ mh_zero' = zero
        /\ mh_pc' = mh_pc
    BY <1>4 DEF MhStep, prepared
  <2>4. /\ data_changed' \in BOOLEAN
        /\ matrix_diagonal' = a.matrix \/ matrix_diagonal' = no_term
        /\ ~ zero => data_changed' = right /\ matrix_diagonal' = a.matrix
    BY <1>4 DEF MhStep
  <2>10. mh_solution' \in Nat
    BY <1>2, <1>4 DEF MhStep, MhTypeOK
  <2> HIDE DEF a, d, full, d2
  <2>5. mh_used'.twice \in BOOLEAN
    BY <1>2, <2>3 DEF MhTypeOK
  <2>6. MhTypeOK'
    BY <1>1, <1>2, <2>2, <2>3, <2>4, <2>5, <2>10 DEF MhTypeOK, Term, no_term
  <2>7. ~ mh_used'.twice => a.term.num * dt = a.term.den
    BY <2>1, <2>2, <2>3
  <2>8. TermReusable'
    BY <2>2, <2>3, <2>4, <2>7 DEF TermReusable, d2
  <2>9. TakenOverFromLastStep'
    BY <2>2, <2>3, <2>7 DEF TakenOverFromLastStep, TimeTermReused, StartsFromLastSolution, term_of_step
  <2> QED BY <1>2, <2>3, <2>6, <2>8, <2>9 DEF MhInv, NothingUsed
<1> QED BY <1>2, <1>3, <1>4 DEF MhTypeOK

\* MhInv is inductive.
THEOREM TermInvariant == MhSpec => []MhInv
<1>1. MhInit => MhInv
  BY DEF MhInit, MhInv, MhTypeOK, TermReusable, NothingUsed, TakenOverFromLastStep, TimeTermReused,
         StartsFromLastSolution, Term, no_term
<1>2. MhInv /\ [MhNext]_mh_vars => MhInv'
  <2> SUFFICES ASSUME MhInv, [MhNext]_mh_vars PROVE MhInv'
    OBVIOUS
  <2>1. CASE UNCHANGED mh_vars
    BY <2>1 DEF MhInv, MhTypeOK, TermReusable, NothingUsed, TakenOverFromLastStep, TimeTermReused,
                StartsFromLastSolution, term_of_step, mh_vars
  <2> QED BY <2>1, MhZeroPreserves, MhStepPreserves DEF MhNext, MhAtEnd
<1> QED BY <1>1, <1>2, PTL DEF MhSpec

\* TakenOverFromLastStep for every sequence of step lengths and of changes of data: however often
\* the time term is rescaled instead of assembled, it is that of the present data and step, and
\* the step starts from the last solution.
THEOREM TermAndSolutionTakenOver == MhSpec => []TakenOverFromLastStep
BY TermInvariant, PTL DEF MhInv

---------------------------------------------------------------------------
(* NonlinearFlow *)

NlTypeOK ==
  /\ nl_pc \in {"idle", "loop", "reconstruct", "failed"}
  /\ nl_case \in NlCases
  /\ nonlinear_iteration \in Nat /\ residual_norm \in Nat
  /\ history \in Seq(Nat)
  /\ assemblies \in 0 .. 2

\* In a solve the history has the residual of every iteration made so far.
HistoryOfSolve ==
  nl_pc # "idle" =>
    /\ Len(history) = nonlinear_iteration
    /\ completed = nonlinear_iteration
    /\ nonlinear_iteration <= nl_case.max_it

\* After an assembly an element whose one seepage side is a Dirichlet side has its local system
\* saved: the system is saved by the new type of the side, and is used by the old one next time.
SystemKept ==
  assemblies >= 1 =>
    \A e \in NlEls : nl_case.seepage[e] = 1 /\ switch[e][1] => saved[e] = "last"

NlInv == NlTypeOK /\ HistoryOfSolve /\ DivergesAboveTolerance /\ SystemKept /\ SeepageTestsOwnFlux

---------------------------------------------------------------------------
\* Limits of the input: the least number of iterations is not over the greatest.
LEMMA Limits ==
  ASSUME NlTypeOK
  PROVE  /\ nl_case.max_it \in Nat /\ nl_case.min_it \in Nat /\ min_n_it \in Nat
         /\ min_n_it <= nl_case.max_it
BY NlAssumption DEF NlTypeOK, min_n_it

\* The loop goes on only below max_it.
LEMMA IteratesBelowLimit ==
  ASSUME NlTypeOK, iterates
  PROVE  nonlinear_iteration < nl_case.max_it
BY Limits DEF iterates, NlTypeOK

\* An assembly keeps the system of every element it may be asked for, and tests each single
\* seepage side that is a Dirichlet side with the system kept before.
LEMMA AssemblyKeeps ==
  ASSUME NlTypeOK, SystemKept, NEW over \in over_outcomes, assembly_linear_system(over),
         nl_case' = nl_case
  PROVE  assemblies' \in 0 .. 2 /\ SystemKept' /\ SeepageTestsOwnFlux'
<1>1. assemblies' \in 1 .. 2 /\ (assemblies' >= 2 => assemblies >= 1)
  BY DEF assembly_linear_system, NlTypeOK
<1>2. SystemKept'
  <2> SUFFICES ASSUME NEW e \in NlEls, nl_case.seepage[e] = 1, switch'[e][1]
               PROVE  saved'[e] = "last"
    BY DEF SystemKept, NlEls
  <2>1. switch'[e] = switched(e, over[e])
    BY DEF assembly_linear_system
  <2>2. saves(e, switched(e, over[e]), switch[e])
    BY <2>1 DEF saves
  <2> QED BY <2>2 DEF assembly_linear_system
<1>3. SeepageTestsOwnFlux'
  <2> SUFFICES ASSUME assemblies >= 1, NEW e \in NlEls, nl_case.seepage[e] = 1
               PROVE  tested'[e] \subseteq {[of |-> e, age |-> "last"]}
    BY <1>1 DEF SeepageTestsOwnFlux, NlEls
  <2>1. CASE dirichlet(e) = {}
    BY <2>1 DEF assembly_linear_system
  <2>2. CASE dirichlet(e) # {}
    <3>1. switch[e][1]
      BY <2>2 DEF dirichlet, NlSides
    <3>2. saved[e] = "last"
      BY <3>1 DEF SystemKept
    <3>3. tested'[e] = {load_local_system(e, saved, reconstructed_before(e))}
      BY <2>2 DEF assembly_linear_system
    <3> QED BY <3>2, <3>3 DEF load_local_system
  <2> QED BY <2>1, <2>2
<1> QED BY <1>1, <1>2, <1>3

\* solve_nonlinear up to the loop
LEMMA StartPreserves ==
  ASSUME NEW over \in over_outcomes, NEW r \in NlResiduals, NlInv, NlStart(over, r)
  PROVE  NlInv'
<1> USE DEF NlInv, NlStart
<1>1. assemblies' \in 0 .. 2 /\ SystemKept' /\ SeepageTestsOwnFlux'
  BY AssemblyKeeps
<1>2. NlTypeOK'
  BY <1>1, NlAssumption DEF NlTypeOK
<1>3. HistoryOfSolve'
  BY Limits DEF HistoryOfSolve
<1>4. DivergesAboveTolerance'
  BY DEF DivergesAboveTolerance
<1> QED BY <1>1, <1>2, <1>3, <1>4

\* One iteration
LEMMA IteratePreserves ==
  ASSUME NEW over \in over_outcomes, NEW r \in NlResiduals, NlInv, NlIterate(over, r)
  PROVE  NlInv'
<1> USE DEF NlInv, NlIterate
<1>1. assemblies' \in 0 .. 2 /\ SystemKept' /\ SeepageTestsOwnFlux'
  <2>1. CASE nl_case.linear
    BY <2>1 DEF NlTypeOK, SystemKept, SeepageTestsOwnFlux, NlEls
  <2>2. CASE ~ nl_case.linear
    BY <2>2, AssemblyKeeps
  <2> QED BY <2>1, <2>2
<1>2. nl_pc' \in {"loop", "reconstruct"}
  OBVIOUS
<1>3. NlTypeOK'
  BY <1>1, <1>2, NlAssumption DEF NlTypeOK
<1>4. HistoryOfSolve'
  <2>1. /\ Len(history) = nonlinear_iteration /\ completed = nonlinear_iteration
        /\ history \in Seq(Nat) /\ residual_norm \in Nat /\ nonlinear_iteration \in Nat
    BY DEF HistoryOfSolve, NlTypeOK
  <2>2. Len(history') = nonlinear_iteration'
    BY <2>1
  <2>3. nonlinear_iteration < nl_case.max_it /\ nl_case.max_it \in Nat
    BY IteratesBelowLimit, Limits
  <2>4. completed' = nonlinear_iteration' /\ nonlinear_iteration' <= nl_case'.max_it
    BY <2>1, <2>3
  <2> QED BY <2>2, <2>4 DEF HistoryOfSolve
<1>5. DivergesAboveTolerance'
  BY <1>2 DEF DivergesAboveTolerance
<1> QED BY <1>1, <1>3, <1>4, <1>5

\* Stagnation: five residuals are known, so that iterations below the tolerance were forced.
LEMMA StagnationPreserves == NlInv /\ NlStagnation => NlInv'
<1> SUFFICES ASSUME NlInv, NlStagnation PROVE NlInv'
  OBVIOUS
<1> USE DEF NlInv, NlStagnation
<1>1. nonlinear_iteration >= 4
  <2>1. Len(Append(history, residual_norm)) = nonlinear_iteration + 1
    BY DEF NlTypeOK, HistoryOfSolve
  <2>2. Len(Append(history, residual_norm)) >= 5
    BY DEF stagnates
  <2> QED BY <2>1, <2>2 DEF NlTypeOK
<1>2. residual_norm > NlTolerance \/ min_n_it >= 5
  BY <1>1, Limits DEF iterates, NlTypeOK
<1>3. nl_pc' \in {"failed", "reconstruct"}
  OBVIOUS
<1>4. NlTypeOK' /\ HistoryOfSolve'
  BY <1>3 DEF NlTypeOK, HistoryOfSolve
<1>5. DivergesAboveTolerance'
  BY <1>2 DEF DivergesAboveTolerance, min_n_it
<1>6. SystemKept' /\ SeepageTestsOwnFlux'
  BY DEF SystemKept, SeepageTestsOwnFlux, NlEls
<1> QED BY <1>4, <1>5, <1>6

\* NlInv is inductive.
THEOREM SolverInvariant == NlSpec => []NlInv
<1>1. NlInit => NlInv
  BY DEF NlInit, NlInv, NlTypeOK, HistoryOfSolve, DivergesAboveTolerance, SystemKept,
         SeepageTestsOwnFlux
<1>2. NlInv /\ [NlNext]_nl_vars => NlInv'
  <2> SUFFICES ASSUME NlInv, [NlNext]_nl_vars PROVE NlInv'
    OBVIOUS
  <2>1. CASE NlReconstruct
    BY <2>1 DEF NlReconstruct, NlInv, NlTypeOK, HistoryOfSolve, DivergesAboveTolerance, SystemKept,
                SeepageTestsOwnFlux, NlEls
  <2>2. CASE UNCHANGED nl_vars
    BY <2>2 DEF nl_vars, NlInv, NlTypeOK, HistoryOfSolve, DivergesAboveTolerance, SystemKept,
                SeepageTestsOwnFlux, NlEls, min_n_it
  <2> QED BY <2>1, <2>2, StartPreserves, IteratePreserves, StagnationPreserves DEF NlNext, NlAtEnd
<1> QED BY <1>1, <1>2, PTL DEF NlSpec

\* SolveLeftInTime for all limits and residuals: neither an error below the tolerance nor more
\* iterations than allowed, and the counter is exact.
THEOREM SolvesLeftInTime == NlSpec => []SolveLeftInTime
<1>1. NlInv => SolveLeftInTime
  BY DEF NlInv, SolveLeftInTime, IterationsCounted, HistoryOfSolve
<1> QED BY <1>1, SolverInvariant, PTL

\* SeepageTestsOwnFlux for every number of elements, whatever the sides switch to: no element with
\* one seepage side is tested with the fluxes of another element or of an older assembly.
THEOREM OwnFluxTested == NlSpec => []SeepageTestsOwnFlux
BY SolverInvariant, PTL DEF NlInv

---------------------------------------------------------------------------
(* DarcyFlow *)

LmhTypeOK ==
  /\ lmh_pc \in {"start", "run"}
  /\ lmh_input \in LmhSchedules
  /\ lmh_t \in 0 .. LmhEndTime
  /\ lmh_tlevel \in Nat
  /\ lmh_pc = "start" => lmh_t = 0 /\ lmh_tlevel = 0
  /\ lmh_tlevel = 0 <=> lmh_t = 0

\* The accepted solution before the end: in a steady interval the one of the present time,
\* else the one of the present time or the steady one that was in force until now.  A steady
\* start is not accepted, nor is anything in a step that ends it.
AcceptedInForce ==
  lmh_pc = "run" /\ lmh_t < LmhEndTime =>
    /\ zero_from_right(lmh_t) /\ lmh_t > 0 => p_edge_solution_previous = lmh_steady(lmh_t)
    /\ zero_from_right(0) /\ (lmh_t = 0 \/ (lmh_tlevel = 1 /\ ~ zero_from_right(lmh_t))) =>
         p_edge_solution_previous = lmh_unset
    /\ ~ zero_from_right(lmh_t) /\ ~ (lmh_tlevel = 1 /\ zero_from_right(0)) =>
         \/ p_edge_solution_previous.at = lmh_t
         \/ /\ lmh_t > 0 /\ zero_from_left(lmh_t) /\ p_edge_solution_previous.kind = "steady"
            /\ p_edge_solution_previous.flux = data_from_left(lmh_t)

\* Nothing is accepted before zero_time_step().
NothingAccepted == lmh_pc = "start" => p_edge_solution_previous = lmh_unset

LmhInv == LmhTypeOK /\ NothingAccepted /\ AcceptedInForce /\ StartsFromSolutionInForce

\* Before the end, and in an end that is written, what flowed in is integrated up to the last
\* mark and collected since then.
FluxCollected ==
  lmh_pc = "run" /\ (lmh_t = LmhEndTime => writes(LmhEndTime))
    /\ (\A s \in 0 .. lmh_t : ~ lmh_input.zero[s]) =>
    /\ lmh_balance.integrated_fluxes + lmh_balance.increment_fluxes = in_flow
    /\ lmh_t \in LmhMarks => lmh_balance.increment_fluxes = 0

\* The fields of the balance, of which only the fluxes matter here.
BalanceFields == {"on", "cumulative", "initial", "initial_mass", "increment_sources",
                  "increment_fluxes", "integrated_sources", "integrated_fluxes", "sum_masses"}

IsBalance(b) ==
  /\ b = [x \in BalanceFields |-> b[x]] /\ b.cumulative = TRUE
  /\ b.increment_fluxes \in Int /\ b.integrated_fluxes \in Int

LmhOutputInv ==
  /\ LmhTypeOK /\ IsBalance(lmh_balance) /\ in_flow \in Int /\ p_edge_solution.flux \in Int
  /\ lmh_pc = "start" => /\ lmh_balance.increment_fluxes = 0
                         /\ lmh_balance.integrated_fluxes = 0 /\ in_flow = 0
  /\ \A w \in lmh_written : w \in Nat /\ w <= lmh_t
  /\ OutputTimesWritten /\ FluxCollected

\* A step that passes no fixed mark stays in an interval of constant data.
LEMMA ConstantInStep ==
  ASSUME LmhTypeOK, NEW s \in 1 .. LmhEndTime, lmh_t < s,
         \A m \in fixed_marks : ~ (lmh_t < m /\ m < s)
  PROVE  zero_from_left(s) = zero_from_right(lmh_t) /\ data_from_left(s) = lmh_input.data[lmh_t]
<1> DEFINE same(r) == lmh_input.zero[r] = lmh_input.zero[lmh_t]
                      /\ lmh_input.data[r] = lmh_input.data[lmh_t]
           S == {r \in Nat : lmh_t <= r /\ r < s /\ ~ same(r)}
<1>1. lmh_t \in Nat /\ s \in Nat /\ LmhEndTime \in Nat /\ s <= LmhEndTime
  BY LmhAssumption DEF LmhTypeOK
<1>2. S = {}
  <2> SUFFICES ASSUME S # {} PROVE FALSE
    OBVIOUS
  <2>1. PICK x \in S : \A y \in S : ~ (<<y, x>> \in OpToRel(<, Nat))
    BY NatLessThanWellFounded, WFMin
  <2>2. \A y \in S : ~ (y < x)
    BY <2>1 DEF OpToRel
  <2>3. x \in Nat /\ lmh_t <= x /\ x < s /\ ~ same(x)
    OBVIOUS
  <2>4. x # lmh_t
    BY <2>3
  <2>5. x - 1 \in Nat /\ lmh_t <= x - 1 /\ x - 1 < s /\ x - 1 < x /\ x \in 1 .. LmhEndTime
        /\ lmh_t < x
    BY <1>1, <2>3, <2>4
  <2>6. same(x - 1)
    BY <2>2, <2>5
  <2>7. \/ lmh_input.zero[x] # lmh_input.zero[x - 1]
        \/ lmh_input.data[x] # lmh_input.data[x - 1]
    BY <2>3, <2>6
  <2>8. x \in fixed_marks
    BY <2>5, <2>7, LmhAssumption DEF fixed_marks, LmhTypeOK
  <2> QED BY <2>3, <2>5, <2>8
<1>3. same(s - 1)
  <2>1. s - 1 \in Nat /\ lmh_t <= s - 1 /\ s - 1 < s
    BY <1>1
  <2> QED BY <1>2, <2>1
<1> QED BY <1>3 DEF zero_from_left, zero_from_right, data_from_left

\* The step that update_solution() makes.
LEMMA StepBounds ==
  ASSUME LmhTypeOK, NEW len \in LmhDts, NEW f \in LmhFluxes, LmhUpdateSolution(len, f),
         NEW s, s = lmh_t + len
  PROVE  /\ s \in 1 .. LmhEndTime /\ lmh_t < s /\ lmh_t < LmhEndTime
         /\ \A m \in fixed_marks : ~ (lmh_t < m /\ m < s)
         /\ lmh_t' = s /\ lmh_input' = lmh_input /\ lmh_pc = "run" /\ lmh_pc' = "run"
         /\ lmh_tlevel' = lmh_tlevel + 1 /\ LmhTypeOK'
         /\ zero_from_left(s) \in BOOLEAN /\ zero_from_right(s) \in BOOLEAN
         /\ f \in Int /\ len \in Nat
<1>1. len \in Nat /\ len >= 1 /\ f \in Int /\ lmh_t \in Nat /\ LmhEndTime \in Nat
  BY LmhAssumption DEF LmhTypeOK
<1>2. /\ lmh_t < LmhEndTime /\ s <= LmhEndTime
      /\ \A m \in fixed_marks : ~ (lmh_t < m /\ m < s)
      /\ lmh_t' = s /\ lmh_input' = lmh_input /\ lmh_pc = "run" /\ lmh_pc' = "run"
      /\ lmh_tlevel' = lmh_tlevel + 1
  BY DEF LmhUpdateSolution
<1>3. s \in 1 .. LmhEndTime /\ lmh_t < s
  BY <1>1, <1>2
<1>4. LmhTypeOK'
  BY <1>1, <1>2, <1>3 DEF LmhTypeOK
<1>5. lmh_input.zero \in [0 .. LmhEndTime -> BOOLEAN]
  BY LmhAssumption DEF LmhTypeOK
<1>6. s \in 0 .. LmhEndTime /\ s - 1 \in 0 .. LmhEndTime
  BY <1>1, <1>3
<1> QED BY <1>1, <1>2, <1>3, <1>4, <1>5, <1>6 DEF zero_from_left, zero_from_right

\* zero_time_step() keeps the invariant of the solutions.
LEMMA LmhZeroPreserves ==
  ASSUME LmhInv, LmhZeroTimeStep
  PROVE  LmhInv'
<1>1. /\ lmh_pc = "start" /\ lmh_pc' = "run" /\ lmh_t = 0
      /\ UNCHANGED <<lmh_input, lmh_t, lmh_tlevel, lmh_start>>
  BY DEF LmhZeroTimeStep, LmhInv, LmhTypeOK
<1>2. LmhTypeOK'
  BY <1>1 DEF LmhInv, LmhTypeOK
<1>3. ~ zero_from_right(0) => p_edge_solution_previous'.at = 0
  BY DEF LmhZeroTimeStep
<1>4. zero_from_right(0) => p_edge_solution_previous' = lmh_unset
  BY <1>1 DEF LmhZeroTimeStep, LmhInv, NothingAccepted
<1>5. AcceptedInForce'
  BY <1>1, <1>3, <1>4 DEF AcceptedInForce, zero_from_right
<1>6. NothingAccepted'
  BY <1>1 DEF NothingAccepted
<1>7. StartsFromSolutionInForce'
  BY <1>1 DEF LmhInv, StartsFromSolutionInForce, zero_from_left, zero_from_right, data_from_left
<1> QED BY <1>2, <1>5, <1>6, <1>7 DEF LmhInv

\* update_solution() keeps the invariant of the solutions.
LEMMA LmhUpdatePreserves ==
  ASSUME LmhInv, NEW len \in LmhDts, NEW f \in LmhFluxes, LmhUpdateSolution(len, f)
  PROVE  LmhInv'
<1> DEFINE s == lmh_t + len
           prev == p_edge_solution_previous
           left == after_left(s, f, p_edge_solution, prev)
<1>1. /\ s \in 1 .. LmhEndTime /\ lmh_t < s /\ lmh_t < LmhEndTime
      /\ \A m \in fixed_marks : ~ (lmh_t < m /\ m < s)
      /\ lmh_t' = s /\ lmh_input' = lmh_input /\ lmh_pc = "run" /\ lmh_pc' = "run"
      /\ lmh_tlevel' = lmh_tlevel + 1 /\ LmhTypeOK'
      /\ zero_from_left(s) \in BOOLEAN /\ zero_from_right(s) \in BOOLEAN
  BY StepBounds DEF LmhInv
<1>2. /\ lmh_t \in Nat /\ LmhEndTime \in Nat /\ s \in Nat /\ s > 0
      /\ lmh_tlevel \in Nat /\ (lmh_tlevel = 0 <=> lmh_t = 0)
  BY <1>1, LmhAssumption DEF LmhInv, LmhTypeOK
<1>3. /\ p_edge_solution_previous' =
           (IF s = LmhEndTime THEN left ELSE after_right(s, left)).prev
      /\ lmh_start' = IF zero_from_left(s) THEN lmh_start
                      ELSE [from |-> prev, time |-> lmh_t, level |-> lmh_tlevel]
  BY DEF LmhUpdateSolution
<1>4. /\ s # LmhEndTime /\ zero_from_right(s) => p_edge_solution_previous' = lmh_steady(s)
      /\ ~ (s # LmhEndTime /\ zero_from_right(s)) =>
           p_edge_solution_previous' = IF zero_from_left(s) THEN prev ELSE lmh_unsteady(s, f)
  BY <1>1, <1>3 DEF after_left, after_right
<1>5. zero_from_left(s) = zero_from_right(lmh_t) /\ data_from_left(s) = lmh_input.data[lmh_t]
  BY <1>1, ConstantInStep DEF LmhInv
<1> HIDE DEF s, left
<1>6. AcceptedInForce'
  <2> DEFINE first == lmh_tlevel + 1 = 1 /\ zero_from_right(0)
  <2> SUFFICES ASSUME s < LmhEndTime
               PROVE  /\ zero_from_right(s) => p_edge_solution_previous' = lmh_steady(s)
                      /\ first /\ ~ zero_from_right(s) => p_edge_solution_previous' = lmh_unset
                      /\ ~ zero_from_right(s) /\ ~ first =>
                           \/ p_edge_solution_previous'.at = s
                           \/ /\ zero_from_left(s) /\ p_edge_solution_previous'.kind = "steady"
                              /\ p_edge_solution_previous'.flux = data_from_left(s)
    BY <1>1, <1>2 DEF AcceptedInForce, zero_from_right, zero_from_left, data_from_left, lmh_steady
  <2>1. s # LmhEndTime
    BY <1>2
  <2>2. CASE zero_from_right(s)
    BY <1>4, <2>1, <2>2
  <2>3. CASE ~ zero_from_right(s) /\ first
    <3>1. lmh_t = 0 /\ zero_from_left(s) /\ p_edge_solution_previous' = prev
      BY <1>2, <1>4, <1>5, <2>3
    <3>2. zero_from_right(0)
      BY <2>3
    <3>3. lmh_pc = "run" /\ lmh_t < LmhEndTime /\ lmh_t = 0
      BY <1>1, <3>1
    <3>4. prev = lmh_unset
      BY <3>2, <3>3 DEF LmhInv, AcceptedInForce
    <3> QED BY <2>3, <3>1, <3>4
  <2>4. CASE ~ zero_from_right(s) /\ ~ first /\ ~ zero_from_left(s)
    BY <1>4, <2>4 DEF lmh_unsteady
  <2>5. CASE ~ zero_from_right(s) /\ ~ first /\ zero_from_left(s)
    <3>1. zero_from_right(lmh_t) /\ p_edge_solution_previous' = prev
      BY <1>4, <1>5, <2>5
    <3>2. lmh_t > 0
      BY <1>2, <2>5, <3>1
    <3>3. prev = lmh_steady(lmh_t)
      BY <1>1, <3>1, <3>2 DEF LmhInv, AcceptedInForce
    <3> QED BY <1>5, <2>5, <3>1, <3>3 DEF lmh_steady
  <2> QED BY <1>1, <2>2, <2>3, <2>4, <2>5
<1>7. StartsFromSolutionInForce'
  <2>1. CASE zero_from_left(s)
    <3>1. lmh_start' = lmh_start
      BY <1>3, <2>1
    <3> QED BY <1>1, <3>1 DEF LmhInv, StartsFromSolutionInForce, zero_from_left, zero_from_right,
                              data_from_left
  <2>2. CASE ~ zero_from_left(s)
    <3>1. /\ lmh_start'.from = prev /\ lmh_start'.time = lmh_t /\ lmh_start'.level = lmh_tlevel
          /\ ~ zero_from_right(lmh_t)
      BY <1>3, <1>5, <2>2
    <3>2. lmh_tlevel = 1 /\ zero_from_right(0) => prev = lmh_unset
      BY <1>1, <3>1 DEF LmhInv, AcceptedInForce
    <3>3. ~ (lmh_tlevel = 1 /\ zero_from_right(0)) =>
            \/ prev.at = lmh_t
            \/ /\ lmh_t > 0 /\ zero_from_left(lmh_t) /\ prev.kind = "steady"
               /\ prev.flux = data_from_left(lmh_t)
      BY <1>1, <3>1 DEF LmhInv, AcceptedInForce
    <3> QED BY <1>1, <3>1, <3>2, <3>3 DEF StartsFromSolutionInForce, zero_from_left,
                                          zero_from_right, data_from_left
  <2> QED BY <1>1, <2>1, <2>2
<1>8. NothingAccepted'
  BY <1>1 DEF NothingAccepted
<1> QED BY <1>1, <1>6, <1>7, <1>8 DEF LmhInv

\* However storativity and data switch between steady and unsteady flow, every unsteady step
\* starts from the solution in force at its start, but for the one after a steady start of a
\* single step, which starts from nothing.
THEOREM StartsInForce == LmhSpec => []StartsFromSolutionInForce
<1>1. LmhInit => LmhInv
  <2> SUFFICES ASSUME LmhInit PROVE LmhInv
    OBVIOUS
  <2>1. LmhTypeOK
    BY LmhAssumption DEF LmhInit, LmhTypeOK
  <2>2. NothingAccepted /\ AcceptedInForce /\ StartsFromSolutionInForce
    BY DEF LmhInit, NothingAccepted, AcceptedInForce, StartsFromSolutionInForce
  <2> QED BY <2>1, <2>2 DEF LmhInv
<1>2. LmhInv /\ [LmhNext]_lmh_vars => LmhInv'
  <2> SUFFICES ASSUME LmhInv, [LmhNext]_lmh_vars PROVE LmhInv'
    OBVIOUS
  <2>1. CASE LmhZeroTimeStep
    BY <2>1, LmhZeroPreserves
  <2>2. ASSUME NEW len \in LmhDts, NEW f \in LmhFluxes, LmhUpdateSolution(len, f)
        PROVE  LmhInv'
    BY <2>2, LmhUpdatePreserves
  <2>3. CASE UNCHANGED lmh_vars
    BY <2>3 DEF lmh_vars, LmhInv, LmhTypeOK, NothingAccepted, AcceptedInForce, StartsFromSolutionInForce,
                zero_from_right, zero_from_left, data_from_left, lmh_steady
  <2> QED BY <2>1, <2>2, <2>3 DEF LmhNext, LmhAtEnd
<1>3. LmhInv => StartsFromSolutionInForce
  BY DEF LmhInv
<1> QED BY <1>1, <1>2, <1>3, PTL DEF LmhSpec

\* What output_data() does to the fluxes of the balance: those collected since the last output
\* and those integrated from the initial time.
Collected(b) == b.increment_fluxes
Integrated(b) == b.integrated_fluxes

\* What Balance::output() makes of the fluxes collected and integrated so far.
LEMMA BalanceOutput ==
  ASSUME NEW b, IsBalance(b), NEW flux \in Int, NEW sol, sol.flux = flux, NEW s, NEW len \in Nat,
         NEW level \in Nat, NEW c, c = balance_output(b, sol, s, len, level),
         NEW inc, inc = Collected(b) + (IF level = 0 THEN 0 ELSE flux * len)
  PROVE  /\ IsBalance(c)
         /\ s \in LmhMarks => Collected(c) = 0 /\ Integrated(c) = Integrated(b) + inc
         /\ s \notin LmhMarks => Collected(c) = inc /\ Integrated(c) = Integrated(b)
<1> USE DEF Collected, Integrated
<1> DEFINE sources == [r \in Ranks |-> 0]
           a == calculate_cumulative(b, level, len, sources, -flux)
           g == gathered(a)
           i == integrate(g)
           o == cleared(i)
<1>1. flux * len \in Int /\ (-flux) * len = -(flux * len)
  OBVIOUS
<1>2. inc \in Int
  BY <1>1 DEF IsBalance
<1>3. /\ a = [x \in BalanceFields |-> a[x]] /\ a.cumulative = TRUE
      /\ a.increment_fluxes = inc /\ a.integrated_fluxes = b.integrated_fluxes
  <2>1. CASE level = 0
    BY <2>1 DEF calculate_cumulative, IsBalance
  <2>2. CASE level # 0
    <3> DEFINE src == [r \in Ranks |-> b.increment_sources[r] + sources[r] * len]
    <3>1. a = [b EXCEPT !.increment_sources = src,
                        !.increment_fluxes = b.increment_fluxes - (-flux) * len]
      BY <2>2 DEF calculate_cumulative, IsBalance
    <3>2. b.increment_fluxes - (-flux) * len = inc
      BY <1>1, <2>2 DEF IsBalance
    <3> HIDE DEF src, a
    <3>3. a = [b EXCEPT !.increment_sources = src, !.increment_fluxes = inc]
      BY <3>1, <3>2
    <3> QED BY <3>3 DEF IsBalance, BalanceFields
  <2> QED BY <2>1, <2>2
<1> HIDE DEF a
<1>4. /\ g = [x \in BalanceFields |-> g[x]] /\ g.cumulative = TRUE
      /\ g.increment_fluxes = inc /\ g.integrated_fluxes = b.integrated_fluxes
  <2> DEFINE total == [a.increment_sources EXCEPT ![0] = sum_over(a.increment_sources)]
  <2>1. g = [a EXCEPT !.increment_sources = total]
    BY <1>3 DEF gathered, BalanceFields
  <2> HIDE DEF total, g
  <2> QED BY <1>3, <2>1 DEF BalanceFields
<1> HIDE DEF g
<1>5. /\ i = [x \in BalanceFields |-> i[x]] /\ i.cumulative = TRUE
      /\ i.increment_fluxes = inc /\ i.integrated_fluxes = b.integrated_fluxes + inc
  <2> DEFINE mass == IF g.initial THEN g.sum_masses ELSE g.initial_mass
             total == g.integrated_sources + g.increment_sources[0]
  <2>1. i = [g EXCEPT !.initial_mass = mass, !.initial = FALSE,
                      !.integrated_fluxes = g.integrated_fluxes + g.increment_fluxes,
                      !.integrated_sources = total]
    BY <1>4 DEF integrate
  <2> HIDE DEF mass, total, i
  <2> QED BY <1>4, <2>1 DEF BalanceFields
<1> HIDE DEF i
<1>6. /\ o = [x \in BalanceFields |-> o[x]] /\ o.cumulative = TRUE
      /\ o.increment_fluxes = 0 /\ o.integrated_fluxes = b.integrated_fluxes + inc
  <2>1. o = [i EXCEPT !.increment_sources = sources, !.increment_fluxes = 0]
    BY DEF cleared
  <2> HIDE DEF o, sources
  <2> QED BY <1>5, <2>1 DEF BalanceFields
<1>7. c = IF s \in LmhMarks THEN o ELSE a
  BY DEF balance_output, output, o, i, g, a
<1> HIDE DEF o
<1>8. b.integrated_fluxes \in Int /\ b.integrated_fluxes + inc \in Int
  BY <1>2 DEF IsBalance
<1>9. CASE s \in LmhMarks
  BY <1>6, <1>7, <1>8, <1>9 DEF IsBalance
<1>10. CASE s \notin LmhMarks
  BY <1>2, <1>3, <1>7, <1>8, <1>10 DEF IsBalance
<1> QED BY <1>9, <1>10

\* Before the first solve nothing is written and nothing has flowed in.
LEMMA OutputInitial == LmhInit => LmhOutputInv
<1> SUFFICES ASSUME LmhInit PROVE LmhOutputInv
  OBVIOUS
<1>1. LmhTypeOK
  BY LmhAssumption DEF LmhInit, LmhTypeOK
<1>2. /\ IsBalance(lmh_balance)
      /\ lmh_balance.increment_fluxes = 0 /\ lmh_balance.integrated_fluxes = 0
  <2> DEFINE b == lmh_balance
             zeros == [r \in Ranks |-> 0]
  <2>1. b = [on |-> TRUE, cumulative |-> TRUE, initial |-> TRUE, initial_mass |-> 0,
             increment_sources |-> zeros, increment_fluxes |-> 0,
             integrated_sources |-> 0, integrated_fluxes |-> 0, sum_masses |-> 0]
    BY DEF LmhInit, new_balance
  <2> HIDE DEF b, zeros
  <2>2. b = [x \in BalanceFields |-> b[x]]
    BY <2>1 DEF BalanceFields
  <2>3. b.cumulative = TRUE /\ b.increment_fluxes = 0 /\ b.integrated_fluxes = 0
    BY <2>1
  <2> QED BY <2>2, <2>3 DEF IsBalance, b
<1>3. in_flow = 0 /\ p_edge_solution.flux = 0 /\ lmh_pc = "start" /\ lmh_written = {}
  BY DEF LmhInit, lmh_unset
<1> QED BY <1>1, <1>2, <1>3 DEF LmhOutputInv, OutputTimesWritten, FluxCollected

\* zero_time_step() keeps the invariant of the output.
LEMMA OutputZeroPreserves ==
  ASSUME LmhOutputInv, LmhZeroTimeStep
  PROVE  LmhOutputInv'
<1> DEFINE sol == IF zero_from_right(0) THEN lmh_steady(0)
                  ELSE [at |-> 0, kind |-> "initial", flux |-> 0]
<1>1. /\ lmh_pc = "start" /\ lmh_pc' = "run" /\ lmh_t = 0 /\ lmh_tlevel = 0
      /\ UNCHANGED <<lmh_input, lmh_t, lmh_tlevel, in_flow>>
      /\ p_edge_solution' = sol /\ lmh_written' = {0}
      /\ lmh_balance' = balance_output(lmh_balance, sol, 0, lmh_dt, lmh_tlevel)
  BY DEF LmhZeroTimeStep, LmhOutputInv, LmhTypeOK
<1>2. sol.flux \in Int
  <2>1. lmh_input.data[0] \in Int
    BY LmhAssumption DEF LmhOutputInv, LmhTypeOK
  <2> QED BY <2>1 DEF lmh_steady
<1> HIDE DEF sol
<1>3. LmhTypeOK'
  BY <1>1 DEF LmhOutputInv, LmhTypeOK
<1>4. /\ IsBalance(lmh_balance')
      /\ lmh_balance'.increment_fluxes = 0 /\ lmh_balance'.integrated_fluxes = 0
  <2>1. /\ IsBalance(lmh_balance) /\ lmh_balance.increment_fluxes = 0
        /\ lmh_balance.integrated_fluxes = 0
    BY <1>1 DEF LmhOutputInv
  <2>2. balance_output(lmh_balance, sol, 0, lmh_dt, 0) = balance_output(lmh_balance, sol, 0, 0, 0)
    BY <2>1 DEF balance_output, calculate_cumulative
  <2>3. lmh_balance' = balance_output(lmh_balance, sol, 0, 0, 0)
    BY <1>1, <2>2
  <2>4. 0 = lmh_balance.increment_fluxes + (IF 0 = 0 THEN 0 ELSE sol.flux * 0)
    BY <2>1
  <2>5. 0 \in Nat /\ 0 + 0 = 0
    OBVIOUS
  <2> DEFINE b == lmh_balance
             c == lmh_balance'
             flux == sol.flux
  <2>6. IsBalance(b) /\ flux \in Int /\ c = balance_output(b, sol, 0, 0, 0)
        /\ 0 = Collected(b) + (IF 0 = 0 THEN 0 ELSE flux * 0) /\ sol.flux = flux
    BY <1>2, <2>1, <2>3, <2>4 DEF Collected
  <2> HIDE DEF b, c, flux
  <2>7. /\ IsBalance(c)
        /\ 0 \in LmhMarks => Collected(c) = 0 /\ Integrated(c) = Integrated(b) + 0
        /\ 0 \notin LmhMarks => Collected(c) = 0 /\ Integrated(c) = Integrated(b)
    BY <2>5, <2>6, BalanceOutput
  <2>8. Integrated(b) = 0
    BY <2>1 DEF b, Integrated
  <2>9. IsBalance(c) /\ c.increment_fluxes = 0 /\ c.integrated_fluxes = 0
    BY <2>5, <2>7, <2>8 DEF Collected, Integrated
  <2> QED BY <2>9 DEF c
<1>5. OutputTimesWritten'
  BY <1>1, LmhAssumption DEF OutputTimesWritten
<1>6. in_flow' = 0
  BY <1>1 DEF LmhOutputInv
<1> QED BY <1>1, <1>2, <1>3, <1>4, <1>5, <1>6 DEF LmhOutputInv, FluxCollected, writes, zero_from_left, is_jump_time

\* update_solution() keeps the invariant of the output.
LEMMA OutputUpdatePreserves ==
  ASSUME LmhOutputInv, NEW len \in LmhDts, NEW f \in LmhFluxes,
         LmhUpdateSolution(len, f)
  PROVE  LmhOutputInv'
<1> DEFINE s == lmh_t + len
           left == after_left(s, f, p_edge_solution, p_edge_solution_previous)
           now == IF s = LmhEndTime THEN left ELSE after_right(s, left)
           flow == IF zero_from_left(s) THEN data_from_left(s) ELSE f
<1>1. /\ s \in 1 .. LmhEndTime /\ lmh_t < s /\ lmh_t < LmhEndTime
      /\ \A m \in fixed_marks : ~ (lmh_t < m /\ m < s)
      /\ lmh_t' = s /\ lmh_input' = lmh_input /\ lmh_pc = "run" /\ lmh_pc' = "run"
      /\ lmh_tlevel' = lmh_tlevel + 1 /\ LmhTypeOK'
      /\ zero_from_left(s) \in BOOLEAN /\ zero_from_right(s) \in BOOLEAN
      /\ f \in Int /\ len \in Nat
  BY StepBounds DEF LmhOutputInv
<1>2. lmh_t \in Nat /\ LmhEndTime \in Nat /\ s \in Nat /\ lmh_tlevel' \in Nat /\ lmh_tlevel' # 0
  BY <1>1, LmhAssumption DEF LmhOutputInv, LmhTypeOK
<1>3. /\ p_edge_solution' = now.sol /\ in_flow' = in_flow + len * flow
      /\ lmh_balance' = IF writes(s) THEN balance_output(lmh_balance, now.sol, s, len, lmh_tlevel')
                        ELSE lmh_balance
      /\ lmh_written' = IF writes(s) THEN lmh_written \cup {s} ELSE lmh_written
  BY DEF LmhUpdateSolution
<1>4. lmh_input.data[s] \in Int /\ data_from_left(s) \in Int
  <2>1. s \in 0 .. LmhEndTime /\ s - 1 \in 0 .. LmhEndTime
    BY <1>1, <1>2
  <2> QED BY <2>1, LmhAssumption DEF LmhOutputInv, LmhTypeOK, data_from_left
<1>5. now.sol.flux \in Int
  BY <1>1, <1>4 DEF after_left, after_right, lmh_steady, lmh_unsteady, LmhOutputInv
<1>6. s # LmhEndTime => writes(s)
  BY DEF writes
<1>7. \A w \in lmh_written' : w \in Nat /\ w <= s
  BY <1>1, <1>2, <1>3 DEF LmhOutputInv
<1>8. ASSUME ~ zero_from_left(s), ~ zero_from_right(s) PROVE now.sol.flux = f /\ flow = f
  BY <1>8 DEF after_left, after_right, lmh_unsteady
<1>9. len * flow \in Int /\ in_flow' \in Int
  <2>1. flow \in Int
    BY <1>1, <1>4
  <2> HIDE DEF flow
  <2> QED BY <1>1, <1>3, <2>1 DEF LmhOutputInv
<1> HIDE DEF s, left, now, flow
<1> DEFINE b == lmh_balance
           inc == b.increment_fluxes + now.sol.flux * len
<1>10. IsBalance(b) /\ in_flow \in Int
  BY DEF LmhOutputInv
<1>11. writes(s) =>
         /\ IsBalance(lmh_balance')
         /\ s \in LmhMarks => /\ lmh_balance'.increment_fluxes = 0
                              /\ lmh_balance'.integrated_fluxes = b.integrated_fluxes + inc
         /\ s \notin LmhMarks => /\ lmh_balance'.increment_fluxes = inc
                                 /\ lmh_balance'.integrated_fluxes = b.integrated_fluxes
  <2> SUFFICES ASSUME writes(s)
               PROVE  /\ IsBalance(lmh_balance')
                      /\ s \in LmhMarks =>
                           /\ lmh_balance'.increment_fluxes = 0
                           /\ lmh_balance'.integrated_fluxes = b.integrated_fluxes + inc
                      /\ s \notin LmhMarks =>
                           /\ lmh_balance'.increment_fluxes = inc
                           /\ lmh_balance'.integrated_fluxes = b.integrated_fluxes
    OBVIOUS
  <2> DEFINE c == lmh_balance'
             sol == now.sol
             flux == sol.flux
             level == lmh_tlevel'
  <2>1. /\ c = balance_output(b, sol, s, len, level) /\ level \in Nat /\ flux \in Int
        /\ sol.flux = flux /\ inc = Collected(b) + (IF level = 0 THEN 0 ELSE flux * len)
    BY <1>2, <1>3, <1>5 DEF Collected
  <2> HIDE DEF b, inc, c, sol, flux, level
  <2>2. /\ IsBalance(c)
        /\ s \in LmhMarks => Collected(c) = 0 /\ Integrated(c) = Integrated(b) + inc
        /\ s \notin LmhMarks => Collected(c) = inc /\ Integrated(c) = Integrated(b)
    BY <1>1, <1>10, <2>1, BalanceOutput
  <2> QED BY <2>2 DEF c, Collected, Integrated
<1>12. IsBalance(lmh_balance')
  BY <1>3, <1>10, <1>11
<1>13. OutputTimesWritten'
  <2> SUFFICES ASSUME NEW m \in LmhMarks, m <= s
               PROVE  m \in lmh_written' <=> writes(m)
    BY <1>1 DEF OutputTimesWritten, writes, zero_from_left, is_jump_time
  <2>1. m \in fixed_marks /\ m \in Nat
    BY LmhAssumption DEF fixed_marks
  <2>2. CASE m <= lmh_t
    <3>1. m \in lmh_written <=> writes(m)
      BY <1>1, <2>2 DEF LmhOutputInv, OutputTimesWritten, writes
    <3>2. m # s
      BY <1>1, <1>2, <2>1, <2>2
    <3> QED BY <1>3, <3>1, <3>2
  <2>3. CASE m = s
    <3>1. m \notin lmh_written
      BY <1>1, <1>2, <2>3 DEF LmhOutputInv
    <3> QED BY <1>3, <2>3, <3>1
  <2> QED BY <1>1, <1>2, <2>1, <2>2, <2>3
<1>14. FluxCollected'
  <2> SUFFICES ASSUME s = LmhEndTime => writes(LmhEndTime),
                      \A r \in 0 .. s : ~ lmh_input.zero[r]
               PROVE  /\ lmh_balance'.integrated_fluxes + lmh_balance'.increment_fluxes = in_flow'
                      /\ s \in LmhMarks => lmh_balance'.increment_fluxes = 0
    BY <1>1 DEF FluxCollected, writes, zero_from_left, is_jump_time
  <2>1. writes(s)
    BY <1>6
  <2>2. ~ zero_from_left(s) /\ ~ zero_from_right(s)
    <3>1. s - 1 \in 0 .. s /\ s \in 0 .. s
      BY <1>1, <1>2
    <3> QED BY <3>1 DEF zero_from_left, zero_from_right
  <2>3. now.sol.flux = f /\ flow = f
    BY <1>8, <2>2
  <2>4. b.integrated_fluxes + b.increment_fluxes = in_flow
    <3>1. \A r \in 0 .. lmh_t : ~ lmh_input.zero[r]
      BY <1>1, <1>2
    <3>2. lmh_t # LmhEndTime
      BY <1>1, <1>2
    <3> QED BY <1>1, <3>1, <3>2 DEF LmhOutputInv, FluxCollected
  <2>5. in_flow' = in_flow + f * len /\ f * len \in Int
    BY <1>1, <1>3, <2>3
  <2>6. inc = b.increment_fluxes + f * len
    BY <2>3
  <2>7. b.integrated_fluxes + inc = in_flow' /\ b.integrated_fluxes \in Int /\ inc \in Int
    BY <1>10, <2>4, <2>5, <2>6 DEF IsBalance
  <2> HIDE DEF inc, b
  <2> QED BY <1>11, <2>1, <2>7
<1> QED BY <1>1, <1>3, <1>5, <1>7, <1>9, <1>12, <1>13, <1>14 DEF LmhOutputInv

\* Every output time that was reached is written, an end time exactly when the flow is unsteady
\* up to it and the storativity has no record for it, and as long as the flow is unsteady the
\* cumulative flux that is written counts from the initial time.
THEOREM OutputIsComplete == LmhSpec => []OutputComplete
<1>1. LmhOutputInv /\ [LmhNext]_lmh_vars => LmhOutputInv'
  <2> SUFFICES ASSUME LmhOutputInv, [LmhNext]_lmh_vars PROVE LmhOutputInv'
    OBVIOUS
  <2>1. CASE LmhZeroTimeStep
    BY <2>1, OutputZeroPreserves
  <2>2. ASSUME NEW len \in LmhDts, NEW f \in LmhFluxes, LmhUpdateSolution(len, f)
        PROVE  LmhOutputInv'
    BY <2>2, OutputUpdatePreserves
  <2>3. CASE UNCHANGED lmh_vars
    BY <2>3 DEF lmh_vars, LmhOutputInv, LmhTypeOK, IsBalance, OutputTimesWritten, FluxCollected,
                writes, zero_from_left, is_jump_time
  <2> QED BY <2>1, <2>2, <2>3 DEF LmhNext, LmhAtEnd
<1>2. LmhOutputInv => OutputComplete
  <2> SUFFICES ASSUME LmhOutputInv, lmh_pc = "run", lmh_t \in LmhMarks \cap lmh_written,
                      \A s \in 0 .. lmh_t : ~ lmh_input.zero[s]
               PROVE  lmh_balance.integrated_fluxes = in_flow
    BY DEF LmhOutputInv, OutputComplete, CumulativeFluxFromStart
  <2>1. /\ lmh_balance.integrated_fluxes + lmh_balance.increment_fluxes = in_flow
        /\ lmh_balance.increment_fluxes = 0
    <3>1. lmh_t = LmhEndTime => writes(LmhEndTime)
      BY DEF LmhOutputInv, LmhTypeOK, OutputTimesWritten, writes
    <3> QED BY <3>1 DEF LmhOutputInv, FluxCollected
  <2> QED BY <2>1 DEF LmhOutputInv, IsBalance
<1> QED BY <1>1, <1>2, OutputInitial, PTL DEF LmhSpec

---------------------------------------------------------------------------
(* SchurSystem *)

Value == [mats : SUBSET Nat, rhss : SUBSET Nat]

Chain == [matrix : [Systems -> Nat], rhs : [Systems -> Value],
          mch : [Systems -> BOOLEAN], rch : [Systems -> BOOLEAN], formed : [Systems -> BOOLEAN],
          IAB : [Systems -> Nat], RHS1 : [Systems -> Value], sol : [Systems -> Value]]

\* The blocks of system k are those of its present matrix and right-hand side unless a flag of
\* the system says that they are not; so is the complement.
BlocksCurrent(s, k) ==
  /\ ~ s.mch[k] => s.IAB[k] = s.matrix[k] /\ s.matrix[k + 1] = s.matrix[k]
  /\ ~ s.mch[k] /\ ~ s.rch[k] =>
       s.RHS1[k] = s.rhs[k] /\ s.rhs[k + 1] = joined(s.rhs[k], of_matrix(s.IAB[k]))

Linked(s) == s.rhs[0].mats = {} /\ BlocksCurrent(s, 0) /\ BlocksCurrent(s, 1)

ScTypeOK ==
  /\ chain \in Chain
  /\ sc_n \in 0..2 /\ sc_assembled \in Nat /\ sc_previous \in Value
  /\ sc_last \in {"none", "residual", "solve"}

ScInv == ScTypeOK /\ Linked(chain) /\ PresentSystemUsed

---------------------------------------------------------------------------
(* The operations of the chain. *)

\* The part of form_schur for a changed matrix, block by block.
LEMMA PassMatrix ==
  ASSUME NEW s \in Chain, NEW k \in {0, 1}
  PROVE  LET p == pass_matrix(s, k)
         IN  /\ p \in Chain
             /\ p.IAB = [s.IAB EXCEPT ![k] = s.matrix[k]]
             /\ p.matrix = [s.matrix EXCEPT ![k + 1] = s.matrix[k]]
             /\ p.mch = [s.mch EXCEPT ![k + 1] = TRUE]
             /\ p.rhs = s.rhs /\ p.rch = s.rch /\ p.formed = s.formed
             /\ p.RHS1 = s.RHS1 /\ p.sol = s.sol
<1> DEFINE p == pass_matrix(s, k)
<1>1. p = [s EXCEPT !.IAB[k] = s.matrix[k], !.matrix[k + 1] = s.matrix[k], !.mch[k + 1] = TRUE]
  BY DEF pass_matrix, create_inversion_matrix
<1> HIDE DEF p
<1>2. /\ p.IAB = [s.IAB EXCEPT ![k] = s.matrix[k]]
      /\ p.matrix = [s.matrix EXCEPT ![k + 1] = s.matrix[k]]
      /\ p.mch = [s.mch EXCEPT ![k + 1] = TRUE]
      /\ p.rhs = s.rhs /\ p.rch = s.rch /\ p.formed = s.formed
      /\ p.RHS1 = s.RHS1 /\ p.sol = s.sol
  BY <1>1 DEF Chain
<1>3. p.matrix \in [Systems -> Nat] /\ p.IAB \in [Systems -> Nat]
  BY <1>2 DEF Chain, Systems
<1>4. p.mch \in [Systems -> BOOLEAN]
  BY <1>2 DEF Chain, Systems
<1>5. p \in Chain
  BY <1>1, <1>3, <1>4 DEF Chain
<1> QED BY <1>2, <1>5 DEF p

\* form_rhs when a flag is set, block by block.
LEMMA FormRhs ==
  ASSUME NEW s \in Chain, NEW k \in {0, 1}, s.rch[k] \/ s.mch[k]
  PROVE  LET f == form_rhs(s, k)
         IN  /\ f \in Chain
             /\ f.RHS1 = [s.RHS1 EXCEPT ![k] = s.rhs[k]]
             /\ f.rhs = [s.rhs EXCEPT ![k + 1] = joined(s.rhs[k], of_matrix(s.IAB[k]))]
             /\ f.rch = [[s.rch EXCEPT ![k + 1] = TRUE] EXCEPT ![k] = FALSE]
             /\ f.IAB = s.IAB /\ f.matrix = s.matrix /\ f.mch = s.mch /\ f.formed = s.formed
             /\ f.sol = s.sol
<1> DEFINE j == joined(s.rhs[k], of_matrix(s.IAB[k]))
           f == form_rhs(s, k)
<1>1. j \in Value /\ s.rhs[k] \in Value
  BY DEF joined, of_matrix, Chain, Value, Systems
<1>2. f = [s EXCEPT !.RHS1[k] = s.rhs[k], !.rhs[k + 1] = j, !.rch[k + 1] = TRUE, !.rch[k] = FALSE]
  BY DEF form_rhs, rhs_stays
<1> HIDE DEF j, f
<1>3. /\ f.RHS1 = [s.RHS1 EXCEPT ![k] = s.rhs[k]]
      /\ f.rhs = [s.rhs EXCEPT ![k + 1] = j]
      /\ f.rch = [[s.rch EXCEPT ![k + 1] = TRUE] EXCEPT ![k] = FALSE]
      /\ f.IAB = s.IAB /\ f.matrix = s.matrix /\ f.mch = s.mch /\ f.formed = s.formed
      /\ f.sol = s.sol
  BY <1>2 DEF Chain
<1>4. f \in Chain
  BY <1>1, <1>2 DEF Chain, Systems
<1> QED BY <1>3, <1>4 DEF j, f

\* form_schur leaves system k with current blocks and no flag set, and hands the flags on to its
\* complement; system k itself, those above it and the solutions stay.
LEMMA FormSchur ==
  ASSUME NEW s \in Chain, NEW k \in {0, 1}, Linked(s)
  PROVE  LET f == form_schur(s, k)
         IN  /\ f \in Chain /\ Linked(f)
             /\ ~ f.mch[k] /\ ~ f.rch[k]
             /\ f.sol = s.sol
             /\ \A j \in 0 .. k : f.matrix[j] = s.matrix[j] /\ f.rhs[j] = s.rhs[j]
             /\ k = 1 => f.mch[0] = s.mch[0] /\ f.rch[0] = s.rch[0]
             /\ ~ s.mch[k] /\ ~ s.rch[k] => \A j \in Systems : f.mch[j] = s.mch[j] /\ f.rch[j] = s.rch[j]
<1> DEFINE a == IF s.mch[k] THEN pass_matrix(s, k) ELSE s
           b == form_rhs(a, k)
           f == form_schur(s, k)
<1>1. f = [b EXCEPT !.mch[k] = FALSE, !.formed[k] = TRUE]
  BY DEF form_schur
<1>2. /\ a \in Chain
      /\ a.rhs = s.rhs /\ a.rch = s.rch /\ a.RHS1 = s.RHS1 /\ a.sol = s.sol /\ a.mch[k] = s.mch[k]
      /\ a.IAB[k] = a.matrix[k] /\ a.matrix[k + 1] = a.matrix[k] /\ a.matrix[k] = s.matrix[k]
      /\ a.matrix[0] = s.matrix[0]
      /\ k = 1 => a.IAB[0] = s.IAB[0] /\ a.mch[0] = s.mch[0]
      /\ k = 0 => a.IAB[1] = s.IAB[1]
      /\ s.mch[k] => a.mch[k + 1]
      /\ ~ s.mch[k] => a = s
  <2>1. CASE s.mch[k]
    <3> DEFINE p == pass_matrix(s, k)
    <3>1. /\ p \in Chain
          /\ p.IAB = [s.IAB EXCEPT ![k] = s.matrix[k]]
          /\ p.matrix = [s.matrix EXCEPT ![k + 1] = s.matrix[k]]
          /\ p.mch = [s.mch EXCEPT ![k + 1] = TRUE]
          /\ p.rhs = s.rhs /\ p.rch = s.rch /\ p.RHS1 = s.RHS1 /\ p.sol = s.sol
      BY PassMatrix
    <3>2. a = p
      BY <2>1
    <3> HIDE DEF a, p
    <3>3. /\ DOMAIN s.mch = Systems /\ k \in Systems /\ k + 1 \in Systems /\ k # k + 1
          /\ 0 \in Systems /\ (k = 1 => 0 # k /\ 0 # k + 1)
      BY DEF Chain, Systems
    <3>4. a.mch[k] = s.mch[k] /\ a.mch[k + 1] = TRUE /\ (k = 1 => a.mch[0] = s.mch[0])
      BY <3>1, <3>2, <3>3
    <3>5. /\ a.IAB[k] = a.matrix[k] /\ a.matrix[k + 1] = a.matrix[k] /\ a.matrix[k] = s.matrix[k]
          /\ a.matrix[0] = s.matrix[0]
          /\ (k = 1 => a.IAB[0] = s.IAB[0]) /\ (k = 0 => a.IAB[1] = s.IAB[1])
      BY <3>1, <3>2 DEF Chain, Systems
    <3> QED BY <2>1, <3>1, <3>2, <3>4, <3>5
  <2>2. CASE ~ s.mch[k]
    <3>1. a = s
      BY <2>2
    <3>2. s.IAB[k] = s.matrix[k] /\ s.matrix[k + 1] = s.matrix[k]
      BY <2>2 DEF Linked, BlocksCurrent
    <3> QED BY <2>2, <3>1, <3>2
  <2> QED BY <2>1, <2>2
<1> HIDE DEF a
<1>3. /\ b \in Chain /\ b.IAB = a.IAB /\ b.matrix = a.matrix /\ b.mch = a.mch /\ b.sol = a.sol
      /\ b.rhs[0] = a.rhs[0] /\ b.rhs[k] = a.rhs[k] /\ ~ b.rch[k]
      /\ b.RHS1[k] = b.rhs[k] /\ b.rhs[k + 1] = joined(b.rhs[k], of_matrix(b.IAB[k]))
      /\ k = 1 => b.RHS1[0] = a.RHS1[0] /\ b.rch[0] = a.rch[0]
      /\ k = 0 => b.RHS1[1] = a.RHS1[1]
      /\ a.mch[k] \/ a.rch[k] => b.rch[k + 1]
      /\ ~ a.mch[k] /\ ~ a.rch[k] => b = s
  <2>1. CASE a.rch[k] \/ a.mch[k]
    <3>1. /\ b \in Chain
          /\ b.RHS1 = [a.RHS1 EXCEPT ![k] = a.rhs[k]]
          /\ b.rhs = [a.rhs EXCEPT ![k + 1] = joined(a.rhs[k], of_matrix(a.IAB[k]))]
          /\ b.rch = [[a.rch EXCEPT ![k + 1] = TRUE] EXCEPT ![k] = FALSE]
          /\ b.IAB = a.IAB /\ b.matrix = a.matrix /\ b.mch = a.mch /\ b.sol = a.sol
      BY <1>2, <2>1, FormRhs, ZenonT(60)
    <3> HIDE DEF b
    <3>4. DOMAIN a.rch = Systems /\ k \in Systems /\ k + 1 \in Systems /\ k # k + 1
      BY <1>2 DEF Chain, Systems
    <3>2. /\ b.rch[k] = FALSE /\ b.rch[k + 1] = TRUE /\ (k = 1 => b.rch[0] = a.rch[0])
      <4>1. 0 \in Systems /\ (k = 1 => 0 # k /\ 0 # k + 1)
        BY DEF Systems
      <4> QED BY <3>1, <3>4, <4>1
    <3>3. /\ b.rhs[0] = a.rhs[0] /\ b.rhs[k] = a.rhs[k]
          /\ b.rhs[k + 1] = joined(a.rhs[k], of_matrix(a.IAB[k]))
          /\ b.RHS1[k] = a.rhs[k] /\ (k = 1 => b.RHS1[0] = a.RHS1[0]) /\ (k = 0 => b.RHS1[1] = a.RHS1[1])
      BY <1>2, <3>1 DEF Chain, Systems
    <3> QED BY <2>1, <3>1, <3>2, <3>3
  <2>2. CASE ~ a.rch[k] /\ ~ a.mch[k]
    <3>1. b = a
      BY <2>2 DEF form_rhs, rhs_stays
    <3>2. a = s
      BY <1>2, <2>2
    <3>3. s.RHS1[k] = s.rhs[k] /\ s.rhs[k + 1] = joined(s.rhs[k], of_matrix(s.IAB[k]))
      BY <3>2, <2>2 DEF Linked, BlocksCurrent
    <3> QED BY <1>2, <2>2, <3>1, <3>2, <3>3
  <2> QED BY <2>1, <2>2
<1> HIDE DEF b, f
<1>4. /\ f \in Chain /\ f.IAB = b.IAB /\ f.matrix = b.matrix /\ f.sol = b.sol /\ f.rhs = b.rhs
      /\ f.RHS1 = b.RHS1 /\ f.rch = b.rch /\ f.mch = [b.mch EXCEPT ![k] = FALSE]
  <2>1. /\ f.IAB = b.IAB /\ f.matrix = b.matrix /\ f.sol = b.sol /\ f.rhs = b.rhs
        /\ f.RHS1 = b.RHS1 /\ f.rch = b.rch /\ f.mch = [b.mch EXCEPT ![k] = FALSE]
        /\ f.formed = [b.formed EXCEPT ![k] = TRUE]
    BY <1>1, <1>3 DEF Chain
  <2>2. f.mch \in [Systems -> BOOLEAN] /\ f.formed \in [Systems -> BOOLEAN]
    BY <2>1, <1>3 DEF Chain, Systems
  <2>3. f \in Chain
    BY <1>1, <1>3, <2>2 DEF Chain
  <2> QED BY <2>1, <2>3
<1>5. f.mch[k] = FALSE /\ (\A j \in Systems \ {k} : f.mch[j] = b.mch[j])
  BY <1>3, <1>4 DEF Chain, Systems
<1>6. BlocksCurrent(f, k)
  BY <1>2, <1>3, <1>4 DEF BlocksCurrent
<1>7. \A j \in 0 .. k : f.matrix[j] = s.matrix[j] /\ f.rhs[j] = s.rhs[j]
  BY <1>2, <1>3, <1>4
<1>8. Linked(f)
  <2>1. CASE k = 0
    <3>1. ~ f.mch[1] => ~ s.mch[0] /\ a = s
      BY <1>2, <1>3, <1>4, <1>5, <2>1 DEF Systems
    <3>2. ~ f.mch[1] /\ ~ f.rch[1] => b = s
      BY <1>2, <1>3, <1>4, <3>1, <2>1
    <3>3. BlocksCurrent(f, 1)
      <4>1. ~ f.mch[1] => f.IAB[1] = f.matrix[1] /\ f.matrix[2] = f.matrix[1]
        BY <1>3, <1>4, <1>5, <3>1, <2>1 DEF Linked, BlocksCurrent, Systems
      <4>2. ~ f.mch[1] /\ ~ f.rch[1] =>
              f.RHS1[1] = f.rhs[1] /\ f.rhs[2] = joined(f.rhs[1], of_matrix(f.IAB[1]))
        BY <1>3, <1>4, <1>5, <3>2, <2>1 DEF Linked, BlocksCurrent, Systems
      <4> QED BY <4>1, <4>2 DEF BlocksCurrent
    <3> QED BY <1>6, <1>7, <2>1, <3>3 DEF Linked
  <2>2. CASE k = 1
    <3>1. /\ f.mch[0] = s.mch[0] /\ f.rch[0] = s.rch[0] /\ f.IAB[0] = s.IAB[0]
          /\ f.matrix[0] = s.matrix[0] /\ f.matrix[1] = s.matrix[1]
          /\ f.RHS1[0] = s.RHS1[0] /\ f.rhs[0] = s.rhs[0] /\ f.rhs[1] = s.rhs[1]
      BY <1>2, <1>3, <1>4, <1>5, <1>7, <2>2 DEF Systems
    <3>2. BlocksCurrent(f, 0)
      BY <3>1 DEF Linked, BlocksCurrent
    <3> QED BY <1>6, <2>2, <3>1, <3>2 DEF Linked
  <2> QED BY <2>1, <2>2
<1>9. k = 1 => f.mch[0] = s.mch[0] /\ f.rch[0] = s.rch[0]
  BY <1>2, <1>3, <1>4, <1>5 DEF Systems
<1>10. ASSUME ~ s.mch[k], ~ s.rch[k], NEW j \in Systems
       PROVE  f.mch[j] = s.mch[j] /\ f.rch[j] = s.rch[j]
  <2>1. a = s /\ b = s
    BY <1>2, <1>3, <1>10
  <2>2. s.mch[k] = FALSE
    BY <1>10 DEF Chain, Systems
  <2> QED BY <1>4, <1>5, <1>10, <2>1, <2>2
<1>11. ~ f.mch[k] /\ ~ f.rch[k] /\ f.sol = s.sol
  BY <1>2, <1>3, <1>4, <1>5
<1> QED BY <1>4, <1>7, <1>8, <1>9, <1>10, <1>11 DEF f

\* PETSc solves the last system and changes nothing else.
LEMMA PetscSolve ==
  ASSUME NEW s \in Chain, NEW k \in Systems, Linked(s)
  PROVE  LET p == petsc_solve(s, k)
         IN  /\ p \in Chain /\ Linked(p)
             /\ p.sol = [s.sol EXCEPT ![k] = joined(s.rhs[k], of_matrix(s.matrix[k]))]
             /\ p.matrix = s.matrix /\ p.rhs = s.rhs /\ p.mch = s.mch /\ p.rch = s.rch
             /\ p.IAB = s.IAB /\ p.RHS1 = s.RHS1
<1> DEFINE v == joined(s.rhs[k], of_matrix(s.matrix[k]))
           p == petsc_solve(s, k)
<1>1. v \in Value
  BY DEF joined, of_matrix, Chain, Value, Systems
<1>2. p = [s EXCEPT !.sol[k] = v]
  BY DEF petsc_solve
<1> HIDE DEF v, p
<1>3. /\ p.sol = [s.sol EXCEPT ![k] = v]
      /\ p.matrix = s.matrix /\ p.rhs = s.rhs /\ p.mch = s.mch /\ p.rch = s.rch
      /\ p.IAB = s.IAB /\ p.RHS1 = s.RHS1
  BY <1>2 DEF Chain
<1>4. p \in Chain
  BY <1>1, <1>2 DEF Chain
<1>5. Linked(p)
  BY <1>3 DEF Linked, BlocksCurrent
<1> QED BY <1>3, <1>4, <1>5 DEF v, p

\* resolve recomputes the eliminated unknowns of system k from its present blocks.
LEMMA Resolve ==
  ASSUME NEW s \in Chain, NEW k \in {0, 1}, Linked(s)
  PROVE  LET r == resolve(s, k)
         IN  /\ r \in Chain /\ Linked(r)
             /\ r.IAB[k] = s.matrix[k] /\ r.RHS1[k] = s.rhs[k]
             /\ r.sol[k] = joined(joined(of_matrix(s.matrix[k]), s.rhs[k]), s.sol[k + 1])
             /\ \A j \in 0 .. k : r.matrix[j] = s.matrix[j] /\ r.rhs[j] = s.rhs[j]
             /\ k = 1 => r.mch[0] = s.mch[0] /\ r.rch[0] = s.rch[0]
<1> DEFINE f == form_schur(s, k)
           v == joined(joined(of_matrix(f.IAB[k]), f.RHS1[k]), f.sol[k + 1])
           r == resolve(s, k)
<1>1. /\ f \in Chain /\ Linked(f) /\ ~ f.mch[k] /\ ~ f.rch[k] /\ f.sol = s.sol
      /\ \A j \in 0 .. k : f.matrix[j] = s.matrix[j] /\ f.rhs[j] = s.rhs[j]
      /\ k = 1 => f.mch[0] = s.mch[0] /\ f.rch[0] = s.rch[0]
  BY FormSchur
<1>2. r = [f EXCEPT !.sol[k] = v]
  BY DEF resolve
<1> HIDE DEF f, r
<1>3. f.IAB[k] = f.matrix[k] /\ f.RHS1[k] = f.rhs[k]
  BY <1>1 DEF Linked, BlocksCurrent
<1>4. f.IAB[k] = s.matrix[k] /\ f.RHS1[k] = s.rhs[k]
  BY <1>1, <1>3
<1>5. v = joined(joined(of_matrix(s.matrix[k]), s.rhs[k]), s.sol[k + 1])
  BY <1>1, <1>4
<1>6. v \in Value
  <2>1. f.IAB[k] \in Nat /\ f.RHS1[k] \in Value /\ f.sol[k + 1] \in Value
    BY <1>1 DEF Chain, Systems
  <2> QED BY <2>1 DEF joined, of_matrix, Value
<1> HIDE DEF v
<1>7. /\ r.sol = [f.sol EXCEPT ![k] = v]
      /\ r.matrix = f.matrix /\ r.rhs = f.rhs /\ r.mch = f.mch /\ r.rch = f.rch
      /\ r.IAB = f.IAB /\ r.RHS1 = f.RHS1
  BY <1>1, <1>2 DEF Chain
<1>8. r \in Chain
  BY <1>1, <1>2, <1>6 DEF Chain
<1>9. r.sol[k] = v
  BY <1>1, <1>7 DEF Chain, Systems
<1>10. Linked(r)
  BY <1>1, <1>7 DEF Linked, BlocksCurrent
<1> QED BY <1>1, <1>4, <1>5, <1>7, <1>8, <1>9, <1>10 DEF r

\* A system with one complement: the solution is of its present matrix and right-hand side.
LEMMA SolveOne ==
  ASSUME NEW s \in Chain, NEW k \in {0, 1}, Linked(s)
  PROVE  LET r == solve_one(s, k)
         IN  /\ r \in Chain /\ Linked(r)
             /\ r.sol[k].mats \subseteq s.rhs[k].mats \cup {s.matrix[k]}
             /\ r.sol[k].rhss = s.rhs[k].rhss
             /\ \A j \in 0 .. k : r.matrix[j] = s.matrix[j] /\ r.rhs[j] = s.rhs[j]
<1> DEFINE f == form_schur(s, k)
           p == petsc_solve(f, k + 1)
           r == solve_one(s, k)
<1>1. /\ f \in Chain /\ Linked(f) /\ ~ f.mch[k] /\ ~ f.rch[k]
      /\ \A j \in 0 .. k : f.matrix[j] = s.matrix[j] /\ f.rhs[j] = s.rhs[j]
  BY FormSchur
<1> HIDE DEF f
<1>2. /\ f.IAB[k] = f.matrix[k] /\ f.matrix[k + 1] = s.matrix[k]
      /\ f.rhs[k + 1] = joined(s.rhs[k], of_matrix(s.matrix[k]))
  BY <1>1 DEF Linked, BlocksCurrent
<1>3. /\ p \in Chain /\ Linked(p)
      /\ p.sol = [f.sol EXCEPT ![k + 1] = joined(f.rhs[k + 1], of_matrix(f.matrix[k + 1]))]
      /\ p.matrix = f.matrix /\ p.rhs = f.rhs
  <2>1. k + 1 \in Systems
    BY DEF Systems
  <2> QED BY <1>1, <2>1, PetscSolve
<1>4. r = resolve(p, k)
  BY DEF solve_one, f
<1> HIDE DEF p, r
<1>5. p.sol[k + 1] = joined(joined(s.rhs[k], of_matrix(s.matrix[k])), of_matrix(s.matrix[k]))
  BY <1>1, <1>2, <1>3 DEF Chain, Systems
<1>6. /\ r \in Chain /\ Linked(r)
      /\ r.sol[k] = joined(joined(of_matrix(p.matrix[k]), p.rhs[k]), p.sol[k + 1])
      /\ \A j \in 0 .. k : r.matrix[j] = p.matrix[j] /\ r.rhs[j] = p.rhs[j]
  <2> DEFINE q == resolve(p, k)
  <2>1. /\ q \in Chain /\ Linked(q)
        /\ q.sol[k] = joined(joined(of_matrix(p.matrix[k]), p.rhs[k]), p.sol[k + 1])
        /\ \A j \in 0 .. k : q.matrix[j] = p.matrix[j] /\ q.rhs[j] = p.rhs[j]
    BY <1>3, Resolve
  <2> HIDE DEF q
  <2>2. r = q
    BY <1>4 DEF q
  <2> QED BY <2>1, <2>2
<1>7. r.sol[k] = joined(joined(of_matrix(s.matrix[k]), s.rhs[k]),
                        joined(joined(s.rhs[k], of_matrix(s.matrix[k])), of_matrix(s.matrix[k])))
  BY <1>1, <1>3, <1>5, <1>6
<1>8. /\ r.sol[k].mats = s.rhs[k].mats \cup {s.matrix[k]}
      /\ r.sol[k].rhss = s.rhs[k].rhss
  BY <1>7 DEF joined, of_matrix
<1> QED BY <1>1, <1>3, <1>6, <1>8 DEF r

\* solve, through any number of complements: the solution of system 0 is of its present matrix
\* and right-hand side, and the system stays as it was assembled.
LEMMA Solve ==
  ASSUME ScTypeOK, Linked(chain)
  PROVE  LET r == solve(chain)
         IN  /\ r \in Chain /\ Linked(r)
             /\ r.sol[0].mats \subseteq {sc_matrix[0]} /\ r.sol[0].rhss = sc_rhs[0].rhss
             /\ r.matrix[0] = sc_matrix[0] /\ r.rhs[0] = sc_rhs[0]
<1> DEFINE s == chain
<1>1. /\ s \in Chain /\ Linked(s) /\ s.rhs[0].mats = {} /\ s.matrix = sc_matrix /\ s.rhs = sc_rhs
      /\ sc_n \in 0..2
  BY DEF ScTypeOK, chain, Linked
<1> HIDE DEF s
<1>2. CASE sc_n = 0
  <2> DEFINE p == petsc_solve(s, 0)
  <2>1. solve(s) = p
    BY <1>2 DEF solve
  <2>2. /\ p \in Chain /\ Linked(p) /\ p.matrix = s.matrix /\ p.rhs = s.rhs
        /\ p.sol = [s.sol EXCEPT ![0] = joined(s.rhs[0], of_matrix(s.matrix[0]))]
    <3>1. 0 \in Systems
      BY DEF Systems
    <3> QED BY <1>1, <3>1, PetscSolve
  <2> HIDE DEF p
  <2>3. p.sol[0] = joined(s.rhs[0], of_matrix(s.matrix[0]))
    BY <1>1, <2>2 DEF Chain, Systems
  <2>4. p.sol[0].mats \subseteq {s.matrix[0]} /\ p.sol[0].rhss = s.rhs[0].rhss
    BY <1>1, <2>3 DEF joined, of_matrix
  <2> QED BY <1>1, <2>1, <2>2, <2>4 DEF s
<1>3. CASE sc_n = 1
  <2>1. solve(s) = solve_one(s, 0)
    BY <1>3 DEF solve
  <2> DEFINE r == solve_one(s, 0)
  <2>2. /\ r \in Chain /\ Linked(r)
        /\ r.sol[0].mats \subseteq s.rhs[0].mats \cup {s.matrix[0]} /\ r.sol[0].rhss = s.rhs[0].rhss
        /\ \A j \in 0 .. 0 : r.matrix[j] = s.matrix[j] /\ r.rhs[j] = s.rhs[j]
    BY <1>1, SolveOne
  <2> HIDE DEF r
  <2>3. r.matrix[0] = s.matrix[0] /\ r.rhs[0] = s.rhs[0]
    BY <2>2
  <2> QED BY <1>1, <2>1, <2>2, <2>3 DEF s, r
<1>4. CASE sc_n = 2
  <2> DEFINE f == form_schur(s, 0)
             o == solve_one(f, 1)
             r == resolve(o, 0)
  <2>1. solve(s) = r
    BY <1>4 DEF solve, solve_two
  <2>2. /\ f \in Chain /\ Linked(f) /\ ~ f.mch[0] /\ ~ f.rch[0]
        /\ \A j \in 0 .. 0 : f.matrix[j] = s.matrix[j] /\ f.rhs[j] = s.rhs[j]
    BY <1>1, FormSchur
  <2> HIDE DEF f
  <2>3. /\ f.matrix[0] = s.matrix[0] /\ f.rhs[0] = s.rhs[0]
        /\ f.matrix[1] = s.matrix[0] /\ f.rhs[1] = joined(s.rhs[0], of_matrix(s.matrix[0]))
    BY <2>2 DEF Linked, BlocksCurrent
  <2>4. /\ o \in Chain /\ Linked(o)
        /\ o.sol[1].mats \subseteq f.rhs[1].mats \cup {f.matrix[1]} /\ o.sol[1].rhss = f.rhs[1].rhss
        /\ \A j \in 0 .. 1 : o.matrix[j] = f.matrix[j] /\ o.rhs[j] = f.rhs[j]
    BY <2>2, SolveOne
  <2> HIDE DEF o
  <2>5. /\ r \in Chain /\ Linked(r)
        /\ r.sol[0] = joined(joined(of_matrix(o.matrix[0]), o.rhs[0]), o.sol[1])
        /\ \A j \in 0 .. 0 : r.matrix[j] = o.matrix[j] /\ r.rhs[j] = o.rhs[j]
    BY <2>4, Resolve
  <2> HIDE DEF r
  <2>6. r.matrix[0] = s.matrix[0] /\ r.rhs[0] = s.rhs[0] /\ o.matrix[0] = s.matrix[0] /\ o.rhs[0] = s.rhs[0]
    BY <2>3, <2>4, <2>5
  <2>7. o.sol[1].mats \subseteq {s.matrix[0]} /\ o.sol[1].rhss = s.rhs[0].rhss
    BY <1>1, <2>3, <2>4 DEF joined, of_matrix
  <2>8. r.sol[0].mats \subseteq {s.matrix[0]} /\ r.sol[0].rhss = s.rhs[0].rhss
    BY <1>1, <2>5, <2>6, <2>7 DEF joined, of_matrix
  <2> QED BY <1>1, <2>1, <2>5, <2>6, <2>8 DEF s
<1> QED BY <1>1, <1>2, <1>3, <1>4

---------------------------------------------------------------------------
(* The caller. *)

\* An assembly or a modification of system 0 that sets the flags of what it renews.
LEMMA NewSystem ==
  ASSUME ScTypeOK, Linked(chain), NEW m \in Nat, NEW v \in Nat, NEW marked \in BOOLEAN,
         ~ marked => m = sc_matrix[0],
         sc_matrix' = [sc_matrix EXCEPT ![0] = m],
         sc_rhs' = [sc_rhs EXCEPT ![0] = [mats |-> {}, rhss |-> {v}]],
         matrix_changed_' = [matrix_changed_ EXCEPT ![0] = @ \/ marked],
         rhs_changed_' = [rhs_changed_ EXCEPT ![0] = TRUE],
         UNCHANGED <<sc_formed, sc_IAB, sc_RHS1, sc_solution>>
  PROVE  chain' \in Chain /\ Linked(chain')
<1> USE DEF chain
<1>1. /\ sc_matrix \in [Systems -> Nat] /\ sc_rhs \in [Systems -> Value]
      /\ matrix_changed_ \in [Systems -> BOOLEAN] /\ rhs_changed_ \in [Systems -> BOOLEAN]
      /\ sc_formed \in [Systems -> BOOLEAN] /\ sc_IAB \in [Systems -> Nat]
      /\ sc_RHS1 \in [Systems -> Value] /\ sc_solution \in [Systems -> Value]
  BY DEF ScTypeOK, Chain
<1>2. sc_matrix' \in [Systems -> Nat] /\ sc_rhs' \in [Systems -> Value]
  BY <1>1 DEF Value, Systems
<1>3. /\ matrix_changed_' \in [Systems -> BOOLEAN] /\ rhs_changed_' \in [Systems -> BOOLEAN]
      /\ rhs_changed_'[0] = TRUE /\ (matrix_changed_'[0] <=> (matrix_changed_[0] \/ marked))
      /\ matrix_changed_'[1] = matrix_changed_[1] /\ rhs_changed_'[1] = rhs_changed_[1]
  BY <1>1 DEF Systems
<1>4. chain' \in Chain
  BY <1>1, <1>2, <1>3 DEF Chain
<1>5. /\ sc_matrix'[0] = m /\ sc_matrix'[1] = sc_matrix[1] /\ sc_matrix'[2] = sc_matrix[2]
      /\ sc_rhs'[0].mats = {} /\ sc_rhs'[1] = sc_rhs[1] /\ sc_rhs'[2] = sc_rhs[2]
  BY <1>1 DEF Systems
<1>6. BlocksCurrent(chain', 0)
  BY <1>3, <1>5 DEF Linked, BlocksCurrent
<1>7. BlocksCurrent(chain', 1)
  BY <1>3, <1>5 DEF Linked, BlocksCurrent
<1> QED BY <1>4, <1>5, <1>6, <1>7 DEF Linked

\* The invariant holds of the system as it is created.
LEMMA ScInitial == ScInit => ScInv
<1> SUFFICES ASSUME ScInit PROVE ScInv
  OBVIOUS
<1> USE DEF ScInit, chain
<1>1. Nothing \in Value
  BY DEF Nothing, Value
<1>2. chain \in Chain
  BY <1>1 DEF Chain
<1>3. ScTypeOK
  BY <1>1, <1>2, SchurCountsAssumption DEF ScTypeOK
<1>4. Linked(chain)
  BY DEF Linked, BlocksCurrent, Systems, Nothing
<1>5. PresentSystemUsed
  BY DEF PresentSystemUsed, SolvesPresentSystem, ResidualFromPresentBlocks
<1> QED BY <1>3, <1>4, <1>5 DEF ScInv

\* assembly_linear_system with changed data
LEMMA FullAssemblyPreserves == ScInv /\ ScFullAssembly => ScInv'
<1> SUFFICES ASSUME ScInv, ScFullAssembly PROVE ScInv'
  OBVIOUS
<1> USE DEF ScInv, ScFullAssembly
<1>1. sc_assembled' \in Nat
  BY DEF ScTypeOK
<1>2. matrix_changed_' = [matrix_changed_ EXCEPT ![0] = @ \/ TRUE]
  OBVIOUS
<1>3. chain' \in Chain /\ Linked(chain')
  BY <1>1, <1>2, NewSystem
<1>4. ScTypeOK'
  BY <1>1, <1>3 DEF ScTypeOK
<1>5. PresentSystemUsed'
  BY DEF PresentSystemUsed, SolvesPresentSystem, ResidualFromPresentBlocks
<1> QED BY <1>3, <1>4, <1>5

\* modify_system
LEMMA ModifyPreserves ==
  ASSUME NEW rescales \in BOOLEAN, ScInv, ScModifySystem(rescales)
  PROVE  ScInv'
<1> USE DEF ScInv, ScModifySystem, modify_marks
<1>1. sc_assembled' \in Nat
  BY DEF ScTypeOK
<1>2. PICK m \in Nat : sc_matrix' = [sc_matrix EXCEPT ![0] = m] /\ (~ rescales => m = sc_matrix[0])
  <2>1. sc_matrix \in [Systems -> Nat]
    BY DEF ScTypeOK, Chain, chain
  <2>2. sc_matrix = [sc_matrix EXCEPT ![0] = sc_matrix[0]] /\ sc_matrix[0] \in Nat
    BY <2>1 DEF Systems
  <2>3. CASE rescales
    BY <1>1, <2>3
  <2>4. CASE ~ rescales
    BY <2>2, <2>4
  <2> QED BY <2>3, <2>4
<1>3. chain' \in Chain /\ Linked(chain')
  BY <1>1, <1>2, NewSystem
<1>4. ScTypeOK'
  BY <1>1, <1>3 DEF ScTypeOK
<1>5. PresentSystemUsed'
  BY DEF PresentSystemUsed, SolvesPresentSystem, ResidualFromPresentBlocks
<1> QED BY <1>3, <1>4, <1>5

\* prepare_new_time_step swaps two solutions, which no block is made from.
LEMMA PreparePreserves ==
  ASSUME NEW unsteady \in BOOLEAN, ScInv, ScPrepare(unsteady)
  PROVE  ScInv'
<1> USE DEF ScInv, ScPrepare
<1>1. sc_solution \in [Systems -> Value] /\ sc_previous \in Value
  BY DEF ScTypeOK, Chain, chain
<1>2. sc_solution' \in [Systems -> Value] /\ sc_previous' \in Value
  BY <1>1 DEF Systems
<1>3. chain' = [chain EXCEPT !.sol = sc_solution']
  BY DEF chain
<1>4. chain' \in Chain
  BY <1>2, <1>3 DEF ScTypeOK, Chain
<1>5. Linked(chain')
  BY DEF Linked, BlocksCurrent, chain
<1>6. ScTypeOK'
  BY <1>2, <1>4 DEF ScTypeOK
<1>7. PresentSystemUsed'
  BY DEF PresentSystemUsed, SolvesPresentSystem, ResidualFromPresentBlocks
<1> QED BY <1>5, <1>6, <1>7

\* The state of the chain after an operation.
LEMMA Becomes ==
  ASSUME NEW s \in Chain, becomes(s)
  PROVE  chain' = s
BY DEF becomes, chain, Chain

\* compute_residual
LEMMA ResidualPreserves == ScInv /\ ScResidual => ScInv'
<1> SUFFICES ASSUME ScInv, ScResidual PROVE ScInv'
  OBVIOUS
<1> DEFINE r == compute_residual(chain)
<1>1. chain \in Chain /\ Linked(chain) /\ sc_n \in 0..2
  BY DEF ScInv, ScTypeOK
<1>2. /\ r \in Chain /\ Linked(r) /\ r.matrix[0] = sc_matrix[0] /\ r.rhs[0] = sc_rhs[0]
      /\ sc_n > 0 =>
           /\ r.IAB[0] = sc_matrix[0] /\ r.RHS1[0] = sc_rhs[0]
           /\ {sc_matrix[0]} \cup sc_rhs[0].mats \subseteq r.sol[0].mats
           /\ sc_rhs[0].rhss \subseteq r.sol[0].rhss
  <2>1. CASE sc_n = 0
    <3>1. r = chain
      BY <2>1 DEF compute_residual
    <3> HIDE DEF r
    <3> QED BY <1>1, <2>1, <3>1 DEF chain
  <2>2. CASE sc_n # 0
    <3> DEFINE q == resolve(chain, 0)
    <3>1. r = q
      BY <2>2 DEF compute_residual
    <3>2. /\ q \in Chain /\ Linked(q) /\ q.IAB[0] = chain.matrix[0] /\ q.RHS1[0] = chain.rhs[0]
          /\ q.sol[0] = joined(joined(of_matrix(chain.matrix[0]), chain.rhs[0]), chain.sol[1])
          /\ \A j \in 0 .. 0 : q.matrix[j] = chain.matrix[j] /\ q.rhs[j] = chain.rhs[j]
      BY <1>1, Resolve
    <3>3. chain.matrix[0] = sc_matrix[0] /\ chain.rhs[0] = sc_rhs[0]
      BY DEF chain
    <3> HIDE DEF q, r
    <3>4. /\ {sc_matrix[0]} \cup sc_rhs[0].mats \subseteq q.sol[0].mats
          /\ sc_rhs[0].rhss \subseteq q.sol[0].rhss
      BY <3>2, <3>3 DEF joined, of_matrix
    <3> QED BY <3>1, <3>2, <3>3, <3>4
  <2> QED BY <2>1, <2>2
<1> HIDE DEF r
<1>3. becomes(r)
  BY DEF ScResidual, r
<1>4. chain' = r
  BY <1>2, <1>3, Becomes
<1>5. ScTypeOK'
  BY <1>2, <1>4 DEF ScInv, ScTypeOK, ScResidual
<1>6. /\ sc_matrix' = r.matrix /\ sc_rhs' = r.rhs /\ sc_IAB' = r.IAB /\ sc_RHS1' = r.RHS1
      /\ sc_solution' = r.sol /\ sc_last' = "residual" /\ sc_n' = sc_n
  BY <1>3 DEF becomes, ScResidual
<1>7. PresentSystemUsed'
  BY <1>2, <1>6 DEF PresentSystemUsed, SolvesPresentSystem, ResidualFromPresentBlocks, of_matrix
<1> QED BY <1>2, <1>4, <1>5, <1>7 DEF ScInv

\* LinSys::solve
LEMMA SolvePreserves == ScInv /\ ScSolve => ScInv'
<1> SUFFICES ASSUME ScInv, ScSolve PROVE ScInv'
  OBVIOUS
<1> DEFINE r == solve(chain)
<1>1. /\ r \in Chain /\ Linked(r)
      /\ r.sol[0].mats \subseteq {sc_matrix[0]} /\ r.sol[0].rhss = sc_rhs[0].rhss
      /\ r.matrix[0] = sc_matrix[0] /\ r.rhs[0] = sc_rhs[0]
  BY Solve DEF ScInv
<1> HIDE DEF r
<1>2. becomes(r)
  BY DEF ScSolve, r
<1>3. chain' = r
  BY <1>1, <1>2, Becomes
<1>4. ScTypeOK'
  BY <1>1, <1>3 DEF ScInv, ScTypeOK, ScSolve
<1>5. sc_matrix' = r.matrix /\ sc_rhs' = r.rhs /\ sc_solution' = r.sol /\ sc_last' = "solve"
  BY <1>2 DEF becomes, ScSolve
<1>6. PresentSystemUsed'
  BY <1>1, <1>5 DEF PresentSystemUsed, SolvesPresentSystem, ResidualFromPresentBlocks, present
<1> QED BY <1>1, <1>3, <1>4, <1>6 DEF ScInv

\* ScInv is inductive.
THEOREM ChainInvariant == ScSpec => []ScInv
<1>1. ScInv /\ [ScNext]_sc_vars => ScInv'
  <2> SUFFICES ASSUME ScInv, [ScNext]_sc_vars PROVE ScInv'
    OBVIOUS
  <2>1. ASSUME UNCHANGED <<sc_n, sc_assembled, sc_matrix, sc_rhs, matrix_changed_, rhs_changed_,
                           sc_formed, sc_IAB, sc_RHS1, sc_solution, sc_previous, sc_last>>
        PROVE  ScInv'
    <3>1. chain' = chain
      BY <2>1 DEF chain
    <3> QED BY <2>1, <3>1 DEF ScInv, ScTypeOK, PresentSystemUsed, SolvesPresentSystem,
                             ResidualFromPresentBlocks, present
  <2>2. CASE UNCHANGED sc_vars
    BY <2>1, <2>2 DEF sc_vars
  <2>3. CASE ScNoAssembly \/ ScAtEnd
    BY <2>1, <2>3 DEF ScNoAssembly, ScAtEnd, sc_vars
  <2> QED BY <2>2, <2>3, FullAssemblyPreserves, PreparePreserves, ModifyPreserves,
             ResidualPreserves, SolvePreserves DEF ScNext
<1> QED BY <1>1, ScInitial, PTL DEF ScSpec

\* PresentSystemUsed for every history of assemblies, residuals and solves: no block of an older
\* system is used, whatever the flags let the complements keep.
THEOREM OnlyPresentBlocks == ScSpec => []PresentSystemUsed
BY ChainInvariant, PTL DEF ScInv
=============================================================================
