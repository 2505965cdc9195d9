--------------------------- MODULE NonlinearFlow ---------------------------
(***************************************************************************)
(* The nonlinear solver of the flow equation (DarcyLMH::solve_nonlinear)   *)
(* and the switching of seepage boundary conditions inside its assembly    *)
(* (flow/assembly_lmh.hh).  Every iteration assembles the system from the  *)
(* last solution.  A seepage side is a Dirichlet side until its flux falls *)
(* under a limit, then a Neumann side until its pressure exceeds another;  *)
(* the flux of a Dirichlet side is reconstructed from the local system of  *)
(* the last assembly, which is kept for elements with such a side.         *)
(*                                                                         *)
(* Residuals are whole numbers, and whether a side is over its limit is    *)
(* any outcome of a solve.                                                 *)
(***************************************************************************)
EXTENDS Naturals, Sequences, SequencesExt

CONSTANTS NlSolves,      \* bound: number of solves
          NlElements,    \* number of elements, assembled in the order 1, 2, ...
          NlCases,       \* [min_it, max_it, on_stagnation, linear, seepage] of the input;
                         \* seepage: per element, the number of its seepage sides
          NlResiduals,   \* residual norms, as multiples of some unit
          NlTolerance

ASSUME NlAssumption ==
  /\ NlTolerance \in Nat /\ NlResiduals \subseteq Nat /\ NlElements \in Nat
  /\ NlCases \subseteq [min_it : Nat, max_it : Nat, on_stagnation : BOOLEAN, linear : BOOLEAN,
                        seepage : [1 .. NlElements -> Nat]]

VARIABLES nl_pc,         \* "idle", "loop", "reconstruct" or "failed"
          nl_case,       \* the input
          nl_solves,     \* number of finished solves
          nonlinear_iteration,
          residual_norm,
          history,       \* convergence_history
          switch,        \* bc_switch_dirichlet, by element and side
          saved,         \* seepage_bc_systems: by element, "none" or the age of its system
          reconstructed, \* which element reconstructed_solution_ is of, and the system's age
          assemblies,    \* history: assemblies since the start, at most 2 are told apart
          completed,     \* history: iterations of this solve
          tested         \* history: by element, the fluxes its sides were tested with

nl_vars == <<nl_pc, nl_case, nl_solves, nonlinear_iteration, residual_norm, history,
             switch, saved, reconstructed, assemblies, completed, tested>>

NlEls == 1 .. NlElements
NlSides(e) == 1 .. nl_case.seepage[e]
no_flux == [of |-> 0, age |-> "none"]

\* An older system than that of the last assembly stays in the map.
aged(s) == IF s = "none" THEN "none" ELSE "old"

\* load_local_system: at most once per element and assembly, if there is a system
load_local_system(e, sys, rec) == IF sys[e] = "none" THEN rec ELSE [of |-> e, age |-> sys[e]]

\* Mutant: the type before the test decides.
saves_before(e, types, before) == nl_case.seepage[e] > 0 /\ before[nl_case.seepage[e]]

\* save_local_system_: set by every seepage side in turn, to its new type
saves(e, types, before) == nl_case.seepage[e] > 0 /\ types[nl_case.seepage[e]]

\* Dirichlet sides are tested with the reconstructed flux, others with their pressure.
dirichlet(e) == {i \in NlSides(e) : switch[e][i]}

\* reconstructed_solution_ when the assembly, which takes the elements in order, comes to e: an
\* element without a local system leaves it as it is.
reconstructed_before(e) ==
  FoldLeft(LAMBDA rec, l : IF dirichlet(l) = {} THEN rec ELSE load_local_system(l, saved, rec),
           reconstructed, [l \in 1 .. e - 1 |-> l])

\* over[i] tells if side i is over the limit that makes it switch.
switched(e, over) == [i \in NlSides(e) |-> IF over[i] THEN ~ switch[e][i] ELSE switch[e][i]]

\* What the tests of the sides may say; a seepage side makes the problem nonlinear.
over_outcomes ==
  {[e \in NlEls |-> [i \in NlSides(e) |-> <<e, i>> \in s]] :
     s \in SUBSET UNION {{e} \X NlSides(e) : e \in NlEls}}

\* assembly_mh_matrix: the local systems of all elements
assembly_linear_system(over) ==
  /\ switch' = [e \in NlEls |-> switched(e, over[e])]
  /\ saved' = [e \in NlEls |->
                 IF saves(e, switched(e, over[e]), switch[e]) THEN "last" ELSE aged(saved[e])]
  /\ reconstructed' = reconstructed_before(NlElements + 1)
  /\ tested' = [e \in NlEls |->
                  IF dirichlet(e) = {} THEN {}
                  ELSE {load_local_system(e, saved, reconstructed_before(e))}]
  /\ assemblies' = IF assemblies < 2 THEN assemblies + 1 ELSE 2

NlInit ==
  /\ nl_pc = "idle" /\ nl_case \in NlCases /\ nl_solves = 0
  /\ nonlinear_iteration = 0 /\ residual_norm = 0 /\ history = << >>
  /\ switch = [e \in NlEls |-> [i \in NlSides(e) |-> TRUE]]
  /\ saved = [e \in NlEls |-> "none"]
  /\ reconstructed \in {no_flux, [of |-> NlElements, age |-> "last"]}   \* after zero_time_step
  /\ assemblies = 0 /\ completed = 0
  /\ tested = [e \in NlEls |-> {}]

\* solve_nonlinear up to the loop: the first assembly comes before the counter is reset.
NlStart(over, r) ==
  /\ nl_pc = "idle" /\ nl_solves < NlSolves
  /\ completed' = 0
  /\ assembly_linear_system(over)
  /\ nonlinear_iteration' = 0
  /\ residual_norm' = r
  /\ history' = << >>
  /\ nl_pc' = "loop"
  /\ UNCHANGED <<nl_case, nl_solves>>

min_n_it == IF nl_case.min_it > nl_case.max_it THEN nl_case.max_it ELSE nl_case.min_it

iterates == \/ nonlinear_iteration < min_n_it
            \/ residual_norm > NlTolerance /\ nonlinear_iteration < nl_case.max_it

\* a / b > p / 10, where b may be zero
exceeds(a, b, p) == IF b = 0 THEN a > 0 ELSE 10 * a > p * b

\* Mutant: two iterations are enough to speak of stagnation.
stagnates_soon(h) == Len(h) >= 3 /\ exceeds(h[Len(h)], h[Len(h) - 1], 9)

\* The stagnation test; h ends with the present residual.
stagnates(h) == /\ Len(h) >= 5
                /\ exceeds(h[Len(h)], h[Len(h) - 1], 9)
                /\ exceeds(h[Len(h)], h[Len(h) - 4], 8)

\* One iteration; in a linear problem the loop ends with the first solve, without assembly.
NlIterate(over, r) ==
  /\ nl_pc = "loop" /\ iterates /\ ~ stagnates(Append(history, residual_norm))
  /\ history' = Append(history, residual_norm)
  /\ nonlinear_iteration' = nonlinear_iteration + 1
  /\ completed' = completed + 1
  /\ IF nl_case.linear
     THEN /\ nl_pc' = "reconstruct"
          /\ UNCHANGED <<switch, saved, reconstructed, tested, assemblies>>
     ELSE /\ nl_pc' = "loop"
          /\ assembly_linear_system(over)
  /\ residual_norm' = r
  /\ UNCHANGED <<nl_case, nl_solves>>

\* Stagnation is accepted or ends the program.
NlStagnation ==
  /\ nl_pc = "loop" /\ iterates /\ stagnates(Append(history, residual_norm))
  /\ nl_pc' = IF nl_case.on_stagnation THEN "reconstruct" ELSE "failed"
  /\ UNCHANGED <<nl_case, nl_solves, nonlinear_iteration, residual_norm, history, switch,
                 saved, reconstructed, assemblies, completed, tested>>

\* reconstruct_solution_from_schur after the loop: the boundary types stay as they are, the
\* vector of fluxes is left with the last element.
NlReconstruct ==
  /\ nl_pc = "reconstruct" \/ (nl_pc = "loop" /\ ~ iterates)
  /\ reconstructed' = [of |-> NlElements, age |-> "last"]
  /\ nl_solves' = nl_solves + 1
  /\ nl_pc' = "idle"
  /\ UNCHANGED <<nl_case, nonlinear_iteration, residual_norm, history, switch, saved,
                 assemblies, completed, tested>>

NlAtEnd == /\ nl_pc = "failed" \/ (nl_pc = "idle" /\ nl_solves = NlSolves)
           /\ UNCHANGED nl_vars

NlNext == \/ \E over \in over_outcomes, r \in NlResiduals : NlStart(over, r)
          \/ \E over \in over_outcomes, r \in NlResiduals : NlIterate(over, r)
          \/ NlStagnation
          \/ NlReconstruct
          \/ NlAtEnd

NlSpec == NlInit /\ [][NlNext]_nl_vars

---------------------------------------------------------------------------
(* Properties. *)

\* A solve ends with an error only if the residual really is over the tolerance, apart from
\* inputs that ask for five and more iterations at least.
DivergesAboveTolerance ==
  nl_pc = "failed" => residual_norm > NlTolerance \/ min_n_it >= 5

\* No solve makes more than max_it iterations, and it makes as many as the counter says.
IterationsCounted ==
  nl_pc # "idle" => completed = nonlinear_iteration /\ completed <= nl_case.max_it

\* From the second assembly on a Dirichlet seepage side is tested with the flux of its own
\* element, reconstructed from the local system of the last assembly; for elements with one
\* seepage side.
SeepageTestsOwnFlux ==
  assemblies >= 2 =>
    \A e \in NlEls : nl_case.seepage[e] = 1 => tested[e] \subseteq {[of |-> e, age |-> "last"]}

\* A solve is left when it may be: not with an error below the tolerance, and not after more
\* iterations than the input allows.
SolveLeftInTime == DivergesAboveTolerance /\ IterationsCounted
=============================================================================
