---------------------------- MODULE SchurSystem ----------------------------
(***************************************************************************)
(* The linear system of the mixed-hybrid flow, solved through a chain of   *)
(* Schur complements (la/schur.cc over la/linsys_PETSC.cc): system 0 is    *)
(* assembled, system k + 1 is the complement of system k, the last one is  *)
(* solved by PETSc.  Flags passed along the chain say which blocks are to  *)
(* be formed again.  The caller is DarcyMH::solve_nonlinear.               *)
(*                                                                         *)
(* Values are versions.  A right-hand side or a solution is the pair of    *)
(* sets of the versions of matrices and right-hand sides of system 0 that  *)
(* it was computed from.                                                   *)
(***************************************************************************)
EXTENDS Naturals

CONSTANTS SchurCounts,   \* values of n_schur_compls that are tried
          ScAssemblies   \* bound: number of assemblies

ASSUME SchurCountsAssumption == SchurCounts \subseteq 0..2

VARIABLES sc_pc,             \* where the step and its solve_nonlinear are
          sc_n,              \* n_schur_compls
          sc_assembled,      \* number of assemblies so far
          sc_matrix, sc_rhs,                 \* of each system
          matrix_changed_, rhs_changed_,     \* of each system
          sc_formed,         \* state = formed, of each system that has a complement
          sc_IAB,            \* version of the matrix IA and IAB were made from, of each such system
          sc_RHS1,           \* right-hand side of the eliminated block, of each such system
          sc_solution,       \* solution_ of each system (Sol2 of system k is that of k + 1)
          sc_previous,       \* previous_solution
          sc_last            \* history: the last call, "none", "residual" or "solve"

sc_vars == <<sc_pc, sc_n, sc_assembled, sc_matrix, sc_rhs, matrix_changed_, rhs_changed_,
             sc_formed, sc_IAB, sc_RHS1, sc_solution, sc_previous, sc_last>>

Systems == 0..2
Nothing == [mats |-> {}, rhss |-> {}]

\* create_linear_system up to start_allocation; VecZeroEntries(solution)
ScInit ==
  /\ sc_pc = "start" /\ sc_n \in SchurCounts /\ sc_assembled = 0
  /\ sc_matrix = [k \in Systems |-> 0] /\ sc_rhs = [k \in Systems |-> Nothing]
  /\ matrix_changed_ = [k \in Systems |-> TRUE] /\ rhs_changed_ = [k \in Systems |-> TRUE]
  /\ sc_formed = [k \in Systems |-> FALSE]
  /\ sc_IAB = [k \in Systems |-> 0] /\ sc_RHS1 = [k \in Systems |-> Nothing]
  /\ sc_solution = [k \in Systems |-> Nothing] /\ sc_previous = Nothing
  /\ sc_last = "none"

---------------------------------------------------------------------------
(* The chain, as functions of its state s = [matrix, rhs, mch, rch, formed, IAB, RHS1, sol]. *)

chain == [matrix |-> sc_matrix, rhs |-> sc_rhs, mch |-> matrix_changed_, rch |-> rhs_changed_,
          formed |-> sc_formed, IAB |-> sc_IAB, RHS1 |-> sc_RHS1, sol |-> sc_solution]

joined(a, b) == [mats |-> a.mats \cup b.mats, rhss |-> a.rhss \cup b.rhss]
of_matrix(m) == [mats |-> {m}, rhss |-> {}]

\* create_inversion_matrix, and with it IAB: of the present matrix of system k
create_inversion_matrix(s, k) == s.matrix[k]

\* form_rhs, its condition
rhs_stays(s, k) == ~ (s.rch[k] \/ s.mch[k])

\* form_rhs
form_rhs(s, k) ==
  IF rhs_stays(s, k) THEN s
  ELSE [s EXCEPT !.RHS1[k] = s.rhs[k],
                 !.rhs[k + 1] = joined(s.rhs[k], of_matrix(s.IAB[k])),
                 !.rch[k + 1] = TRUE,
                 !.rch[k] = FALSE]

\* Mutant: the complement is not told that its matrix has changed once it was formed.
pass_matrix_first_time(s, k) ==
  [s EXCEPT !.IAB[k] = create_inversion_matrix(s, k),
            !.matrix[k + 1] = s.matrix[k],
            !.mch[k + 1] = @ \/ ~ s.formed[k]]

\* form_schur: the part done when the matrix has changed
pass_matrix(s, k) ==
  [s EXCEPT !.IAB[k] = create_inversion_matrix(s, k),
            !.matrix[k + 1] = s.matrix[k],
            !.mch[k + 1] = TRUE]

\* form_schur
form_schur(s, k) ==
  LET a == IF s.mch[k] THEN pass_matrix(s, k) ELSE s
  IN  [form_rhs(a, k) EXCEPT !.mch[k] = FALSE, !.formed[k] = TRUE]

\* LinSys_PETSC::solve
petsc_solve(s, k) == [s EXCEPT !.sol[k] = joined(s.rhs[k], of_matrix(s.matrix[k]))]

\* resolve: x_1 = IA * RHS_1 - IAB * x_2
resolve(s, k) ==
  LET f == form_schur(s, k)
  IN  [f EXCEPT !.sol[k] = joined(joined(of_matrix(f.IAB[k]), f.RHS1[k]), f.sol[k + 1])]

\* SchurComplement::solve of the last system that has a complement, and of the one above it.
\* The solution is scattered to that of the complement, as the first guess; it is then solved.
solve_one(s, k) == resolve(petsc_solve(form_schur(s, k), k + 1), k)
solve_two(s) == resolve(solve_one(form_schur(s, 0), 1), 0)

solve(s) == IF sc_n = 0 THEN petsc_solve(s, 0) ELSE IF sc_n = 1 THEN solve_one(s, 0) ELSE solve_two(s)

\* compute_residual
compute_residual(s) == IF sc_n = 0 THEN s ELSE resolve(s, 0)

becomes(s) ==
  /\ sc_matrix' = s.matrix /\ sc_rhs' = s.rhs /\ matrix_changed_' = s.mch /\ rhs_changed_' = s.rch
  /\ sc_formed' = s.formed /\ sc_IAB' = s.IAB /\ sc_RHS1' = s.RHS1 /\ sc_solution' = s.sol

---------------------------------------------------------------------------
(* The caller. *)

\* A step begins.  prepare_new_time_step: the contents of the two vectors are swapped before an
\* unsteady one.
ScPrepare(unsteady) ==
  /\ sc_pc = "step" /\ sc_assembled < ScAssemblies
  /\ sc_previous' = IF unsteady THEN sc_solution[0] ELSE sc_previous
  /\ sc_solution' = IF unsteady THEN [sc_solution EXCEPT ![0] = sc_previous] ELSE sc_solution
  /\ sc_last' = "none"
  /\ sc_pc' = IF unsteady THEN "unsteady" ELSE "steady"
  /\ UNCHANGED <<sc_n, sc_assembled, sc_matrix, sc_rhs, matrix_changed_, rhs_changed_,
                 sc_formed, sc_IAB, sc_RHS1>>

\* assembly_linear_system with changed data: start_add_assembly creates the matrix the first time;
\* finish_assembly, and after it setup_time_term and modify_system for the unsteady flow.
\* The zero time step of unsteady flow assembles only.
ScFullAssembly ==
  /\ sc_pc \in {"start", "steady", "unsteady", "again"} /\ sc_assembled < ScAssemblies
  /\ sc_assembled' = sc_assembled + 1
  /\ sc_matrix' = [sc_matrix EXCEPT ![0] = sc_assembled']
  /\ sc_rhs' = [sc_rhs EXCEPT ![0] = [mats |-> {}, rhss |-> {sc_assembled'}]]
  /\ matrix_changed_' = [matrix_changed_ EXCEPT ![0] = TRUE]
  /\ rhs_changed_' = [rhs_changed_ EXCEPT ![0] = TRUE]
  /\ sc_last' = "none"
  /\ sc_pc' = "residual" \/ (sc_pc = "start" /\ sc_pc' = "step")
  /\ UNCHANGED <<sc_n, sc_formed, sc_IAB, sc_RHS1, sc_solution, sc_previous>>

\* modify_system: when the matrix is marked as changed
modify_marks(rescales) == rescales

\* modify_system without setup_time_term: the right-hand side changes, the diagonal of the
\* matrix only if the length of the step has changed.
ScModifySystem(rescales) ==
  /\ sc_pc = "unsteady" /\ sc_assembled < ScAssemblies
  /\ sc_assembled' = sc_assembled + 1
  /\ sc_matrix' = IF rescales THEN [sc_matrix EXCEPT ![0] = sc_assembled'] ELSE sc_matrix
  /\ matrix_changed_' = [matrix_changed_ EXCEPT ![0] = @ \/ modify_marks(rescales)]
  /\ sc_rhs' = [sc_rhs EXCEPT ![0] = [mats |-> {}, rhss |-> {sc_assembled'}]]
  /\ rhs_changed_' = [rhs_changed_ EXCEPT ![0] = TRUE]
  /\ sc_last' = "none"
  /\ sc_pc' = "residual"
  /\ UNCHANGED <<sc_n, sc_formed, sc_IAB, sc_RHS1, sc_solution, sc_previous>>

\* assembly_linear_system of a steady flow whose data have not changed
ScNoAssembly ==
  /\ sc_pc = "steady"
  /\ sc_pc' = "residual"
  /\ UNCHANGED <<sc_n, sc_assembled, sc_matrix, sc_rhs, matrix_changed_, rhs_changed_,
                 sc_formed, sc_IAB, sc_RHS1, sc_solution, sc_previous, sc_last>>

\* The residual is computed after each assembly and after the solve of a linear problem; then
\* the loop goes on or ends.
ScResidual ==
  /\ sc_pc = "residual"
  /\ becomes(compute_residual(chain))
  /\ sc_last' = "residual"
  /\ sc_pc' \in {"solve", "step"}
  /\ UNCHANGED <<sc_n, sc_assembled, sc_previous>>

\* A nonlinear problem is assembled again after the solve, a linear one is not.
ScSolve ==
  /\ sc_pc = "solve"
  /\ becomes(solve(chain))
  /\ sc_last' = "solve"
  /\ sc_pc' \in {"residual", "again"}
  /\ UNCHANGED <<sc_n, sc_assembled, sc_previous>>

ScAtEnd == sc_pc \in {"step", "again"} /\ sc_assembled = ScAssemblies /\ UNCHANGED sc_vars

ScNext == \/ ScFullAssembly
          \/ \E unsteady \in BOOLEAN : ScPrepare(unsteady)
          \/ \E rescales \in BOOLEAN : ScModifySystem(rescales)
          \/ ScNoAssembly \/ ScResidual \/ ScSolve \/ ScAtEnd

ScSpec == ScInit /\ [][ScNext]_sc_vars

---------------------------------------------------------------------------
(* Properties. *)

present(v) == v.mats \subseteq {sc_matrix[0]} /\ v.rhss = sc_rhs[0].rhss

\* Whatever blocks of the complements are reused, a solve gives the solution of the system as
\* it was last assembled or modified: nothing in it, eliminated or not, comes from an older
\* matrix or right-hand side.
SolvesPresentSystem == sc_last = "solve" => present(sc_solution[0])

\* The residual of a system with complements is taken with the eliminated unknowns recomputed
\* from the present blocks, also when it is computed before the solve.
ResidualFromPresentBlocks ==
  sc_last = "residual" /\ sc_n > 0 =>
    /\ sc_IAB[0] = sc_matrix[0] /\ sc_RHS1[0] = sc_rhs[0]
    /\ of_matrix(sc_IAB[0]).mats \cup sc_RHS1[0].mats \subseteq sc_solution[0].mats
    /\ sc_RHS1[0].rhss \subseteq sc_solution[0].rhss

\* Neither a solve nor a residual uses a block of an older system.
PresentSystemUsed == SolvesPresentSystem /\ ResidualFromPresentBlocks
=============================================================================
