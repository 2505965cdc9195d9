# Time, data and balance in Flow123d: TLA+ models, model checking and proofs

Flow123d simulates flow, transport of solutes and heat, reactions and mechanics in fractured
porous media. Most of its code is numerics. What decides whether a simulation is
meaningful at all, and what tests with fixed input files hardly reach, is the control around
the numerics: which time steps are made, which data are in force in them, which equation
goes on when, what is assembled again after a change, what is written, and whether the
books of the mass balance are right. This directory models that control, checks it with TLC
on small instances and proves with TLAPS, for every value of the constants, what the governor, the nested
steps of the transport, the flow solvers, implicit transport, reactions and the coupling with mechanics promise.

Paths are relative to the repository, e.g. `src/tools/time_governor.cc`.

## 1. Inventory

| Component | State | Operations | Talks to |
|---|---|---|---|
| `tools/time_governor` | recent steps (buffer of 3), constraints, limits table and position, fixed interval, changed flag | `set_upper/lower_constraint`, `fix_dt_until_mark`, `next_time`, `reduce_timestep`, `estimate_dt` | asks TimeMarks for the next fixed mark; owned by every equation |
| `tools/time_marks` | sorted list of marks per equation, bits of types | `new_mark_type`, `add`, `add_time_marks`, `add_to_type_all`, `next`, `last`, `current` | one global object shared by all equations, outputs and balances |
| `io/output_time_set`, `fields/equation_output` | times per field | `read_from_input`, `is_field_output_time`, `output` | adds marks, asks for the current one |
| `coupling/hc_explicit_sequential` | end flag, velocity times and flags | `run_simulation`, `advection_process_step` | drives flow and up to two advection processes |
| `transport/transport`, `transport_operator_splitting` | two governors, matrix and vectors with "scaled" flags, CFL limit | `zero_time_step`, `update_solution`, `evaluate_time_constraint`, `set_target_time` | flux from the coupling, fields, balance |
| `coupling/balance` | increments per rank, integrals on rank 0, initial mass | `calculate_cumulative`, `add_cumulative_source`, `output` | called by every equation, MPI reduction |
| `fields/field` | shared input position and region history, time and side per copy | `set_time`, `update_history` | copies of one field live in several equations |
| `flow/darcy_flow_lmh` | solution, last accepted solution | `zero_time_step`, `update_solution`, `output_data` | governor, fields, balance |
| `flow/darcy_flow_lmh`, `flow/assembly_lmh` (nonlinear loop) | residuals, iteration counter, seepage switches, saved local systems | `solve_nonlinear`, `assembly_linear_system`, `reconstruct_solution_from_schur` | linear solver |
| `flow/darcy_flow_mh` | matrix diagonal and right-hand side with the time term, two solutions | `assembly_linear_system`, `setup_time_term`, `modify_system`, `prepare_new_time_step` | Schur complements |
| `la/schur`, `la/linsys_PETSC` | chain of complements, flags for matrix, right-hand side and solution | `form_schur`, `solve`, `resolve`, `compute_residual` | driven by the flow |
| `transport/transport_dg` and its two models | mass, stiffness and right-hand side, carried mass | `zero_time_step`, `update_solution`, `update_after_reactions` | fields, flow velocity, reactions |
| `transport/assembly_dg`, `fields/field_value_cache` | terms of a rank, cache of evaluation points | `assemble`, `add_integrals_of_computing_step`, `create_elements_points_map` | dof handler on every rank |
| `coupling/hm_iterative`, `mechanics/elasticity` | copies of pressure and divergence, load, flags | `solve_iteration`, `update_after_iteration`, `update_after_converged` | flow and mechanics in one iteration |
| `reaction/*` | isotherm tables, highest concentration, matrix exponential | `make_tables`, `compute_reaction`, `update_solution` | called after every transport step |
| `fem/dofhandler` | own and ghost dofs, numbers | `distribute_dofs`, sub-handler, `create_sequential` | messages between ranks |
| `mesh/mesh`, `mesh/duplicate_nodes` | nodes, elements, edges, neighbours, boundaries | `check_mesh_on_read`, `make_neighbours_and_edges`, `duplicate_nodes` | regions, dof handler |
| `mesh/region`, `mesh/region_set` | table of regions, named sets, element map | `add_region`, `rename_region`, records of the input | mesh reader, fields |
| `system/sys_profiler` | tree of timers, actual timer | `start_timer`, `stop_timer`, `notify_malloc/free`, `output` | called everywhere |
| `io/output_time`, `io/output_mesh`, `io/observe`, `io/element_data_cache` | caches of field data per rank, time of the last frame, mesh, table of observed values | `prepare_compute_data`, `write_time_frame`, `flush_values`, `gather` | filled by all equations that share the stream |
| `io/reader_cache`, `io/msh_basereader`, `io/msh_gmshreader` | one reader per file, one vector per field name | `find_header`, `get_element_data`, `scale_and_check_limits` | fields given by files |
| `input/reader_*`, `input/path_*`, `input/storage` | the place in the input, references followed, sizes and columns found | `make_storage`, `find_ref_node`, `read_storage` of three readers | included files are read by a reader of their own |
| types of the input, finite elements, output formats, ... | see section 7 | | not modelled |

What is hard here:

* **Several clocks.** Flow, solute and heat have governors of their own; inside the solute two
  governors are nested. The coupling orders them by comparing times, and a wrong comparison
  lets one equation use data that do not exist yet, or makes two wait for each other.
* **State changed by others between choice and use.** A step length is chosen long before it is
  made; constraints, targets and limits change in between. A flag "changed" is raised by one
  component, cleared by another and asked for by a third.
* **Sharing.** Time marks are global; copies of a field share history and input position.
* **Rounding at the boundary.** Marks merge at one distance, comparisons accept another.
* **Things kept to save work.** Matrices, right-hand sides, time terms, Schur blocks, isotherm tables
  and matrix exponentials are kept until a flag says that they are out of date; the flag is set in
  one place and cleared in another.
* **Agreement of ranks.** Each rank numbers its degrees of freedom and adds its terms of the matrix
  from a view of the mesh of its own; numbers are exchanged by blocking messages.
* **Shared files.** Equations put data into one output stream by turns, fields take data from one reader; what
  one of them leaves behind must not be taken for that of another.
* **Accounting over steps and ranks.** Increments on each rank, integrals on rank 0, outputs at
  some of the steps.

There are no threads: within a process the program is sequential, and the processes of an MPI run
execute the same control. The concurrency that matters is the interleaving of the equations by
the coupling, the exchange of messages and the distribution of values over ranks. Nothing is persisted, so there is no
recovery.

## 2. Modules

| Module | Models | Lines of code it stands for |
|---|---|---|
| `TimeGovernorOps` | methods of `TimeGovernor` as operators on a record | `time_governor.cc` 211-722 |
| `TimeInput` | the time record of the input and the governor made from it | `time_governor.cc` 281-296, `time_governor.hh` 113-228, 632-735 |
| `TimeGovernor` | one governor and the equation that drives it, on `TimeInput` | |
| `TimeAxis` | abstract specification: what an equation relies on | |
| `GovernorArithmetic` | rounded quotients of times: the numbers of steps in an interval | |
| `GovernorLemmas` | what each method of a governor keeps and guarantees; cited by the proofs about all users of a governor | |
| `TimeGovernorProofs`, `CouplingProofs`, `TransportSplittingProofs`, `FlowProofs`, `EquationProofs`, `PlatformProofs` | inductive invariants and theorems, section 5 | |
| `TimeMarksOps`, `TimeMarks` | the list of marks; equations that add to it | `time_marks.cc` |
| `OutputTimes` | output times of fields, on `TimeMarksOps` | `output_time_set.cc`, `equation_output.cc` |
| `SequentialCoupling` | the coupling loop, on `TimeGovernorOps` | `hc_explicit_sequential.cc` |
| `TransportSplitting` | nested governors and assembled terms, on `TimeInput` | `transport.cc`, `transport_operator_splitting.cc` |
| `BalanceOps`, `Balance` | the balance; an equation that uses it, on `TimeMarksOps` | `balance.cc`, `transport_dg.cc` 652-668 |
| `FieldHistory` | `Field::set_time` on shared histories | `field.impl.hh` 189-562 |
| `DarcyFlow` | the time loop of the flow, on `BalanceOps` | `darcy_flow_lmh.cc` 325-665 |
| `NonlinearFlow` | nonlinear loop, stagnation test, seepage switches | `darcy_flow_lmh.cc` 553-628, 997-1056, `assembly_lmh.hh` 107-337 |
| `FlowMH` | reuse of matrix and time term in the older flow solver | `darcy_flow_mh.cc` 476-712, 1063-1115, 1441-1505 |
| `SchurSystem` | chain of up to two complements | `schur.cc` 166-439, `linsys_PETSC.cc` 331-415 |
| `TransportDG` | flags of all fields, what is assembled from what, carried mass | `transport_dg.cc` 107-729, `assembly_dg.hh`, `concentration_model.cc`, `heat_model.cc` |
| `DgAssembly` | terms added by each rank, cache of points | `assembly_dg.hh` 101-391, 615-966, `field_value_cache.cc` |
| `HMIterative` | the iteration of flow and mechanics | `hm_iterative.cc`, `elasticity.cc` 156-228, 466-1133 |
| `ReactionTerms` | sorption, dual porosity, first order reactions over steps | `sorption_base.cc`, `isotherm.cc`, `dual_porosity.cc`, `linear_ode_solver.cc` |
| `DofExchange` | numbering of dofs by ranks and messages | `dofhandler.cc` 75-880, `distribution.cc` |
| `MeshTopology` | sides, edges, neighbours, boundaries, duplicated nodes | `mesh.cc` 323-384, 433-703, `duplicate_nodes.cc` |
| `RegionDB` | regions, sets, input records, elements | `region.cc`, `region_set.cc`, `mesh.cc` 296-320, 1004-1091 |
| `Profiler` | tree of timers, memory counters | `sys_profiler.cc` 107-488 |
| `OutputStream` | one stream of two equations: data caches, output mesh, frames, observe points | `output_time.cc` 198-307, `output_mesh.cc` 151-341, 605-618, `observe.cc` 339-494, `element_data_cache.cc` 304-429, `equation_output.cc` 187-263 |
| `FieldFiles` | fields that read data files through one reader | `reader_cache.cc`, `msh_basereader.cc` 80-149, `msh_gmshreader.cc` 253-360, `field_elementwise.cc` 128-176 |
| `InputReader` | an input read into storages by its type: references, included files, tables, conversions | `reader_internal*.cc`, `path_json.cc`, `path_yaml.cc`, `reader_to_storage.cc` 51-142 |
| `MCClocks`, `MCEquations`, `MCPlatform` | the parts that are checked in one run, one at a time | |

Every other `MC*` module gives the constants of one of them. `MCClocks`, `MCEquations` and `MCPlatform` put
independent parts side by side: the variable `part` is chosen at the start, the part it names makes
all the steps and the others stay in their initial state. A property of one part is checked over all
behaviours of that part and holds trivially in the others. `PROJECT.json` maps each definition to its
lines. Definitions whose comment begins with "Mutant:" are not part of the models; they are the
wrong versions of a definition that show that each property can fail.

### How the state corresponds to the code

**TimeGovernor.** `tg` is a record with the members of the class, names without the trailing
underscore. Times are whole ticks, `Inf` is `inf_time`. Arithmetic on doubles is
represented by guards (`whole_ticks`): a step is taken only when the division is exact, and a run whose ticks
were too coarse would get stuck and be reported, by deadlock or by `GovernorEnds`. `marks` is the set of
times of the fixed marks of the equation. `chosen` is a history variable: the constraints a step
was chosen under. Actions are the calls an equation makes between two steps.

**TimeMarks.** Times are counted in units in which both tolerances are visible: `Prec` for merging
(`time_step_precision`), `Tol` for `TimeStep::safe_compare`. A type is the set of its bits.

**OutputTimes.** `times` is `field_output_times_`. A step ends at the next fixed mark or before it
(that is `MarksAreMet`, proved), up to a rounding error of the end.

**SequentialCoupling.** `cfg_of` is the time record of an equation and its governor `gov` is made from it. `pc` walks through the body of the loop: plan, water, each process. An
equation is its governor, plus the time of the flow solution it works with. Velocity times
are doubled so that `theta = 0.5` stays whole. An absent process (`TransportNothing`) is left out
of the sequence: its governor is at its end from the start, so every branch for it returns at once.

**TransportSplitting.** A field value is a version (the number of its input records up to the time);
a term records the versions it was assembled from and the step length it is scaled by. The numbers
themselves play no part in the properties. The limit that an assembly gives is arbitrary.

**Balance.** One quantity, sources per rank, one flux. The equation conserves mass exactly, so a
reported error is an error of the accounting. `SplittingStep` is a step of operator splitting with
reactions, `DGStep` one of the implicit transport with sorption. A report has the error of csv and yaml and that of the legacy table,
which subtracts the fluxes. History variables tell the mass at the initial time (`bal_began`), what was booked too
much for sorption (`bal_excess`) and whether all steps had the length 1 (`bal_unit`).

**FieldHistory.** A field instance is the index of its input record, 0 the default. `copy` holds what each
copy has for itself; `list_idx` and `region_history` are shared. An exception sets `failed`, and the
program does nothing more.

**NonlinearFlow.** Residuals are any of `NlResiduals`; what is kept is their order, the counter, the
local systems saved for reconstruction, and whose flux a seepage side is tested with.

**FlowMH.** The time term is a fraction `num/den` of the storativity version it was computed from, so
that rescaling by the ratio of two steps is exact. `mh_used` is what the last solve was made with.

**SchurSystem.** A vector or block is the set of versions of matrix and right-hand side it contains.
`sc_n` complements are chained as `DarcyMH::create_linear_system` does.

**TransportDG.** A field is its name; an operator per assembly class gives the set of fields that the
lines of that class read, through the coefficients of the model (solute or heat). `stale[k]` are the
fields that changed since term `k` was assembled; `flux_late` remembers that the newest flow solution was one of a later time than
the end of the step that took it over.

**DgAssembly.** A term is [kind, sides, row]; a rank takes its cells in either order, and the bag
`da_matrix` collects the terms of all ranks. The cache is a table from points to places.

**HMIterative.** Pressure, displacement and divergence are the step and iteration in which they
were computed. Convergence is any Boolean.

**ReactionTerms.** Concentrations are levels, data of a region are names, equilibria are inputs; a
table is the data and the limit it was made for. `RcSecond` is the length of the artificial step that precedes the first one (1.0 in the
code), which the first step is compared with; `rc_unset` remembers that no step had another length.

**DofExchange.** Ranks number their dofs, ask their neighbours, answer and take; sends are either
buffered or wait for their receive (`df_eager`). Numbering of all ranks is one step, as the code
exchanges nothing in it.

**MeshTopology.** An element is the sequence of its nodes, a side is all of them but one. Reading a
list of a node index that no longer exists ends the program or matches nothing.

**RegionDB.** The table and the sets are functions; a step is a record of the input, a physical name
or an element of the mesh file. A mesh without names of regions starts with the records of the input, or with the elements if there are none.

**Profiler.** Time is a clock that ticks, the hash of a tag a constant, counters of memory wrap at `PrWord`. The output adds the counters of
children to those of their parents in place, also that of the memory allocated at the time (PETSc memory is monitored by default). Blocks are
numbered as they are allocated; the number stands for the address, which `malloc_map` is keyed by.

**OutputStream.** A value is the tuple of field, time and place it was computed for, so a misplaced or old value shows up
as itself. Caches and gathered arrays are functions of the indices used in the code, from 0. A mean is what was
added and how often. The stream is that of operator splitting: transport, then reactions (twice in the initial time).

**FieldFiles.** A file is its sections in order. Vectors are numbered and referred to by number from the cache and from the
fields, so that a change in place is seen by everyone who holds the vector. Fields make their time steps independently.

**InputReader.** Nodes of the input, types and storages are trees of records. One operator per `make_sub_storage`; the three readers
differ by `r.mode`. Exceptions are the result `Error`, which no caller catches. `InputAsWritten` compares the readers with a
definition by rewriting: `resolved` puts in references and included files, `items` writes out lists, lines of tables and transposed
copies, `meaning` is the storage of an input without any of these. `tables_in_full` leaves out the formats of tables that
need an automatic conversion, as the manual does (deviation 30). An input is read in one step, so every case is one state.

**DarcyFlow.** A solution is [when, how, boundary flux]. Storativity (`zero`) and data are step functions of
time chosen at the start. The nonlinear solver is one step with any flux as its result.

## 3. Runs

| Run | Properties | Shows |
|---|---|---|
| `clocks` | governor: `TypeOK`, `ChangedFlagExact`, `NoFixedMarkSkipped`, `StepObeysConstraints`, `ImplementsAxis`, `GovernorEnds` | steps meet every mark and the constraints they were chosen under, the changed flag is exact, the end is reached |
| | coupling: `NewestVelocityUsed`, `VelocityLagBounded`, `CouplingEnds` | the loop terminates at the right moment and passes on velocities |
| `transport` | `TermsOfTheStep`, `StepObeysCfl`, `TargetMet` | each explicit step uses current terms, scaled once |
| `equations` | flow: `StartsFromSolutionInForce`, `OutputComplete`, `SolveLeftInTime`, `SeepageTestsOwnFlux`, `TakenOverFromLastStep`, `PresentSystemUsed` | switching between steady and unsteady flow; the nonlinear loop; whatever is reused belongs to the present system |
| | transport: `SystemFromCurrentData`, `MassCarriedOver`, `TermsAddedOnce` | assembly after changes of data, assembly over ranks |
| | mechanics: `StepCoupled`, `StepsEnd` | flow and mechanics of a step belong together; every step ends |
| | reactions: `ReactionsOfTheStep`, `TableCoversLastStep` | tables and exponentials that are kept fit their step |
| | balance: `FlowsAccounted` | nothing that flows is lost or counted twice, and the error in csv and yaml is explained |
| `platform` | marks: `MergedWithoutLoss`, `NextAndLastSplitMarks` | merging loses nothing, the searches split the marks |
| | fields: `CopySeesRecordInForce`, `FailsOnlyBehindRecord` | copies see the data in force |
| | dofs: `NumbersAgree` | ranks agree on numbers and never block each other |
| | mesh: `SidesJoinedAndClosed`, `DuplicatedAtFractures`, `RegionsAsDeclared` | topology and regions do not depend on the order of reading |
| | data files: `DataOfReadTime` | fields get the data of their own time |
| | input: `InputAsWritten` | the readers give what the input means when all short forms are written out, or refuse it |
| | timers: `TimersExact` | timers nest, are found again and count all memory |
| | retry: `RetryReducedUnlessFixed` | a rejected step is repeated without passing a mark, reduced except in a fixed interval |
| | output: `WrittenWhenAsked`, `StreamComplete` | each field is written exactly when asked; frames and observe tables hold what was asked for, in the numbering of the mesh |
| `coupling_velocity` | `VelocityKnown` (violated) | two processes: one runs ahead of the flow |
| `transport_boundary` | `BoundaryUsesNewFlux` (violated) | the boundary term keeps the old velocity |
| `field_override` | `CopySeesRecordInForce` (violated) | an overridden record shows up from the left |
| `flow_mh_time_term` | `TimeTermOfStep` (violated) | a time term just computed is rescaled |
| `dofs_sub_ghosts` | `SubGhostsReplaced` (violated) | a ghost dof keeps the number of another handler |
| `mesh_unused_nodes` | `NodesAsRead` (violated) | boundary elements keep numbers of removed nodes |
| `equations_legacy` | `LegacyTableBalances` (violated) | the legacy table of the balance has an error where csv has none |
| `equations_decay` | `DecayEveryStep` (violated) | first steps of the length 1.0 are made without first order reactions |

Several properties are conjunctions of named parts that say one thing together, e.g.
`NumbersAgree == NobodyStuck /\ NumberingAgrees /\ SubNumberingAgrees /\ SequentialAgrees`.

### Bounds, and why they suffice

* governor (`clocks`): interval 0..24 with a mark in 12, two rows of limits, targets 6 and 18, upper
  constraints 3 and 6, a lower one of 8 that conflicts with them. The buffer of three
  steps wraps around, fixed intervals are entered, left and cut by a target, and limits
  change at a row. The row times are fixed marks (see deviation 2 for what happens otherwise). The
  theorems of section 5 lift all of this but `GovernorEnds` to all values.
* retry (`platform`): the same interval, steps reduced to 1, 2, 3 and 6, in fixed intervals and outside, and below a lower constraint.
* marks (`platform`): one list, times 499, 500, 503, 504 with `Prec` 2 and `Tol` 3: equal, merged, not merged
  but reached together, and distinct; `TmMaxMarks` 5. Steps are long compared with `Tol`; for steps shorter than
  100 `Tol` the search of `last` would start too early. 
* output times (`platform`): grids that are regular, empty, descending, starting before the initial time, and longer than
  `MaxSteps` (the 10^6 of the code); steps cut short at 450; ends of steps rounded by one unit.
* coupling (`clocks`): both processes or one of them; water ends before the solute and after the heat. A unit is 9979200 ticks,
  which makes every quotient that occurs exact. Steps of water are kept, shortened, lengthened or not adapted.
* `transport`: two outer steps or more, CFL limits below `min_dt`, between the limits and above all; three velocities (`MaxVelocity`).
* balance (`equations`): two ranks, end time 4, marks in the initial time or not and all placements of the others, with and without a
  cumulative balance, steps of 1 and 2, an initial mass. `equations_legacy`: only inputs whose csv error is zero.
* fields (`platform`): two regions, at most three records at three times, two copies; a record that varies in time; of lists that differ by the names of regions one. No two records of a region at one time (deviation of `field_override`).
* `DarcyFlow` (`equations`): all schedules of storativity over five intervals, with steps of 1, 2 and 3.
* `NonlinearFlow`: two solves, two elements with up to two seepage sides; minima over maxima, up to five iterations (the
  stagnation test looks five back), residuals below, just at and above the tolerance.
* `FlowMH`: four steps of lengths 1, 2 and 3, data that change or not, zero storativity or not.
* `SchurSystem`: no, one or two complements, five assemblies, modifications and residuals in any order.
* `TransportDG`: three steps, any single field or none changes before each, both models; the flow is solved for the end of the step or beyond it.
* `DgAssembly`: six elements of two dimensions, an edge of three lines, two neighbours, three regions; partitions over two and
  three ranks in which the three lines are on three ranks or on two.
* `HMIterative`: three steps; limits that are ordinary, zero, contradictory and without minimum.
* `ReactionTerms`: two elements, two steps of lengths 1 and 2, of which 1 is that of the artificial step, with and without solubility, given and automatic table limits, dual porosity.
* `DofExchange`: three ranks, all partitions of four elements over them, buffered and unbuffered sends.
* `MeshTopology`: meshes of two or three triangles and lines in every order, boundary elements that match, repeat, are lonely or lie on a
  fracture, and unused nodes.
* `RegionDB`: meshes with up to two names or none, two records in every combination, names of bulk and boundary, two ids. `Profiler`: three tags of which two
  share a place in a table of two, three starts, one allocation.

* `OutputStream`: two ranks, three elements of different dimension in three partitions; observe points of both ranks, of one, and none; a
  table of two times over four steps, so that it is flushed full, flushed by a frame and left half full; averages in nodes,
  corners and elements; serial and parallel streams.
* `FieldFiles`: sections of two names out of order, with missing rows and rows of other elements; two fields of one name of which one
  reads ahead, one on the boundary without a default, one of another file; up to six vectors.
* `InputReader`: a list of records with an integer, a default, an abstract field, an array and a tuple, every key missing, null, short, out of
  bounds, transposed to two or three items or empty (3584 records); JSON roots with references up, down, relative and cyclic; YAML roots with
  included files and tables with and without headers and with short lines. Several hundred of them are accepted. A table whose format is short
  in one place is among the cases and shows that the exemption of `InputAsWritten` (deviation 30) is needed. Ragged nested arrays in place
  of scalars, and unchecked parts of tables, are left out (deviation 29, 30).

## 4. Fairness

`GovernorEnds` assumes weak fairness of `NextTime` only: the loop over the time steps of an equation calls
`next_time()` as long as `is_end()` is false; constraints and targets may come in between
forever often, but need not. `CouplingEnds` assumes weak fairness of the whole next-state
relation: one thread executes the loop and no step of it waits for anything.
`StepsEnd` assumes weak fairness of the steps of the coupling
of flow and mechanics, for the same reason: `solve_step` is a loop in one thread, and the solvers it calls
return. In `MCClocks` each
fairness is that of the part that runs. No other property needs fairness.

## 5. Proofs

What TLC checks on one instance is proved here for all of them. Every theorem below is `Spec => ...` of the very
specification that the runs check, with the property of the run; TLC checked the inductive invariants, or the
properties they imply, before they were proved.

| Module | Theorem | Property | For all |
|---|---|---|---|
| `TimeGovernorProofs` | `TypeCorrect`, `MarksAreMet`, `FlagIsExact`, `ConstraintsObeyed` | `TypeOK`, `NoFixedMarkSkipped`, `ChangedFlagExact`, `StepObeysConstraints` | time records, marks, targets, constraints |
| | `RetriesAreReduced` | `RetryReducedUnlessFixed` (`platform` checks that of an instance) | the same, and reductions in any order |
| | `AxisImplemented` | `ImplementsAxis`, the refinement of `TimeAxis` | |
| `CouplingProofs` | `NewestVelocity`, `LoopLeftAtEnds` | `NewestVelocityUsed`, (the loop ends when all equations have) | processes, time records, marks, steps |
| `TransportSplittingProofs` | `ConvectionMeetsTarget`, `CflObeyed`, `TermsBelongToStep` | `TargetMet`, `StepObeysCfl`, `TermsOfTheStep` | time records, times of inputs and outputs, steps of the flow, CFL limits |
| `FlowProofs` (FlowMH) | `TermAndSolutionTakenOver` | `TakenOverFromLastStep` | step lengths, changes of data, any number of steps |
| `FlowProofs` (NonlinearFlow) | `SolvesLeftInTime`, `OwnFluxTested` | `SolveLeftInTime`, `SeepageTestsOwnFlux` | elements, seepage sides, limits, residuals |
| `FlowProofs` (DarcyFlow) | `StartsInForce`, `OutputIsComplete` | `StartsFromSolutionInForce`, `OutputComplete` | schedules of storativity and data, steps, fluxes |
| `FlowProofs` (SchurSystem) | `OnlyPresentBlocks` | `PresentSystemUsed` | orders and numbers of assemblies, chains up to two |
| `EquationProofs` (TransportDG) | `AssembledFromCurrentData`, `MassOfLastStep` | `SystemFromCurrentData`, `MassCarriedOver` | changes of data, times of flow solutions, any number of steps |
| `EquationProofs` (ReactionTerms) | `ReactionsOwnStep`, `TableCovers` | `ReactionsOfTheStep`, `TableCoversLastStep` | elements, data, concentrations, inputs, step lengths |
| `EquationProofs` (HMIterative) | `CoupledInEveryStep` | `StepCoupled` | limits of iterations, any number of steps |
| `PlatformProofs` (TimeMarks) | `MarksMergedWithoutLoss`, `MarksSplit` | `MergedWithoutLoss`, `NextAndLastSplitMarks` | equations, times, grids, types, numbers of marks |
| `PlatformProofs` (FieldHistory) | `CopiesSeeRecordInForce`, `FieldFailsOnlyBehind` | `CopySeesRecordInForce`, `FailsOnlyBehindRecord` | regions, copies, lists of records, times |
| `PlatformProofs` (RegionDB) | `RegionsDeclared` | `RegionsAsDeclared` | meshes, names, ids, records in any number and order |
| `PlatformProofs` (Profiler) | `TimersAreExact` | `TimersExact` | tags, hashes, sizes of tables and blocks, any order of starts and ends |
| `PlatformProofs` (Balance) | `FlowsAreAccounted` | `FlowsAccounted` | ranks, sources, fluxes, marks, inputs, step lengths |

### Assumptions

They are named in the modules that declare the constants, and TLC evaluates them in the runs.

* `RecordAssumption`, `TableAssumption` (`TimeInput`): the end time is finite and after the start (deviation 23 is the
  other case); the limits table has at least two rows, as `set_dt_limits` appends the last, ascends, ends at the end time and has
  positive, finite upper limits, not below the lower ones, as `set_dt_limits` checks.
* `TimesAssumption`, `SplittingAssumption`: marks, targets and steps of the flow are finite, constraints positive. Marks may lie behind the end.
* `InputsAssumption` (`SequentialCoupling`): every process is there once, no equation starts behind its end.
* `ListsAssumption`, `CopiesAssumption` (`FieldHistory`): records ascend, as `set_input_list` demands.
* `ToleranceAssumption`, `RanksAssumption`, `BalanceInputsAssumption`: tolerances and the precision against the infinities, finitely many ranks and times in an input,
  positive steps.
* `RegionInputsAssumption` (`RegionDB`): types; elements have a dimension from 0 to 3, and a mesh has elements.
* `ProfilerInputsAssumption` (`Profiler`): a hash is a place of the table, blocks have a size, and no timer but the root has the tag of the root.
* `NlAssumption`, `RcAssumption`, `MhDtsAssumption`, `SchurCountsAssumption`, `HmLimitsAssumption`, `LmhAssumption`: types; step
  lengths are positive; concentrations and the solubility are not negative; storativity changes at its records only.

Some theorems have a hypothesis on the constants besides, which the runs satisfy. The first two leave out the inputs of a deviation (section 6) or of a
run that shows a violation, and TLC finds the property violated without them:

* `OneRecordPerTime` (`CopiesSeeRecordInForce`, `FieldFailsOnlyBehind`; run `field_override`): no two records of one region at one time;
* `NamesApart` (`RegionsDeclared`, deviation 19): no name of the mesh file or of the input is that of a standard set or of the implicit boundary,
  and no name of the input is one that the database makes of an id;
* `FlowStartsFirst` (`NewestVelocity`): the flow starts no later than the processes and before its own end. The code does not compare the initial
  times, and a process that starts earlier steps without a velocity;
* `BalanceTimesExact` (`FlowsAreAccounted`): the times of the balance are finite and compared exactly (`Tol` 0): an increment of a step
  is accounted at the mark that the step meets;
* `MarksFinite`, `StepsLong` (`MarksSplit`): times lie between the stoppers of the list; a hundredth of a step, from where `last` starts to search, is
  not lost in the tolerance.

Where the code does not do what one would expect of it, the property says what it does instead, and the theorem covers it:
`TimeTermReused` names the doubly rescaled term (shown by `flow_mh_time_term`), `DivergesAboveTolerance` five or more least iterations
(deviation 15), `StartsFromSolutionInForce` the steady start of a single step (8), `OutputTimesWritten` the ends that are not written (9),
`SystemFromCurrentData` the undeclared dependences (10) and the flow solved beyond the step (11), `DecayOverTheStep` the start with steps of the
artificial length (`equations_decay`), `ReportsAtMarks` and `SorptionBooked` the late first report and the sorption booked wrongly (4 to 6),
`RetryReducedUnlessFixed` the fixed interval (1). As in the model, a step is made only where the ticks divide
exactly (`whole_ticks`), so rounding of times is outside the theorems.

### Inductive invariants

No property above is inductive by itself, except where it is a conjunct of an invariant named below.

**Governor.** `GovernorLemmas` states the invariant of any governor `g` with fixed marks `F`, so that the governor alone and the two
governors of the transport use the same lemmas:
`TimeOK` (the end is a mark and is not passed), `ConstraintOK` (before the end the constraints are positive and a row of limits is left: the length
of a step is a quotient by a number of steps that comes from them), `FixedOK` (a fixed interval ends at or before the next mark,
also a mark added later, and its step fits into the rest), `LengthOK` (a whole number of fixed steps is left and all but the first of the
interval have one length), `FlagOK`. `FlagOK` is why `LengthOK` is needed: inside a fixed interval the flag is not computed from the steps but
lowered after the first, which is right only because no step of the interval is cut. The lemmas go from arithmetic (`CeilDivBounds`, `RoundDivBounds`, `DividedLength`:
a rest divided by the least number of steps gives steps not longer than the estimate, and more than half of it) over one pair of lemmas per method (what it returns, what it keeps) to
one case per action in `NextInv`. `GovernorInv` adds that the recorded constraints are those of the step that a fixed interval repeats.

**Retry.** `RetryInv` adds to these, for a governor whose step may be rejected, that the governor before the step (`revert_step`) was in order,
had whole steps left and would choose the same length again (`Rejectable`): a length that is not greater comes from at least as many steps for the
same rest (`StepsWithinLimit`: it is within the reduction or the lower constraint), a fixed interval repeats its step, and in an interval with a whole number of steps left `reduce_timestep` compares like with like. `FlagOK` is not part of it: a step repeated
after the first one of a fixed interval has lost the flag of a changed length.

**Coupling.** `CplInv`: every governor keeps the types of its own record, and `is_end_all_`, which three functions compute piecewise, says in each place of
the loop which equations may still run. `CplVelocityInv` adds `FirstPass` (until the first flow solution nobody is stepped: the times planned for
the processes lie before the velocity) and `VelocityTold` (who has not been told of a newer velocity has the newest).

**Marks.** `MarkList`: strictly ascending by at least `Prec`, between the two stoppers, each mark with a type. `add` is shown to keep it, to extend the types of
what was there (`Extends`) and to keep the time asked for within `Prec` (`Kept`); `add_time_marks` and `add_to_type_all` follow. `NextIs` and `LastIs`
say what the searches find in any such list. The balance uses the same lemmas.

**Fields.** `FdInv`: the newest two entries of a history are the last two records in force (`HistoryOK`; the third may be lost), every record that was read starts no later than some copy's
time (`ReadBySomeone`, with which "back in history" blames another copy), and a copy for which no jump is noted has no record at its
time (`JumpNoticed`, from which it may keep its instances when only its side changes).

**Regions.** `RgInv`: `TableOK` (indices of a kind are less than twice the number of its regions, so the next one is free), `NamesOK` (each region has a
set of its name with itself alone, and is in `ALL`), `SetsOK` (any other set has a standard name or one of the input, so a new name of a region is
free when no region has it), `PlacesOK` (elements are in used regions of their dimension and of the id they have so far, `id_so_far`). Operations on
elements keep the dimension and mark of a region that has a dimension (`KeepsRegions`); a renaming forgets the mark, but comes before the elements.

**Profiler.** `PrInv`: `TreeOK` (parents come before their children), `TablesOK` (a table holds children of its timer, each where `find_child` looks for
its tag, behind other tags only), `RunsOK` (the running timers are the path of the actual one, and each was started by a frame above all
frames of its parent, so the frame that ends belongs to the actual timer or to a stopped one), `TimesOK` (of the children of a timer at
most one runs, and then the timer does), `StartsOK` (a full table has a timer for each place). The memory is compared with the blocks up to a multiple of the word
(`Multiple`), which is what remains true of wrapped counters: all counters together while the program runs, the one of the root after the output, where each
timer has those of its whole subtree. The lemmas of paths (`PathStep`, `PathAbove`, `ChildOnPath`, `OneChildOnPath`) come from the path being the
least set closed under parents; those of tables from `ProbedIs`: the places looked at are all different.

**Balance.** `BalInv`: before the first step nothing has flowed (`AtStart`), the mass changed by what flowed since the initial time
(`MassConserved`), the sorbed mass of the last step is remembered (`SorbedBooked`), and `FlowsAccounted` itself. Sums over ranks are folds; `SumIs`, `SumOfCombination` and `SumAtOnePlace` are
proved by taking a least set for which they fail.

**Transport.** `TsInv`: `InnerFollowsOuter` (the convection is not ahead of the outer step; while it is behind, no fixed mark lies between
them and its step is fixed up to the time of the outer one), `FixedUnderCfl` (the fixed step was chosen under the newest limit, though constraints are
relaxed after every step), `ScaledByLastStep` (a scaled term has the length of the last step, which may be the
artificial zero step), `AssembledOrFlagged` (fields are set to the time of the convection, and what was not assembled from them is
flagged until the next evaluation). `TargetMet` follows from the first, `TermsScaledByStep` needs the third together with `FlagOK`, as
terms are rescaled by the flag.

**Flow.** `MhInv`: a term that may be reused is in the matrix, of the present data and of the last length; it holds only in unsteady intervals without
changed data, which is when the code reuses it. `NlInv`: the residuals looked at by the stagnation test belong to the running solve,
and an element whose only seepage side is Dirichlet has its local system of the last assembly. `LmhInv`: the accepted solution is that of the
present time or a steady one that still holds, and the vector that was never set in and after a steady start of a single step (`AcceptedInForce`); `LmhOutputInv`: what the balance has integrated and what
it holds as increments is together what flowed in (`FluxCollected`).

**Schur complements.** `ScInv`: in each system of the chain, blocks and the complement are those of the present matrix and right-hand side unless a
flag of this system says otherwise. The proof takes the operations of a system one by one and then the chain from the inside.

**Implicit transport.** `DgInv`: what an assembled term lacks is an undeclared dependence or a velocity still flagged,
or one of a later time (`lagging_flux`). The lemmas `SoluteFlags`
and `HeatFlags` compare, field by field, the declared flags with what the assembly reads.

**Reactions.** `RcInv`: on a region of constant data the isotherm has that data, and a table is of the isotherm; the
highest concentration is that of the last step; the solver has its length, or none while no
change of the artificial one was reported (`OdeInStep`). `HighestIsNumber` shows that the maximum over the elements exists.

**Flow and mechanics.** `HmInv`: which copy equals which quantity of the equations in each phase of an iteration, what may be stale until the
first iteration, and that every coupling but one with both limits zero iterates at least once.

### Only model-checked

* Liveness (`GovernorEnds`, `CouplingEnds`, `StepsEnd`): fairness and ENABLED are out of the prover's reach.
* `VelocityLagBounded`: it compares the lag of the flow with the last step of the process, so it is no theorem: time records whose steps shrink within the lag do not satisfy it.
* What is defined by recursion over trees (`InputAsWritten`), or compares whole meshes, numberings, streams or files with a definition of their own: `WrittenWhenAsked`,
  `StreamComplete`, `DataOfReadTime`, `SidesJoinedAndClosed`, `DuplicatedAtFractures`, `NumbersAgree`, `TermsAddedOnce`.
* The violated properties of the other runs.

## 6. Deviations

Eight are shown by runs: `coupling_velocity` (the guard of an advection step compares the process
with itself), `transport_boundary` (a change flag asked for after it was cleared) and `field_override`
(an overriding record is compared with the oldest entry), `flow_mh_time_term` (`modify_system` rescales what
`setup_time_term` has just computed), `dofs_sub_ghosts` (numbers of a sub-handler are asked from neighbours only),
`mesh_unused_nodes` (nodes of boundary elements are not renumbered), `equations_legacy` (the legacy table of the balance subtracts fluxes whose sign was
changed at `balance.cc:600`, against its own heading at `:962` and `balance.hh:116`; csv and yaml add them) and `equations_decay` (a first step of 1.0
has the length of the artificial zero step, so no change is reported and the solver of first order reactions keeps the step 0). The following were met while modelling. Where one of them
would break a property, the property says what the code does in that case or leaves it out by a stated condition, or the passing run keeps away from it
by the bounds named in section 3, and TLC finds it when the condition or the bound is lifted; the others have no property here.

1. `reduce_timestep` in a fixed interval repeats the step with its old length and may throw the internal error "should
   not happen" (`time_governor.cc:701`, `:715`), though `time_governor.hh:432` promises an
   "immediate end of the fixed timestep interval". Only a unit test calls it. `RetryReducedUnlessFixed` states both cases: the same length in a
   fixed interval, a reduced one elsewhere.
2. One step over two rows of `dt_limits` enters only the first (`time_governor.cc:687` is an `if`,
   `:501` a `while`); the limits in force are then those of an older row.
3. Two output times farther apart than `time_step_precision` and nearer than the tolerance of `safe_compare` are reached by
   one step, of which `EquationOutput::is_field_output_time` sees one mark (`equation_output.cc:181`); fields asked at
   500 and at 503 in the units of `MCOutputTimes` make `WrittenWhenAsked` fail.
4. (`ReportsAtMarks`) The initial mass of the balance is that of the first balance output (`balance.cc:804`), also when the initial time is no balance
   mark. The test for "no balance marks" (`balance.cc:210`) compares two stoppers and never holds.
5. `transport_dg.cc:664` passes a rate to `add_cumulative_source`, which adds amounts; in steps longer or shorter than 1 the error is not that of deviation 6 alone
   (`SorptionBooked` states units only).
6. `transport_dg.cc:418` starts the sorbed mass at zero, also with an initial concentration: what was sorbed at the start is booked as a source (`SorptionBooked`).
7. A copy of a field behind a record that another copy has read aborts the program (`field.impl.hh:313`), against
   `field_common.hh:499`; `FailsOnlyBehindRecord` says exactly when.
8. A steady initial solution is not accepted (`darcy_flow_lmh.cc:451`): if the flow is unsteady after the first
   step, it starts from a vector that was never set (`StartsFromSolutionInForce` says when).
9. The last step in steady flow, or onto a storativity record, writes nothing (`darcy_flow_lmh.cc:520`; `OutputTimesWritten` says exactly which ends); in steady flow the
   cumulative flux counts a step with the solution right of its end (`:662`).

10. `transport_dg.cc`: terms read fields whose flags do not name the term. Solute: porosity in the mass matrix (through the
    retardation). Heat: solid density and capacity and both exchange rates in the stiffness matrix; porosity, cross section,
    densities, capacities, conductivities and dispersivities in the right-hand side. When only such a field changes, the term
    stays as it was; `undeclared` in `TransportDG` lists them and `SystemFromCurrentData` leaves them out.
11. `transport_dg.cc:508`: when the flow was solved beyond the end of the step, `set_time` clears the change flag of the velocity
    before it is asked for, and the stiffness matrix keeps the older velocity (`flux_late` in `SystemFromCurrentData`).
12. `for (auto f : bc_flux) f = -f;` changes copies (`concentration_model.cc:332`, `heat_model.cc:370`).
13. Coupling integrals of a cell are kept in an array of six (`assembly_dg.hh:331`), which a line between more than six
    surfaces exceeds; the debug assertion of `CouplingIntegral` (`eval_subset.cc`) compares dimensions that differ by one.
14. `hm_iterative.cc:177`: `zero_time_step` does not set the old divergence, so the first step starts from zero whatever the initial
    displacement is. Reaching `max_it` is accepted silently, and `max_it = 0` accepts a step without a solve.
15. `darcy_flow_lmh.cc:584`: with `min_it >= 5` the stagnation test fails a solve that has converged. The first assembly of a solve
    gets the iteration count of the solve before (`:556`, `:558`, `:686`), against `darcy_flow_lmh.hh:299`.
16. `assembly_lmh.hh:326`: of two seepage sides of an element the last decides whether its local system is saved; the first
    assembly tests a flux of whichever element was reconstructed last (`:153-171`).
17. Reactions: `sorption.cc:167` scales the immobile sorption by the mobile porosity; entries of the reaction matrix are assigned, so a
    second reaction of the same pair replaces the first (`first_order_reaction.cc:101`); the output of time zero is made
    twice (`transport_operator_splitting.cc:271`).
18. `schur.cc:60-112` ignores the given index set; `form_rhs` uses the transposed block and is right for symmetric systems only
    (`:162`); `compute_residual` before a solve overwrites part of the solution.
19. Regions: `rename_region` compares an id with an index (`region.cc:116`); `From_Id` swallows the error about a used id
    (`region_set.cc:45`); `add_set` keeps an existing set, although `region.hh` says it is deleted; `modify_element_ids` uses one
    dimension for all `From_Elements` regions (`mesh.cc:296-320`); an id generated for one may be that of elements read
    later (`region_set.cc:179`, against `:220`). Names that the database uses itself (`BULK`, `.IMPLICIT_BOUNDARY`, `region_1`) are not refused as
    names of regions or sets (`region.cc:358-372`), and then stand for more than their region.
20. Profiler: `add_child` may read one place behind the table before it wraps; `END_TIMER("modiffy system")` in the flow never matches;
    memory freed in another timer than it was allocated in makes its unsigned counter and peak wrap (`sys_profiler.cc:487`); a
    second output doubles the totals. The output adds the memory allocated now to the parents in the timers themselves (`sys_profiler.cc:175`), so afterwards the
    counters of all timers together count it once per level; `MemoryCounted` then speaks of the root.
21. Mesh: `max_edge_sides_` is not updated by edges of boundary elements of the file (`mesh.cc:545-603` against `:629`); pointers to faces
    in `DuplicateNodes` dangle once their vector grows (`duplicate_nodes.cc:82`), but nobody reads them; every made boundary leaves
    one empty object in `boundary_` (`mesh.cc:644`).
22. `VectorMPI::swap` and `duplicate_from` lose the ghost values, as a FIXME there says.
23. A governor whose start is its end has a table of one row and reads the one behind it (`time_governor.cc:501`); a default
    value is stored with time zero and is newer than a negative time (`field.impl.hh:555`).
24. The output mesh of a stream is made for the interpolations of the equation that comes first (`equation_output.cc:220`, `:249`). If only a
    later one has corner data, elements share nodes and a VTK file gets more values than points. In a parallel
    stream with corner data, averages in nodes are stored by shared nodes into a mesh that shares none (`output_time.cc:304`, with
    `output_mesh.cc:723`); elsewhere they are means over the elements of the rank only. `StreamComplete` is checked for equations
    of which the first has the corner data, and its `misfit` leaves out the second case.
25. A stream starts with time and last written time -1 (`output_time.cc:73`): frames at earlier times are never written. GMSH files have
    times of elements and corners in seconds and those of nodes in the time unit (`output_msh.cc:147-213`).
26. The cache of a reader is keyed by field name and time (`msh_basereader.cc:101`): fields of one name that differ in unit, default or
    domain (bulk or boundary) get what the first of them read, checked and scaled. `DataOfReadTime` is checked for fields that agree.
27. The tolerance of `find_header` has the wrong sign for negative times (`msh_gmshreader.cc:344`, `msh_pvdreader.cc`): a section at exactly that
    time is passed over. `PvdMeshReader::find_header` steps before the list when the time is before the first file.
28. `Mesh::check_compatible_mesh` stores ids of the source mesh instead of the elements found for them in the target (`mesh.cc:957`, `:985`;
    `VtkMeshReader::check_compatible_mesh` stores the latter), so data of an equivalent mesh in another numbering are not permuted.
29. Transposition: only sizes met while the first item is made are compared (`reader_internal_transpose.cc:188`). An array whose elements are
    arrays of different sizes, in place of a scalar, lets `down` fail unnoticed (`:189`), and the same node is read again without end;
    in a square one the items are its diagonal. Included files inside are not transposed, and `FileName::match` is not asked.
30. Tables: the size of the resulting array is not compared with its bounds, nor are constants of the format (`reader_internal_csv.cc:301`, `:321`); a boolean
    constant becomes a `StorageInt` (`:281`), which `get_bool` refuses; a format without a column decrements `end` of an empty map (`:112`).
    The manual says that tables cannot be combined with automatic conversions (`JSON_input.tex:303`), but they are not refused: in the format `t: $0` the
    placeholder of a short tuple gets the path of the tuple (`:345`), and the cell replaces the whole tuple. `InputAsWritten` asks for formats in full.
31. References are remembered by their text (`path_json.cc:144`): one relative address used in two places of a chain is reported as a cycle.

## 7. Not modelled

* **Richards flow and soil models, mortar coupling, finite elements, quadrature, shape functions, intersections, BIH tree, METIS
  partitioning**: floating point numerics and geometry on real numbers. Their control is that of the modelled components.
* **Semchem, `quadrature/quad.c`, `system/fmt`, vendored code**: legacy or third-party.
* **Declaration of input types, parsing of JSON, YAML, meshes and files, output formats, units, field formulas**: sequential translation of data. They
  make up a large part of the repository's lines; what they compute is a function of recursive data or of file formats,
  with no state over calls beyond the caches modelled in `OutputStream` and `FieldFiles`.
* **Application frame, logging, Python test runner**: no state that interacts with a simulation.

Within modelled components: constructors of steady and fixed-step governors, unit conversion, `Field::set_field`, `MultiField`,
refined output meshes, native data, search for observe elements, VTK and PVD input, formats of the balance, MPI failures (the code aborts), BDDC, constraints of LinSys, river boundary
conditions (no state), reactions of the solid, preallocation, permutations of sides, reductions of the profiler over ranks.

## 8. Plan

Done: the core (governor, marks), what composes it (output times, coupling, transport), balance, fields, flow, the proofs about
the governor; nonlinear solve, older flow solver, Schur complements, implicit transport and its assembly over ranks,
flow with mechanics, reactions, degrees of freedom, mesh topology, regions, profiler, output streams, data files, input readers.

Left to model: the linking of input types (`input/type_*`); refined output meshes; data files in the PVD format.

Theorems, once TLC agrees on their inductive strengthenings: that each step of the transport implements `TimeAxis` for both of
its governors.
