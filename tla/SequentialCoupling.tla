------------------------- MODULE SequentialCoupling -------------------------
(***************************************************************************)
(* HC_ExplicitSequential::run_simulation(): the flow equation and up to    *)
(* two advection processes, each with a time governor of its own, stepped  *)
(* one after the other.  A process computes its step with the velocity of  *)
(* the last flow solution it was told about.                               *)
(*                                                                         *)
(* Velocity times are the centres of the planned steps (theta = 0.5); the  *)
(* model keeps their double, so that they are whole ticks.                 *)
(***************************************************************************)
EXTENDS TimeGovernorOps, SequencesExt, FiniteSetsExt

CONSTANTS Inputs,      \* input files: [processes, config]; the advection processes that are
                       \* present, in order, and for every equation [cfg, second, init_dt, marks]
          Adaptive     \* what Darcy multiplies a step by to bound the next: <<num, den>>

Water == "water"

\* Every process is there once, no equation starts behind its end, and times, lengths and marks
\* are whole ticks.
ASSUME InputsAssumption ==
  \A in \in Inputs :
    /\ in.processes \in Seq(STRING) /\ Len(in.processes) >= 1
    /\ \A i \in DOMAIN in.processes :
         /\ in.processes[i] \notin {Water, "plan"}
         /\ \A j \in DOMAIN in.processes : in.processes[i] = in.processes[j] => i = j
    /\ \A e \in {Water} \cup ToSet(in.processes) :
         /\ in.config[e].cfg.init_time \in Nat /\ in.config[e].cfg.end_time \in Nat
         /\ in.config[e].cfg.init_time <= in.config[e].cfg.end_time
         /\ in.config[e].cfg.dt_limits_table[1].min_dt \in Nat
         /\ in.config[e].cfg.dt_limits_table[1].max_dt \in Nat
         /\ in.config[e].init_dt \in Nat /\ in.config[e].marks \subseteq Nat

VARIABLES input,             \* the input file of the simulation
          pc,                \* "plan", "water" or the process to be stepped
          gov,               \* time governors of all equations
          is_end_all,        \* is_end_all_
          velocity_time,     \* velocity_time of a process, doubled
          velocity_changed,  \* velocity_changed of a process
          velocity           \* history: time of the flow solution a process works with

cpl_vars == <<input, pc, gov, is_end_all, velocity_time, velocity_changed, velocity>>

Processes == input.processes
Equations == {Water} \cup ToSet(Processes)

cfg_of(e) == input.config[e].cfg
Marks(e) == input.config[e].marks

ended(e) == is_end(cfg_of(e), gov[e])

\* EquationBase::planned_time, after the constraint of this iteration
planned_time(e, g) == Plus(t(g), estimate_dt(cfg_of(e), Marks(e), g))

\* The constructors: every governor made from its input record, no velocity yet.
CplInit ==
  /\ input \in Inputs
  /\ pc = "plan"
  /\ gov = [e \in Equations |-> input_governor(cfg_of(e), 1, input.config[e].init_dt, input.config[e].second)]
  /\ is_end_all = FALSE
  /\ velocity_time = [p \in ToSet(Processes) |-> 0]
  /\ velocity_changed = [p \in ToSet(Processes) |-> FALSE]
  /\ velocity = [p \in ToSet(Processes) |-> NegInf]

\* The length of the water step that the processes are told.  An ended governor would
\* estimate zero.
water_dt == IF ended(Water) THEN Inf ELSE estimate_dt(cfg_of(Water), Marks(Water), gov[Water])

\* The next step is a whole number of ticks; a run with too coarse ticks deadlocks.
whole_step(e) ==
  IF in_fixed_interval(gov[e])
  THEN (gov[e].end_of_fixed_dt_interval - t(gov[e])) % n_fixed(gov[e]) = 0
  ELSE full_step(Marks(e), gov[e]) % n_steps(Marks(e), gov[e]) = 0

\* Mutant: the step of the process is not bounded by the step of water.
unconstrained(p) == gov[p]

\* EquationBase::set_time_upper_constraint of a process that goes on
constrained(p) == IF ended(p) THEN gov[p] ELSE set_upper_constraint(water_dt, gov[p])

\* The head of the loop: constraints and velocity times of the processes that go on.
Plan ==
  /\ pc = "plan" /\ ~ is_end_all
  /\ \A e \in Equations : ~ ended(e) => whole_step(e)
  /\ gov' = [e \in Equations |-> IF e = Water THEN gov[e] ELSE constrained(e)]
  /\ velocity_time' = [p \in ToSet(Processes) |->
       IF ended(p) THEN velocity_time[p] ELSE Plus(planned_time(p, gov'[p]), t(gov[p]))]
  /\ is_end_all' = TRUE
  /\ pc' = "water"
  /\ UNCHANGED <<input, velocity_changed, velocity>>

running == {p \in ToSet(Processes) : ~ ended(p)}

\* Mutant: the velocity times of ended processes still count.
min_velocity_time_of_all == Min({velocity_time[p] : p \in ToSet(Processes)})

\* Doubled; Inf when all processes have ended, so that only water goes on.
min_velocity_time == Min({velocity_time[p] : p \in running} \cup {2 * Inf})

\* DarcyLMH::update_solution seen from its governor: the step, then the adaptation of
\* the next one by the number of nonlinear iterations; <<>> when the time term is zero and
\* nothing is adapted.
water_solved(g, mult) ==
  LET moved == next_time(cfg_of(Water), Marks(Water), g)
      upper == Larger(1, (dt(moved) * mult[1]) \div mult[2])
  IN  IF mult = <<>> THEN moved ELSE set_upper_constraint(upper, moved)

\* Mutant: only the first process learns about the new velocity.
tell_velocity_first == [velocity_changed EXCEPT ![Processes[1]] = TRUE]

tell_velocity == [p \in ToSet(Processes) |-> TRUE]

\* Water is solved over the nearest transport interval.
WaterStep(mult) ==
  /\ pc = "water" /\ ~ ended(Water) /\ 2 * t(gov[Water]) < min_velocity_time
  /\ \E solved \in {water_solved(gov[Water], mult)} :
       gov' = [gov EXCEPT ![Water] = fix_dt_until_mark(cfg_of(Water), Marks(Water), solved)]
  /\ velocity_changed' = tell_velocity
  /\ is_end_all' = FALSE
  /\ pc' = Processes[1]
  /\ UNCHANGED <<input, velocity_time, velocity>>

\* Water is ahead of all processes, or at its end.
WaterWaits ==
  /\ pc = "water" /\ (ended(Water) \/ 2 * t(gov[Water]) >= min_velocity_time)
  /\ is_end_all' = (is_end_all /\ ended(Water))
  /\ pc' = Processes[1]
  /\ UNCHANGED <<input, gov, velocity_time, velocity_changed, velocity>>

after(i) == IF i < Len(Processes) THEN Processes[i + 1] ELSE "plan"

\* advection_process_step: the velocity is taken over if it is new, and one step is made.
AdvectionStep(i) ==
  LET p == Processes[i]
  IN  /\ pc = Processes[i] /\ ~ ended(p)
      /\ is_end_all' = FALSE
      /\ pc' = after(i)
      /\ IF 2 * t(gov[p]) <= velocity_time[p]
         THEN /\ velocity' = [velocity EXCEPT ![p] =
                                IF velocity_changed[p] THEN t(gov[Water]) ELSE @]
              /\ velocity_changed' = [velocity_changed EXCEPT ![p] = FALSE]
              /\ gov' = [gov EXCEPT ![p] = next_time(cfg_of(p), Marks(p), @)]
         ELSE UNCHANGED <<velocity, velocity_changed, gov>>
      /\ UNCHANGED <<input, velocity_time>>

\* An ended process returns at once.
AdvectionEnded(i) ==
  /\ pc = Processes[i] /\ ended(Processes[i])
  /\ pc' = after(i)
  /\ UNCHANGED <<input, gov, is_end_all, velocity_time, velocity_changed, velocity>>

\* The loop is left and the simulation is over.
Done == pc = "plan" /\ is_end_all /\ UNCHANGED cpl_vars

CplNext == \/ Plan
           \/ \E mult \in Adaptive : WaterStep(mult)
           \/ WaterWaits
           \/ \E i \in DOMAIN Processes : AdvectionStep(i) \/ AdvectionEnded(i)
           \/ Done

CplSpec == CplInit /\ [][CplNext]_cpl_vars

\* One thread executes the loop.
CplFairSpec == CplSpec /\ WF_cpl_vars(CplNext)

---------------------------------------------------------------------------
(* Properties. *)

stepped(p) == tlevel(gov'[p]) > tlevel(gov[p])

\* A process computes every step with the newest flow solution, and never without one:
\* the flag that tells it is cleared by the process that has taken the velocity over.
NewestVelocityUsed ==
  [][\A p \in ToSet(Processes) : stepped(p) =>
       velocity'[p] = t(gov[Water]) /\ tlevel(gov[Water]) > 0]_cpl_vars

\* A step is made only "having information about velocity field": the flow is solved up to
\* the beginning of the step at least, the oldest of the three choices of the theta scheme.
VelocityKnown ==
  [][\A p \in ToSet(Processes) : stepped(p) => t(gov[Water]) >= t(gov[p]) \/ ended(Water)]_cpl_vars

\* With one process the flow never falls back by more than the last step of the process it
\* is solved for, though nothing but the constraint of the process keeps it from running away.
VelocityLagBounded ==
  [][Len(Processes) = 1 => \A p \in ToSet(Processes) : stepped(p) =>
       t(gov[Water]) >= t(gov[p]) - dt(gov[p]) \/ ended(Water)]_cpl_vars

\* The loop ends, and only when the flow and every process have reached their ends, though
\* is_end_all_ is computed piecewise by three functions.
SimulationEnds == <>(pc = "plan" /\ is_end_all /\ \A e \in Equations : ended(e))
=============================================================================
