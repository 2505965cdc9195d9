--------------------------- MODULE TimeGovernor ---------------------------
(***************************************************************************)
(* One TimeGovernor made from an input record, driven by the equation that *)
(* owns it: constraints are set, the step is fixed up to the next fixed    *)
(* mark, a target time is imposed, and the time moves on.                  *)
(***************************************************************************)
EXTENDS TimeInput

CONSTANTS Prescribed,    \* fixed marks of inputs and outputs, added before the first step
          Uppers,        \* arguments of set_upper_constraint
          Lowers,        \* arguments of set_lower_constraint
          Targets,       \* arguments of set_target_time
          Reductions     \* factor * dt() in reduce_timestep

ASSUME TimesAssumption ==
  /\ Prescribed \subseteq Nat /\ Targets \subseteq Nat
  /\ \A m \in Prescribed \cup Targets : m < Inf
  /\ Uppers \subseteq 1 .. (Inf - 1) /\ Lowers \subseteq 1 .. (Inf - 1)
  /\ Reductions \subseteq 1 .. (Inf - 1)

VARIABLES tg,       \* the governor
          marks,    \* times of its fixed marks
          chosen    \* history: the constraints and the mark its step was chosen for

vars == <<tg, marks, chosen>>

\* The quotients of the model are exact; a run that is not divisible enough deadlocks.
whole_fixed_step == (tg.end_of_fixed_dt_interval - t(tg)) % n_fixed(tg) = 0
whole_full_step == full_step(marks, tg) % n_steps(marks, tg) = 0

whole_ticks == IF in_fixed_interval(tg) THEN whole_fixed_step ELSE whole_full_step

by_constraints(F, g) == [upper |-> g.upper_constraint, lower |-> g.lower_constraint,
                         mark |-> next_fixed(F, g)]

Init == /\ \E pos \in 1 .. (Len(Table) - 1) :
             enters_table(Cfg, pos) /\ tg = input_governor(Cfg, pos, InitDt, Second)
        /\ marks = init_marks(Cfg) \cup Prescribed
        /\ chosen = [upper |-> 0, lower |-> 0, mark |-> 0]

\* EquationBase::set_time_upper_constraint
SetUpperConstraint(u) == /\ tg' = set_upper_constraint(u, tg)
                         /\ UNCHANGED <<marks, chosen>>

\* EquationBase::set_time_lower_constraint
SetLowerConstraint(l) == /\ tg' = set_lower_constraint(l, tg)
                         /\ UNCHANGED <<marks, chosen>>

\* EquationBase::choose_next_time
FixDtUntilMark ==
  /\ ~ is_end(Cfg, tg) => whole_full_step
  /\ tg' = fix_dt_until_mark(Cfg, marks, tg)
  /\ chosen' = by_constraints(marks, tg)
  /\ marks' = marks

\* Mutant: the step stays fixed up to the mark chosen before the target was known.
SetTargetWithoutFix(target, u) ==
  /\ t(tg) < target
  /\ marks' = marks \cup {target}
  /\ tg' = set_upper_constraint(u, tg)
  /\ chosen' = chosen

\* ConvectionTransport::set_target_time, called with the CFL limit u of the previous step,
\* Inf when there is none yet.
SetTargetTime(target, u) ==
  /\ t(tg) < target
  /\ marks' = marks \cup {target}
  /\ LET g == set_upper_constraint(u, tg)
     IN  /\ full_step(marks', g) % n_steps(marks', g) = 0
         /\ tg' = fix_dt_until_mark(Cfg, marks', g)
         /\ chosen' = by_constraints(marks', g)

NextTime ==
  /\ ~ is_end(Cfg, tg) /\ whole_ticks
  /\ tg' = next_time(Cfg, marks, tg)
  /\ chosen' = IF in_fixed_interval(tg) THEN chosen ELSE by_constraints(marks, tg)
  /\ marks' = marks

\* next_time() returns at once when the end time is reached.
AtEnd == is_end(Cfg, tg) /\ tg' = next_time(Cfg, marks, tg) /\ UNCHANGED <<marks, chosen>>

Next == \/ \E u \in Uppers : SetUpperConstraint(u)
        \/ \E l \in Lowers : SetLowerConstraint(l)
        \/ FixDtUntilMark
        \/ \E x \in Targets, u \in Uppers \cup {Inf} : SetTargetTime(x, u)
        \/ NextTime
        \/ AtEnd

Spec == Init /\ [][Next]_vars

\* The last step is rejected and taken again with a smaller length; the unit test of
\* reduce_timestep is its only caller.  After the step into the end time the code would
\* read dt_limits_table_ behind its end, so the model does not reduce that step.  A step is
\* rejected before choose_next_time() is called for the next one.
ReduceTimestep(reduced) ==
  /\ tlevel(tg) > 0 /\ reduced < dt(tg) /\ ~ is_end(Cfg, tg)
  /\ ~ tg.is_time_step_fixed
  /\ reduce_allowed(reduced, tg)
  /\ LET g == set_upper_constraint(reduced, revert_step(tg))
     IN  in_fixed_interval(g) \/ full_step(marks, g) % n_steps(marks, g) = 0
  /\ tg' = reduce_timestep(Cfg, marks, reduced, tg)
  /\ UNCHANGED <<marks, chosen>>

RetryNext == Next \/ \E r \in Reductions : ReduceTimestep(r)

RetrySpec == Init /\ [][RetryNext]_vars

\* run_simulation() calls next_time() until is_end().
FairSpec == Spec /\ WF_vars(NextTime)
---------------------------------------------------------------------------
(* Properties. *)

\* Every field of the governor has its type; the buffer of recent steps is never empty
\* and never exceeds its capacity (time_governor.hh, size_of_recent_steps_), and the
\* position in dt_limits_table_ is at most one behind its end.
TypeOK ==
  /\ tg \in Governor
  /\ Len(tg.recent_steps) \in 1 .. RecentSize
  /\ tg.dt_limits_pos \in 1 .. (Len(Table) + 1)
  /\ marks \subseteq Nat
  /\ chosen \in [upper : Nat, lower : Nat, mark : Time]

\* next_time() never jumps over a fixed mark, not even over a target time that
\* set_target_time() put inside an interval with an already fixed step.
NoFixedMarkSkipped ==
  [][\A m \in marks : t(tg) < m => t(tg') <= m]_vars

\* Every step obeys the constraints under which its length was chosen, though they were
\* relaxed meanwhile and the choice may be many steps old: it is at most the upper one
\* (or the lower one where they conflict) and it falls to half of the lower one or
\* below only when it ends in the mark it was chosen for.
StepObeysConstraints ==
  [][tlevel(tg') > tlevel(tg) =>
       /\ dt(tg') <= Larger(chosen'.upper, chosen'.lower)
       /\ 2 * dt(tg') > chosen'.lower \/ t(tg') = chosen'.mark]_vars

\* is_changed_dt() is right after every step, inside a fixed interval too, where it is
\* not computed from the steps: ConvectionTransport rescales its matrix by this flag.
ChangedFlagExact ==
  tlevel(tg) > 0 => (tg.time_step_changed <=> dt(tg) # last_dt(tg))

\* A retried step obeys the reduction that was asked for, unless the lower constraint of the
\* rejected step forbids it; inside a fixed interval, which the code does not end, the
\* rejected length is repeated.  It takes the place of the rejected one and does not jump
\* over a fixed mark behind the last accepted time.
RetriedStep ==
  \A r \in Reductions : ReduceTimestep(r) =>
    /\ IF in_fixed_interval(revert_step(tg)) THEN dt(tg') = dt(tg)
       ELSE dt(tg') <= Smaller(dt(tg), Larger(r, tg.last_lower_constraint))
    /\ tlevel(tg') = tlevel(tg)
    /\ \A m \in marks : t(revert_step(tg)) < m => t(tg') <= m

\* reduce_timestep() keeps to it however often steps are rejected, whatever was asked since.
RetryReducedUnlessFixed == [][RetriedStep]_vars

Axis == INSTANCE TimeAxis WITH now <- t(tg), fixed <- marks

\* The governor implements the time axis its equation relies on.
ImplementsAxis == Axis!Spec

\* Whatever constraints, targets and fixed steps are asked for, the end time is reached.
EndReached == <>is_end(Cfg, tg)
============================================================================
