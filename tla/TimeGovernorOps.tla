-------------------------- MODULE TimeGovernorOps --------------------------
(***************************************************************************)
(* The methods of class TimeGovernor (tools/time_governor.hh, .cc) as      *)
(* operators on a record, so that one module can run a single governor and *)
(* another one can run several that share a set of fixed time marks.       *)
(*                                                                         *)
(* Time is counted in ticks.  The tolerance of TimeStep::safe_compare and  *)
(* time_step_precision are below one tick, so the rounding-safe            *)
(* comparisons are the exact ones, and quotients of times round down.      *)
(*                                                                         *)
(* cfg is what the constructor fixes: init_time_, end_time_, steady_ and   *)
(* dt_limits_table_.  F is the set of the times of all marks that carry    *)
(* the governor's fixed mark type, without the two stoppers.               *)
(***************************************************************************)
EXTENDS Integers, Sequences

CONSTANT Inf     \* inf_time, larger than every finite time

\* No double reaches infinity by adding steps: a time or a length is Inf or well below it.
ASSUME InfAssumption == Inf \in Nat \ {0}

NegInf == -1     \* -inf_time; times are never negative

Time == 0 .. Inf

Smaller(a, b) == IF a <= b THEN a ELSE b
Larger(a, b) == IF a >= b THEN a ELSE b

\* Arithmetic of doubles where Inf is involved.
Plus(a, b) == IF a = Inf \/ b = Inf THEN Inf ELSE a + b
Minus(a, b) == IF a = Inf THEN Inf ELSE a - b

\* Mutant: one step too many when the quotient is whole.
CeilDiv_floor_plus_one(a, b) == a \div b + 1

CeilDiv(a, b) == (a + b - 1) \div b

\* round(a / b), halves up
RoundDiv(a, b) == (2 * a + b) \div (2 * b)

---------------------------------------------------------------------------
(* TimeStep and the circular buffer recent_steps_, the newest step first. *)

RecentSize == 3

\* Mutant: the buffer has no capacity.
PushFront_unbounded(s, x) == <<x>> \o s

\* Capacity of the buffer: the oldest step falls out.
PushFront(s, x) ==
  [i \in 1 .. (IF Len(s) < RecentSize THEN Len(s) + 1 ELSE RecentSize) |->
     IF i = 1 THEN x ELSE s[i - 1]]

PopFront(s) == [i \in 1 .. (Len(s) - 1) |-> s[i + 1]]

MakeNext(prev, length) ==
  [index |-> prev.index + 1, length |-> length, end |-> Plus(prev.end, length)]

step(g) == g.recent_steps[1]
t(g) == step(g).end
dt(g) == step(g).length
tlevel(g) == step(g).index

\* step(-2).length(), the length of the step before the actual one.
last_dt(g) == IF tlevel(g) > 0 THEN g.recent_steps[2].length ELSE Inf

is_end(cfg, g) == t(g) >= cfg.end_time \/ t(g) = Inf

in_fixed_interval(g) == t(g) < g.end_of_fixed_dt_interval

\* Mutant: the search runs from the wrong end of the marks.
next_fixed_last(F, g) ==
  LET later == {m \in F : t(g) < m}
  IN  IF later = {} THEN Inf ELSE CHOOSE m \in later : \A n \in later : m >= n

\* TimeMarks::next with the governor's fixed mask: the +INF stopper if no mark is left.
next_fixed(F, g) ==
  LET later == {m \in F : t(g) < m}
  IN  IF later = {} THEN Inf ELSE CHOOSE m \in later : \A n \in later : m <= n

---------------------------------------------------------------------------
(* Choice of the time step. *)

full_step(F, g) == Minus(next_fixed(F, g), t(g))

constrained_step(F, g) ==
  Larger(Smaller(full_step(F, g), g.upper_constraint), g.lower_constraint)

\* Mutant: rounds the number of steps down.
n_steps_down(F, g) == Larger(1, full_step(F, g) \div constrained_step(F, g))

n_steps(F, g) == CeilDiv(full_step(F, g), constrained_step(F, g))

estimate_dt(cfg, F, g) ==
  IF is_end(cfg, g) THEN 0
  ELSE IF in_fixed_interval(g) THEN g.fixed_time_step
  ELSE IF constrained_step(F, g) = Inf THEN Inf
  ELSE full_step(F, g) \div n_steps(F, g)

\* The step of the fixed interval, corrected so that a whole number of them is left.
n_fixed(g) ==
  RoundDiv(g.end_of_fixed_dt_interval - t(g), g.fixed_time_step)

corrected_fixed_step(g) ==
  IF g.end_of_fixed_dt_interval < Inf
  THEN (g.end_of_fixed_dt_interval - t(g)) \div n_fixed(g)
  ELSE g.fixed_time_step

set_upper_constraint(upper, g) ==
  IF g.upper_constraint < upper THEN g
  ELSE IF g.lower_constraint > upper
       THEN [g EXCEPT !.upper_constraint = g.lower_constraint]
       ELSE [g EXCEPT !.upper_constraint = upper]

set_lower_constraint(lower, g) ==
  IF g.upper_constraint < lower
  THEN [g EXCEPT !.lower_constraint = g.upper_constraint]
  ELSE IF g.lower_constraint > lower THEN g
       ELSE [g EXCEPT !.lower_constraint = lower]

\* Mutant: the flag of a newly fixed step is not raised.
fix_dt_without_flag(cfg, F, g) ==
  LET released == [g EXCEPT !.end_of_fixed_dt_interval = NegInf]
  IN  IF cfg.steady THEN g
      ELSE [released EXCEPT !.fixed_time_step = estimate_dt(cfg, F, released),
                            !.end_of_fixed_dt_interval = next_fixed(F, g)]

fix_dt_until_mark(cfg, F, g) ==
  LET released == [g EXCEPT !.end_of_fixed_dt_interval = NegInf]
  IN  IF cfg.steady THEN g
      ELSE [released EXCEPT !.fixed_time_step = estimate_dt(cfg, F, released),
                            !.is_time_step_fixed = TRUE,
                            !.end_of_fixed_dt_interval = next_fixed(F, g)]

\* One tick stands for time_step_precision, the technical lower bound of a step.
set_permanent_constraint(cfg, g) ==
  LET row == cfg.dt_limits_table[g.dt_limits_pos]
      lo == Larger(row.min_dt, 1)
      up == Smaller(row.max_dt, Minus(cfg.end_time, t(g)))
  IN  [g EXCEPT !.lower_constraint = lo, !.min_time_step = lo,
                !.upper_constraint = up, !.max_time_step = up,
                !.dt_limits_pos = @ + 1]

\* The first half of next_time(): the new step and the "changed" flag.
advance(cfg, F, g) ==
  LET fixed == in_fixed_interval(g)
      length == IF fixed THEN corrected_fixed_step(g) ELSE estimate_dt(cfg, F, g)
  IN  [g EXCEPT !.recent_steps = PushFront(@, MakeNext(step(g), length)),
                !.fixed_time_step = IF fixed THEN length ELSE @,
                !.is_time_step_fixed = IF fixed THEN FALSE ELSE @,
                !.time_step_changed = (fixed => g.is_time_step_fixed) /\ dt(g) # length]

\* The second half: the constraints fall back to the permanent ones.
relax_constraints(cfg, g) ==
  [g EXCEPT !.last_lower_constraint = g.lower_constraint,
            !.last_upper_constraint = g.upper_constraint,
            !.upper_constraint = Smaller(Minus(cfg.end_time, t(g)), g.max_time_step),
            !.lower_constraint = g.min_time_step]

next_time(cfg, F, g) ==
  IF is_end(cfg, g) THEN g
  ELSE LET moved == relax_constraints(cfg, advance(cfg, F, g))
       IN  IF t(moved) >= cfg.dt_limits_table[g.dt_limits_pos].time
           THEN set_permanent_constraint(cfg, moved)
           ELSE moved

\* Mutant: the rejected step stays in the buffer.
revert_constraints_only(g) ==
  [g EXCEPT !.upper_constraint = g.last_upper_constraint,
            !.lower_constraint = g.last_lower_constraint]

\* The governor goes back by one step, its constraints are those of that step.
revert_step(g) ==
  [g EXCEPT !.recent_steps = PopFront(@),
            !.upper_constraint = g.last_upper_constraint,
            !.lower_constraint = g.last_lower_constraint]

\* reduce_timestep(factor) with factor * dt() = reduced; it throws when the limit of the
\* rejected step was already smaller than reduced.
reduce_allowed(reduced, g) == g.last_upper_constraint >= reduced

reduce_timestep(cfg, F, reduced, g) ==
  next_time(cfg, F, set_upper_constraint(reduced, revert_step(g)))

---------------------------------------------------------------------------
(* Construction. *)

\* init_common(): one artificial step of one second, the loosest constraints.
init_common(cfg, second) ==
  [recent_steps |-> <<[index |-> 0, length |-> second, end |-> cfg.init_time]>>,
   end_of_fixed_dt_interval |-> cfg.init_time,
   fixed_time_step |-> 0,
   is_time_step_fixed |-> FALSE,
   time_step_changed |-> TRUE,
   lower_constraint |-> 1,
   upper_constraint |-> Minus(cfg.end_time, cfg.init_time),
   min_time_step |-> 1,
   max_time_step |-> Minus(cfg.end_time, cfg.init_time),
   last_lower_constraint |-> 0,
   last_upper_constraint |-> 0,
   dt_limits_pos |-> 1]

\* Where the table is entered: row pos holds at init_time_, the next one starts later.
enters_table(cfg, pos) ==
  /\ cfg.dt_limits_table[pos + 1].time > cfg.init_time
  /\ \A q \in 1 .. (pos - 1) : cfg.dt_limits_table[q + 1].time <= cfg.init_time

\* The constructor from the input record; init_dt = 0 when the user gives none.
input_governor(cfg, pos, init_dt, second) ==
  LET g == set_permanent_constraint(cfg,
             [init_common(cfg, second) EXCEPT !.dt_limits_pos = pos])
  IN  IF init_dt > 0
      THEN [g EXCEPT !.lower_constraint = init_dt, !.upper_constraint = init_dt]
      ELSE g

\* The fixed marks a constructor adds.
init_marks(cfg) == {cfg.init_time, cfg.end_time} \ {Inf}
============================================================================
