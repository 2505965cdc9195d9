--------------------------- MODULE CouplingProofs ---------------------------
(***************************************************************************)
(* Proofs about SequentialCoupling, for all numbers of processes, time     *)
(* inputs of the equations, fixed marks and adaptations of the flow step.  *)
(***************************************************************************)
EXTENDS SequentialCoupling, GovernorArithmetic

\* The fields of a governor, of which only the steps matter here.
GovernorFields ==
  {"recent_steps", "end_of_fixed_dt_interval", "fixed_time_step", "is_time_step_fixed",
   "time_step_changed", "lower_constraint", "upper_constraint", "min_time_step", "max_time_step",
   "last_lower_constraint", "last_upper_constraint", "dt_limits_pos"}

IsGovernor(g) ==
  /\ g = [x \in GovernorFields |-> g[x]]
  /\ \E S : g.recent_steps \in Seq(S)
  /\ tlevel(g) \in Nat

\* The flow starts before its end and no later than the processes, in a finite time.  The code
\* does not compare the initial times: a process that starts before the flow makes its first
\* steps without a velocity.
FlowStartsFirst ==
  \A in \in Inputs :
    /\ in.config[Water].cfg.init_time < in.config[Water].cfg.end_time
    /\ 2 * in.config[Water].cfg.init_time < Inf
    /\ \A p \in ToSet(in.processes) : in.config[Water].cfg.init_time <= in.config[p].cfg.init_time

CplTypeOK ==
  /\ input \in Inputs
  /\ pc \in {"plan", "water"} \cup ToSet(Processes)
  /\ gov = [e \in Equations |-> gov[e]] /\ \A e \in Equations : IsGovernor(gov[e])
  /\ is_end_all \in BOOLEAN
  /\ velocity_time = [p \in ToSet(Processes) |-> velocity_time[p]]
  /\ velocity_changed \in [ToSet(Processes) -> BOOLEAN]
  /\ velocity = [p \in ToSet(Processes) |-> velocity[p]]

\* What is_end_all_ says of the equations that were asked in this pass
EndsSeen ==
  /\ pc = "plan" /\ is_end_all => \A e \in Equations : ended(e)
  /\ \A i \in DOMAIN Processes : pc = Processes[i] /\ is_end_all =>
       ended(Water) /\ \A j \in 1 .. (i - 1) : ended(Processes[j])

CplInv == CplTypeOK /\ EndsSeen

\* The governor of an equation as it is made from the input
initial_governor(e) == input_governor(cfg_of(e), 1, input.config[e].init_dt, input.config[e].second)

\* Nobody is stepped before the first solution of the flow, which is made in the first pass.
FirstPass ==
  tlevel(gov[Water]) = 0 =>
    \/ pc = "plan" /\ \A e \in Equations : gov[e] = initial_governor(e)
    \/ /\ pc = "water" /\ ~ ended(Water)
       /\ \A p \in running : velocity_time[p] \in Nat /\ 2 * t(gov[Water]) < velocity_time[p]
       /\ t(gov[Water]) \in Nat /\ 2 * t(gov[Water]) < Inf

\* A process that was not told of a newer velocity works with the newest one.
VelocityTold ==
  tlevel(gov[Water]) > 0 =>
    \A p \in ToSet(Processes) : velocity_changed[p] \/ velocity[p] = t(gov[Water])

CplVelocityInv == CplInv /\ FirstPass /\ VelocityTold

---------------------------------------------------------------------------
(* The governors. *)

\* The buffer of steps after one more step
LEMMA PushedFront ==
  ASSUME NEW S, NEW s \in Seq(S), NEW x
  PROVE  PushFront(s, x) \in Seq(S \cup {x}) /\ PushFront(s, x)[1] = x
<1> DEFINE n == IF Len(s) < RecentSize THEN Len(s) + 1 ELSE RecentSize
<1>1. n \in Nat /\ 1 \in 1 .. n /\ n <= Len(s) + 1
  BY DEF RecentSize
<1>2. \A i \in 1 .. n : i # 1 => s[i - 1] \in S
  BY <1>1
<1>3. PushFront(s, x) = [i \in 1 .. n |-> IF i = 1 THEN x ELSE s[i - 1]]
  BY DEF PushFront
<1> HIDE DEF n
<1>4. PushFront(s, x) \in [1 .. n -> S \cup {x}]
  BY <1>2, <1>3
<1>5. PushFront(s, x) \in Seq(S \cup {x})
  BY <1>1, <1>4
<1> QED BY <1>1, <1>3, <1>5

\* Only the steps decide the time and its level.
LEMMA SameSteps ==
  ASSUME NEW g, NEW h, IsGovernor(g), h = [x \in GovernorFields |-> h[x]],
         h.recent_steps = g.recent_steps
  PROVE  IsGovernor(h) /\ t(h) = t(g) /\ tlevel(h) = tlevel(g)
BY DEF IsGovernor, t, tlevel, step

\* set_upper_constraint() leaves the steps alone.
LEMMA UpperKeepsSteps ==
  ASSUME NEW g, IsGovernor(g), NEW upper
  PROVE  LET h == set_upper_constraint(upper, g)
         IN  /\ h.recent_steps = g.recent_steps /\ h = [x \in GovernorFields |-> h[x]]
             /\ IsGovernor(h) /\ t(h) = t(g) /\ tlevel(h) = tlevel(g)
<1> DEFINE h == set_upper_constraint(upper, g)
<1>1. h.recent_steps = g.recent_steps /\ h = [x \in GovernorFields |-> h[x]]
  BY DEF set_upper_constraint, IsGovernor, GovernorFields
<1> HIDE DEF h
<1>2. IsGovernor(h) /\ t(h) = t(g) /\ tlevel(h) = tlevel(g)
  BY <1>1, SameSteps
<1> QED BY <1>1, <1>2 DEF h

\* fix_dt_until_mark() leaves the steps alone.
LEMMA FixKeepsSteps ==
  ASSUME NEW g, IsGovernor(g), NEW cfg, NEW F
  PROVE  LET h == fix_dt_until_mark(cfg, F, g)
         IN  /\ h.recent_steps = g.recent_steps
             /\ IsGovernor(h) /\ t(h) = t(g) /\ tlevel(h) = tlevel(g)
<1> DEFINE h == fix_dt_until_mark(cfg, F, g)
           released == [g EXCEPT !.end_of_fixed_dt_interval = NegInf]
           e == estimate_dt(cfg, F, released)
           n == next_fixed(F, g)
<1>1. h = IF cfg.steady THEN g
          ELSE [released EXCEPT !.fixed_time_step = e, !.is_time_step_fixed = TRUE,
                                !.end_of_fixed_dt_interval = n]
  BY DEF fix_dt_until_mark
<1> HIDE DEF h, e, n
<1>2. h.recent_steps = g.recent_steps /\ h = [x \in GovernorFields |-> h[x]]
  BY <1>1 DEF IsGovernor, GovernorFields
<1>3. IsGovernor(h) /\ t(h) = t(g) /\ tlevel(h) = tlevel(g)
  BY <1>2, SameSteps
<1> QED BY <1>2, <1>3 DEF h

\* next_time() of a governor that has not ended makes one step.
LEMMA NextTimeSteps ==
  ASSUME NEW g, IsGovernor(g), NEW cfg, NEW F, ~ is_end(cfg, g)
  PROVE  LET h == next_time(cfg, F, g)
         IN  IsGovernor(h) /\ tlevel(h) = tlevel(g) + 1
<1> DEFINE length == IF in_fixed_interval(g) THEN corrected_fixed_step(g)
                     ELSE estimate_dt(cfg, F, g)
           new == MakeNext(step(g), length)
           fixed == IF in_fixed_interval(g) THEN length ELSE g.fixed_time_step
           flag == IF in_fixed_interval(g) THEN FALSE ELSE g.is_time_step_fixed
           changed == (in_fixed_interval(g) => g.is_time_step_fixed) /\ dt(g) # length
           steps == PushFront(g.recent_steps, new)
           a == advance(cfg, F, g)
           u == Smaller(Minus(cfg.end_time, t(a)), a.max_time_step)
           r == relax_constraints(cfg, a)
           row == cfg.dt_limits_table[r.dt_limits_pos]
           lo == Larger(row.min_dt, 1)
           up == Smaller(row.max_dt, Minus(cfg.end_time, t(r)))
           h == next_time(cfg, F, g)
<1>1. PICK S : g.recent_steps \in Seq(S)
  BY DEF IsGovernor
<1>2. steps \in Seq(S \cup {new}) /\ steps[1] = new
  BY <1>1, PushedFront, SMTT(30)
<1>3. new.index = tlevel(g) + 1
  BY DEF MakeNext, tlevel
<1>4. a = [g EXCEPT !.recent_steps = steps, !.fixed_time_step = fixed,
                    !.is_time_step_fixed = flag, !.time_step_changed = changed]
  BY DEF advance, IsGovernor, GovernorFields
<1> HIDE DEF a, steps, fixed, flag, changed
<1>5. a = [x \in GovernorFields |-> a[x]] /\ a.recent_steps = steps
  BY <1>4 DEF IsGovernor, GovernorFields
<1>6. r = [a EXCEPT !.last_lower_constraint = a.lower_constraint,
                    !.last_upper_constraint = a.upper_constraint,
                    !.upper_constraint = u, !.lower_constraint = a.min_time_step]
  BY DEF relax_constraints
<1> HIDE DEF u, r
<1>7. r = [x \in GovernorFields |-> r[x]] /\ r.recent_steps = steps
  BY <1>5, <1>6 DEF GovernorFields
<1>8. \/ h = r
      \/ h = [r EXCEPT !.lower_constraint = lo, !.min_time_step = lo, !.upper_constraint = up,
                       !.max_time_step = up, !.dt_limits_pos = r.dt_limits_pos + 1]
  BY <1>7 DEF next_time, set_permanent_constraint, r, a, GovernorFields
<1> HIDE DEF h, lo, up
<1>9. h = [x \in GovernorFields |-> h[x]] /\ h.recent_steps = steps
  <2>1. CASE h = r
    BY <1>7, <2>1
  <2>2. CASE h # r
    BY <1>7, <1>8, <2>2 DEF GovernorFields
  <2> QED BY <2>1, <2>2
<1>10. tlevel(h) = tlevel(g) + 1
  BY <1>2, <1>3, <1>9 DEF tlevel, step
<1>11. IsGovernor(h)
  BY <1>2, <1>9, <1>10 DEF IsGovernor
<1> QED BY <1>10, <1>11 DEF h

\* A governor outside a fixed interval that has not ended plans a positive step.
LEMMA EstimatePositive ==
  ASSUME NEW cfg, NEW F, F \subseteq Nat, NEW g, t(g) \in Nat, ~ is_end(cfg, g),
         ~ in_fixed_interval(g), g.lower_constraint \in Nat \ {0}, g.upper_constraint \in Nat
  PROVE  estimate_dt(cfg, F, g) \in Nat \ {0}
<1> DEFINE later == {m \in F : t(g) < m}
           full == full_step(F, g)
           c == constrained_step(F, g)
<1>0. Inf \in Nat \ {0}
  BY InfAssumption
<1>1. next_fixed(F, g) \in Nat /\ (next_fixed(F, g) = Inf \/ t(g) < next_fixed(F, g))
  <2>1. CASE later = {}
    BY <1>0, <2>1 DEF next_fixed
  <2>2. CASE later # {}
    <3>1. PICK e \in F : t(g) < e
      BY <2>2
    <3>2. next_fixed(F, g) \in F /\ t(g) < next_fixed(F, g)
      BY <3>1, NextFixed
    <3> QED BY <3>2
  <2> QED BY <2>1, <2>2
<1>2. full \in Nat /\ full >= 1
  BY <1>0, <1>1 DEF full_step, Minus
<1>3. c \in Nat /\ c >= 1
  BY <1>0, <1>2 DEF constrained_step, Larger, Smaller
<1>4. n_steps(F, g) \in 1 .. full
  BY <1>2, <1>3, CeilDivBounds DEF n_steps
<1>5. full \div n_steps(F, g) \in 1 .. full
  BY <1>2, <1>4, PartOfLength
<1>6. estimate_dt(cfg, F, g) = IF c = Inf THEN Inf ELSE full \div n_steps(F, g)
  BY DEF estimate_dt
<1> QED BY <1>0, <1>2, <1>5, <1>6

\* A governor as it is made from an input
LEMMA MadeFromInput ==
  ASSUME NEW cfg, cfg.init_time \in Nat, cfg.end_time \in Nat, cfg.init_time <= cfg.end_time,
         cfg.dt_limits_table[1].min_dt \in Nat, cfg.dt_limits_table[1].max_dt \in Nat,
         NEW init_dt \in Nat, NEW second,
         NEW h, h = input_governor(cfg, 1, init_dt, second)
  PROVE  /\ IsGovernor(h) /\ t(h) = cfg.init_time /\ tlevel(h) = 0
         /\ ~ in_fixed_interval(h)
         /\ h.lower_constraint \in Nat \ {0} /\ h.upper_constraint \in Nat
<1> DEFINE row == cfg.dt_limits_table[1]
           rest == Minus(cfg.end_time, cfg.init_time)
           steps == <<[index |-> 0, length |-> second, end |-> cfg.init_time]>>
           i == [init_common(cfg, second) EXCEPT !.dt_limits_pos = 1]
           lo == Larger(row.min_dt, 1)
           up == Smaller(row.max_dt, rest)
           g == set_permanent_constraint(cfg, i)
<1>1. rest \in Nat
  BY InfAssumption DEF Minus
<1>2. /\ i = [x \in GovernorFields |-> i[x]] /\ i.recent_steps = steps
      /\ i.end_of_fixed_dt_interval = cfg.init_time /\ i.dt_limits_pos = 1
  BY DEF init_common, GovernorFields
<1>3. lo \in Nat \ {0} /\ up \in Nat
  BY <1>1 DEF Larger, Smaller
<1>4. steps[1].end = cfg.init_time /\ steps[1].index = 0 /\ steps \in Seq({steps[1]})
  OBVIOUS
<1> HIDE DEF i, steps
<1>5. t(i) = cfg.init_time
  BY <1>2, <1>4 DEF t, step
<1>6. g = [i EXCEPT !.lower_constraint = lo, !.min_time_step = lo, !.upper_constraint = up,
                    !.max_time_step = up, !.dt_limits_pos = 2]
  <2>1. /\ Larger(cfg.dt_limits_table[i.dt_limits_pos].min_dt, 1) = lo
        /\ Smaller(cfg.dt_limits_table[i.dt_limits_pos].max_dt, Minus(cfg.end_time, t(i))) = up
        /\ i.dt_limits_pos + 1 = 2
    BY <1>2, <1>5
  <2> HIDE DEF lo, up
  <2> QED BY <1>2, <2>1 DEF set_permanent_constraint, GovernorFields
<1> HIDE DEF g, lo, up
<1>7. /\ g = [x \in GovernorFields |-> g[x]] /\ g.recent_steps = steps
      /\ g.end_of_fixed_dt_interval = cfg.init_time
      /\ g.lower_constraint = lo /\ g.upper_constraint = up
  BY <1>2, <1>6 DEF GovernorFields
<1>8. h = IF init_dt > 0 THEN [g EXCEPT !.lower_constraint = init_dt, !.upper_constraint = init_dt]
          ELSE g
  BY DEF input_governor, g, i
<1>9. /\ h = [x \in GovernorFields |-> h[x]] /\ h.recent_steps = steps
      /\ h.end_of_fixed_dt_interval = cfg.init_time
      /\ h.lower_constraint = IF init_dt > 0 THEN init_dt ELSE lo
      /\ h.upper_constraint = IF init_dt > 0 THEN init_dt ELSE up
  BY <1>7, <1>8 DEF GovernorFields
<1>10. t(h) = cfg.init_time /\ tlevel(h) = 0
  BY <1>4, <1>9 DEF t, tlevel, step
<1>11. IsGovernor(h)
  BY <1>4, <1>9, <1>10 DEF IsGovernor
<1>12. ~ in_fixed_interval(h)
  BY <1>9, <1>10 DEF in_fixed_interval
<1> QED BY <1>3, <1>9, <1>10, <1>11, <1>12

---------------------------------------------------------------------------
(* The coupling. *)

\* What a simulation may rely on in its input
LEMMA OfInput ==
  ASSUME input \in Inputs
  PROVE  /\ Processes \in Seq(STRING) /\ Len(Processes) >= 1
         /\ DOMAIN Processes = 1 .. Len(Processes) /\ Len(Processes) \in Nat
         /\ \A i \in DOMAIN Processes : Processes[i] \in ToSet(Processes)
         /\ \A p \in ToSet(Processes) : \E i \in DOMAIN Processes : p = Processes[i]
         /\ Water \notin ToSet(Processes) /\ "plan" \notin ToSet(Processes)
         /\ \A i, j \in DOMAIN Processes : Processes[i] = Processes[j] => i = j
         /\ Water \in Equations /\ ToSet(Processes) \subseteq Equations
BY InputsAssumption DEF Processes, ToSet, Equations

\* The governors as they are made
LEMMA InitialGovernors ==
  ASSUME input \in Inputs, NEW e \in Equations, NEW h, h = initial_governor(e)
  PROVE  /\ IsGovernor(h) /\ t(h) = cfg_of(e).init_time /\ tlevel(h) = 0
         /\ ~ in_fixed_interval(h) /\ t(h) \in Nat
         /\ h.lower_constraint \in Nat \ {0} /\ h.upper_constraint \in Nat
         /\ Marks(e) \subseteq Nat
<1>1. e \in {Water} \cup ToSet(input.processes)
  BY DEF Equations, Processes
<1>2. /\ cfg_of(e).init_time \in Nat /\ cfg_of(e).end_time \in Nat
      /\ cfg_of(e).init_time <= cfg_of(e).end_time
      /\ cfg_of(e).dt_limits_table[1].min_dt \in Nat /\ cfg_of(e).dt_limits_table[1].max_dt \in Nat
      /\ input.config[e].init_dt \in Nat /\ Marks(e) \subseteq Nat
  BY <1>1, InputsAssumption DEF cfg_of, Marks
<1>3. h = input_governor(cfg_of(e), 1, input.config[e].init_dt, input.config[e].second)
  BY DEF initial_governor
<1> QED BY <1>2, <1>3, MadeFromInput

\* The constructors establish the invariant.
LEMMA CplInitial == CplInit => CplVelocityInv
<1> SUFFICES ASSUME CplInit PROVE CplVelocityInv
  OBVIOUS
<1>1. input \in Inputs
  BY DEF CplInit
<1>2. gov = [e \in Equations |-> initial_governor(e)]
  BY DEF CplInit, initial_governor
<1>3. \A e \in Equations : IsGovernor(gov[e]) /\ tlevel(gov[e]) = 0
  BY <1>1, <1>2, InitialGovernors
<1>4. CplTypeOK
  BY <1>1, <1>2, <1>3 DEF CplTypeOK, CplInit
<1>5. EndsSeen
  BY <1>1, OfInput DEF EndsSeen, CplInit
<1>6. tlevel(gov[Water]) = 0
  BY <1>1, <1>3, OfInput
<1>7. FirstPass /\ VelocityTold
  BY <1>2, <1>6 DEF FirstPass, VelocityTold, CplInit
<1> QED BY <1>4, <1>5, <1>7 DEF CplVelocityInv, CplInv

\* An end depends on the time of the governor alone.
LEMMA SameEnd ==
  ASSUME NEW cfg, NEW g, NEW h, t(h) = t(g)
  PROVE  is_end(cfg, h) <=> is_end(cfg, g)
BY DEF is_end

\* The constraints of the head of the loop leave the times alone.
LEMMA PlanKeepsTimes ==
  ASSUME CplTypeOK, Plan, NEW e \in Equations
  PROVE  /\ IsGovernor(gov'[e]) /\ t(gov'[e]) = t(gov[e]) /\ tlevel(gov'[e]) = tlevel(gov[e])
         /\ ended(e)' <=> ended(e)
         /\ e = Water => gov'[e] = gov[e]
<1>1. IsGovernor(gov[e])
  BY DEF CplTypeOK
<1>2. gov'[e] = gov[e] \/ gov'[e] = set_upper_constraint(water_dt, gov[e])
  BY DEF Plan, constrained
<1>3. IsGovernor(gov'[e]) /\ t(gov'[e]) = t(gov[e]) /\ tlevel(gov'[e]) = tlevel(gov[e])
  <2>1. CASE gov'[e] = gov[e]
    BY <1>1, <2>1
  <2>2. CASE gov'[e] = set_upper_constraint(water_dt, gov[e])
    BY <1>1, <2>2, UpperKeepsSteps
  <2> QED BY <1>2, <2>1, <2>2
<1>4. is_end(cfg_of(e), gov'[e]) <=> is_end(cfg_of(e), gov[e])
  BY <1>3, SameEnd
<1>5. cfg_of(e)' = cfg_of(e)
  BY DEF Plan, cfg_of
<1>6. ended(e)' <=> ended(e)
  BY <1>4, <1>5 DEF ended
<1>7. e = Water => gov'[e] = gov[e]
  BY DEF Plan
<1> QED BY <1>3, <1>6, <1>7

\* The head of the loop
LEMMA PlanPreserves ==
  ASSUME CplInv, Plan
  PROVE  CplInv'
<1>1. CplTypeOK /\ input \in Inputs
  BY DEF CplInv, CplTypeOK
<1>2. Processes' = Processes /\ Equations' = Equations
  BY DEF Plan, Processes, Equations
<1>3. \A e \in Equations : IsGovernor(gov'[e])
  BY <1>1, PlanKeepsTimes
<1>4. gov' = [e \in Equations |-> gov'[e]]
  BY DEF Plan
<1>5. velocity_time' = [p \in ToSet(Processes) |-> velocity_time'[p]]
  BY DEF Plan
<1>6. CplTypeOK'
  BY <1>1, <1>2, <1>3, <1>4, <1>5 DEF CplTypeOK, Plan
<1>7. pc' = "water"
  BY DEF Plan
<1>8. EndsSeen'
  BY <1>1, <1>2, <1>7, OfInput DEF EndsSeen, Water
<1> QED BY <1>6, <1>8 DEF CplInv

\* In the first pass every process that goes on plans a step that ends behind the flow.
LEMMA PlanPreservesVelocity ==
  ASSUME CplVelocityInv, Plan, FlowStartsFirst
  PROVE  FirstPass' /\ VelocityTold'
<1>1. CplTypeOK /\ input \in Inputs /\ FirstPass /\ VelocityTold
  BY DEF CplVelocityInv, CplInv, CplTypeOK
<1>2. Processes' = Processes /\ Equations' = Equations
  BY DEF Plan, Processes, Equations
<1>3. gov'[Water] = gov[Water] /\ (ended(Water)' <=> ended(Water))
  BY <1>1, OfInput, PlanKeepsTimes
<1>4. VelocityTold'
  BY <1>1, <1>2, <1>3 DEF VelocityTold, Plan
<1>5. SUFFICES ASSUME tlevel(gov[Water]) = 0
               PROVE  FirstPass'
  BY <1>3, <1>4 DEF FirstPass
<1>6. \A e \in Equations : gov[e] = initial_governor(e)
  BY <1>1, <1>5 DEF FirstPass, Plan
<1>7. /\ t(gov[Water]) = cfg_of(Water).init_time /\ t(gov[Water]) \in Nat
      /\ ~ in_fixed_interval(gov[Water]) /\ Marks(Water) \subseteq Nat
      /\ gov[Water].lower_constraint \in Nat \ {0} /\ gov[Water].upper_constraint \in Nat
  BY <1>1, <1>6, OfInput, InitialGovernors
<1>8. 2 * t(gov[Water]) < Inf /\ ~ ended(Water)
  <2>1. cfg_of(Water).init_time < cfg_of(Water).end_time /\ 2 * cfg_of(Water).init_time < Inf
    BY <1>1 DEF FlowStartsFirst, cfg_of
  <2>2. cfg_of(Water).end_time \in Nat
    BY <1>1, OfInput, InputsAssumption DEF cfg_of, Equations, Processes
  <2> QED BY <1>7, <2>1, <2>2, InfAssumption DEF ended, is_end
<1>9. water_dt \in Nat \ {0}
  <2>1. estimate_dt(cfg_of(Water), Marks(Water), gov[Water]) \in Nat \ {0}
    BY <1>7, <1>8, EstimatePositive DEF ended
  <2> QED BY <1>8, <2>1 DEF water_dt
<1>10. ASSUME NEW p \in ToSet(Processes), ~ ended(p)'
       PROVE  velocity_time'[p] \in Nat /\ 2 * t(gov[Water]) < velocity_time'[p]
  <2>1. p \in Equations /\ p # Water
    BY <1>1, OfInput
  <2>2. ~ ended(p) /\ t(gov'[p]) = t(gov[p])
    BY <1>1, <1>10, <2>1, PlanKeepsTimes
  <2> DEFINE g == gov[p]
             h == gov'[p]
             d == estimate_dt(cfg_of(p), Marks(p), h)
  <2>3. /\ IsGovernor(g) /\ t(g) = cfg_of(p).init_time /\ t(g) \in Nat /\ ~ in_fixed_interval(g)
        /\ g.lower_constraint \in Nat \ {0} /\ g.upper_constraint \in Nat
        /\ Marks(p) \subseteq Nat
    BY <1>1, <1>6, <2>1, InitialGovernors
  <2>4. h = set_upper_constraint(water_dt, g)
    BY <2>1, <2>2 DEF Plan, constrained
  <2>5. velocity_time'[p] = Plus(Plus(t(h), d), t(g))
    BY <2>2 DEF Plan, planned_time
  <2> HIDE DEF g, h
  <2>6. /\ h.lower_constraint = g.lower_constraint /\ h.upper_constraint \in Nat
        /\ h.end_of_fixed_dt_interval = g.end_of_fixed_dt_interval
    BY <1>9, <2>3, <2>4 DEF set_upper_constraint, IsGovernor, GovernorFields
  <2>7. t(h) = t(g)
    BY <2>2 DEF g, h
  <2>8. ~ in_fixed_interval(h) /\ ~ is_end(cfg_of(p), h)
    <3>1. ~ in_fixed_interval(h)
      BY <2>3, <2>6, <2>7 DEF in_fixed_interval
    <3>2. ~ is_end(cfg_of(p), g)
      BY <2>2 DEF ended, g
    <3> QED BY <2>7, <3>1, <3>2, SameEnd
  <2>9. d \in Nat \ {0}
    <3> HIDE DEF d
    <3> QED BY <2>3, <2>6, <2>7, <2>8, EstimatePositive DEF d
  <2>10. t(gov[Water]) <= t(g)
    BY <1>1, <1>7, <2>3 DEF FlowStartsFirst, cfg_of, Processes
  <2> HIDE DEF d
  <2> QED BY <1>7, <1>8, <2>3, <2>5, <2>7, <2>9, <2>10, InfAssumption DEF Plus
<1>11. pc' = "water"
  BY DEF Plan
<1>12. \A p \in running' : p \in ToSet(Processes) /\ ~ ended(p)'
  BY <1>2 DEF running
<1> QED BY <1>3, <1>7, <1>8, <1>10, <1>11, <1>12 DEF FirstPass

\* The step of the flow and what it does to the flow's governor
LEMMA WaterSolvedSteps ==
  ASSUME NEW g, IsGovernor(g), ~ is_end(cfg_of(Water), g), NEW mult
  PROVE  LET h == fix_dt_until_mark(cfg_of(Water), Marks(Water), water_solved(g, mult))
         IN  IsGovernor(h) /\ tlevel(h) = tlevel(g) + 1
<1> DEFINE moved == next_time(cfg_of(Water), Marks(Water), g)
           upper == Larger(1, (dt(moved) * mult[1]) \div mult[2])
           solved == water_solved(g, mult)
           h == fix_dt_until_mark(cfg_of(Water), Marks(Water), solved)
<1>1. IsGovernor(moved) /\ tlevel(moved) = tlevel(g) + 1
  BY NextTimeSteps
<1>2. solved = moved \/ solved = set_upper_constraint(upper, moved)
  BY DEF water_solved
<1> HIDE DEF moved, upper, solved
<1>3. IsGovernor(solved) /\ tlevel(solved) = tlevel(g) + 1
  <2>1. CASE solved = moved
    BY <1>1, <2>1
  <2>2. CASE solved = set_upper_constraint(upper, moved)
    BY <1>1, <2>2, UpperKeepsSteps
  <2> QED BY <1>2, <2>1, <2>2
<1>4. IsGovernor(h) /\ tlevel(h) = tlevel(solved)
  BY <1>3, FixKeepsSteps
<1> QED BY <1>3, <1>4 DEF h, solved

\* After a step of the flow every process is told of it.
LEMMA WaterStepPreserves ==
  ASSUME CplInv, NEW mult \in Adaptive, WaterStep(mult)
  PROVE  CplInv' /\ FirstPass' /\ VelocityTold' /\ \A p \in ToSet(Processes) : gov'[p] = gov[p]
<1>1. CplTypeOK /\ input \in Inputs
  BY DEF CplInv, CplTypeOK
<1>2. Processes' = Processes /\ Equations' = Equations
  BY DEF WaterStep, Processes, Equations
<1> DEFINE h == fix_dt_until_mark(cfg_of(Water), Marks(Water), water_solved(gov[Water], mult))
<1>3. gov' = [gov EXCEPT ![Water] = h]
  BY DEF WaterStep
<1>4. IsGovernor(gov[Water]) /\ ~ is_end(cfg_of(Water), gov[Water])
  BY <1>1, OfInput DEF CplTypeOK, WaterStep, ended
<1>5. IsGovernor(h) /\ tlevel(h) = tlevel(gov[Water]) + 1
  BY <1>4, WaterSolvedSteps
<1> HIDE DEF h
<1>6. gov' = [e \in Equations |-> gov'[e]] /\ gov'[Water] = h
      /\ \A e \in Equations : e # Water => gov'[e] = gov[e]
  BY <1>1, <1>3, OfInput DEF CplTypeOK
<1>7. \A e \in Equations : IsGovernor(gov'[e])
  BY <1>1, <1>5, <1>6 DEF CplTypeOK
<1>8. velocity_changed' \in [ToSet(Processes) -> BOOLEAN]
      /\ \A p \in ToSet(Processes) : velocity_changed'[p]
  BY DEF WaterStep, tell_velocity
<1>9. pc' \in ToSet(Processes) /\ is_end_all' = FALSE
  BY <1>1, OfInput DEF WaterStep
<1>10. CplTypeOK'
  BY <1>1, <1>2, <1>6, <1>7, <1>8, <1>9 DEF CplTypeOK, WaterStep
<1>11. EndsSeen'
  BY <1>9 DEF EndsSeen
<1>12. tlevel(gov'[Water]) \in Nat /\ tlevel(gov'[Water]) > 0
  BY <1>4, <1>5, <1>6 DEF IsGovernor
<1>13. FirstPass'
  BY <1>12 DEF FirstPass
<1>14. VelocityTold'
  BY <1>2, <1>8 DEF VelocityTold
<1> QED BY <1>1, <1>6, <1>10, <1>11, <1>13, <1>14, OfInput DEF CplInv

\* When the flow waits
LEMMA WaterWaitsPreserves ==
  ASSUME CplInv, WaterWaits
  PROVE  CplInv'
<1>1. CplTypeOK /\ input \in Inputs
  BY DEF CplInv, CplTypeOK
<1>2. Processes' = Processes /\ Equations' = Equations /\ gov' = gov /\ input' = input
  BY DEF WaterWaits, Processes, Equations
<1>3. pc' = Processes[1] /\ Processes[1] \in ToSet(Processes) /\ 1 \in DOMAIN Processes
  BY <1>1, OfInput DEF WaterWaits
<1>4. is_end_all' = (is_end_all /\ ended(Water))
  BY DEF WaterWaits
<1>5. is_end_all' \in BOOLEAN /\ (is_end_all' => ended(Water))
  BY <1>1, <1>4 DEF CplTypeOK
<1>6. CplTypeOK'
  BY <1>1, <1>2, <1>3, <1>5 DEF CplTypeOK, WaterWaits
<1>7. ended(Water)' <=> ended(Water)
  BY <1>2 DEF ended, cfg_of
<1>8. \A i \in DOMAIN Processes : pc' = Processes[i] => i = 1
  BY <1>1, <1>3, OfInput
<1>9. EndsSeen'
  <2>1. pc' # "plan"
    BY <1>1, <1>3, OfInput
  <2>2. ASSUME NEW i \in DOMAIN Processes, pc' = Processes[i], is_end_all'
        PROVE  ended(Water)' /\ \A j \in 1 .. (i - 1) : ended(Processes[j])'
    BY <1>5, <1>7, <1>8, <2>2
  <2> QED BY <1>2, <2>1, <2>2 DEF EndsSeen
<1> QED BY <1>6, <1>9 DEF CplInv

\* The flow does not wait in the first pass.
LEMMA WaterWaitsPreservesVelocity ==
  ASSUME CplVelocityInv, WaterWaits
  PROVE  FirstPass' /\ VelocityTold'
<1>1. CplTypeOK /\ input \in Inputs /\ FirstPass /\ VelocityTold
  BY DEF CplVelocityInv, CplInv, CplTypeOK
<1>2. Processes' = Processes /\ gov' = gov
  BY DEF WaterWaits, Processes
<1>3. VelocityTold'
  BY <1>1, <1>2 DEF VelocityTold, WaterWaits
<1>4. ASSUME tlevel(gov[Water]) = 0 PROVE FALSE
  <2> DEFINE S == {velocity_time[p] : p \in running} \cup {2 * Inf}
  <2>1. /\ ~ ended(Water) /\ t(gov[Water]) \in Nat /\ 2 * t(gov[Water]) < Inf
        /\ \A p \in running : velocity_time[p] \in Nat /\ 2 * t(gov[Water]) < velocity_time[p]
    BY <1>1, <1>4 DEF FirstPass, WaterWaits
  <2>2. S \subseteq Nat /\ S # {} /\ \A x \in S : 2 * t(gov[Water]) < x
    BY <2>1, InfAssumption
  <2>3. \E x \in S : \A y \in S : x <= y
    BY <2>2, LeastTime
  <2>4. min_velocity_time \in S
    BY <2>3 DEF min_velocity_time, Min
  <2>5. 2 * t(gov[Water]) >= min_velocity_time
    BY <2>1 DEF WaterWaits
  <2> HIDE DEF S
  <2> QED BY <2>1, <2>2, <2>4, <2>5
<1> QED BY <1>2, <1>3, <1>4 DEF FirstPass

\* The equation behind process i
LEMMA AfterProcess ==
  ASSUME input \in Inputs, NEW i \in DOMAIN Processes
  PROVE  /\ after(i) \in {"plan"} \cup ToSet(Processes)
         /\ after(i) = "plan" => i = Len(Processes)
         /\ \A k \in DOMAIN Processes : after(i) = Processes[k] => k = i + 1
<1>1. CASE i < Len(Processes)
  <2>1. after(i) = Processes[i + 1] /\ i + 1 \in DOMAIN Processes
    BY <1>1, OfInput DEF after
  <2> QED BY <2>1, OfInput
<1>2. CASE ~ (i < Len(Processes))
  <2>1. after(i) = "plan" /\ i = Len(Processes)
    BY <1>2, OfInput DEF after
  <2> QED BY <2>1, OfInput
<1> QED BY <1>1, <1>2

\* A step of a process keeps the invariant, and is made with the newest velocity.
LEMMA AdvectionPreserves ==
  ASSUME CplInv, NEW i \in DOMAIN Processes, AdvectionStep(i)
  PROVE  /\ CplInv' /\ gov'[Water] = gov[Water]
         /\ \A p \in ToSet(Processes) : p # Processes[i] =>
              gov'[p] = gov[p] /\ velocity'[p] = velocity[p]
                /\ velocity_changed'[p] = velocity_changed[p]
<1>1. CplTypeOK /\ input \in Inputs
  BY DEF CplInv, CplTypeOK
<1>2. Processes' = Processes /\ Equations' = Equations
  BY DEF AdvectionStep, Processes, Equations
<1> DEFINE p == Processes[i]
           h == next_time(cfg_of(p), Marks(p), gov[p])
<1>3. p \in Equations /\ p \in ToSet(Processes) /\ p # Water
  BY <1>1, OfInput
<1>4. IsGovernor(gov[p]) /\ ~ is_end(cfg_of(p), gov[p])
  BY <1>1, <1>3 DEF CplTypeOK, AdvectionStep, ended
<1>5. IsGovernor(h)
  BY <1>4, NextTimeSteps
<1>6. pc' = after(i) /\ is_end_all' = FALSE
  BY DEF AdvectionStep
<1>7. pc' \in {"plan", "water"} \cup ToSet(Processes)
  BY <1>1, <1>6, AfterProcess
<1>8. EndsSeen'
  BY <1>6 DEF EndsSeen
<1>9. CASE 2 * t(gov[p]) <= velocity_time[p]
  <2>1. gov' = [gov EXCEPT ![p] = h]
    BY <1>9 DEF AdvectionStep
  <2>2. velocity' = [velocity EXCEPT ![p] = IF velocity_changed[p] THEN t(gov[Water]) ELSE @]
        /\ velocity_changed' = [velocity_changed EXCEPT ![p] = FALSE]
    BY <1>9 DEF AdvectionStep
  <2> HIDE DEF h
  <2>3. gov' = [e \in Equations |-> gov'[e]] /\ gov'[p] = h
        /\ \A e \in Equations : e # p => gov'[e] = gov[e]
    BY <1>1, <1>3, <2>1 DEF CplTypeOK
  <2>4. \A e \in Equations : IsGovernor(gov'[e])
    BY <1>1, <1>5, <2>3 DEF CplTypeOK
  <2>5. /\ velocity' = [q \in ToSet(Processes) |-> velocity'[q]]
        /\ velocity_changed' \in [ToSet(Processes) -> BOOLEAN]
        /\ \A q \in ToSet(Processes) : q # p =>
             velocity'[q] = velocity[q] /\ velocity_changed'[q] = velocity_changed[q]
    BY <1>1, <1>3, <2>2 DEF CplTypeOK
  <2>6. CplTypeOK'
    BY <1>1, <1>2, <1>6, <1>7, <2>3, <2>4, <2>5 DEF CplTypeOK, AdvectionStep
  <2>7. \A q \in ToSet(Processes) : q \in Equations
    BY <1>1, OfInput
  <2> QED BY <1>1, <1>3, <1>8, <2>3, <2>5, <2>6, <2>7, OfInput DEF CplInv
<1>10. CASE ~ (2 * t(gov[p]) <= velocity_time[p])
  <2>1. UNCHANGED <<velocity, velocity_changed, gov>>
    BY <1>10 DEF AdvectionStep
  <2>2. CplTypeOK'
    BY <1>1, <1>2, <1>6, <1>7, <2>1 DEF CplTypeOK, AdvectionStep
  <2> QED BY <1>8, <2>1, <2>2 DEF CplInv
<1> QED BY <1>9, <1>10

\* What one step of the processes may claim of the velocity
StepClaim(p) == stepped(p) => velocity'[p] = t(gov[Water]) /\ tlevel(gov[Water]) > 0

\* No governor makes a step when its steps are left alone.
LEMMA NotStepped ==
  ASSUME NEW p, IsGovernor(gov[p]), tlevel(gov'[p]) = tlevel(gov[p])
  PROVE  StepClaim(p)
BY DEF StepClaim, stepped, IsGovernor

\* A process takes the velocity over unless it has the newest one.
LEMMA AdvectionPreservesVelocity ==
  ASSUME CplVelocityInv, NEW i \in DOMAIN Processes, AdvectionStep(i)
  PROVE  FirstPass' /\ VelocityTold' /\ \A p \in ToSet(Processes) : StepClaim(p)
<1>1. CplInv /\ CplTypeOK /\ input \in Inputs /\ FirstPass /\ VelocityTold
  BY DEF CplVelocityInv, CplInv, CplTypeOK
<1>2. Processes' = Processes
  BY DEF AdvectionStep, Processes
<1> DEFINE p == Processes[i]
<1>3. p \in ToSet(Processes) /\ p \in Equations /\ Water \in Equations
      /\ p # "plan" /\ p # "water" /\ pc = p
  BY <1>1, OfInput DEF AdvectionStep, Water
<1>4. tlevel(gov[Water]) \in Nat /\ tlevel(gov[Water]) > 0
  <2>1. tlevel(gov[Water]) # 0
    BY <1>1, <1>3 DEF FirstPass
  <2>2. tlevel(gov[Water]) \in Nat
    BY <1>1, <1>3 DEF CplTypeOK, IsGovernor
  <2> QED BY <2>1, <2>2
<1>5. /\ gov'[Water] = gov[Water]
      /\ \A q \in ToSet(Processes) : q # p =>
           gov'[q] = gov[q] /\ velocity'[q] = velocity[q]
             /\ velocity_changed'[q] = velocity_changed[q]
  BY <1>1, AdvectionPreserves
<1>6. \A q \in ToSet(Processes) : IsGovernor(gov[q])
  BY <1>1, OfInput DEF CplTypeOK
<1>7. \A q \in ToSet(Processes) : q # p => StepClaim(q)
  BY <1>5, <1>6, NotStepped
<1>8. FirstPass'
  BY <1>4, <1>5 DEF FirstPass
<1>9. \/ velocity'[p] = t(gov[Water])
      \/ /\ velocity'[p] = velocity[p] /\ velocity_changed'[p] = velocity_changed[p]
         /\ gov'[p] = gov[p]
  <2>1. CASE 2 * t(gov[p]) <= velocity_time[p]
    <3>1. velocity' = [velocity EXCEPT ![p] = IF velocity_changed[p] THEN t(gov[Water]) ELSE @]
      BY <2>1 DEF AdvectionStep
    <3>2. velocity_changed[p] \/ velocity[p] = t(gov[Water])
      BY <1>1, <1>3, <1>4 DEF VelocityTold
    <3> QED BY <1>1, <1>3, <3>1, <3>2 DEF CplTypeOK
  <2>2. CASE ~ (2 * t(gov[p]) <= velocity_time[p])
    BY <2>2 DEF AdvectionStep
  <2> QED BY <2>1, <2>2
<1>10. StepClaim(p)
  BY <1>3, <1>4, <1>6, <1>9, NotStepped DEF StepClaim
<1>11. VelocityTold'
  <2>1. ASSUME NEW q \in ToSet(Processes)
        PROVE  velocity_changed'[q] \/ velocity'[q] = t(gov[Water])
    <3>1. velocity_changed[q] \/ velocity[q] = t(gov[Water])
      BY <1>1, <1>4 DEF VelocityTold
    <3> QED BY <1>5, <1>9, <3>1
  <2> QED BY <1>2, <1>5, <2>1 DEF VelocityTold
<1> QED BY <1>7, <1>8, <1>10, <1>11

\* A process that has ended is passed by.
LEMMA AdvectionEndedPreserves ==
  ASSUME CplInv, NEW i \in DOMAIN Processes, AdvectionEnded(i)
  PROVE  CplInv' /\ (FirstPass /\ VelocityTold => FirstPass' /\ VelocityTold')
<1>1. CplTypeOK /\ EndsSeen /\ input \in Inputs
  BY DEF CplInv, CplTypeOK
<1>2. /\ input' = input /\ gov' = gov /\ velocity' = velocity /\ is_end_all' = is_end_all
      /\ velocity_changed' = velocity_changed /\ velocity_time' = velocity_time
      /\ Processes' = Processes /\ Equations' = Equations
  BY DEF AdvectionEnded, Processes, Equations
<1>3. pc = Processes[i] /\ ended(Processes[i]) /\ pc' = after(i)
  BY DEF AdvectionEnded
<1>4. CplTypeOK'
  BY <1>1, <1>2, <1>3, AfterProcess DEF CplTypeOK
<1>5. \A e : ended(e)' <=> ended(e)
  BY <1>2 DEF ended, cfg_of
<1>6. is_end_all => ended(Water) /\ \A j \in 1 .. i : ended(Processes[j])
  <2>1. i \in Nat
    BY <1>1, OfInput
  <2> QED BY <1>1, <1>3, <2>1 DEF EndsSeen
<1>7. EndsSeen'
  <2>1. ASSUME pc' = "plan", is_end_all PROVE \A e \in Equations : ended(e)
    <3>1. i = Len(Processes)
      BY <1>1, <1>3, <2>1, AfterProcess
    <3>2. \A j \in DOMAIN Processes : ended(Processes[j])
      BY <1>1, <1>6, <2>1, <3>1, OfInput
    <3>3. \A e \in Equations : e = Water \/ \E j \in DOMAIN Processes : e = Processes[j]
      BY <1>1, OfInput DEF Equations
    <3> QED BY <1>6, <2>1, <3>2, <3>3
  <2>2. ASSUME NEW k \in DOMAIN Processes, pc' = Processes[k], is_end_all
        PROVE  ended(Water) /\ \A j \in 1 .. (k - 1) : ended(Processes[j])
    <3>0. after(i) = Processes[k]
      BY <1>3, <2>2
    <3>1. k = i + 1
      BY <1>1, <3>0, AfterProcess
    <3>2. i \in Nat
      BY <1>1, OfInput
    <3> QED BY <1>6, <2>2, <3>1, <3>2
  <2> QED BY <1>2, <1>5, <2>1, <2>2 DEF EndsSeen
<1>8. FirstPass /\ VelocityTold => FirstPass' /\ VelocityTold'
  <2>1. Processes[i] # "plan" /\ Processes[i] # "water"
    BY <1>1, OfInput DEF Water
  <2>2. FirstPass => tlevel(gov[Water]) # 0
    BY <1>3, <2>1 DEF FirstPass
  <2> QED BY <1>2, <2>2 DEF FirstPass, VelocityTold
<1> QED BY <1>4, <1>7, <1>8 DEF CplInv

\* Nothing changes after the loop and between its steps.
LEMMA CplStutter ==
  ASSUME CplInv, UNCHANGED cpl_vars
  PROVE  CplInv' /\ (FirstPass /\ VelocityTold => FirstPass' /\ VelocityTold')
<1> USE DEF cpl_vars
<1>1. Processes' = Processes /\ Equations' = Equations /\ running' = running
  BY DEF Processes, Equations, running, ended, cfg_of
<1>2. \A e : (ended(e)' <=> ended(e)) /\ initial_governor(e)' = initial_governor(e)
  BY DEF ended, cfg_of, initial_governor
<1>3. CplTypeOK'
  BY <1>1 DEF CplInv, CplTypeOK
<1>4. EndsSeen'
  BY <1>1, <1>2 DEF CplInv, EndsSeen
<1>5. FirstPass /\ VelocityTold => FirstPass' /\ VelocityTold'
  BY <1>1, <1>2 DEF FirstPass, VelocityTold
<1> QED BY <1>3, <1>4, <1>5 DEF CplInv

---------------------------------------------------------------------------

\* Types, and what is_end_all_ says, in every state of the loop.
THEOREM CouplingLoop == CplSpec => []CplInv
<1>1. CplInit => CplInv
  BY CplInitial DEF CplVelocityInv
<1>2. CplInv /\ [CplNext]_cpl_vars => CplInv'
  <2> SUFFICES ASSUME CplInv, [CplNext]_cpl_vars PROVE CplInv'
    OBVIOUS
  <2>1. CASE Plan
    BY <2>1, PlanPreserves
  <2>2. CASE \E mult \in Adaptive : WaterStep(mult)
    BY <2>2, WaterStepPreserves
  <2>3. CASE WaterWaits
    BY <2>3, WaterWaitsPreserves
  <2>4. CASE \E i \in DOMAIN Processes : AdvectionStep(i)
    BY <2>4, AdvectionPreserves
  <2>5. CASE \E i \in DOMAIN Processes : AdvectionEnded(i)
    BY <2>5, AdvectionEndedPreserves
  <2>6. CASE Done \/ UNCHANGED cpl_vars
    BY <2>6, CplStutter DEF Done
  <2> QED BY <2>1, <2>2, <2>3, <2>4, <2>5, <2>6 DEF CplNext
<1> QED BY <1>1, <1>2, PTL DEF CplSpec

\* run_simulation() leaves its loop only when the flow and every process have reached their
\* ends, though is_end_all_ is computed piecewise by three functions.
THEOREM LoopLeftAtEnds ==
  CplSpec => [](pc = "plan" /\ is_end_all => \A e \in Equations : ended(e))
<1>1. CplInv => (pc = "plan" /\ is_end_all => \A e \in Equations : ended(e))
  BY DEF CplInv, EndsSeen
<1> QED BY <1>1, CouplingLoop, PTL

\* A step of the loop keeps the velocities, and a process that is stepped uses the newest one.
LEMMA CplStep ==
  ASSUME CplVelocityInv, FlowStartsFirst, [CplNext]_cpl_vars
  PROVE  CplVelocityInv' /\ \A p \in ToSet(Processes) : StepClaim(p)
<1>1. CplInv /\ CplTypeOK /\ input \in Inputs /\ FirstPass /\ VelocityTold
  BY DEF CplVelocityInv, CplInv, CplTypeOK
<1>2. \A p \in ToSet(Processes) : p \in Equations /\ IsGovernor(gov[p])
  BY <1>1, OfInput DEF CplTypeOK
<1>3. (\A p \in ToSet(Processes) : tlevel(gov'[p]) = tlevel(gov[p])) =>
        \A p \in ToSet(Processes) : StepClaim(p)
  BY <1>2, NotStepped
<1>4. CASE Plan
  <2>1. CplInv' /\ FirstPass' /\ VelocityTold'
    BY <1>1, <1>4, PlanPreserves, PlanPreservesVelocity
  <2>2. \A p \in ToSet(Processes) : tlevel(gov'[p]) = tlevel(gov[p])
    BY <1>1, <1>2, <1>4, PlanKeepsTimes
  <2> QED BY <1>3, <2>1, <2>2 DEF CplVelocityInv
<1>5. CASE \E mult \in Adaptive : WaterStep(mult)
  <2>1. CplInv' /\ FirstPass' /\ VelocityTold' /\ \A p \in ToSet(Processes) : gov'[p] = gov[p]
    BY <1>1, <1>5, WaterStepPreserves
  <2> QED BY <1>3, <2>1 DEF CplVelocityInv
<1>6. CASE WaterWaits
  <2>1. CplInv' /\ FirstPass' /\ VelocityTold'
    BY <1>1, <1>6, WaterWaitsPreserves, WaterWaitsPreservesVelocity
  <2>2. \A p \in ToSet(Processes) : tlevel(gov'[p]) = tlevel(gov[p])
    BY <1>6 DEF WaterWaits
  <2> QED BY <1>3, <2>1, <2>2 DEF CplVelocityInv
<1>7. CASE \E i \in DOMAIN Processes : AdvectionStep(i)
  BY <1>1, <1>7, AdvectionPreserves, AdvectionPreservesVelocity DEF CplVelocityInv
<1>8. CASE \E i \in DOMAIN Processes : AdvectionEnded(i)
  <2>1. CplInv' /\ FirstPass' /\ VelocityTold'
    BY <1>1, <1>8, AdvectionEndedPreserves
  <2>2. \A p \in ToSet(Processes) : tlevel(gov'[p]) = tlevel(gov[p])
    BY <1>8 DEF AdvectionEnded
  <2> QED BY <1>3, <2>1, <2>2 DEF CplVelocityInv
<1>9. CASE Done \/ UNCHANGED cpl_vars
  <2>1. UNCHANGED cpl_vars
    BY <1>9 DEF Done
  <2>2. CplInv' /\ FirstPass' /\ VelocityTold'
    BY <1>1, <2>1, CplStutter
  <2>3. \A p \in ToSet(Processes) : tlevel(gov'[p]) = tlevel(gov[p])
    BY <2>1 DEF cpl_vars
  <2> QED BY <1>3, <2>2, <2>3 DEF CplVelocityInv
<1> QED BY <1>4, <1>5, <1>6, <1>7, <1>8, <1>9 DEF CplNext

\* advection_process_step(): if the flow starts first, every step of a process is computed with
\* the newest flow solution, and none without one.
THEOREM NewestVelocity == FlowStartsFirst /\ CplSpec => NewestVelocityUsed
<1>1. FlowStartsFirst /\ CplInit => CplVelocityInv
  BY CplInitial
<1>2. CplVelocityInv /\ FlowStartsFirst /\ [CplNext]_cpl_vars =>
        CplVelocityInv' /\ [\A p \in ToSet(Processes) : stepped(p) =>
                             velocity'[p] = t(gov[Water]) /\ tlevel(gov[Water]) > 0]_cpl_vars
  BY CplStep DEF StepClaim
<1>3. FlowStartsFirst => []FlowStartsFirst
  <2>1. FlowStartsFirst => FlowStartsFirst'
    BY DEF FlowStartsFirst
  <2> QED BY <2>1, PTL
<1> QED BY <1>1, <1>2, <1>3, PTL DEF CplSpec, NewestVelocityUsed
=============================================================================
