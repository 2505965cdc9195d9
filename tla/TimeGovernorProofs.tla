------------------------- MODULE TimeGovernorProofs -------------------------
(***************************************************************************)
(* Proofs about TimeGovernor for every start and end time, table of        *)
(* limits, set of marks, targets and constraints.                          *)
(***************************************************************************)
EXTENDS TimeGovernor, GovernorLemmas

\* A fixed interval is the one that was chosen last: it ends in the chosen mark and its step
\* obeys the chosen constraints.
FixedAsChosen ==
  t(tg) < End /\ in_fixed_interval(tg) =>
    /\ tg.end_of_fixed_dt_interval = chosen.mark
    /\ tg.fixed_time_step <= Larger(chosen.upper, chosen.lower)
    /\ \/ 2 * tg.fixed_time_step > chosen.lower
       \/ tg.fixed_time_step = tg.end_of_fixed_dt_interval - t(tg)

\* The inductive invariant: the governor stays within its table and its marks, keeps the
\* length of a fixed step and the flag right, and its fixed interval is the chosen one.
GovernorInv ==
  /\ GovernorOK(marks, tg) /\ LengthOK(tg) /\ FlagOK(tg)
  /\ chosen \in [upper : Nat, lower : Nat, mark : Time]
  /\ FixedAsChosen

\* What every step does: it keeps the invariant, it meets the marks, and a new step obeys the
\* constraints its length was chosen under.
ObeysChoice ==
  tlevel(tg') > tlevel(tg) =>
    /\ dt(tg') <= Larger(chosen'.upper, chosen'.lower)
    /\ 2 * dt(tg') > chosen'.lower \/ t(tg') = chosen'.mark

---------------------------------------------------------------------------
\* A governor made from the input record satisfies the invariant at the start time.
LEMMA InitInv == Init => GovernorInv /\ t(tg) = Start
<1> SUFFICES ASSUME Init PROVE GovernorInv /\ t(tg) = Start
  OBVIOUS
<1>1. PICK pos \in 1 .. (Len(Table) - 1) : tg = input_governor(Cfg, pos, InitDt, Second)
  BY DEF Init
<1>2. /\ marks \subseteq Nat /\ End \in marks /\ \A m \in marks : m < Inf
  <2>1. marks = ({Start, End} \ {Inf}) \cup Prescribed
    BY DEF Init, init_marks, Cfg
  <2>2. Prescribed \subseteq Nat /\ \A m \in Prescribed : m < Inf
    BY TimesAssumption
  <2> QED BY <2>1, <2>2, Times
<1>3. /\ GovernorOK(marks, tg) /\ LengthOK(tg) /\ FlagOK(tg)
      /\ t(tg) = Start /\ ~ in_fixed_interval(tg)
  BY <1>1, <1>2, InitialGovernor
<1>4. chosen \in [upper : Nat, lower : Nat, mark : Time]
  BY Times DEF Init, Time
<1> QED BY <1>3, <1>4 DEF GovernorInv, FixedAsChosen

\* A step that changes constraints only.
LEMMA ConstraintStep ==
  ASSUME GovernorInv, UNCHANGED <<marks, chosen>>, t(tg') = t(tg), tlevel(tg') = tlevel(tg),
         SteadyOK(marks, tg'), FixedOK(marks, tg'), LengthOK(tg'), FlagOK(tg'),
         tg'.end_of_fixed_dt_interval = tg.end_of_fixed_dt_interval,
         tg'.fixed_time_step = tg.fixed_time_step
  PROVE  GovernorInv'
<1>1. GovernorOK(marks, tg')
  BY DEF GovernorOK
<1>2. GovernorOK(marks', tg')
  BY <1>1
<1>3. FixedAsChosen'
  BY DEF GovernorInv, FixedAsChosen, in_fixed_interval
<1>4. LengthOK(tg') /\ FlagOK(tg') /\ chosen' \in [upper : Nat, lower : Nat, mark : Time]
  BY DEF GovernorInv
<1> QED BY <1>2, <1>3, <1>4 DEF GovernorInv

\* A step that fixes the length of g for the marks marks'.
LEMMA FixStep ==
  ASSUME GovernorInv, NEW g, SteadyOK(marks', g), FlagOK(g), t(g) = t(tg),
         tlevel(g) = tlevel(tg),
         t(g) < End => full_step(marks', g) % n_steps(marks', g) = 0,
         tg' = fix_dt_until_mark(Cfg, marks', g), chosen' = by_constraints(marks', g)
  PROVE  GovernorInv' /\ t(tg') = t(tg) /\ tlevel(tg') = tlevel(tg)
<1>1. /\ GovernorOK(marks', tg') /\ LengthOK(tg') /\ FlagOK(tg')
      /\ t(tg') = t(g) /\ tlevel(tg') = tlevel(g)
      /\ tg'.end_of_fixed_dt_interval = next_fixed(marks', g)
      /\ tg'.end_of_fixed_dt_interval \in Time
      /\ t(g) < End =>
           /\ tg'.fixed_time_step <= Larger(g.upper_constraint, g.lower_constraint)
           /\ \/ 2 * tg'.fixed_time_step > g.lower_constraint
              \/ tg'.fixed_time_step = tg'.end_of_fixed_dt_interval - t(tg')
  BY FixKeeps
<1>2. g.upper_constraint \in Nat /\ g.lower_constraint \in Nat
  BY DEF SteadyOK, WellFormed, Governor
<1>3. /\ chosen' \in [upper : Nat, lower : Nat, mark : Time]
      /\ chosen'.upper = g.upper_constraint /\ chosen'.lower = g.lower_constraint
      /\ chosen'.mark = next_fixed(marks', g)
  BY <1>1, <1>2 DEF by_constraints
<1>4. FixedAsChosen'
  BY <1>1, <1>3 DEF FixedAsChosen
<1> QED BY <1>1, <1>3, <1>4 DEF GovernorInv

\* Every step keeps the invariant.
LEMMA NextInv ==
  ASSUME GovernorInv, [Next]_vars
  PROVE  /\ GovernorInv' /\ ObeysChoice
         /\ \/ t(tg') = t(tg)
            \/ /\ NextTime /\ t(tg) < End /\ marks' = marks /\ t(tg) < t(tg')
               /\ \A m \in marks : t(tg) < m => t(tg') <= m
<1> DEFINE Kept == GovernorInv' /\ t(tg') = t(tg) /\ tlevel(tg') = tlevel(tg)
<1>1. /\ GovernorOK(marks, tg) /\ SteadyOK(marks, tg) /\ FixedOK(marks, tg)
      /\ LengthOK(tg) /\ FlagOK(tg) /\ tg \in Governor
      /\ t(tg) \in Nat /\ marks \subseteq Nat /\ End \in marks /\ \A m \in marks : m < Inf
  BY DEF GovernorInv, GovernorOK, SteadyOK, WellFormed, TimeOK
<1>2. tlevel(tg) \in Nat
  <2>1. step(tg) \in TimeStep
    BY <1>1 DEF step, GovernorOK, SteadyOK, WellFormed, Governor, RecentSize
  <2> QED BY <2>1 DEF tlevel, TimeStep
<1>3. ASSUME NEW u \in Uppers, SetUpperConstraint(u) PROVE Kept
  <2>1. u \in 1 .. Inf
    BY TimesAssumption, InfAssumption
  <2>2. /\ SteadyOK(marks, tg') /\ t(tg') = t(tg) /\ tlevel(tg') = tlevel(tg)
        /\ FixedOK(marks, tg') /\ LengthOK(tg') /\ FlagOK(tg')
        /\ tg' = [tg EXCEPT !.upper_constraint = tg'.upper_constraint]
    BY <1>1, <1>3, <2>1, SetUpperKeeps DEF SetUpperConstraint
  <2>3. /\ tg'.end_of_fixed_dt_interval = tg.end_of_fixed_dt_interval
        /\ tg'.fixed_time_step = tg.fixed_time_step
    BY <1>1, <2>2 DEF Governor
  <2> QED BY <1>3, <2>2, <2>3, ConstraintStep DEF SetUpperConstraint
<1>4. ASSUME NEW l \in Lowers, SetLowerConstraint(l) PROVE Kept
  <2>1. l \in 1 .. (Inf - 1)
    BY TimesAssumption
  <2>2. /\ SteadyOK(marks, tg') /\ t(tg') = t(tg) /\ tlevel(tg') = tlevel(tg)
        /\ FixedOK(marks, tg') /\ LengthOK(tg') /\ FlagOK(tg')
        /\ tg' = [tg EXCEPT !.lower_constraint = tg'.lower_constraint]
    BY <1>1, <1>4, <2>1, SetLowerKeeps DEF SetLowerConstraint
  <2>3. /\ tg'.end_of_fixed_dt_interval = tg.end_of_fixed_dt_interval
        /\ tg'.fixed_time_step = tg.fixed_time_step
    BY <1>1, <2>2 DEF Governor
  <2> QED BY <1>4, <2>2, <2>3, ConstraintStep DEF SetLowerConstraint
<1>5. ASSUME FixDtUntilMark PROVE Kept
  <2>1. /\ marks' = marks /\ tg' = fix_dt_until_mark(Cfg, marks', tg)
        /\ chosen' = by_constraints(marks', tg)
    BY <1>5 DEF FixDtUntilMark
  <2>2. t(tg) < End => full_step(marks', tg) % n_steps(marks', tg) = 0
    <3>1. t(tg) < End => ~ is_end(Cfg, tg)
      BY <1>1, Times DEF is_end, Cfg
    <3> QED BY <1>5, <2>1, <3>1 DEF FixDtUntilMark, whole_full_step
  <2>3. SteadyOK(marks', tg)
    BY <1>1, <2>1
  <2> QED BY <1>1, <2>1, <2>2, <2>3, FixStep
<1>6. ASSUME NEW x \in Targets, NEW u \in Uppers \cup {Inf}, SetTargetTime(x, u) PROVE Kept
  <2> DEFINE g == set_upper_constraint(u, tg)
  <2>1. u \in 1 .. Inf
    BY TimesAssumption, InfAssumption
  <2>2. SteadyOK(marks, g) /\ FlagOK(g) /\ t(g) = t(tg) /\ tlevel(g) = tlevel(tg)
    BY <1>1, <2>1, SetUpperKeeps
  <2>3. /\ marks' = marks \cup {x} /\ tg' = fix_dt_until_mark(Cfg, marks', g)
        /\ chosen' = by_constraints(marks', g)
        /\ full_step(marks', g) % n_steps(marks', g) = 0
    BY <1>6 DEF SetTargetTime
  <2>4. x \in Nat /\ x < Inf
    BY TimesAssumption
  <2> HIDE DEF g
  <2>5. SteadyOK(marks', g)
    BY <1>1, <2>2, <2>3, <2>4 DEF SteadyOK, TimeOK
  <2> QED BY <2>2, <2>3, <2>5, FixStep
<1>7. ASSUME NextTime
      PROVE  /\ GovernorInv' /\ ObeysChoice
             /\ t(tg) < End /\ marks' = marks /\ t(tg) < t(tg')
             /\ \A m \in marks : t(tg) < m => t(tg') <= m
  <2>1. t(tg) < End
    BY <1>1, <1>7, Times DEF NextTime, is_end, Cfg
  <2>2. /\ tg' = next_time(Cfg, marks, tg) /\ marks' = marks
        /\ chosen' = IF in_fixed_interval(tg) THEN chosen ELSE by_constraints(marks, tg)
        /\ whole_ticks
    BY <1>7 DEF NextTime
  <2>3. /\ GovernorOK(marks, tg') /\ LengthOK(tg') /\ FlagOK(tg')
        /\ t(tg') \in Nat /\ t(tg) < t(tg') /\ t(tg') <= End
        /\ \A m \in marks : t(tg) < m => t(tg') <= m
        /\ dt(tg') \in Nat /\ dt(tg') >= 1 /\ t(tg') = t(tg) + dt(tg')
        /\ dt(tg') = NewLength(marks, tg)
        /\ in_fixed_interval(tg) =>
             dt(tg') = tg.fixed_time_step /\ tg'.fixed_time_step = tg.fixed_time_step
        /\ tg'.end_of_fixed_dt_interval = tg.end_of_fixed_dt_interval
    BY <1>1, <2>1, <2>2, NextTimeKeeps
  <2>4. GovernorOK(marks', tg')
    BY <2>2, <2>3
  <2> DEFINE e == tg.end_of_fixed_dt_interval
             c == tg.fixed_time_step
             next == next_fixed(marks, tg)
  <2>5. e \in Int
    BY <1>1, Times DEF Governor, Time, NegInf
  <2>6. /\ chosen' \in [upper : Nat, lower : Nat, mark : Time]
        /\ FixedAsChosen'
        /\ dt(tg') <= Larger(chosen'.upper, chosen'.lower)
        /\ 2 * dt(tg') > chosen'.lower \/ t(tg') = chosen'.mark
    <3>1. CASE in_fixed_interval(tg)
      <4>1. chosen' = chosen /\ chosen \in [upper : Nat, lower : Nat, mark : Time]
        BY <2>2, <3>1 DEF GovernorInv
      <4>2. /\ e = chosen.mark /\ c <= Larger(chosen.upper, chosen.lower)
            /\ 2 * c > chosen.lower \/ c = e - t(tg)
        BY <2>1, <3>1 DEF GovernorInv, FixedAsChosen
      <4>3. dt(tg') = c /\ tg'.fixed_time_step = c /\ tg'.end_of_fixed_dt_interval = e
            /\ c \in Nat
        BY <2>3, <3>1
      <4> HIDE DEF e, c
      <4>4. c = e - t(tg) => t(tg') = e
        BY <1>1, <2>3, <2>5, <4>3
      <4>5. in_fixed_interval(tg') => t(tg') # e
        BY <2>3, <2>5, <4>3 DEF in_fixed_interval
      <4>6. FixedAsChosen'
        BY <4>1, <4>2, <4>3, <4>4, <4>5 DEF FixedAsChosen
      <4> QED BY <4>1, <4>2, <4>3, <4>4, <4>6
    <3>2. CASE ~ in_fixed_interval(tg)
      <4>1. NewLength(marks, tg) = estimate_dt(Cfg, marks, tg)
        BY <3>2 DEF NewLength
      <4>2. /\ tg.lower_constraint \in 1 .. (Inf - 1) /\ tg.upper_constraint \in 1 .. (Inf - 1)
            /\ full_step(marks, tg) % n_steps(marks, tg) = 0
        BY <1>1, <2>1, <2>2, <3>2 DEF SteadyOK, ConstraintOK, whole_ticks, whole_full_step
      <4>3. /\ dt(tg') <= Larger(tg.upper_constraint, tg.lower_constraint)
            /\ 2 * dt(tg') > tg.lower_constraint \/ dt(tg') = next - t(tg)
        BY <1>1, <2>1, <2>3, <3>2, <4>1, <4>2, EstimateObeys
      <4>4. /\ chosen'.upper = tg.upper_constraint /\ chosen'.lower = tg.lower_constraint
            /\ chosen'.mark = next
        BY <2>2, <3>2 DEF by_constraints
      <4>5. next \in marks
        BY <1>1, <2>1, NextFixed
      <4>6. next \in Nat /\ next < Inf
        BY <1>1, <4>5
      <4>7. chosen' \in [upper : Nat, lower : Nat, mark : Time]
        <5>1. tg.upper_constraint \in Nat /\ tg.lower_constraint \in Nat
          BY <1>1 DEF Governor
        <5>2. next \in Time
          BY <4>6, Times DEF Time
        <5> QED BY <2>2, <3>2, <5>1, <5>2 DEF by_constraints
      <4> HIDE DEF e, next
      <4>8. ~ in_fixed_interval(tg')
        <5>1. ~ (t(tg) < e) /\ tg'.end_of_fixed_dt_interval = e
          BY <2>3, <3>2 DEF in_fixed_interval, e
        <5>2. ~ (t(tg') < e)
          BY <1>1, <2>3, <2>5, <5>1
        <5> QED BY <5>1, <5>2 DEF in_fixed_interval
      <4>9. 2 * dt(tg') > chosen'.lower \/ t(tg') = chosen'.mark
        BY <1>1, <2>3, <4>3, <4>4, <4>6
      <4> QED BY <4>3, <4>4, <4>7, <4>8, <4>9 DEF FixedAsChosen
    <3> QED BY <3>1, <3>2
  <2>7. GovernorInv'
    BY <2>3, <2>4, <2>6 DEF GovernorInv
  <2> QED BY <2>1, <2>2, <2>3, <2>6, <2>7 DEF ObeysChoice
<1>8. ASSUME AtEnd \/ UNCHANGED vars PROVE Kept
  <2>1. tg' = tg /\ marks' = marks /\ chosen' = chosen
    BY <1>8 DEF AtEnd, next_time, vars
  <2> QED BY <1>1, <2>1, ConstraintStep
<1>9. Kept \/ NextTime
  BY <1>3, <1>4, <1>5, <1>6, <1>8 DEF Next
<1>10. CASE Kept
  BY <1>2, <1>10 DEF ObeysChoice
<1>11. CASE NextTime
  BY <1>7, <1>11
<1> QED BY <1>9, <1>10, <1>11

---------------------------------------------------------------------------
(* The theorems. *)

\* The invariant holds in every reachable state of the governor.
THEOREM GovernorInvariant == Spec => []GovernorInv
BY InitInv, NextInv, PTL DEF Spec

\* Every reachable governor is well typed: its buffer holds one to three steps and the
\* position in dt_limits_table_ never leaves the table by more than one.
THEOREM TypeCorrect == Spec => []TypeOK
<1>1. GovernorInv => TypeOK
  BY DEF GovernorInv, GovernorOK, SteadyOK, WellFormed, TimeOK, TypeOK
<1> QED BY <1>1, GovernorInvariant, PTL

\* next_time() never jumps over a fixed time mark, for every table of limits, every set of
\* marks and targets and every sequence of constraints.
THEOREM MarksAreMet == Spec => NoFixedMarkSkipped
<1>1. GovernorInv /\ [Next]_vars => [\A m \in marks : t(tg) < m => t(tg') <= m]_vars
  <2> SUFFICES ASSUME GovernorInv, [Next]_vars
               PROVE  \A m \in marks : t(tg) < m => t(tg') <= m
    OBVIOUS
  <2>1. t(tg) \in Nat /\ marks \subseteq Nat
    BY DEF GovernorInv, GovernorOK, SteadyOK, TimeOK
  <2> QED BY <2>1, NextInv
<1> QED BY <1>1, GovernorInvariant, PTL DEF Spec, NoFixedMarkSkipped

\* is_changed_dt() is right after every step, also inside a fixed interval, where next_time()
\* does not compare the lengths.
THEOREM FlagIsExact == Spec => []ChangedFlagExact
<1>1. GovernorInv => ChangedFlagExact
  BY DEF GovernorInv, FlagOK, ChangedFlagExact
<1> QED BY <1>1, GovernorInvariant, PTL

\* A step obeys the constraints its length was chosen under, however long ago that was
\* (estimate_dt, fix_dt_until_mark and next_time of time_governor.cc).
THEOREM ConstraintsObeyed == Spec => StepObeysConstraints
<1>1. GovernorInv /\ [Next]_vars => [ObeysChoice]_vars
  BY NextInv
<1> QED BY <1>1, GovernorInvariant, PTL DEF Spec, StepObeysConstraints, ObeysChoice

\* The governor implements the abstract time axis.
THEOREM AxisImplemented == Spec => ImplementsAxis
<1>1. Init => Axis!Init
  <2> SUFFICES ASSUME Init PROVE Axis!Init
    OBVIOUS
  <2>1. marks \subseteq Int /\ t(tg) = Start
    BY InitInv DEF GovernorInv, GovernorOK, SteadyOK, TimeOK
  <2> QED BY <2>1 DEF Axis!Init
<1>2. GovernorInv /\ [Next]_vars => [Axis!Next]_(Axis!vars)
  <2> SUFFICES ASSUME GovernorInv, [Next]_vars PROVE [Axis!Next]_(Axis!vars)
    OBVIOUS
  <2>1. t(tg) \in Nat /\ marks \subseteq Nat
    BY DEF GovernorInv, GovernorOK, SteadyOK, TimeOK
  <2>2. CASE /\ NextTime /\ t(tg) < End /\ marks' = marks /\ t(tg) < t(tg')
             /\ \A m \in marks : t(tg) < m => t(tg') <= m
    BY <2>1, <2>2 DEF Axis!Next, Axis!Step
  <2>3. CASE t(tg') = t(tg)
    <3>1. marks \subseteq marks' /\ \A m \in marks' \ marks : m \in Int /\ t(tg) < m
      <4>1. ASSUME NEW x \in Targets, NEW u \in Uppers \cup {Inf}, SetTargetTime(x, u)
            PROVE  marks' = marks \cup {x} /\ x \in Int /\ t(tg) < x
        <5>1. x \in Nat
          BY TimesAssumption
        <5> QED BY <4>1, <5>1 DEF SetTargetTime
      <4>2. CASE marks' = marks
        BY <4>2
      <4>3. ASSUME ~ \E x \in Targets, u \in Uppers \cup {Inf} : SetTargetTime(x, u)
            PROVE  marks' = marks
        BY <4>3 DEF Next, vars, SetUpperConstraint, SetLowerConstraint, FixDtUntilMark,
                    NextTime, AtEnd
      <4> QED BY <4>1, <4>2, <4>3
    <3> QED BY <2>1, <2>3, <3>1 DEF Axis!Next, Axis!Mark, Axis!vars
  <2> QED BY <2>2, <2>3, NextInv
<1> QED BY <1>1, <1>2, GovernorInvariant, PTL DEF Spec, ImplementsAxis, Axis!Spec

---------------------------------------------------------------------------
(* A step that is rejected and taken again: RetrySpec. *)

\* Back from the step that next_time() has made, the governor chooses as before that step.
LEMMA RevertAfterNext ==
  ASSUME NEW F, NEW g, GovernorOK(F, g), WholeOK(g), t(g) < End,
         NEW h, h = next_time(Cfg, F, g), t(h) < End, NEW r, r = revert_step(h)
  PROVE  /\ GovernorOK(F, r) /\ WholeOK(r) /\ t(r) = t(g) /\ tlevel(r) = tlevel(g)
         /\ NewLength(F, r) = NewLength(F, g)
         /\ Len(h.recent_steps) >= 2 /\ h.recent_steps[2].end = t(g)
<1> DEFINE s == g.recent_steps
           x == MakeNext(step(g), NewLength(F, g))
           p == PushFront(s, x)
           a == advance(Cfg, F, g)
           b == relax_constraints(Cfg, a)
<1>1. /\ g \in Governor /\ Len(s) \in 1 .. RecentSize /\ t(g) \in Nat /\ s \in Seq(TimeStep)
      /\ End \in F /\ F \subseteq Nat /\ \A m \in F : m < Inf
      /\ g.lower_constraint \in 1 .. (Inf - 1) /\ g.upper_constraint \in 1 .. (Inf - 1)
  BY DEF GovernorOK, SteadyOK, WellFormed, TimeOK, ConstraintOK, Governor
<1>2. /\ h \in Governor
      /\ Len(h.recent_steps) \in 1 .. RecentSize
      /\ h.end_of_fixed_dt_interval = g.end_of_fixed_dt_interval
      /\ h.min_time_step \in 1 .. (Inf - 1)
      /\ h.max_time_step \in 1 .. (Inf - 1)
      /\ h.dt_limits_pos \in 1 .. Len(Table)
      /\ in_fixed_interval(g) => h.fixed_time_step = g.fixed_time_step
  BY AfterNextTime, NextTimeMeets
<1>3. DOMAIN a = DOMAIN g /\ a.recent_steps = p /\ a.lower_constraint = g.lower_constraint
      /\ a.upper_constraint = g.upper_constraint
  BY <1>1 DEF advance, NewLength, Governor
<1> HIDE DEF a
<1>4. DOMAIN b = DOMAIN g /\ b.recent_steps = p /\ b.last_lower_constraint = g.lower_constraint
      /\ b.last_upper_constraint = g.upper_constraint
  BY <1>1, <1>3 DEF relax_constraints, Governor
<1>5. h.recent_steps = p /\ h.last_lower_constraint = g.lower_constraint
      /\ h.last_upper_constraint = g.upper_constraint
  <2>1. ~ is_end(Cfg, g)
    BY <1>1, Times DEF is_end, Cfg
  <2>2. h = b \/ h = set_permanent_constraint(Cfg, b)
    BY <2>1 DEF next_time, a
  <2> HIDE DEF b
  <2> QED BY <1>1, <1>4, <2>2 DEF set_permanent_constraint, Governor
<1>6. /\ Len(p) >= 2 /\ p \in Seq(TimeStep) /\ Len(p) \in 2 .. RecentSize
      /\ p[2] = s[1]
  <2> DEFINE n == IF Len(s) < RecentSize THEN Len(s) + 1 ELSE RecentSize
  <2>1. n \in Nat /\ n \in 2 .. RecentSize /\ 2 \in 1 .. n
    <3> DEFINE k == Len(s)
    <3>1. k \in 1 .. 3
      BY <1>1 DEF RecentSize
    <3> HIDE DEF k
    <3>2. n = IF k < 3 THEN k + 1 ELSE 3
      BY DEF RecentSize, k
    <3> QED BY <3>1, <3>2 DEF RecentSize
  <2>2. p = [i \in 1 .. n |-> IF i = 1 THEN x ELSE s[i - 1]]
    BY DEF PushFront
  <2>3. p \in Seq(TimeStep)
    BY <1>2, <1>5 DEF Governor
  <2> HIDE DEF n, x, p
  <2>4. Len(p) = n /\ p[2] = s[1]
    BY <2>1, <2>2
  <2> QED BY <2>1, <2>3, <2>4
<1>7. PopFront(p) \in Seq(TimeStep) /\ Len(PopFront(p)) \in 1 .. RecentSize
      /\ PopFront(p)[1] = p[2]
  BY <1>6 DEF PopFront, RecentSize
<1>8. r = [h EXCEPT !.recent_steps = PopFront(p), !.upper_constraint = g.upper_constraint,
                    !.lower_constraint = g.lower_constraint]
  BY <1>5 DEF revert_step
<1>9. g.lower_constraint \in Nat /\ g.upper_constraint \in Nat
  BY <1>1 DEF Governor
<1>10. /\ r \in Governor /\ r.recent_steps = PopFront(p)
       /\ r.upper_constraint = g.upper_constraint /\ r.lower_constraint = g.lower_constraint
       /\ r.end_of_fixed_dt_interval = h.end_of_fixed_dt_interval
       /\ r.fixed_time_step = h.fixed_time_step
       /\ r.min_time_step = h.min_time_step /\ r.max_time_step = h.max_time_step
       /\ r.dt_limits_pos = h.dt_limits_pos
  <2> HIDE DEF p
  <2> QED BY <1>2, <1>7, <1>8, <1>9 DEF Governor
<1>11. step(r) = step(g)
  BY <1>6, <1>7, <1>10 DEF step
<1>12. t(r) = t(g) /\ tlevel(r) = tlevel(g)
  BY <1>11 DEF t, tlevel
<1>13. in_fixed_interval(r) <=> in_fixed_interval(g)
  BY <1>2, <1>10, <1>12 DEF in_fixed_interval
<1>14. FixedOK(F, r) /\ WholeOK(r)
  BY <1>2, <1>10, <1>12, <1>13 DEF GovernorOK, FixedOK, WholeOK
<1>15. SteadyOK(F, r)
  <2>1. WellFormed(r)
    <3>1. r.dt_limits_pos \in 1 .. (Len(Table) + 1)
      BY <1>2, <1>10, Rows
    <3> QED BY <1>7, <1>10, <3>1 DEF WellFormed
  <2>2. TimeOK(F, r)
    BY <1>12 DEF GovernorOK, SteadyOK, TimeOK
  <2>3. ConstraintOK(r)
    BY <1>1, <1>2, <1>10 DEF ConstraintOK
  <2> QED BY <2>1, <2>2, <2>3 DEF SteadyOK
<1>16. NewLength(F, r) = NewLength(F, g)
  <2>1. CASE in_fixed_interval(g)
    <3>1. corrected_fixed_step(r) = corrected_fixed_step(g)
      BY <1>2, <1>10, <1>12, <2>1 DEF corrected_fixed_step, n_fixed
    <3> QED BY <1>13, <2>1, <3>1 DEF NewLength
  <2>2. CASE ~ in_fixed_interval(g)
    <3>1. full_step(F, r) = full_step(F, g)
      BY <1>12 DEF full_step, next_fixed
    <3>2. constrained_step(F, r) = constrained_step(F, g)
      BY <1>10, <3>1 DEF constrained_step
    <3>3. n_steps(F, r) = n_steps(F, g)
      BY <3>1, <3>2 DEF n_steps
    <3>4. estimate_dt(Cfg, F, r) = estimate_dt(Cfg, F, g)
      BY <1>12, <1>13, <2>2, <3>1, <3>2, <3>3 DEF estimate_dt, is_end
    <3> QED BY <1>13, <2>2, <3>4 DEF NewLength
  <2> QED BY <2>1, <2>2
<1>17. h.recent_steps[2].end = t(g)
  BY <1>5, <1>6 DEF t, step
<1> QED BY <1>5, <1>6, <1>12, <1>14, <1>15, <1>16, <1>17 DEF GovernorOK

\* A smaller upper constraint gives no longer step, and one within it outside a fixed interval.
LEMMA ReducedStep ==
  ASSUME NEW F, NEW r, GovernorOK(F, r), t(r) < End,
         NEW u \in 1 .. (Inf - 1), u <= r.upper_constraint,
         NEW m, m = set_upper_constraint(u, r), WholeOK(r)
  PROVE  /\ GovernorOK(F, m) /\ WholeOK(m) /\ t(m) = t(r) /\ tlevel(m) = tlevel(r)
         /\ IF in_fixed_interval(r) THEN NewLength(F, m) = NewLength(F, r)
            ELSE NewLength(F, m) <= Smaller(NewLength(F, r), Larger(u, r.lower_constraint))
<1> DEFINE lo == r.lower_constraint
           up == r.upper_constraint
           full == full_step(F, r)
<1>1. /\ r \in Governor /\ t(r) \in Nat /\ End \in F /\ F \subseteq Nat /\ \A x \in F : x < Inf
      /\ lo \in 1 .. (Inf - 1) /\ up \in 1 .. (Inf - 1)
  BY DEF GovernorOK, SteadyOK, WellFormed, TimeOK, ConstraintOK
<1>2. u \in 1 .. Inf
  BY Times
<1>3. /\ SteadyOK(F, m) /\ FixedOK(F, m) /\ t(m) = t(r) /\ tlevel(m) = tlevel(r)
      /\ m = [r EXCEPT !.upper_constraint = m.upper_constraint]
  BY <1>2, SetUpperKeeps DEF GovernorOK
<1>4. /\ m.lower_constraint = lo
      /\ m.end_of_fixed_dt_interval = r.end_of_fixed_dt_interval
      /\ m.fixed_time_step = r.fixed_time_step
  BY <1>1, <1>3 DEF Governor
<1>5. m.upper_constraint = IF lo > u THEN lo ELSE u
  <2>1. ~ (up < u)
    BY <1>1, Times
  <2> QED BY <1>1, <2>1 DEF set_upper_constraint, Governor
<1>6. in_fixed_interval(m) <=> in_fixed_interval(r)
  BY <1>3, <1>4 DEF in_fixed_interval
<1>7. WholeOK(m)
  BY <1>3, <1>4, <1>6 DEF WholeOK
<1>8. CASE in_fixed_interval(r)
  <2>1. NewLength(F, m) = NewLength(F, r)
    BY <1>3, <1>4, <1>6, <1>8 DEF NewLength, corrected_fixed_step, n_fixed
  <2> QED BY <1>3, <1>7, <1>8, <2>1 DEF GovernorOK
<1>9. CASE ~ in_fixed_interval(r)
  <2> DEFINE e == Larger(Smaller(full, IF lo > u THEN lo ELSE u), lo)
             f == Larger(Smaller(full, up), lo)
  <2>1. full_step(F, m) = full
    BY <1>3 DEF full_step, next_fixed
  <2>2. constrained_step(F, m) = e /\ constrained_step(F, r) = f
    BY <1>4, <1>5, <2>1 DEF constrained_step
  <2>3. full \in Nat /\ full >= 1 /\ full < Inf
    <3>1. /\ next_fixed(F, r) \in F /\ t(r) < next_fixed(F, r) /\ next_fixed(F, r) <= End
      BY <1>1, NextFixed
    <3>2. next_fixed(F, r) \in Nat /\ next_fixed(F, r) < Inf
      BY <1>1, <3>1, Times
    <3> DEFINE n == next_fixed(F, r)
    <3>3. full = n - t(r)
      BY <3>2 DEF full_step, Minus
    <3>4. n \in Nat /\ n < Inf /\ t(r) < n
      BY <3>1, <3>2
    <3> HIDE DEF n, full
    <3> QED BY <1>1, <3>3, <3>4, Times
  <2> HIDE DEF full
  <2>4. e \in Nat /\ e >= 1 /\ e <= f /\ f \in Nat /\ f < Inf /\ e <= Larger(u, lo)
    <3> HIDE DEF lo, up
    <3>1. lo \in Nat /\ up \in Nat /\ u \in Nat /\ lo >= 1 /\ u >= 1 /\ lo < Inf /\ up < Inf /\ u <= up
      BY <1>1, Times DEF up
    <3> QED BY <2>3, <3>1, Times DEF Larger, Smaller
  <2> HIDE DEF e, f, lo, up
  <2>5. ~ is_end(Cfg, r) /\ ~ is_end(Cfg, m)
    BY <1>1, <1>3, Times DEF is_end, Cfg
  <2>6. e # Inf /\ f # Inf
    BY <2>4, Times
  <2>7. /\ NewLength(F, r) = full \div CeilDiv(full, f)
        /\ NewLength(F, m) = full \div CeilDiv(full, e)
    BY <1>6, <1>9, <2>1, <2>2, <2>5, <2>6 DEF NewLength, estimate_dt, n_steps, full
  <2>8. NewLength(F, m) <= NewLength(F, r)
    BY <2>3, <2>4, <2>7, SmallerSteps
  <2>9. NewLength(F, m) <= e
    BY <2>3, <2>4, <2>7, StepsWithinLimit
  <2>10. NewLength(F, m) \in Int /\ NewLength(F, r) \in Int /\ Larger(u, lo) \in Int
    BY <1>1, <1>3, <1>7, NewLengthFits DEF GovernorOK, Larger, lo
  <2>11. NewLength(F, m) <= Smaller(NewLength(F, r), Larger(u, lo))
    BY <2>4, <2>8, <2>9, <2>10 DEF Smaller
  <2> QED BY <1>3, <1>7, <1>9, <2>11 DEF GovernorOK, lo
<1> QED BY <1>8, <1>9

\* What the actual step was chosen from, if it is not fixed already and can be rejected
Rejectable(F, g) ==
  tlevel(g) > 0 /\ t(g) < End /\ ~ g.is_time_step_fixed =>
    /\ GovernorOK(F, revert_step(g)) /\ WholeOK(revert_step(g))
    /\ t(revert_step(g)) < End /\ t(revert_step(g)) = g.recent_steps[2].end
    /\ NewLength(F, revert_step(g)) = dt(g) /\ tlevel(g) = tlevel(revert_step(g)) + 1

\* The inductive invariant with retried steps
RetryInv == GovernorOK(marks, tg) /\ LengthOK(tg) /\ Rejectable(marks, tg)

\* next_time() makes a step that can be rejected.
LEMMA NextIsRejectable ==
  ASSUME NEW F, NEW g, GovernorOK(F, g), WholeOK(g), t(g) < End,
         NEW h, h = next_time(Cfg, F, g)
  PROVE  GovernorOK(F, h) /\ LengthOK(h) /\ Rejectable(F, h)
<1>1. /\ GovernorOK(F, h) /\ LengthOK(h) /\ dt(h) = NewLength(F, g)
      /\ tlevel(h) = tlevel(g) + 1
  BY NextTimeMeets
<1>2. Rejectable(F, h)
  <2> DEFINE r == revert_step(h)
  <2> HIDE DEF r
  <2> SUFFICES ASSUME t(h) < End
               PROVE  /\ GovernorOK(F, r) /\ WholeOK(r) /\ t(r) < End
                      /\ t(r) = h.recent_steps[2].end
                      /\ NewLength(F, r) = dt(h) /\ tlevel(h) = tlevel(r) + 1
    BY DEF Rejectable, r
  <2>1. r = revert_step(h)
    BY DEF r
  <2> QED BY <1>1, <2>1, RevertAfterNext
<1> QED BY <1>1, <1>2

\* The step that replaces the rejected one
LEMMA RetryKeeps ==
  ASSUME RetryInv, NEW u \in Reductions, ReduceTimestep(u)
  PROVE  /\ RetryInv' /\ tlevel(tg') = tlevel(tg)
         /\ IF in_fixed_interval(revert_step(tg)) THEN dt(tg') = dt(tg)
            ELSE dt(tg') <= Smaller(dt(tg), Larger(u, tg.last_lower_constraint))
         /\ \A m \in marks : t(revert_step(tg)) < m => t(tg') <= m
<1> DEFINE r == revert_step(tg)
           m == set_upper_constraint(u, r)
<1>1. /\ tlevel(tg) > 0 /\ ~ is_end(Cfg, tg) /\ ~ tg.is_time_step_fixed
      /\ u <= tg.last_upper_constraint /\ tg' = next_time(Cfg, marks, m) /\ marks' = marks
  <2>1. tg.last_upper_constraint >= u
    BY DEF ReduceTimestep, reduce_allowed
  <2>2. tg.last_upper_constraint \in Nat /\ u \in Nat
    BY TimesAssumption, Times DEF RetryInv, GovernorOK, SteadyOK, WellFormed, Governor
  <2> QED BY <2>1, <2>2 DEF ReduceTimestep, reduce_timestep
<1>2. t(tg) < End /\ tg \in Governor
  <2>1. t(tg) \in Nat /\ tg \in Governor
    BY DEF RetryInv, GovernorOK, SteadyOK, TimeOK, WellFormed
  <2> QED BY <1>1, <2>1, Times DEF is_end, Cfg
<1>3. /\ GovernorOK(marks, r) /\ WholeOK(r) /\ t(r) < End /\ t(r) = tg.recent_steps[2].end
      /\ NewLength(marks, r) = dt(tg) /\ tlevel(tg) = tlevel(r) + 1
  BY <1>1, <1>2 DEF RetryInv, Rejectable
<1>4. r.upper_constraint = tg.last_upper_constraint
      /\ r.lower_constraint = tg.last_lower_constraint
  BY <1>2 DEF revert_step, Governor
<1> HIDE DEF r
<1>5. u \in 1 .. (Inf - 1) /\ u <= r.upper_constraint
  BY <1>1, <1>4, TimesAssumption
<1>6. /\ GovernorOK(marks, m) /\ WholeOK(m) /\ t(m) = t(r) /\ tlevel(m) = tlevel(r)
      /\ IF in_fixed_interval(r) THEN NewLength(marks, m) = dt(tg)
         ELSE NewLength(marks, m) <= Smaller(dt(tg), Larger(u, tg.last_lower_constraint))
  BY <1>4, <1>3, <1>5, ReducedStep
<1> HIDE DEF m
<1>7. /\ GovernorOK(marks, tg') /\ LengthOK(tg') /\ Rejectable(marks, tg')
  BY <1>1, <1>3, <1>6, NextIsRejectable
<1>8. /\ dt(tg') = NewLength(marks, m) /\ tlevel(tg') = tlevel(m) + 1
      /\ \A x \in marks : t(m) < x => t(tg') <= x
  BY <1>1, <1>3, <1>6, NextTimeMeets
<1>9. RetryInv'
  BY <1>1, <1>7 DEF RetryInv
<1> QED BY <1>3, <1>6, <1>8, <1>9 DEF r

\* Every step keeps the invariant: constraints do not touch what is rejected, and a step
\* that is fixed is not rejected.
LEMMA RetryNextInv ==
  ASSUME RetryInv, [RetryNext]_vars PROVE RetryInv'
<1>1. /\ GovernorOK(marks, tg) /\ SteadyOK(marks, tg) /\ FixedOK(marks, tg) /\ LengthOK(tg)
      /\ tg \in Governor /\ t(tg) \in Nat /\ Rejectable(marks, tg)
  BY DEF RetryInv, GovernorOK, SteadyOK, WellFormed, TimeOK
<1>2. ASSUME marks' = marks, SteadyOK(marks, tg'), FixedOK(marks, tg'), LengthOK(tg'),
             t(tg') = t(tg), dt(tg') = dt(tg), tlevel(tg') = tlevel(tg),
             revert_step(tg') = revert_step(tg), tg'.recent_steps = tg.recent_steps,
             tg'.is_time_step_fixed = tg.is_time_step_fixed
      PROVE  RetryInv'
  <2>1. GovernorOK(marks, tg')
    BY <1>2 DEF GovernorOK
  <2>2. Rejectable(marks, tg')
    BY <1>1, <1>2 DEF Rejectable
  <2> QED BY <1>2, <2>1, <2>2 DEF RetryInv
<1>3. ASSUME NEW u \in Uppers, SetUpperConstraint(u) PROVE RetryInv'
  <2>1. u \in 1 .. Inf
    BY TimesAssumption, InfAssumption
  <2>2. /\ SteadyOK(marks, tg') /\ t(tg') = t(tg) /\ tlevel(tg') = tlevel(tg)
        /\ dt(tg') = dt(tg) /\ FixedOK(marks, tg') /\ LengthOK(tg')
        /\ tg' = [tg EXCEPT !.upper_constraint = tg'.upper_constraint]
    BY <1>1, <1>3, <2>1, SetUpperKeeps DEF SetUpperConstraint
  <2>3. /\ revert_step(tg') = revert_step(tg) /\ tg'.recent_steps = tg.recent_steps
        /\ tg'.is_time_step_fixed = tg.is_time_step_fixed
    BY <1>1, <2>2 DEF revert_step, Governor
  <2> QED BY <1>2, <1>3, <2>2, <2>3 DEF SetUpperConstraint
<1>4. ASSUME NEW l \in Lowers, SetLowerConstraint(l) PROVE RetryInv'
  <2>1. l \in 1 .. (Inf - 1)
    BY TimesAssumption
  <2>2. /\ SteadyOK(marks, tg') /\ t(tg') = t(tg) /\ tlevel(tg') = tlevel(tg)
        /\ dt(tg') = dt(tg) /\ FixedOK(marks, tg') /\ LengthOK(tg')
        /\ tg' = [tg EXCEPT !.lower_constraint = tg'.lower_constraint]
    BY <1>1, <1>4, <2>1, SetLowerKeeps DEF SetLowerConstraint
  <2>3. /\ revert_step(tg') = revert_step(tg) /\ tg'.recent_steps = tg.recent_steps
        /\ tg'.is_time_step_fixed = tg.is_time_step_fixed
    BY <1>1, <2>2 DEF revert_step, Governor
  <2> QED BY <1>2, <1>4, <2>2, <2>3 DEF SetLowerConstraint
<1>5. ASSUME NEW g, SteadyOK(marks', g), t(g) < End => full_step(marks', g) % n_steps(marks', g) = 0,
             tg' = fix_dt_until_mark(Cfg, marks', g)
      PROVE  RetryInv'
  <2>1. GovernorOK(marks', tg') /\ LengthOK(tg')
    BY <1>5, FixKeeps
  <2>2. tg'.is_time_step_fixed
    BY <1>5 DEF fix_dt_until_mark, Cfg, SteadyOK, WellFormed, Governor
  <2>3. Rejectable(marks', tg')
    BY <2>2 DEF Rejectable
  <2> QED BY <2>1, <2>3 DEF RetryInv
<1>6. ASSUME FixDtUntilMark PROVE RetryInv'
  <2>1. marks' = marks /\ tg' = fix_dt_until_mark(Cfg, marks', tg)
    BY <1>6 DEF FixDtUntilMark
  <2>2. t(tg) < End => full_step(marks', tg) % n_steps(marks', tg) = 0
    <3>1. t(tg) < End => ~ is_end(Cfg, tg)
      BY <1>1, Times DEF is_end, Cfg
    <3> QED BY <1>6, <2>1, <3>1 DEF FixDtUntilMark, whole_full_step
  <2>3. SteadyOK(marks', tg)
    BY <1>1, <2>1
  <2> QED BY <1>5, <2>1, <2>2, <2>3
<1>7. ASSUME NEW x \in Targets, NEW u \in Uppers \cup {Inf}, SetTargetTime(x, u) PROVE RetryInv'
  <2> DEFINE g == set_upper_constraint(u, tg)
  <2>1. u \in 1 .. Inf
    BY TimesAssumption, InfAssumption
  <2>2. SteadyOK(marks, g)
    BY <1>1, <2>1, SetUpperKeeps
  <2>3. /\ marks' = marks \cup {x} /\ tg' = fix_dt_until_mark(Cfg, marks', g)
        /\ full_step(marks', g) % n_steps(marks', g) = 0
    BY <1>7 DEF SetTargetTime
  <2>4. x \in Nat /\ x < Inf
    BY TimesAssumption
  <2> HIDE DEF g
  <2>5. SteadyOK(marks', g)
    BY <2>2, <2>3, <2>4 DEF SteadyOK, TimeOK
  <2> QED BY <1>5, <2>3, <2>5
<1>8. ASSUME NextTime PROVE RetryInv'
  <2>1. t(tg) < End
    BY <1>1, <1>8, Times DEF NextTime, is_end, Cfg
  <2>2. WholeOK(tg) /\ tg' = next_time(Cfg, marks, tg) /\ marks' = marks
    BY <1>1, <1>8 DEF NextTime, LengthOK, WholeOK
  <2>3. GovernorOK(marks, tg') /\ LengthOK(tg') /\ Rejectable(marks, tg')
    BY <1>1, <2>1, <2>2, NextIsRejectable
  <2> QED BY <2>2, <2>3 DEF RetryInv
<1>9. ASSUME AtEnd \/ UNCHANGED vars PROVE RetryInv'
  <2>1. tg' = tg /\ marks' = marks
    BY <1>9 DEF AtEnd, next_time, vars
  <2> QED BY <1>1, <2>1 DEF RetryInv
<1> QED BY <1>3, <1>4, <1>6, <1>7, <1>8, <1>9, RetryKeeps DEF RetryNext, Next

\* The invariant holds however often steps are rejected.
THEOREM RetryInvariant == RetrySpec => []RetryInv
<1>1. Init => RetryInv
  <2> SUFFICES ASSUME Init PROVE RetryInv
    OBVIOUS
  <2>1. GovernorOK(marks, tg) /\ LengthOK(tg)
    BY InitInv DEF GovernorInv
  <2>2. tlevel(tg) = 0
    <3>1. PICK pos \in 1 .. (Len(Table) - 1) : tg = input_governor(Cfg, pos, InitDt, Second)
      BY DEF Init
    <3>2. marks \subseteq Nat /\ End \in marks /\ \A m \in marks : m < Inf
      BY <2>1 DEF GovernorOK, SteadyOK, TimeOK
    <3> QED BY <3>1, <3>2, InitialGovernor
  <2> QED BY <2>1, <2>2 DEF RetryInv, Rejectable
<1> QED BY <1>1, RetryNextInv, PTL DEF RetrySpec

\* reduce_timestep() repeats a step within the reduced length or the lower constraint, with
\* the same length inside a fixed interval, and the repeated step jumps over no fixed mark
\* behind the last accepted time.
THEOREM RetriesAreReduced == RetrySpec => RetryReducedUnlessFixed
<1>1. RetryInv /\ [RetryNext]_vars => [RetriedStep]_vars
  BY RetryKeeps DEF RetriedStep
<1> QED BY <1>1, RetryInvariant, PTL DEF RetrySpec, RetryReducedUnlessFixed
=============================================================================
