--------------------------- MODULE GovernorLemmas ---------------------------
(***************************************************************************)
(* What the methods of a TimeGovernor made from an input record keep and   *)
(* guarantee, for a governor g and the set F of its fixed marks.           *)
(***************************************************************************)
EXTENDS TimeInput, GovernorArithmetic

---------------------------------------------------------------------------
(* What holds of a governor. *)

\* The buffer holds one to three steps, and the position in the table is at most one behind
\* its end.
WellFormed(g) ==
  /\ g \in Governor
  /\ Len(g.recent_steps) \in 1 .. RecentSize
  /\ g.dt_limits_pos \in 1 .. (Len(Table) + 1)

\* The time never passes the end time, which is one of the fixed marks.
TimeOK(F, g) ==
  /\ t(g) \in Nat /\ t(g) <= End
  /\ F \subseteq Nat /\ End \in F /\ \A m \in F : m < Inf

\* While the end is not reached both constraints are positive and a row of limits is left.
ConstraintOK(g) ==
  /\ g.min_time_step \in 1 .. (Inf - 1)
  /\ t(g) < End =>
       /\ g.lower_constraint \in 1 .. (Inf - 1)
       /\ g.upper_constraint \in 1 .. (Inf - 1)
       /\ g.max_time_step \in 1 .. (Inf - 1)
       /\ g.dt_limits_pos \in 1 .. Len(Table)

\* A fixed interval ends in the next fixed mark and a step of it fits into its rest.
FixedOK(F, g) ==
  t(g) < End /\ in_fixed_interval(g) =>
    /\ g.end_of_fixed_dt_interval <= End
    /\ g.fixed_time_step \in 1 .. (g.end_of_fixed_dt_interval - t(g))
    /\ \A m \in F : t(g) < m => g.end_of_fixed_dt_interval <= m

SteadyOK(F, g) == WellFormed(g) /\ TimeOK(F, g) /\ ConstraintOK(g)

GovernorOK(F, g) == SteadyOK(F, g) /\ FixedOK(F, g)

\* A whole number of fixed steps is left, and all steps of the interval after the first one
\* have the same length.
LengthOK(g) ==
  t(g) < End /\ in_fixed_interval(g) =>
    /\ \E k \in Nat : k >= 1 /\ g.end_of_fixed_dt_interval - t(g) = k * g.fixed_time_step
    /\ ~ g.is_time_step_fixed => dt(g) = g.fixed_time_step

\* The first half of it, which a step that is taken back keeps too.
WholeOK(g) ==
  t(g) < End /\ in_fixed_interval(g) =>
    \E k \in Nat : k >= 1 /\ g.end_of_fixed_dt_interval - t(g) = k * g.fixed_time_step

\* The flag of a changed length is right.
FlagOK(g) == tlevel(g) > 0 => (g.time_step_changed <=> dt(g) # last_dt(g))

---------------------------------------------------------------------------
(* Lemmas on the methods. *)

\* The facts on the times that most steps need.
LEMMA Times ==
  /\ Inf \in Nat /\ Inf > 0 /\ Start \in Nat /\ End \in Nat /\ Start < End /\ End < Inf
  /\ Second \in Time /\ InitDt \in 0 .. (Inf - 1)
BY RecordAssumption, InfAssumption

\* A fixed interval may end at any time, or be none.
LEMMA FixedEnds == NegInf \in NegInf .. Inf /\ \A x \in Time : x \in NegInf .. Inf
BY Times DEF NegInf, Time

\* Every row of dt_limits_table_ has positive limits below infinity.
LEMMA Rows ==
  /\ Len(Table) \in Nat /\ Len(Table) >= 2
  /\ Table[Len(Table)].time = End
  /\ \A i \in 1 .. Len(Table) : /\ Table[i].time \in Int /\ Table[i].min_dt \in Nat
                                /\ Table[i].min_dt < Inf /\ Table[i].max_dt \in 1 .. (Inf - 1)
<1>1. Table \in Seq(Row) /\ Len(Table) >= 2 /\ Table[Len(Table)].time = End
  BY TableAssumption
<1>2. \A i \in 1 .. Len(Table) : /\ Table[i].min_dt <= Table[i].max_dt
                                /\ Table[i].max_dt \in 1 .. (Inf - 1)
  BY TableAssumption
<1>3. \A i \in 1 .. Len(Table) : Table[i] \in Row
  BY <1>1
<1>4. \A i \in 1 .. Len(Table) : Table[i].time \in Int /\ Table[i].min_dt \in Nat
  BY <1>3 DEF Row
<1> QED BY <1>1, <1>2, <1>4, InfAssumption

\* The number of steps up to the next fixed mark, and the length of one of them.
LEMMA EstimatedStep ==
  ASSUME NEW F, F \subseteq Nat, NEW g, t(g) \in Nat, End \in F, t(g) < End,
         g.lower_constraint \in 1 .. (Inf - 1), g.upper_constraint \in 1 .. (Inf - 1),
         ~ in_fixed_interval(g)
  PROVE  /\ full_step(F, g) = next_fixed(F, g) - t(g)
         /\ estimate_dt(Cfg, F, g) \in 1 .. (next_fixed(F, g) - t(g))
<1> DEFINE full == full_step(F, g)
           est == constrained_step(F, g)
<1>1. /\ next_fixed(F, g) \in F /\ t(g) < next_fixed(F, g) /\ next_fixed(F, g) <= End
  BY NextFixed
<1>2. full = next_fixed(F, g) - t(g) /\ full \in Nat /\ full >= 1 /\ full < Inf
  <2>0. next_fixed(F, g) \in Nat
    BY <1>1
  <2>b. End \in Nat /\ End < Inf
    BY RecordAssumption
  <2>1. next_fixed(F, g) \in Nat /\ next_fixed(F, g) < Inf
    BY <1>1, <2>0, <2>b, InfAssumption
  <2>2. full = next_fixed(F, g) - t(g)
    BY <2>1, InfAssumption DEF full_step, Minus
  <2> QED BY <1>1, <2>1, <2>2, InfAssumption
<1>3. est \in 1 .. (Inf - 1)
  BY <1>2, InfAssumption DEF constrained_step, Larger, Smaller
<1>4. n_steps(F, g) \in 1 .. full
  BY <1>2, <1>3, CeilDivBounds, InfAssumption DEF n_steps
<1>5. full \div n_steps(F, g) \in 1 .. full
  BY <1>2, <1>4, PartOfLength
<1>6. estimate_dt(Cfg, F, g) = full \div n_steps(F, g)
  BY <1>3, InfAssumption, RecordAssumption DEF estimate_dt, is_end, Cfg
<1> QED BY <1>2, <1>5, <1>6

\* A step that is not fixed yet obeys both constraints, and the next fixed mark is a whole
\* number of such steps ahead.
LEMMA EstimateObeys ==
  ASSUME NEW F, F \subseteq Nat, NEW g, t(g) \in Nat, End \in F, t(g) < End,
         g.lower_constraint \in 1 .. (Inf - 1), g.upper_constraint \in 1 .. (Inf - 1),
         ~ in_fixed_interval(g), full_step(F, g) % n_steps(F, g) = 0
  PROVE  LET d == estimate_dt(Cfg, F, g)
             rest == next_fixed(F, g) - t(g)
         IN  /\ d <= Larger(g.upper_constraint, g.lower_constraint)
             /\ 2 * d > g.lower_constraint \/ d = rest
             /\ \E k \in Nat : k >= 1 /\ rest = k * d
<1> DEFINE full == full_step(F, g)
           est == constrained_step(F, g)
           n == n_steps(F, g)
           d == estimate_dt(Cfg, F, g)
           lo == g.lower_constraint
           up == g.upper_constraint
<1>1. /\ next_fixed(F, g) \in F /\ t(g) < next_fixed(F, g) /\ next_fixed(F, g) <= End
  BY NextFixed
<1>2. full = next_fixed(F, g) - t(g) /\ full \in Nat /\ full >= 1 /\ full < Inf
  <2>0. next_fixed(F, g) \in Nat
    BY <1>1
  <2>1. next_fixed(F, g) < Inf
    BY <1>1, <2>0, Times
  <2>2. full = next_fixed(F, g) - t(g)
    BY EstimatedStep
  <2> QED BY <1>1, <2>0, <2>1, <2>2, Times
<1>3. lo \in Nat /\ up \in Nat /\ lo >= 1 /\ up >= 1 /\ lo < Inf /\ up < Inf
  BY Times
<1>4. est \in Nat /\ est >= 1 /\ est < Inf /\ est >= lo /\ est <= Larger(up, lo)
  <2> HIDE DEF lo, up
  <2>1. est = Larger(Smaller(full, up), lo)
    BY DEF constrained_step, lo, up
  <2> HIDE DEF est, full
  <2> QED BY <1>2, <1>3, <2>1 DEF Larger, Smaller
<1>5. n = CeilDiv(full, est)
  BY DEF n_steps
<1>6. d = full \div n
  BY <1>4, Times DEF estimate_dt, is_end, Cfg
<1> HIDE DEF full, est, n, d, lo, up
<1>7. /\ n \in Nat /\ n >= 1 /\ d \in Nat /\ full = n * d
      /\ d <= est /\ (n >= 2 => 2 * d > est)
  <2>1. full % n = 0
    BY DEF full, n
  <2> QED BY <1>2, <1>4, <1>5, <1>6, <2>1, DividedLength
<1>8. n = 1 => full = d
  BY <1>7
<1>9. Larger(up, lo) \in Nat
  BY <1>3 DEF Larger
<1>10. d <= Larger(up, lo) /\ (2 * d > lo \/ d = full)
  BY <1>3, <1>4, <1>7, <1>8, <1>9
<1> QED BY <1>2, <1>7, <1>10 DEF d, lo, up

\* The correction of a fixed step: it stays within the rest of the interval, and when it
\* does not finish the interval it fits into the new rest too.
LEMMA CorrectedStep ==
  ASSUME NEW g, t(g) \in Nat, NEW e \in Nat, g.end_of_fixed_dt_interval = e,
         e <= End, t(g) < e, g.fixed_time_step \in 1 .. (e - t(g))
  PROVE  LET c == corrected_fixed_step(g)
         IN  c \in 1 .. (e - t(g)) /\ (c # e - t(g) => c <= e - t(g) - c)
<1> DEFINE x == e - t(g)
           n == n_fixed(g)
<1>1. x \in Nat /\ x >= 1
  OBVIOUS
<1>2. n \in 1 .. x
  BY <1>1, RoundDivBounds DEF n_fixed
<1>3. corrected_fixed_step(g) = x \div n
  BY RecordAssumption, InfAssumption DEF corrected_fixed_step
<1>4. x \div n \in 1 .. x /\ (n >= 2 => 2 * (x \div n) <= x)
  BY <1>1, <1>2, PartOfLength
<1>5. n = 1 => x \div n = x
  BY <1>1
<1> QED BY <1>1, <1>2, <1>3, <1>4, <1>5

\* While a whole number of fixed steps is left, the corrected step is the fixed one.
LEMMA CorrectedIsFixed ==
  ASSUME NEW g, t(g) \in Nat, NEW e \in Nat, g.end_of_fixed_dt_interval = e, e <= End,
         NEW c \in Nat, g.fixed_time_step = c, c >= 1,
         NEW k \in Nat, k >= 1, e - t(g) = k * c
  PROVE  corrected_fixed_step(g) = c
<1>1. n_fixed(g) = k
  BY WholeMultiple DEF n_fixed
<1>2. corrected_fixed_step(g) = (k * c) \div k
  BY <1>1, Times DEF corrected_fixed_step
<1> QED BY <1>2, WholeMultiple

\* set_permanent_constraint() enters row pos of the table.
LEMMA PermanentConstraint ==
  ASSUME NEW g \in Governor, t(g) \in Nat, t(g) <= End, g.dt_limits_pos \in 1 .. Len(Table)
  PROVE  LET h == set_permanent_constraint(Cfg, g)
         IN  /\ h \in Governor /\ h.recent_steps = g.recent_steps
             /\ h.end_of_fixed_dt_interval = g.end_of_fixed_dt_interval
             /\ h.fixed_time_step = g.fixed_time_step
             /\ h.dt_limits_pos = g.dt_limits_pos + 1
             /\ h.min_time_step \in 1 .. (Inf - 1) /\ h.lower_constraint \in 1 .. (Inf - 1)
             /\ t(g) < End => /\ h.upper_constraint \in 1 .. (Inf - 1)
                              /\ h.max_time_step \in 1 .. (Inf - 1)
<1> DEFINE row == Table[g.dt_limits_pos]
           lo == Larger(row.min_dt, 1)
           up == Smaller(row.max_dt, Minus(End, t(g)))
           h == set_permanent_constraint(Cfg, g)
<1>1. row.min_dt \in Nat /\ row.min_dt < Inf /\ row.max_dt \in 1 .. (Inf - 1)
  BY Rows
<1>2. row.max_dt >= 1 => Inf > 1
  BY <1>1, Times
<1>3. lo \in 1 .. (Inf - 1)
  BY <1>1, <1>2, Times DEF Larger
<1>4. up \in Nat /\ (t(g) < End => up \in 1 .. (Inf - 1))
  BY <1>1, Times DEF Smaller, Minus
<1>5. h = [g EXCEPT !.lower_constraint = lo, !.min_time_step = lo,
                    !.upper_constraint = up, !.max_time_step = up,
                    !.dt_limits_pos = g.dt_limits_pos + 1]
  BY DEF set_permanent_constraint, Cfg
<1> HIDE DEF lo, up, h
<1>6. lo \in Nat
  BY <1>3, Times
<1>7. g.dt_limits_pos + 1 \in Nat
  BY Rows
<1>8. h \in Governor
  BY <1>4, <1>5, <1>6, <1>7 DEF Governor
<1>9. /\ h.recent_steps = g.recent_steps
      /\ h.end_of_fixed_dt_interval = g.end_of_fixed_dt_interval
      /\ h.fixed_time_step = g.fixed_time_step
      /\ h.dt_limits_pos = g.dt_limits_pos + 1
      /\ h.min_time_step = lo /\ h.lower_constraint = lo
      /\ h.upper_constraint = up /\ h.max_time_step = up
  BY <1>5 DEF Governor
<1> QED BY <1>3, <1>4, <1>8, <1>9 DEF h

\* The buffer after one more step.
LEMMA PushedSteps ==
  ASSUME NEW s \in Seq(TimeStep), Len(s) \in 1 .. RecentSize, NEW x \in TimeStep
  PROVE  /\ PushFront(s, x) \in Seq(TimeStep)
         /\ Len(PushFront(s, x)) \in 1 .. RecentSize
         /\ PushFront(s, x)[1] = x
BY DEF PushFront, RecentSize

\* The length that advance() gives to the new step.
NewLength(F, g) == IF in_fixed_interval(g) THEN corrected_fixed_step(g)
                   ELSE estimate_dt(Cfg, F, g)

\* A new step is positive and ends no later than the next fixed mark.  In a fixed interval
\* it either finishes the interval or leaves room for another step of the same length.
LEMMA NewLengthFits ==
  ASSUME NEW F, NEW g, GovernorOK(F, g), t(g) < End
  PROVE  /\ NewLength(F, g) \in Nat /\ NewLength(F, g) >= 1
         /\ t(g) + NewLength(F, g) <= End
         /\ \A m \in F : t(g) < m => t(g) + NewLength(F, g) <= m
         /\ in_fixed_interval(g) =>
              LET rest == g.end_of_fixed_dt_interval - t(g)
              IN  NewLength(F, g) <= rest /\ (NewLength(F, g) # rest => NewLength(F, g) <= rest - NewLength(F, g))
<1> DEFINE e == g.end_of_fixed_dt_interval
<1>1. /\ t(g) \in Nat /\ End \in F /\ F \subseteq Nat
  BY DEF GovernorOK, SteadyOK, WellFormed, TimeOK
<1>2. /\ g.lower_constraint \in 1 .. (Inf - 1)
      /\ g.upper_constraint \in 1 .. (Inf - 1)
  BY DEF GovernorOK, SteadyOK, ConstraintOK
<1>3. CASE in_fixed_interval(g)
  <2>1. /\ e <= End /\ g.fixed_time_step \in 1 .. (e - t(g))
        /\ \A m \in F : t(g) < m => e <= m
    BY <1>3 DEF GovernorOK, FixedOK
  <2>2. e \in Nat /\ t(g) < e
    <3>1. e \in NegInf .. Inf
      BY DEF GovernorOK, SteadyOK, WellFormed, Governor
    <3>2. t(g) < e
      BY <1>3 DEF in_fixed_interval
    <3> QED BY <1>1, <3>1, <3>2, Times DEF Time, NegInf
  <2>3. NewLength(F, g) = corrected_fixed_step(g)
    BY <1>3 DEF NewLength
  <2>4. NewLength(F, g) \in 1 .. (e - t(g)) /\ (NewLength(F, g) # e - t(g) => NewLength(F, g) <= e - t(g) - NewLength(F, g))
    BY <1>1, <2>1, <2>2, <2>3, CorrectedStep
  <2> HIDE DEF e
  <2>5. NewLength(F, g) \in Nat /\ NewLength(F, g) >= 1 /\ t(g) + NewLength(F, g) <= e
    BY <1>1, <2>2, <2>4
  <2>6. t(g) + NewLength(F, g) <= End
    BY <1>1, <2>1, <2>2, <2>5, Times
  <2>7. \A m \in F : t(g) < m => t(g) + NewLength(F, g) <= m
    BY <1>1, <2>1, <2>2, <2>5
  <2> QED BY <1>3, <2>4, <2>5, <2>6, <2>7 DEF e
<1>4. CASE ~ in_fixed_interval(g)
  <2>1. NewLength(F, g) = estimate_dt(Cfg, F, g)
    BY <1>4 DEF NewLength
  <2>2. NewLength(F, g) \in 1 .. (next_fixed(F, g) - t(g))
    BY <1>1, <1>2, <1>4, <2>1, EstimatedStep
  <2>3. /\ next_fixed(F, g) \in Nat /\ next_fixed(F, g) <= End
        /\ \A m \in F : t(g) < m => next_fixed(F, g) <= m
    BY <1>1, NextFixed
  <2>4. NewLength(F, g) \in Nat /\ NewLength(F, g) >= 1 /\ t(g) + NewLength(F, g) <= next_fixed(F, g)
    BY <1>1, <2>2, <2>3
  <2>5. t(g) + NewLength(F, g) <= End
    BY <1>1, <2>3, <2>4, Times
  <2>6. \A m \in F : t(g) < m => t(g) + NewLength(F, g) <= m
    BY <1>1, <2>3, <2>4
  <2> QED BY <1>4, <2>4, <2>5, <2>6
<1> QED BY <1>3, <1>4

\* next_time() before the end: the fields of the governor it leaves behind.
LEMMA AfterNextTime ==
  ASSUME NEW F, NEW g, GovernorOK(F, g), t(g) < End
  PROVE  LET h == next_time(Cfg, F, g)
         IN  /\ h \in Governor
             /\ Len(h.recent_steps) \in 1 .. RecentSize
             /\ h.dt_limits_pos \in 1 .. (Len(Table) + 1)
             /\ t(h) = t(g) + NewLength(F, g)
             /\ dt(h) = NewLength(F, g)
             /\ h.end_of_fixed_dt_interval = g.end_of_fixed_dt_interval
             /\ in_fixed_interval(g) => h.fixed_time_step = NewLength(F, g)
             /\ h.min_time_step \in 1 .. (Inf - 1)
             /\ t(h) < End => /\ h.lower_constraint \in 1 .. (Inf - 1)
                              /\ h.upper_constraint \in 1 .. (Inf - 1)
                              /\ h.max_time_step \in 1 .. (Inf - 1)
                              /\ h.dt_limits_pos \in 1 .. Len(Table)
<1> DEFINE s == MakeNext(step(g), NewLength(F, g))
           a == advance(Cfg, F, g)
           r == relax_constraints(Cfg, a)
           h == next_time(Cfg, F, g)
           pos == g.dt_limits_pos
<1>1. /\ g \in Governor /\ Len(g.recent_steps) \in 1 .. RecentSize
      /\ t(g) \in Nat
  BY DEF GovernorOK, SteadyOK, WellFormed, TimeOK
<1>2. /\ g.min_time_step \in 1 .. (Inf - 1) /\ g.max_time_step \in 1 .. (Inf - 1)
      /\ g.lower_constraint \in Nat /\ g.upper_constraint \in Nat
      /\ pos \in 1 .. Len(Table)
  BY Times DEF GovernorOK, SteadyOK, ConstraintOK
<1>3. NewLength(F, g) \in Nat /\ NewLength(F, g) >= 1 /\ t(g) + NewLength(F, g) <= End
  BY NewLengthFits
<1>4. s \in TimeStep /\ s.end = t(g) + NewLength(F, g) /\ s.length = NewLength(F, g)
  <2>1. step(g) \in TimeStep
    BY <1>1 DEF step, Governor, RecentSize
  <2>2. step(g).index \in Nat /\ step(g).end = t(g)
    BY <2>1 DEF TimeStep, t
  <2>3. Plus(step(g).end, NewLength(F, g)) = t(g) + NewLength(F, g)
    BY <1>1, <1>3, <2>2, Times DEF Plus
  <2> QED BY <1>1, <1>3, <2>2, <2>3, Times DEF MakeNext, TimeStep, Time
<1>5. a = [g EXCEPT !.recent_steps = PushFront(g.recent_steps, s),
                     !.fixed_time_step = IF in_fixed_interval(g) THEN NewLength(F, g)
                                         ELSE g.fixed_time_step,
                     !.is_time_step_fixed = IF in_fixed_interval(g) THEN FALSE
                                            ELSE g.is_time_step_fixed,
                     !.time_step_changed = (in_fixed_interval(g) => g.is_time_step_fixed)
                                           /\ dt(g) # NewLength(F, g)]
  BY DEF advance, NewLength
<1>6. /\ PushFront(g.recent_steps, s) \in Seq(TimeStep)
      /\ Len(PushFront(g.recent_steps, s)) \in 1 .. RecentSize
      /\ PushFront(g.recent_steps, s)[1] = s
  BY <1>1, <1>4, PushedSteps DEF Governor
<1> HIDE DEF s, a
<1>7. NewLength(F, g) \in Time
  BY <1>1, <1>3, Times DEF Time
<1>8. ((in_fixed_interval(g) => g.is_time_step_fixed) /\ dt(g) # NewLength(F, g)) \in BOOLEAN
  OBVIOUS
<1>9. a \in Governor
  BY <1>1, <1>5, <1>6, <1>7, <1>8 DEF Governor
<1>10. /\ a.recent_steps[1] = s /\ Len(a.recent_steps) \in 1 .. RecentSize
       /\ a.end_of_fixed_dt_interval = g.end_of_fixed_dt_interval
       /\ in_fixed_interval(g) => a.fixed_time_step = NewLength(F, g)
       /\ a.min_time_step = g.min_time_step /\ a.max_time_step = g.max_time_step
       /\ a.dt_limits_pos = pos
  BY <1>1, <1>5, <1>6 DEF Governor
<1>11. t(a) = t(g) + NewLength(F, g)
  BY <1>4, <1>10 DEF t, step
<1> DEFINE up == Smaller(Minus(End, t(a)), g.max_time_step)
<1>12. up \in Nat /\ (t(a) < End => up \in 1 .. (Inf - 1))
  BY <1>1, <1>2, <1>3, <1>11, Times DEF Smaller, Minus
<1>13. r = [a EXCEPT !.last_lower_constraint = a.lower_constraint,
                     !.last_upper_constraint = a.upper_constraint,
                     !.upper_constraint = up,
                     !.lower_constraint = g.min_time_step]
  BY <1>10 DEF relax_constraints, Cfg
<1> HIDE DEF up, r
<1>14. g.min_time_step \in Nat
  BY <1>2, Times
<1>15. r \in Governor
  BY <1>9, <1>12, <1>13, <1>14 DEF Governor
<1>16. /\ r.recent_steps = a.recent_steps
       /\ r.end_of_fixed_dt_interval = g.end_of_fixed_dt_interval
       /\ in_fixed_interval(g) => r.fixed_time_step = NewLength(F, g)
       /\ r.min_time_step = g.min_time_step /\ r.max_time_step = g.max_time_step
       /\ r.lower_constraint = g.min_time_step /\ r.upper_constraint = up
       /\ r.dt_limits_pos = pos
  BY <1>9, <1>10, <1>13 DEF Governor
<1>17. t(r) = t(g) + NewLength(F, g) /\ dt(r) = NewLength(F, g)
  BY <1>4, <1>10, <1>11, <1>16 DEF t, dt, step
<1>18. h = IF t(r) >= Table[pos].time THEN set_permanent_constraint(Cfg, r) ELSE r
  <2>1. ~ is_end(Cfg, g)
    BY <1>1, Times DEF is_end, Cfg
  <2> QED BY <2>1 DEF next_time, Cfg, r, a
<1> HIDE DEF h, pos
<1>19. CASE t(r) >= Table[pos].time
  <2>1. t(r) \in Nat /\ t(r) <= End /\ r.dt_limits_pos \in 1 .. Len(Table)
    BY <1>1, <1>2, <1>3, <1>16, <1>17
  <2>2. h = set_permanent_constraint(Cfg, r)
    BY <1>18, <1>19
  <2>3. /\ h \in Governor /\ h.recent_steps = r.recent_steps
        /\ h.end_of_fixed_dt_interval = r.end_of_fixed_dt_interval
        /\ h.fixed_time_step = r.fixed_time_step
        /\ h.dt_limits_pos = pos + 1
        /\ h.min_time_step \in 1 .. (Inf - 1) /\ h.lower_constraint \in 1 .. (Inf - 1)
        /\ t(r) < End => /\ h.upper_constraint \in 1 .. (Inf - 1)
                         /\ h.max_time_step \in 1 .. (Inf - 1)
    BY <1>15, <1>16, <2>1, <2>2, PermanentConstraint
  <2>4. t(h) = t(r) /\ dt(h) = dt(r)
    BY <2>3 DEF t, dt, step
  <2>5. t(r) < End => pos + 1 \in 1 .. Len(Table)
    <3>1. SUFFICES ASSUME t(r) < End, pos = Len(Table) PROVE FALSE
      BY <1>2, Rows
    <3>2. Table[pos].time = End
      BY <3>1, Rows
    <3> QED BY <1>19, <2>1, <3>1, <3>2, Times
  <2>6. pos + 1 \in 1 .. (Len(Table) + 1)
    BY <1>2, Rows
  <2> QED BY <1>10, <1>16, <1>17, <2>3, <2>4, <2>5, <2>6 DEF h
<1>20. CASE ~ (t(r) >= Table[pos].time)
  <2>1. h = r
    BY <1>18, <1>20
  <2>2. pos \in 1 .. (Len(Table) + 1)
    BY <1>2, Rows
  <2>3. t(h) < End => up \in 1 .. (Inf - 1)
    BY <1>11, <1>12, <1>17, <2>1
  <2> QED BY <1>2, <1>10, <1>15, <1>16, <1>17, <2>1, <2>2, <2>3 DEF h
<1> QED BY <1>19, <1>20

\* The steps and the flags after next_time() before the end.
LEMMA FlagsAfterNextTime ==
  ASSUME NEW F, NEW g, GovernorOK(F, g), t(g) < End
  PROVE  LET h == next_time(Cfg, F, g)
         IN  /\ h.recent_steps[1] = MakeNext(step(g), NewLength(F, g))
             /\ h.recent_steps[2] = step(g)
             /\ h.is_time_step_fixed = (~ in_fixed_interval(g) /\ g.is_time_step_fixed)
             /\ h.time_step_changed <=>
                  (in_fixed_interval(g) => g.is_time_step_fixed) /\ dt(g) # NewLength(F, g)
             /\ h.lower_constraint = h.min_time_step
             /\ \/ h.min_time_step = g.min_time_step
                \/ \E i \in 1 .. Len(Table) : h.min_time_step = Larger(Table[i].min_dt, 1)
<1> DEFINE s == MakeNext(step(g), NewLength(F, g))
           a == advance(Cfg, F, g)
           r == relax_constraints(Cfg, a)
           h == next_time(Cfg, F, g)
           fixed == IF in_fixed_interval(g) THEN FALSE ELSE g.is_time_step_fixed
           changed == (in_fixed_interval(g) => g.is_time_step_fixed) /\ dt(g) # NewLength(F, g)
           length == IF in_fixed_interval(g) THEN NewLength(F, g) ELSE g.fixed_time_step
<1>1. g \in Governor /\ Len(g.recent_steps) \in 1 .. RecentSize /\ t(g) \in Nat
  BY DEF GovernorOK, SteadyOK, WellFormed, TimeOK
<1>2. a = [g EXCEPT !.recent_steps = PushFront(g.recent_steps, s),
                     !.fixed_time_step = length, !.is_time_step_fixed = fixed,
                     !.time_step_changed = changed]
  BY DEF advance, NewLength
<1>3. PushFront(g.recent_steps, s)[1] = s /\ PushFront(g.recent_steps, s)[2] = step(g)
  <2> HIDE DEF s, a, r, h, fixed, changed, length
  <2>0. \A n \in 1 .. RecentSize : n \in Nat /\ n >= 1
    BY DEF RecentSize
  <2>1. Len(g.recent_steps) \in Nat /\ Len(g.recent_steps) >= 1
    BY <1>1, <2>0, Zenon
  <2> DEFINE q == g.recent_steps
             n == IF Len(q) < RecentSize THEN Len(q) + 1 ELSE RecentSize
             pushed == PushFront(q, s)
  <2>2. n \in Nat /\ 1 \in 1 .. n /\ 2 \in 1 .. n
    BY <2>1 DEF RecentSize
  <2>3. pushed = [i \in 1 .. n |-> IF i = 1 THEN s ELSE q[i - 1]]
    BY DEF PushFront
  <2> HIDE DEF n, q
  <2>4. pushed[1] = s /\ pushed[2] = q[1]
    BY <2>2, <2>3
  <2> QED BY <2>4 DEF step, q
<1> HIDE DEF s, fixed, changed, length
<1>4. /\ a.recent_steps[1] = s /\ a.recent_steps[2] = step(g) /\ a.is_time_step_fixed = fixed
      /\ a.time_step_changed = changed
      /\ a.min_time_step = g.min_time_step /\ a.dt_limits_pos = g.dt_limits_pos
  BY <1>1, <1>2, <1>3 DEF Governor
<1>5. DOMAIN a = DOMAIN g
  BY <1>2
<1> HIDE DEF a
<1>6. /\ r.recent_steps = a.recent_steps /\ r.is_time_step_fixed = a.is_time_step_fixed
      /\ r.time_step_changed = a.time_step_changed /\ r.dt_limits_pos = a.dt_limits_pos
      /\ r.min_time_step = a.min_time_step /\ r.lower_constraint = a.min_time_step
  BY <1>1, <1>5 DEF relax_constraints, Governor
<1>7. h = r \/ h = set_permanent_constraint(Cfg, r)
  <2>1. ~ is_end(Cfg, g)
    BY <1>1, Times DEF is_end, Cfg
  <2> QED BY <2>1 DEF next_time, a
<1>8. DOMAIN r = DOMAIN g
  BY <1>5 DEF relax_constraints
<1> HIDE DEF r
<1>9. /\ h.recent_steps = r.recent_steps /\ h.is_time_step_fixed = r.is_time_step_fixed
      /\ h.time_step_changed = r.time_step_changed
  BY <1>1, <1>7, <1>8 DEF set_permanent_constraint, Governor
<1>10. fixed = (~ in_fixed_interval(g) /\ g.is_time_step_fixed)
  <2>1. g.is_time_step_fixed \in BOOLEAN
    BY <1>1 DEF Governor
  <2> QED BY <2>1 DEF fixed
<1>11. g.dt_limits_pos \in 1 .. Len(Table)
  BY DEF GovernorOK, SteadyOK, ConstraintOK
<1>12. /\ h.lower_constraint = h.min_time_step
       /\ \/ h.min_time_step = g.min_time_step
          \/ h.min_time_step = Larger(Table[g.dt_limits_pos].min_dt, 1)
  <2>1. CASE h = r
    BY <1>4, <1>6, <2>1
  <2>2. CASE h = set_permanent_constraint(Cfg, r)
    <3> DEFINE lo == Larger(Table[g.dt_limits_pos].min_dt, 1)
           up == Smaller(Table[g.dt_limits_pos].max_dt, Minus(End, t(r)))
    <3>1. h = [r EXCEPT !.lower_constraint = lo, !.min_time_step = lo,
                        !.upper_constraint = up, !.max_time_step = up,
                        !.dt_limits_pos = r.dt_limits_pos + 1]
      BY <1>4, <1>6, <2>2 DEF set_permanent_constraint, Cfg
    <3> HIDE DEF lo, up
    <3>2. h.lower_constraint = lo /\ h.min_time_step = lo
      BY <1>1, <1>8, <3>1 DEF Governor
    <3> QED BY <3>2 DEF lo
  <2> QED BY <1>7, <2>1, <2>2
<1> QED BY <1>4, <1>6, <1>9, <1>10, <1>11, <1>12 DEF h, changed, s

\* set_upper_constraint() changes nothing but the upper constraint, which stays positive.
LEMMA AfterSetUpper ==
  ASSUME NEW g \in Governor, NEW u \in 1 .. Inf
  PROVE  LET h == set_upper_constraint(u, g)
         IN  /\ h \in Governor
             /\ h = [g EXCEPT !.upper_constraint = h.upper_constraint]
             /\ /\ g.lower_constraint \in 1 .. (Inf - 1)
                /\ g.upper_constraint \in 1 .. (Inf - 1)
                => h.upper_constraint \in 1 .. (Inf - 1)
<1>1. g.lower_constraint \in Nat /\ g.upper_constraint \in Nat
  BY DEF Governor
<1>2. u \in Nat /\ u >= 1
  BY Times
<1> DEFINE h == set_upper_constraint(u, g)
           v == IF g.upper_constraint < u THEN g.upper_constraint
                ELSE IF g.lower_constraint > u THEN g.lower_constraint ELSE u
<1>3. h = [g EXCEPT !.upper_constraint = v]
  BY DEF set_upper_constraint, Governor
<1>4. v \in Nat /\ (/\ g.lower_constraint \in 1 .. (Inf - 1)
                   /\ g.upper_constraint \in 1 .. (Inf - 1) => v \in 1 .. (Inf - 1))
  BY <1>1, <1>2, Times
<1> HIDE DEF v, h
<1>5. h.upper_constraint = v /\ h \in Governor
  BY <1>3, <1>4 DEF Governor
<1> QED BY <1>3, <1>4, <1>5 DEF h

\* set_lower_constraint() changes nothing but the lower constraint, which stays positive.
LEMMA AfterSetLower ==
  ASSUME NEW g \in Governor, NEW l \in 1 .. (Inf - 1)
  PROVE  LET h == set_lower_constraint(l, g)
         IN  /\ h \in Governor
             /\ h = [g EXCEPT !.lower_constraint = h.lower_constraint]
             /\ /\ g.lower_constraint \in 1 .. (Inf - 1)
                /\ g.upper_constraint \in 1 .. (Inf - 1)
                => h.lower_constraint \in 1 .. (Inf - 1)
<1>1. g.lower_constraint \in Nat /\ g.upper_constraint \in Nat
  BY DEF Governor
<1>2. l \in Nat /\ l >= 1
  BY Times
<1> DEFINE h == set_lower_constraint(l, g)
           v == IF g.upper_constraint < l THEN g.upper_constraint
                ELSE IF g.lower_constraint > l THEN g.lower_constraint ELSE l
<1>3. h = [g EXCEPT !.lower_constraint = v]
  BY DEF set_lower_constraint, Governor
<1>4. v \in Nat /\ (/\ g.lower_constraint \in 1 .. (Inf - 1)
                   /\ g.upper_constraint \in 1 .. (Inf - 1) => v \in 1 .. (Inf - 1))
  BY <1>1, <1>2, Times
<1> HIDE DEF v, h
<1>5. h.lower_constraint = v /\ h \in Governor
  BY <1>3, <1>4 DEF Governor
<1> QED BY <1>3, <1>4, <1>5 DEF h

\* fix_dt_until_mark(): the interval reaches to the next fixed mark and the step fits.
LEMMA AfterFix ==
  ASSUME NEW F, F \subseteq Nat, End \in F, \A m \in F : m < Inf,
         NEW g \in Governor, t(g) \in Nat, t(g) <= End,
         t(g) < End => /\ g.lower_constraint \in 1 .. (Inf - 1)
                       /\ g.upper_constraint \in 1 .. (Inf - 1)
  PROVE  LET h == fix_dt_until_mark(Cfg, F, g)
         IN  /\ h \in Governor
             /\ h = [g EXCEPT !.fixed_time_step = h.fixed_time_step,
                              !.is_time_step_fixed = TRUE,
                              !.end_of_fixed_dt_interval = h.end_of_fixed_dt_interval]
             /\ h.end_of_fixed_dt_interval = next_fixed(F, g)
             /\ t(g) < End =>
                  /\ next_fixed(F, g) \in Nat /\ next_fixed(F, g) <= End
                  /\ h.fixed_time_step \in 1 .. (next_fixed(F, g) - t(g))
                  /\ \A m \in F : t(g) < m => next_fixed(F, g) <= m
<1> DEFINE r == [g EXCEPT !.end_of_fixed_dt_interval = NegInf]
           d == estimate_dt(Cfg, F, r)
           e == next_fixed(F, g)
           h == fix_dt_until_mark(Cfg, F, g)
<1>1. r \in Governor /\ r.recent_steps = g.recent_steps /\ r.end_of_fixed_dt_interval = NegInf
      /\ r.lower_constraint = g.lower_constraint /\ r.upper_constraint = g.upper_constraint
  BY FixedEnds DEF Governor
<1>2. h = [r EXCEPT !.fixed_time_step = d, !.is_time_step_fixed = TRUE,
                    !.end_of_fixed_dt_interval = e]
  BY DEF fix_dt_until_mark, Cfg
<1> HIDE DEF r
<1>3. t(r) = t(g)
  BY <1>1 DEF t, step
<1>4. next_fixed(F, r) = next_fixed(F, g)
  BY <1>3 DEF next_fixed
<1>5. ~ in_fixed_interval(r)
  BY <1>1, <1>3 DEF in_fixed_interval, NegInf
<1>6. t(g) < End => /\ e \in Nat /\ e <= End /\ d \in 1 .. (e - t(g))
                    /\ \A m \in F : t(g) < m => e <= m
  <2> SUFFICES ASSUME t(g) < End
               PROVE  /\ e \in Nat /\ e <= End /\ d \in 1 .. (e - t(g))
                      /\ \A m \in F : t(g) < m => e <= m
    OBVIOUS
  <2>1. d \in 1 .. (e - t(g))
    BY <1>1, <1>3, <1>4, <1>5, EstimatedStep
  <2> QED BY <2>1, NextFixed
<1>7. d \in Time /\ e \in Time
  <2>1. CASE t(g) < End
    BY <1>6, <2>1, Times DEF Time
  <2>2. CASE ~ (t(g) < End)
    <3>1. d = 0
      BY <1>3, <2>2, Times DEF estimate_dt, is_end, Cfg
    <3>2. e \in Time
      <4> DEFINE later == {m \in F : t(g) < m}
      <4>1. CASE later = {}
        BY <4>1, Times DEF next_fixed, Time
      <4>2. CASE later # {}
        <5>1. PICK m \in F : t(g) < m
          BY <4>2
        <5>2. e \in F
          BY <5>1, NextFixed
        <5>3. e \in Nat /\ e < Inf
          BY <5>2
        <5> HIDE DEF e
        <5> QED BY <5>3, Times DEF Time
      <4> QED BY <4>1, <4>2
    <3> QED BY <3>1, <3>2, Times DEF Time
  <2> QED BY <2>1, <2>2
<1> HIDE DEF d, e, h
<1>8. h \in Governor
  BY <1>1, <1>2, <1>7, FixedEnds DEF Governor
<1>9. h.fixed_time_step = d /\ h.end_of_fixed_dt_interval = e
  BY <1>1, <1>2 DEF Governor
<1>10. h = [g EXCEPT !.fixed_time_step = d, !.is_time_step_fixed = TRUE,
                     !.end_of_fixed_dt_interval = e]
  BY <1>2 DEF r, Governor
<1> QED BY <1>6, <1>8, <1>9, <1>10 DEF h, e

---------------------------------------------------------------------------
(* The methods as steps of a governor. *)

\* Constraints that change and stay positive leave the rest of a governor as it is.
LEMMA NewConstraints ==
  ASSUME NEW F, NEW g, NEW h \in Governor, SteadyOK(F, g),
         h.recent_steps = g.recent_steps, h.dt_limits_pos = g.dt_limits_pos,
         h.end_of_fixed_dt_interval = g.end_of_fixed_dt_interval,
         h.fixed_time_step = g.fixed_time_step,
         h.is_time_step_fixed = g.is_time_step_fixed,
         h.time_step_changed = g.time_step_changed,
         h.min_time_step = g.min_time_step, h.max_time_step = g.max_time_step,
         t(g) < End => /\ h.lower_constraint \in 1 .. (Inf - 1)
                       /\ h.upper_constraint \in 1 .. (Inf - 1)
  PROVE  /\ SteadyOK(F, h) /\ t(h) = t(g) /\ dt(h) = dt(g) /\ tlevel(h) = tlevel(g)
         /\ FixedOK(F, g) => FixedOK(F, h)
         /\ LengthOK(g) => LengthOK(h)
         /\ FlagOK(g) => FlagOK(h)
<1>1. t(h) = t(g) /\ dt(h) = dt(g) /\ tlevel(h) = tlevel(g)
  BY DEF t, dt, tlevel, step
<1>2. last_dt(h) = last_dt(g)
  BY <1>1 DEF last_dt
<1>3. SteadyOK(F, h)
  BY <1>1 DEF SteadyOK, WellFormed, TimeOK, ConstraintOK
<1>4. FixedOK(F, g) => FixedOK(F, h)
  BY <1>1 DEF FixedOK, in_fixed_interval
<1>5. LengthOK(g) => LengthOK(h)
  BY <1>1 DEF LengthOK, in_fixed_interval
<1>6. FlagOK(g) => FlagOK(h)
  BY <1>1, <1>2 DEF FlagOK
<1> QED BY <1>1, <1>3, <1>4, <1>5, <1>6

\* set_upper_constraint() on a governor.
LEMMA SetUpperKeeps ==
  ASSUME NEW F, NEW g, SteadyOK(F, g), NEW u \in 1 .. Inf,
         NEW h, h = set_upper_constraint(u, g)
  PROVE  /\ SteadyOK(F, h) /\ t(h) = t(g) /\ dt(h) = dt(g) /\ tlevel(h) = tlevel(g)
         /\ FixedOK(F, g) => FixedOK(F, h)
         /\ LengthOK(g) => LengthOK(h)
         /\ FlagOK(g) => FlagOK(h)
         /\ h = [g EXCEPT !.upper_constraint = h.upper_constraint]
<1>1. g \in Governor
  BY DEF SteadyOK, WellFormed
<1>2. t(g) < End => /\ g.lower_constraint \in 1 .. (Inf - 1)
                    /\ g.upper_constraint \in 1 .. (Inf - 1)
  BY DEF SteadyOK, ConstraintOK
<1>3. /\ h \in Governor /\ h = [g EXCEPT !.upper_constraint = h.upper_constraint]
      /\ t(g) < End => h.upper_constraint \in 1 .. (Inf - 1)
  BY <1>1, <1>2, AfterSetUpper
<1>4. /\ h.recent_steps = g.recent_steps /\ h.dt_limits_pos = g.dt_limits_pos
      /\ h.end_of_fixed_dt_interval = g.end_of_fixed_dt_interval
      /\ h.fixed_time_step = g.fixed_time_step
      /\ h.is_time_step_fixed = g.is_time_step_fixed
      /\ h.time_step_changed = g.time_step_changed
      /\ h.min_time_step = g.min_time_step /\ h.max_time_step = g.max_time_step
      /\ h.lower_constraint = g.lower_constraint
  BY <1>1, <1>3 DEF Governor
<1> QED BY <1>2, <1>3, <1>4, NewConstraints

\* set_lower_constraint() on a governor.
LEMMA SetLowerKeeps ==
  ASSUME NEW F, NEW g, SteadyOK(F, g), NEW l \in 1 .. (Inf - 1),
         NEW h, h = set_lower_constraint(l, g)
  PROVE  /\ SteadyOK(F, h) /\ t(h) = t(g) /\ dt(h) = dt(g) /\ tlevel(h) = tlevel(g)
         /\ FixedOK(F, g) => FixedOK(F, h)
         /\ LengthOK(g) => LengthOK(h)
         /\ FlagOK(g) => FlagOK(h)
         /\ h = [g EXCEPT !.lower_constraint = h.lower_constraint]
<1>1. g \in Governor
  BY DEF SteadyOK, WellFormed
<1>2. t(g) < End => /\ g.lower_constraint \in 1 .. (Inf - 1)
                    /\ g.upper_constraint \in 1 .. (Inf - 1)
  BY DEF SteadyOK, ConstraintOK
<1>3. /\ h \in Governor /\ h = [g EXCEPT !.lower_constraint = h.lower_constraint]
      /\ t(g) < End => h.lower_constraint \in 1 .. (Inf - 1)
  BY <1>1, <1>2, AfterSetLower
<1>4. /\ h.recent_steps = g.recent_steps /\ h.dt_limits_pos = g.dt_limits_pos
      /\ h.end_of_fixed_dt_interval = g.end_of_fixed_dt_interval
      /\ h.fixed_time_step = g.fixed_time_step
      /\ h.is_time_step_fixed = g.is_time_step_fixed
      /\ h.time_step_changed = g.time_step_changed
      /\ h.min_time_step = g.min_time_step /\ h.max_time_step = g.max_time_step
      /\ h.upper_constraint = g.upper_constraint
  BY <1>1, <1>3 DEF Governor
<1> QED BY <1>2, <1>3, <1>4, NewConstraints

\* fix_dt_until_mark(): the interval reaches to the next fixed mark, its step obeys the
\* constraints, and a whole number of them fits.
LEMMA FixKeeps ==
  ASSUME NEW F, NEW g, SteadyOK(F, g),
         t(g) < End => full_step(F, g) % n_steps(F, g) = 0,
         NEW h, h = fix_dt_until_mark(Cfg, F, g)
  PROVE  /\ GovernorOK(F, h) /\ LengthOK(h)
         /\ t(h) = t(g) /\ dt(h) = dt(g) /\ tlevel(h) = tlevel(g)
         /\ h.min_time_step = g.min_time_step /\ h.lower_constraint = g.lower_constraint
         /\ FlagOK(g) => FlagOK(h)
         /\ h.end_of_fixed_dt_interval = next_fixed(F, g)
         /\ h.end_of_fixed_dt_interval \in Time
         /\ t(g) < End =>
              /\ in_fixed_interval(h)
              /\ h.fixed_time_step <= Larger(g.upper_constraint, g.lower_constraint)
              /\ \/ 2 * h.fixed_time_step > g.lower_constraint
                 \/ h.fixed_time_step = h.end_of_fixed_dt_interval - t(h)
<1>1. /\ g \in Governor /\ t(g) \in Nat /\ t(g) <= End /\ End \in F /\ F \subseteq Nat
      /\ \A m \in F : m < Inf
  BY DEF SteadyOK, WellFormed, TimeOK
<1>2. t(g) < End => /\ g.lower_constraint \in 1 .. (Inf - 1)
                    /\ g.upper_constraint \in 1 .. (Inf - 1)
  BY DEF SteadyOK, ConstraintOK
<1>3. /\ h \in Governor
      /\ h = [g EXCEPT !.fixed_time_step = h.fixed_time_step,
                       !.is_time_step_fixed = TRUE,
                       !.end_of_fixed_dt_interval = h.end_of_fixed_dt_interval]
      /\ h.end_of_fixed_dt_interval = next_fixed(F, g)
      /\ t(g) < End =>
           /\ next_fixed(F, g) \in Nat /\ next_fixed(F, g) <= End
           /\ h.fixed_time_step \in 1 .. (next_fixed(F, g) - t(g))
           /\ \A m \in F : t(g) < m => next_fixed(F, g) <= m
  BY <1>1, <1>2, AfterFix
<1>4. /\ h.recent_steps = g.recent_steps /\ h.dt_limits_pos = g.dt_limits_pos
      /\ h.is_time_step_fixed = TRUE
      /\ h.time_step_changed = g.time_step_changed
      /\ h.min_time_step = g.min_time_step /\ h.max_time_step = g.max_time_step
      /\ h.upper_constraint = g.upper_constraint /\ h.lower_constraint = g.lower_constraint
  BY <1>1, <1>3 DEF Governor
<1>5. t(h) = t(g) /\ dt(h) = dt(g) /\ tlevel(h) = tlevel(g)
  BY <1>4 DEF t, dt, tlevel, step
<1>6. last_dt(h) = last_dt(g)
  BY <1>4, <1>5 DEF last_dt
<1>7. SteadyOK(F, h) /\ FixedOK(F, h)
  BY <1>3, <1>4, <1>5 DEF SteadyOK, WellFormed, TimeOK, ConstraintOK, FixedOK
<1> DEFINE r == [g EXCEPT !.end_of_fixed_dt_interval = NegInf]
           d == estimate_dt(Cfg, F, r)
<1>8. h.fixed_time_step = d
  <2>1. r \in Governor
    BY <1>1, FixedEnds DEF Governor
  <2>2. h = [r EXCEPT !.fixed_time_step = d, !.is_time_step_fixed = TRUE,
                      !.end_of_fixed_dt_interval = next_fixed(F, g)]
    BY DEF fix_dt_until_mark, Cfg
  <2> HIDE DEF r, d
  <2> QED BY <2>1, <2>2 DEF Governor
<1>9. r.recent_steps = g.recent_steps /\ r.end_of_fixed_dt_interval = NegInf
      /\ r.lower_constraint = g.lower_constraint /\ r.upper_constraint = g.upper_constraint
  BY <1>1 DEF Governor
<1> HIDE DEF r
<1>10. t(r) = t(g)
  BY <1>9 DEF t, step
<1>11. /\ next_fixed(F, r) = next_fixed(F, g)
       /\ full_step(F, r) = full_step(F, g)
       /\ n_steps(F, r) = n_steps(F, g)
  <2>1. next_fixed(F, r) = next_fixed(F, g)
    BY <1>10 DEF next_fixed
  <2>2. full_step(F, r) = full_step(F, g)
    BY <1>10, <2>1 DEF full_step
  <2> QED BY <1>9, <2>1, <2>2 DEF n_steps, constrained_step
<1>12. ~ in_fixed_interval(r)
  BY <1>1, <1>9, <1>10 DEF in_fixed_interval, NegInf
<1>13. t(g) < End => /\ d <= Larger(g.upper_constraint, g.lower_constraint)
                     /\ 2 * d > g.lower_constraint \/ d = next_fixed(F, g) - t(g)
                     /\ \E k \in Nat : k >= 1 /\ next_fixed(F, g) - t(g) = k * d
  <2> SUFFICES ASSUME t(g) < End
               PROVE  /\ d <= Larger(r.upper_constraint, r.lower_constraint)
                      /\ 2 * d > r.lower_constraint \/ d = next_fixed(F, r) - t(r)
                      /\ \E k \in Nat : k >= 1 /\ next_fixed(F, r) - t(r) = k * d
    BY <1>9, <1>10, <1>11
  <2>1. /\ r.lower_constraint \in 1 .. (Inf - 1) /\ r.upper_constraint \in 1 .. (Inf - 1)
        /\ full_step(F, r) % n_steps(F, r) = 0 /\ t(r) \in Nat /\ t(r) < End
    BY <1>1, <1>2, <1>9, <1>10, <1>11
  <2> QED BY <1>1, <1>12, <2>1, EstimateObeys
<1>14. t(g) < End => in_fixed_interval(h)
  BY <1>1, <1>3, <1>5, NextFixed DEF in_fixed_interval
<1> HIDE DEF d
<1>15. LengthOK(h)
  BY <1>3, <1>4, <1>5, <1>8, <1>13 DEF LengthOK
<1>16. FlagOK(g) => FlagOK(h)
  BY <1>4, <1>5, <1>6 DEF FlagOK
<1>17. next_fixed(F, g) \in Time
  <2>1. CASE t(g) < End
    BY <1>3, <2>1, Times DEF Time
  <2>2. CASE ~ (t(g) < End)
    <3> DEFINE later == {m \in F : t(g) < m}
    <3>1. CASE later = {}
      BY <3>1, Times DEF next_fixed, Time
    <3>2. CASE later # {}
      <4>1. PICK m \in F : t(g) < m
        BY <3>2
      <4>2. next_fixed(F, g) \in F
        BY <1>1, <4>1, NextFixed
      <4>3. next_fixed(F, g) \in Nat /\ next_fixed(F, g) < Inf
        BY <1>1, <4>2
      <4> QED BY <4>3, Times DEF Time
    <3> QED BY <3>1, <3>2
  <2> QED BY <2>1, <2>2
<1> QED BY <1>3, <1>4, <1>5, <1>7, <1>8, <1>13, <1>14, <1>15, <1>16, <1>17 DEF GovernorOK

\* next_time() before the end: no fixed mark is skipped, inside a fixed interval the step is
\* the fixed one.
LEMMA NextTimeMeets ==
  ASSUME NEW F, NEW g, GovernorOK(F, g), t(g) < End, WholeOK(g),
         NEW h, h = next_time(Cfg, F, g)
  PROVE  /\ GovernorOK(F, h) /\ LengthOK(h)
         /\ t(h) \in Nat /\ t(g) < t(h) /\ t(h) <= End
         /\ \A m \in F : t(g) < m => t(h) <= m
         /\ dt(h) \in Nat /\ dt(h) >= 1 /\ t(h) = t(g) + dt(h)
         /\ dt(h) = NewLength(F, g)
         /\ tlevel(h) = tlevel(g) + 1 /\ last_dt(h) = dt(g)
         /\ in_fixed_interval(g) =>
              dt(h) = g.fixed_time_step /\ h.fixed_time_step = g.fixed_time_step
         /\ h.end_of_fixed_dt_interval = g.end_of_fixed_dt_interval
         /\ h.lower_constraint = h.min_time_step
         /\ \/ h.min_time_step = g.min_time_step
            \/ \E i \in 1 .. Len(Table) : h.min_time_step = Larger(Table[i].min_dt, 1)
<1> DEFINE e == g.end_of_fixed_dt_interval
           c == g.fixed_time_step
           new == NewLength(F, g)
<1>1. /\ g \in Governor /\ Len(g.recent_steps) \in 1 .. RecentSize /\ t(g) \in Nat
      /\ End \in F /\ F \subseteq Nat /\ \A m \in F : m < Inf
  BY DEF GovernorOK, SteadyOK, WellFormed, TimeOK
<1>2. /\ h \in Governor
      /\ Len(h.recent_steps) \in 1 .. RecentSize
      /\ h.dt_limits_pos \in 1 .. (Len(Table) + 1)
      /\ t(h) = t(g) + new /\ dt(h) = new
      /\ h.end_of_fixed_dt_interval = e
      /\ in_fixed_interval(g) => h.fixed_time_step = new
      /\ h.min_time_step \in 1 .. (Inf - 1)
      /\ t(h) < End => /\ h.lower_constraint \in 1 .. (Inf - 1)
                       /\ h.upper_constraint \in 1 .. (Inf - 1)
                       /\ h.max_time_step \in 1 .. (Inf - 1)
                       /\ h.dt_limits_pos \in 1 .. Len(Table)
  BY AfterNextTime
<1>3. /\ new \in Nat /\ new >= 1 /\ t(g) + new <= End
      /\ \A m \in F : t(g) < m => t(g) + new <= m
      /\ in_fixed_interval(g) => new <= e - t(g) /\ (new # e - t(g) => new <= e - t(g) - new)
  BY NewLengthFits
<1>4. /\ h.recent_steps[1] = MakeNext(step(g), new) /\ h.recent_steps[2] = step(g)
      /\ h.is_time_step_fixed = (~ in_fixed_interval(g) /\ g.is_time_step_fixed)
      /\ h.time_step_changed <=>
           (in_fixed_interval(g) => g.is_time_step_fixed) /\ dt(g) # new
      /\ h.lower_constraint = h.min_time_step
      /\ \/ h.min_time_step = g.min_time_step
         \/ \E i \in 1 .. Len(Table) : h.min_time_step = Larger(Table[i].min_dt, 1)
  BY FlagsAfterNextTime
<1> HIDE DEF new
<1>5. tlevel(h) = tlevel(g) + 1 /\ tlevel(g) \in Nat
  <2>1. step(g) \in TimeStep
    BY <1>1 DEF step, Governor, RecentSize
  <2> QED BY <1>4, <2>1 DEF tlevel, step, MakeNext, TimeStep
<1>6. last_dt(h) = dt(g)
  BY <1>4, <1>5 DEF last_dt, dt
<1>7. t(h) \in Nat /\ t(g) < t(h) /\ t(h) <= End
  BY <1>1, <1>2, <1>3
<1>8. SteadyOK(F, h)
  BY <1>1, <1>2, <1>7 DEF SteadyOK, WellFormed, TimeOK, ConstraintOK
<1>9. CASE in_fixed_interval(g)
  <2>1. e <= End /\ c \in 1 .. (e - t(g)) /\ \A m \in F : t(g) < m => e <= m
    BY <1>9 DEF GovernorOK, FixedOK
  <2>2. e \in Nat /\ t(g) < e
    <3>1. e \in NegInf .. Inf
      BY <1>1 DEF Governor
    <3>2. t(g) < e
      BY <1>9 DEF in_fixed_interval
    <3> QED BY <1>1, <3>1, <3>2, Times DEF Time, NegInf
  <2>3. PICK k \in Nat : k >= 1 /\ e - t(g) = k * c
    BY <1>9 DEF WholeOK
  <2>5. c \in Nat /\ c >= 1
    BY <1>1, <2>1, <2>2
  <2>6. new = c
    <3>1. new = corrected_fixed_step(g)
      BY <1>9 DEF NewLength, new
    <3> QED BY <1>1, <2>1, <2>2, <2>3, <2>5, <3>1, CorrectedIsFixed
  <2> HIDE DEF e, c
  <2>7. ASSUME t(h) < e
        PROVE  k - 1 \in Nat /\ k - 1 >= 1 /\ e - t(h) = (k - 1) * c
    <3>a. k * c \in Nat
      BY <2>3, <2>5
    <3>b. t(h) = t(g) + c
      BY <1>2, <2>6
    <3>1. e - t(h) = k * c - c
      BY <1>1, <2>2, <2>3, <2>5, <3>a, <3>b
    <3>2. k # 1
      <4>1. SUFFICES ASSUME k = 1 PROVE FALSE
        OBVIOUS
      <4>2. k * c = c
        BY <2>5, <4>1
      <4> QED BY <1>1, <1>2, <1>3, <2>2, <2>5, <2>7, <3>1, <4>2
    <3>3. k * c - c = (k - 1) * c
      BY <2>3, <2>5
    <3> QED BY <2>3, <3>1, <3>2, <3>3
  <2>8. in_fixed_interval(h) => t(h) < e
    BY <1>2 DEF in_fixed_interval
  <2>9. FixedOK(F, h)
    <3> SUFFICES ASSUME t(h) < End, t(h) < e
                 PROVE  /\ e <= End /\ c \in 1 .. (e - t(h))
                        /\ \A m \in F : t(h) < m => e <= m
      BY <1>2, <1>9, <2>6, <2>8 DEF FixedOK
    <3>1. c \in 1 .. (e - t(h))
      <4>1. c <= (k - 1) * c
        BY <2>5, <2>7
      <4> QED BY <1>7, <2>2, <2>5, <2>7, <4>1
    <3>2. \A m \in F : t(h) < m => e <= m
      BY <1>1, <1>7, <2>1
    <3> QED BY <2>1, <3>1, <3>2
  <2>10. LengthOK(h)
    <3> SUFFICES ASSUME t(h) < End, t(h) < e
                 PROVE  /\ \E j \in Nat : j >= 1 /\ e - t(h) = j * c
                        /\ dt(h) = c
      BY <1>2, <1>9, <2>6, <2>8 DEF LengthOK
    <3> QED BY <1>2, <2>6, <2>7
  <2> QED BY <1>2, <1>3, <1>4, <1>5, <1>6, <1>7, <1>8, <1>9, <2>6, <2>9, <2>10
          DEF GovernorOK, e, c, new
<1>10. CASE ~ in_fixed_interval(g)
  <2>1. ~ in_fixed_interval(h)
    <3>1. e \in Int
      BY <1>1, Times DEF Governor, Time, NegInf
    <3>2. ~ (t(g) < e)
      BY <1>10 DEF in_fixed_interval
    <3> HIDE DEF e
    <3>3. ~ (t(h) < e)
      BY <1>1, <1>2, <1>3, <3>1, <3>2
    <3> QED BY <1>2, <3>3 DEF in_fixed_interval
  <2>2. FixedOK(F, h) /\ LengthOK(h)
    BY <2>1 DEF FixedOK, LengthOK
  <2> QED BY <1>2, <1>3, <1>4, <1>5, <1>6, <1>7, <1>8, <1>10, <2>2 DEF GovernorOK, new
<1> QED BY <1>9, <1>10

\* With equal lengths inside a fixed interval the flag tells whether the length has changed.
LEMMA NextTimeKeeps ==
  ASSUME NEW F, NEW g, GovernorOK(F, g), t(g) < End, LengthOK(g),
         NEW h, h = next_time(Cfg, F, g)
  PROVE  /\ GovernorOK(F, h) /\ LengthOK(h) /\ FlagOK(h)
         /\ t(h) \in Nat /\ t(g) < t(h) /\ t(h) <= End
         /\ \A m \in F : t(g) < m => t(h) <= m
         /\ dt(h) \in Nat /\ dt(h) >= 1 /\ t(h) = t(g) + dt(h)
         /\ dt(h) = NewLength(F, g)
         /\ tlevel(h) = tlevel(g) + 1 /\ last_dt(h) = dt(g)
         /\ in_fixed_interval(g) =>
              dt(h) = g.fixed_time_step /\ h.fixed_time_step = g.fixed_time_step
         /\ h.end_of_fixed_dt_interval = g.end_of_fixed_dt_interval
         /\ h.lower_constraint = h.min_time_step
         /\ \/ h.min_time_step = g.min_time_step
            \/ \E i \in 1 .. Len(Table) : h.min_time_step = Larger(Table[i].min_dt, 1)
<1>1. WholeOK(g)
  BY DEF LengthOK, WholeOK
<1>2. /\ GovernorOK(F, h) /\ LengthOK(h)
      /\ t(h) \in Nat /\ t(g) < t(h) /\ t(h) <= End
      /\ \A m \in F : t(g) < m => t(h) <= m
      /\ dt(h) \in Nat /\ dt(h) >= 1 /\ t(h) = t(g) + dt(h)
      /\ dt(h) = NewLength(F, g)
      /\ tlevel(h) = tlevel(g) + 1 /\ last_dt(h) = dt(g)
      /\ in_fixed_interval(g) =>
           dt(h) = g.fixed_time_step /\ h.fixed_time_step = g.fixed_time_step
      /\ h.end_of_fixed_dt_interval = g.end_of_fixed_dt_interval
      /\ h.lower_constraint = h.min_time_step
      /\ \/ h.min_time_step = g.min_time_step
         \/ \E i \in 1 .. Len(Table) : h.min_time_step = Larger(Table[i].min_dt, 1)
  BY <1>1, NextTimeMeets
<1>3. h.time_step_changed <=>
        (in_fixed_interval(g) => g.is_time_step_fixed) /\ dt(g) # NewLength(F, g)
  BY FlagsAfterNextTime
<1>4. in_fixed_interval(g) /\ ~ g.is_time_step_fixed => dt(g) = g.fixed_time_step
  BY DEF LengthOK
<1>5. FlagOK(h)
  <2>1. in_fixed_interval(g) => NewLength(F, g) = g.fixed_time_step
    BY <1>2
  <2>2. h.time_step_changed <=> dt(h) # dt(g)
    BY <1>2, <1>3, <1>4, <2>1
  <2> QED BY <1>2, <2>2 DEF FlagOK
<1> QED BY <1>2, <1>5

\* The constructor makes a governor at the start time, without a fixed interval.
LEMMA InitialGovernor ==
  ASSUME NEW F, F \subseteq Nat, End \in F, \A m \in F : m < Inf,
         NEW pos \in 1 .. (Len(Table) - 1),
         NEW g, g = input_governor(Cfg, pos, InitDt, Second)
  PROVE  /\ GovernorOK(F, g) /\ LengthOK(g) /\ FlagOK(g)
         /\ t(g) = Start /\ tlevel(g) = 0 /\ ~ in_fixed_interval(g)
         /\ g.end_of_fixed_dt_interval = Start
         /\ g.min_time_step = Larger(Table[pos].min_dt, 1)
         /\ g.lower_constraint = (IF InitDt > 0 THEN InitDt ELSE g.min_time_step)
<1> DEFINE c == [init_common(Cfg, Second) EXCEPT !.dt_limits_pos = pos]
           b == set_permanent_constraint(Cfg, c)
<1>1. init_common(Cfg, Second) \in Governor
  <2>1. [index |-> 0, length |-> Second, end |-> Start] \in TimeStep
    BY Times DEF TimeStep, Time
  <2>2. <<[index |-> 0, length |-> Second, end |-> Start]>> \in Seq(TimeStep)
    BY <2>1
  <2>3. Minus(End, Start) \in Nat /\ Start \in Time /\ 0 \in Time
    BY Times DEF Minus, Time
  <2> QED BY <2>2, <2>3, FixedEnds DEF init_common, Cfg, Governor
<1>2. pos \in Nat /\ pos \in 1 .. Len(Table) /\ pos + 1 \in 1 .. Len(Table)
  BY Rows
<1>3. c \in Governor
  BY <1>1, <1>2 DEF Governor
<1>4. /\ c.recent_steps = <<[index |-> 0, length |-> Second, end |-> Start]>>
      /\ c.end_of_fixed_dt_interval = Start /\ c.dt_limits_pos = pos
  BY DEF init_common, Cfg
<1>5. t(c) = Start
  BY <1>4 DEF t, step
<1> HIDE DEF c
<1>6. /\ b \in Governor /\ b.recent_steps = c.recent_steps
      /\ b.end_of_fixed_dt_interval = Start
      /\ b.dt_limits_pos = pos + 1
      /\ b.min_time_step \in 1 .. (Inf - 1) /\ b.lower_constraint \in 1 .. (Inf - 1)
      /\ b.upper_constraint \in 1 .. (Inf - 1) /\ b.max_time_step \in 1 .. (Inf - 1)
  BY <1>2, <1>3, <1>4, <1>5, Times, PermanentConstraint, SMTT(30)
<1>7. b.min_time_step = Larger(Table[pos].min_dt, 1) /\ b.lower_constraint = b.min_time_step
  <2> DEFINE lo == Larger(Table[pos].min_dt, 1)
  <2>1. b.min_time_step = lo /\ b.lower_constraint = lo
    BY <1>3, <1>4 DEF set_permanent_constraint, Cfg, Governor
  <2> QED BY <2>1
<1>8. g = IF InitDt > 0 THEN [b EXCEPT !.lower_constraint = InitDt, !.upper_constraint = InitDt]
          ELSE b
  BY DEF input_governor, c
<1> HIDE DEF b
<1>9. /\ g \in Governor /\ g.recent_steps = c.recent_steps
      /\ g.end_of_fixed_dt_interval = Start /\ g.dt_limits_pos = pos + 1
      /\ g.min_time_step = b.min_time_step /\ g.max_time_step \in 1 .. (Inf - 1)
      /\ g.lower_constraint \in 1 .. (Inf - 1) /\ g.upper_constraint \in 1 .. (Inf - 1)
      /\ g.lower_constraint = (IF InitDt > 0 THEN InitDt ELSE b.lower_constraint)
  <2>1. CASE InitDt > 0
    <3>1. InitDt \in Nat /\ InitDt \in 1 .. (Inf - 1)
      BY <2>1, Times
    <3>2. g = [b EXCEPT !.lower_constraint = InitDt, !.upper_constraint = InitDt]
      BY <1>8, <2>1
    <3>3. g \in Governor
      BY <1>6, <3>1, <3>2 DEF Governor
    <3>4. /\ g.recent_steps = b.recent_steps
          /\ g.end_of_fixed_dt_interval = b.end_of_fixed_dt_interval
          /\ g.dt_limits_pos = b.dt_limits_pos
          /\ g.min_time_step = b.min_time_step /\ g.max_time_step = b.max_time_step
          /\ g.lower_constraint = InitDt /\ g.upper_constraint = InitDt
      BY <1>6, <3>2 DEF Governor
    <3> QED BY <1>6, <2>1, <3>1, <3>3, <3>4
  <2>2. CASE ~ (InitDt > 0)
    BY <1>6, <1>8, <2>2
  <2> QED BY <2>1, <2>2
<1>10. t(g) = Start /\ tlevel(g) = 0
  BY <1>4, <1>9 DEF t, tlevel, step
<1>11. ~ in_fixed_interval(g)
  BY <1>9, <1>10, Times DEF in_fixed_interval
<1>12. SteadyOK(F, g)
  <2>1. Len(g.recent_steps) \in 1 .. RecentSize
    BY <1>4, <1>9 DEF RecentSize
  <2>2. g.dt_limits_pos \in 1 .. (Len(Table) + 1)
    BY <1>2, <1>9, Rows
  <2>3. TimeOK(F, g)
    BY <1>10, Times DEF TimeOK
  <2>4. ConstraintOK(g)
    BY <1>2, <1>6, <1>9 DEF ConstraintOK
  <2> QED BY <1>9, <2>1, <2>2, <2>3, <2>4 DEF SteadyOK, WellFormed
<1>13. FixedOK(F, g) /\ LengthOK(g) /\ FlagOK(g)
  BY <1>10, <1>11 DEF FixedOK, LengthOK, FlagOK
<1> QED BY <1>7, <1>9, <1>10, <1>11, <1>12, <1>13 DEF GovernorOK
=============================================================================
