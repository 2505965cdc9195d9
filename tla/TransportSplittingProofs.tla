---------------------- MODULE TransportSplittingProofs ----------------------
(***************************************************************************)
(* Proofs about TransportSplitting for every time record, all times of     *)
(* inputs and outputs, all steps of the flow and all CFL limits.           *)
(***************************************************************************)
EXTENDS TransportSplitting, GovernorLemmas

Values == {data_at(f, x) : f \in Fields, x \in Int} \cup {0}
FieldState == [time : Int, value : Values, changed : BOOLEAN]
Data == {data(k, fs) : k \in DOMAIN deps, fs \in [Fields -> FieldState]}

TsTypeOK ==
  /\ pc \in {"idle", "evaluate", "solve"}
  /\ first \in BOOLEAN /\ is_mass_diag_changed \in BOOLEAN
  /\ cfl \in 1 .. Inf
  /\ field \in [Fields -> FieldState]
  /\ flux \in [time : Int, value : Nat, changed : BOOLEAN]
  /\ term \in [Terms -> [flux : Nat, data : Data, scale : Nat]]
  /\ scaled \in [Terms -> BOOLEAN]

\* The governor of TOS never fixes a step.  The convection is behind it or level with it, no
\* fixed mark lies between them, and while it is behind, its step is fixed up to the time of
\* TOS.
InnerFollowsOuter ==
  /\ GovernorOK(marks, tos) /\ tos.end_of_fixed_dt_interval = Start /\ Start <= t(tos)
  /\ GovernorOK(marks, conv) /\ LengthOK(conv)
  /\ t(conv) <= t(tos) /\ t(tos) \in marks
  /\ \A m \in marks : t(conv) < m => t(tos) <= m
  /\ pc = "idle" => t(conv) = t(tos)
  /\ pc = "solve" => t(conv) < t(tos)
  /\ pc # "idle" /\ t(conv) < t(tos) => conv.end_of_fixed_dt_interval = t(tos)

\* The fixed step was chosen under the newest CFL limit.
FixedUnderCfl ==
  /\ conv.min_time_step \in user_limits /\ conv.lower_constraint \in user_limits
  /\ (pc = "solve" \/ (pc = "evaluate" /\ ~ first)) /\ in_fixed_interval(conv) =>
       \E l \in user_limits : conv.fixed_time_step <= Larger(cfl, l)

\* A scaled term has the length of the last step of the convection.
ScaledByLastStep ==
  /\ \A k \in Terms : scaled[k] => /\ dt(conv) \in Nat /\ dt(conv) >= 1
                                   /\ term[k].scale = dt(conv)
  /\ pc = "evaluate" /\ ~ first => \A k \in Terms : scaled[k]

Started == field["por"].time # NegInf

\* The fields are set to the time of the convection, and what is not assembled from them is
\* flagged as changed until evaluate_time_constraint() is called.
AssembledOrFlagged ==
  /\ ~ Started => pc = "idle" /\ \A k \in Terms : ~ scaled[k]
  /\ Started =>
       /\ \A f \in Fields : field[f].time = t(conv) /\ field[f].value = data_at(f, t(conv))
       /\ \A f \in deps["mass"] : mass[f] = field[f].value
       /\ \A f \in deps["src"] :
            term["src"].data[f] = field[f].value \/ (pc # "solve" /\ field[f].changed)
       /\ term["bc"].data["bc"] = field["bc"].value \/ (pc # "solve" /\ field["bc"].changed)
  /\ ~ flux.changed \/ pc = "solve" => term["tm"].flux = flux.value

TsInv ==
  /\ TsTypeOK /\ InnerFollowsOuter /\ FixedUnderCfl /\ StepObeysCfl
  /\ ScaledByLastStep /\ AssembledOrFlagged

---------------------------------------------------------------------------
(* Lemmas on the operators. *)

\* The least steps of the user are numbers.
LEMMA UserLimits ==
  /\ user_limits \subseteq Nat
  /\ InitDt \in user_limits
  /\ \A i \in 1 .. Len(Table) : Larger(Table[i].min_dt, 1) \in user_limits
<1>1. \A i \in 1 .. Len(Table) : Larger(Table[i].min_dt, 1) \in Nat
  BY Rows DEF Larger
<1>2. InitDt \in Nat
  BY Times
<1> QED BY <1>1, <1>2 DEF user_limits

\* A step chosen after set_upper_constraint(u) is at most u or the lower constraint.
LEMMA UnderLimit ==
  ASSUME NEW g \in Governor, NEW u \in 1 .. Inf, NEW h, h = set_upper_constraint(u, g),
         NEW d \in Nat, d <= Larger(h.upper_constraint, h.lower_constraint)
  PROVE  d <= Larger(u, g.lower_constraint)
<1>1. g.lower_constraint \in Nat /\ g.upper_constraint \in Nat /\ u \in Nat
  BY Times DEF Governor
<1>2. h.lower_constraint = g.lower_constraint
  BY DEF set_upper_constraint, Governor
<1>3. \/ h.upper_constraint = g.upper_constraint /\ g.upper_constraint < u
      \/ h.upper_constraint = g.lower_constraint
      \/ h.upper_constraint = u
  BY <1>1 DEF set_upper_constraint, Governor
<1>4. h.upper_constraint \in Nat
  BY <1>1, <1>3
<1> QED BY <1>1, <1>2, <1>3, <1>4 DEF Larger

\* What a term is assembled from.
LEMMA DataOfTerm ==
  ASSUME NEW fs \in [Fields -> FieldState], NEW k \in DOMAIN deps
  PROVE  data(k, fs) \in Data /\ \A f \in deps[k] : data(k, fs)[f] = fs[f].value
BY DEF data, Data

\* Setting the fields to the time they have changes nothing.
LEMMA SameTime ==
  ASSUME NEW time, field \in [Fields -> FieldState], \A f \in Fields : field[f].time = time
  PROVE  set_time(time) = field
<1>1. \A f \in Fields : set_time(time)[f] = field[f]
  BY DEF set_time
<1> QED BY <1>1 DEF set_time

\* Setting the fields to a later time flags those whose value has changed.
LEMMA LaterTime ==
  ASSUME NEW time \in Int, field \in [Fields -> FieldState],
         \A f \in Fields : field[f].time # time, NEW fs, fs = set_time(time)
  PROVE  /\ fs \in [Fields -> FieldState]
         /\ \A f \in Fields : /\ fs[f].time = time /\ fs[f].value = data_at(f, time)
                              /\ fs[f].value = field[f].value \/ fs[f].changed
<1>1. \A f \in Fields : fs[f] = [time |-> time, value |-> data_at(f, time),
                                 changed |-> data_at(f, time) # field[f].value]
  BY DEF set_time
<1>2. \A f \in Fields : data_at(f, time) \in Values
  BY DEF Values
<1>3. ASSUME NEW f \in Fields
      PROVE  fs[f] \in FieldState /\ fs[f].time = time /\ fs[f].value = data_at(f, time)
             /\ (fs[f].value = field[f].value \/ fs[f].changed)
  <2> DEFINE value == data_at(f, time)
             changed == value # field[f].value
  <2>1. changed \in BOOLEAN
    OBVIOUS
  <2>2. fs[f] = [time |-> time, value |-> value, changed |-> changed]
    BY <1>1
  <2>3. value \in Values /\ (value = field[f].value \/ changed)
    BY <1>2
  <2> HIDE DEF value, changed
  <2>4. /\ fs[f] \in FieldState /\ fs[f].time = time /\ fs[f].value = value
        /\ fs[f].changed = changed
    BY <2>1, <2>2, <2>3 DEF FieldState
  <2> QED BY <2>3, <2>4 DEF value
<1>4. fs \in [Fields -> FieldState]
  BY <1>3 DEF set_time
<1> QED BY <1>3, <1>4

\* Setting the time of the velocity keeps its value and raises no flag.
LEMMA FluxTime ==
  ASSUME flux \in [time : Int, value : Nat, changed : BOOLEAN], NEW time \in Int,
         NEW fl, fl = set_flux_time(flux, time)
  PROVE  /\ fl \in [time : Int, value : Nat, changed : BOOLEAN]
         /\ fl.value = flux.value /\ (fl.changed => flux.changed)
BY DEF set_flux_time

---------------------------------------------------------------------------
\* Both governors and all terms as constructed satisfy the invariant.
LEMMA TsInitial == Init => TsInv
<1> SUFFICES ASSUME Init PROVE TsInv
  OBVIOUS
<1>1. PICK pos \in 1 .. (Len(Table) - 1) : tos = input_governor(Cfg, pos, InitDt, Second)
                                           /\ conv = tos
  BY DEF Init, Cfg
<1>2. marks \subseteq Nat /\ End \in marks /\ Start \in marks /\ \A m \in marks : m < Inf
  <2>1. marks = ({Start, End} \ {Inf}) \cup Outputs \cup UNION {InputTimes[f] : f \in Fields}
    BY DEF Init, init_marks, Cfg
  <2>2. \A m \in Outputs \cup UNION {InputTimes[f] : f \in Fields} : m \in 0 .. (Inf - 1)
    BY SplittingAssumption
  <2>3. Start \in Nat /\ End \in Nat /\ Start < Inf /\ End < Inf
    BY Times
  <2>4. marks = {Start, End} \cup Outputs \cup UNION {InputTimes[f] : f \in Fields}
    BY <2>1, <2>3
  <2>5. Inf \in Nat
    BY Times
  <2>6. \A m \in marks : m \in Nat /\ m < Inf
    BY <2>2, <2>3, <2>4, <2>5
  <2> QED BY <2>4, <2>6
<1>3. /\ GovernorOK(marks, tos) /\ LengthOK(tos)
      /\ t(tos) = Start /\ ~ in_fixed_interval(tos)
      /\ tos.end_of_fixed_dt_interval = Start
      /\ tos.min_time_step = Larger(Table[pos].min_dt, 1)
      /\ tos.lower_constraint = (IF InitDt > 0 THEN InitDt ELSE tos.min_time_step)
  BY <1>1, <1>2, InitialGovernor
<1>4. TsTypeOK
  <2>1. field \in [Fields -> FieldState]
    BY DEF Init, FieldState, Values, NegInf
  <2>2. \A k \in Terms : data(k, field) \in Data
    BY <2>1, DataOfTerm DEF Terms, deps
  <2>3. cfl \in 1 .. Inf
    BY Times DEF Init, Cfg
  <2>4. term \in [Terms -> [flux : Nat, data : Data, scale : Nat]]
    BY <2>2 DEF Init
  <2>5. flux \in [time : Int, value : Nat, changed : BOOLEAN]
    BY DEF Init, NegInf
  <2>6. scaled \in [Terms -> BOOLEAN]
    BY DEF Init
  <2> QED BY <2>1, <2>3, <2>4, <2>5, <2>6 DEF Init, TsTypeOK
<1>5. InnerFollowsOuter
  BY <1>1, <1>2, <1>3, Times DEF Init, InnerFollowsOuter
<1>6. FixedUnderCfl
  <2>1. pos \in 1 .. Len(Table)
    BY Rows
  <2>2. tos.min_time_step \in user_limits
    BY <1>3, <2>1, UserLimits
  <2> QED BY <1>1, <1>3, <2>2, UserLimits DEF Init, FixedUnderCfl
<1>7. StepObeysCfl /\ ScaledByLastStep
  BY DEF Init, StepObeysCfl, ScaledByLastStep
<1>8. AssembledOrFlagged
  <2>1. ~ Started
    BY DEF Init, Started, Fields
  <2>2. pc = "idle" /\ \A k \in Terms : ~ scaled[k]
    BY DEF Init
  <2>3. term["tm"].flux = flux.value
    BY DEF Init, Terms
  <2> QED BY <2>1, <2>2, <2>3 DEF AssembledOrFlagged
<1> QED BY <1>4, <1>5, <1>6, <1>7, <1>8 DEF TsInv

---------------------------------------------------------------------------
(* The steps. *)

\* A new flow solution keeps the invariant.
LEMMA VelocityStep ==
  ASSUME TsInv, NEW ahead \in {0} \cup WaterSteps, NewVelocity(ahead)
  PROVE  TsInv'
<1>1. t(conv) \in Nat
  BY DEF TsInv, InnerFollowsOuter, GovernorOK, SteadyOK, TimeOK
<1>2. ahead \in Int
  BY SplittingAssumption, Times
<1>3. flux' \in [time : Int, value : Nat, changed : BOOLEAN] /\ flux'.changed
  <2>1. flux.value \in Nat
    BY DEF TsInv, TsTypeOK
  <2>2. flux.value + 1 \in Nat /\ t(conv) + ahead \in Int
    BY <1>1, <1>2, <2>1
  <2> QED BY <2>2 DEF NewVelocity
<1>4. TsTypeOK'
  BY <1>3 DEF TsInv, TsTypeOK, NewVelocity
<1>5. InnerFollowsOuter' /\ FixedUnderCfl' /\ StepObeysCfl' /\ ScaledByLastStep'
  BY DEF TsInv, InnerFollowsOuter, FixedUnderCfl, StepObeysCfl, ScaledByLastStep, NewVelocity
<1>6. AssembledOrFlagged'
  BY <1>3 DEF TsInv, AssembledOrFlagged, Started, NewVelocity
<1> QED BY <1>4, <1>5, <1>6 DEF TsInv

\* zero_time_step() keeps the invariant.
LEMMA ZeroStep ==
  ASSUME TsInv, ZeroTimeStep
  PROVE  TsInv'
<1>1. t(conv) \in Nat /\ UNCHANGED <<pc, tos, conv, marks, cfl, first>>
  BY DEF TsInv, InnerFollowsOuter, GovernorOK, SteadyOK, TimeOK, ZeroTimeStep
<1>2. /\ field' \in [Fields -> FieldState]
      /\ \A f \in Fields : field'[f].time = t(conv) /\ field'[f].value = data_at(f, t(conv))
  <2>1. \A f \in Fields : data_at(f, t(conv)) \in Values
    BY <1>1 DEF Values
  <2> QED BY <1>1, <2>1 DEF ZeroTimeStep, FieldState
<1>3. /\ flux' \in [time : Int, value : Nat, changed : BOOLEAN]
      /\ flux'.value = flux.value
  <2>1. t(conv) \in Int /\ flux' = set_flux_time(flux, t(conv))
    BY <1>1 DEF ZeroTimeStep
  <2>2. flux \in [time : Int, value : Nat, changed : BOOLEAN]
    BY DEF TsInv, TsTypeOK
  <2> QED BY <2>1, <2>2, FluxTime
<1>4. \A k \in DOMAIN deps : /\ data(k, field') \in Data
                             /\ \A f \in deps[k] : data(k, field')[f] = field'[f].value
  BY <1>2, DataOfTerm
<1>5. flux.value \in Nat
  BY DEF TsInv, TsTypeOK
<1>6. /\ term' \in [Terms -> [flux : Nat, data : Data, scale : Nat]]
      /\ \A k \in Terms : term'[k].flux = flux.value /\ term'[k].data = data(k, field')
  <2>1. \A k \in Terms : data(k, field') \in Data
    BY <1>4 DEF Terms, deps
  <2> QED BY <1>5, <2>1 DEF ZeroTimeStep
<1>7. scaled' = scaled /\ pc = "idle" /\ ~ Started
  <2>1. ~ Started /\ pc = "idle"
    BY DEF ZeroTimeStep, Started
  <2>2. \A k \in Terms : ~ scaled[k]
    BY <2>1 DEF TsInv, AssembledOrFlagged
  <2>3. scaled \in [Terms -> BOOLEAN]
    BY DEF TsInv, TsTypeOK
  <2>4. scaled["tm"] = FALSE
    BY <2>2, <2>3 DEF Terms
  <2>5. scaled' = [scaled EXCEPT !["tm"] = FALSE]
    BY DEF ZeroTimeStep
  <2> QED BY <2>1, <2>3, <2>4, <2>5 DEF Terms
<1>8. TsTypeOK'
  <2>1. is_mass_diag_changed' \in BOOLEAN
    BY DEF ZeroTimeStep
  <2> QED BY <1>1, <1>2, <1>3, <1>6, <1>7, <2>1 DEF TsInv, TsTypeOK
<1>9. InnerFollowsOuter' /\ FixedUnderCfl' /\ StepObeysCfl'
  BY <1>1 DEF TsInv, InnerFollowsOuter, FixedUnderCfl, StepObeysCfl
<1>10. ScaledByLastStep'
  <2>1. \A k \in Terms : ~ scaled[k]
    BY <1>7 DEF TsInv, AssembledOrFlagged
  <2> QED BY <1>1, <1>7, <2>1 DEF ScaledByLastStep
<1>11. AssembledOrFlagged'
  <2>1. Started'
    BY <1>1, <1>2 DEF Started, Fields, NegInf
  <2>2. \A f \in deps["mass"] : mass'[f] = field'[f].value
    BY <1>4 DEF ZeroTimeStep, deps
  <2>3. \A f \in deps["src"] : term'["src"].data[f] = field'[f].value
    BY <1>4, <1>6 DEF Terms, deps
  <2>4. term'["bc"].data["bc"] = field'["bc"].value
    BY <1>4, <1>6 DEF Terms, deps
  <2>5. term'["tm"].flux = flux'.value
    BY <1>3, <1>6 DEF Terms
  <2> QED BY <1>1, <1>2, <2>1, <2>2, <2>3, <2>4, <2>5 DEF AssembledOrFlagged
<1> QED BY <1>8, <1>9, <1>10, <1>11 DEF TsInv

\* The loop is left when the convection has reached the time of TOS.
LEMMA LeaveLoop ==
  ASSUME TsInv, FinishStep
  PROVE  TsInv'
<1>1. /\ UNCHANGED <<tos, conv, marks, field, flux, term, scaled, mass, is_mass_diag_changed,
                     cfl, first>>
      /\ pc = "evaluate" /\ pc' = "idle" /\ t(conv) >= t(tos)
  BY DEF FinishStep
<1>2. t(conv) = t(tos)
  BY <1>1 DEF TsInv, InnerFollowsOuter, GovernorOK, SteadyOK, TimeOK
<1>3. Started
  BY <1>1 DEF TsInv, AssembledOrFlagged
<1>4. TsTypeOK'
  BY <1>1 DEF TsInv, TsTypeOK
<1>5. InnerFollowsOuter'
  BY <1>1, <1>2 DEF TsInv, InnerFollowsOuter
<1>6. FixedUnderCfl' /\ StepObeysCfl' /\ ScaledByLastStep'
  BY <1>1 DEF TsInv, FixedUnderCfl, StepObeysCfl, ScaledByLastStep
<1>7. AssembledOrFlagged'
  BY <1>1, <1>3 DEF TsInv, AssembledOrFlagged, Started
<1> QED BY <1>4, <1>5, <1>6, <1>7 DEF TsInv

\* Fixing the step of the convection under a limit: the interval ends in the target, which is
\* the next fixed mark.
LEMMA FixedToTarget ==
  ASSUME NEW F, NEW g, SteadyOK(F, g), t(g) < End, NEW limit \in 1 .. Inf,
         NEW target \in F, t(g) < target, \A m \in F : t(g) < m => target <= m,
         NEW u, u = set_upper_constraint(limit, g),
         full_step(F, u) % n_steps(F, u) = 0,
         g.min_time_step \in user_limits, g.lower_constraint \in user_limits,
         NEW h, h = fix_dt_until_mark(Cfg, F, u)
  PROVE  /\ GovernorOK(F, h) /\ LengthOK(h) /\ t(h) = t(g) /\ dt(h) = dt(g)
         /\ h.end_of_fixed_dt_interval = target
         /\ h.min_time_step \in user_limits /\ h.lower_constraint \in user_limits
         /\ \E l \in user_limits : h.fixed_time_step <= Larger(limit, l)
<1>1. /\ t(g) \in Nat /\ F \subseteq Nat /\ End \in F /\ g \in Governor /\ target \in Nat
      /\ t(g) <= End
  BY DEF SteadyOK, TimeOK, WellFormed
<1>3. /\ SteadyOK(F, u) /\ t(u) = t(g) /\ dt(u) = dt(g)
      /\ u = [g EXCEPT !.upper_constraint = u.upper_constraint]
  BY SetUpperKeeps
<1>4. u.min_time_step = g.min_time_step /\ u.lower_constraint = g.lower_constraint
  BY <1>1, <1>3 DEF Governor
<1>5. /\ GovernorOK(F, h) /\ LengthOK(h) /\ t(h) = t(u) /\ dt(h) = dt(u)
      /\ h.min_time_step = u.min_time_step /\ h.lower_constraint = u.lower_constraint
      /\ h.end_of_fixed_dt_interval = next_fixed(F, u)
      /\ h.fixed_time_step <= Larger(u.upper_constraint, u.lower_constraint)
  BY <1>3, FixKeeps
<1>6. next_fixed(F, u) = target
  <2>1. /\ next_fixed(F, u) \in F /\ t(u) < next_fixed(F, u) /\ next_fixed(F, u) <= target
    BY <1>1, <1>3, NextFixed
  <2>2. target <= next_fixed(F, u) /\ next_fixed(F, u) \in Nat
    BY <1>1, <1>3, <2>1
  <2> QED BY <1>1, <2>1, <2>2
<1>7. h.fixed_time_step \in Nat
  <2>1. h.fixed_time_step \in Time
    BY <1>5 DEF GovernorOK, SteadyOK, WellFormed, Governor
  <2> QED BY <2>1, Times DEF Time
<1>8. h.fixed_time_step <= Larger(limit, g.lower_constraint)
  BY <1>1, <1>5, <1>7, UnderLimit
<1> QED BY <1>3, <1>4, <1>5, <1>6, <1>8

\* The step of the outer governor, with the target of the convection, keeps the invariant.
LEMMA OuterStep ==
  ASSUME TsInv, NEW w \in WaterSteps, StartStep(w)
  PROVE  TsInv'
<1> DEFINE planned == set_upper_constraint(w, tos)
           u == set_upper_constraint(cfl, conv)
<1>1. /\ pc = "idle" /\ pc' = "evaluate" /\ first' /\ Started
      /\ UNCHANGED <<field, flux, term, scaled, mass, is_mass_diag_changed, cfl>>
      /\ tos' = next_time(Cfg, marks, planned)
      /\ marks' = marks \cup {t(tos')}
      /\ full_step(marks', u) % n_steps(marks', u) = 0
      /\ conv' = fix_dt_until_mark(Cfg, marks', u)
  BY DEF StartStep, with_target, fix_conv, Started
<1>2. /\ GovernorOK(marks, tos) /\ tos.end_of_fixed_dt_interval = Start /\ Start <= t(tos)
      /\ GovernorOK(marks, conv) /\ t(conv) = t(tos)
      /\ t(tos) \in Nat /\ t(tos) <= End /\ marks \subseteq Nat /\ End \in marks
      /\ \A m \in marks : m < Inf
      /\ tos \in Governor
  BY <1>1 DEF TsInv, InnerFollowsOuter, GovernorOK, SteadyOK, TimeOK, WellFormed
<1>3. t(tos) < End
  BY <1>2, Times DEF StartStep, is_end, Cfg
<1>4. w \in 1 .. Inf
  BY SplittingAssumption, Times
<1>5. /\ GovernorOK(marks, planned) /\ t(planned) = t(tos)
      /\ planned.end_of_fixed_dt_interval = Start
  <2>1. /\ SteadyOK(marks, planned) /\ FixedOK(marks, planned) /\ t(planned) = t(tos)
        /\ planned = [tos EXCEPT !.upper_constraint = planned.upper_constraint]
    BY <1>2, <1>4, SetUpperKeeps DEF GovernorOK
  <2> HIDE DEF planned
  <2> QED BY <1>2, <2>1 DEF GovernorOK, Governor
<1>6. LengthOK(planned)
  <2>1. ~ in_fixed_interval(planned)
    BY <1>2, <1>5, Times DEF in_fixed_interval
  <2> QED BY <2>1 DEF LengthOK
<1>7. /\ GovernorOK(marks, tos') /\ t(tos') \in Nat /\ t(tos) < t(tos') /\ t(tos') <= End
      /\ \A m \in marks : t(tos) < m => t(tos') <= m
      /\ tos'.end_of_fixed_dt_interval = Start
  <2> HIDE DEF planned
  <2> QED BY <1>1, <1>3, <1>5, <1>6, NextTimeKeeps
<1>8. /\ t(tos') \in marks' /\ \A m \in marks' : t(tos) < m => t(tos') <= m
      /\ marks' \subseteq Nat /\ End \in marks' /\ \A m \in marks' : m < Inf
  <2>1. t(tos') < Inf
    BY <1>7, Times
  <2>2. \A m \in marks' : m \in marks \/ m = t(tos')
    BY <1>1
  <2>3. ASSUME NEW m \in marks'
        PROVE  m \in Nat /\ m < Inf /\ (t(tos) < m => t(tos') <= m)
    <3>1. CASE m \in marks
      BY <1>2, <1>7, <3>1
    <3>2. CASE m = t(tos')
      <4>1. t(tos') \in Nat
        BY <1>7
      <4> QED BY <2>1, <3>2, <4>1
    <3> QED BY <2>2, <3>1, <3>2
  <2>4. t(tos') \in marks' /\ End \in marks'
    BY <1>1, <1>2
  <2> QED BY <2>3, <2>4
<1>9. GovernorOK(marks', tos')
  <2>1. SteadyOK(marks', tos')
    BY <1>7, <1>8 DEF GovernorOK, SteadyOK, TimeOK
  <2>2. ~ in_fixed_interval(tos')
    BY <1>2, <1>7, Times DEF in_fixed_interval
  <2> QED BY <2>1, <2>2 DEF GovernorOK, FixedOK
<1>10. SteadyOK(marks', conv)
  BY <1>2, <1>8 DEF GovernorOK, SteadyOK, TimeOK
<1>11. /\ GovernorOK(marks', conv') /\ LengthOK(conv') /\ t(conv') = t(conv)
       /\ dt(conv') = dt(conv)
       /\ conv'.end_of_fixed_dt_interval = t(tos')
       /\ conv'.min_time_step \in user_limits /\ conv'.lower_constraint \in user_limits
  <2>1. conv.min_time_step \in user_limits /\ conv.lower_constraint \in user_limits
    BY DEF TsInv, FixedUnderCfl
  <2>2. cfl \in 1 .. Inf
    BY DEF TsInv, TsTypeOK
  <2>3. t(conv) < End /\ t(conv) < t(tos') /\ \A m \in marks' : t(conv) < m => t(tos') <= m
    BY <1>2, <1>3, <1>7, <1>8
  <2> QED BY <1>1, <1>8, <1>10, <2>1, <2>2, <2>3, FixedToTarget
<1> HIDE DEF planned, u
<1>12. TsTypeOK'
  BY <1>1 DEF TsInv, TsTypeOK
<1>13. InnerFollowsOuter'
  <2>1. Start <= t(tos')
    BY <1>2, <1>7, Times
  <2>2. t(conv') <= t(tos') /\ \A m \in marks' : t(conv') < m => t(tos') <= m
    BY <1>2, <1>7, <1>8, <1>11
  <2> QED BY <1>1, <1>7, <1>8, <1>9, <1>11, <2>1, <2>2 DEF InnerFollowsOuter
<1>14. FixedUnderCfl' /\ StepObeysCfl'
  BY <1>1, <1>11 DEF FixedUnderCfl, StepObeysCfl
<1>15. ScaledByLastStep'
  BY <1>1, <1>11 DEF TsInv, ScaledByLastStep
<1>16. AssembledOrFlagged'
  BY <1>1, <1>11 DEF TsInv, AssembledOrFlagged, Started
<1> QED BY <1>12, <1>13, <1>14, <1>15, <1>16 DEF TsInv

\* What holds whenever the inner loop runs.
LEMMA InLoop ==
  ASSUME TsInv, pc # "idle", t(conv) < t(tos)
  PROVE  /\ GovernorOK(marks, conv) /\ LengthOK(conv) /\ t(conv) \in Nat /\ t(conv) < End
         /\ t(tos) \in marks /\ t(tos) \in Nat /\ marks \subseteq Nat
         /\ \A m \in marks : t(conv) < m => t(tos) <= m
         /\ conv.end_of_fixed_dt_interval = t(tos) /\ in_fixed_interval(conv)
         /\ Started /\ \A f \in Fields : field[f].time = t(conv)
<1>1. /\ GovernorOK(marks, conv) /\ LengthOK(conv) /\ t(conv) \in Nat
      /\ t(tos) \in marks /\ t(tos) \in Nat /\ t(tos) <= End /\ marks \subseteq Nat
      /\ \A m \in marks : t(conv) < m => t(tos) <= m
      /\ conv.end_of_fixed_dt_interval = t(tos)
  BY DEF TsInv, InnerFollowsOuter, GovernorOK, SteadyOK, TimeOK
<1>2. t(conv) < End /\ in_fixed_interval(conv)
  BY <1>1, Times DEF in_fixed_interval
<1>3. Started /\ \A f \in Fields : field[f].time = t(conv)
  BY DEF TsInv, AssembledOrFlagged
<1> QED BY <1>1, <1>2, <1>3

\* evaluate_time_constraint() and what depends on it keep the invariant.
LEMMA EvaluateStep ==
  ASSUME TsInv, NEW limit \in CflValues \cup {cfl}, Evaluate(limit)
  PROVE  TsInv'
<1> DEFINE new == reassembled(field', flux'.changed)
           changed == "tm" \in new \/ is_mass_diag_changed \/ "src" \in new
           u == set_upper_constraint(limit, conv)
<1>1. /\ pc = "evaluate" /\ pc' = "solve" /\ t(conv) < t(tos) /\ ~ first'
      /\ UNCHANGED <<tos, marks, is_mass_diag_changed>> /\ cfl' = limit
      /\ field' = set_time(t(conv)) /\ flux' = set_flux_time(flux, t(conv))
      /\ mass' = IF is_mass_diag_changed THEN data("mass", field') ELSE mass
  BY DEF Evaluate
<1>2. /\ GovernorOK(marks, conv) /\ LengthOK(conv) /\ t(conv) \in Nat /\ t(conv) < End
      /\ t(tos) \in marks /\ t(tos) \in Nat /\ marks \subseteq Nat
      /\ \A m \in marks : t(conv) < m => t(tos) <= m
      /\ conv.end_of_fixed_dt_interval = t(tos) /\ in_fixed_interval(conv)
      /\ Started /\ \A f \in Fields : field[f].time = t(conv)
  BY <1>1, InLoop
<1>3. field' = field /\ field \in [Fields -> FieldState]
  BY <1>1, <1>2, SameTime DEF TsInv, TsTypeOK
<1>4. /\ flux' \in [time : Int, value : Nat, changed : BOOLEAN]
      /\ flux'.value = flux.value /\ (flux'.changed => flux.changed) /\ flux.value \in Nat
  <2>1. t(conv) \in Int /\ flux \in [time : Int, value : Nat, changed : BOOLEAN]
    BY <1>2 DEF TsInv, TsTypeOK
  <2> QED BY <1>1, <2>1, FluxTime
<1>5. /\ term' = [k \in Terms |->
           IF k \in new THEN [flux |-> flux.value, data |-> data(k, field'), scale |-> 0]
           ELSE term[k]]
      /\ scaled' = [k \in Terms |-> scaled[k] /\ k \notin new]
  BY DEF Evaluate
<1>6. /\ "tm" \in new <=> flux.changed
      /\ "src" \in new <=> field["src"].changed \/ field["cross"].changed
      /\ field["bc"].changed => "bc" \in new
  BY <1>3 DEF reassembled
<1>7. /\ limit \in (IF changed THEN CflValues ELSE {cfl})
      /\ IF first \/ changed THEN /\ full_step(marks, u) % n_steps(marks, u) = 0
                                  /\ conv' = fix_dt_until_mark(Cfg, marks, u)
         ELSE conv' = conv
  <2>1. /\ limit \in (IF changed THEN CflValues ELSE {cfl})
        /\ IF refix(changed) THEN fix_conv(marks, set_upper_constraint(cfl', conv))
           ELSE conv' = conv
    BY DEF Evaluate
  <2> HIDE DEF changed
  <2> QED BY <1>1, <2>1 DEF refix, fix_conv
<1> HIDE DEF new, changed
<1>8. limit \in 1 .. Inf
  BY SplittingAssumption DEF TsInv, TsTypeOK
<1>9. /\ GovernorOK(marks, conv') /\ LengthOK(conv') /\ t(conv') = t(conv)
      /\ dt(conv') = dt(conv)
      /\ conv'.end_of_fixed_dt_interval = t(tos)
      /\ conv'.min_time_step \in user_limits /\ conv'.lower_constraint \in user_limits
      /\ \E l \in user_limits : conv'.fixed_time_step <= Larger(limit, l)
  <2>1. conv.min_time_step \in user_limits /\ conv.lower_constraint \in user_limits
    BY DEF TsInv, FixedUnderCfl
  <2>2. CASE first \/ changed
    <3>1. SteadyOK(marks, conv)
      BY <1>2 DEF GovernorOK
    <3> QED BY <1>1, <1>2, <1>7, <1>8, <2>1, <2>2, <3>1, FixedToTarget
  <2>3. CASE ~ (first \/ changed)
    <3>1. conv' = conv /\ limit = cfl
      BY <1>7, <2>3
    <3>2. \E l \in user_limits : conv.fixed_time_step <= Larger(cfl, l)
      BY <1>1, <1>2, <2>3 DEF TsInv, FixedUnderCfl
    <3> QED BY <1>2, <2>1, <3>1, <3>2
  <2> QED BY <2>2, <2>3
<1> HIDE DEF u
<1>10. \A k \in DOMAIN deps : /\ data(k, field) \in Data
                              /\ \A f \in deps[k] : data(k, field)[f] = field[f].value
  BY <1>3, DataOfTerm
<1>11. /\ term \in [Terms -> [flux : Nat, data : Data, scale : Nat]]
       /\ scaled \in [Terms -> BOOLEAN] /\ is_mass_diag_changed \in BOOLEAN
  BY DEF TsInv, TsTypeOK
<1>12. ASSUME NEW k \in Terms
       PROVE  /\ k \in new => /\ term'[k] = [flux |-> flux.value, data |-> data(k, field), scale |-> 0]
                              /\ ~ scaled'[k]
              /\ k \notin new => term'[k] = term[k] /\ (scaled'[k] => scaled[k])
  BY <1>3, <1>5
<1>13. TsTypeOK'
  <2>1. \A k \in Terms : data(k, field) \in Data
    BY <1>10 DEF Terms, deps
  <2>2. ASSUME NEW k \in Terms PROVE term'[k] \in [flux : Nat, data : Data, scale : Nat]
    <3>1. CASE k \in new
      <4> DEFINE d == data(k, field)
      <4>1. d \in Data /\ flux.value \in Nat
        BY <1>4, <2>1
      <4>2. term'[k] = [flux |-> flux.value, data |-> d, scale |-> 0]
        BY <1>12, <3>1
      <4> HIDE DEF d
      <4> QED BY <4>1, <4>2
    <3>2. CASE k \notin new
      BY <1>11, <1>12, <3>2
    <3> QED BY <3>1, <3>2
  <2>3. term' \in [Terms -> [flux : Nat, data : Data, scale : Nat]]
    BY <1>5, <2>2
  <2>4. scaled' \in [Terms -> BOOLEAN]
    BY <1>5
  <2>5. first' \in BOOLEAN
    BY DEF Evaluate
  <2> QED BY <1>1, <1>3, <1>4, <1>8, <1>11, <2>3, <2>4, <2>5 DEF TsTypeOK
<1>14. InnerFollowsOuter'
  BY <1>1, <1>2, <1>9 DEF TsInv, InnerFollowsOuter
<1>15. FixedUnderCfl' /\ StepObeysCfl'
  BY <1>1, <1>9 DEF FixedUnderCfl, StepObeysCfl
<1>16. ScaledByLastStep'
  BY <1>1, <1>9, <1>12 DEF TsInv, ScaledByLastStep
<1>17. AssembledOrFlagged'
  <2>1. Started' /\ \A f \in Fields : field'[f].time = t(conv') /\ field'[f].value = data_at(f, t(conv'))
    BY <1>2, <1>3, <1>9 DEF TsInv, AssembledOrFlagged, Started
  <2>2. \A f \in deps["mass"] : mass'[f] = field'[f].value
    <3>1. \A f \in deps["mass"] : mass[f] = field[f].value
      BY <1>2 DEF TsInv, AssembledOrFlagged
    <3>2. \A f \in deps["mass"] : data("mass", field)[f] = field[f].value
      BY <1>10 DEF deps
    <3> QED BY <1>1, <1>3, <3>1, <3>2
  <2>3. ASSUME NEW f \in deps["src"] PROVE term'["src"].data[f] = field'[f].value
    <3>1. CASE "src" \in new
      <4>1. term'["src"].data = data("src", field)
        BY <1>12, <3>1 DEF Terms
      <4> QED BY <1>3, <1>10, <4>1 DEF deps
    <3>2. CASE "src" \notin new
      <4>1. ~ field[f].changed
        BY <1>6, <3>2 DEF deps
      <4>2. term["src"].data[f] = field[f].value
        BY <1>2, <4>1 DEF TsInv, AssembledOrFlagged
      <4>3. term'["src"] = term["src"]
        BY <1>12, <3>2 DEF Terms
      <4> QED BY <1>3, <4>2, <4>3
    <3> QED BY <3>1, <3>2
  <2>4. term'["bc"].data["bc"] = field'["bc"].value
    <3>1. CASE "bc" \in new
      <4>1. term'["bc"].data = data("bc", field)
        BY <1>12, <3>1 DEF Terms
      <4> QED BY <1>3, <1>10, <4>1 DEF deps
    <3>2. CASE "bc" \notin new
      <4>1. ~ field["bc"].changed
        BY <1>6, <3>2
      <4>2. term["bc"].data["bc"] = field["bc"].value
        BY <1>2, <4>1 DEF TsInv, AssembledOrFlagged
      <4>3. term'["bc"] = term["bc"]
        BY <1>12, <3>2 DEF Terms
      <4> QED BY <1>3, <4>2, <4>3
    <3> QED BY <3>1, <3>2
  <2>5. term'["tm"].flux = flux'.value
    <3>1. CASE "tm" \in new
      BY <1>4, <1>12, <3>1 DEF Terms
    <3>2. CASE "tm" \notin new
      <4>1. term["tm"].flux = flux.value
        BY <1>6, <3>2 DEF TsInv, AssembledOrFlagged
      <4>2. term'["tm"] = term["tm"]
        BY <1>12, <3>2 DEF Terms
      <4> QED BY <1>4, <4>1, <4>2
    <3> QED BY <3>1, <3>2
  <2> QED BY <2>1, <2>2, <2>3, <2>4, <2>5 DEF AssembledOrFlagged
<1> QED BY <1>13, <1>14, <1>15, <1>16, <1>17 DEF TsInv

\* A term is scaled by the length of the step it is used for: fresh, rescaled, or untouched.
LEMMA Rescaled ==
  ASSUME NEW k \in Terms, term \in [Terms -> [flux : Nat, data : Data, scale : Nat]],
         scaled \in [Terms -> BOOLEAN],
         NEW h, dt(h) \in Nat, dt(h) >= 1, FlagOK(h), tlevel(h) > 0,
         scaled[k] => last_dt(h) \in Nat /\ last_dt(h) >= 1 /\ term[k].scale = last_dt(h)
  PROVE  /\ rescale(k, h).scale = dt(h)
         /\ rescale(k, h) \in [flux : Nat, data : Data, scale : Nat]
         /\ rescale(k, h).flux = term[k].flux /\ rescale(k, h).data = term[k].data
<1>1. term[k] \in [flux : Nat, data : Data, scale : Nat]
  OBVIOUS
<1>2. CASE ~ scaled[k]
  BY <1>1, <1>2 DEF rescale
<1>3. CASE scaled[k] /\ h.time_step_changed
  <2> DEFINE a == last_dt(h)
             b == dt(h)
  <2>1. a \in Nat /\ a >= 1 /\ b \in Nat /\ b >= 1 /\ term[k].scale = a
    BY <1>3
  <2>2. rescale(k, h) = [term[k] EXCEPT !.scale = (term[k].scale * b) \div a]
    BY <1>3 DEF rescale
  <2> HIDE DEF a, b
  <2>3. (a * b) \div a = b
    BY <2>1, WholeMultiple
  <2>4. rescale(k, h) = [term[k] EXCEPT !.scale = b]
    BY <2>1, <2>2, <2>3
  <2> QED BY <1>1, <2>1, <2>4 DEF b
<1>4. CASE scaled[k] /\ ~ h.time_step_changed
  <2>1. rescale(k, h) = term[k]
    BY <1>4 DEF rescale
  <2>2. dt(h) = last_dt(h)
    BY <1>4 DEF FlagOK
  <2> QED BY <1>1, <1>4, <2>1, <2>2
<1> QED BY <1>2, <1>3, <1>4

\* A step of the convection keeps the invariant.
LEMMA SolveStep ==
  ASSUME TsInv, Solve
  PROVE  TsInv'
<1>1. /\ pc = "solve" /\ pc' = "evaluate" /\ UNCHANGED <<tos, marks, cfl, first>>
      /\ conv' = next_time(Cfg, marks, conv)
      /\ term' = [k \in Terms |-> rescale(k, conv')]
      /\ scaled' = [k \in Terms |-> TRUE]
      /\ field' = set_time(t(conv')) /\ flux' = set_flux_time(flux, t(conv'))
      /\ is_mass_diag_changed' = \E f \in deps["mass"] : field'[f].changed
      /\ mass' = IF is_mass_diag_changed' THEN data("mass", field') ELSE mass
  BY DEF Solve
<1>2. t(conv) < t(tos)
  BY <1>1 DEF TsInv, InnerFollowsOuter
<1>3. /\ GovernorOK(marks, conv) /\ LengthOK(conv) /\ t(conv) \in Nat /\ t(conv) < End
      /\ t(tos) \in marks /\ t(tos) \in Nat /\ marks \subseteq Nat
      /\ \A m \in marks : t(conv) < m => t(tos) <= m
      /\ conv.end_of_fixed_dt_interval = t(tos) /\ in_fixed_interval(conv)
      /\ Started /\ \A f \in Fields : field[f].time = t(conv)
  BY <1>1, <1>2, InLoop
<1>4. /\ GovernorOK(marks, conv') /\ LengthOK(conv') /\ FlagOK(conv')
      /\ t(conv') \in Nat /\ t(conv) < t(conv')
      /\ \A m \in marks : t(conv) < m => t(conv') <= m
      /\ dt(conv') \in Nat /\ dt(conv') >= 1
      /\ tlevel(conv') = tlevel(conv) + 1 /\ last_dt(conv') = dt(conv)
      /\ dt(conv') = conv.fixed_time_step /\ conv'.fixed_time_step = conv.fixed_time_step
      /\ conv'.end_of_fixed_dt_interval = t(tos)
      /\ conv'.lower_constraint = conv'.min_time_step
      /\ \/ conv'.min_time_step = conv.min_time_step
         \/ \E i \in 1 .. Len(Table) : conv'.min_time_step = Larger(Table[i].min_dt, 1)
  BY <1>1, <1>3, NextTimeKeeps
<1>5. tlevel(conv') > 0
  <2>1. conv.recent_steps \in Seq(TimeStep) /\ Len(conv.recent_steps) >= 1
    BY <1>3 DEF GovernorOK, SteadyOK, WellFormed, Governor
  <2>2. step(conv) \in TimeStep
    BY <2>1 DEF step
  <2>3. tlevel(conv) \in Nat
    BY <2>2 DEF tlevel, TimeStep
  <2> QED BY <1>4, <2>3
<1>6. /\ term \in [Terms -> [flux : Nat, data : Data, scale : Nat]]
      /\ scaled \in [Terms -> BOOLEAN] /\ field \in [Fields -> FieldState]
      /\ flux \in [time : Int, value : Nat, changed : BOOLEAN]
  BY DEF TsInv, TsTypeOK
<1>7. ASSUME NEW k \in Terms
      PROVE  /\ term'[k].scale = dt(conv')
             /\ term'[k] \in [flux : Nat, data : Data, scale : Nat]
             /\ term'[k].flux = term[k].flux /\ term'[k].data = term[k].data
  <2>1. scaled[k] => /\ last_dt(conv') \in Nat /\ last_dt(conv') >= 1
                     /\ term[k].scale = last_dt(conv')
    BY <1>4 DEF TsInv, ScaledByLastStep
  <2>2. term'[k] = rescale(k, conv')
    BY <1>1
  <2> QED BY <1>4, <1>5, <1>6, <2>1, <2>2, Rescaled
<1>8. /\ field' \in [Fields -> FieldState]
      /\ \A f \in Fields : /\ field'[f].time = t(conv') /\ field'[f].value = data_at(f, t(conv'))
                           /\ field'[f].value = field[f].value \/ field'[f].changed
  <2>1. t(conv') \in Int /\ \A f \in Fields : field[f].time # t(conv')
    BY <1>3, <1>4
  <2> QED BY <1>1, <1>6, <2>1, LaterTime
<1>9. flux' \in [time : Int, value : Nat, changed : BOOLEAN] /\ flux'.value = flux.value
  <2>1. t(conv') \in Int
    BY <1>4
  <2> QED BY <1>1, <1>6, <2>1, FluxTime
<1>10. TsTypeOK'
  <2>1. term' \in [Terms -> [flux : Nat, data : Data, scale : Nat]]
    BY <1>1, <1>7
  <2>2. scaled' \in [Terms -> BOOLEAN]
    BY <1>1
  <2>3. is_mass_diag_changed' \in BOOLEAN
    BY <1>1
  <2> QED BY <1>1, <1>8, <1>9, <2>1, <2>2, <2>3 DEF TsInv, TsTypeOK
<1>11. InnerFollowsOuter'
  <2>1. t(conv') <= t(tos) /\ \A m \in marks : t(conv') < m => t(tos) <= m
    BY <1>2, <1>3, <1>4
  <2> QED BY <1>1, <1>4, <2>1 DEF TsInv, InnerFollowsOuter
<1>12. /\ conv'.min_time_step \in user_limits /\ conv'.lower_constraint \in user_limits
       /\ \E l \in user_limits : conv.fixed_time_step <= Larger(cfl, l)
  <2>1. conv'.min_time_step \in user_limits
    BY <1>4, UserLimits DEF TsInv, FixedUnderCfl
  <2>2. \E l \in user_limits : conv.fixed_time_step <= Larger(cfl, l)
    BY <1>1, <1>3 DEF TsInv, FixedUnderCfl
  <2> QED BY <1>4, <2>1, <2>2
<1>13. FixedUnderCfl' /\ StepObeysCfl'
  BY <1>1, <1>4, <1>12 DEF FixedUnderCfl, StepObeysCfl
<1>14. ScaledByLastStep'
  BY <1>1, <1>4, <1>7 DEF ScaledByLastStep
<1>15. AssembledOrFlagged'
  <2>1. Started'
    BY <1>4, <1>8 DEF Started, Fields, NegInf
  <2>2. \A f \in deps["mass"] : mass'[f] = field'[f].value
    <3>1. CASE is_mass_diag_changed'
      <4>1. mass' = data("mass", field')
        BY <1>1, <3>1
      <4> QED BY <1>8, <4>1, DataOfTerm DEF deps
    <3>2. CASE ~ is_mass_diag_changed'
      <4>1. mass' = mass /\ \A f \in deps["mass"] : ~ field'[f].changed
        BY <1>1, <3>2
      <4>2. \A f \in deps["mass"] : mass[f] = field[f].value
        BY <1>3 DEF TsInv, AssembledOrFlagged
      <4>3. \A f \in deps["mass"] : field'[f].value = field[f].value
        BY <1>8, <4>1 DEF deps, Fields
      <4> QED BY <4>1, <4>2, <4>3
    <3> QED BY <3>1, <3>2
  <2>3. \A f \in deps["src"] : term["src"].data[f] = field[f].value
    BY <1>1, <1>3 DEF TsInv, AssembledOrFlagged
  <2>4. \A f \in deps["src"] : term'["src"].data[f] = field'[f].value \/ field'[f].changed
    <3>1. term'["src"].data = term["src"].data
      BY <1>7 DEF Terms
    <3>2. \A f \in deps["src"] : f \in Fields
      BY DEF deps, Fields
    <3> QED BY <1>8, <2>3, <3>1, <3>2
  <2>5. term'["bc"].data["bc"] = field'["bc"].value \/ field'["bc"].changed
    <3>1. term'["bc"].data = term["bc"].data
      BY <1>7 DEF Terms
    <3>2. term["bc"].data["bc"] = field["bc"].value
      BY <1>1, <1>3 DEF TsInv, AssembledOrFlagged
    <3> QED BY <1>8, <3>1, <3>2 DEF Fields
  <2>6. term'["tm"].flux = flux'.value
    <3>1. term["tm"].flux = flux.value
      BY <1>1 DEF TsInv, AssembledOrFlagged
    <3> QED BY <1>7, <1>9, <3>1 DEF Terms
  <2> QED BY <1>1, <1>8, <2>1, <2>2, <2>4, <2>5, <2>6 DEF AssembledOrFlagged
<1> QED BY <1>10, <1>11, <1>13, <1>14, <1>15 DEF TsInv

---------------------------------------------------------------------------
(* Theorems. *)

\* The invariant of the two governors, the fixed step, the scales and the assembled data
\* holds in every state, for every time record and all data.
THEOREM SplittingInvariant == Spec => []TsInv
<1>1. TsInv /\ [Next]_vars => TsInv'
  <2> SUFFICES ASSUME TsInv, [Next]_vars PROVE TsInv'
    OBVIOUS
  <2>1. ASSUME NEW ahead \in {0} \cup WaterSteps, NewVelocity(ahead) PROVE TsInv'
    BY <2>1, VelocityStep
  <2>2. CASE ZeroTimeStep
    BY <2>2, ZeroStep
  <2>3. ASSUME NEW w \in WaterSteps, StartStep(w) PROVE TsInv'
    BY <2>3, OuterStep
  <2>4. ASSUME NEW limit \in CflValues \cup {cfl}, Evaluate(limit) PROVE TsInv'
    BY <2>4, EvaluateStep
  <2>5. CASE Solve
    BY <2>5, SolveStep
  <2>6. CASE FinishStep
    BY <2>6, LeaveLoop
  <2>7. CASE UNCHANGED vars
    BY <2>7 DEF vars, TsInv, TsTypeOK, InnerFollowsOuter, FixedUnderCfl, StepObeysCfl,
                ScaledByLastStep, AssembledOrFlagged, Started
  <2> QED BY <2>1, <2>2, <2>3, <2>4, <2>5, <2>6, <2>7 DEF Next, AtEnd
<1> QED BY <1>1, TsInitial, PTL DEF Spec

\* The convection stops exactly in the time of TOS: when update_solution() of TOS is left,
\* the two governors agree.
THEOREM ConvectionMeetsTarget == Spec => []TargetMet
<1>1. TsInv => TargetMet
  BY DEF TsInv, InnerFollowsOuter, TargetMet
<1> QED BY <1>1, SplittingInvariant, PTL

\* No step of the convection is longer than the newest CFL limit, unless a least step of the
\* user asks for more.
THEOREM CflObeyed == Spec => []StepObeysCfl
<1>1. TsInv => StepObeysCfl
  BY DEF TsInv
<1> QED BY <1>1, SplittingInvariant, PTL

\* Every explicit step uses the newest flux, the field values at its beginning and terms that
\* are multiplied by its own length.
THEOREM TermsBelongToStep == Spec => []TermsOfTheStep
<1>1. TsInv => TermsScaledByStep
  BY DEF TsInv, ScaledByLastStep, TermsScaledByStep
<1>2. TsInv => TermsUpToDate
  <2> SUFFICES ASSUME TsInv, pc = "solve"
               PROVE  /\ term["tm"].flux = flux.value
                      /\ \A f \in deps["src"] : term["src"].data[f] = data_at(f, t(conv))
                      /\ term["bc"].data["bc"] = data_at("bc", t(conv))
                      /\ \A f \in deps["mass"] : mass[f] = data_at(f, t(conv))
    BY DEF TermsUpToDate
  <2>1. Started
    BY DEF TsInv, AssembledOrFlagged
  <2>2. \A f \in Fields : field[f].value = data_at(f, t(conv))
    BY <2>1 DEF TsInv, AssembledOrFlagged
  <2>3. \A f \in deps["src"] \cup deps["mass"] \cup {"bc"} : f \in Fields
    BY DEF deps, Fields
  <2>4. /\ \A f \in deps["mass"] : mass[f] = field[f].value
        /\ \A f \in deps["src"] : term["src"].data[f] = field[f].value
        /\ term["bc"].data["bc"] = field["bc"].value
        /\ term["tm"].flux = flux.value
    BY <2>1 DEF TsInv, AssembledOrFlagged
  <2> QED BY <2>2, <2>3, <2>4
<1>3. TsInv => TermsOfTheStep
  BY <1>1, <1>2 DEF TermsOfTheStep
<1> QED BY <1>3, SplittingInvariant, PTL
=============================================================================
