------------------------- MODULE TransportSplitting -------------------------
(***************************************************************************)
(* TransportOperatorSplitting with an explicit ConvectionTransport inside: *)
(* two governors made from the same time record, the outer one (TOS)       *)
(* making the steps the coupling sees, the inner one as many CFL-limited   *)
(* steps as fit.                                                           *)
(*                                                                         *)
(* Field data are versions: the value of an input field at a time is the   *)
(* number of its input times up to it, the flux is the number of the flow  *)
(* solution.  An assembled term remembers the versions it was assembled    *)
(* from and the length of the step it is scaled by.                        *)
(***************************************************************************)
EXTENDS TimeInput, FiniteSets

CONSTANTS InputTimes,   \* input times of every field
          Outputs,      \* fixed marks of the output
          WaterSteps,   \* step lengths of the flow equation, constraints of TOS
          CflValues,    \* CFL limits that an assembly may produce
          MaxVelocity   \* bound: number of flow solutions

\* bc_conc, the three source fields, cross_section, porosity with water_content
Fields == {"bc", "src", "cross", "por"}

ASSUME SplittingAssumption ==
  /\ \A f \in Fields : InputTimes[f] \subseteq 0 .. (Inf - 1)
  /\ Outputs \subseteq 0 .. (Inf - 1)
  /\ WaterSteps \subseteq 1 .. (Inf - 1) /\ CflValues \subseteq 1 .. Inf

\* The transport matrix, the boundary term bcvcorr, the source terms.
Terms == {"tm", "bc", "src"}
deps == [tm |-> {}, bc |-> {"bc"}, src |-> {"src", "cross"}, mass |-> {"cross", "por"}]

VARIABLES pc,           \* "idle", "evaluate" or "solve"
          tos, conv,    \* the two governors
          marks,        \* fixed marks of the equation
          field,        \* input fields: [time, value, changed] as set_time() left them
          flux,         \* flow_flux: [time, value, changed]
          term,         \* assembled terms: [flux, data, scale]
          scaled,       \* is_convection_matrix_scaled, is_bc_term_scaled, is_src_term_scaled
          mass,         \* data of mass_diag
          is_mass_diag_changed,
          cfl,          \* cfl_max_step
          first         \* the inner loop has made no step yet

vars == <<pc, tos, conv, marks, field, flux, term, scaled, mass, is_mass_diag_changed, cfl, first>>

data_at(f, time) == Cardinality({x \in InputTimes[f] : x <= time})

\* The data a term is assembled from.
data(k, fs) == [f \in deps[k] |-> fs[f].value]

\* Field::set_time with the right limit: nothing happens when the time is already set.
set_time(time) ==
  [f \in Fields |->
     IF field[f].time = time THEN field[f]
     ELSE [time |-> time, value |-> data_at(f, time),
           changed |-> data_at(f, time) # field[f].value]]

\* The same for the flux, whose value comes from the flow equation: its pointers do not
\* change, so a new time clears the flag that the coupling has set.
set_flux_time(fl, time) ==
  IF fl.time = time THEN fl ELSE [fl EXCEPT !.time = time, !.changed = FALSE]

\* The constructor and initialize(): no field has been set, nothing is assembled.
Init ==
  /\ pc = "idle"
  /\ \E pos \in 1 .. (Len(Cfg.dt_limits_table) - 1) :
       /\ enters_table(Cfg, pos)
       /\ tos = input_governor(Cfg, pos, InitDt, Second)
       /\ conv = tos
  /\ marks = init_marks(Cfg) \cup Outputs \cup UNION {InputTimes[f] : f \in Fields}
  /\ field = [f \in Fields |-> [time |-> NegInf, value |-> 0, changed |-> FALSE]]
  /\ flux = [time |-> NegInf, value |-> 0, changed |-> FALSE]
  /\ term = [k \in Terms |-> [flux |-> 0, data |-> data(k, field), scale |-> 0]]
  /\ scaled = [k \in Terms |-> FALSE]
  /\ mass = data("mass", field) /\ is_mass_diag_changed = FALSE
  /\ cfl = Cfg.end_time
  /\ first = TRUE

\* HC_ExplicitSequential::advection_process_step hands over a new flow solution, computed
\* for a time at or behind the solved time of the transport.
NewVelocity(ahead) ==
  /\ pc = "idle" /\ ~ flux.changed /\ flux.value < MaxVelocity /\ ~ is_end(Cfg, tos)
  /\ flux' = [time |-> t(conv) + ahead, value |-> flux.value + 1, changed |-> TRUE]
  /\ UNCHANGED <<pc, tos, conv, marks, field, term, scaled, mass, is_mass_diag_changed, cfl, first>>

\* zero_time_step(): everything is assembled from the data at the initial time, all input
\* fields are new.
ZeroTimeStep ==
  /\ pc = "idle" /\ flux.value > 0 /\ tlevel(tos) = 0 /\ field["por"].time = NegInf
  /\ field' = [f \in Fields |-> [time |-> t(conv), value |-> data_at(f, t(conv)), changed |-> TRUE]]
  /\ flux' = set_flux_time(flux, t(conv))
  /\ term' = [k \in Terms |-> [flux |-> flux.value, data |-> data(k, field'), scale |-> 0]]
  /\ scaled' = [scaled EXCEPT !["tm"] = FALSE]
  /\ mass' = data("mass", field') /\ is_mass_diag_changed' = TRUE
  /\ UNCHANGED <<pc, tos, conv, marks, cfl, first>>

whole(g, F) == IF in_fixed_interval(g)
               THEN (g.end_of_fixed_dt_interval - t(g)) % n_fixed(g) = 0
               ELSE full_step(F, g) % n_steps(F, g) = 0

\* fix_dt_until_mark() where the quotient is a whole number of ticks.
fix_conv(F, g) == /\ full_step(F, g) % n_steps(F, g) = 0
                  /\ conv' = fix_dt_until_mark(Cfg, F, g)

\* Mutant: the target is not marked.
with_target_unmarked(F, time) == F

\* The mark that makes the convection stop in the time of TOS.
with_target(F, time) == F \cup {time}

\* Head of TransportOperatorSplitting::update_solution: the TOS step and
\* ConvectionTransport::set_target_time.
StartStep(u) ==
  /\ pc = "idle" /\ field["por"].time # NegInf /\ ~ is_end(Cfg, tos)
  /\ LET planned == set_upper_constraint(u, tos)
     IN  whole(planned, marks) /\ tos' = next_time(Cfg, marks, planned)
  /\ marks' = with_target(marks, t(tos'))
  /\ fix_conv(marks', set_upper_constraint(cfl, conv))
  /\ first' = TRUE /\ pc' = "evaluate"
  /\ UNCHANGED <<field, flux, term, scaled, mass, is_mass_diag_changed, cfl>>

\* The terms that evaluate_time_constraint() assembles anew: the matrix by the flag of the
\* flux read before set_time(), the boundary term by the one read after it.
reassembled(fs, flux_changed) ==
  {k \in {"tm"} : flux.changed} \cup
  {k \in {"src"} : fs["src"].changed \/ fs["cross"].changed} \cup
  {k \in {"bc"} : flux_changed \/ fs["por"].changed \/ fs["bc"].changed}

\* Mutant: the new limit waits for the next TOS step.
refix_later(changed) == FALSE

\* "steps == 1 || cfl_changed"
refix(changed) == first \/ changed

\* One evaluate_time_constraint() of the convection and what TOS does with its result.
Evaluate(limit) ==
  /\ pc = "evaluate" /\ t(conv) < t(tos)
  /\ field' = set_time(t(conv))
  /\ flux' = set_flux_time(flux, t(conv))
  /\ LET new == reassembled(field', flux'.changed)
         changed == "tm" \in new \/ is_mass_diag_changed \/ "src" \in new
     IN  /\ term' = [k \in Terms |->
              IF k \in new THEN [flux |-> flux.value, data |-> data(k, field'), scale |-> 0]
              ELSE term[k]]
         /\ scaled' = [k \in Terms |-> scaled[k] /\ k \notin new]
         /\ mass' = IF is_mass_diag_changed THEN data("mass", field') ELSE mass
         /\ limit \in (IF changed THEN CflValues ELSE {cfl})
         /\ cfl' = limit
         /\ IF refix(changed) THEN fix_conv(marks, set_upper_constraint(cfl', conv))
            ELSE conv' = conv
  /\ first' = FALSE /\ pc' = "solve"
  /\ UNCHANGED <<tos, marks, is_mass_diag_changed>>

\* Mutant: an old term keeps its scale.
rescale_fresh_only(k, g) == IF scaled[k] THEN term[k] ELSE [term[k] EXCEPT !.scale = dt(g)]

\* A fresh term is multiplied by the step, an old one by the ratio of the steps if the
\* governor says that the step has changed.
rescale(k, g) ==
  IF ~ scaled[k] THEN [term[k] EXCEPT !.scale = dt(g)]
  ELSE IF g.time_step_changed THEN [term[k] EXCEPT !.scale = (@ * dt(g)) \div last_dt(g)]
  ELSE term[k]

\* ConvectionTransport::update_solution: one step of the explicit scheme with the data of
\* the last computed time; then the fields and the mass matrix move to the new time.
Solve ==
  /\ pc = "solve" /\ whole(conv, marks)
  /\ conv' = next_time(Cfg, marks, conv)
  /\ term' = [k \in Terms |-> rescale(k, conv')]
  /\ scaled' = [k \in Terms |-> TRUE]
  /\ field' = set_time(t(conv'))
  /\ flux' = set_flux_time(flux, t(conv'))
  /\ is_mass_diag_changed' = \E f \in deps["mass"] : field'[f].changed
  /\ mass' = IF is_mass_diag_changed' THEN data("mass", field') ELSE mass
  /\ pc' = "evaluate"
  /\ UNCHANGED <<tos, marks, cfl, first>>

\* The inner loop is left.
FinishStep ==
  /\ pc = "evaluate" /\ t(conv) >= t(tos)
  /\ pc' = "idle"
  /\ UNCHANGED <<tos, conv, marks, field, flux, term, scaled, mass, is_mass_diag_changed, cfl, first>>

AtEnd == pc = "idle" /\ is_end(Cfg, tos) /\ UNCHANGED vars

Next == \/ \E ahead \in {0} \cup WaterSteps : NewVelocity(ahead)
        \/ ZeroTimeStep
        \/ \E u \in WaterSteps : StartStep(u)
        \/ \E limit \in CflValues \cup {cfl} : Evaluate(limit)
        \/ Solve
        \/ FinishStep
        \/ AtEnd

Spec == Init /\ [][Next]_vars

---------------------------------------------------------------------------
(* Properties. *)

\* Every term that enters the explicit scheme is multiplied by the length of the very step
\* it is used for, through all the ways it may have got its scale: fresh, rescaled, or
\* untouched since a step of the same length.
TermsScaledByStep ==
  pc = "evaluate" /\ ~ first => \A k \in Terms : term[k].scale = dt(conv)

\* The explicit scheme uses the data of the last computed time: the newest flux in the
\* matrix and the field values at the beginning of the step in the other terms.
TermsUpToDate ==
  pc = "solve" => /\ term["tm"].flux = flux.value
                  /\ \A f \in deps["src"] : term["src"].data[f] = data_at(f, t(conv))
                  /\ term["bc"].data["bc"] = data_at("bc", t(conv))
                  /\ \A f \in deps["mass"] : mass[f] = data_at(f, t(conv))

\* "compute BC so the full system is assembled": the boundary term is as new as the matrix.
BoundaryUsesNewFlux == pc = "solve" => term["bc"].flux = flux.value

\* The least steps a user may ask for: init_dt and the min_dt of the rows of the table.
user_limits == {InitDt} \cup {Larger(Table[i].min_dt, 1) : i \in 1 .. Len(Table)}

\* No step of the convection is longer than the newest CFL limit, whatever limit the step
\* was fixed with before; only a least step of the user may ask for more.
StepObeysCfl ==
  pc = "evaluate" /\ ~ first => \E l \in user_limits : dt(conv) <= Larger(cfl, l)

\* The convection ends its steps exactly in the time of TOS, so the two governors agree
\* whenever the coupling looks at them.
TargetMet == pc = "idle" => t(conv) = t(tos)

\* Every explicit step uses terms of its own data and its own length.
TermsOfTheStep == TermsScaledByStep /\ TermsUpToDate
=============================================================================
