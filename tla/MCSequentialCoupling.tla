------------------------ MODULE MCSequentialCoupling ------------------------
(* Water and two processes on 0..32 units.  Water adapts its step and ends before the
   solute; the solute has a fixed mark in 8, the heat equation ends first.  The unit is
   divisible by every number of steps that occurs. *)
EXTENDS SequentialCoupling

unit == 9979200

table(end, min, max) == <<[time |-> 0, min_dt |-> min * unit, max_dt |-> max * unit],
                          [time |-> end * unit, min_dt |-> min * unit, max_dt |-> max * unit]>>

governor(end, min, max, marks) ==
  [cfg |-> [init_time |-> 0, end_time |-> end * unit, steady |-> FALSE,
            dt_limits_table |-> table(end, min, max)],
   second |-> unit, init_dt |-> 0, marks |-> {m * unit : m \in marks \cup {0, end}}]

Files(processes, water, solute, heat) ==
  [processes |-> processes,
   config |-> [e \in {"water", "solute", "heat"} |->
                 CASE e = "water" -> water [] e = "solute" -> solute [] e = "heat" -> heat]]

Transport == governor(32, 1, 6, {8})
Heat == governor(16, 1, 4, {})
Flow == governor(20, 2, 8, {12})

\* Both processes, and each of them alone.
MCInputs == {Files(ps, Flow, Transport, Heat) :
               ps \in {<<"solute", "heat">>, <<"solute">>, <<"heat">>}}
MCAdaptive == {<<>>, <<10, 10>>, <<7, 10>>, <<16, 10>>}

\* The heat equation has four times longer steps than the solute.
MCFastHeat == {Files(<<"solute", "heat">>, governor(32, 1, 4, {}), governor(32, 1, 1, {}),
                     governor(32, 1, 4, {}))}

\* Water keeps its step.
MCSteadySteps == {<<10, 10>>}
=============================================================================
