------------------------------ MODULE Balance ------------------------------
(***************************************************************************)
(* The balance of a transported substance: one or several steps of the     *)
(* equation (each adds its sources and fluxes), then output_data(), which  *)
(* writes the balance if its time is a balance mark.  The equation itself  *)
(* conserves mass exactly: whatever the balance reports as error is an     *)
(* error of the accounting, and the properties say which one.              *)
(***************************************************************************)
EXTENDS BalanceOps, TimeMarksOps

CONSTANTS BalEndTime,
          BalInputs,        \* [times, add_output_times, output_times, cumulative, model, initial_mass]
          BalDts,           \* lengths of steps by model, "splitting" or "dg"
          BalSources,       \* source rates of a process
          BalFluxes,        \* outgoing flux rates, all processes together
          BalReactions,     \* mass that reactions add in a step (operator splitting)
          BalRetardation    \* sorbed mass per dissolved mass (TransportDG)

ASSUME BalanceInputsAssumption ==
  /\ BalEndTime \in Nat /\ BalRetardation \in Nat
  /\ BalSources \subseteq Int /\ BalFluxes \subseteq Int /\ BalReactions \subseteq Int
  /\ BalDts["splitting"] \cup BalDts["dg"] \subseteq Nat \ {0}
  /\ \A in \in BalInputs :
       /\ in.cumulative \in BOOLEAN /\ in.add_output_times \in BOOLEAN
       /\ in.model \in {"splitting", "dg"} /\ in.initial_mass \in Int
       /\ IsFiniteSet(in.times) /\ IsFiniteSet(in.output_times)

VARIABLES balance,             \* the Balance object
          bal_marks,         \* time marks of the equation
          bal_model,         \* TransportOperatorSplitting or TransportDG
          bal_step, bal_tlevel,  \* the step of its governor and its index
          bal_mass,          \* mass of the substance in the domain
          bal_ret_prev,      \* ret_sources_prev of TransportDG
          bal_pc,            \* "read", "output", "step"
          bal_total,         \* history: sources and fluxes since the initial time
          bal_began,         \* history: mass at the initial time
          bal_excess,        \* history: what was booked as sorbed beyond what was
          bal_unit,          \* history: every step so far had the length 1
          bal_last_report    \* history: what the last output wrote

bal_vars == <<balance, bal_marks, bal_model, bal_step, bal_tlevel, bal_mass, bal_ret_prev, bal_pc, bal_total, bal_began, bal_excess, bal_unit, bal_last_report>>

balance_type == {"fixed", "balance"}

add_all(ms, times, types) == FoldSet(LAMBDA t, acc : add(acc, t, types), ms, times)

\* Balance::init_from_input through OutputTimeSet, and the marks of the output fields.
input_marks(in) ==
  add_all(add_all(stoppers, {0, BalEndTime}, {"fixed"}) , in.output_times, {"fixed", "output"})

\* The marks after init_from_input and lazy_initialize
balance_marks(ms, in) ==
  LET own == add_all(ms, in.times, balance_type \cup {"output"})
  IN  IF in.add_output_times THEN add_to_type_all(own, {"output"}, balance_type) ELSE own

\* "if there are no balance marks turn balance off"
no_marks(ms) == begin(ms) = end(ms)

\* Balance::is_current
is_current(bal, ms, s) == bal.on /\ current(ms, s, balance_type) # end(ms)

BalInit == /\ balance = new_balance(FALSE) /\ bal_marks = stoppers
        /\ bal_step = [end |-> 0, length |-> 1] /\ bal_tlevel = 0
        /\ bal_mass = 0 /\ bal_ret_prev = 0 /\ bal_pc = "read" /\ bal_model = "splitting"
        /\ bal_total = [sources |-> 0, fluxes |-> 0]
        /\ bal_began = 0 /\ bal_excess = 0 /\ bal_unit = TRUE
        /\ bal_last_report = [sources |-> 0, fluxes |-> 0, error |-> 0, legacy_error |-> 0]

\* Construction of the equation and of its balance from the input, initial condition
BalRead(in) ==
  LET ms == balance_marks(input_marks(in), in)
  IN  /\ bal_pc = "read"
      /\ bal_marks' = ms
      /\ balance' = IF no_marks(ms) THEN [new_balance(FALSE) EXCEPT !.on = FALSE]
              ELSE new_balance(in.cumulative)
      /\ bal_model' = in.model /\ bal_mass' = in.initial_mass /\ bal_began' = in.initial_mass
      /\ bal_pc' = "output"
      /\ UNCHANGED <<bal_step, bal_tlevel, bal_ret_prev, bal_total, bal_excess, bal_unit, bal_last_report>>

\* A fixed mark ends the step of the operator splitting, so its output comes first.
bal_may_step == /\ bal_pc = "step" /\ bal_step.end < BalEndTime

bal_next_step(dt) == /\ bal_step.end + dt <= bal_marks[next(bal_marks, bal_step.end, {"fixed"})].time
                 /\ bal_step' = [end |-> bal_step.end + dt, length |-> dt]
                 /\ bal_tlevel' = bal_tlevel + 1 /\ bal_unit' = (bal_unit /\ dt = 1)

at_fixed_mark(t) == \E i \in DOMAIN bal_marks : bal_marks[i].time = t /\ "fixed" \in bal_marks[i].types

\* One step of the convection and of the reactions behind it (operator splitting):
\* calculate_cumulative() of the convection, then the mass difference of the reactions.
SplittingStep(dt, src, out, react) ==
  /\ bal_may_step /\ bal_model = "splitting"
  /\ bal_next_step(dt)
  /\ LET sources == sum_over(src) * dt
     IN  /\ balance' = add_cumulative_source(calculate_cumulative(balance, bal_tlevel', dt, src, out), react)
         /\ bal_mass' = bal_mass + sources - out * dt + react
         /\ bal_total' = [sources |-> bal_total.sources + sources + react, fluxes |-> bal_total.fluxes - out * dt]
  /\ bal_pc' \in IF at_fixed_mark(bal_step'.end) THEN {"output"} ELSE {"output", "step"}
  /\ UNCHANGED <<bal_marks, bal_model, bal_ret_prev, bal_began, bal_excess, bal_last_report>>

\* One step of TransportDG: sorbed mass (Retardation times the dissolved mass) is not part
\* of the mass of the balance, so what is sorbed in the step is a negative source.  It is
\* booked as a rate, and in the first step all that is sorbed is.
DGStep(dt, src, out) ==
  LET gained == (sum_over(src) - out) * dt
      dissolved == gained \div (1 + BalRetardation)
      ret == -BalRetardation * (bal_mass + dissolved)
      source == IF balance.cumulative THEN (ret - bal_ret_prev) \div dt ELSE 0
  IN  /\ bal_may_step /\ bal_model = "dg"
      /\ gained % (1 + BalRetardation) = 0
      /\ balance.cumulative => (ret - bal_ret_prev) % dt = 0
      /\ bal_next_step(dt)
      /\ bal_mass' = bal_mass + dissolved
      /\ balance' = add_cumulative_source(calculate_cumulative(balance, bal_tlevel', dt, src, out), source)
      /\ bal_ret_prev' = IF balance.cumulative THEN ret ELSE bal_ret_prev
      /\ bal_total' = [sources |-> bal_total.sources + sum_over(src) * dt - BalRetardation * dissolved,
                   fluxes |-> bal_total.fluxes - out * dt]
      /\ bal_excess' = bal_excess + (source + BalRetardation * dissolved)
      /\ bal_pc' = "output"
      /\ UNCHANGED <<bal_marks, bal_model, bal_began, bal_last_report>>

\* output_data() of the equation: calculate_instant() and output()
BalOutputData ==
  LET now == [balance EXCEPT !.sum_masses = bal_mass]
  IN  /\ bal_pc = "output"
      /\ IF is_current(balance, bal_marks, bal_step)
         THEN balance' = output(now) /\ bal_last_report' = IF balance.cumulative THEN report(now) ELSE bal_last_report
         ELSE UNCHANGED <<balance, bal_last_report>>
      /\ bal_pc' = "step"
      /\ UNCHANGED <<bal_marks, bal_model, bal_step, bal_tlevel, bal_mass, bal_ret_prev, bal_total, bal_began, bal_excess, bal_unit>>

BalAtEnd == bal_pc = "step" /\ bal_step.end = BalEndTime /\ UNCHANGED bal_vars

BalNext ==
  \/ \E in \in BalInputs : BalRead(in)
  \/ \E dt \in BalDts["splitting"], src \in [Ranks -> BalSources], out \in BalFluxes, react \in BalReactions :
       SplittingStep(dt, src, out, react)
  \/ \E dt \in BalDts["dg"], src \in [Ranks -> BalSources], out \in BalFluxes : DGStep(dt, src, out)
  \/ BalOutputData
  \/ BalAtEnd

BalSpec == BalInit /\ [][BalNext]_bal_vars

---------------------------------------------------------------------------
(* Properties. *)

\* No increment is lost or counted twice on its way from the processes to the integrals of
\* process 0: what is integrated and what the processes still hold is what flowed since the
\* initial time and what was booked too much, whichever steps ended in a balance mark.
IncrementsConserved ==
  balance.cumulative =>
    /\ balance.integrated_sources + sum_over(balance.increment_sources) = bal_total.sources + bal_excess
    /\ balance.integrated_fluxes + balance.increment_fluxes = bal_total.fluxes

\* Every balance mark gets its report: after the output at a mark nothing is pending.  The
\* error in it, by the formula of output_csv() and output_yaml(), is what the mass changed
\* before the first report, whose mass is taken for the initial one, less what was booked too
\* much: there is none where the first report is at the initial time and nothing sorbs.
ReportsAtMarks ==
  bal_pc = "step" /\ balance.cumulative
    /\ (\E i \in DOMAIN bal_marks : bal_marks[i].time = bal_step.end /\ match_mask(bal_marks[i], balance_type)) =>
       /\ bal_last_report.sources = bal_total.sources + bal_excess
       /\ bal_last_report.fluxes = bal_total.fluxes
       /\ bal_last_report.error = (bal_began - balance.initial_mass) - bal_excess

\* The operator splitting books what its reactions add.  The implicit transport in steps of
\* the length 1 books what it sorbs, and what was sorbed at the initial time too.
SorptionBooked ==
  /\ bal_model = "splitting" => bal_excess = 0
  /\ bal_model = "dg" /\ balance.cumulative /\ bal_unit /\ bal_tlevel > 0 =>
       bal_excess = -BalRetardation * bal_began

\* Everything that flowed is integrated or still in an increment of a rank, at a mark it is
\* all integrated, and the error written there in csv and yaml is explained by the initial
\* mass and the sorption.
FlowsAccounted == IncrementsConserved /\ ReportsAtMarks /\ SorptionBooked

\* The error in the legacy table is zero: "# Initial mass [M] + sources integrated over time
\* [M] - flux integrated over time [M] = current mass [M]" (output_legacy).
LegacyTableBalances == bal_last_report.legacy_error = 0
============================================================================
