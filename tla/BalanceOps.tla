----------------------------- MODULE BalanceOps -----------------------------
(***************************************************************************)
(* The cumulative balance of one conserved quantity (coupling/balance.cc). *)
(* Every process keeps the increments of its sources since the last output *)
(* of the balance; process 0 keeps the increments of the fluxes (already   *)
(* summed over the processes) and the integrals from the initial time.     *)
(* Regions and single boundary edges are summed up; every quantity has its *)
(* own copy of the record.                                                 *)
(***************************************************************************)
EXTENDS Integers, FiniteSetsExt

CONSTANT Ranks     \* MPI processes 0 .. n-1

ASSUME RanksAssumption == Ranks \subseteq Nat /\ 0 \in Ranks /\ IsFiniteSet(Ranks)

sum_over(values) == MapThenSumSet(LAMBDA r : values[r], DOMAIN values)

new_balance(cumulative) ==
  [on |-> TRUE, cumulative |-> cumulative, initial |-> TRUE, initial_mass |-> 0,
   increment_sources |-> [r \in Ranks |-> 0], increment_fluxes |-> 0,
   integrated_sources |-> 0, integrated_fluxes |-> 0, sum_masses |-> 0]

\* Balance::add_cumulative_source: the value is global, process 0 takes it.
add_cumulative_source(b, source) ==
  IF ~ b.cumulative THEN b ELSE [b EXCEPT !.increment_sources[0] = @ + source]

\* Balance::calculate_cumulative: local sources per process, outgoing flux of all processes.
calculate_cumulative(b, tlevel, dt, sources, outflux) ==
  IF ~ b.cumulative \/ tlevel <= 0 THEN b
  ELSE [b EXCEPT !.increment_sources = [r \in Ranks |-> @[r] + sources[r] * dt],
                 !.increment_fluxes = @ - outflux * dt]

\* MPI_Reduce of the increments to process 0.
gathered(b) == [b EXCEPT !.increment_sources[0] = sum_over(b.increment_sources)]

\* Process 0 at an output: the first one saves the mass as the initial one.
integrate(b) ==
  IF ~ b.cumulative THEN b
  ELSE [b EXCEPT !.initial_mass = IF b.initial THEN b.sum_masses ELSE @,
                 !.initial = FALSE,
                 !.integrated_fluxes = @ + b.increment_fluxes,
                 !.integrated_sources = @ + b.increment_sources[0]]

\* Mutant: the other processes keep their increments.
cleared_on_zero(b) == [b EXCEPT !.increment_sources[0] = 0, !.increment_fluxes = 0]

\* The end of Balance::output: sources on every process, fluxes on process 0.
cleared(b) == [b EXCEPT !.increment_sources = [r \in Ranks |-> 0], !.increment_fluxes = 0]

\* What is written: the cumulative part is printed after integration, before the reset.  The
\* fluxes are incoming ones, and the tables in csv and yaml add them; the legacy one subtracts
\* them.
report(b) ==
  LET r == integrate(gathered(b))
  IN  [sources |-> r.integrated_sources, fluxes |-> r.integrated_fluxes,
       error |-> r.sum_masses - (r.initial_mass + r.integrated_sources + r.integrated_fluxes),
       legacy_error |-> r.initial_mass + r.integrated_sources - r.integrated_fluxes - r.sum_masses]

\* Balance::output at a balance mark
output(b) == cleared(integrate(gathered(b)))
=============================================================================
