------------------------------ MODULE MCClocks ------------------------------
(* The clocks, one of two parts at a time: a governor on the interval 0..24 with a fixed
   mark in 12 and two rows of limits, and the governors of water and its processes in the
   loop of the coupling.  The other part stays as it was constructed. *)
EXTENDS TimeGovernor, MCSequentialCoupling

MCTable == <<[time |-> 0, min_dt |-> 2, max_dt |-> 24],
             [time |-> 12, min_dt |-> 4, max_dt |-> 6],
             [time |-> 24, min_dt |-> 2, max_dt |-> 24]>>

VARIABLE part    \* the one that runs

ClInit ==
  /\ part \in {"governor", "coupling"}
  /\ Init
  /\ CplInit /\ (part # "coupling" => input = CHOOSE in \in Inputs : TRUE)

ClNext == \/ part = "governor" /\ Next /\ UNCHANGED <<part, cpl_vars>>
          \/ part = "coupling" /\ CplNext /\ UNCHANGED <<part, vars>>

\* The fairness of FairSpec and CplFairSpec
ClSpec ==
  /\ ClInit /\ [][ClNext]_<<part, vars, cpl_vars>>
  /\ WF_vars(part = "governor" /\ NextTime)
  /\ WF_cpl_vars(part = "coupling" /\ CplNext)

\* Whatever constraints, targets and fixed steps are asked for, next_time() reaches the end time.
GovernorEnds == part = "governor" => EndReached

\* The loop of run_simulation() ends, with the flow and every process at their ends.
CouplingEnds == part = "coupling" => SimulationEnds
=============================================================================
