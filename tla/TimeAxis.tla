------------------------------ MODULE TimeAxis ------------------------------
(***************************************************************************)
(* What an equation relies on when it asks its TimeGovernor for the next   *)
(* time: the time only grows, it stops in every fixed time mark on its way *)
(* (start, end, input, output and target times), and it reaches the end.   *)
(***************************************************************************)
EXTENDS Integers

CONSTANTS Start,    \* init_time_
          End       \* end_time_

VARIABLES now,      \* TimeGovernor::t()
          fixed     \* times of the fixed time marks of the equation

vars == <<now, fixed>>

Init == now = Start /\ fixed \subseteq Int

\* The next time lies in the future and no fixed mark lies strictly before it.
Step == /\ now < End
        /\ now' > now
        /\ \A m \in fixed : now < m => now' <= m
        /\ fixed' = fixed

\* New fixed marks, all in the future.
Mark == /\ fixed \subseteq fixed' /\ fixed' \subseteq Int
        /\ \A m \in fixed' \ fixed : now < m
        /\ now' = now

Next == Step \/ Mark

Spec == Init /\ [][Next]_vars

\* The axis ends: the loop over the time steps of an equation terminates.
Reached == <>(now >= End)
=============================================================================
