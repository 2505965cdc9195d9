---------------------------- MODULE MCEquations ----------------------------
(***************************************************************************)
(* The equations and what they are made of, one of them at a time: the     *)
(* others stay as they were constructed.                                   *)
(***************************************************************************)
EXTENDS DarcyFlow, Balance, NonlinearFlow, DgAssembly, TransportDG, HMIterative, FlowMH,
        ReactionTerms, SchurSystem

---------------------------------------------------------------------------
schedule(zero, data, more) ==
  [zero |-> zero, data |-> data,
   jumps |-> {s \in 1 .. LmhEndTime : zero[s] # zero[s - 1]} \cup more]

Data == {d \in [0 .. LmhEndTime -> {1, 2}] : d[LmhEndTime] = d[LmhEndTime - 1]}

\* Every switching between steady and unsteady flow
Switching == {schedule(zero, data, more) :
                zero \in [0 .. LmhEndTime -> BOOLEAN], data \in Data, more \in {{}, {2}}}

\* Inputs with a balance mark at the initial time and without one
in(times, add_output, outputs, cum, m) ==
  [times |-> times, add_output_times |-> add_output, output_times |-> outputs,
   cumulative |-> cum, model |-> m, initial_mass |-> 5]

MCInputs == {in(times, add_output, outputs, TRUE, m) :
               times \in {{0}, {0, 2}, {3}}, add_output \in BOOLEAN,
               outputs \in {{0, 4}, {0, 1, 4}}, m \in {"splitting", "dg"}}
              \cup {in({3}, FALSE, {0, 4}, FALSE, m) : m \in {"splitting", "dg"}}
\* ... that give a table without error in csv
ExactInputs == {i \in MCInputs : i.cumulative /\ i.model = "splitting" /\ 0 \in i.times}
MCDts == [splitting |-> {1, 2}, dg |-> {1, 2}]
MCFluxes == {-1, 0}
MCReactions == {-1, 0}

(* Limits of iterations on both sides of the test of stagnation, which       *)
(* looks at five residuals, empty limits, a linear and a seepage problem.    *)
nl_case_of(mn, mx, stag, lin, seep) ==
  [min_it |-> mn, max_it |-> mx, on_stagnation |-> stag, linear |-> lin, seepage |-> seep]

nl_cases ==
  {nl_case_of(1, 5, stag, FALSE, <<0, 0>>) : stag \in BOOLEAN}
    \cup {nl_case_of(4, 5, FALSE, FALSE, <<0, 0>>), nl_case_of(5, 5, FALSE, FALSE, <<0, 0>>),
          nl_case_of(3, 2, FALSE, FALSE, <<0, 0>>), nl_case_of(1, 3, FALSE, TRUE, <<0, 0>>),
          nl_case_of(1, 2, FALSE, FALSE, <<2, 1>>)}

(* Two triangles 1, 2 that share an edge, a triangle 3 behind the line       *)
(* element 4, and line elements 5, 6 that meet 4 in a node.                  *)
da_mesh ==
  [dim |-> <<2, 2, 2, 1, 1, 1>>,
   region |-> <<1, 2, 1, 3, 3, 1>>,
   nodes |-> <<{1, 2, 3}, {2, 3, 4}, {3, 4, 5}, {3, 4}, {4, 6}, {4, 7}>>,
   element_edges |-> <<<<1, 2, 3>>, <<3, 4, 5>>, <<6, 7, 8>>, <<9, 10>>, <<10, 11>>, <<10, 12>>>>,
   edges |-> <<[sides |-> << <<1, 1>> >>, boundary |-> TRUE],
               [sides |-> << <<1, 2>> >>, boundary |-> TRUE],
               [sides |-> << <<1, 3>>, <<2, 1>> >>, boundary |-> FALSE],
               [sides |-> << <<2, 2>> >>, boundary |-> TRUE],
               [sides |-> << <<2, 3>> >>, boundary |-> FALSE],
               [sides |-> << <<3, 1>> >>, boundary |-> FALSE],
               [sides |-> << <<3, 2>> >>, boundary |-> TRUE],
               [sides |-> << <<3, 3>> >>, boundary |-> TRUE],
               [sides |-> << <<4, 1>> >>, boundary |-> TRUE],
               [sides |-> << <<4, 2>>, <<5, 1>>, <<6, 1>> >>, boundary |-> FALSE],
               [sides |-> << <<5, 2>> >>, boundary |-> TRUE],
               [sides |-> << <<6, 2>> >>, boundary |-> TRUE]>>,
   neighbours |-> <<[lower |-> 4, side |-> <<2, 3>>], [lower |-> 4, side |-> <<3, 1>>]>>]

\* The edge of three lines over three ranks or two, the triangles 1, 2 together or not
da_owners == {o \in [1..6 -> 0..2] : o[1] = 0 /\ o[3] = 1 /\ o[5] = 2 /\ o[6] = 0 /\ o[2] # 1}

---------------------------------------------------------------------------
CONSTANT EqParts    \* those that may run

VARIABLE part    \* the one that runs

eq_vars == <<part, lmh_vars, bal_vars, nl_vars, da_vars, dg_vars, hm_vars, mh_vars, rc_vars, sc_vars>>

\* Sorption without and with a limit of solubility and a table, in a dual porosity too
rc_cases == [dual : {FALSE}, solubility : {0}, table_limit : {-1, 1}]
              \cup [dual : {FALSE}, solubility : {2}, table_limit : {1}]
              \cup [dual : {TRUE}, solubility : {0}, table_limit : {-1}]

\* Limits of iterations that are ordinary, zero, contradict each other, have no minimum
hm_limits_tried == {<<1, 3>>, <<0, 0>>, <<3, 2>>, <<0, 2>>}

\* A part that does not run is given any input.
inputs(p, S) == IF part = p THEN S ELSE {CHOOSE x \in S : TRUE}

EqInit ==
  /\ part \in EqParts
  /\ lmh_input \in inputs("lmh", LmhSchedules) /\ LmhInit
  /\ BalInit
  /\ nl_case \in inputs("nonlinear", NlCases)
  /\ reconstructed \in inputs("nonlinear", {no_flux, [of |-> NlElements, age |-> "last"]}) /\ NlInit
  /\ da_owner \in inputs("assembly", DaOwners)
  /\ da_kind \in inputs("assembly", {"mass", "stiffness", "bdr_cond"})
  /\ da_upwards \in inputs("assembly", BOOLEAN) /\ DaInit
  /\ dg_model \in inputs("dg", {"solute", "heat"}) /\ DgInit
  /\ hm_limits \in inputs("hm", HmLimits) /\ HmInit
  /\ mh_zero \in inputs("mh", BOOLEAN) /\ MhInit
  /\ rc_case \in inputs("reaction", RcCases)
  /\ rc_data \in inputs("reaction", [RcElements -> RcData]) /\ RcInit
  /\ sc_n \in inputs("schur", SchurCounts) /\ ScInit

EqNext ==
  \/ part = "lmh" /\ LmhNext
       /\ UNCHANGED <<part, bal_vars, nl_vars, da_vars, dg_vars, hm_vars, mh_vars, rc_vars, sc_vars>>
  \/ part = "balance" /\ BalNext
       /\ UNCHANGED <<part, lmh_vars, nl_vars, da_vars, dg_vars, hm_vars, mh_vars, rc_vars, sc_vars>>
  \/ part = "nonlinear" /\ NlNext
       /\ UNCHANGED <<part, lmh_vars, bal_vars, da_vars, dg_vars, hm_vars, mh_vars, rc_vars, sc_vars>>
  \/ part = "assembly" /\ DaNext
       /\ UNCHANGED <<part, lmh_vars, bal_vars, nl_vars, dg_vars, hm_vars, mh_vars, rc_vars, sc_vars>>
  \/ part = "dg" /\ DgNext
       /\ UNCHANGED <<part, lmh_vars, bal_vars, nl_vars, da_vars, hm_vars, mh_vars, rc_vars, sc_vars>>
  \/ part = "hm" /\ HmNext
       /\ UNCHANGED <<part, lmh_vars, bal_vars, nl_vars, da_vars, dg_vars, mh_vars, rc_vars, sc_vars>>
  \/ part = "mh" /\ MhNext
       /\ UNCHANGED <<part, lmh_vars, bal_vars, nl_vars, da_vars, dg_vars, hm_vars, rc_vars, sc_vars>>
  \/ part = "reaction" /\ RcNext
       /\ UNCHANGED <<part, lmh_vars, bal_vars, nl_vars, da_vars, dg_vars, hm_vars, mh_vars, sc_vars>>
  \/ part = "schur" /\ ScNext
       /\ UNCHANGED <<part, lmh_vars, bal_vars, nl_vars, da_vars, dg_vars, hm_vars, mh_vars, rc_vars>>
  \/ part = "reaction" /\ RcAtEnd /\ UNCHANGED eq_vars

\* The coupling iterates and steps on by itself, as in HmSpec; the other parts are checked for
\* safety only.
EqSpec == EqInit /\ [][EqNext]_eq_vars /\ WF_hm_vars(part = "hm" /\ HmNext)
=============================================================================
