----------------------------- MODULE MCPlatform -----------------------------
(***************************************************************************)
(* What the equations stand on, one part at a time: the others stay as     *)
(* they were constructed.  "retry" is a governor whose steps are rejected  *)
(* and repeated with a smaller length.                                     *)
(***************************************************************************)
EXTENDS MCOutputTimes, TimeMarks, MCFieldHistory, MCDofExchange, RegionDB, Profiler, MCMeshTopology, FieldFiles, MCInputReader

---------------------------------------------------------------------------
(* Times that are merged (distance 1), times that only count as reached
   together (distance 2 and 3) and distant ones.  The steps are long against Tol. *)
MCGrids == {[begin |-> 0, dt |-> 500, end |-> 1001]}
MCMasks == {{"fixed"}, {"fixed", "output"}}
MCProbes == {[end |-> 499, length |-> 400], [end |-> 502, length |-> 400]}

(* Meshes without physical names, with names of two dimensions, of the same  *)
(* id, of the boundary, and with elements of ids that have no name.          *)
rg_label(id) == CASE id = 1 -> "region_1" [] id = 2 -> "region_2" [] id = 3 -> "region_3"
                  [] OTHER -> "region_n"

rg_meshes ==
  [names : {<<>>, <<[id |-> 1, dim |-> 1, label |-> "a"]>>,
            <<[id |-> 1, dim |-> 1, label |-> "a"], [id |-> 1, dim |-> 2, label |-> ".b"]>>,
            <<[id |-> 1, dim |-> 2, label |-> "a"], [id |-> 2, dim |-> 1, label |-> ".b"]>>},
   elements : {<<[id |-> 1, dim |-> 1], [id |-> 2, dim |-> 2]>>,
               <<[id |-> 2, dim |-> 1], [id |-> 2, dim |-> 2], [id |-> 1, dim |-> 2]>>}]

(* Three tags, two of them with the same place in a table of two.           *)
pr_hash(tag) == IF tag = "c" THEN 0 ELSE 1

(* A file whose sections come out of order, lack rows and have rows of no      *)
(* element; two fields of one name, one of which reads ahead, and one on the   *)
(* boundary.                                                                  *)
ff_section(n, t, rows) == [name |-> n, time |-> t, rows |-> rows]
MCFfFiles ==
  [input |-> <<ff_section("cond", 0, <<<<1, 10>>, <<2, 20>>, <<3, 30>>, <<4, 40>>>>),
               ff_section("flux", 1, <<<<2, 7>>, <<5, 8>>, <<6, 9>>>>),
               ff_section("cond", 2, <<<<1, 11>>, <<5, 21>>>>),
               ff_section("cond", 1, <<<<1, 12>>>>),
               ff_section("flux", 2, <<<<2, 6>>, <<3, 5>>>>),
               ff_section("cond", 3, <<<<3, 31>>, <<4, 41>>>>)>>,
   other |-> <<ff_section("cond", 1, <<<<1, 1>>, <<3, 3>>, <<4, 4>>>>)>>]
MCFfIds == [bulk |-> <<1, 3, 4>>, boundary |-> <<2, 5>>]

ff_field(file, n, b, c, d, s) == [file |-> file, name |-> n, boundary |-> b, coef |-> c, default |-> d, shift |-> s]
MCFfFields ==
  [flow |-> ff_field("input", "cond", FALSE, 2, <<5>>, 0), solute |-> ff_field("input", "cond", FALSE, 2, <<5>>, 1),
   bc |-> ff_field("input", "flux", TRUE, 3, <<>>, 0), heat |-> ff_field("other", "cond", FALSE, 1, <<0>>, 1)]

---------------------------------------------------------------------------
VARIABLES part,                       \* the one that runs
          rt_tg, rt_marks, rt_chosen  \* of the governor that is retried

rt_vars == <<rt_tg, rt_marks, rt_chosen>>

rt_table == <<[time |-> 0, min_dt |-> 2, max_dt |-> 24],
              [time |-> 12, min_dt |-> 4, max_dt |-> 6],
              [time |-> 24, min_dt |-> 2, max_dt |-> 24]>>

Retry == INSTANCE TimeGovernor
  WITH Inf <- 1000, Start <- 0, End <- 24, Table <- rt_table, InitDt <- 0, Second <- 2, Prescribed <- {12},
       Uppers <- {3, 6, 12}, Lowers <- {}, Targets <- {}, Reductions <- {1, 2, 3, 6},
       tg <- rt_tg, marks <- rt_marks, chosen <- rt_chosen

\* A part that does not run is given any input.
inputs(p, S) == IF part = p THEN S ELSE {CHOOSE x \in S : TRUE}

PlInit ==
  /\ part \in {"marks", "field", "dofs", "regions", "profiler", "mesh", "files", "input", "retry", "times", "stream"}
  /\ TmInit
  /\ fd_input \in inputs("field", FdInputLists) /\ FdInit
  /\ df_owner \in inputs("dofs", DfOwners) /\ df_eager \in inputs("dofs", BOOLEAN) /\ DfInit
  /\ rg_mesh \in inputs("regions", RgMeshes) /\ RgInit
  /\ part # "regions" => rg_phase # "elements"
  /\ PrInit
  /\ mt_mesh \in inputs("mesh", MtMeshes) /\ MtInit
  /\ FfInit
  /\ InInit
  /\ Retry!Init
  /\ Init
  /\ os_layout \in inputs("stream", OsLayouts) /\ os_equations \in inputs("stream", OsEquations)
  /\ os_parallel \in inputs("stream", BOOLEAN) /\ OsInit

pl_vars == <<part, tm_vars, fd_vars, df_vars, rg_vars, pr_vars, mt_vars, ff_vars, in_vars, rt_vars, vars, os_vars>>

PlNext ==
  \/ part = "marks" /\ TmNext
       /\ UNCHANGED <<part, fd_vars, df_vars, rg_vars, pr_vars, mt_vars, ff_vars, in_vars, rt_vars, vars, os_vars>>
  \/ part = "field" /\ FdNext
       /\ UNCHANGED <<part, tm_vars, df_vars, rg_vars, pr_vars, mt_vars, ff_vars, in_vars, rt_vars, vars, os_vars>>
  \/ part = "dofs" /\ (DfNext \/ (DfAtEnd /\ UNCHANGED df_vars))
       /\ UNCHANGED <<part, tm_vars, fd_vars, rg_vars, pr_vars, mt_vars, ff_vars, in_vars, rt_vars, vars, os_vars>>
  \/ part = "regions" /\ RgNext
       /\ UNCHANGED <<part, tm_vars, fd_vars, df_vars, pr_vars, mt_vars, ff_vars, in_vars, rt_vars, vars, os_vars>>
  \/ part = "profiler" /\ PrNext
       /\ UNCHANGED <<part, tm_vars, fd_vars, df_vars, rg_vars, mt_vars, ff_vars, in_vars, rt_vars, vars, os_vars>>
  \/ part = "mesh" /\ MtNext
       /\ UNCHANGED <<part, tm_vars, fd_vars, df_vars, rg_vars, pr_vars, ff_vars, in_vars, rt_vars, vars, os_vars>>
  \/ part = "files" /\ FfNext
       /\ UNCHANGED <<part, tm_vars, fd_vars, df_vars, rg_vars, pr_vars, mt_vars, in_vars, rt_vars, vars, os_vars>>
  \/ part = "input" /\ InNext
       /\ UNCHANGED <<part, tm_vars, fd_vars, df_vars, rg_vars, pr_vars, mt_vars, ff_vars, rt_vars, vars, os_vars>>
  \/ part = "retry" /\ Retry!RetryNext
       /\ UNCHANGED <<part, tm_vars, fd_vars, df_vars, rg_vars, pr_vars, mt_vars, ff_vars, in_vars, vars, os_vars>>
  \/ part = "times" /\ Next
       /\ UNCHANGED <<part, tm_vars, fd_vars, df_vars, rg_vars, pr_vars, mt_vars, ff_vars, in_vars, rt_vars, os_vars>>
  \/ part = "stream" /\ OsNext
       /\ UNCHANGED <<part, tm_vars, fd_vars, df_vars, rg_vars, pr_vars, mt_vars, ff_vars, in_vars, rt_vars, vars>>

PlSpec == PlInit /\ [][PlNext]_pl_vars

\* A retried step is within the reduced length or the lower constraint, repeats the rejected
\* length inside a fixed interval and does not jump over a fixed mark.
RetryReducedUnlessFixed == Retry!RetryReducedUnlessFixed
=============================================================================
