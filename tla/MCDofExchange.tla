---------------------------- MODULE MCDofExchange ----------------------------
(* A line of elements with a branch, over three ranks in every partitioning.  *)
EXTENDS DofExchange

df_mesh == << <<1, 2>>, <<2, 3>>, <<3, 4>>, <<2, 5, 6>> >>

df_owners == [1 .. 4 -> 0 .. 2]
==============================================================================
