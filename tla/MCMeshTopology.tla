--------------------------- MODULE MCMeshTopology ---------------------------
(* Triangles in a strip and lines on their sides, in every order, with      *)
(* boundary elements in their corners and on their sides.                   *)
EXTENDS MeshTopology

mt_elements == {<<1, 2, 3>>, <<2, 3, 4>>, <<3, 4, 5>>, <<2, 3>>, <<3, 4>>, <<3, 5>>}

mt_meshes ==
  [n_nodes : {5},
   bulk : {s \in [1..2 -> mt_elements] \cup [1..3 -> mt_elements] : IsInjective(s)},
   boundary : {<<>>, << <<3>> >>, << <<3, 4>> >>, << <<1, 2>>, <<5>> >>, << <<4, 5>>, <<2, 3>> >>}]
=============================================================================
