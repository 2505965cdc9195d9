--------------------------- MODULE MCOutputStream ---------------------------
(* Two ranks; triangles and lines that share nodes; points on one rank or on *)
(* both, in an order that is not that of the ranks, or none.                 *)
EXTENDS OutputStream

os_field(n, s, o) == [name |-> n, space |-> s, observed |-> o]
MCOsEquations == {<<<<os_field("conc", "elem", TRUE), os_field("porosity", "node", FALSE)>>,
                    <<os_field("sorbed", "elem", TRUE)>>>>,
                  <<<<os_field("conc", "corner", TRUE), os_field("porosity", "elem", FALSE)>>,
                    <<os_field("sorbed", "node", TRUE)>>>>}
MCOsDue == {{}, {"conc"}, {"porosity", "sorbed"}}

os_mesh(r) == <<[rank |-> r[1], nodes |-> <<1, 2, 3>>], [rank |-> r[2], nodes |-> <<3, 2>>],
                [rank |-> r[3], nodes |-> <<2, 4, 3>>]>>
MCOsLayouts == {[elements |-> os_mesh(<<1, 0, 1>>), points |-> <<1, 0, 1>>],
                [elements |-> os_mesh(<<0, 1, 0>>), points |-> <<1, 1>>],
                [elements |-> os_mesh(<<0, 0, 1>>), points |-> <<>>]}
=============================================================================
