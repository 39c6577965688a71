--------------------------------- MODULE MCMesh ---------------------------------
(***************************************************************************)
(* Constant values for the run of Mesh.                                    *)
(***************************************************************************)
EXTENDS Mesh

abc == {"a", "b", "c"}

Lists(a, b, c) == [s \in abc |-> CASE s = "a" -> a [] s = "b" -> b [] s = "c" -> c]

\* A chain, a diamond, the same request twice.
Trees == {Lists(<<"b">>, <<"c">>, <<>>), Lists(<<"b", "c">>, <<"c">>, <<>>),
          Lists(<<"b", "b">>, <<"c">>, <<>>)}

\* A service that calls itself, a cycle of two with a way out, one behind a.
Cycles == {Lists(<<"a">>, <<>>, <<>>), Lists(<<"b">>, <<"a", "c">>, <<>>),
           Lists(<<"b">>, <<"c">>, <<"b">>)}

All == Trees \cup Cycles
===============================================================================
