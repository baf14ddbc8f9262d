----------------------------- MODULE MCSkmapPlot -----------------------------
(* One module with an rc vector of two elements, an rc and a ro scalar, a   *)
(* constant and a char register.                                            *)
EXTENDS SkmapPlot

R(vec, acc, kind, check) == [vec |-> vec, acc |-> acc, kind |-> kind, check |-> check]

MCMaps == (0 :> [ev   |-> R(2, "rc", "uint", "zero"),
                 cnt  |-> R(0, "rc", "uint", "div"),
                 temp |-> R(0, "ro", "uint", "div"),
                 id   |-> R(0, "k", "uint", "none"),
                 name |-> R(0, "ro", "char", "none")])

At(a) == [addr |-> a]
All(n) == [name |-> n, idx |-> NoIdx]
One(n, x) == [name |-> n, idx |-> x]

\* Command lines: accepted, and refused for each of the reasons there are.
MCTargets ==
  { <<At(0), One("ev", 1), All("temp")>>,
    <<At(0), All("ev")>>,
    <<At(0), All("cnt"), At(0), All("id")>>,
    <<All("temp"), At(0)>>, <<At(0), At(0), All("temp")>>, <<At(1), All("temp")>>,
    <<At(0), All("temp"), One("ev", 2)>>, <<At(0), One("temp", 0)>>,
    <<At(0), All("name")>>, <<At(0), All("none")>> }
=============================================================================
