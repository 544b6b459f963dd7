----------------------------- MODULE MCSummary -----------------------------
(* Small instances of ExportSummary.                                       *)
EXTENDS ExportSummary, TLC

CONSTANTS e1, e2, e3, g1, g2

\* three expenses in one group
ThreeGroupOf == (e1 :> g1) @@ (e2 :> g1) @@ (e3 :> g1)
ThreeId      == (e1 :> 1) @@ (e2 :> 2) @@ (e3 :> 3)

\* two expenses, apart or together
TwoGroupOf == (e1 :> g1) @@ (e2 :> g2)
OneGroupOf == (e1 :> g1) @@ (e2 :> g1)
TwoId      == (e1 :> 1) @@ (e2 :> 2)

Symmetry == Permutations(Workers)
=============================================================================
