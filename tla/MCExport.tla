------------------------------ MODULE MCExport ------------------------------
(* Instances of Export for TLC.                                            *)
EXTENDS Export, TLC

CONSTANTS g1, g2, w1, w2

AllPersonal == [g \in Groups |-> "PERSONAL"]
BothFunds   == [g \in Groups |-> IF g = g1 THEN "PERSONAL" ELSE "CCC"]

\* settings that only concern the personal fund source
PersonalSettings ==
    {c \in [Funds -> Types \cup {NoType}] : c["CCC"] = NoType}

\* a single configuration with a type for every fund source
OneSetting == [Funds -> Types]

Symmetry == Permutations(Workers)

\* when all groups have one fund source they are alike, too
GroupSymmetry == Symmetry \cup Permutations(Groups)
=============================================================================
