---------------------------- MODULE MCLifecycle -----------------------------
(***************************************************************************)
(* Expense groups, the errors that block them and the counts of their      *)
(* exports for TLC.  A behaviour is one of a part and moves only the       *)
(* variables of that part.  Three parts are about GroupLifecycle:          *)
(*   changes  fund source changes and approved imports, while exports run; *)
(*   rules    every kind of import and webhook, a skip rule, a fund source *)
(*            without a setting, and a handler that fails;                 *)
(*   imports  imports of all other kinds and reports, in two processes.    *)
(* In changes and rules one process works.  The constants of               *)
(* GroupLifecycle are those of the first two, and imports has its own.     *)
(* Then there are errors and counts, where one process works, too.         *)
(***************************************************************************)
EXTENDS GroupLifecycle, Dashboard, TLC

CONSTANTS
    Chosen,  \* the parts of this run
    h1, g1, g2, g3, a1, a2, a3, x1, x2, x3

VARIABLE part  \* the part that moves

mVars == <<uses, mapped, error, failed, handler>>
lVars == <<log, detail, clock, done, exporter>>
all   == <<part, vars, mVars, lVars>>

\* two personal expenses and one of a card
FundOf == x1 :> 1 @@ x2 :> 1 @@ x3 :> 2

Arrivals == INSTANCE GroupLifecycle WITH
    Filtered <- {}, Imports <- {"later", "direct", "sync"}, Webhooks <- {"added"},
    MaxGroups <- 3, MaxChanges <- 0, MaxFaults <- 0

ASSUME ArrivalsAssumption == Arrivals!LifecycleAssumption

Symmetry == Permutations({g1, g2, g3})
-----------------------------------------------------------------------------
\* a part that rests is in one of its initial states
MCInit ==
    /\ part \in Chosen
    /\ Init /\ (part \in {"errors", "counts"} => fyle = [e \in Expenses |-> "CCC"])
    /\ Errors!Init /\ Exports!Init
    /\ part # "errors" => uses = [g \in {g1, g2, g3} |-> {a1}]

\* one process handles imports and changes
Alone == \A h \in Procs \ {h1} : UNCHANGED proc[h]

MCNext ==
    /\ \/ /\ \/ part \in {"changes", "rules"} /\ Next /\ Alone
             \/ part = "imports" /\ Arrivals!Next
          /\ UNCHANGED <<mVars, lVars>>
       \/ part = "errors" /\ Errors!Act  /\ UNCHANGED <<vars, lVars>>
       \/ part = "counts" /\ Exports!Next /\ UNCHANGED <<vars, mVars>>
    /\ UNCHANGED part

MCSpec == MCInit /\ [][MCNext]_all
=============================================================================
