------------------------------ MODULE MCBooks -------------------------------
(***************************************************************************)
(* Payments for TLC, and beside them NetSuiteData.  A behaviour is one of a *)
(* part and moves only the variables of that part:                         *)
(*   calendar  weeks and months, with extra runs and a fault;              *)
(*   marks     people pay and delete bills in NetSuite;                    *)
(*   refused   Fyle refuses to mark one of two reports;                    *)
(*   overlap   runs of two processes overlap;                              *)
(*   data      what goes to and comes from NetSuite.                       *)
(* The constants of Payments are those of calendar, and the others have    *)
(* their own.                                                              *)
(***************************************************************************)
EXTENDS Payments, NetSuiteData, Integers, TLC

CONSTANTS b1, b2, r1, v1, v2, h1, h2, none

VARIABLE part  \* the part that moves

all == <<part, vars, dataVars>>

OneReport  == b1 :> r1 @@ b2 :> r1
OneVendor  == b1 :> v1 @@ b2 :> v1
TwoVendors == b1 :> v1 @@ b2 :> v2

\* here weeks and months are days
Marks == INSTANCE Payments WITH
    Week <- 1, Month <- 1, Retries <- 0, Users <- TRUE
Refused == INSTANCE Payments WITH
    Entity <- TwoVendors, Refusing <- {r1},
    Week <- 1, Month <- 1, Users <- TRUE, MaxExtra <- 0, MaxFaults <- 0
Overlapping == INSTANCE Payments WITH
    Week <- 1, Month <- 1, Retries <- 0, MaxFaults <- 0

ASSUME BooksAssumption ==
    Marks!PaymentsAssumption /\ Refused!PaymentsAssumption /\ Overlapping!PaymentsAssumption
-----------------------------------------------------------------------------
(* The constants of NetSuiteData.                                          *)

AllKinds    == {"BILL", "EXPENSE REPORT", "CREDIT CARD CHARGE", "JOURNAL ENTRY"}
AllSettings == [balancing: BOOLEAN, override: BOOLEAN, single: BOOLEAN, period: BOOLEAN]

\* an expense of 105.00 or a refund of it, with a tax that is right, too low or missing
Some ==
    {x \in [amount: {10500, -10500}, tax: {none, 500, -500, 300}, rate: {0, 5}, account: {1},
            code: {"mapped", "default", "none"}, item: BOOLEAN] :
        x.tax = none \/ x.tax * x.amount > 0}
Other   == [amount |-> 2000, tax |-> 95, rate |-> 5, account |-> 2, code |-> "mapped", item |-> FALSE]
Untaxed == [Other EXCEPT !.account = 1, !.tax = none]

\* its tax is 1.476 cents, and that of its 30 cents is 1.5
Cents == [Untaxed EXCEPT !.amount = 31, !.tax = 1]

\* alone, with an expense of another account, and one with an expense of the same account
DocGroups == {<<x>> : x \in Some} \cup {<<x, Other>> : x \in Some} \cup {<<Cents, Untaxed>>}

\* orders of up to three fields, with and without a project, in any place
Sources == {"PROJECT", "COST_CENTER", "CUSTOM", "GONE"}
Orders  == {f \in UNION {[1..n -> Sources] : n \in {0, 2, 3}} : Copy!IsInjective(f)}

\* one of each way to read
AllTypes == {"account", "location", "vendor", "employee", "item", "custom_list", "custom_record",
             "currency", "tax_item"}

\* the names that NetSuite starts with, up to renaming
Named == remote[1].name = "a" /\ remote[2].name \in {"a", "b"}

\* the segments do not look at the input: all inputs without segments, and one with all
InputOf  == [kind |-> "BILL", dim |-> "class", fund |-> "CCC", mapped |-> FALSE, use |-> TRUE,
             level |-> "ALL", field |-> "EMPLOYEE", employee |-> "set", default |-> TRUE]
Separate == fields = << >> \/ input = InputOf
-----------------------------------------------------------------------------
\* a part that rests is in one of its initial states
MCInit ==
    /\ part \in {"calendar", "marks", "refused", "overlap", "data"}
    /\ IF part = "overlap" THEN Overlapping!Init ELSE Init
    /\ IF part = "data" THEN DataInit ELSE NoData
    /\ subject = "lines"      => Separate
    /\ subject = "dimensions" => Named

\* one process has all the jobs
Alone == UNCHANGED proc[h2]

MCNext ==
    /\ \/ /\ \/ part = "calendar" /\ Next /\ Alone
             \/ part = "marks"    /\ Marks!Next /\ Alone
             \/ part = "refused"  /\ Refused!Next /\ Alone
             \/ part = "overlap"  /\ Overlapping!Next
          /\ UNCHANGED dataVars
       \/ part = "data" /\ DataNext /\ UNCHANGED vars
    /\ UNCHANGED part

MCSpec == MCInit /\ [][MCNext]_all
=============================================================================
