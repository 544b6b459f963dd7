------------------------------ MODULE Documents ------------------------------
(***************************************************************************)
(* The documents NetSuite receives: how the stored lines of one expense    *)
(* group become the lines of a bill, an expense report, a journal entry or *)
(* a credit card charge, and how a document is sent again when NetSuite    *)
(* refuses its date or its gross amounts.                                  *)
(*                                                                         *)
(* Amounts are integers, in cents.  Rounding is to the nearest cent, ties  *)
(* upwards; floating point may round a tie the other way.                  *)
(***************************************************************************)
EXTENDS Integers, Sequences, FiniteSets, SequencesExt

CONSTANTS
    Kinds,     \* kinds of documents
    Groups,    \* sequences of expenses
    Settings,  \* settings a workspace may have
    None,      \* None of Python
    MaxTries   \* bound on exports of the group

VARIABLES
    group,   \* kind, expenses and settings, which do not change
    rows,    \* stored amounts of the line items, << >> when there are none
    links,   \* expense URLs in the custom fields of each line object in memory
    at,      \* where the export stands
    tries,   \* exports so far
    noGross, \* what skip_posting_gross_amount reads as
    books    \* the document in NetSuite

vars == <<group, rows, links, at, tries, noGross, books>>

\* item: the category is mapped to an item; code: the tax item is mapped or the default
Expense == [amount: Int, tax: Int \cup {None}, rate: Nat, account: {1, 2},
            code: {"mapped", "default", "none"}, item: BOOLEAN]
Setting == [balancing: BOOLEAN,   \* is_tax_balancing_enabled
            override: BOOLEAN,    \* override_tax_details
            single: BOOLEAN,      \* je_single_credit_line
            period: BOOLEAN]      \* change_accounting_period
Line    == [net: Int, gross: Int \cup {None}, tax: Int \cup {None}, rate: Int \cup {None},
            code: {"mapped", "default", "none"}, links: Nat]
\* the lines of an expense: one, or one with its tax and one with the rest
Parts   == [whole: Line] \cup [taxed: Line, rest: Line]
NoBooks == [debits |-> << >>, credits |-> << >>, details |-> {}, date |-> "none", tries |-> 0]

TypeOK ==
    /\ group.kind \in Kinds /\ group.exps \in Groups /\ group.conf \in Settings
    /\ rows \in Seq(Int) /\ links \in Seq(Nat)
    /\ at \in {"new", "created", "dated", "ungrossed", "complete", "failed"}
    /\ tries \in 0..MaxTries /\ noGross \in BOOLEAN
    /\ books.debits \in Seq(Parts) /\ books.credits \in Seq(Line)
    /\ books.date \in {"none", "spent", "month"}

Indices == 1..Len(group.exps)
Abs(x)  == IF x < 0 THEN -x ELSE x

\* round(a / b, 2)
Round(a, b) == (2 * a + b) \div (2 * b)

Taxed(x)  == x.code # "none" /\ x.tax # None
Expected(amount, rate) == Round(amount * rate, 100 + rate)
NetOf(tax, rate) == IF rate = 0 THEN 0 ELSE Round(tax * 100, rate)
-----------------------------------------------------------------------------
\* the user has changed the tax, or the tax is not that of the amount
\* mutant: only a tax that is too high is balanced
ModifiedUp(amount, x) == group.conf.balancing /\ Abs(x.tax) > Expected(amount, x.rate)
Modified(amount, x)   == group.conf.balancing /\ Abs(x.tax) # Expected(amount, x.rate)

HasTax == group.kind \in {"JOURNAL ENTRY", "EXPENSE REPORT"}
Rated(x, amount) == IF group.kind = "BILL" /\ x.item THEN amount - x.tax ELSE None

\* the part of the amount that carries the tax
TaxedPart(base, amount, x) ==
    LET net == NetOf(x.tax, x.rate) IN
    [base EXCEPT !.net = net, !.code = x.code, !.rate = Rated(x, amount),
                 !.tax = IF HasTax THEN x.tax ELSE None,
                 !.gross = IF group.kind = "JOURNAL ENTRY" THEN net + x.tax ELSE base.gross]

\* the rest, with the default tax code
\* mutant: the tax stays in the rest
RestWithTax(base, amount, x) ==
    LET net == amount - NetOf(x.tax, x.rate) IN
    [base EXCEPT !.net = net, !.code = "default",
                 !.gross = IF group.kind = "JOURNAL ENTRY" THEN net ELSE base.gross]
Rest(base, amount, x) ==
    LET net == amount - NetOf(x.tax, x.rate) - x.tax IN
    [base EXCEPT !.net = net, !.code = "default",
                 !.gross = IF group.kind = "JOURNAL ENTRY" THEN net ELSE base.gross]

\* the amount without its tax
Unsplit(base, amount, x) ==
    [base EXCEPT !.net = amount - x.tax, !.code = x.code, !.rate = Rated(x, amount),
                 !.tax = IF HasTax THEN x.tax ELSE None,
                 !.gross = IF group.kind = "JOURNAL ENTRY" THEN amount ELSE base.gross]

HandleTaxed(base, amount, x) ==
    IF Modified(amount, x)
    THEN [taxed |-> TaxedPart(base, amount, x), rest |-> Rest(base, amount, x)]
    ELSE [whole |-> Unsplit(base, amount, x)]

\* a line as it is before its tax is looked at; its custom fields are those of the object
Base(i, gross) ==
    [net |-> rows[i], gross |-> gross, tax |-> None, rate |-> None, code |-> "none",
     links |-> links'[i]]
-----------------------------------------------------------------------------
(* The lines of each kind of document.                                     *)
Posted(i) == IF noGross THEN None ELSE rows[i]

BillLines(i) ==
    LET x    == group.exps[i]
        base == [Base(i, Posted(i)) EXCEPT !.rate = IF x.item THEN rows[i] ELSE None]
    IN  IF ~Taxed(x) THEN [whole |-> base]
        ELSE IF group.conf.override
             THEN [whole |-> [base EXCEPT !.gross = None, !.net = rows[i] - x.tax]]
             ELSE HandleTaxed(base, rows[i], x)

ReportLines(i) ==
    LET x == group.exps[i]
    IN  IF Taxed(x) THEN HandleTaxed(Base(i, Posted(i)), rows[i], x)
        ELSE [whole |-> Base(i, Posted(i))]

ChargeLines(i) ==
    LET x == group.exps[i]
    IN  IF Taxed(x) THEN HandleTaxed(Base(i, rows[i]), rows[i], x)
        ELSE [whole |-> Base(i, rows[i])]

DebitLines(i) ==
    LET x == group.exps[i]
    IN  IF Taxed(x) THEN HandleTaxed(Base(i, None), rows[i], x) ELSE [whole |-> Base(i, None)]

Lines == [i \in Indices |->
    CASE group.kind = "BILL"               -> BillLines(i)
      [] group.kind = "EXPENSE REPORT"     -> ReportLines(i)
      [] group.kind = "CREDIT CARD CHARGE" -> ChargeLines(i)
      [] group.kind = "JOURNAL ENTRY"      -> DebitLines(i)]

\* is_credit keeps the URL from the list of a credit line, but the debit
\* line of the same object adds it to the same list before anything is sent
CreditLine(i) == Base(i, None)

\* one credit line for each account of the expenses
CreditOf(a) ==
    [gross |-> None, tax |-> None, rate |-> None, code |-> "none", links |-> 0,
     net |-> SumFunctionOnSet(rows, {i \in Indices : group.exps[i].account = a})]

SingleCreditLines ==
    LET accounts == SetToSeq({group.exps[i].account : i \in Indices})
    IN  [k \in 1..Len(accounts) |-> CreditOf(accounts[k])]

CreditLines ==
    IF group.kind # "JOURNAL ENTRY" THEN << >>
    ELSE IF group.conf.single THEN SingleCreditLines
    ELSE [i \in Indices |-> CreditLine(i)]

\* taxDetails of a bill whose tax details are overridden
TaxDetails ==
    {[of |-> i, basis |-> group.exps[i].amount - group.exps[i].tax, tax |-> group.exps[i].tax]
        : i \in Indices}

Overridden == group.kind = "BILL" /\ group.conf.override
Document(date) ==
    [debits |-> Lines, credits |-> CreditLines, date |-> date, tries |-> tries,
     details |-> IF Overridden THEN TaxDetails ELSE {}]

\* taxBasis subtracts None
Unbuildable == Overridden /\ \E i \in Indices : group.exps[i].tax = None
-----------------------------------------------------------------------------
Init ==
    /\ group \in [kind: Kinds, exps: Groups, conf: Settings]
    /\ rows = << >> /\ links = << >>
    /\ at = "new" /\ tries = 0
    /\ noGross = FALSE
    /\ books = NoBooks

\* the first expense decides whether a charge is a refund
Refund == group.kind = "CREDIT CARD CHARGE" /\ group.exps[1].amount < 0

\* the document and its lines are stored, over those of an earlier try
Create ==
    /\ at \in {"new", "failed"} /\ tries < MaxTries
    /\ tries' = tries + 1
    /\ rows' = [i \in Indices |-> IF Refund THEN Abs(group.exps[i].amount)
                                  ELSE group.exps[i].amount]
    /\ links' = [i \in Indices |-> 0]
    /\ at' = "created"
    /\ noGross' \in BOOLEAN   \* set by other exports, and expires
    /\ UNCHANGED <<group, books>>

\* each construction of the lines adds the URL to the objects' own lists
\* mutant: the URL goes to a copy of the list
AddLinksToCopy == links' = links
AddLinks == links' = [i \in Indices |-> links[i] + 1]

RollBack ==
    /\ at' = "failed" /\ rows' = << >>
    /\ UNCHANGED <<group, tries, noGross, books>>

Raise == at = "created" /\ Unbuildable /\ links' = links /\ RollBack

\* NetSuite takes the document
Accept ==
    /\ at = "created" /\ ~Unbuildable
    /\ AddLinks
    /\ books' = Document("spent")
    /\ at' = "complete"
    /\ UNCHANGED <<group, rows, tries, noGross>>

\* any other refusal
Refuse == at = "created" /\ ~Unbuildable /\ AddLinks /\ RollBack

\* the accounting period of the date is closed
ClosedPeriod ==
    /\ at = "created" /\ ~Unbuildable
    /\ AddLinks
    /\ IF group.conf.period
       THEN at' = "dated" /\ UNCHANGED <<group, rows, tries, noGross, books>>
       ELSE RollBack

\* a charge is sent again as it was built, other documents are built again
Redate ==
    /\ at = "dated"
    /\ IF group.kind = "CREDIT CARD CHARGE" THEN links' = links ELSE AddLinks
    /\ \/ books' = Document("month") /\ at' = "complete"
          /\ UNCHANGED <<group, rows, tries, noGross>>
       \/ RollBack

\* the role has no permission for gross amounts
NoGrossIn(ls) ==
    [i \in DOMAIN ls |-> [k \in DOMAIN ls[i] |-> [ls[i][k] EXCEPT !.gross = None]]]

\* with a closed period, too, the code looks at the period first
DenyGross ==
    /\ at = "created" /\ ~Unbuildable
    /\ group.kind \in {"BILL", "EXPENSE REPORT"}
    /\ AddLinks
    /\ \E i \in Indices : \E k \in DOMAIN Lines[i] : Lines[i][k].gross # None
    /\ at' = "ungrossed"
    /\ UNCHANGED <<group, rows, tries, noGross, books>>

\* the flag is stored, and the cache that is read keeps it when all is rolled back
Ungross ==
    /\ at = "ungrossed"
    /\ AddLinks
    /\ noGross' = TRUE
    /\ \/ /\ books' = [Document("spent") EXCEPT !.debits = NoGrossIn(@)]
          /\ at' = "complete" /\ UNCHANGED rows
       \/ at' = "failed" /\ rows' = << >> /\ UNCHANGED books
    /\ UNCHANGED <<group, tries>>

Next ==
    \/ Create \/ Raise \/ Accept \/ Refuse
    \/ ClosedPeriod \/ Redate \/ DenyGross \/ Ungross

Spec == Init /\ [][Next]_vars
-----------------------------------------------------------------------------
Sent       == at = "complete"
Net(l)     == l.net
TaxSent(l) == IF l.tax = None THEN 0 ELSE l.tax

\* of all lines of an expense
Add(ls, f(_)) == IF "whole" \in DOMAIN ls THEN f(ls.whole) ELSE f(ls.taxed) + f(ls.rest)

\* However the tax of an expense splits its line, the net amounts that are posted
\* add up to the amount less the tax.
NetKept ==
    Sent => \A i \in Indices :
        LET x == group.exps[i]
        IN  Add(books.debits[i], Net) = rows[i] - (IF Taxed(x) THEN x.tax ELSE 0)

\* what NetSuite adds to a line: the tax it is given, or that of the mapped tax item;
\* the default tax code stands for no tax
TaxInNetSuite(l, rate) ==
    IF l.tax # None THEN l.tax ELSE IF l.code = "mapped" THEN Round(l.net * rate, 100) ELSE 0

\* With tax balancing, NetSuite arrives at the amount of the expense whatever tax the
\* user entered, for all tax items with a rate and all documents but refunds (and
\* bills whose tax is overridden).  A tax that is that of the amount is sent as one
\* net amount, of which NetSuite may round the tax to another cent.
TaxBalanced ==
    Sent /\ group.conf.balancing /\ ~Refund /\ ~Overridden =>
        \A i \in Indices :
            LET x     == group.exps[i]
                total == Add(books.debits[i], LAMBDA l : l.net + TaxInNetSuite(l, x.rate))
            IN  Taxed(x) /\ x.code = "mapped" /\ x.rate > 0 =>
                    IF Modified(rows[i], x) THEN total = rows[i]
                    ELSE total \in rows[i] - 1..rows[i] + 1

\* NetSuite only takes journal entries whose debits, with their taxes, are the credits,
\* be there one credit line for each expense or one for each account.
Balanced ==
    Sent /\ group.kind = "JOURNAL ENTRY" =>
        SumFunction([k \in DOMAIN books.credits |-> books.credits[k].net])
            = SumFunction([i \in Indices |-> Add(books.debits[i], LAMBDA l : l.net + TaxSent(l))])

\* Every line that takes money has the URL of its expense, also after the date or the
\* gross amounts were refused and the document was built again from the same objects.
LinkPresent ==
    Sent => \A i \in Indices : \A k \in DOMAIN books.debits[i] : books.debits[i][k].links > 0

\* When all expenses of a bill with overridden tax are taxed, its tax details and its
\* lines speak of the same amounts.
DetailsAgree ==
    Sent /\ Overridden /\ (\A i \in Indices : Taxed(group.exps[i])) =>
        \A d \in books.details :
            /\ d.basis + d.tax = rows[d.of]
            /\ Add(books.debits[d.of], Net) = d.basis

\* No cent is lost or added however the tax of an expense splits its line: the net amounts
\* add up to the amount less the tax, the debits of a journal entry with their taxes are
\* its credits, and the overridden tax details of a bill whose expenses are all taxed
\* speak of the amounts of its lines.
AmountsKept == NetKept /\ Balanced /\ DetailsAgree
=============================================================================
