----------------------------- MODULE NetSuiteData -----------------------------
(***************************************************************************)
(* The data that goes to and comes from NetSuite: the documents of         *)
(* Documents, the coding of their lines of LineCoding, and the copies of   *)
(* NetSuite records of DimensionSync.  A behaviour is about one of them,   *)
(* its subject, and the variables of the others have no value.             *)
(***************************************************************************)
EXTENDS Naturals, Sequences

CONSTANTS
    None,                                                       \* None of Python
    Kinds,                                                      \* kinds of documents
    Groups, Settings, MaxTries,                                 \* Documents
    Dims, Fields,                                               \* LineCoding
    Types, Ids, Names, Foreign, Limit, Slack, MaxTime, MaxFails \* DimensionSync

VARIABLES
    subject,
    group, rows, links, at, tries, noGross, books,              \* Documents
    input, fields, loop, stored,                                \* LineCoding
    type, conf, remote, local, sync, clock, fails, clean        \* DimensionSync

docVars  == <<group, rows, links, at, tries, noGross, books>>
lineVars == <<input, fields, loop, stored>>
dimVars  == <<type, conf, remote, local, sync, clock, fails, clean>>
dataVars == <<subject, docVars, lineVars, dimVars>>

Docs   == INSTANCE Documents
Coding == INSTANCE LineCoding
Copy   == INSTANCE DimensionSync
-----------------------------------------------------------------------------
NoDocs  == group = None /\ rows = << >> /\ links = << >> /\ at = "new" /\ tries = 0
              /\ noGross = FALSE /\ books = None
NoLines == input = None /\ fields = << >> /\ loop = None /\ stored = [done |-> FALSE]
NoDims  == type = None /\ conf = None /\ remote = None /\ local = None /\ sync = [at |-> "off"]
              /\ clock = 0 /\ fails = 0 /\ clean = TRUE

NoData == subject = "none" /\ NoDocs /\ NoLines /\ NoDims

DataInit ==
    \/ subject = "documents"  /\ Docs!Init   /\ NoLines /\ NoDims
    \/ subject = "lines"      /\ Coding!Init /\ NoDocs  /\ NoDims
    \/ subject = "dimensions" /\ Copy!Init   /\ NoDocs  /\ NoLines

DataNext ==
    /\ \/ subject = "documents"  /\ Docs!Next   /\ UNCHANGED <<lineVars, dimVars>>
       \/ subject = "lines"      /\ Coding!Next /\ UNCHANGED <<docVars, dimVars>>
       \/ subject = "dimensions" /\ Copy!Next   /\ UNCHANGED <<docVars, lineVars>>
    /\ UNCHANGED subject

DataSpec == DataInit /\ [][DataNext]_dataVars
-----------------------------------------------------------------------------
\* The variables of a document and of a copy keep their types.
RestTypeOK ==
    /\ subject = "documents"  => Docs!TypeOK
    /\ subject = "dimensions" => Copy!TypeOK

\* No cent is lost or added however the tax of an expense splits its line: the net amounts
\* add up to the amount less the tax, the debits of a journal entry with their taxes are
\* its credits, which NetSuite insists on, and the overridden tax details of a bill whose
\* expenses are all taxed speak of the amounts of its lines.
AmountsKept == subject = "documents" => Docs!AmountsKept

\* With tax balancing, NetSuite arrives at the amount of the expense whatever tax the
\* user entered, for all tax items with a rate and all documents but refunds (and
\* bills whose tax is overridden); to the cent, unless the tax is that of the amount.
TaxBalanced == subject = "documents" => Docs!TaxBalanced

\* Every line that takes money has the URL of its expense, also after the date or the
\* gross amounts were refused and the document was built again from the same objects.
LinkPresent == subject = "documents" => Docs!LinkPresent

\* Four copies of one rule, one for each kind of document: a mapped value comes first,
\* then that of the employee where it is to be used, then the default of the workspace,
\* which stays on the level it was chosen for (but for locations of journal entries).
\* As long as no project comes before another field, each custom segment gets the value
\* that is mapped for the expense.
CodingFollowsRules == subject = "lines" => Coding!CodingFollowsRules

\* At the end of a sync that nothing disturbed the workspace has what NetSuite has: for
\* the kinds of records that are read as a whole this is so whatever happened before,
\* for employees within 30 days, for vendors and customers as long as no sync before
\* failed or was overtaken by a change, and no vendor came from an export.  Items need
\* to fit on one page.
SyncedInStep == subject = "dimensions" => Copy!SyncedInStep

\* A mapping points to a row.  When the ids of custom records move, its row stays and
\* keeps its name as long as NetSuite has a record of that name.
NamesKept == [][subject = "dimensions" => Copy!KeepsNames]_dataVars
=============================================================================
