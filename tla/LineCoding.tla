------------------------------ MODULE LineCoding ------------------------------
(***************************************************************************)
(* Department, class and location of the header and the lines of a         *)
(* document, and the custom segments of a line: which of the mapping of    *)
(* the expense, the record of the employee and the default of the          *)
(* workspace each kind of document takes.  A behaviour looks for the       *)
(* segments of one line, setting by setting, and stores one document for   *)
(* one choice of mappings, settings and employee.                          *)
(***************************************************************************)
EXTENDS Naturals, Sequences

CONSTANTS
    Kinds,    \* kinds of documents
    Dims,     \* "department", "class" and "location", or some of them
    Fields,   \* orders of the source fields of the custom segments
    None      \* None of Python

VARIABLES
    input,    \* the settings, the mappings and the expense
    fields,   \* the mapping settings of custom segments, in the order they are read
    loop,     \* get_custom_segments
    stored    \* the values that were stored

vars == <<input, fields, loop, stored>>

Levels == {"TRANSACTION_BODY", "TRANSACTION_LINE", "ALL", None}
Body   == {"TRANSACTION_BODY", "ALL"}
OnLine == {"TRANSACTION_LINE", "ALL"}

Input ==
    [kind: Kinds, dim: Dims, fund: {"PERSONAL", "CCC"},
     mapped: BOOLEAN,    \* the field of the expense is mapped
     use: BOOLEAN,       \* use_employee_<dim>
     level: Levels,
     field: {"EMPLOYEE", "VENDOR"},   \* employee_field_mapping
     employee: {"none", "bare", "set"},  \* the mapped employee, and its value of dim
     default: BOOLEAN]   \* the general mapping has a value

\* an expense report needs an employee, or it cannot be stored
Possible(x) == x.kind = "EXPENSE REPORT" => x.employee # "none"

\* the value in the record of the employee
Own(x) == IF x.employee = "set" THEN "employee" ELSE None
Either(v, w) == IF v # None THEN v ELSE w
Default(x, levels) == IF x.default /\ x.level \in levels THEN "default" ELSE None
-----------------------------------------------------------------------------
(* Headers.                                                                *)
BillBody(x) == Default(x, Body)

ChargeBody(x) ==
    CASE x.dim = "department" ->
            IF x.use /\ x.level \in Body /\ x.field = "EMPLOYEE" THEN Own(x) ELSE None
      [] OTHER -> Default(x, Body)

\* class is stored and not sent
ReportBody(x) ==
    CASE x.dim = "class" -> IF x.use /\ x.field = "EMPLOYEE" THEN Own(x) ELSE None
      [] OTHER ->
            IF x.use /\ x.level \in Body /\ x.field = "EMPLOYEE" THEN Own(x)
            ELSE Default(x, Body)

\* the default location is taken whatever its level
JournalBody(x) ==
    LET own == IF x.use /\ x.level \in Body /\ x.field = "EMPLOYEE" THEN Own(x) ELSE None
    IN  CASE x.dim = "class"      -> None
          [] x.dim = "department" -> own
          [] x.dim = "location"   -> Either(own, Default(x, Levels))
-----------------------------------------------------------------------------
(* Lines.                                                                  *)
Mapped(x) == IF x.mapped THEN "mapping" ELSE None

\* bills and charges take the value of the employee for card expenses
Cardholder(x) ==
    IF ~x.mapped /\ x.fund = "CCC" /\ x.use /\ (x.dim = "class" \/ x.level \in OnLine)
    THEN Own(x) ELSE None

BillLine(x)   == Either(Either(Mapped(x), Cardholder(x)), Default(x, OnLine))
ChargeLine(x) == Either(Either(Mapped(x), Cardholder(x)), Default(x, OnLine))

\* reports and journal entries take it when employees are mapped to employees
EmployeeValue(x) ==
    IF x.use /\ (x.dim = "class" \/ x.level \in OnLine) /\ x.field = "EMPLOYEE"
    THEN Own(x) ELSE None

\* mutant: the default is not looked at when the employee is used
ReportLineOwn(x) ==
    Either(Mapped(x), IF x.use /\ x.field = "EMPLOYEE" THEN Own(x) ELSE Default(x, OnLine))
ReportLine(x)    == Either(Either(Mapped(x), EmployeeValue(x)), Default(x, OnLine))

\* the default location is taken whatever its level
JournalLine(x) ==
    Either(Either(Mapped(x), EmployeeValue(x)),
           Default(x, IF x.dim = "location" THEN Levels ELSE OnLine))

Header(x) == CASE x.kind = "BILL"               -> BillBody(x)
               [] x.kind = "CREDIT CARD CHARGE" -> ChargeBody(x)
               [] x.kind = "EXPENSE REPORT"     -> ReportBody(x)
               [] x.kind = "JOURNAL ENTRY"      -> JournalBody(x)
Item(x)   == CASE x.kind = "BILL"               -> BillLine(x)
               [] x.kind = "CREDIT CARD CHARGE" -> ChargeLine(x)
               [] x.kind = "EXPENSE REPORT"     -> ReportLine(x)
               [] x.kind = "JOURNAL ENTRY"      -> JournalLine(x)
-----------------------------------------------------------------------------
(* Custom segments.  source_id and source_value live across the loop: a    *)
(* field without an id of its own looks with the id of a project before it *)
(* and one whose attribute is gone with the value before it.               *)
Source == [id: {"project", None}, value: {"PROJECT", "COST_CENTER", "CUSTOM", None}]

SourceOf(f, s) ==
    CASE f = "PROJECT"     -> [id |-> "project", value |-> f]
      [] f = "COST_CENTER" -> [s EXCEPT !.value = f]
      [] f = "CUSTOM"      -> [s EXCEPT !.value = f]
      [] f = "GONE"        -> s     \* no attribute of this field is left

\* the mapping of field f that is found: that of the expense's own value, or none;
\* ids of another field are not among those of f
Found(f, s) ==
    IF s.id # None THEN f = "PROJECT" ELSE s.value = f
-----------------------------------------------------------------------------
Nothing == [header |-> None, line |-> None, segments |-> {}, done |-> FALSE]

Init ==
    /\ input \in {x \in Input : Possible(x)}
    /\ fields \in Fields
    /\ loop = [next |-> 1, source |-> [id |-> None, value |-> None], found |-> {}]
    /\ stored = Nothing

\* the segment of the next field
Visit ==
    /\ loop.next <= Len(fields)
    /\ LET f == fields[loop.next]
           s == SourceOf(f, loop.source)
       IN  loop' = [next |-> loop.next + 1, source |-> s,
                    found |-> loop.found \cup (IF Found(f, s) THEN {f} ELSE {})]
    /\ UNCHANGED <<input, fields, stored>>

Store ==
    /\ loop.next > Len(fields) /\ ~stored.done
    /\ stored' = [header |-> Header(input), line |-> Item(input),
                  segments |-> loop.found, done |-> TRUE]
    /\ UNCHANGED <<input, fields, loop>>

Next == Visit \/ Store
Spec == Init /\ [][Next]_vars
-----------------------------------------------------------------------------
\* The default a workspace has chosen for lines reaches every line that has nothing
\* else, also where the employee is to be used and the record has no value.
DefaultReaches ==
    stored.done /\ input.default /\ input.level \in OnLine => stored.line # None

\* A default for the header alone stays off the lines; locations of journal entries,
\* whose default has no level, are the exception.
LevelRespected ==
    stored.done /\ input.level = "TRANSACTION_BODY"
        /\ ~(input.kind = "JOURNAL ENTRY" /\ input.dim = "location")
    => stored.line # "default"

\* A card expense without a mapping takes the value of its employee before any default, on
\* the lines of every kind of document, when the workspace uses employees on lines.
EmployeeFirst ==
    stored.done /\ ~input.mapped /\ input.fund = "CCC" /\ input.use /\ input.level \in OnLine
        /\ input.field = "EMPLOYEE" /\ input.employee = "set"
    => stored.line = "employee"

\* As long as no project comes before another field, each custom segment whose field is
\* still there gets the value that is mapped for the expense.
SegmentsOwn ==
    stored.done /\ (\A k \in 1..Len(fields) - 1 : fields[k] # "PROJECT")
        => stored.segments = {fields[k] : k \in 1..Len(fields)} \ {"GONE"}

\* Four copies of one rule, one for each kind of document: a mapped value comes first,
\* then that of the employee where it is to be used, then the default of the workspace,
\* which stays on the level it was chosen for (but for locations of journal entries).
\* As long as no project comes before another field, each custom segment gets the value
\* that is mapped for the expense.
CodingFollowsRules == DefaultReaches /\ LevelRespected /\ EmployeeFirst /\ SegmentsOwn
=============================================================================
