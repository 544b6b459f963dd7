------------------------------ MODULE Dashboard ------------------------------
(***************************************************************************)
(* What the dashboard of a workspace shows of its exports, in one state:   *)
(* the errors of MappingErrors and the counts of LastExport.  The two      *)
(* share no variable; nothing counts an error, and nothing lists a count.  *)
(***************************************************************************)
CONSTANTS
    Workers,                               \* processes that take the messages
    Groups, Attrs,                         \* MappingErrors
    Wide, Beside, Rules, Shrinks,
    LogGroups, Fund, Skips, MaxRuns        \* LastExport

VARIABLES
    uses, mapped, error, failed, handler,  \* MappingErrors
    log, detail, clock, done, exporter     \* LastExport

Errors  == INSTANCE MappingErrors WITH Overlap <- Beside, proc <- handler
Exports == INSTANCE LastExport WITH Groups <- LogGroups, row <- detail, proc <- exporter
-----------------------------------------------------------------------------
\* A missing mapping that failed an export is in the list of its error, as
\* get_or_create_error_with_expense_group promises; and once handlers are done, an
\* error that is open has no mapping yet, has a group that still exists, and keeps
\* from the exports only groups that need the mapping.
ErrorsTellMissing == Errors!ErrorsTellMissing

\* Once exports, rules and settings are done, the dashboard is right: its count of failed
\* groups is the number of failed task logs, and its time that of the last export.
DetailIsTrue == Exports!DetailIsTrue
=============================================================================
