--------------------------- MODULE GroupLifecycle ---------------------------
(***************************************************************************)
(* How the expenses of one report move in and out of expense groups:       *)
(* imports create groups, a fund source change in Fyle deletes and         *)
(* rebuilds them (now, or by a django-q schedule when an export is in      *)
(* flight), an ejected expense or an addition to the report takes them     *)
(* apart, while exports of the groups run in other processes.              *)
(*                                                                         *)
(* A step is a transaction, or the statements up to the next point where   *)
(* another process can change what was read.  The transactions run at      *)
(* READ COMMITTED: what holds across a step is what a row lock protects.   *)
(***************************************************************************)
EXTENDS Naturals, FiniteSets, SequencesExt

CONSTANTS
    Expenses,    \* expenses of the report
    Procs,       \* processes that handle webhooks, imports and schedules
    Configured,  \* fund sources that have an export object configured
    ByReport,    \* fund sources grouped by report (the others: by expense)
    Filtered,    \* expenses the skip rules match
    Imports,     \* kinds of import that happen
    Webhooks,    \* kinds of expense webhook that happen
    Overlap,     \* TRUE: Fyle changes an expense while a handler runs
    MaxGroups,   \* bound on the groups ever created
    MaxChanges,  \* bound on the fund source changes in Fyle
    MaxFaults,   \* bound on the handlers that fail
    Repeats      \* repeats=10 of the retry schedule

Funds == {"PERSONAL", "CCC"}

LifecycleAssumption ==
    /\ IsFiniteSet(Expenses)
    /\ MaxGroups \in Nat /\ MaxChanges \in Nat /\ MaxFaults \in Nat /\ Repeats \in Nat

VARIABLES
    fyle,      \* fund source of each expense in Fyle
    fund,      \* Expense.fund_source ("none": no such row)
    skipped,   \* Expense.is_skipped
    groups,    \* the expense_groups rows, with their TaskLog status
    nextId,    \* next primary key of expense_groups
    schedules, \* retry schedules: changed ids, affected ids, repeats left
    proc,      \* what each process is doing
    changes, faults

vars == <<fyle, fund, skipped, groups, nextId, schedules, proc, changes, faults>>

Status   == {"NONE", "ENQUEUED", "IN_PROGRESS", "FAILED", "COMPLETE"}
Group    == [members: SUBSET Expenses, fund: Funds, log: Status, exported: BOOLEAN]
Old      == UNION {[K -> SUBSET Expenses] : K \in SUBSET Funds}
Schedule == [ids: SUBSET Expenses, old: Old, repeats: 0..Repeats]
Pcs      == {"idle", "find", "process", "fetch", "gather", "eject",
             "ejected", "added", "delete"}

\* a handler of a webhook, an import or a schedule
Handler  == [pc: Pcs, kind: {"none", "webhook", "retry"} \cup Imports,
             ids: SUBSET Expenses, old: Old, found: SUBSET (1..MaxGroups),
             affected: SUBSET Expenses, current: 0..MaxGroups]

Idle == [pc |-> "idle", kind |-> "none", ids |-> {}, old |-> <<>>,
         found |-> {}, affected |-> {}, current |-> 0]

InFlight == {"ENQUEUED", "IN_PROGRESS"}
Active(g) == groups[g].log \in InFlight
Live      == DOMAIN groups

TypeOK ==
    /\ fyle \in [Expenses -> Funds]
    /\ fund \in [Expenses -> Funds \cup {"none"}]
    /\ skipped \subseteq Expenses
    /\ Live \subseteq 1..MaxGroups /\ groups \in [Live -> Group]
    /\ nextId \in 1..(MaxGroups + 1)
    /\ schedules \subseteq Schedule
    /\ proc \in [Procs -> Handler]
    /\ changes \in 0..MaxChanges /\ faults \in 0..MaxFaults

Init ==
    /\ fyle \in [Expenses -> Funds]
    /\ fund = [e \in Expenses |-> "none"]
    /\ skipped = {}
    /\ groups = <<>> /\ nextId = 1
    /\ schedules = {}
    /\ proc = [h \in Procs |-> Idle]
    /\ changes = 0 /\ faults = 0
-----------------------------------------------------------------------------
(* Helpers.  A transaction reads and writes several times: the operators   *)
(* below take and return the part of the database it works on.             *)

Db == [fund |-> fund, skipped |-> skipped, groups |-> groups, next |-> nextId]

Apply(db) ==
    /\ db.next <= MaxGroups + 1     \* the bound on groups
    /\ fund' = db.fund /\ skipped' = db.skipped
    /\ groups' = db.groups /\ nextId' = db.next

InGroup(db, e) == \E g \in DOMAIN db.groups : e \in db.groups[g].members

\* create_expense_groups_by_report_id_fund_source: by fund source, and one
\* group per expense unless the fund source is grouped by report
Parts(db, E) ==
    UNION {LET F == {e \in E : db.fund[e] = f}
           IN  IF f \in ByReport THEN {F} \ {{}} ELSE {{e} : e \in F}
           : f \in Funds}

CreateGroups(db, E) ==
    LET parts == SetToSeq(Parts(db, E))
        Row(members) == [members |-> members, log |-> "NONE", exported |-> FALSE,
                         fund |-> db.fund[CHOOSE e \in members : TRUE]]
        ids   == db.next..(db.next + Len(parts) - 1)
    IN  [db EXCEPT !.groups = [g \in DOMAIN @ \cup ids |->
                                  IF g \in ids THEN Row(parts[g - db.next + 1]) ELSE @[g]],
                   !.next = @ + Len(parts)]

Without(db, gs) ==
    [db EXCEPT !.groups = [g \in DOMAIN @ \ gs |-> @[g]]]

\* mark_expenses_as_skipped
Skip(db, E) == [db EXCEPT !.skipped = @ \cup E]

\* a group that expenses have left
Less(group, E) == [group EXCEPT !.members = @ \ E]

\* delete_expenses_in_db: the rows of their groups' many-to-many table go, too
DeleteExpenses(db, E) ==
    [db EXCEPT !.fund = [e \in Expenses |-> IF e \in E THEN "none" ELSE @[e]],
               !.skipped = @ \ E,
               !.groups = [g \in DOMAIN @ |-> Less(@[g], E)]]

\* mutant: with mixed grouping types, only the groups of the report's fund source
AffectedByFund(ids, old) ==
    {g \in Live : /\ ~groups[g].exported
                  /\ \E f \in DOMAIN old : groups[g].fund # f}

\* construct_filter_for_affected_expense_groups: the unexported groups a change
\* touches; with mixed grouping types, those of the report whose fund source
\* is the one grouped by report, seen from each key of the map
Affected(ids, old) ==
    LET ReportFund(f) == IF "PERSONAL" \in ByReport THEN f
                         ELSE CHOOSE o \in Funds : o # f
        Mixed == ByReport \notin {{}, Funds}
    IN  {g \in Live :
            /\ ~groups[g].exported
            /\ \/ ByReport = Funds
               \/ ByReport = {} /\ groups[g].members \cap ids # {}
               \/ /\ Mixed
                  /\ \E f \in DOMAIN old : \/ groups[g].fund = ReportFund(f)
                                           \/ groups[g].members \cap old[f] # {}}

\* schedule_task_for_expense_group_fund_source_change: named by the changed
\* ids, and left alone when a row with that name exists
Scheduled(ids, old) ==
    IF \E s \in schedules : s.ids = ids THEN schedules
    ELSE schedules \cup {[ids |-> ids, old |-> old, repeats |-> Repeats]}

Set(h, r) == proc' = [proc EXCEPT ![h] = r]
-----------------------------------------------------------------------------
(* Fyle, and the exports of the groups (module Export has their detail).   *)

AllIdle == \A h \in Procs : proc[h].pc = "idle"

Change(e) ==
    /\ changes < MaxChanges
    /\ Overlap \/ AllIdle
    /\ changes' = changes + 1
    /\ fyle' = [fyle EXCEPT ![e] = CHOOSE f \in Funds : f # @]
    /\ UNCHANGED <<fund, skipped, groups, nextId, schedules, proc, faults>>

Log(g, from, to) ==
    /\ g \in Live /\ groups[g].log \in from
    /\ groups' = [groups EXCEPT ![g].log = to, ![g].exported = (to = "COMPLETE")]
    /\ UNCHANGED <<fyle, fund, skipped, nextId, schedules, proc, changes, faults>>

Enqueue(g) == Log(g, {"NONE", "FAILED"}, "ENQUEUED")
Claim(g)   == Log(g, {"ENQUEUED"}, "IN_PROGRESS")
Succeed(g) == Log(g, {"IN_PROGRESS"}, "COMPLETE")
Fail(g)    == Log(g, {"ENQUEUED", "IN_PROGRESS"}, "FAILED")
-----------------------------------------------------------------------------
(* A fund source change: update_non_exported_expenses, the schedule, and   *)
(* the first part of an import of an approved report.                      *)

\* mutant: the upsert takes no lock
NoLock(h) == {}

\* expenses whose rows the transaction of another process has locked
Locked(h) == UNION {proc[o].ids : o \in {o \in Procs \ {h} : proc[o].pc = "gather"}}

\* the state of the expense's summary, which exports keep up to date
SummaryBusy(e) ==
    \E g \in Live : e \in groups[g].members /\ groups[g].log \in {"IN_PROGRESS", "COMPLETE"}

\* update_non_exported_expenses: the expense is saved before its groups are looked at
Update(h, e) ==
    /\ "update" \in Webhooks /\ proc[h].pc = "idle"
    /\ fund[e] \notin {"none", fyle[e]} /\ ~SummaryBusy(e)
    /\ e \notin Locked(h)
    /\ fund' = [fund EXCEPT ![e] = fyle[e]]
    /\ Set(h, [Idle EXCEPT !.pc = "find", !.kind = "webhook", !.ids = {e},
                           !.old = [f \in {fund[e]} |-> {e}]])
    /\ UNCHANGED <<fyle, skipped, groups, nextId, schedules, changes, faults>>

\* mutant: a schedule that is used up runs on
RetryForEver(h, s) ==
    /\ proc[h].pc = "idle"
    /\ schedules' = (schedules \ {s}) \cup {[s EXCEPT !.repeats = @ - 1]}
    /\ Set(h, [Idle EXCEPT !.pc = "find", !.kind = "retry", !.ids = s.ids, !.old = s.old])
    /\ UNCHANGED <<fyle, fund, skipped, groups, nextId, changes, faults>>

Retry(h, s) ==
    /\ proc[h].pc = "idle" /\ s.repeats > 0
    /\ schedules' = (schedules \ {s}) \cup {[s EXCEPT !.repeats = @ - 1]}
    /\ Set(h, [Idle EXCEPT !.pc = "find", !.kind = "retry", !.ids = s.ids, !.old = s.old])
    /\ UNCHANGED <<fyle, fund, skipped, groups, nextId, changes, faults>>

Find(h) ==
    LET p == proc[h]  found == Affected(p.ids, p.old) IN
    /\ p.pc = "find"
    /\ IF found # {}
       THEN Set(h, [p EXCEPT !.pc = "process", !.found = found,
                             !.affected = UNION {groups[g].members : g \in found}])
       ELSE Set(h, IF p.kind = "approved" THEN [p EXCEPT !.pc = "fetch"] ELSE Idle)
    /\ UNCHANGED <<fyle, fund, skipped, groups, nextId, schedules, changes, faults>>

\* mutant: a COMPLETE row is not looked at again under the lock
MayDeleteComplete(g) == g \notin Live \/ ~Active(g)

\* process_expense_group_for_fund_source_update, under the lock of the row
MayDelete(g) == g \notin Live \/ groups[g].log \in {"NONE", "FAILED"}

\* recreate_expense_groups: expenses of a fund source without a setting are
\* deleted, those a rule matches are skipped, the others are grouped
Recreate(db, E) ==
    LET here == {e \in E : /\ db.fund[e] # "none"
                           /\ InGroup(db, e) => \E g \in DOMAIN db.groups :
                                 e \in db.groups[g].members /\ ~db.groups[g].exported}
        kept == {e \in here : db.fund[e] \in Configured}
    IN  CreateGroups(Skip(DeleteExpenses(db, here \ kept), kept \cap Filtered),
                     kept \ Filtered)

\* handle_fund_source_changes_for_expense_ids from the loop on: the groups that
\* may go are deleted; their expenses are grouped again when all of them went
Replace(db, p) ==
    LET gone == {g \in p.found : MayDelete(g)}
    IN  IF gone = p.found THEN Recreate(Without(db, gone), p.affected)
                          ELSE Without(db, gone)

Process(h) ==
    LET p == proc[h] IN
    /\ p.pc = "process" /\ p.kind \in {"webhook", "retry"}
    /\ Apply(Replace(Db, p))
    /\ schedules' =
          IF \A g \in p.found : MayDelete(g)
          THEN {s \in schedules : ~(p.kind = "retry" /\ s.ids = p.ids)}
          ELSE IF \E g \in p.found \cap Live : Active(g) THEN Scheduled(p.ids, p.old)
          ELSE schedules
    /\ Set(h, Idle)
    /\ UNCHANGED <<fyle, changes, faults>>

\* the handler raises: its transaction is rolled back, an import goes on
Abort(h) ==
    /\ proc[h].pc \in {"find", "process"} /\ faults < MaxFaults
    /\ faults' = faults + 1
    /\ Set(h, IF proc[h].kind = "approved" THEN [proc[h] EXCEPT !.pc = "fetch"] ELSE Idle)
    /\ UNCHANGED <<fyle, fund, skipped, groups, nextId, schedules, changes>>
-----------------------------------------------------------------------------
(* Imports: one transaction, which locks every expense it saves.           *)

\* the source accounts asked for; DIRECT_EXPORT asks for both
Asked(kind) == {e \in Expenses : kind = "direct" \/ fyle[e] \in Configured}

\* handle_expense_fund_source_change is part of an APPROVED report's import
Import(h, kind) ==
    LET changed == {e \in Expenses : fund[e] \notin {"none", fyle[e]}} IN
    /\ kind \in Imports /\ proc[h].pc = "idle"
    /\ Set(h, IF kind = "approved" /\ changed # {}
              THEN [Idle EXCEPT !.pc = "find", !.kind = kind, !.ids = changed,
                                !.old = [f \in Funds |-> {e \in changed : fund[e] = f}]]
              ELSE [Idle EXCEPT !.pc = "fetch", !.kind = kind])
    /\ UNCHANGED <<fyle, fund, skipped, groups, nextId, schedules, changes, faults>>

\* create_expense_objects: saves (and locks) the expenses, returns those that
\* are in no group and not skipped
Saved(db, E) == [db EXCEPT !.fund = [e \in Expenses |-> IF e \in E THEN fyle[e] ELSE @[e]]]
Ungrouped(db, E) == {e \in E : e \notin db.skipped /\ ~InGroup(db, e)}

\* mutant: expenses are marked as skipped, but the list to group is not read again
GroupedUnread(db, E) ==
    LET kept == {e \in E : db.fund[e] \in Configured}
    IN  CreateGroups(Skip(db, (E \ kept) \cup (kept \cap Filtered)), kept)

\* group_expenses_and_save after it; the rules' query reads the groups again
Grouped(db, E) ==
    LET kept == {e \in E : db.fund[e] \in Configured}
        free == IF Filtered = {} THEN kept ELSE Ungrouped(db, kept \ Filtered)
    IN  CreateGroups(Skip(db, (E \ kept) \cup (kept \cap Filtered)), free)

Fetch(h, E) ==
    LET p == proc[h] IN
    /\ p.pc = "fetch"
    /\ E \subseteq Asked(p.kind) /\ (p.kind # "sync" => E = Asked(p.kind))
    /\ E \cap Locked(h) = {}
    /\ Set(h, [p EXCEPT !.pc = "gather", !.ids = E, !.affected = Ungrouped(Db, E)])
    /\ UNCHANGED <<fyle, fund, skipped, groups, nextId, schedules, changes, faults>>

Gather(h) ==
    LET p == proc[h] IN
    /\ p.pc = "gather"
    /\ Apply(Grouped(Saved(Db, p.ids), p.affected))
    /\ Set(h, Idle)
    /\ UNCHANGED <<fyle, schedules, changes, faults>>

\* an import that found groups of changed expenses: the changes, the fetch and
\* the grouping commit together
ImportReplacing(h) ==
    LET p   == proc[h]
        E   == Asked("approved")
        mid == Saved(Replace(Saved(Db, p.ids), p), E)
    IN
    /\ p.pc = "process" /\ p.kind = "approved"
    /\ (p.ids \cup E) \cap Locked(h) = {}
    /\ Apply(Grouped(mid, Ungrouped(mid, E)))
    /\ schedules' = IF \E g \in p.found \cap Live : Active(g)
                    THEN Scheduled(p.ids, p.old) ELSE schedules
    /\ Set(h, Idle)
    /\ UNCHANGED <<fyle, changes, faults>>
-----------------------------------------------------------------------------
(* handle_expense_report_change: the check for active task logs and the    *)
(* transaction that follows it are two steps, without a lock.              *)

Eject(h, e) ==
    /\ "eject" \in Webhooks /\ proc[h].pc = "idle"
    /\ ~ \E g \in Live : e \in groups[g].members /\ groups[g].exported
    /\ \E g \in Live :
          /\ e \in groups[g].members /\ ~Active(g)
          /\ Set(h, [Idle EXCEPT !.pc = "eject", !.found = {g}, !.ids = {e}, !.current = g])
    /\ UNCHANGED <<fyle, fund, skipped, groups, nextId, schedules, changes, faults>>

\* the expense is removed and the rest of the group looked at, in a transaction
\* that does not see what another one has removed and not yet committed
EjectCheck(h) ==
    LET p == proc[h] IN
    /\ p.pc = "eject"
    /\ Set(h, [p EXCEPT !.pc = "ejected",
                        !.found = {g \in p.found \cap Live : groups[g].members \subseteq p.ids}])
    /\ UNCHANGED <<fyle, fund, skipped, groups, nextId, schedules, changes, faults>>

Ejected(h) ==
    LET p   == proc[h]
        cut == [Db EXCEPT !.groups = [g \in DOMAIN @ |->
                   IF g = p.current THEN Less(@[g], p.ids) ELSE @[g]]]
    IN
    /\ p.pc = "ejected"
    /\ Apply(Without(cut, p.found))
    /\ Set(h, Idle)
    /\ UNCHANGED <<fyle, schedules, changes, faults>>

\* _delete_expense_groups_for_report: the groups are read once, then one by one
Added(h) ==
    LET found == {g \in Live : ~groups[g].exported /\ groups[g].members # {}} IN
    /\ "added" \in Webhooks /\ proc[h].pc = "idle"
    /\ found # {}
    /\ Set(h, [Idle EXCEPT !.pc = "added", !.found = found])
    /\ UNCHANGED <<fyle, fund, skipped, groups, nextId, schedules, changes, faults>>

CheckGroup(h, g) ==
    LET p == proc[h] IN
    /\ p.pc = "added" /\ g \in p.found
    /\ Set(h, IF g \in Live /\ Active(g)
              THEN IF p.found = {g} THEN Idle ELSE [p EXCEPT !.found = @ \ {g}]
              ELSE [p EXCEPT !.pc = "delete", !.current = g])
    /\ UNCHANGED <<fyle, fund, skipped, groups, nextId, schedules, changes, faults>>

DeleteGroup(h) ==
    LET p == proc[h] IN
    /\ p.pc = "delete"
    /\ Apply(Without(Db, {p.current}))
    /\ Set(h, IF p.found = {p.current} THEN Idle
              ELSE [p EXCEPT !.pc = "added", !.found = @ \ {p.current}, !.current = 0])
    /\ UNCHANGED <<fyle, schedules, changes, faults>>
-----------------------------------------------------------------------------
Next ==
    \/ \E e \in Expenses : Change(e)
    \/ \E g \in Live : Enqueue(g) \/ Claim(g) \/ Succeed(g) \/ Fail(g)
    \/ \E h \in Procs :
          \/ \E e \in Expenses : Update(h, e) \/ Eject(h, e)
          \/ \E s \in schedules : Retry(h, s)
          \/ Find(h) \/ Process(h) \/ Abort(h)
          \/ \E kind \in Imports : Import(h, kind)
          \/ \E E \in SUBSET Expenses : Fetch(h, E)
          \/ Gather(h) \/ ImportReplacing(h)
          \/ EjectCheck(h) \/ Ejected(h) \/ Added(h) \/ DeleteGroup(h)
          \/ \E g \in proc[h].found : CheckGroup(h, g)

Spec == Init /\ [][Next]_vars
-----------------------------------------------------------------------------
(* Properties.                                                             *)

Waiting(e) == \E s \in schedules : e \in s.ids

\* A group whose export is enqueued or running keeps its row and its expenses,
\* whatever webhooks and imports do meanwhile (the select_for_update of
\* process_expense_group_for_fund_source_update; the exists() checks of
\* handle_expense_report_change do not lock).
KeepsInFlight ==
    \A g \in Live : Active(g) =>
        g \in DOMAIN groups' /\ groups'[g].members = groups[g].members

\* An exported group is final: it is never deleted, changed or exported again,
\* also when its export ends between the search of a handler and its deletions.
KeepsExported ==
    \A g \in Live : groups[g].exported => g \in DOMAIN groups' /\ groups'[g] = groups[g]

\* No handler takes a group from its export.
GroupsKept == [][KeepsInFlight /\ KeepsExported]_vars

\* An expense is in one group at most, so that it is exported once: the row lock
\* of create_expense_objects orders imports that save the same expense.
OneGroup ==
    \A g, k \in Live : g # k => groups[g].members \cap groups[k].members = {}

\* When nothing runs and no retry is scheduled, a group that is neither exported
\* nor being exported has the fund source of its expenses: no change was dropped.
FundMatches ==
    AllIdle => \A g \in Live : groups[g].exported \/ Active(g)
                  \/ \A e \in groups[g].members : Waiting(e) \/ fund[e] = groups[g].fund

\* A group always has an expense: exports read the first expense of a group.
NoEmptyGroup == \A g \in Live : groups[g].members # {}

\* An expense that was skipped is not exported: it is in no group.
SkippedStaysOut == \A e \in skipped : ~InGroup(Db, e)

\* What an export finds in a group fits it.
MembersFit == NoEmptyGroup /\ SkippedStaysOut
=============================================================================
