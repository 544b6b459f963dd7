--------------------------- MODULE MappingErrors ---------------------------
(***************************************************************************)
(* Errors for missing mappings.  An attribute (an employee, a category or  *)
(* a tax group) has at most one error, which lists the expense groups that *)
(* miss its mapping; a group in the list of an unresolved error is not     *)
(* exported.  Exports that validate their group, category changes, group   *)
(* deletions, new settings and new mappings all write these lists, each    *)
(* from a copy of its own and without a lock.                              *)
(***************************************************************************)

CONSTANTS
    Groups,   \* expense groups
    Attrs,    \* attributes that need a mapping
    Workers,  \* processes that take the messages
    Wide,     \* TRUE: a group may use two attributes of a kind
    Overlap,  \* TRUE: people add mappings while a validation runs
    Rules,    \* TRUE: skip rules delete groups
    Shrinks   \* TRUE: new settings may need mappings that are not there

VARIABLES
    uses,    \* attributes of the expenses of each group, {} once it is deleted
    mapped,  \* attributes with a mapping the settings can use
    error,   \* the Error row of each attribute
    failed,  \* history: missing mappings found by the last validation of a group
    proc

vars == <<uses, mapped, error, failed, proc>>

NoError == [made |-> FALSE, ids |-> {}, resolved |-> FALSE]
Error   == {NoError} \cup [made: {TRUE}, ids: (SUBSET Groups) \ {{}}, resolved: BOOLEAN]
Idle    == [pc |-> "idle"]
Proc ==
    {Idle}
      \cup [pc: {"look"}, g: Groups, todo: SUBSET Attrs, found: SUBSET Attrs]
      \cup [pc: {"get"}, g: Groups, todo: SUBSET Attrs, found: SUBSET Attrs, a: Attrs]
      \cup [pc: {"append", "save"}, g: Groups, todo: SUBSET Attrs, found: SUBSET Attrs,
            a: Attrs, copy: Error]
      \cup [pc: {"changed"}, g: Groups, new: Attrs]
      \cup [pc: {"remove"}, g: Groups, new: Attrs, copies: [Attrs -> Error], from: SUBSET Attrs]

TypeOK ==
    /\ uses \in [Groups -> SUBSET Attrs]
    /\ mapped \subseteq Attrs
    /\ error \in [Attrs -> Error]
    /\ failed \subseteq Groups \X Attrs
    /\ proc \in [Workers -> Proc]

Usable == IF Wide THEN {{a, b} : a, b \in Attrs} ELSE {{a} : a \in Attrs}

Init ==
    /\ uses \in [Groups -> Usable]
    /\ mapped = {}
    /\ error = [a \in Attrs |-> NoError]
    /\ failed = {}
    /\ proc = [h \in Workers |-> Idle]
-----------------------------------------------------------------------------
Set(h, r)    == proc' = [proc EXCEPT ![h] = r]
AllIdle      == \A h \in Workers : proc[h].pc = "idle"
Unresolved   == {a \in Attrs : error[a].made /\ ~error[a].resolved}
Forget(g)    == failed' = {f \in failed : f[1] # g}

\* validate_failing_export: the group is left out of the exports
Blocked(g) == \E a \in Unresolved : g \in error[a].ids

\* an export that is not blocked starts to validate its group
Validate(h, g) ==
    /\ proc[h].pc = "idle" /\ uses[g] # {} /\ ~Blocked(g)
    /\ \A k \in Workers : proc[k].pc # "idle" => proc[k].g # g
    /\ Set(h, [pc |-> "look", g |-> g, todo |-> uses[g], found |-> {}])
    /\ UNCHANGED <<uses, mapped, error, failed>>

\* the next attribute, and whether it has a mapping
Look(h, a) ==
    LET p == proc[h] IN
    /\ p.pc = "look" /\ a \in p.todo
    /\ Set(h, IF a \in mapped THEN [p EXCEPT !.todo = @ \ {a}]
              ELSE [pc |-> "get", g |-> p.g, todo |-> p.todo \ {a}, found |-> p.found, a |-> a])
    /\ UNCHANGED <<uses, mapped, error, failed>>

Found(h) == LET p == proc[h] IN
    Set(h, [pc |-> "look", g |-> p.g, todo |-> p.todo, found |-> p.found \cup {p.a}])

\* get_or_create
Get(h) ==
    LET p == proc[h]
        e == error[p.a]
    IN
    /\ p.pc = "get"
    /\ IF e.made
       THEN /\ Set(h, [pc |-> IF p.g \in e.ids THEN "save" ELSE "append", g |-> p.g,
                       todo |-> p.todo, found |-> p.found, a |-> p.a, copy |-> e])
            /\ UNCHANGED error
       ELSE /\ error' = [error EXCEPT ![p.a] = [made |-> TRUE, ids |-> {p.g}, resolved |-> FALSE]]
            /\ Found(h)
    /\ UNCHANGED <<uses, mapped, failed>>

ListWith(old, g) == old \cup {g}

\* the list alone is written; a row that is gone ends the validation
Append(h) ==
    LET p == proc[h]
        ids == ListWith(p.copy.ids, p.g)
    IN
    /\ p.pc = "append"
    /\ IF error[p.a].made
       THEN /\ error' = [error EXCEPT ![p.a].ids = ids]
            /\ Set(h, [p EXCEPT !.pc = "save", !.copy.ids = ids])
       ELSE Set(h, Idle) /\ UNCHANGED error
    /\ UNCHANGED <<uses, mapped, failed>>

\* increase_repetition_count_by_one saves the whole row, also one that is gone
SaveRow(h) ==
    /\ proc[h].pc = "save"
    /\ error' = [error EXCEPT ![proc[h].a] = proc[h].copy]
    /\ Found(h)
    /\ UNCHANGED <<uses, mapped, failed>>

\* BulkError, or the export goes on to NetSuite
Validated(h) ==
    LET p == proc[h] IN
    /\ p.pc = "look" /\ p.todo = {}
    /\ failed' = {f \in failed : f[1] # p.g} \cup ({p.g} \X p.found)
    /\ Set(h, Idle)
    /\ UNCHANGED <<uses, mapped, error>>
-----------------------------------------------------------------------------
\* the expense of a group gets another category; others may keep the old one
Change(h, g, old, new) ==
    /\ proc[h].pc = "idle" /\ old \in uses[g] /\ new \notin uses[g]
    /\ Overlap \/ AllIdle
    /\ uses' = [uses EXCEPT ![g] = (@ \ {old}) \cup {new}]
    /\ Forget(g)
    /\ Set(h, [pc |-> "changed", g |-> g, new |-> new])
    /\ UNCHANGED <<mapped, error>>

\* mutant: the group stays in the error of its old category
ListedNowhere(g) == {{}}

\* the error a group is taken out of: the first one that lists it
Listed(g) ==
    LET in == {a \in Unresolved : g \in error[a].ids} IN
    IF in = {} THEN {{}} ELSE {{a} : a \in in}

ChangeRead(h) ==
    /\ proc[h].pc = "changed"
    /\ \E from \in Listed(proc[h].g) :
          Set(h, [pc |-> "remove", g |-> proc[h].g, new |-> proc[h].new,
                  copies |-> error, from |-> from])
    /\ UNCHANGED <<uses, mapped, error, failed>>

\* the list without a group; an empty list deletes the row
Without(e, g) == IF e.ids \subseteq {g} THEN NoError ELSE [e EXCEPT !.ids = @ \ {g}]

\* handle_category_changes_for_expense: out of the old error, into the new
\* one; a second error of an attribute, or a row that is gone, undoes both
ChangeWrite(h) ==
    LET p    == proc[h]
        gone == \E a \in p.from : ~error[a].made /\ p.copies[a].ids # {p.g}
        out  == [a \in Attrs |->
                    IF a \notin p.from THEN error[a]
                    ELSE IF Without(p.copies[a], p.g) = NoError THEN NoError
                    ELSE [error[a] EXCEPT !.ids = p.copies[a].ids \ {p.g}]]
        e    == out[p.new]
    IN
    /\ p.pc = "remove"
    /\ error' =
          IF gone THEN error
          ELSE IF e.made /\ ~e.resolved THEN [out EXCEPT ![p.new].ids = @ \cup {p.g}]
          ELSE IF p.new \in mapped THEN out
          ELSE IF e.made THEN error
          ELSE [out EXCEPT ![p.new] = [made |-> TRUE, ids |-> {p.g}, resolved |-> FALSE]]
    /\ Set(h, Idle)
    /\ UNCHANGED <<uses, mapped, failed>>
-----------------------------------------------------------------------------
\* delete_expense_group_and_related_data, within its transaction
DeleteGroup(g) ==
    /\ AllIdle /\ uses[g] # {}
    /\ uses' = [uses EXCEPT ![g] = {}]
    /\ error' = [a \in Attrs |-> IF g \in error[a].ids THEN Without(error[a], g) ELSE error[a]]
    /\ Forget(g)
    /\ UNCHANGED <<mapped, proc>>

\* re_run_skip_export_rule deletes the group and leaves the lists alone
RuleDelete(g) ==
    /\ Rules /\ AllIdle /\ uses[g] # {}
    /\ uses' = [uses EXCEPT ![g] = {}]
    /\ Forget(g)
    /\ UNCHANGED <<mapped, error, proc>>

\* clear_workspace_errors_on_export_type_change for the groups of a fund
\* source; the new kind of export may need other mappings
NewSettings(affected, usable) ==
    /\ AllIdle /\ usable \subseteq mapped /\ (Shrinks \/ usable = mapped)
    /\ mapped' = usable
    /\ error' = [a \in Attrs |->
          LET e == error[a] IN
          IF a \notin Unresolved \/ e.ids \cap affected = {} THEN e
          ELSE IF e.ids \subseteq affected THEN NoError
          ELSE [e EXCEPT !.ids = @ \ affected]]
    /\ failed' = {f \in failed : f[1] \notin affected}
    /\ UNCHANGED <<uses, proc>>

Resolved(as) == [a \in Attrs |->
    IF a \in as /\ error[a].made THEN [error[a] EXCEPT !.resolved = TRUE] ELSE error[a]]

\* a mapping is created or changed, and its post_save receiver
Map(a) ==
    /\ a \notin mapped /\ (Overlap \/ AllIdle)
    /\ mapped' = mapped \cup {a}
    /\ error' = Resolved({a})
    /\ UNCHANGED <<uses, failed, proc>>

\* mutant: the job looks only at errors without a mapping
ResolvableNot == Unresolved \ mapped

Resolvable == Unresolved \cap mapped

\* resolve_expense_attribute_errors, after the daily auto-mapping
ResolveJob ==
    /\ Resolvable # {}
    /\ error' = Resolved(Resolvable)
    /\ UNCHANGED <<uses, mapped, failed, proc>>
-----------------------------------------------------------------------------
Validation(h) ==
    \/ \E a \in Attrs : Look(h, a)
    \/ Get(h) \/ Append(h) \/ SaveRow(h) \/ Validated(h)

Handler(h) == ChangeRead(h) \/ ChangeWrite(h)

Act ==
    \/ \E h \in Workers, g \in Groups : Validate(h, g)
    \/ \E h \in Workers : Validation(h) \/ Handler(h)
    \/ \E h \in Workers, g \in Groups, old, new \in Attrs : Change(h, g, old, new)
    \/ \E g \in Groups : DeleteGroup(g) \/ RuleDelete(g)
    \/ \E affected \in SUBSET Groups, usable \in SUBSET Attrs : NewSettings(affected, usable)
    \/ \E a \in Attrs : Map(a)

Next == Act \/ ResolveJob

Spec == Init /\ [][Next]_vars

\* categories have no job in this repository that resolves their errors
Categories == Init /\ [][Act]_vars

\* employees: the auto-mapping runs daily, and messages are worked off
Employees ==
    /\ Spec
    /\ WF_vars(ResolveJob)
    /\ \A h \in Workers : WF_vars(Validation(h) \/ Handler(h))
-----------------------------------------------------------------------------
(* Properties.                                                             *)

\* A missing mapping that failed an export is in the list of its error, as
\* get_or_create_error_with_expense_group promises.
Reported == \A f \in failed : f[2] \notin mapped => f[1] \in error[f[2]].ids

\* A group is left out of the exports only for a mapping that it needs and
\* that is missing, once handlers are done.
BlockedIsMissing == AllIdle => \A a \in Unresolved, g \in Groups :
    uses[g] # {} /\ g \in error[a].ids => a \in uses[g] \ mapped

\* Errors of a mapped attribute are resolved (resolve_post_*_mapping_errors).
MappedIsResolved == AllIdle => Unresolved \cap mapped = {}

\* No unresolved error is left with only groups that are gone, and none with
\* an empty list: a user could do nothing about it.
NoOrphanError == AllIdle => \A a \in Unresolved : \E g \in error[a].ids : uses[g] # {}

\* All of these: once handlers are done, an error that is open has no mapping yet, has a
\* group that still exists, and keeps from the exports only groups that need the mapping.
ErrorsTellMissing ==
    /\ TypeOK /\ Reported /\ BlockedIsMissing /\ MappedIsResolved /\ NoOrphanError

\* The daily job frees a group that a stale save has left in an error of a
\* mapped employee.
Unblocks == \A a \in Attrs :
    a \in Unresolved /\ a \in mapped ~> a \notin Unresolved \/ a \notin mapped
=============================================================================
