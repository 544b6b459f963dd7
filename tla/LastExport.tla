----------------------------- MODULE LastExport -----------------------------
(***************************************************************************)
(* The LastExportDetail row of a workspace.  export_to_netsuite runs one   *)
(* chain of exports for each fund source and stores its time in the end;   *)
(* the last export of a chain counts the failed and the successful task    *)
(* logs and saves the whole row.  Rules and settings that delete task logs *)
(* correct the counts.  Several workers may run an export.                 *)
(***************************************************************************)
EXTENDS Naturals, Sequences, FiniteSets, SequencesExt

CONSTANTS
    Groups,   \* expense groups
    Fund,     \* 1 for PERSONAL, 2 for CCC
    Workers,
    Skips,    \* groups that may be left out for a mapping error
    MaxRuns   \* bound on calls of export_to_netsuite, which number time

VARIABLES
    log,   \* TaskLog of each group: its status, and when it was updated
    row,   \* the LastExportDetail
    clock, \* number of calls so far
    done,  \* history: times of the calls that have stored theirs
    proc

vars == <<log, row, clock, done, proc>>

Status == {"none", "ENQUEUED", "IN_PROGRESS", "COMPLETE", "FAILED", "deleted"}
NoLog  == [status |-> "none", at |-> 0]
Detail == [last: 0..MaxRuns, failed: Nat, successful: Nat, total: Nat]
Export == [group: Groups, last: BOOLEAN]
Idle   == [pc |-> "idle"]

Work ==
    [pc: {"fund", "chain", "claimed", "read", "count", "store"}, fund: 1..3, t: 1..MaxRuns,
     chain: Seq(Export), any: BOOLEAN, copy: Detail]

TypeOK ==
    /\ log \in [Groups -> [status: Status, at: 0..MaxRuns]]
    /\ row \in Detail
    /\ clock \in 0..MaxRuns /\ done \subseteq 1..clock
    /\ proc \in [Workers -> {Idle} \cup Work]

NoDetail == [last |-> 0, failed |-> 0, successful |-> 0, total |-> 0]

Init ==
    /\ log = [g \in Groups |-> NoLog]
    /\ row = NoDetail
    /\ clock = 0 /\ done = {}
    /\ proc = [h \in Workers |-> Idle]
-----------------------------------------------------------------------------
To(h, pc) == proc' = [proc EXCEPT ![h].pc = pc]
AllIdle   == \A h \in Workers : proc[h].pc = "idle"

\* export_to_netsuite; time 0 stands for "never"
Begin(h) ==
    /\ proc[h].pc = "idle" /\ clock < MaxRuns
    /\ clock' = clock + 1
    /\ proc' = [proc EXCEPT ![h] = [pc |-> "fund", fund |-> 1, t |-> clock + 1, chain |-> << >>,
                                    any |-> FALSE, copy |-> NoDetail]]
    /\ UNCHANGED <<log, row, done>>

\* the groups of the fund source that are not exported
Due(f) == {g \in Groups : Fund[g] = f /\ log[g].status \notin {"COMPLETE", "deleted"}}

Enqueued(groups) ==
    [g \in Groups |-> IF g \in groups THEN [log[g] EXCEPT !.status = "ENQUEUED"] ELSE log[g]]

\* the flag is on the last group of the query, which the chain may not have
Chain(groups, flagged) ==
    LET s == SetToSeq(groups) IN
    [i \in 1..Len(s) |-> [group |-> s[i], last |-> i = Len(s) /\ flagged]]

\* schedule_*_creation: groups are skipped; when all are, this counts at once
Schedule(h) ==
    LET p    == proc[h]
        open == {g \in Due(p.fund) : log[g].status # "IN_PROGRESS"}
    IN
    /\ p.pc = "fund" /\ p.fund < 3
    /\ \E skipped \in SUBSET (open \cap Skips), flagged \in BOOLEAN :
          /\ flagged \/ skipped # {}
          /\ log' = Enqueued(open \ skipped)
          /\ proc' = [proc EXCEPT ![h] = [p EXCEPT
                !.any = @ \/ Due(p.fund) # {},
                !.fund = @ + 1,
                !.chain = Chain(open \ skipped, flagged),
                !.pc = IF open = {} THEN "fund" ELSE IF skipped = open THEN "read" ELSE "chain"]]
    /\ UNCHANGED <<row, clock, done>>

Rest(h) == IF Tail(proc[h].chain) = << >> THEN "fund" ELSE "chain"

\* the claim of a create_* task; a log of another worker is left to it
Claim(h) ==
    LET g == Head(proc[h].chain).group
        free == log[g].status \notin {"IN_PROGRESS", "COMPLETE"}
    IN
    /\ proc[h].pc = "chain"
    /\ log' = IF free THEN [log EXCEPT ![g].status = "IN_PROGRESS"] ELSE log
    /\ IF free THEN To(h, "claimed")
       ELSE proc' = [proc EXCEPT ![h].pc = Rest(h), ![h].chain = Tail(@)]
    /\ UNCHANGED <<row, clock, done>>

\* mutant: only a successful last export counts
CountedIf(last, result) == last /\ result = "COMPLETE"

\* the last export of a chain counts, whether it succeeds or fails
Counted(last, result) == last

Finish(h, result) ==
    LET e == Head(proc[h].chain) IN
    /\ proc[h].pc = "claimed"
    /\ log' = [log EXCEPT ![e.group] = [status |-> result, at |-> clock]]
    /\ proc' = [proc EXCEPT ![h].chain = Tail(@),
                    ![h].pc = IF Counted(e.last, result) THEN "read" ELSE Rest(h)]
    /\ UNCHANGED <<row, clock, done>>
-----------------------------------------------------------------------------
(* update_last_export_details: read, count, save the whole row.            *)

Failed   == {g \in Groups : log[g].status = "FAILED"}
Since(t) == {g \in Groups : log[g].status = "COMPLETE" /\ log[g].at >= t}

Counts(r, failed) == LET n == Cardinality(Since(r.last)) IN
    [r EXCEPT !.failed = Cardinality(failed), !.successful = n, !.total = Cardinality(failed) + n]

Read(h) ==
    /\ proc[h].pc = "read"
    /\ proc' = [proc EXCEPT ![h].pc = "count", ![h].copy = row]
    /\ UNCHANGED <<log, row, clock, done>>

Count(h) ==
    /\ proc[h].pc = "count"
    /\ proc' = [proc EXCEPT ![h].pc = "store", ![h].copy = Counts(@, Failed)]
    /\ UNCHANGED <<log, row, clock, done>>

Store(h) ==
    /\ proc[h].pc = "store"
    /\ row' = proc[h].copy
    /\ To(h, IF proc[h].chain = << >> THEN "fund" ELSE "chain")
    /\ UNCHANGED <<log, clock, done>>

\* last_exported_at alone, when the query had groups
Stamp(h) == IF proc[h].any THEN [row EXCEPT !.last = proc[h].t] ELSE row

End(h) ==
    /\ proc[h].pc = "fund" /\ proc[h].fund = 3
    /\ row' = Stamp(h)
    /\ done' = IF proc[h].any THEN done \cup {proc[h].t} ELSE done
    /\ proc' = [proc EXCEPT ![h] = Idle]
    /\ UNCHANGED <<log, clock>>
-----------------------------------------------------------------------------
Minus(n, k) == IF n > k THEN n - k ELSE 0

Corrected(r, logs, gone) ==
    [r EXCEPT !.failed = Minus(@, Cardinality(logs)), !.total = Minus(@, Cardinality(gone))]

\* re_run_skip_export_rule: groups whose expenses are all skipped are deleted
Rule(gone) ==
    /\ AllIdle /\ gone # {} /\ \A g \in gone : log[g].status \in {"none", "FAILED"}
    /\ log' = [g \in Groups |-> IF g \in gone THEN [NoLog EXCEPT !.status = "deleted"] ELSE log[g]]
    /\ row' = Corrected(row, {g \in gone : log[g].status # "none"}, gone)
    /\ UNCHANGED <<clock, done, proc>>

\* new export settings delete failed logs of a fund source, and count again
Settings(f) ==
    LET cleared == {g \in Failed : Fund[g] = f} IN
    /\ AllIdle /\ cleared # {}
    /\ log' = [g \in Groups |-> IF g \in cleared THEN NoLog ELSE log[g]]
    /\ row' = IF row.last = 0 THEN row ELSE Counts(row, Failed \ cleared)
    /\ UNCHANGED <<clock, done, proc>>
-----------------------------------------------------------------------------
Next ==
    \/ \E h \in Workers :
          \/ Begin(h) \/ Schedule(h) \/ Claim(h)
          \/ \E result \in {"COMPLETE", "FAILED"} : Finish(h, result)
          \/ Read(h) \/ Count(h) \/ Store(h) \/ End(h)
    \/ \E gone \in SUBSET Groups : Rule(gone)
    \/ \E f \in 1..2 : Settings(f)

Spec == Init /\ [][Next]_vars
-----------------------------------------------------------------------------
(* Properties.                                                             *)

\* Once exports, rules and settings are done, the count of failed groups the
\* dashboard shows is the number of failed task logs.
FailedCounted == AllIdle => row.failed = Cardinality(Failed)

\* last_exported_at is the time of the last export.
LastIsLatest == AllIdle => \A t \in done : t <= row.last

\* Both: once exports, rules and settings are done, the dashboard is right.
DetailIsTrue == TypeOK /\ FailedCounted /\ LastIsLatest
=============================================================================
