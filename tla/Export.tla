------------------------------- MODULE Export -------------------------------
(***************************************************************************)
(* The export pipeline of one workspace: a request to export becomes a     *)
(* RabbitMQ message, a worker turns it into a chain of export tasks (one   *)
(* per expense group), each task claims the group's TaskLog row, posts a   *)
(* document to NetSuite and commits the result.  Around it run the hourly  *)
(* check for stuck rows, the workspace's sync schedule, and a user who     *)
(* changes the export settings or adds a missing mapping.                  *)
(*                                                                         *)
(* A step is what one database statement (or one transaction) and the      *)
(* calls up to the next one do.  Whole-row saves of a copy read earlier    *)
(* are kept: Django's save() writes every column of the copy.              *)
(***************************************************************************)
EXTENDS Naturals, Sequences, FiniteSets

CONSTANTS
    Groups,        \* expense groups of the workspace
    Workers,       \* processes: queue consumers (p0, p1) and django-q workers
    Types,         \* kinds of NetSuite document an export setting can name
    NoType,        \* the setting, or a foreign key, is NULL
    FundOf,        \* fund source of each group
    Settings,      \* configurations a user may choose
    HourSuffices,  \* TRUE: a task that is alive finishes within the hour
    MaxRequests,   \* bound on the messages published
    MaxFaults,     \* bound on crashes and exceptions that escape a task
    MaxChanges     \* bound on changes of the export settings

Funds == {"PERSONAL", "CCC"}

ASSUME ExportAssumption ==
    /\ NoType \notin Types
    /\ FundOf \in [Groups -> Funds]
    /\ Settings \subseteq [Funds -> Types \cup {NoType}]
    /\ HourSuffices \in BOOLEAN
    /\ MaxRequests \in Nat
    /\ MaxFaults \in Nat
    /\ MaxChanges \in Nat

VARIABLES
    config,      \* Configuration: document type per fund source
    taskLog,     \* TaskLog row of each group (NoRow: no row)
    exported,    \* ExpenseGroup.exported_at is set
    objs,        \* Bill, ExpenseReport, ... rows of each group, by type
    netsuite,    \* documents NetSuite holds, by external id
    queue,       \* messages waiting in the export queues
    mappingErr,  \* groups listed by an unresolved mapping Error
    clearing,    \* fund sources changed by a settings request not yet done
    syncing,     \* run_sync_schedule is between its check and its publish
    nextId,      \* next primary key of task_logs
    requests, faults, changes,  \* counters of the bounded events
    disturbed,   \* history: groups whose row was ever FAILED, FATAL or deleted
    pc, job, seen, fund, todo, chain, stale, copy   \* locals of each worker

dbVars     == <<config, taskLog, exported, objs, mappingErr, nextId, disturbed>>
outside    == <<netsuite, queue, clearing, syncing>>
counters   == <<requests, faults, changes>>
localVars  == <<pc, job, seen, fund, todo, chain, stale, copy>>
vars       == <<dbVars, outside, counters, localVars>>
-----------------------------------------------------------------------------
(* Data.                                                                   *)

InFlight == {"ENQUEUED", "IN_PROGRESS"}
Status   == {"NONE", "ENQUEUED", "IN_PROGRESS", "FAILED", "FATAL", "COMPLETE"}
MaxStuck == 2     \* stuck_export_re_attempt_count__lt=2

Row == [id: Nat, status: Status, type: Types \cup {NoType}, reAttempt: BOOLEAN,
        stuck: 0..MaxStuck, doc: Types \cup {NoType}]

NoRow == [id |-> 0, status |-> "NONE", type |-> NoType, reAttempt |-> FALSE,
          stuck |-> 0, doc |-> NoType]

Job   == [kind: {"none", "message", "inline"}, no: Nat, ids: SUBSET Groups, retry: 0..1]
NoJob == [kind |-> "none", no |-> 0, ids |-> {}, retry |-> 0]

Document == [group: Groups, type: Types]
Task     == [group: Groups, row: Nat]

Pcs == {"idle", "stuck", "select", "chain", "save", "claim",
        "claimed", "posted", "committed", "tail", "raised"}

DbOK ==
    /\ config \in [Funds -> Types \cup {NoType}]
    /\ taskLog \in [Groups -> Row]
    /\ exported \in [Groups -> BOOLEAN]
    /\ objs \in [Groups -> SUBSET Types]
    /\ mappingErr \subseteq Groups
    /\ nextId \in Nat \ {0}
    /\ disturbed \subseteq Groups

OutsideOK ==
    /\ netsuite \subseteq Document
    /\ queue \subseteq Job
    /\ clearing \subseteq Funds
    /\ syncing \in BOOLEAN

CountersOK == requests \in Nat /\ faults \in Nat /\ changes \in Nat

LocalsOK ==
    /\ pc \in [Workers -> Pcs]
    /\ job \in [Workers -> Job]
    /\ seen \in [Workers -> [Funds -> Types \cup {NoType}]]
    /\ fund \in [Workers -> Funds \cup {"done"}]
    /\ todo \in [Workers -> SUBSET Groups]
    /\ chain \in [Workers -> Seq(Task)]
    /\ stale \in [Workers -> Row]
    /\ copy \in [Workers -> Row]

TypeOK == DbOK /\ OutsideOK /\ CountersOK /\ LocalsOK

Unset == [f \in Funds |-> NoType]

Init ==
    /\ config \in Settings
    /\ taskLog = [g \in Groups |-> NoRow]
    /\ exported = [g \in Groups |-> FALSE]
    /\ objs = [g \in Groups |-> {}]
    /\ netsuite = {} /\ queue = {} /\ mappingErr = {} /\ clearing = {}
    /\ syncing = FALSE
    /\ nextId = 1
    /\ requests = 0 /\ faults = 0 /\ changes = 0
    /\ disturbed = {}
    /\ pc = [w \in Workers |-> "idle"]
    /\ job = [w \in Workers |-> NoJob]
    /\ seen = [w \in Workers |-> Unset]
    /\ fund = [w \in Workers |-> "PERSONAL"]
    /\ todo = [w \in Workers |-> {}]
    /\ chain = [w \in Workers |-> << >>]
    /\ stale = [w \in Workers |-> NoRow]
    /\ copy = [w \in Workers |-> NoRow]
-----------------------------------------------------------------------------
(* Helpers.                                                                *)

\* mutant: the type is read from the Configuration each time it is needed
TypeReadAgain(w) == config[fund[w]]

\* the document type worker w exports, and the group and row of its task
TypeNow(w)  == seen[w][fund[w]]
GroupNow(w) == Head(chain[w]).group
RowNow(w)   == Head(chain[w]).row

\* mutant: the id names the process too, so that each attempt has its own
ExternalIdPerProcess(w) == [group |-> GroupNow(w), type |-> TypeNow(w), by |-> w]

\* external_id of the object: '<kind> <expense group id> - <email>'
ExternalId(w) == [group |-> GroupNow(w), type |-> TypeNow(w)]

HasRow(g, id) == taskLog[g].status # "NONE" /\ taskLog[g].id = id

\* save() of a copy with a primary key: UPDATE the row, INSERT it again if it
\* was deleted, IntegrityError if the group has another row by now
CanSave(g, row) == HasRow(g, row.id) \/ taskLog[g].status = "NONE"

\* the worker has the group in its hands
Holds(w, g) == pc[w] # "idle" /\ (g \in todo[w] \/ \E i \in 1..Len(chain[w]) : chain[w][i].group = g)

\* the fund sources export_to_netsuite still has to do: `if configuration....:`
FirstFund(c) ==
    IF c["PERSONAL"] # NoType THEN "PERSONAL" ELSE IF c["CCC"] # NoType THEN "CCC" ELSE "done"
NextFund(w) ==
    IF fund[w] = "PERSONAL" /\ seen[w]["CCC"] # NoType THEN "CCC" ELSE "done"

WriteLog(g, row) == taskLog' = [taskLog EXCEPT ![g] = row]

\* the next task of the chain, or the next fund source after the last one
Advance(w) ==
    /\ chain' = [chain EXCEPT ![w] = Tail(chain[w])]
    /\ pc' = [pc EXCEPT ![w] = IF Tail(chain[w]) = << >> THEN "select" ELSE "chain"]
    /\ fund' = [fund EXCEPT ![w] = IF Tail(chain[w]) = << >> THEN NextFund(w) ELSE fund[w]]
    /\ stale' = [stale EXCEPT ![w] = NoRow]
    /\ copy' = [copy EXCEPT ![w] = NoRow]
    /\ UNCHANGED <<job, seen, todo>>

\* the worker forgets everything
Forget(w) ==
    /\ pc' = [pc EXCEPT ![w] = "idle"]
    /\ job' = [job EXCEPT ![w] = NoJob]
    /\ seen' = [seen EXCEPT ![w] = Unset]
    /\ fund' = [fund EXCEPT ![w] = "PERSONAL"]
    /\ todo' = [todo EXCEPT ![w] = {}]
    /\ chain' = [chain EXCEPT ![w] = << >>]
    /\ stale' = [stale EXCEPT ![w] = NoRow]
    /\ copy' = [copy EXCEPT ![w] = NoRow]

Goto(w, label) == pc' = [pc EXCEPT ![w] = label]

\* export_to_netsuite(workspace, ids) starts in worker w: reads the Configuration
StartExport(w, j) ==
    /\ job' = [job EXCEPT ![w] = j]
    /\ seen' = [seen EXCEPT ![w] = config]
    /\ fund' = [fund EXCEPT ![w] = FirstFund(config)]
    /\ pc' = [pc EXCEPT ![w] = "select"]
-----------------------------------------------------------------------------
(* Requests and delivery.                                                  *)

Publish(ids) ==
    /\ requests < MaxRequests
    /\ requests' = requests + 1
    /\ queue' = queue \cup {[kind |-> "message", no |-> requests + 1, ids |-> ids, retry |-> 0]}

\* the dashboard's Export button, and direct exports after an import
RequestExport ==
    /\ \E ids \in SUBSET Groups \ {{}} : Publish(ids)
    /\ UNCHANGED <<dbVars, netsuite, clearing, syncing, faults, changes, localVars>>

Deliver(w) ==
    /\ pc[w] = "idle"
    /\ \E m \in queue : queue' = queue \ {m} /\ StartExport(w, m)
    /\ UNCHANGED <<dbVars, netsuite, clearing, syncing, counters, todo, chain, stale, copy>>

\* both fund sources done: the last export time is saved, the message acknowledged
Finish(w) ==
    /\ pc[w] = "select" /\ fund[w] = "done"
    /\ Forget(w)
    /\ UNCHANGED <<dbVars, outside, counters>>

\* mutant: the failed message is rejected and not published again
DropOnException(w) ==
    /\ queue' = queue
    /\ Forget(w)

\* an exception leaves handle_tasks: published again once, then dropped
HandleException(w) ==
    /\ queue' = IF job[w].kind = "message" /\ job[w].retry = 0
                THEN queue \cup {[job[w] EXCEPT !.retry = 1]} ELSE queue
    /\ Forget(w)

\* the process dies; the broker delivers an unacknowledged message again
Crash(w) ==
    /\ pc[w] # "idle"
    /\ faults < MaxFaults /\ faults' = faults + 1
    /\ queue' = IF job[w].kind = "message" THEN queue \cup {job[w]} ELSE queue
    /\ Forget(w)
    /\ UNCHANGED <<dbVars, netsuite, clearing, syncing, requests, changes>>
-----------------------------------------------------------------------------
(* schedule_*_creation: select, enqueue, chain.                            *)

Exportable(w) ==
    {g \in job[w].ids :
        /\ FundOf[g] = fund[w]
        /\ ~exported[g]
        /\ taskLog[g].status \notin {"IN_PROGRESS", "COMPLETE"}
        /\ TypeNow(w) \notin objs[g]}

Select(w) ==
    /\ pc[w] = "select" /\ fund[w] # "done"
    /\ IF Exportable(w) # {}
       THEN /\ todo' = [todo EXCEPT ![w] = Exportable(w)]
            /\ Goto(w, "chain")
            /\ UNCHANGED fund
       ELSE /\ fund' = [fund EXCEPT ![w] = NextFund(w)]
            /\ UNCHANGED <<todo, pc>>
    /\ UNCHANGED <<dbVars, outside, counters, job, seen, chain, stale, copy>>

Append1(w, g, id) ==
    /\ chain' = [chain EXCEPT ![w] = Append(chain[w], [group |-> g, row |-> id])]
    /\ todo' = [todo EXCEPT ![w] = todo[w] \ {g}]

\* an unresolved mapping error lists the group: it is left out of the chain
SkipGroup(w) ==
    /\ pc[w] = "chain"
    /\ \E g \in todo[w] \cap mappingErr : todo' = [todo EXCEPT ![w] = todo[w] \ {g}]
    /\ UNCHANGED <<dbVars, outside, counters, pc, job, seen, fund, chain, stale, copy>>

\* get_or_create found no row
EnqueueNew(w) ==
    /\ pc[w] = "chain"
    /\ \E g \in todo[w] \ mappingErr :
        /\ taskLog[g].status = "NONE"
        /\ WriteLog(g, [NoRow EXCEPT !.id = nextId, !.status = "ENQUEUED", !.type = TypeNow(w)])
        /\ Append1(w, g, nextId)
    /\ nextId' = nextId + 1
    /\ UNCHANGED <<config, exported, objs, mappingErr, disturbed, outside, counters,
                   pc, job, seen, fund, stale, copy>>

\* get_or_create found a row some task works on, or finished: chained as it is
EnqueueAgain(w) ==
    /\ pc[w] = "chain"
    /\ \E g \in todo[w] \ mappingErr :
        /\ taskLog[g].status \in InFlight \cup {"COMPLETE"}
        /\ Append1(w, g, taskLog[g].id)
    /\ UNCHANGED <<dbVars, outside, counters, pc, job, seen, fund, stale, copy>>

\* get_or_create found a failed row; its save() is a second statement
EnqueueRead(w) ==
    /\ pc[w] = "chain"
    /\ \E g \in todo[w] \ mappingErr :
        /\ taskLog[g].status \in {"FAILED", "FATAL"}
        /\ copy' = [copy EXCEPT ![w] = taskLog[g]]
        /\ Append1(w, g, taskLog[g].id)
    /\ Goto(w, "save")
    /\ UNCHANGED <<dbVars, outside, counters, job, seen, fund, stale>>

\* mutant: a row queued again starts counting anew
RequeuedAfresh(w) == [copy[w] EXCEPT !.type = TypeNow(w), !.status = "ENQUEUED", !.stuck = 0]

Requeued(w) == [copy[w] EXCEPT !.type = TypeNow(w), !.status = "ENQUEUED"]

SavedGroup(w) == chain[w][Len(chain[w])].group

EnqueueSave(w) ==
    /\ pc[w] = "save"
    /\ CanSave(SavedGroup(w), copy[w])
    /\ WriteLog(SavedGroup(w), Requeued(w))
    /\ copy' = [copy EXCEPT ![w] = NoRow]
    /\ Goto(w, "chain")
    /\ UNCHANGED <<config, exported, objs, mappingErr, nextId, disturbed, outside, counters,
                   job, seen, fund, todo, chain, stale>>

\* IntegrityError: nothing catches it before the consumer
EnqueueSaveFails(w) ==
    /\ pc[w] = "save"
    /\ ~CanSave(SavedGroup(w), copy[w])
    /\ HandleException(w)
    /\ UNCHANGED <<dbVars, netsuite, clearing, syncing, counters>>

\* an exception out of the loop (the summary of a skipped group), or of the sync of
\* dimensions before the chain: the rows enqueued so far stay ENQUEUED
ScheduleRaises(w) ==
    /\ pc[w] = "chain"
    /\ faults < MaxFaults /\ faults' = faults + 1
    /\ HandleException(w)
    /\ UNCHANGED <<dbVars, netsuite, clearing, syncing, requests, changes>>

\* every group was left out
NoChain(w) ==
    /\ pc[w] = "chain" /\ todo[w] = {} /\ chain[w] = << >>
    /\ fund' = [fund EXCEPT ![w] = NextFund(w)]
    /\ Goto(w, "select")
    /\ UNCHANGED <<dbVars, outside, counters, job, seen, todo, chain, stale, copy>>
-----------------------------------------------------------------------------
(* One task: the wrapper of handle_netsuite_exceptions around create_bill, *)
(* create_credit_card_charge, create_expense_report, create_journal_entry. *)

\* the wrapper reads the row outside of its try: a deleted row raises here
Fetch(w) ==
    /\ pc[w] = "chain" /\ todo[w] = {} /\ chain[w] # << >>
    /\ IF HasRow(GroupNow(w), RowNow(w))
       THEN stale' = [stale EXCEPT ![w] = taskLog[GroupNow(w)]] /\ Goto(w, "claim")
       ELSE Goto(w, "raised") /\ UNCHANGED stale
    /\ UNCHANGED <<dbVars, outside, counters, job, seen, fund, todo, chain, copy>>

\* mutant: only a finished task is skipped
ClaimableInProgress(w) ==
    HasRow(GroupNow(w), RowNow(w)) /\ taskLog[GroupNow(w)].status # "COMPLETE"

Claimable(w) ==
    /\ HasRow(GroupNow(w), RowNow(w))
    /\ taskLog[GroupNow(w)].status \notin {"IN_PROGRESS", "COMPLETE"}

\* mutant: the row is marked COMPLETE before NetSuite has answered
ClaimedTooFar(row) == [row EXCEPT !.status = "COMPLETE"]

Claimed(row) == [row EXCEPT !.status = "IN_PROGRESS"]

\* transaction 1, with the row locked
Claim(w) ==
    /\ pc[w] = "claim"
    /\ IF Claimable(w)
       THEN /\ WriteLog(GroupNow(w), Claimed(taskLog[GroupNow(w)]))
            /\ copy' = [copy EXCEPT ![w] = Claimed(taskLog[GroupNow(w)])]
            /\ Goto(w, "claimed")
       ELSE Goto(w, "tail") /\ UNCHANGED <<taskLog, copy>>
    /\ UNCHANGED <<config, exported, objs, mappingErr, nextId, disturbed, outside, counters,
                   job, seen, fund, todo, chain, stale>>

\* transaction 2 up to the answer of NetSuite.  The object's row is unique per
\* group, so two tasks of one group and type queue up on it.
Post(w) ==
    /\ pc[w] = "claimed"
    /\ \A v \in Workers \ {w} : pc[v] = "posted" => ExternalId(v) # ExternalId(w)
    /\ netsuite' = netsuite \cup {ExternalId(w)}
    /\ Goto(w, "posted")
    /\ UNCHANGED <<dbVars, queue, clearing, syncing, counters,
                   job, seen, fund, todo, chain, stale, copy>>

\* transaction 2 commits: object, row and group together
Commit(w) ==
    /\ pc[w] = "posted"
    /\ CanSave(GroupNow(w), copy[w])
    /\ objs' = [objs EXCEPT ![GroupNow(w)] = objs[GroupNow(w)] \cup {TypeNow(w)}]
    /\ WriteLog(GroupNow(w), [copy[w] EXCEPT !.status = "COMPLETE", !.doc = TypeNow(w)])
    /\ exported' = [exported EXCEPT ![GroupNow(w)] = TRUE]
    /\ Goto(w, "committed")
    /\ UNCHANGED <<config, mappingErr, nextId, disturbed, outside, counters,
                   job, seen, fund, todo, chain, stale, copy>>

\* an except branch of the wrapper saves the copy read before the claim
SaveFailure(w, row) ==
    /\ CanSave(GroupNow(w), row)
    /\ WriteLog(GroupNow(w), row)
    /\ disturbed' = disturbed \cup {GroupNow(w)}
    /\ Goto(w, "tail")

Failed(w) == [stale[w] EXCEPT !.status = "FAILED", !.reAttempt = FALSE]
Fatal(w)  == [stale[w] EXCEPT !.status = "FATAL"]

\* validation fails (BulkError), with or without a missing mapping
FailValidation(w) ==
    /\ pc[w] = "claimed"
    /\ SaveFailure(w, Failed(w))
    /\ mappingErr' \in {mappingErr, mappingErr \cup {GroupNow(w)}}
    /\ UNCHANGED <<config, exported, objs, nextId, outside, counters,
                   job, seen, fund, todo, chain, stale, copy>>

\* credentials, NetSuite errors and anything else, before or after NetSuite
\* has stored the document; transaction 2 is rolled back
Fail(w) ==
    /\ pc[w] \in {"claimed", "posted"}
    /\ \E row \in {Failed(w), Fatal(w)} : SaveFailure(w, row)
    /\ UNCHANGED <<config, exported, objs, mappingErr, nextId, outside, counters,
                   job, seen, fund, todo, chain, stale, copy>>

\* after the commit: the export summary counts or the attachment message fail
FailAfterCommit(w) ==
    /\ pc[w] = "committed"
    /\ SaveFailure(w, Fatal(w))
    /\ UNCHANGED <<config, exported, objs, mappingErr, nextId, outside, counters,
                   job, seen, fund, todo, chain, stale, copy>>

\* the group has another row by now, so neither save() succeeds
FailUnsaved(w) ==
    /\ pc[w] \in {"claimed", "posted", "committed"}
    /\ ~CanSave(GroupNow(w), stale[w])
    /\ Goto(w, "raised")
    /\ UNCHANGED <<dbVars, outside, counters, job, seen, fund, todo, chain, stale, copy>>

\* NetSuite refuses and the type was unset meanwhile: parse_error returns [],
\* unpacking it raises inside the except branch, before the save
HandlerRaises(w) ==
    /\ pc[w] = "claimed"
    /\ config[fund[w]] = NoType
    /\ faults < MaxFaults /\ faults' = faults + 1
    /\ Goto(w, "raised")
    /\ UNCHANGED <<dbVars, outside, requests, changes, job, seen, fund, todo, chain, stale, copy>>

\* summary post and counts at the end of the wrapper
TaskDone(w) ==
    /\ pc[w] \in {"tail", "committed"}
    /\ Advance(w)
    /\ UNCHANGED <<dbVars, outside, counters>>

\* ... outside of any try
TailRaises(w) ==
    /\ pc[w] \in {"tail", "committed"}
    /\ faults < MaxFaults /\ faults' = faults + 1
    /\ Goto(w, "raised")
    /\ UNCHANGED <<dbVars, outside, requests, changes, job, seen, fund, todo, chain, stale, copy>>

\* the chain runner is a library: it goes on with the next task, or lets the
\* exception through
RunnerContinues(w) ==
    /\ pc[w] = "raised"
    /\ Advance(w)
    /\ UNCHANGED <<dbVars, outside, counters>>

RunnerAborts(w) ==
    /\ pc[w] = "raised"
    /\ HandleException(w)
    /\ UNCHANGED <<dbVars, netsuite, clearing, syncing, counters>>
-----------------------------------------------------------------------------
(* re_export_stuck_exports, hourly.                                        *)

\* mutant: no limit on the re-attempts
StuckForEver(g) ==
    /\ taskLog[g].status \in InFlight
    /\ HourSuffices => \A w \in Workers : ~Holds(w, g)

\* mutant: only tasks that never started are looked for
StuckEnqueued(g) ==
    /\ taskLog[g].status = "ENQUEUED"
    /\ taskLog[g].stuck < MaxStuck
    /\ HourSuffices => \A w \in Workers : ~Holds(w, g)

Stuck(g) ==
    /\ taskLog[g].status \in InFlight
    /\ taskLog[g].stuck < MaxStuck
    /\ HourSuffices => \A w \in Workers : ~Holds(w, g)

\* reads the ids of the rows older than an hour; with HourSuffices the previous
\* run of the schedule has ended too
StuckRead(w) ==
    /\ pc[w] = "idle"
    /\ HourSuffices => \A v \in Workers : job[v].kind # "inline"
    /\ \E ids \in SUBSET {g \in Groups : Stuck(g)} :
        /\ ids # {}
        /\ HourSuffices => ids = {g \in Groups : Stuck(g)}
        /\ job' = [job EXCEPT ![w] = [kind |-> "inline", no |-> 0, ids |-> ids, retry |-> 0]]
    /\ Goto(w, "stuck")
    /\ UNCHANGED <<dbVars, outside, counters, seen, fund, todo, chain, stale, copy>>

GiveBack(row) == [row EXCEPT !.status = "FAILED", !.reAttempt = TRUE, !.stuck = row.stuck + 1]

\* one UPDATE of the rows still stuck (not those saved since), then an export in this process unless the
\* workspace's schedule runs within the hour
StuckUpdate(w) ==
    /\ pc[w] = "stuck"
    /\ \E hit \in SUBSET {g \in job[w].ids : Stuck(g)} :
           /\ HourSuffices => hit = {g \in job[w].ids : Stuck(g)}
           /\ taskLog' = [g \in Groups |-> IF g \in hit THEN GiveBack(taskLog[g]) ELSE taskLog[g]]
           /\ disturbed' = disturbed \cup hit
    /\ \/ StartExport(w, job[w]) /\ UNCHANGED <<todo, chain, stale, copy>>
       \/ Forget(w)
    /\ UNCHANGED <<config, exported, objs, mappingErr, nextId, outside, counters>>
-----------------------------------------------------------------------------
(* run_sync_schedule.                                                      *)

SyncBegin ==
    /\ ~syncing
    /\ \A g \in Groups : taskLog[g].status \notin InFlight
    /\ syncing' = TRUE
    /\ UNCHANGED <<dbVars, netsuite, queue, clearing, counters, localVars>>

Eligible ==
    {g \in Groups : ~exported[g] /\ ~(taskLog[g].status = "FAILED" /\ ~taskLog[g].reAttempt)}

SyncPublish ==
    /\ syncing
    /\ syncing' = FALSE
    /\ Eligible # {} /\ Publish(Eligible)
    /\ UNCHANGED <<dbVars, netsuite, clearing, faults, changes, localVars>>

\* nothing eligible, or the import before it failed
SyncEnd ==
    /\ syncing
    /\ syncing' = FALSE
    /\ UNCHANGED <<dbVars, netsuite, queue, clearing, counters, localVars>>
-----------------------------------------------------------------------------
(* The user: export settings and mappings.                                 *)

\* the Configuration is saved first, in a transaction of its own
SaveConfiguration ==
    /\ clearing = {} /\ changes < MaxChanges
    /\ changes' = changes + 1
    /\ \E new \in Settings :
        /\ new # config
        /\ config' = new
        /\ clearing' = {f \in Funds : new[f] # config[f]}
    /\ UNCHANGED <<taskLog, exported, objs, mappingErr, nextId, disturbed,
                   netsuite, queue, syncing, requests, faults, localVars>>

Affected == {g \in Groups : ~exported[g] /\ FundOf[g] \in clearing}

\* failed rows of the groups affected; and, when there are any, every enqueued
\* row of the workspace
Cleared ==
    {g \in Groups :
        \/ g \in Affected /\ taskLog[g].status \in {"FAILED", "FATAL"}
        \/ Affected # {} /\ taskLog[g].status = "ENQUEUED"}

ClearErrors ==
    /\ clearing # {}
    /\ clearing' = {}
    /\ mappingErr' = mappingErr \ Affected
    /\ taskLog' = [g \in Groups |-> IF g \in Cleared THEN NoRow ELSE taskLog[g]]
    /\ disturbed' = disturbed \cup Cleared
    /\ UNCHANGED <<config, exported, objs, nextId, netsuite, queue, syncing, counters, localVars>>

\* the request dies between its two transactions
SettingsCrash ==
    /\ clearing # {}
    /\ faults < MaxFaults /\ faults' = faults + 1
    /\ clearing' = {}
    /\ UNCHANGED <<dbVars, netsuite, queue, syncing, requests, changes, localVars>>

\* a mapping is added; the errors it resolves stop listing these groups
MapAttribute ==
    /\ \E S \in SUBSET mappingErr \ {{}} : mappingErr' = mappingErr \ S
    /\ UNCHANGED <<config, taskLog, exported, objs, nextId, disturbed, outside, counters, localVars>>
-----------------------------------------------------------------------------
Task1(w) ==
    \/ Fetch(w) \/ Claim(w) \/ Post(w) \/ Commit(w)
    \/ FailValidation(w) \/ Fail(w) \/ FailAfterCommit(w) \/ FailUnsaved(w)
    \/ HandlerRaises(w) \/ TaskDone(w) \/ TailRaises(w)
    \/ RunnerContinues(w) \/ RunnerAborts(w)

Schedule(w) ==
    \/ Select(w) \/ SkipGroup(w) \/ EnqueueNew(w) \/ EnqueueAgain(w)
    \/ EnqueueRead(w) \/ EnqueueSave(w) \/ EnqueueSaveFails(w) \/ ScheduleRaises(w)
    \/ NoChain(w) \/ Finish(w)

\* what a live worker does with the job it has
Work(w) == Schedule(w) \/ Task1(w) \/ StuckUpdate(w)

User == RequestExport \/ SaveConfiguration \/ ClearErrors \/ SettingsCrash \/ MapAttribute
Sync == SyncBegin \/ SyncPublish \/ SyncEnd

Next ==
    \/ \E w \in Workers : Deliver(w) \/ Work(w) \/ Crash(w) \/ StuckRead(w)
    \/ User
    \/ Sync

Spec == Init /\ [][Next]_vars

\* A consumer that is up takes messages and works on; the stuck check is a
\* django-q schedule that repeats for ever.  Nothing else is owed.
Fairness ==
    /\ \A w \in Workers : WF_vars(Work(w)) /\ WF_vars(Deliver(w)) 
    /\ WF_vars(\E w \in Workers : StuckRead(w))

FairSpec == Spec /\ Fairness
-----------------------------------------------------------------------------
(* Properties.                                                             *)

Exporting(w, g) == pc[w] \in {"claimed", "posted"} /\ GroupNow(w) = g

\* what the local variables of a worker say at each point of its program
InTask == {"claim", "claimed", "posted", "committed", "tail", "raised"}

LocalsFit == \A w \in Workers :
    /\ pc[w] \in InTask \cup {"save", "chain"} => fund[w] # "done"
    /\ pc[w] \in InTask \cup {"save"} => chain[w] # << >>
    /\ pc[w] \in InTask \cup {"save", "chain", "select"} /\ fund[w] # "done" => TypeNow(w) \in Types

\* an open transaction 2 has its document in NetSuite
PostedIsStored == \A w \in Workers : pc[w] = "posted" => ExternalId(w) \in netsuite

\* A TaskLog that reads COMPLETE is the truth: the group is marked exported and
\* the object the row points to is in the database.  Whole-row saves of copies
\* read earlier (the wrapper's, schedule_*_creation's, the stuck check's row)
\* never write COMPLETE back, and transaction 2 writes all three or none.
CompleteIsExported ==
    \A g \in Groups : taskLog[g].status = "COMPLETE" =>
        exported[g] /\ taskLog[g].doc \in objs[g]

\* A group marked exported has an object, and every object in the database is
\* a document in NetSuite, however tasks fail, crash or overlap.
ExportedIsPosted ==
    \A g \in Groups :
        /\ exported[g] <=> objs[g] # {}
        /\ \A t \in objs[g] : [group |-> g, type |-> t] \in netsuite

\* The status check under select_for_update, "already in IN_PROGRESS or COMPLETE
\* state, so skipping the task": as long as the group's row was never failed nor
\* deleted, at most one task exports the group and none once it is exported,
\* although several messages may chain the same row.
ClaimIsExclusive ==
    \A g \in Groups \ disturbed : \A v, w \in Workers :
        Exporting(v, g) => ~exported[g] /\ (Exporting(w, g) => v = w)

\* What makes the claim exclusive, step by step: the row of a group that was never
\* disturbed only moves forward, it reads IN_PROGRESS while a task exports the
\* group and COMPLETE for ever after, and no stale save of it is pending.
OnlyForward ==
    \A g \in Groups \ disturbed :
        /\ taskLog[g].status \notin {"FAILED", "FATAL"}
        /\ exported[g] => taskLog[g].status = "COMPLETE"
        /\ \A w \in Workers :
            /\ Exporting(w, g) => taskLog[g].status = "IN_PROGRESS"
            /\ pc[w] = "save" => SavedGroup(w) # g
            /\ \A v \in Workers : Exporting(v, g) /\ Exporting(w, g) => v = w

\* A worker's lists are of the fund source it is at, and empty between them.
FundsFit == \A w \in Workers :
    /\ pc[w] \in {"idle", "stuck", "select"} => todo[w] = {} /\ chain[w] = << >>
    /\ pc[w] \in InTask => todo[w] = {}
    /\ \A g \in todo[w] : FundOf[g] = fund[w]
    /\ \A i \in DOMAIN chain[w] : FundOf[chain[w][i].group] = fund[w]

\* Before the first change of the settings everybody works by the same ones.
SettingsFit == changes = 0 =>
    /\ \A w \in Workers : pc[w] \notin {"idle", "stuck"} => seen[w] = config
    /\ \A d \in netsuite : d.type = config[FundOf[d.group]]

\* The inductive invariant of ExportProofs.
IInv ==
    /\ TypeOK /\ LocalsFit
    /\ PostedIsStored /\ ExportedIsPosted /\ CompleteIsExported
    /\ OnlyForward
    /\ FundsFit /\ SettingsFit

\* The external id makes retries safe: as long as nobody changes the export
\* settings, a group has at most one document in NetSuite, whatever was lost,
\* retried or run twice.
OneDocument ==
    changes = 0 => \A d, e \in netsuite : d.group = e.group => d = e

\* The stuck check's count survives the whole-row saves: while a task that is
\* alive ends within the hour, no save of an older copy takes a count back, so
\* a row is re-attempted at most twice.
StuckCountKept ==
    [][\A g \in Groups : (HasRow(g, taskLog'[g].id) /\ taskLog'[g].status # "NONE")
          => taskLog'[g].stuck >= taskLog[g].stuck]_vars

\* The task functions' guard, 'Task log %s no longer exists, skipping ...': a task
\* of a chain whose row was deleted is skipped, it does not raise.
MissingRowIsSkipped ==
    [][\A w \in Workers :
        (pc[w] = "chain" /\ todo[w] = {} /\ chain[w] # << >> /\ ~HasRow(GroupNow(w), RowNow(w)))
            => pc'[w] # "raised"]_vars

\* No row stays ENQUEUED or IN_PROGRESS, which would silence the sync schedule,
\* unless the stuck check has given up on it.
Settles ==
    \A g \in Groups : (taskLog[g].status \in InFlight)
        ~> (taskLog[g].status \notin InFlight \/ taskLog[g].stuck = MaxStuck)

\* A published request is answered for each of its groups: exported, failed with
\* a row that says so, left out for a missing mapping, or given up as stuck.
\* (With at most one crash or escaped exception: the consumer retries once.)
Answered(g) ==
    \/ exported[g]
    \/ taskLog[g].status \in {"FAILED", "FATAL"}
    \/ g \in mappingErr
    \/ taskLog[g].stuck = MaxStuck

RequestIsAnswered ==
    \A g \in Groups : (\E m \in queue : g \in m.ids) ~> Answered(g)

\* what a group's documents went through, for the abstract specification
Ledger ==
    [d \in Document |->
        IF d.type \in objs[d.group] THEN "booked"
        ELSE IF d \in netsuite THEN "stored" ELSE "absent"]

Promise == INSTANCE ExportPromise WITH ledger <- Ledger, exported <- exported

\* The pipeline keeps the promise of ExportPromise.
KeepsPromise == Promise!Spec
=============================================================================
