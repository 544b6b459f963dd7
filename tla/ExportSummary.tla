--------------------------- MODULE ExportSummary ---------------------------
(***************************************************************************)
(* What Fyle is told about each expense: its accounting export summary.    *)
(* Exports, the skip rules and the hourly check write the summary of an    *)
(* expense with synced = FALSE; post_accounting_export_summary reads the   *)
(* unsynced ones page by page, posts them to Fyle and writes them back     *)
(* with synced = TRUE.                                                     *)
(*                                                                         *)
(* A worker runs a script of operations.  Each read, each write and each   *)
(* call of Fyle is a step of its own, because none of them is made under   *)
(* a lock: what was read may be old by the time it is written or posted.   *)
(* All expenses have one fund source, so that filter is left out.          *)
(***************************************************************************)
EXTENDS Naturals, Sequences, FiniteSets

CONSTANTS
    Expenses, Groups, NoGroup,
    GroupOf,      \* group each expense was put in
    Id,           \* primary key of each expense
    Workers,
    PageSize,     \* page_size of post_accounting_export_summary (20)
    Overlap,      \* TRUE: two jobs may handle one expense at the same time
    Lasts,        \* values of last_export: is the task the last of its chain?
    Filtered,     \* expenses the workspace's skip rules match
    CanVanish,    \* expenses a user may delete in Fyle
    MaxOutages,   \* bound on posts that end in a RetryException
    MaxCrashes    \* bound on workers that die

ASSUME SummaryAssumption ==
    /\ NoGroup \notin Groups
    /\ GroupOf \in [Expenses -> Groups]
    /\ IsFiniteSet(Expenses)
    /\ Id \in [Expenses -> Nat]
    /\ \A e, x \in Expenses : Id[e] = Id[x] => e = x
    /\ Lasts \subseteq BOOLEAN
    /\ Filtered \subseteq Expenses
    /\ CanVanish \subseteq Expenses
    /\ PageSize \in Nat \ {0}
    /\ Overlap \in BOOLEAN
    /\ MaxOutages \in Nat
    /\ MaxCrashes \in Nat

VARIABLES
    summary,    \* Expense.accounting_export_summary
    isSkipped,  \* Expense.is_skipped
    prev,       \* Expense.previous_export_state
    member,     \* expenses that are in their group
    status,     \* the export of each group, as its TaskLog row tells it
    owner,      \* the worker whose task log that row is
    fyle,       \* the state Fyle was last told
    gone,       \* expenses deleted in Fyle
    outages, crashes,
    abandoned,  \* history: groups a worker left without its last update
    script,     \* operations each worker has yet to do
    at,         \* where it is in the first of them
    copy,       \* summaries it has read
    count, off, \* expenses_count and offset of its post
    batches,    \* payloads of its post
    held,       \* history: expenses its job handles
    due         \* history: expenses its post counted and has not dealt with

dbVars    == <<summary, isSkipped, prev, member, status, owner>>
fyleVars  == <<fyle, gone, outages>>
postVars  == <<count, off, batches, due>>
localVars == <<script, at, copy, held>>
vars      == <<dbVars, fyleVars, crashes, abandoned, localVars, postVars>>
-----------------------------------------------------------------------------
States  == {"NONE", "IN_PROGRESS", "ERROR", "COMPLETE", "SKIPPED", "DELETED"}
Summary == [state: States, synced: BOOLEAN]
Status  == {"ready", "inflight", "failed", "complete"}

\* the initial {} has no synced key: it does not match synced = FALSE
Empty      == [state |-> "NONE", synced |-> TRUE]

\* mutant: the new summary comes without its synced key
UnsyncedNoKey(s) == [state |-> s]

\* get_updated_accounting_export_summary, for an update and for a deletion
Unsynced(s) == [state |-> s, synced |-> FALSE]

\* mutant: a deleted expense is left to be posted
DeletedUnsynced == [state |-> "DELETED", synced |-> FALSE]

Deleted == [state |-> "DELETED", synced |-> TRUE]

Op == [do: {"update", "skip", "ungroup", "post", "outcome"}, state: States,
       group: Groups \cup {NoGroup}, ids: SUBSET Expenses, failed: BOOLEAN, last: BOOLEAN]

\* functions on the expenses that were read
Partial(S) == UNION {[E -> S] : E \in SUBSET Expenses}
NoCopy     == [e \in {} |-> Empty]

\* where a worker is in an operation
Places == {"next", "write", "page", "send", "refused", "mark", "marking"}

DbOK ==
    /\ summary \in [Expenses -> Summary]
    /\ isSkipped \in [Expenses -> BOOLEAN]
    /\ prev \in [Expenses -> States]
    /\ member \subseteq Expenses
    /\ status \in [Groups -> Status]
    /\ owner \in [Groups -> SUBSET Workers]

OutsideOK ==
    /\ fyle \in [Expenses -> States]
    /\ gone \subseteq Expenses
    /\ outages \in Nat /\ crashes \in Nat
    /\ abandoned \subseteq Groups

LocalsOK ==
    /\ script \in [Workers -> Seq(Op)]
    /\ at \in [Workers -> Places]
    /\ copy \in [Workers -> Partial(Summary)]
    /\ held \in [Workers -> SUBSET Expenses]

PostOK ==
    /\ count \in [Workers -> Nat] /\ off \in [Workers -> Nat]
    /\ batches \in [Workers -> Seq(Partial(States))]
    /\ due \in [Workers -> SUBSET Expenses]

TypeOK == DbOK /\ OutsideOK /\ LocalsOK /\ PostOK

Init ==
    /\ summary = [e \in Expenses |-> Empty]
    /\ isSkipped = [e \in Expenses |-> FALSE]
    /\ prev = [e \in Expenses |-> "NONE"]
    /\ member \in SUBSET Expenses
    /\ status = [g \in Groups |-> "ready"]
    /\ owner = [g \in Groups |-> {}]
    /\ fyle = [e \in Expenses |-> "NONE"]
    /\ gone = {} /\ outages = 0 /\ crashes = 0 /\ abandoned = {}
    /\ script = [w \in Workers |-> << >>]
    /\ at = [w \in Workers |-> "next"]
    /\ copy = [w \in Workers |-> NoCopy]
    /\ count = [w \in Workers |-> 0] /\ off = [w \in Workers |-> 0]
    /\ batches = [w \in Workers |-> << >>]
    /\ held = [w \in Workers |-> {}]
    /\ due = [w \in Workers |-> {}]
-----------------------------------------------------------------------------
(* Operations and scripts.                                                 *)

Members(g) == {e \in member : GroupOf[e] = g}
First(g)   == CHOOSE e \in Members(g) : \A x \in Members(g) : Id[e] <= Id[x]

\* a post without expense_ids covers the workspace, and so does one whose list is empty
PostAll == [do |-> "post", state |-> "NONE", group |-> NoGroup, ids |-> {},
            failed |-> FALSE, last |-> FALSE]
PostIds(E)        == [PostAll EXCEPT !.ids = E]
PostGroup(g)      == [PostAll EXCEPT !.group = g]
PostFailed(g)     == [PostGroup(g) EXCEPT !.failed = TRUE]
PostFailedIds(E)  == [PostIds(E) EXCEPT !.failed = TRUE]
Update(s, g)      == [PostAll EXCEPT !.do = "update", !.state = s, !.group = g]
UpdateIds(s, E)   == [PostAll EXCEPT !.do = "update", !.state = s, !.ids = E]
Outcome(g, last)  == [PostAll EXCEPT !.do = "outcome", !.group = g, !.last = last]
Skip(E)           == [PostAll EXCEPT !.do = "skip", !.ids = E]
Ungroup(E)        == [PostAll EXCEPT !.do = "ungroup", !.ids = E]

\* update_last_export_details, when the task is the last of its chain
Details(last) == IF last THEN <<PostAll>> ELSE << >>

\* what is left of create_bill, and of its wrapper, after the commit
Exported(g, last) ==
    Details(last) \o <<Update("COMPLETE", g), PostGroup(g), PostFailed(g)>> \o Details(last)

\* mutant: an except branch forgets update_failed_expenses
FailedSilently(g, last) == <<PostFailed(g)>> \o Details(last)

\* the except branches of handle_netsuite_exceptions; the one for a zeep
\* Fault does not call update_failed_expenses
Failed(g, last)  == <<Update("ERROR", g), PostFailed(g)>> \o Details(last)
Faulted(g, last) == <<PostFailed(g)>> \o Details(last)

\* the expenses an operation is about
Scope(op) == IF op.group # NoGroup THEN Members(op.group) ELSE op.ids

\* the expenses the query of a post matches
Matching(op) == {e \in Expenses :
    /\ ~summary[e].synced
    /\ op.ids # {} => e \in op.ids
    /\ op.failed => summary[e].state = "ERROR"}

\* the page of that query, ordered by id, from offset o
Rank(e, S)  == Cardinality({x \in S : Id[x] < Id[e]})
Page(op, o) == {e \in Matching(op) : Rank(e, Matching(op)) \in o..(o + PageSize - 1)}

Idle(w)  == script[w] = << >>
Now(w)   == Head(script[w])
Doing(w, what, where) == script[w] # << >> /\ Now(w).do = what /\ at[w] = where

Apart(E) == Overlap \/ \A w \in Workers : held[w] \cap E = {}

\* the worker goes on with the operations in ops
GoOn(w, ops) ==
    /\ script' = [script EXCEPT ![w] = ops]
    /\ at' = [at EXCEPT ![w] = "next"]
    /\ copy' = [copy EXCEPT ![w] = NoCopy]
    /\ held' = [held EXCEPT ![w] = IF ops = << >> THEN {} ELSE @]

\* a job begins: worker w has read the summaries of E and will write them
StartWriting(w, E, ops, all) ==
    /\ script' = [script EXCEPT ![w] = ops]
    /\ at' = [at EXCEPT ![w] = "write"]
    /\ copy' = [copy EXCEPT ![w] = [e \in E |-> summary[e]]]
    /\ held' = [held EXCEPT ![w] = all]
-----------------------------------------------------------------------------
(* Jobs.                                                                   *)

\* create_bill and its siblings up to the first update: an automatic run does
\* not announce a group whose last state Fyle knows is ERROR
StartExport(w, g, auto, last) ==
    /\ Idle(w) /\ status[g] \in {"ready", "failed"} /\ Members(g) # {}
    /\ LET E   == Members(g)
           all == IF last THEN Expenses ELSE E
       IN  /\ Apart(all)
           /\ IF auto /\ prev[First(g)] = "ERROR"
              THEN /\ script' = [script EXCEPT ![w] = <<Outcome(g, last)>>]
                   /\ held' = [held EXCEPT ![w] = all]
                   /\ UNCHANGED <<at, copy>>
              ELSE StartWriting(w, E, <<UpdateIds("IN_PROGRESS", E), PostIds(E), Outcome(g, last)>>, all)
    /\ status' = [status EXCEPT ![g] = "inflight"]
    /\ owner' = [owner EXCEPT ![g] = {w}]
    /\ UNCHANGED <<summary, isSkipped, prev, member, fyleVars, crashes, abandoned, postVars>>

\* handle_skipped_exports for a direct export: the group is not exported
StartSkippedExport(w, g, last) ==
    /\ Idle(w) /\ status[g] \in {"ready", "failed"} /\ Members(g) # {}
    /\ LET E   == {First(g)}
           all == IF last THEN Expenses ELSE Members(g)
       IN  /\ Apart(all)
           /\ StartWriting(w, E, <<UpdateIds("IN_PROGRESS", E), PostIds(E),
                                   Update("ERROR", g), PostFailed(g)>> \o Details(last), all)
    /\ UNCHANGED <<dbVars, fyleVars, crashes, abandoned, postVars>>

\* re_run_skip_export_rule, and the skips made while expenses are grouped
StartSkip(w, E) ==
    /\ Idle(w) /\ E # {} /\ Apart(E)
    /\ \A e \in E : ~isSkipped[e] /\ summary[e].state # "COMPLETE"
    /\ script' = [script EXCEPT ![w] = <<Skip(E)>>]
    /\ held' = [held EXCEPT ![w] = E]
    /\ UNCHANGED <<dbVars, fyleVars, crashes, abandoned, at, copy, postVars>>

\* a live worker has yet to end the export of the group
Running(g) == \E w \in Workers : \E i \in DOMAIN script[w] : script[w][i] = Outcome(g, TRUE)
                                                        \/ script[w][i] = Outcome(g, FALSE)

\* re_export_stuck_exports fails the rows still in flight of the groups G, whose
\* workers are dead: a live one ends within the hour (HourSuffices of Export);
\* the expenses were read before the update
StartStuckCheck(w, G) ==
    LET E == UNION {Members(g) : g \in G}
    IN  /\ Idle(w) /\ G # {} /\ E # {} /\ Apart(E)
        /\ \A g \in G : status[g] = "inflight" /\ ~Running(g)
        /\ status' = [g \in Groups |-> IF g \in G THEN "failed" ELSE status[g]]
        /\ StartWriting(w, E, <<UpdateIds("ERROR", E), PostFailedIds(E)>>, E)
        /\ UNCHANGED <<summary, isSkipped, prev, member, owner, fyleVars, crashes, abandoned, postVars>>

\* update_last_export_details on its own: export settings were saved
StartPostAll(w) ==
    /\ Idle(w) /\ Apart(Expenses)
    /\ script' = [script EXCEPT ![w] = <<PostAll>>]
    /\ held' = [held EXCEPT ![w] = Expenses]
    /\ UNCHANGED <<dbVars, fyleVars, crashes, abandoned, at, copy, postVars>>
-----------------------------------------------------------------------------
(* Updates.                                                                *)

Read(w) ==
    /\ Doing(w, "update", "next")
    /\ copy' = [copy EXCEPT ![w] = [e \in Scope(Now(w)) |-> summary[e]]]
    /\ at' = [at EXCEPT ![w] = "write"]
    /\ UNCHANGED <<dbVars, fyleVars, crashes, abandoned, script, held, postVars>>

\* mutant: the state of the copy is not looked at
WritableAll(w) == DOMAIN copy[w]

\* the copies an update writes
Writable(w) == {e \in DOMAIN copy[w] : copy[w][e].state # "DELETED"}

\* update_expenses_in_progress, update_failed_expenses, update_complete_expenses:
\* the Expense objects are new, so that is_skipped is written as FALSE
Write(w) ==
    /\ Doing(w, "update", "write")
    /\ summary' = [e \in Expenses |->
                     IF e \in Writable(w) THEN Unsynced(Now(w).state) ELSE summary[e]]
    /\ isSkipped' = [e \in Expenses |-> e \notin Writable(w) /\ isSkipped[e]]
    /\ abandoned' = abandoned \ {Now(w).group}
    /\ GoOn(w, Tail(script[w]))
    /\ UNCHANGED <<prev, member, status, owner, fyleVars, crashes, postVars>>

\* the query of mark_expenses_as_skipped; nothing follows when it finds nothing
ReadSkipped(w) ==
    /\ Doing(w, "skip", "next")
    /\ LET E == {e \in Now(w).ids : ~isSkipped[e]}
       IN  IF E = {} THEN GoOn(w, << >>)
           ELSE /\ copy' = [copy EXCEPT ![w] = [e \in E |-> summary[e]]]
                /\ at' = [at EXCEPT ![w] = "write"]
                /\ UNCHANGED <<script, held>>
    /\ UNCHANGED <<dbVars, fyleVars, crashes, abandoned, postVars>>

\* mutant: the skipped expenses stay in their groups
SkipRestKeepsGroups(E) == <<PostIds(E)>>

\* what follows when expenses E were marked
SkipRest(E) == <<Ungroup(E), PostIds(E)>>

WriteSkipped(w) ==
    /\ Doing(w, "skip", "write")
    /\ summary' = [e \in Expenses |->
                     IF e \in Writable(w) THEN Unsynced("SKIPPED") ELSE summary[e]]
    /\ isSkipped' = [e \in Expenses |-> e \in Writable(w) \/ isSkipped[e]]
    /\ GoOn(w, SkipRest(DOMAIN copy[w]))
    /\ UNCHANGED <<prev, member, status, owner, fyleVars, crashes, abandoned, postVars>>

\* groups without exported_at lose their row and the skipped expenses
Leave(w) ==
    /\ Doing(w, "ungroup", "next")
    /\ LET E == {e \in Now(w).ids : status[GroupOf[e]] # "complete"}
           G == {GroupOf[e] : e \in E \cap member}
       IN  /\ member' = member \ E
           /\ status' = [g \in Groups |-> IF g \in G THEN "ready" ELSE status[g]]
    /\ GoOn(w, Tail(script[w]))
    /\ UNCHANGED <<summary, isSkipped, prev, owner, fyleVars, crashes, abandoned, postVars>>
-----------------------------------------------------------------------------
(* The end of an export.                                                   *)

\* mutant: the row is saved although the group has another one
CanSaveOver(w, g) == Members(g) # {}

\* a row deleted meanwhile is inserted again by save(), unless its group is
\* gone or has another row
CanSave(w, g) == Members(g) # {} /\ owner[g] = {w}

Succeed(w) ==
    /\ Doing(w, "outcome", "next")
    /\ LET g == Now(w).group
       IN  /\ CanSave(w, g)
           /\ status' = [status EXCEPT ![g] = "complete"]
           /\ GoOn(w, Exported(g, Now(w).last))
    /\ UNCHANGED <<summary, isSkipped, prev, member, owner, fyleVars, crashes, abandoned, postVars>>

Fail(w) ==
    /\ Doing(w, "outcome", "next")
    /\ LET g == Now(w).group
       IN  /\ CanSave(w, g)
           /\ status' = [status EXCEPT ![g] = "failed"]
           /\ GoOn(w, Failed(g, Now(w).last))
    /\ UNCHANGED <<summary, isSkipped, prev, member, owner, fyleVars, crashes, abandoned, postVars>>

Fault(w) ==
    /\ Doing(w, "outcome", "next")
    /\ LET g == Now(w).group
       IN  /\ CanSave(w, g)
           /\ status' = [status EXCEPT ![g] = "failed"]
           /\ abandoned' = abandoned \cup {g}
           /\ GoOn(w, Faulted(g, Now(w).last))
    /\ UNCHANGED <<summary, isSkipped, prev, member, owner, fyleVars, crashes, postVars>>

\* the save fails, in the handler too, and the exception escapes
CannotSave(w) ==
    /\ Doing(w, "outcome", "next") /\ ~CanSave(w, Now(w).group)
    /\ GoOn(w, << >>)
    /\ UNCHANGED <<dbVars, fyleVars, crashes, abandoned, postVars>>
-----------------------------------------------------------------------------
(* post_accounting_export_summary.                                         *)

\* mutant: each page is posted before the next one is read
OnwardLazily(o, n, left) == IF left # << >> THEN "send" ELSE IF o < n THEN "page" ELSE "next"

\* what comes after a page or a batch: all pages are read before the first
\* batch is posted
Onward(o, n, left) == IF o < n THEN "page" ELSE IF left # << >> THEN "send" ELSE "next"

\* the worker's post goes on from offset o with the batches left
Continue(w, o, n, left) ==
    /\ batches' = [batches EXCEPT ![w] = left]
    /\ LET next == Onward(o, n, left)
       IN  IF next = "next"
           THEN /\ GoOn(w, Tail(script[w]))
                /\ off' = [off EXCEPT ![w] = 0] /\ count' = [count EXCEPT ![w] = 0]
           ELSE /\ at' = [at EXCEPT ![w] = next]
                /\ off' = [off EXCEPT ![w] = o] /\ count' = [count EXCEPT ![w] = n]
                /\ copy' = [copy EXCEPT ![w] = NoCopy]
                /\ UNCHANGED <<script, held>>

\* the ids are listed and the matching expenses counted
Count(w) ==
    /\ Doing(w, "post", "next")
    /\ LET op == [Now(w) EXCEPT !.ids = Scope(Now(w)), !.group = NoGroup]
           n  == Cardinality(Matching(op))
       IN  IF n = 0 THEN GoOn(w, Tail(script[w])) /\ UNCHANGED <<count, due>>
           ELSE /\ count' = [count EXCEPT ![w] = n]
                /\ due' = [due EXCEPT ![w] = Matching(op)]
                /\ script' = [script EXCEPT ![w] = <<op>> \o Tail(@)]
                /\ at' = [at EXCEPT ![w] = "page"]
                /\ UNCHANGED <<copy, held>>
    /\ UNCHANGED <<dbVars, fyleVars, crashes, abandoned, off, batches>>

\* one query per page; the states found are the payload
ReadPage(w) ==
    /\ Doing(w, "post", "page")
    /\ LET payload == [e \in Page(Now(w), off[w]) |-> summary[e].state]
           left    == IF Page(Now(w), off[w]) = {} THEN batches[w] ELSE Append(batches[w], payload)
       IN  Continue(w, off[w] + PageSize, count[w], left)
    /\ UNCHANGED <<dbVars, fyleVars, crashes, abandoned, due>>

Batch(w) == DOMAIN Head(batches[w])

\* Fyle takes the payload of the first batch
Told(w) == [e \in Expenses |-> IF e \in Batch(w) THEN Head(batches[w])[e] ELSE fyle[e]]

Accept(w) ==
    /\ Doing(w, "post", "send") /\ Batch(w) \cap gone = {}
    /\ fyle' = Told(w)
    /\ at' = [at EXCEPT ![w] = "mark"]
    /\ UNCHANGED <<dbVars, gone, outages, crashes, abandoned, script, copy, held, postVars>>

\* mutant: the batch is marked as synced after an outage too
OutageMarks(w) ==
    /\ Doing(w, "post", "send") /\ outages < MaxOutages
    /\ outages' = outages + 1
    /\ at' = [at EXCEPT ![w] = "mark"]
    /\ UNCHANGED <<dbVars, fyle, gone, crashes, abandoned, script, copy, held, postVars>>

\* three attempts end in InternalServerError; Fyle may have taken one of them
Outage(w) ==
    /\ Doing(w, "post", "send") /\ outages < MaxOutages
    /\ outages' = outages + 1
    /\ fyle' \in {fyle} \cup (IF Batch(w) \cap gone = {} THEN {Told(w)} ELSE {})
    /\ due' = [due EXCEPT ![w] = @ \ Batch(w)]
    /\ Continue(w, off[w], count[w], Tail(batches[w]))
    /\ UNCHANGED <<dbVars, gone, crashes, abandoned>>

\* Fyle refuses a batch for the expenses that are gone; they are looked up
Refuse(w) ==
    /\ Doing(w, "post", "send") /\ Batch(w) \cap gone # {}
    /\ copy' = [copy EXCEPT ![w] = [e \in Batch(w) \cap gone |-> summary[e]]]
    /\ at' = [at EXCEPT ![w] = "refused"]
    /\ UNCHANGED <<dbVars, fyleVars, crashes, abandoned, script, held, postVars>>

\* __handle_post_accounting_export_summary_exception
MarkDeleted(w) ==
    /\ Doing(w, "post", "refused")
    /\ summary' = [e \in Expenses |->
                     IF e \in DOMAIN copy[w] THEN Deleted ELSE summary[e]]
    /\ due' = [due EXCEPT ![w] = @ \ Batch(w)]
    /\ Continue(w, off[w], count[w], Tail(batches[w]))
    /\ UNCHANGED <<isSkipped, prev, member, status, owner, fyleVars, crashes, abandoned>>

\* get_batched_expenses reads the expenses again
ReadPosted(w) ==
    /\ Doing(w, "post", "mark")
    /\ copy' = [copy EXCEPT ![w] = [e \in Batch(w) |-> summary[e]]]
    /\ at' = [at EXCEPT ![w] = "marking"]
    /\ UNCHANGED <<dbVars, fyleVars, crashes, abandoned, script, held, postVars>>

\* mark_accounting_export_summary_as_synced
MarkSynced(w) ==
    /\ Doing(w, "post", "marking")
    /\ summary' = [e \in Expenses |->
                     IF e \in DOMAIN copy[w] THEN [copy[w][e] EXCEPT !.synced = TRUE]
                     ELSE summary[e]]
    /\ prev' = [e \in Expenses |-> IF e \in DOMAIN copy[w] THEN copy[w][e].state ELSE prev[e]]
    /\ due' = [due EXCEPT ![w] = @ \ Batch(w)]
    /\ Continue(w, off[w], count[w], Tail(batches[w]))
    /\ UNCHANGED <<isSkipped, member, status, owner, fyleVars, crashes, abandoned>>
-----------------------------------------------------------------------------
(* The world.                                                              *)

\* the user deletes an expense in Fyle
Vanish(e) ==
    /\ e \in CanVanish \ gone
    /\ gone' = gone \cup {e}
    /\ UNCHANGED <<dbVars, fyle, outages, crashes, abandoned, localVars, postVars>>

\* groups whose last update, or removal of skipped expenses, is yet to come
Unfinished(w) == {GroupOf[e] : e \in
    UNION {Scope(script[w][i]) : i \in {j \in DOMAIN script[w] :
              script[w][j].do \in {"update", "ungroup"}}}}

\* a worker dies; an export it had not committed stays in flight
Crash(w) ==
    /\ ~Idle(w) /\ crashes < MaxCrashes
    /\ crashes' = crashes + 1
    /\ abandoned' = abandoned \cup
         {g \in Unfinished(w) : status[g] # "inflight" \/ Now(w).do = "ungroup"}
    /\ GoOn(w, << >>)
    /\ count' = [count EXCEPT ![w] = 0] /\ off' = [off EXCEPT ![w] = 0]
    /\ batches' = [batches EXCEPT ![w] = << >>]
    /\ due' = [due EXCEPT ![w] = {}]
    /\ UNCHANGED <<dbVars, fyleVars>>

Start(w) ==
    \/ \E g \in Groups, auto \in BOOLEAN, last \in Lasts : StartExport(w, g, auto, last)
    \/ \E g \in Groups, last \in Lasts : StartSkippedExport(w, g, last)
    \/ \E E \in SUBSET Filtered : StartSkip(w, E)
    \/ \E G \in SUBSET Groups : StartStuckCheck(w, G)
    \/ StartPostAll(w)

Step(w) ==
    \/ Read(w) \/ Write(w)
    \/ ReadSkipped(w) \/ WriteSkipped(w) \/ Leave(w)
    \/ Succeed(w) \/ Fail(w) \/ Fault(w) \/ CannotSave(w)
    \/ Count(w) \/ ReadPage(w)
    \/ Accept(w) \/ Outage(w) \/ Refuse(w) \/ MarkDeleted(w)
    \/ ReadPosted(w) \/ MarkSynced(w)

Next ==
    \/ \E w \in Workers : Start(w) \/ Step(w) \/ Crash(w)
    \/ \E e \in CanVanish : Vanish(e)

Spec == Init /\ [][Next]_vars

\* a worker that lives goes on with its job
FairSpec == Spec /\ \A w \in Workers : WF_vars(Step(w))
-----------------------------------------------------------------------------
(* Properties.                                                             *)

\* Fyle holds what a synced summary says, and so does previous_export_state,
\* unless the expense is deleted: nothing unsynced hides behind the flag that
\* post_accounting_export_summary filters by.
SyncedIsPosted ==
    \A e \in Expenses :
        summary[e].synced /\ summary[e].state \notin {"NONE", "DELETED"} =>
            fyle[e] = summary[e].state /\ prev[e] = summary[e].state

\* Neither the user (summary) nor Fyle is told COMPLETE of an expense whose
\* group is not exported, whatever the workers do at the same time.
CompleteMeansExported ==
    \A e \in Expenses :
        "COMPLETE" \in {summary[e].state, fyle[e], prev[e]} => status[GroupOf[e]] = "complete"

\* Once no job handles a group, the summaries of its expenses tell how its
\* export ended, unless a worker was cut short before its last update.
SummaryTellsStatus ==
    \A e \in member :
        \/ GroupOf[e] \in abandoned \/ summary[e].state = "DELETED"
        \/ \E w \in Workers : e \in held[w]
        \/ /\ status[GroupOf[e]] = "complete" => summary[e].state = "COMPLETE"
           /\ status[GroupOf[e]] = "failed" => summary[e].state = "ERROR"

\* A post that ends has dealt with every expense it counted: its pages miss none.
NothingMissed == \A w \in Workers : at[w] = "next" => due[w] = {}

\* DELETED is final: no update of a later export revives the expense.
DeletedIsFinal ==
    [][\A e \in Expenses : summary[e].state = "DELETED" => summary'[e].state = "DELETED"]_vars

\* A skipped expense stays skipped, although every update writes
\* is_skipped = FALSE, unless a worker died before it left its group.
SkipIsFinal ==
    [][\A e \in Expenses : isSkipped[e] /\ GroupOf[e] \notin abandoned => isSkipped'[e]]_vars

\* While posts of the whole workspace keep coming, every summary that is not
\* synced is synced in the end: an outage, a crash or a batch refused for a
\* deleted expense delays it only.
EventuallySynced ==
    ([]<> \E w \in Workers : ~Idle(w) /\ Now(w) = PostAll) =>
        \A e \in Expenses : ~summary[e].synced ~> summary[e].synced
=============================================================================
