----------------------------- MODULE DimensionSync -----------------------------
(***************************************************************************)
(* The copy of one kind of NetSuite records that a workspace keeps: how    *)
(* each sync_<dimension> of the connector reads them page by page and what *)
(* it stores, while users change NetSuite, syncs fail half-way and vendors *)
(* are created from exports.                                               *)
(*                                                                         *)
(* A record is one of Ids, its name one of Names.  A stored row keeps its  *)
(* number, to which mappings point; bulk_create_or_update of the mappings  *)
(* library updates the row of an id or adds one, and touches a row only    *)
(* when it changes.  Times count the events.                               *)
(***************************************************************************)
EXTENDS Naturals, Sequences, FiniteSets, FiniteSetsExt, Functions

CONSTANTS
    Types,    \* kinds of records
    Ids,      \* internal ids
    Names,    \* names of records
    Foreign,  \* ids of records of another subsidiary
    Limit,    \* SYNC_UPPER_LIMIT
    Slack,    \* 30 days, in events
    MaxTime,  \* bound on changes in NetSuite and creations
    MaxFails  \* bound on failing syncs

VARIABLES
    type,    \* the kind of records
    conf,    \* settings of the workspace
    remote,  \* the records in NetSuite
    local,   \* destination_attributes, by id
    sync,    \* the running sync
    clock,   \* events so far
    fails,   \* failed syncs so far
    clean    \* nothing was missed: no sync failed or was overtaken, no row came from elsewhere

vars == <<type, conf, remote, local, sync, clock, fails, clean>>

PerPage     == {"account", "expense_category", "project"}  \* stored ids are read per page
Growing     == {"location", "class", "department"}         \* pages add to one list
Incremental == {"vendor", "customer"}                      \* changes since the last row
Whole       == {"custom_list", "custom_segment", "custom_record"}
Plain       == {"currency", "subsidiary"}
Timed       == Incremental \cup {"employee"}

\* the syncs that leave out records of other subsidiaries
Located == {"location", "vendor", "employee"}
Ours(i) == type \in Located => i \notin Foreign \/ (type = "vendor" /\ conf.intercompany)

States == {"absent", "active", "inactive"}
NoRow  == [state |-> "absent", name |-> CHOOSE n \in Names : TRUE, at |-> 0, row |-> 0]
Idle   == [at |-> "off", pages |-> << >>, known |-> {}, got |-> << >>, held |-> << >>,
           count |-> 0]

TypeOK ==
    /\ type \in Types
    /\ conf \in [items: BOOLEAN, intercompany: BOOLEAN, old: BOOLEAN]
    /\ remote \in [Ids -> [state: States, name: Names, at: Nat]]
    /\ local \in [Ids -> [state: States, name: Names, at: Nat, row: 0..Cardinality(Ids)]]
    /\ IsInjective([i \in {j \in Ids : local[j].row # 0} |-> local[i].row])  \* a row has one id
    /\ sync.at \in {"off", "on", "read", "done"} /\ sync.known \subseteq Ids
    /\ clock \in Nat /\ fails \in 0..MaxFails /\ clean \in BOOLEAN

Here(i)   == remote[i].state # "absent"
Stored(i) == local[i].state # "absent"
Rows      == {i \in Ids : Stored(i)}
InUse     == {i \in Ids : Here(i)}
-----------------------------------------------------------------------------
(* What NetSuite is asked for.                                             *)
Watermark == Max({local[i].at : i \in Rows})

\* mutant: employees are asked for since the last row
SinceLast(i) == Rows # {} => remote[i].at > Watermark
Since(i) ==
    Rows # {} => IF type = "employee" THEN remote[i].at + Slack >= Watermark
                 ELSE remote[i].at > Watermark

Asked ==
    CASE type \in Incremental ->
            {i \in InUse : Since(i) /\ (Rows = {} => remote[i].state = "active")}
      [] type = "employee" -> {i \in InUse : Since(i)}
      [] OTHER -> InUse

\* custom fields and currencies come as one list
Pages(S) ==
    IF type \in Whole \cup {"currency"} THEN {<<S>>}
    ELSE IF S = {} THEN {<< >>}
    ELSE {<<S>>} \cup {<<A, S \ A>> : A \in (SUBSET S) \ {{}, S}}

\* is_sync_allowed
Unlimited == Whole \cup Plain
TooMany   == type \notin Unlimited /\ Cardinality(InUse) > Limit /\ ~conf.old
-----------------------------------------------------------------------------
(* What is stored.  An attribute is [state, name].                         *)
Attribute(r) == [state |-> r.state, name |-> r.name]
Taken(page)  == {i \in DOMAIN page : Ours(i)}

\* a row that is not listed becomes inactive
Missing(i) == [state |-> "inactive", name |-> local[i].name]

\* inactive records are only taken when they are stored
\* mutant: they are never taken
ListedActive(page, known) ==
    [i \in {j \in Taken(page) : page[j].state = "active"} |-> Attribute(page[i])]
Listed(page, known) ==
    [i \in {j \in Taken(page) : page[j].state = "active" \/ j \in known} |-> Attribute(page[i])]

\* an item that is active is stored as active when items are imported
Items(page) ==
    LET active == {i \in DOMAIN page : page[i].state = "active"}
    IN  [i \in active \cup Rows |->
            IF i \notin active THEN Missing(i)
            ELSE [state |-> IF conf.items THEN "active" ELSE "inactive", name |-> page[i].name]]

PageAndMissing(page) ==
    [i \in DOMAIN page \cup Rows |->
        IF i \in DOMAIN page THEN Attribute(page[i]) ELSE Missing(i)]

Attributes(page) ==
    CASE type \in PerPage       -> Listed(page, Rows)
      [] type \in Growing       -> Listed(page, sync.known)
      [] type \in Timed         -> [i \in Taken(page) |-> Attribute(page[i])]
      [] type = "item"          -> Items(page)
      [] type = "custom_record" -> [i \in DOMAIN page |-> Attribute(page[i])]
      [] type \in {"custom_list", "custom_segment"} -> PageAndMissing(page)
      [] type = "tax_item"      -> ListedActive(page, {})
      [] type \in Plain         -> [i \in DOMAIN page |-> [state |-> "active", name |-> page[i].name]]

\* bulk_create_or_update_destination_attributes
Stamp == IF type \in Timed THEN clock + 1 ELSE 0
Upsert(rows, attributes) ==
    LET fresh == {i \in DOMAIN attributes : rows[i].state = "absent"}
        used  == Cardinality({i \in Ids : rows[i].state # "absent"})
        num   == CHOOSE f \in [fresh -> used + 1..used + Cardinality(fresh)] :
                     \A i, j \in fresh : f[i] = f[j] => i = j
    IN  [i \in Ids |->
            IF i \notin DOMAIN attributes \/ Attribute(rows[i]) = attributes[i] THEN rows[i]
            ELSE [state |-> attributes[i].state, name |-> attributes[i].name, at |-> Stamp,
                  row |-> IF i \in fresh THEN num[i] ELSE rows[i].row]]

(* Custom records: ids change in NetSuite, so rows whose name has another  *)
(* id by now get that id first.                                            *)
NewId(page, i) ==
    LET same == {j \in DOMAIN page : page[j].name = local[i].name}
    IN  IF Stored(i) /\ same # {} THEN CHOOSE j \in same : TRUE ELSE i
Moved(page) == {i \in Rows : NewId(page, i) # i}

\* another row has the id, which is unique
Occupied(page) == \E i \in Moved(page) : NewId(page, i) \in Rows \ Moved(page)

\* mutants: rows keep their ids; a row is added for the new id and the old one stays
KeepIds(page) == local
CopyOver(page) ==
    [j \in Ids |->
        LET to == {i \in Moved(page) : NewId(page, i) = j}
        IN  IF to # {} THEN local[CHOOSE i \in to : TRUE] ELSE local[j]]
Renumbered(page) ==
    [j \in Ids |->
        LET to == {i \in Moved(page) : NewId(page, i) = j}
        IN  IF to # {} THEN local[CHOOSE i \in to : TRUE]
            ELSE IF j \in Moved(page) THEN NoRow ELSE local[j]]

\* a record that is gone: the lookup of its value raises a TypeError, so that what is
\* stored is never more than the page
Gone(page) == \E i \in Ids \ DOMAIN page : Renumbered(page)[i].state # "absent"
-----------------------------------------------------------------------------
Init ==
    /\ type \in Types
    /\ conf \in [items: BOOLEAN, intercompany: BOOLEAN, old: BOOLEAN]
    /\ conf.items => type = "item"
    /\ conf.intercompany => type = "vendor"
    /\ remote \in {r \in [Ids -> [state: {"active", "inactive"}, name: Names, at: {0}]] :
                      type \in Whole => IsInjective([i \in Ids |-> r[i].name])}
    /\ local = [i \in Ids |-> NoRow]
    /\ sync = Idle
    /\ clock = 0 /\ fails = 0 /\ clean = TRUE

\* users change a record; names within a custom list are unique
Change(i) ==
    /\ clock < MaxTime
    /\ clock' = clock + 1
    /\ \E s \in States, n \in Names :
          /\ [state |-> s, name |-> n] # Attribute(remote[i])
          /\ s = "absent" => n = remote[i].name
          /\ type \in Whole => \A j \in Ids \ {i} : remote[j].name # n
          /\ remote' = [remote EXCEPT ![i] = [state |-> s, name |-> n, at |-> clock']]
    /\ clean' = (clean /\ sync.at \in {"off", "done"})
    /\ sync' = [sync EXCEPT !.at = IF @ = "done" THEN "off" ELSE @]
    /\ UNCHANGED <<type, conf, local, fails>>

\* "sometimes custom_attributes internal_id change due to some reason"
Renumber(i, j) ==
    /\ type = "custom_record" /\ clock < MaxTime /\ i # j
    /\ clock' = clock + 1
    /\ remote' = [remote EXCEPT ![i] = remote[j], ![j] = remote[i]]
    /\ clean' = (clean /\ sync.at \in {"off", "done"})
    /\ sync' = [sync EXCEPT !.at = IF @ = "done" THEN "off" ELSE @]
    /\ UNCHANGED <<type, conf, local, fails>>

\* get_or_create_vendor, get_or_create_employee: the row is stored at once
Direct(i) ==
    /\ type \in {"vendor", "employee"} /\ clock < MaxTime
    /\ remote[i].state # "inactive"
    /\ clock' = clock + 1
    /\ remote' = [remote EXCEPT ![i] =
                     IF Here(i) THEN @ ELSE [state |-> "active", name |-> @.name, at |-> clock']]
    /\ local' = Upsert(local, [k \in {i} |-> Attribute(remote'[i])])
    /\ clean' = FALSE
    /\ UNCHANGED <<type, conf, sync, fails>>

\* this sync asks for all that may have been missed
Afresh == type \notin Timed \/ (type = "employee" /\ clock <= Slack)

\* a sync of a new workspace over the limit ends before it asks for anything
Begin ==
    /\ sync.at \in {"off", "done"} /\ ~TooMany
    /\ \E pages \in Pages(Asked) :
          sync' = [Idle EXCEPT !.at = "on", !.pages = pages, !.known = Rows, !.count = Len(pages)]
    /\ clean' = (clean \/ Afresh)
    /\ UNCHANGED <<type, conf, remote, local, clock, fails>>

\* the next page; a growing list keeps the pages before
Fetch ==
    /\ sync.at = "on" /\ sync.pages # << >>
    /\ LET found == Head(sync.pages) \cap InUse
           kept  == IF type \in Growing THEN DOMAIN sync.held ELSE {}
       IN  sync' = [sync EXCEPT !.at = "read", !.pages = Tail(@),
                        !.got  = [i \in found |-> remote[i]],
                        !.held = [i \in found \cup kept |->
                                     IF i \in found THEN remote[i] ELSE @[i]]]
    /\ UNCHANGED <<type, conf, remote, local, clock, fails, clean>>

Raises ==
    \/ type \in Whole /\ DOMAIN sync.got = {}
    \/ type = "custom_record" /\ (Occupied(sync.got) \/ Gone(sync.got))

Write ==
    /\ sync.at = "read" /\ ~Raises
    /\ local' = Upsert(IF type = "custom_record" THEN Renumbered(sync.got) ELSE local,
                       Attributes(sync.held))
    /\ clock' = IF local' # local /\ type \in Timed THEN clock + 1 ELSE clock
    /\ sync' = [sync EXCEPT !.at = "on", !.got = << >>]
    /\ UNCHANGED <<type, conf, remote, fails, clean>>

\* the loop over dimensions goes on; rows that have new ids keep them
Raise ==
    /\ sync.at = "read" /\ Raises
    /\ local' = IF DOMAIN sync.got # {} /\ ~Occupied(sync.got) THEN Renumbered(sync.got) ELSE local
    /\ sync' = Idle
    /\ clean' = FALSE
    /\ UNCHANGED <<type, conf, remote, clock, fails>>

Fail ==
    /\ sync.at \in {"on", "read"} /\ fails < MaxFails
    /\ fails' = fails + 1
    /\ sync' = Idle
    /\ clean' = FALSE
    /\ UNCHANGED <<type, conf, remote, local, clock>>

End ==
    /\ sync.at = "on" /\ sync.pages = << >>
    /\ sync' = [sync EXCEPT !.at = "done", !.held = << >>, !.known = {}]
    /\ UNCHANGED <<type, conf, remote, local, clock, fails, clean>>

Next ==
    \/ \E i \in Ids : Change(i) \/ Direct(i)
    \/ \E i, j \in Ids : Renumber(i, j)
    \/ Begin \/ Fetch \/ Write \/ Raise \/ Fail \/ End

Spec == Init /\ [][Next]_vars

\* imports run daily, and a sync that has begun goes on
Proceed  == Fetch \/ Write \/ End
Fairness == WF_vars(Begin) /\ WF_vars(Proceed)
LiveSpec == Spec /\ Fairness
-----------------------------------------------------------------------------
Same(i)   == local[i].state = "active" /\ local[i].name = remote[i].name
Closed(i) == local[i].state # "active"
Drops     == (Whole \ {"custom_record"}) \cup {"item"}  \* syncs that notice deletions

\* The row of id i says what NetSuite says; currencies, subsidiaries and tax items are
\* never closed, and items are all inactive unless they are imported.
InStep(i) ==
    CASE remote[i].state = "active"   -> Same(i) \/ (type = "item" /\ ~conf.items /\ Closed(i))
      [] remote[i].state = "inactive" -> Closed(i) \/ type \in Plain \cup {"tax_item"}
      [] remote[i].state = "absent"   -> type \in Drops => Closed(i)

\* At the end of a sync that nothing disturbed the workspace has what NetSuite has: for
\* the kinds of records that are read as a whole this is so whatever happened before,
\* for employees within 30 days, for vendors and customers as long as no sync before
\* failed or was overtaken by a change, and no vendor came from an export.  Items need
\* to fit on one page.
SyncedInStep ==
    sync.at = "done" /\ clean /\ (type = "item" => sync.count = 1) =>
        \A i \in Ids : Ours(i) => InStep(i)

\* A mapping points to a row.  When the ids of custom records move, its row stays and
\* keeps its name as long as NetSuite has a record of that name.
KeepsNames ==
    type = "custom_record" /\ sync.at = "read" =>
        \A i \in Rows : \E j \in Ids :
            /\ local'[j].row = local[i].row
            /\ (\E k \in DOMAIN sync.got : sync.got[k].name = local[i].name)
                  => local'[j].name = local[i].name

NamesKept == [][KeepsNames]_vars

\* Whatever failed, once users stop changing records the daily sync brings those that are
\* read as a whole in step, unless there are too many or none is left to read.
AllInStep ==
    type \in PerPage \cup Growing \cup {"employee", "custom_list", "custom_segment"} =>
        TooMany \/ InUse = {} \/ \A i \in Ids : Ours(i) => InStep(i)

Caught == <>[]AllInStep
=============================================================================
