----------------------------- MODULE MCProgress -----------------------------
(***************************************************************************)
(* What must happen in the end, for six components in one instance.  They  *)
(* stand side by side: a behaviour chooses one of them and moves only its  *)
(* variables, so each property is that of its own module.  The fairness of *)
(* the modules is merged, one conjunct for each kind of process.           *)
(***************************************************************************)
EXTENDS Naturals, TLC

CONSTANTS g1, g2, w1, w2, e1, e2, NoGroup, b1, b2, r1, v1, h1, h2, a1, none

VARIABLES
    part,  \* the component that moves
    \* Export
    config, taskLog, exported, objs, netsuite, queue, mappingErr, clearing, syncing, nextId,
    requests, faults, changes, disturbed, pc, job, seen, fund, todo, chain, stale, copy,
    \* ExportSummary
    summary, isSkipped, prev, member, status, owner, fyle, gone, outages, crashes, abandoned,
    script, at, copies, count, off, batches, held, due,
    \* Payments
    fylePaid, bills, payments, bill, expense, row, lines, attempts, ran, payer, extra, losses,
    \* MappingErrors
    uses, mapped, error, failed, handler,
    \* FeatureCache
    flag, cache, step, value,
    \* DimensionSync
    type, conf, remote, local, sync, clock, fails, clean

\* A request with groups of both fund sources, and one fault.
Exports == INSTANCE Export WITH
    Groups <- {g1, g2}, Workers <- {w1}, Types <- {"BILL"}, NoType <- "NULL",
    FundOf <- g1 :> "PERSONAL" @@ g2 :> "CCC",
    Settings <- [{"PERSONAL", "CCC"} -> {"BILL"}], HourSuffices <- TRUE,
    MaxRequests <- 1, MaxFaults <- 1, MaxChanges <- 0

\* Two expenses of one group, one of them deleted in Fyle, with an outage and a crash.
Summaries == INSTANCE ExportSummary WITH
    Expenses <- {e1, e2}, Groups <- {g1}, GroupOf <- e1 :> g1 @@ e2 :> g1,
    Id <- e1 :> 1 @@ e2 :> 2, Workers <- {w1}, PageSize <- 1, Overlap <- FALSE,
    Lasts <- {TRUE}, Filtered <- {}, CanVanish <- {e1}, MaxOutages <- 1, MaxCrashes <- 1,
    copy <- copies

\* Two bills of one vendor and one report, which Fyle refuses to mark.
Pays == INSTANCE Payments WITH
    Bills <- {b1, b2}, Report <- b1 :> r1 @@ b2 :> r1, Entity <- b1 :> v1 @@ b2 :> v1,
    Refusing <- {r1}, Procs <- {h1}, Week <- 1, Month <- 1, Retries <- 1,
    Users <- FALSE, MaxExtra <- 0, MaxFaults <- 1,
    netsuite <- bills, proc <- payer, faults <- losses

\* Two groups that miss the mapping of one employee, and two workers.
Mappings == INSTANCE MappingErrors WITH
    Groups <- {g1, g2}, Attrs <- {a1}, Workers <- {h1, h2},
    Wide <- FALSE, Overlap <- TRUE, Rules <- TRUE, Shrinks <- TRUE, proc <- handler

Cached == INSTANCE FeatureCache WITH Workers <- {h1, h2}, None <- none

\* Records that are read as a whole, and employees, with one failing sync.
Dims == INSTANCE DimensionSync WITH
    Types <- {"account", "location", "employee"}, Ids <- {1, 2},
    Names <- {"a"}, Foreign <- {2}, Limit <- 1, Slack <- 2, MaxTime <- 2, MaxFails <- 1

eVars ==
    <<config, taskLog, exported, objs, netsuite, queue, mappingErr, clearing,
      syncing, nextId, requests, faults, changes, disturbed, pc, job, seen, fund,
      todo, chain, stale, copy>>
sVars ==
    <<summary, isSkipped, prev, member, status, owner, fyle, gone, outages, crashes,
      abandoned, script, at, copies, count, off, batches, held, due>>
pVars ==
    <<fylePaid, bills, payments, bill, expense, row, lines, attempts, ran, payer,
      extra, losses>>
mVars ==
    <<uses, mapped, error, failed, handler>>
cVars ==
    <<flag, cache, step, value>>
dVars ==
    <<type, conf, remote, local, sync, clock, fails, clean>>
vars  == <<part, eVars, sVars, pVars, mVars, cVars, dVars>>
-----------------------------------------------------------------------------
\* a component that rests is in one of its initial states
Init ==
    /\ part \in {"exports", "summaries", "payments", "mappings", "flag", "dimensions"}
    /\ Exports!Init /\ Summaries!Init /\ Pays!Init /\ Mappings!Init /\ Cached!Init /\ Dims!Init
    /\ part # "summaries" => member = {}
    /\ part # "dimensions" =>
          /\ type = "account" /\ ~conf.old
          /\ \A i \in {1, 2} : remote[i].state = "active"

Export(A)  == part = "exports"    /\ A /\ UNCHANGED <<part, sVars, pVars, mVars, cVars, dVars>>
Summary(A) == part = "summaries"  /\ A /\ UNCHANGED <<part, eVars, pVars, mVars, cVars, dVars>>
Pay(A)     == part = "payments"   /\ A /\ UNCHANGED <<part, eVars, sVars, mVars, cVars, dVars>>
Mapping(A) == part = "mappings"   /\ A /\ UNCHANGED <<part, eVars, sVars, pVars, cVars, dVars>>
Flag(A)    == part = "flag"       /\ A /\ UNCHANGED <<part, eVars, sVars, pVars, mVars, dVars>>
Dim(A)     == part = "dimensions" /\ A /\ UNCHANGED <<part, eVars, sVars, pVars, mVars, cVars>>

Next ==
    \/ Export(Exports!Next) \/ Summary(Summaries!Next) \/ Pay(Pays!Next)
    \/ Mapping(Mappings!Next) \/ Flag(Cached!Next) \/ Dim(Dims!Next)

\* schedules, and what becomes due with time
Schedules ==
    \/ Export(Exports!StuckRead(w1)) \/ Pay(Pays!Day) \/ Mapping(Mappings!ResolveJob)
    \/ Flag(Cached!Expire) \/ Dim(Dims!Begin)

\* a worker goes on with its work
Works ==
    \/ Export(Exports!Work(w1)) \/ Summary(Summaries!Step(w1)) \/ Pay(Pays!Proceed(h1))
    \/ Mapping(Mappings!Validation(h1) \/ Mappings!Handler(h1))
    \/ Flag(Cached!Proceed(h1)) \/ Dim(Dims!Proceed)

\* messages are delivered, and a second worker goes on
Others ==
    \/ Export(Exports!Deliver(w1))
    \/ Mapping(Mappings!Validation(h2) \/ Mappings!Handler(h2))
    \/ Flag(Cached!Proceed(h2))

Spec == Init /\ [][Next]_vars /\ WF_vars(Schedules) /\ WF_vars(Works) /\ WF_vars(Others)
-----------------------------------------------------------------------------
\* A published request is answered for each of its groups: exported, failed with
\* a row that says so, left out for a missing mapping, or given up as stuck, with at
\* most one crash or escaped exception (the consumer retries once).
RequestIsAnswered ==
    \A g \in {g1, g2} : (\E m \in queue : g \in m.ids) ~> Exports!Answered(g)

\* While posts of the whole workspace keep coming, every summary that is not synced is
\* synced in the end: an outage, a crash or a batch refused for a deleted expense
\* delays it only.
EventuallySynced == Summaries!EventuallySynced

\* A bill of a report paid in Fyle is paid, or given up after two months.
PaymentSettles == Pays!PaymentSettles

\* The daily job frees a group that a stale save has left in an error of a mapped employee.
Unblocks == Mappings!Unblocks

\* Once an export has committed the flag, exports stop being sent with gross amounts: a
\* worker that has read the old flag may yet put it in the cache, but not for good.
FlagTakesOver == Cached!FlagTakesOver

\* Whatever failed, once users stop changing records the daily sync brings those that are
\* read as a whole in step, unless there are too many or none is left to read.
Caught == <>[](part = "dimensions" => Dims!AllInStep)
=============================================================================
