------------------------------ MODULE Payments ------------------------------
(***************************************************************************)
(* Payments in both directions.  run_create_vendor_payment pays bills in   *)
(* NetSuite whose reports are paid in Fyle, one vendor payment for all     *)
(* bills of a vendor, and gives up on it after two months.                 *)
(* run_check_netsuite_object_status reads which bills are paid in          *)
(* NetSuite, and run_process_reimbursements marks reports as paid in Fyle  *)
(* when all their bills are.                                               *)
(*                                                                         *)
(* Each bill stands for one expense group with one expense; bills and      *)
(* expense reports are treated alike.  A step is a statement or a call.    *)
(***************************************************************************)
EXTENDS Naturals, FiniteSets

CONSTANTS
    Bills,      \* exported personal bills
    Report,     \* report of each bill
    Entity,     \* vendor of each bill
    Refusing,   \* reports Fyle refuses to mark as paid
    Procs,      \* processes that take the messages
    Week, Month,  \* in days
    Retries,    \* retry_num of mark_paid_on_fyle
    Users,      \* TRUE: people pay and delete bills in NetSuite
    MaxExtra,   \* bound on runs beside the daily ones
    MaxFaults   \* bound on crashes and lost answers

Reports == {Report[b] : b \in Bills}
Old     == 2 * Month + 1      \* ages are not counted further

PaymentsAssumption ==
    /\ Week \in Nat \ {0} /\ Month \in Nat \ {0} /\ Retries \in Nat
    /\ IsFiniteSet(Procs) /\ MaxExtra \in Nat /\ MaxFaults \in Nat

\* one attempt a week before the first month is over, one each at one and at two
\* months, where the comparisons are strict, and repeated runs on those days
Most == (Month - 1) \div Week + 3 + MaxExtra

VARIABLES
    fylePaid,  \* reports that are PAID in Fyle
    netsuite,  \* state of each bill in NetSuite
    payments,  \* vendor payments NetSuite applied to each bill
    bill,      \* payment_synced, paid_on_netsuite and is_retired
    expense,   \* paid_on_netsuite and paid_on_fyle
    row,       \* TaskLog of the payment whose unique_id has this bill
    lines,     \* bills with a committed VendorPaymentLineitem
    attempts,  \* history: payments tried with this bill in the unique_id, up to Most + 1
    ran,       \* jobs that have run today
    proc, extra, faults

db   == <<bill, expense, row, lines>>
vars == <<fylePaid, netsuite, payments, db, attempts, ran, proc, extra, faults>>

Payment == [first: Bills, with: SUBSET Bills]
Row     == [made: BOOLEAN, created: 0..Old, updated: 0..Old]
NoRow   == [made |-> FALSE, created |-> 0, updated |-> 0]
Job     == {"pay", "status", "mark"}
Bill    == [synced: BOOLEAN, paid: BOOLEAN, retired: BOOLEAN]
Expense == [netsuite: BOOLEAN, fyle: BOOLEAN]

\* a process: idle, in a run of payments (with the payment in hand when it is
\* in its transaction), of status checks, or of marking reports
Idle == [pc |-> "idle"]
Proc ==
    {Idle}
      \cup [pc: {"pay"}, todo: SUBSET Payment]
      \cup [pc: {"lines", "open", "applied"}, todo: SUBSET Payment, in: Payment]
      \cup [pc: {"status"}, todo: SUBSET Bills, copy: [Bills -> Bill]]
      \cup [pc: {"mark", "marked"}, reports: SUBSET Reports, retry: 0..Retries]

TypeOK ==
    /\ fylePaid \subseteq Reports
    /\ netsuite \in [Bills -> {"open", "paid", "deleted"}]
    /\ payments \in [Bills -> Nat]
    /\ bill \in [Bills -> Bill]
    /\ expense \in [Bills -> Expense]
    /\ row \in [Bills -> Row] /\ \A b \in Bills : row[b].updated <= row[b].created
    /\ lines \subseteq Bills
    /\ attempts \in [Bills -> 0..Most + 1]
    /\ ran \subseteq Job
    /\ proc \in [Procs -> Proc]
    /\ extra \in 0..MaxExtra /\ faults \in 0..MaxFaults

Init ==
    /\ fylePaid = {}
    /\ netsuite = [b \in Bills |-> "open"]
    /\ payments = [b \in Bills |-> 0]
    /\ bill = [b \in Bills |-> [synced |-> FALSE, paid |-> FALSE, retired |-> FALSE]]
    /\ expense = [b \in Bills |-> [netsuite |-> FALSE, fyle |-> FALSE]]
    /\ row = [b \in Bills |-> NoRow]
    /\ lines = {}
    /\ attempts = [b \in Bills |-> 0]
    /\ ran = {}
    /\ proc = [h \in Procs |-> Idle]
    /\ extra = 0 /\ faults = 0
-----------------------------------------------------------------------------
Set(h, r)     == proc' = [proc EXCEPT ![h] = r]
Left(h, left) == Set(h, IF left = {} THEN Idle ELSE [pc |-> "pay", todo |-> left])
AllIdle   == \A h \in Procs : proc[h].pc = "idle"

\* the day's run of a schedule, or an extra message
Begins(h, job) ==
    /\ proc[h].pc = "idle"
    /\ ran' = ran \cup {job}
    /\ IF job \in ran THEN extra < MaxExtra /\ extra' = extra + 1 ELSE UNCHANGED extra

\* a row of payments, a day later
Older(n) == IF n = Old THEN n ELSE n + 1
Aged(r)  == IF r.made THEN [r EXCEPT !.created = Older(@), !.updated = Older(@)] ELSE r

Day ==
    /\ AllIdle /\ ran = Job
    /\ ran' = {}
    /\ row' = [b \in Bills |-> Aged(row[b])]
    /\ UNCHANGED <<fylePaid, netsuite, payments, bill, expense, lines, attempts, proc, extra, faults>>

\* people: a report is paid in Fyle, a bill is paid or deleted in NetSuite
PayReport(r) ==
    /\ AllIdle /\ r \notin fylePaid /\ fylePaid' = fylePaid \cup {r}
    /\ UNCHANGED <<netsuite, payments, db, attempts, ran, proc, extra, faults>>

Treat(b, how) ==
    /\ Users /\ AllIdle /\ netsuite[b] = "open"
    /\ netsuite' = [netsuite EXCEPT ![b] = how]
    /\ payments' = [payments EXCEPT ![b] = IF how = "paid" THEN 1 ELSE 0]
    /\ UNCHANGED <<fylePaid, db, attempts, ran, proc, extra, faults>>
-----------------------------------------------------------------------------
(* run_create_vendor_payment.                                              *)

Unpaid == {b \in Bills : ~bill[b].synced /\ ~bill[b].retired}

\* check_expenses_reimbursement_status
Reimbursed(b) == expense[b].fyle \/ Report[b] \in fylePaid

\* mutant: the bill is not looked up in NetSuite
PayableUnseen(b) == Reimbursed(b)

\* create_netsuite_payment_objects
Payable(b) == netsuite[b] = "open" /\ Reimbursed(b)

\* one payment a vendor; the query has no order, so any bill may come first
StartPayments(h) ==
    LET E(v) == {b \in Unpaid : Payable(b) /\ Entity[b] = v}
        vendors == {Entity[b] : b \in {b \in Unpaid : Payable(b)}}
    IN
    /\ Begins(h, "pay")
    /\ expense' = [b \in Bills |->
          IF \E c \in Unpaid : Report[c] = Report[b] /\ Report[c] \in fylePaid
          THEN [expense[b] EXCEPT !.fyle = TRUE] ELSE expense[b]]
    /\ \E first \in [vendors -> Bills] :
          /\ \A v \in vendors : first[v] \in E(v)
          /\ Left(h, {[first |-> first[v], with |-> E(v)] : v \in vendors})
    /\ UNCHANGED <<fylePaid, netsuite, payments, bill, row, lines, attempts, faults>>

\* mutant: the last attempt is not looked at in the first month
CalendarDaily(b) ==
    LET r == row[b] IN
    IF ~r.made THEN "pay" ELSE IF r.created > 2 * Month THEN "retire"
    ELSE IF Month < r.created /\ r.updated < Month THEN "skip" ELSE "pay"

\* mutant: the payment is never given up
CalendarForEver(b) ==
    IF row[b].made /\ row[b].updated < Week THEN "skip" ELSE "pay"

\* validate_for_skipping_payment, with its strict comparisons
Calendar(b) ==
    LET r == row[b] IN
    CASE ~r.made -> "pay"
      [] r.made /\ r.created > 2 * Month -> "retire"
      [] r.made /\ Month < r.created /\ r.created < 2 * Month ->
            IF r.updated < Month THEN "skip" ELSE "pay"
      [] r.made /\ r.created < Month ->
            IF r.updated < Week THEN "skip" ELSE "pay"
      [] OTHER -> "pay"      \* exactly one or two months old

Retire(h, o) ==
    /\ proc[h].pc = "pay" /\ o \in proc[h].todo /\ Calendar(o.first) = "retire"
    /\ bill' = [bill EXCEPT ![o.first].retired = TRUE]
    /\ Left(h, proc[h].todo \ {o})
    /\ UNCHANGED <<fylePaid, netsuite, payments, expense, row, lines, attempts, ran, extra, faults>>

Skip(h, o) ==
    /\ proc[h].pc = "pay" /\ o \in proc[h].todo /\ Calendar(o.first) = "skip"
    /\ Left(h, proc[h].todo \ {o})
    /\ UNCHANGED <<fylePaid, netsuite, payments, db, attempts, ran, extra, faults>>

\* the wrapper and process_vendor_payment up to the transaction
Attempt(h, o) ==
    /\ proc[h].pc = "pay" /\ o \in proc[h].todo /\ Calendar(o.first) = "pay"
    /\ row' = [row EXCEPT ![o.first] =
                  [made |-> TRUE, created |-> IF @.made THEN @.created ELSE 0, updated |-> 0]]
    /\ attempts' = [attempts EXCEPT ![o.first] = IF @ > Most THEN @ ELSE @ + 1]
    /\ Set(h, [pc |-> "lines", todo |-> proc[h].todo \ {o}, in |-> o])
    /\ UNCHANGED <<fylePaid, netsuite, payments, bill, expense, lines, ran, extra, faults>>

\* lines another process has inserted and not committed: an insert waits for them
Held(h) == UNION {proc[g].in.with : g \in {g \in Procs \ {h} : proc[g].pc \in {"open", "applied"}}}

\* VendorPaymentLineitem.expense_group is unique
HasLine(o) == o.with \cap lines # {}

\* create_vendor_payment_lineitems: a second line fails, the row is FATAL
Insert(h) ==
    /\ proc[h].pc = "lines" /\ proc[h].in.with \cap Held(h) = {}
    /\ IF HasLine(proc[h].in) THEN Left(h, proc[h].todo)
       ELSE Set(h, [proc[h] EXCEPT !.pc = "open"])
    /\ UNCHANGED <<fylePaid, netsuite, payments, db, attempts, ran, extra, faults>>

\* NetSuite refuses, or cannot be reached: the transaction is rolled back
Refuse(h) ==
    /\ proc[h].pc = "open"
    /\ Left(h, proc[h].todo)
    /\ UNCHANGED <<fylePaid, netsuite, payments, db, attempts, ran, extra, faults>>

\* NetSuite is not assumed to refuse a second payment
Apply(h) ==
    LET with == proc[h].in.with IN
    /\ proc[h].pc = "open" /\ \A b \in with : netsuite[b] # "deleted"
    /\ netsuite' = [b \in Bills |-> IF b \in with THEN "paid" ELSE netsuite[b]]
    /\ payments' = [b \in Bills |-> payments[b] + IF b \in with THEN 1 ELSE 0]
    /\ Set(h, [proc[h] EXCEPT !.pc = "applied"])
    /\ UNCHANGED <<fylePaid, db, attempts, ran, extra, faults>>

\* the rest of process_vendor_payment and the commit
Commit(h) ==
    LET with == proc[h].in.with IN
    /\ proc[h].pc = "applied"
    /\ lines' = lines \cup with
    /\ bill' = [b \in Bills |-> IF b \in with
                   THEN [bill[b] EXCEPT !.synced = TRUE, !.paid = TRUE] ELSE bill[b]]
    /\ Left(h, proc[h].todo)
    /\ UNCHANGED <<fylePaid, netsuite, payments, expense, row, attempts, ran, extra, faults>>

\* the answer of NetSuite is lost, or the payment fails after it
Lost(h) ==
    /\ proc[h].pc = "applied" /\ faults < MaxFaults /\ faults' = faults + 1
    /\ Left(h, proc[h].todo)
    /\ UNCHANGED <<fylePaid, netsuite, payments, db, attempts, ran, extra>>

Crash(h) ==
    /\ proc[h].pc # "idle" /\ faults < MaxFaults /\ faults' = faults + 1
    /\ Set(h, Idle)
    /\ UNCHANGED <<fylePaid, netsuite, payments, db, attempts, ran, extra>>
-----------------------------------------------------------------------------
(* run_check_netsuite_object_status.                                       *)

\* the rows are read at once and kept while NetSuite is asked about each
StartStatus(h) ==
    LET unpaid == {b \in Bills : ~bill[b].paid} IN
    /\ Begins(h, "status")
    /\ Set(h, IF unpaid = {} THEN Idle ELSE [pc |-> "status", todo |-> unpaid, copy |-> bill])
    /\ UNCHANGED <<fylePaid, netsuite, payments, db, attempts, faults>>

\* the status in NetSuite is paidInFull
Found(b) == netsuite[b] = "paid"

Check(h, b) ==
    /\ proc[h].pc = "status" /\ b \in proc[h].todo
    /\ IF Found(b)
       THEN /\ expense' = [expense EXCEPT ![b].netsuite = TRUE]
            /\ bill' = [bill EXCEPT ![b] =
                           [proc[h].copy[b] EXCEPT !.synced = TRUE, !.paid = TRUE]]
       ELSE UNCHANGED <<expense, bill>>
    /\ LET left == proc[h].todo \ {b} IN
       Set(h, IF left = {} THEN Idle ELSE [proc[h] EXCEPT !.todo = left])
    /\ UNCHANGED <<fylePaid, netsuite, payments, row, lines, attempts, ran, extra, faults>>
-----------------------------------------------------------------------------
(* run_process_reimbursements and mark_paid_on_fyle.                       *)

\* mutant: one paid expense is enough
PaidInPart(r) == \E b \in Bills : Report[b] = r /\ expense[b].netsuite

PaidInFull(r) == \A b \in Bills : Report[b] = r => expense[b].netsuite

StartMark(h) ==
    LET due == {r \in Reports : PaidInFull(r) /\ \E b \in Bills : Report[b] = r /\ ~expense[b].fyle}
    IN
    /\ Begins(h, "mark")
    /\ Set(h, IF due = {} THEN Idle ELSE [pc |-> "mark", reports |-> due, retry |-> Retries])
    /\ UNCHANGED <<fylePaid, netsuite, payments, db, attempts, faults>>

\* reports Fyle refuses: no permission, or not APPROVED any more
Rejected(rs) == rs \cap (Refusing \cup fylePaid)

MarkedInFyle(rs) == expense' = [b \in Bills |->
    IF Report[b] \in rs THEN [expense[b] EXCEPT !.fyle = TRUE] ELSE expense[b]]

\* bulk_mark_as_paid accepts all
MarkAll(h) ==
    /\ proc[h].pc = "mark" /\ Rejected(proc[h].reports) = {}
    /\ fylePaid' = fylePaid \cup proc[h].reports
    /\ Set(h, [proc[h] EXCEPT !.pc = "marked"])
    /\ UNCHANGED <<netsuite, payments, db, attempts, ran, extra, faults>>

StoreMarked(h) ==
    /\ proc[h].pc = "marked"
    /\ MarkedInFyle(proc[h].reports)
    /\ Set(h, Idle)
    /\ UNCHANGED <<fylePaid, netsuite, payments, bill, row, lines, attempts, ran, extra, faults>>

\* mutant: the number of retries is not looked at
AgainAlways(h, left) ==
    Set(h, IF left = {} THEN Idle ELSE [proc[h] EXCEPT !.reports = left, !.retry = @ - 1])

Again(h, left) ==
    Set(h, IF left = {} \/ proc[h].retry = 0 THEN Idle
           ELSE [proc[h] EXCEPT !.reports = left, !.retry = @ - 1])

\* a refused report is stored as paid, and not tried again
Stored(rs) == Rejected(rs)

\* some are refused; the others may have been paid or not
MarkSome(h) ==
    LET reports == proc[h].reports IN
    /\ proc[h].pc = "mark" /\ Rejected(reports) # {}
    /\ fylePaid' \in {fylePaid, fylePaid \cup (reports \ Refusing)}
    /\ MarkedInFyle(Stored(reports))
    /\ Again(h, reports \ Rejected(reports))
    /\ UNCHANGED <<netsuite, payments, bill, row, lines, attempts, ran, extra, faults>>

\* an error that names no report is retried; one without a response ends the run
MarkOutage(h) ==
    /\ proc[h].pc = "mark" /\ faults < MaxFaults /\ faults' = faults + 1
    /\ Again(h, proc[h].reports) \/ Set(h, Idle)
    /\ UNCHANGED <<fylePaid, netsuite, payments, db, attempts, ran, extra>>
-----------------------------------------------------------------------------
Pays(h) ==
    \/ StartPayments(h)
    \/ \E o \in Payment : Retire(h, o) \/ Skip(h, o) \/ Attempt(h, o)
    \/ Insert(h) \/ Refuse(h) \/ Apply(h) \/ Commit(h) \/ Lost(h)

Step(h) ==
    \/ Pays(h)
    \/ StartStatus(h) \/ (\E b \in Bills : Check(h, b))
    \/ StartMark(h) \/ MarkAll(h) \/ StoreMarked(h) \/ MarkSome(h) \/ MarkOutage(h)
    \/ Crash(h)

Next ==
    \/ Day
    \/ \E r \in Reports : PayReport(r)
    \/ \E b \in Bills, how \in {"paid", "deleted"} : Treat(b, how)
    \/ \E h \in Procs : Step(h)

Spec == Init /\ [][Next]_vars

\* the daily runs, and what has begun
Proceed(h) == Step(h) /\ (proc[h].pc # "idle" \/ extra' = extra) /\ faults' = faults

\* days go by, every day has a run of each schedule, and runs end
Fairness ==
    /\ WF_vars(Day)
    /\ \A h \in Procs : WF_vars(Proceed(h))

FairSpec == Spec /\ Fairness
-----------------------------------------------------------------------------
(* Properties.                                                             *)

\* A bill is paid once: runs that overlap and answers that get lost do not
\* make create_vendor_payment pay it again.
PaidOnce == \A b \in Bills : payments[b] <= 1

\* A payment that keeps failing is tried weekly in its first month and once
\* in the second (validate_for_skipping_payment), also when first bills vary.
AttemptsBounded == \A b \in Bills : attempts[b] <= Most

\* A bill that counts as settled is paid in NetSuite.
SyncedIsPaid == \A b \in Bills : bill[b].synced \/ bill[b].paid => netsuite[b] = "paid"

\* A bill is paid once, and counts as settled only when NetSuite has it paid: runs that
\* overlap, answers that get lost and payments that are rolled back notwithstanding.
SettledOnce == PaidOnce /\ SyncedIsPaid

\* The integration pays in NetSuite only what Fyle has paid: a report that is
\* stored as paid because Fyle refused to mark it has no open bill.
PaysOnlyReimbursed == \A b \in Bills, h \in Procs :
    Apply(h) /\ b \in proc[h].in.with => Report[b] \in fylePaid

\* A report is marked as paid in Fyle when all its bills are paid in NetSuite.
PaysWholeReports == \A r \in Reports, h \in Procs :
    r \in fylePaid' \ fylePaid /\ (MarkAll(h) \/ MarkSome(h)) =>
        \A b \in Bills : Report[b] = r => netsuite[b] = "paid"

\* Neither side is paid before the other.
PaysOnlyPaid == [][PaysOnlyReimbursed /\ PaysWholeReports]_vars

\* A bill of a report paid in Fyle is paid, or given up after two months.
PaymentSettles == \A b \in Bills :
    Report[b] \in fylePaid ~> bill[b].synced \/ bill[b].retired \/ netsuite[b] # "open"
=============================================================================
