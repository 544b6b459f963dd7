--------------------------- MODULE PaymentsProofs ---------------------------
(* Proofs about Payments.                                                  *)
EXTENDS Payments, TLAPS, FiniteSetTheorems

\* What a process is when it is at a place.
LEMMA ProcParts ==
  ASSUME NEW p \in Proc
  PROVE  /\ p.pc \in {"idle", "pay", "lines", "open", "applied", "status", "mark", "marked"}
         /\ p.pc = "idle" => p = Idle
         /\ p.pc = "pay" => p \in [pc: {"pay"}, todo: SUBSET Payment]
         /\ p.pc \in {"lines", "open", "applied"} =>
              p \in [pc: {"lines", "open", "applied"}, todo: SUBSET Payment, in: Payment]
         /\ p.pc = "status" => p \in [pc: {"status"}, todo: SUBSET Bills, copy: [Bills -> Bill]]
         /\ p.pc \in {"mark", "marked"} =>
              p \in [pc: {"mark", "marked"}, reports: SUBSET Reports, retry: 0..Retries]
  BY DEF Proc, Idle

\* The rest of a run of payments is a process.
LEMMA LeftTyped ==
  ASSUME NEW h \in Procs, proc \in [Procs -> Proc], NEW left \in SUBSET Payment, Left(h, left)
  PROVE  proc' \in [Procs -> Proc]
<1>1. (IF left = {} THEN Idle ELSE [pc |-> "pay", todo |-> left]) \in Proc BY DEF Proc
<1> QED BY <1>1 DEF Left, Set

LEMMA SetTyped ==
  ASSUME NEW h \in Procs, proc \in [Procs -> Proc], NEW r \in Proc, Set(h, r)
  PROVE  proc' \in [Procs -> Proc]
  BY DEF Set

LEMMA MostTyped == ASSUME PaymentsAssumption PROVE Most \in Nat
  BY DEF PaymentsAssumption, Most

\* A run that begins is today's, or an extra one within the bound.
LEMMA BeginsTyped ==
  ASSUME PaymentsAssumption, TypeOK, NEW h \in Procs, NEW job \in Job, Begins(h, job)
  PROVE  ran' \subseteq Job /\ extra' \in 0..MaxExtra
  BY DEF PaymentsAssumption, TypeOK, Begins

\* A row that is a day older.
LEMMA RowAged ==
  ASSUME PaymentsAssumption, NEW r \in Row, r.updated <= r.created
  PROVE  /\ Aged(r) \in Row /\ Aged(r).updated <= Aged(r).created /\ Aged(r).made = r.made
         /\ r.made => Aged(r).created = Older(r.created) /\ Aged(r).updated = Older(r.updated)
         /\ ~r.made => Aged(r) = r
<1>1. r.created \in 0..Old /\ r.updated \in 0..Old /\ Old \in Nat
  BY DEF Row, Old, PaymentsAssumption
<1>2. /\ Older(r.created) \in 0..Old /\ Older(r.updated) \in 0..Old
      /\ Older(r.updated) <= Older(r.created)
  BY <1>1 DEF Older
<1> QED BY <1>2 DEF Row, Aged

\* The days and the people keep the types.
LEMMA TypedPeople ==
  ASSUME PaymentsAssumption, TypeOK,
         \/ Day
         \/ \E r \in Reports : PayReport(r)
         \/ \E b \in Bills, how \in {"paid", "deleted"} : Treat(b, how)
  PROVE  TypeOK'
<1> USE DEF TypeOK
<1>1. CASE Day
  <2>1. \A b \in Bills : Aged(row[b]) \in Row /\ Aged(row[b]).updated <= Aged(row[b]).created
    BY RowAged
  <2> QED BY <1>1, <2>1 DEF Day
<1>2. ASSUME NEW r \in Reports, PayReport(r) PROVE TypeOK'
  BY <1>2 DEF PayReport, db
<1>3. ASSUME NEW b \in Bills, NEW how \in {"paid", "deleted"}, Treat(b, how) PROVE TypeOK'
  BY <1>3 DEF Treat, db
<1> QED BY <1>1, <1>2, <1>3

\* The payments of a run: one a vendor, of bills that are payable.
LEMMA StartedPayments ==
  ASSUME NEW h \in Procs, StartPayments(h)
  PROVE  \E left \in SUBSET Payment :
           /\ Left(h, left)
           /\ \A o \in left : /\ o.first \in o.with
                              /\ \A b \in o.with : Payable(b) /\ Entity[b] = Entity[o.first]
           /\ \A o, k \in left : Entity[o.first] = Entity[k.first] => o = k
<1> DEFINE E(v) == {b \in Unpaid : Payable(b) /\ Entity[b] = v}
<1> DEFINE vendors == {Entity[b] : b \in {b \in Unpaid : Payable(b)}}
<1>1. PICK first \in [vendors -> Bills] :
        /\ \A v \in vendors : first[v] \in E(v)
        /\ Left(h, {[first |-> first[v], with |-> E(v)] : v \in vendors})
  BY DEF StartPayments
<1> DEFINE left == {[first |-> first[v], with |-> E(v)] : v \in vendors}
<1>2. \A v : E(v) \subseteq Bills BY DEF Unpaid
<1>3. left \in SUBSET Payment BY <1>2 DEF Payment
<1>4. \A o \in left : \E v \in vendors : o.first = first[v] /\ o.with = E(v) OBVIOUS
<1>5. \A v \in vendors : Entity[first[v]] = v BY <1>1
<1>6. ASSUME NEW o \in left
      PROVE  /\ o.first \in o.with
             /\ \A b \in o.with : Payable(b) /\ Entity[b] = Entity[o.first]
  <2>1. PICK v \in vendors : o.first = first[v] /\ o.with = E(v) OBVIOUS
  <2> QED BY <1>1, <1>5, <2>1
<1>7. ASSUME NEW o \in left, NEW k \in left, Entity[o.first] = Entity[k.first] PROVE o = k
  <2>1. PICK v \in vendors : o = [first |-> first[v], with |-> E(v)] OBVIOUS
  <2>2. PICK u \in vendors : k = [first |-> first[u], with |-> E(u)] OBVIOUS
  <2>3. v = u BY <1>5, <1>7, <2>1, <2>2
  <2> QED BY <2>1, <2>2, <2>3
<1> QED BY <1>1, <1>3, <1>6, <1>7

\* The steps of a run of payments keep the types.
LEMMA TypedPays ==
  ASSUME PaymentsAssumption, TypeOK, NEW h \in Procs, Pays(h)
  PROVE  TypeOK'
<1> USE DEF TypeOK
<1>1. CASE StartPayments(h)
  <2>1. ran' \subseteq Job /\ extra' \in 0..MaxExtra
    BY <1>1, BeginsTyped DEF StartPayments, Job
  <2>2. expense' \in [Bills -> Expense]
    <3>1. \A b \in Bills : expense[b] \in Expense /\ [expense[b] EXCEPT !.fyle = TRUE] \in Expense
      BY DEF Expense
    <3> QED BY <1>1, <3>1 DEF StartPayments
  <2>3. proc' \in [Procs -> Proc] BY <1>1, StartedPayments, LeftTyped
  <2> QED BY <1>1, <2>1, <2>2, <2>3 DEF StartPayments
<1>2. ASSUME NEW o \in Payment, Retire(h, o) PROVE TypeOK'
  <2>1. bill' \in [Bills -> Bill] BY <1>2 DEF Retire, Bill, Payment
  <2>2. proc[h].todo \ {o} \in SUBSET Payment BY <1>2, ProcParts DEF Retire
  <2>3. proc' \in [Procs -> Proc] BY <1>2, <2>2, LeftTyped DEF Retire
  <2> QED BY <1>2, <2>1, <2>3 DEF Retire
<1>3. ASSUME NEW o \in Payment, Skip(h, o) PROVE TypeOK'
  <2>1. proc[h].todo \ {o} \in SUBSET Payment BY <1>3, ProcParts DEF Skip
  <2>2. proc' \in [Procs -> Proc] BY <1>3, <2>1, LeftTyped DEF Skip
  <2> QED BY <1>3, <2>2 DEF Skip, db
<1>4. ASSUME NEW o \in Payment, Attempt(h, o) PROVE TypeOK'
  <2>1. Most \in Nat /\ Old \in Nat BY MostTyped DEF Old, PaymentsAssumption
  <2>2. o.first \in Bills BY DEF Payment
  <2>3. attempts' \in [Bills -> 0..Most + 1] BY <1>4, <2>1, <2>2 DEF Attempt
  <2>4. /\ row' \in [Bills -> Row]
        /\ \A b \in Bills : row'[b].updated <= row'[b].created
    BY <1>4, <2>1, <2>2 DEF Attempt, Row
  <2>5. [pc |-> "lines", todo |-> proc[h].todo \ {o}, in |-> o] \in Proc
    BY <1>4, ProcParts DEF Attempt, Proc
  <2>6. proc' \in [Procs -> Proc] BY <1>4, <2>5, SetTyped DEF Attempt
  <2> QED BY <1>4, <2>3, <2>4, <2>6 DEF Attempt
<1>5. ASSUME proc[h].pc \in {"lines", "open", "applied"}
      PROVE  /\ proc[h].todo \in SUBSET Payment /\ proc[h].in \in Payment
             /\ [proc[h] EXCEPT !.pc = "open"] \in Proc
             /\ [proc[h] EXCEPT !.pc = "applied"] \in Proc
  BY <1>5, ProcParts DEF Proc
<1>6. CASE Insert(h)
  <2>1. proc' \in [Procs -> Proc] BY <1>5, <1>6, LeftTyped, SetTyped DEF Insert
  <2> QED BY <1>6, <2>1 DEF Insert, db
<1>7. CASE Refuse(h)
  <2>1. proc' \in [Procs -> Proc] BY <1>5, <1>7, LeftTyped DEF Refuse
  <2> QED BY <1>7, <2>1 DEF Refuse, db
<1>8. CASE Apply(h)
  <2>1. proc' \in [Procs -> Proc] BY <1>5, <1>8, SetTyped DEF Apply
  <2>2. netsuite' \in [Bills -> {"open", "paid", "deleted"}] BY <1>8 DEF Apply
  <2>3. payments' \in [Bills -> Nat] BY <1>8 DEF Apply
  <2> QED BY <1>8, <2>1, <2>2, <2>3 DEF Apply, db
<1>9. CASE Commit(h)
  <2>1. proc' \in [Procs -> Proc] BY <1>5, <1>9, LeftTyped DEF Commit
  <2>2. lines' \subseteq Bills BY <1>5, <1>9 DEF Commit, Payment
  <2>3. bill' \in [Bills -> Bill] BY <1>9 DEF Commit, Bill
  <2> QED BY <1>9, <2>1, <2>2, <2>3 DEF Commit
<1>10. CASE Lost(h)
  <2>1. proc' \in [Procs -> Proc] BY <1>5, <1>10, LeftTyped DEF Lost
  <2>2. faults' \in 0..MaxFaults BY <1>10 DEF Lost, PaymentsAssumption
  <2> QED BY <1>10, <2>1, <2>2 DEF Lost, db
<1> QED BY <1>1, <1>2, <1>3, <1>4, <1>6, <1>7, <1>8, <1>9, <1>10 DEF Pays

\* A bill that is found paid is a bill that is settled.
LEMMA Settled ==
  ASSUME NEW r \in Bill
  PROVE  LET n == [r EXCEPT !.synced = TRUE, !.paid = TRUE]
         IN  n \in Bill /\ n.synced /\ n.paid /\ n.retired = r.retired
  BY DEF Bill

\* So do those of the status checks, the reports that are marked, and crashes.
LEMMA TypedOthers ==
  ASSUME PaymentsAssumption, TypeOK, NEW h \in Procs,
         \/ StartStatus(h) \/ \E b \in Bills : Check(h, b)
         \/ StartMark(h) \/ MarkAll(h) \/ StoreMarked(h) \/ MarkSome(h) \/ MarkOutage(h)
         \/ Crash(h)
  PROVE  TypeOK'
<1> USE DEF TypeOK
<1>0. Idle \in Proc BY DEF Proc
<1>1. CASE StartStatus(h)
  <2>1. ran' \subseteq Job /\ extra' \in 0..MaxExtra
    BY <1>1, BeginsTyped DEF StartStatus, Job
  <2>2. [pc |-> "status", todo |-> {b \in Bills : ~bill[b].paid}, copy |-> bill] \in Proc
    BY DEF Proc
  <2>3. proc' \in [Procs -> Proc] BY <1>0, <1>1, <2>2, SetTyped DEF StartStatus
  <2> QED BY <1>1, <2>1, <2>3 DEF StartStatus, db
<1>2. ASSUME NEW b \in Bills, Check(h, b) PROVE TypeOK'
  <2>a. proc[h].pc = "status" /\ proc[h] \in Proc BY <1>2 DEF Check
  <2>b. proc[h] \in [pc: {"status"}, todo: SUBSET Bills, copy: [Bills -> Bill]]
    BY <2>a DEF Proc, Idle
  <2>c. [proc[h] EXCEPT !.todo = proc[h].todo \ {b}]
          \in [pc: {"status"}, todo: SUBSET Bills, copy: [Bills -> Bill]]
    BY <2>b
  <2>1. /\ proc[h].copy \in [Bills -> Bill]
        /\ [proc[h] EXCEPT !.todo = proc[h].todo \ {b}] \in Proc
    BY <2>b, <2>c DEF Proc
  <2>2. proc' \in [Procs -> Proc] BY <1>0, <1>2, <2>1, SetTyped DEF Check
  <2>3. [expense[b] EXCEPT !.netsuite = TRUE] \in Expense BY DEF Expense
  <2>4. [proc[h].copy[b] EXCEPT !.synced = TRUE, !.paid = TRUE] \in Bill BY <2>1, Settled
  <2>5. bill' \in [Bills -> Bill] /\ expense' \in [Bills -> Expense]
    BY <1>2, <2>3, <2>4 DEF Check
  <2> QED BY <1>2, <2>2, <2>5 DEF Check
<1>3. CASE StartMark(h)
  <2> DEFINE due == {r \in Reports : PaidInFull(r) /\ \E b \in Bills : Report[b] = r /\ ~expense[b].fyle}
  <2>1. ran' \subseteq Job /\ extra' \in 0..MaxExtra
    BY <1>3, BeginsTyped DEF StartMark, Job
  <2>2. [pc |-> "mark", reports |-> due, retry |-> Retries] \in Proc
    BY DEF Proc, PaymentsAssumption
  <2>3. proc' \in [Procs -> Proc] BY <1>0, <1>3, <2>2, SetTyped DEF StartMark
  <2> QED BY <1>3, <2>1, <2>3 DEF StartMark, db
<1>4. ASSUME proc[h].pc \in {"mark", "marked"}
      PROVE  /\ proc[h].reports \in SUBSET Reports
             /\ [proc[h] EXCEPT !.pc = "marked"] \in Proc
  BY <1>4, ProcParts DEF Proc
<1>5. ASSUME proc[h].pc = "mark", NEW left \in SUBSET Reports, Again(h, left)
      PROVE  proc' \in [Procs -> Proc]
  <2>1. CASE left = {} \/ proc[h].retry = 0 BY <1>0, <1>5, <2>1, SetTyped DEF Again
  <2>2. CASE ~(left = {} \/ proc[h].retry = 0)
    <3>1. proc[h].retry \in 0..Retries /\ Retries \in Nat /\ proc[h].retry # 0
      BY <1>5, <2>2, ProcParts DEF PaymentsAssumption
    <3>2. \A n \in 0..Retries : n # 0 => n - 1 \in 0..Retries BY <3>1
    <3>3. proc[h].retry - 1 \in 0..Retries BY <3>1, <3>2
    <3>4. [proc[h] EXCEPT !.reports = left, !.retry = @ - 1] \in Proc
      <4>1. proc[h] \in [pc: {"mark", "marked"}, reports: SUBSET Reports, retry: 0..Retries]
        BY <1>5, ProcParts
      <4>2. [proc[h] EXCEPT !.reports = left, !.retry = @ - 1]
              \in [pc: {"mark", "marked"}, reports: SUBSET Reports, retry: 0..Retries]
        BY <1>5, <3>3, <4>1
      <4> QED BY <4>2 DEF Proc
    <3>5. Set(h, [proc[h] EXCEPT !.reports = left, !.retry = @ - 1]) BY <1>5, <2>2 DEF Again
    <3> QED BY <3>4, <3>5, SetTyped
  <2> QED BY <2>1, <2>2
<1>6. CASE MarkAll(h)
  <2>1. proc' \in [Procs -> Proc] BY <1>4, <1>6, SetTyped DEF MarkAll
  <2> QED BY <1>4, <1>6, <2>1 DEF MarkAll, db
<1>7. ASSUME NEW rs, MarkedInFyle(rs) PROVE expense' \in [Bills -> Expense]
  BY <1>7 DEF MarkedInFyle, Expense
<1>8. CASE StoreMarked(h)
  <2>1. proc' \in [Procs -> Proc] BY <1>0, <1>8, SetTyped DEF StoreMarked
  <2> QED BY <1>7, <1>8, <2>1 DEF StoreMarked
<1>9. CASE MarkSome(h)
  <2>1. proc[h].pc = "mark" /\ proc[h].reports \in SUBSET Reports BY <1>4, <1>9 DEF MarkSome
  <2>2. proc' \in [Procs -> Proc] BY <1>5, <1>9, <2>1 DEF MarkSome
  <2>3. fylePaid' \subseteq Reports BY <1>9, <2>1 DEF MarkSome
  <2> QED BY <1>7, <1>9, <2>2, <2>3 DEF MarkSome
<1>10. CASE MarkOutage(h)
  <2>1. proc' \in [Procs -> Proc] BY <1>0, <1>4, <1>5, <1>10, SetTyped DEF MarkOutage
  <2>2. faults' \in 0..MaxFaults BY <1>10 DEF MarkOutage, PaymentsAssumption
  <2> QED BY <1>10, <2>1, <2>2 DEF MarkOutage, db
<1>11. CASE Crash(h)
  <2>1. proc' \in [Procs -> Proc] BY <1>0, <1>11, SetTyped DEF Crash
  <2>2. faults' \in 0..MaxFaults BY <1>11 DEF Crash, PaymentsAssumption
  <2> QED BY <1>11, <2>1, <2>2 DEF Crash, db
<1> QED BY <1>1, <1>2, <1>3, <1>6, <1>8, <1>9, <1>10, <1>11

LEMMA TypedInit == ASSUME PaymentsAssumption, Init PROVE TypeOK
<1>1. Most \in Nat /\ Old \in Nat BY MostTyped DEF Old, PaymentsAssumption
<1> QED BY <1>1 DEF Init, TypeOK, Bill, Expense, Row, NoRow, Proc, PaymentsAssumption

LEMMA TypedStep == ASSUME PaymentsAssumption, TypeOK, [Next]_vars PROVE TypeOK'
<1>1. CASE UNCHANGED vars BY <1>1 DEF vars, db, TypeOK
<1>2. ASSUME NEW h \in Procs, Step(h) PROVE TypeOK' BY <1>2, TypedPays, TypedOthers DEF Step
<1> QED BY <1>1, <1>2, TypedPeople DEF Next

\* Every variable keeps its type, for any number of bills, reports, vendors and
\* processes and whatever the lengths of a week and a month.
THEOREM PaymentsTyped == ASSUME PaymentsAssumption PROVE Spec => []TypeOK
<1>1. Init => TypeOK BY TypedInit
<1>2. TypeOK /\ [Next]_vars => TypeOK' BY TypedStep
<1> QED BY <1>1, <1>2, PTL DEF Spec
-----------------------------------------------------------------------------
(* NetSuite's side.                                                        *)

Working == {"pay", "lines", "open", "applied"}

\* h has inserted a line for b and not committed it, its payment was applied,
\* and h may yet have b paid
Holds(h, b)   == proc[h].pc \in {"open", "applied"} /\ b \in proc[h].in.with
Applied(h, b) == proc[h].pc = "applied" /\ b \in proc[h].in.with
Plans(h, b)   ==
    \/ proc[h].pc \in Working /\ \E o \in proc[h].todo : b \in o.with
    \/ proc[h].pc \in {"lines", "open"} /\ b \in proc[h].in.with

Covered(b) == b \in lines \/ \E h \in Procs : Applied(h, b)

\* The unique lines keep transactions apart.
LinesApart == \A b \in Bills, h \in Procs :
    Holds(h, b) => b \notin lines /\ \A g \in Procs : Holds(g, b) => g = h

\* A line stands for a payment.
CoveredPaid == \A b \in Bills : Covered(b) => netsuite[b] = "paid"

\* Each payment has its line, or took one fault.
Counted == \A b \in Bills :
    /\ netsuite[b] = "open" => payments[b] = 0
    /\ payments[b] <= faults + 1
    /\ (\E h \in Procs : Plans(h, b)) => payments[b] <= faults + (IF Covered(b) THEN 1 ELSE 0)

Books == LinesApart /\ CoveredPaid /\ Counted /\ SyncedIsPaid

LEMMA SetParts ==
  ASSUME NEW h \in Procs, proc \in [Procs -> Proc], NEW r, Set(h, r)
  PROVE  proc'[h] = r /\ \A g \in Procs : g # h => proc'[g] = proc[g]
  BY DEF Set

\* A payment that is over, or a process that goes on with its rest.
LEMMA LeftParts ==
  ASSUME NEW h \in Procs, proc \in [Procs -> Proc], NEW left, Left(h, left)
  PROVE  /\ proc'[h].pc \in {"idle", "pay"}
         /\ proc'[h].pc = "pay" => proc'[h].todo = left
         /\ \A g \in Procs : g # h => proc'[g] = proc[g]
  BY SetParts DEF Left, Idle

LEMMA LeftPlans ==
  ASSUME NEW h \in Procs, proc \in [Procs -> Proc], proc[h].pc \in Working,
         NEW left \in SUBSET proc[h].todo, Left(h, left)
  PROVE  \A g \in Procs, b \in Bills :
           /\ Holds(g, b)' => g # h /\ Holds(g, b)
           /\ Applied(g, b)' <=> g # h /\ Applied(g, b)
           /\ Plans(g, b)' => Plans(g, b)
  BY LeftParts DEF Holds, Applied, Plans, Working

\* Steps of the other jobs plan and hold nothing.
LEMMA OtherJobs ==
  ASSUME NEW h \in Procs, proc \in [Procs -> Proc], proc[h].pc \notin Working,
         NEW r, r.pc \notin Working, Set(h, r)
  PROVE  \A g \in Procs, b \in Bills :
           /\ Holds(g, b)' <=> Holds(g, b)
           /\ Applied(g, b)' <=> Applied(g, b)
           /\ Plans(g, b)' <=> Plans(g, b)
  BY SetParts DEF Holds, Applied, Plans, Working

\* A step that touches neither NetSuite nor the lines keeps the books, when it
\* plans no bill that was not planned or open.
LEMMA BooksKept ==
  ASSUME PaymentsAssumption, TypeOK, TypeOK', Books,
         UNCHANGED <<netsuite, payments, lines>>, faults' >= faults,
         \A b \in Bills : bill'[b].synced \/ bill'[b].paid =>
             bill[b].synced \/ bill[b].paid \/ netsuite[b] = "paid",
         \A g \in Procs, b \in Bills :
             /\ Holds(g, b)' => Holds(g, b)
             /\ Applied(g, b)' <=> Applied(g, b)
             /\ Plans(g, b)' => Plans(g, b) \/ netsuite[b] = "open"
  PROVE  Books'
<1>1. \A b \in Bills : Covered(b)' <=> Covered(b) BY DEF Covered
<1>2. LinesApart' BY DEF Books, LinesApart
<1>3. CoveredPaid' BY <1>1 DEF Books, CoveredPaid
<1>4. Counted'
  <2> SUFFICES ASSUME NEW b \in Bills
               PROVE  /\ netsuite[b] = "open" => payments[b] = 0
                      /\ payments[b] <= faults' + 1
                      /\ (\E h \in Procs : Plans(h, b)') =>
                            payments[b] <= faults' + (IF Covered(b)' THEN 1 ELSE 0)
    BY DEF Counted
  <2>1. payments[b] \in Nat /\ faults \in Nat /\ faults' \in Nat
    BY DEF TypeOK, PaymentsAssumption
  <2> QED BY <1>1, <2>1 DEF Books, Counted
<1>5. SyncedIsPaid' BY DEF Books, SyncedIsPaid
<1> QED BY <1>2, <1>3, <1>4, <1>5 DEF Books

\* A bill that nobody works on is paid or deleted by people.
LEMMA BooksTreat ==
  ASSUME PaymentsAssumption, TypeOK, Books, NEW b \in Bills, NEW how \in {"paid", "deleted"},
         Treat(b, how)
  PROVE  Books'
<1>1. /\ UNCHANGED <<bill, lines, proc, faults>> /\ netsuite[b] = "open"
      /\ netsuite' = [netsuite EXCEPT ![b] = how]
      /\ payments' = [payments EXCEPT ![b] = IF how = "paid" THEN 1 ELSE 0]
  BY DEF Treat, db
<1>2. \A g \in Procs, c \in Bills : ~Plans(g, c) /\ ~Holds(g, c) /\ ~Applied(g, c)
  BY DEF Treat, AllIdle, Plans, Holds, Applied, Working
<1>3. \A g \in Procs, c \in Bills : ~Plans(g, c)' /\ ~Holds(g, c)' /\ ~Applied(g, c)'
  BY <1>1, <1>2 DEF Plans, Holds, Applied
<1>4. LinesApart' BY <1>3 DEF LinesApart
<1>5. CoveredPaid' BY <1>1, <1>3 DEF CoveredPaid, Covered, Books, TypeOK
<1>6. Counted' BY <1>1, <1>3 DEF Counted, Books, TypeOK, PaymentsAssumption
<1>7. SyncedIsPaid' BY <1>1 DEF SyncedIsPaid, Books, TypeOK
<1> QED BY <1>4, <1>5, <1>6, <1>7 DEF Books

\* An insert waits for the lines of other transactions, and fails on a committed one.
LEMMA BooksInsert ==
  ASSUME PaymentsAssumption, TypeOK, TypeOK', Books, NEW h \in Procs, Insert(h)
  PROVE  Books'
<1>1. UNCHANGED <<netsuite, payments, bill, lines, faults>> /\ proc[h].pc = "lines"
  BY DEF Insert, db
<1>2. CASE HasLine(proc[h].in)
  <2>1. Left(h, proc[h].todo) BY <1>2 DEF Insert
  <2>2. \A g \in Procs, b \in Bills :
           /\ Holds(g, b)' => Holds(g, b)
           /\ Applied(g, b)' <=> Applied(g, b)
           /\ Plans(g, b)' => Plans(g, b)
    <3>1. \A b \in Bills : ~Applied(h, b) BY <1>1 DEF Applied
    <3> QED BY <1>1, <2>1, <3>1, LeftPlans DEF TypeOK, Working
  <2>3. faults' >= faults BY <1>1 DEF TypeOK, PaymentsAssumption
  <2> QED BY <1>1, <2>2, <2>3, BooksKept
<1>3. CASE ~HasLine(proc[h].in)
  <2>1. Set(h, [proc[h] EXCEPT !.pc = "open"]) BY <1>3 DEF Insert
  <2>2. /\ proc'[h].pc = "open" /\ proc'[h].in = proc[h].in /\ proc'[h].todo = proc[h].todo
        /\ \A g \in Procs : g # h => proc'[g] = proc[g]
    <3>1. proc[h] \in [pc: {"lines", "open", "applied"}, todo: SUBSET Payment, in: Payment]
      BY <1>1, ProcParts DEF TypeOK
    <3> QED BY <2>1, <3>1, SetParts DEF TypeOK
  <2>3. \A g \in Procs, b \in Bills :
           /\ Holds(g, b)' <=> Holds(g, b) \/ (g = h /\ b \in proc[h].in.with)
           /\ Applied(g, b)' <=> Applied(g, b)
           /\ Plans(g, b)' <=> Plans(g, b)
    BY <1>1, <2>2 DEF Holds, Applied, Plans, Working
  <2>4. \A b \in proc[h].in.with : b \notin lines BY <1>3 DEF HasLine
  <2>5. \A b \in proc[h].in.with, g \in Procs : g # h => ~Holds(g, b)
    BY DEF Insert, Held, Holds
  <2>6. LinesApart' BY <1>1, <2>3, <2>4, <2>5 DEF Books, LinesApart
  <2>7. \A b \in Bills : Covered(b)' <=> Covered(b) BY <1>1, <2>3 DEF Covered
  <2>8. CoveredPaid' BY <1>1, <2>7 DEF Books, CoveredPaid
  <2>9. Counted' BY <1>1, <2>3, <2>7 DEF Books, Counted
  <2>10. SyncedIsPaid' BY <1>1 DEF Books, SyncedIsPaid
  <2> QED BY <2>6, <2>8, <2>9, <2>10 DEF Books
<1> QED BY <1>2, <1>3

\* NetSuite pays the bills of a payment: no line and no other transaction had them.
LEMMA BooksApply ==
  ASSUME PaymentsAssumption, TypeOK, Books, NEW h \in Procs, Apply(h)
  PROVE  Books'
<1> DEFINE with == proc[h].in.with
<1>1. /\ UNCHANGED <<bill, lines, faults>> /\ proc[h].pc = "open"
      /\ Set(h, [proc[h] EXCEPT !.pc = "applied"])
      /\ netsuite' = [b \in Bills |-> IF b \in with THEN "paid" ELSE netsuite[b]]
      /\ payments' = [b \in Bills |-> payments[b] + IF b \in with THEN 1 ELSE 0]
      /\ \A b \in with : netsuite[b] # "deleted"
  BY DEF Apply, db
<1>2. /\ proc'[h].pc = "applied" /\ proc'[h].in = proc[h].in /\ proc'[h].todo = proc[h].todo
      /\ \A g \in Procs : g # h => proc'[g] = proc[g]
  <2>1. proc[h] \in [pc: {"lines", "open", "applied"}, todo: SUBSET Payment, in: Payment]
    BY <1>1, ProcParts DEF TypeOK
  <2> QED BY <1>1, <2>1, SetParts DEF TypeOK
<1>3. \A g \in Procs, b \in Bills :
         /\ Holds(g, b)' <=> Holds(g, b)
         /\ Applied(g, b)' <=> Applied(g, b) \/ (g = h /\ b \in with)
         /\ Plans(g, b)' => Plans(g, b)
  BY <1>1, <1>2 DEF Holds, Applied, Plans, Working
<1>4. \A b \in Bills : b \in with => Holds(h, b) /\ Plans(h, b) BY <1>1 DEF Holds, Plans
<1>5. \A b \in Bills : b \in with => ~Covered(b)
  BY <1>1, <1>4 DEF Books, LinesApart, Covered, Applied, Holds
<1>6. \A b \in Bills : Covered(b)' <=> Covered(b) \/ b \in with BY <1>1, <1>3 DEF Covered
<1>7. LinesApart' BY <1>1, <1>3 DEF Books, LinesApart
<1>8. CoveredPaid' BY <1>1, <1>6 DEF Books, CoveredPaid
<1>9. Counted'
  <2> SUFFICES ASSUME NEW b \in Bills
               PROVE  /\ netsuite'[b] = "open" => payments'[b] = 0
                      /\ payments'[b] <= faults' + 1
                      /\ (\E g \in Procs : Plans(g, b)') =>
                            payments'[b] <= faults' + (IF Covered(b)' THEN 1 ELSE 0)
    BY DEF Counted
  <2>1. payments[b] \in Nat /\ faults \in Nat BY DEF TypeOK, PaymentsAssumption
  <2>2. CASE b \in with
    <3>1. payments[b] <= faults BY <1>4, <1>5, <2>1, <2>2 DEF Books, Counted
    <3>2. netsuite'[b] = "paid" /\ payments'[b] = payments[b] + 1 BY <1>1, <2>2
    <3> QED BY <1>1, <1>6, <2>1, <2>2, <3>1, <3>2
  <2>3. CASE b \notin with
    <3>1. netsuite'[b] = netsuite[b] /\ payments'[b] = payments[b] BY <1>1, <2>1, <2>3
    <3> QED BY <1>1, <1>3, <1>6, <2>3, <3>1 DEF Books, Counted
  <2> QED BY <2>2, <2>3
<1>10. SyncedIsPaid' BY <1>1 DEF Books, SyncedIsPaid
<1> QED BY <1>7, <1>8, <1>9, <1>10 DEF Books

\* The lines of a transaction are committed with the bills they settle.
LEMMA BooksCommit ==
  ASSUME PaymentsAssumption, TypeOK, Books, NEW h \in Procs, Commit(h)
  PROVE  Books'
<1> DEFINE with == proc[h].in.with
<1>1. /\ UNCHANGED <<netsuite, payments, faults>> /\ proc[h].pc = "applied"
      /\ lines' = lines \cup with
      /\ bill' = [b \in Bills |-> IF b \in with
                     THEN [bill[b] EXCEPT !.synced = TRUE, !.paid = TRUE] ELSE bill[b]]
      /\ Left(h, proc[h].todo)
  BY DEF Commit
<1>2. \A g \in Procs, b \in Bills :
         /\ Holds(g, b)' => g # h /\ Holds(g, b)
         /\ Applied(g, b)' <=> g # h /\ Applied(g, b)
         /\ Plans(g, b)' => Plans(g, b)
  BY <1>1, LeftPlans DEF TypeOK, Working
<1>3. \A b \in Bills : b \in with <=> Applied(h, b) BY <1>1 DEF Applied
<1>4. \A b \in Bills : b \in with => Holds(h, b) BY <1>1 DEF Holds
<1>5. \A b \in Bills : Covered(b)' <=> Covered(b) BY <1>1, <1>2, <1>3 DEF Covered
<1>6. LinesApart' BY <1>1, <1>2, <1>4 DEF Books, LinesApart
<1>7. CoveredPaid' BY <1>1, <1>5 DEF Books, CoveredPaid
<1>8. Counted' BY <1>1, <1>2, <1>5 DEF Books, Counted
<1>9. SyncedIsPaid'
  <2>1. \A b \in with : b \in Bills => netsuite[b] = "paid"
    BY <1>3 DEF Books, CoveredPaid, Covered
  <2> QED BY <1>1, <2>1 DEF Books, SyncedIsPaid
<1> QED BY <1>6, <1>7, <1>8, <1>9 DEF Books

\* A lost payment has no line, but a fault.
LEMMA BooksLost ==
  ASSUME PaymentsAssumption, TypeOK, Books, NEW h \in Procs, Lost(h) \/ Crash(h)
  PROVE  Books'
<1>1. UNCHANGED <<netsuite, payments, bill, lines>> /\ faults' = faults + 1
  BY DEF Lost, Crash, db
<1>2. \A g \in Procs, b \in Bills :
         /\ Holds(g, b)' => Holds(g, b)
         /\ Applied(g, b)' => Applied(g, b)
         /\ Plans(g, b)' => Plans(g, b)
  <2>1. CASE Lost(h) BY <2>1, LeftPlans DEF Lost, TypeOK, Working
  <2>2. CASE Crash(h) BY <2>2, SetParts DEF Crash, Idle, TypeOK, Holds, Applied, Plans, Working
  <2> QED BY <2>1, <2>2
<1>3. \A b \in Bills : Covered(b)' => Covered(b) BY <1>1, <1>2 DEF Covered
<1>4. LinesApart' BY <1>1, <1>2 DEF Books, LinesApart
<1>5. CoveredPaid' BY <1>1, <1>3 DEF Books, CoveredPaid
<1>6. Counted'
  <2>1. ASSUME NEW b \in Bills
        PROVE  payments[b] \in Nat /\ (netsuite[b] = "open" => payments[b] = 0) /\ payments[b] <= faults'
    BY <1>1 DEF Books, Counted, TypeOK
  <2>2. faults' \in Nat BY <1>1 DEF TypeOK, PaymentsAssumption
  <2> QED BY <1>1, <2>1, <2>2 DEF Counted
<1>7. SyncedIsPaid' BY <1>1 DEF Books, SyncedIsPaid
<1> QED BY <1>4, <1>5, <1>6, <1>7 DEF Books

\* The steps of a run before its transaction, and those it ends a payment with.
LEMMA BooksPays ==
  ASSUME PaymentsAssumption, TypeOK, TypeOK', Books, NEW h \in Procs,
         \/ StartPayments(h) \/ \E o \in Payment : Retire(h, o) \/ Skip(h, o) \/ Attempt(h, o)
         \/ Refuse(h)
  PROVE  Books'
<1>1. UNCHANGED <<netsuite, payments, lines, faults>>
  BY DEF StartPayments, Retire, Skip, Attempt, Refuse, db
<1>2. faults' >= faults BY <1>1 DEF TypeOK, PaymentsAssumption
<1>3. \A b \in Bills : bill'[b].synced \/ bill'[b].paid => bill[b].synced \/ bill[b].paid
  <2>1. ASSUME NEW o \in Payment, Retire(h, o), NEW b \in Bills
        PROVE  bill'[b].synced = bill[b].synced /\ bill'[b].paid = bill[b].paid
    BY <2>1 DEF Retire, TypeOK, Bill
  <2>2. StartPayments(h) \/ Refuse(h) \/ (\E o \in Payment : Skip(h, o) \/ Attempt(h, o))
           => bill' = bill
    BY DEF StartPayments, Skip, Attempt, Refuse, db
  <2> QED BY <2>1, <2>2
<1>4. CASE StartPayments(h)
  <2>1. PICK left \in SUBSET Payment :
           Left(h, left) /\ \A o \in left : \A b \in o.with : Payable(b)
    BY <1>4, StartedPayments
  <2>2. proc[h].pc = "idle" BY <1>4 DEF StartPayments, Begins
  <2>3. \A g \in Procs, b \in Bills :
           /\ Holds(g, b)' => Holds(g, b)
           /\ Applied(g, b)' <=> Applied(g, b)
    BY <2>1, <2>2, LeftParts DEF TypeOK, Holds, Applied
  <2>4. \A g \in Procs, b \in Bills : Plans(g, b)' => Plans(g, b) \/ netsuite[b] = "open"
    BY <2>1, <2>2, LeftParts DEF TypeOK, Plans, Payable, Working
  <2> QED BY <1>1, <1>2, <1>3, <2>3, <2>4, BooksKept
<1>5. ASSUME NEW o \in Payment, Retire(h, o) \/ Skip(h, o) PROVE Books'
  <2>1. proc[h].pc = "pay" /\ Left(h, proc[h].todo \ {o}) BY <1>5 DEF Retire, Skip
  <2>2. \A g \in Procs, b \in Bills :
           /\ Holds(g, b)' => Holds(g, b)
           /\ Applied(g, b)' <=> Applied(g, b)
           /\ Plans(g, b)' => Plans(g, b)
    <3>1. \A b \in Bills : ~Applied(h, b) BY <2>1 DEF Applied
    <3> QED BY <2>1, <3>1, LeftPlans DEF TypeOK, Working
  <2> QED BY <1>1, <1>2, <1>3, <2>2, BooksKept
<1>6. ASSUME NEW o \in Payment, Attempt(h, o) PROVE Books'
  <2>1. /\ proc[h].pc = "pay" /\ o \in proc[h].todo
        /\ proc'[h] = [pc |-> "lines", todo |-> proc[h].todo \ {o}, in |-> o]
        /\ \A g \in Procs : g # h => proc'[g] = proc[g]
    BY <1>6, SetParts DEF Attempt, TypeOK
  <2>2. \A g \in Procs, b \in Bills :
           /\ Holds(g, b)' => Holds(g, b)
           /\ Applied(g, b)' <=> Applied(g, b)
           /\ Plans(g, b)' => Plans(g, b)
    BY <2>1 DEF Holds, Applied, Plans, Working
  <2> QED BY <1>1, <1>2, <1>3, <2>2, BooksKept
<1>7. CASE Refuse(h)
  <2>1. proc[h].pc = "open" /\ Left(h, proc[h].todo) BY <1>7 DEF Refuse
  <2>2. \A g \in Procs, b \in Bills :
           /\ Holds(g, b)' => Holds(g, b)
           /\ Applied(g, b)' <=> Applied(g, b)
           /\ Plans(g, b)' => Plans(g, b)
    <3>1. \A b \in Bills : ~Applied(h, b) BY <2>1 DEF Applied
    <3> QED BY <2>1, <3>1, LeftPlans DEF TypeOK, Working
  <2> QED BY <1>1, <1>2, <1>3, <2>2, BooksKept
<1> QED BY <1>4, <1>5, <1>6, <1>7

\* A process that has less to do is at the same place.
LEMMA ExceptStatus ==
  ASSUME NEW p \in [pc: {"status"}, todo: SUBSET Bills, copy: [Bills -> Bill]], NEW t
  PROVE  [p EXCEPT !.todo = t].pc = p.pc
  OBVIOUS

LEMMA ExceptMark ==
  ASSUME NEW p \in [pc: {"mark", "marked"}, reports: SUBSET Reports, retry: 0..Retries]
  PROVE  /\ [p EXCEPT !.pc = "marked"].pc = "marked"
         /\ \A t, n : LET q == [p EXCEPT !.reports = t, !.retry = n]
                      IN  q.pc = p.pc /\ q.reports = t
  OBVIOUS

LEMMA OtherJobsSet ==
  ASSUME TypeOK, NEW h \in Procs,
         \/ StartStatus(h) \/ \E b \in Bills : Check(h, b)
         \/ StartMark(h) \/ MarkAll(h) \/ StoreMarked(h) \/ MarkSome(h) \/ MarkOutage(h)
  PROVE  proc[h].pc \notin Working /\ \E r : Set(h, r) /\ r.pc \notin Working
<1>1. proc[h] \in Proc BY DEF TypeOK
<1>2. proc[h].pc = "status" => \A t : [proc[h] EXCEPT !.todo = t].pc = "status"
  BY <1>1, ProcParts, ExceptStatus
<1>3. proc[h].pc = "mark" =>
        /\ [proc[h] EXCEPT !.pc = "marked"].pc = "marked"
        /\ \A t, n : [proc[h] EXCEPT !.reports = t, !.retry = n].pc = "mark"
  BY <1>1, ProcParts, ExceptMark
<1>4. CASE StartStatus(h) BY <1>4 DEF StartStatus, Begins, Idle, Working
<1>5. ASSUME NEW b \in Bills, Check(h, b)
      PROVE  proc[h].pc \notin Working /\ \E r : Set(h, r) /\ r.pc \notin Working
  <2> DEFINE left == proc[h].todo \ {b}
  <2>1. (IF left = {} THEN Idle ELSE [proc[h] EXCEPT !.todo = left]).pc \notin Working
    BY <1>2, <1>5 DEF Check, Idle, Working
  <2>2. Set(h, IF left = {} THEN Idle ELSE [proc[h] EXCEPT !.todo = left]) BY <1>5 DEF Check
  <2>3. proc[h].pc \notin Working BY <1>5 DEF Check, Working
  <2> QED BY <2>1, <2>2, <2>3
<1>6. CASE StartMark(h) BY <1>6 DEF StartMark, Begins, Idle, Working
<1>7. CASE MarkAll(h) BY <1>3, <1>7 DEF MarkAll, Working
<1>8. CASE StoreMarked(h) BY <1>8 DEF StoreMarked, Idle, Working
<1>9. ASSUME proc[h].pc = "mark", NEW left, Again(h, left)
      PROVE  \E r : Set(h, r) /\ r.pc \notin Working
  <2> DEFINE next == IF left = {} \/ proc[h].retry = 0 THEN Idle
                     ELSE [proc[h] EXCEPT !.reports = left, !.retry = @ - 1]
  <2>1. next.pc \notin Working BY <1>3, <1>9 DEF Idle, Working
  <2>2. Set(h, next) BY <1>9 DEF Again
  <2> QED BY <2>1, <2>2
<1>10. CASE MarkSome(h) \/ MarkOutage(h)
  <2>1. proc[h].pc = "mark" /\ ((\E left : Again(h, left)) \/ Set(h, Idle))
    BY <1>10 DEF MarkSome, MarkOutage
  <2> QED BY <1>9, <2>1 DEF Idle, Working
<1> QED BY <1>4, <1>5, <1>6, <1>7, <1>8, <1>10

\* Marking reports leaves NetSuite alone; a status check settles a bill it found paid.
LEMMA BooksOthers ==
  ASSUME PaymentsAssumption, TypeOK, TypeOK', Books, NEW h \in Procs,
         \/ StartStatus(h) \/ \E b \in Bills : Check(h, b)
         \/ StartMark(h) \/ MarkAll(h) \/ StoreMarked(h) \/ MarkSome(h) \/ MarkOutage(h)
  PROVE  Books'
<1>1. UNCHANGED <<netsuite, payments, lines>> /\ faults' \in {faults, faults + 1}
  BY DEF StartStatus, Check, StartMark, MarkAll, StoreMarked, MarkSome, MarkOutage, db
<1>2. faults' >= faults BY <1>1 DEF TypeOK, PaymentsAssumption
<1>3. \A b \in Bills : bill'[b].synced \/ bill'[b].paid =>
         bill[b].synced \/ bill[b].paid \/ netsuite[b] = "paid"
  <2>1. ASSUME NEW c \in Bills, Check(h, c), NEW b \in Bills
        PROVE  bill'[b] = bill[b] \/ netsuite[b] = "paid"
    BY <2>1 DEF Check, Found, TypeOK
  <2>2. StartStatus(h) \/ StartMark(h) \/ MarkAll(h) \/ StoreMarked(h) \/ MarkSome(h)
           \/ MarkOutage(h) => bill' = bill
    BY DEF StartStatus, StartMark, MarkAll, StoreMarked, MarkSome, MarkOutage, db
  <2> QED BY <2>1, <2>2
<1>4. proc[h].pc \notin Working /\ \E r : Set(h, r) /\ r.pc \notin Working
  BY OtherJobsSet
<1>5. PICK r : Set(h, r) /\ r.pc \notin Working BY <1>4
<1>6. \A g \in Procs, b \in Bills :
         /\ Holds(g, b)' <=> Holds(g, b)
         /\ Applied(g, b)' <=> Applied(g, b)
         /\ Plans(g, b)' <=> Plans(g, b)
  BY <1>4, <1>5, OtherJobs DEF TypeOK
<1> QED BY <1>1, <1>2, <1>3, <1>6, BooksKept

LEMMA BooksInit == ASSUME PaymentsAssumption, Init PROVE Books
<1>1. \A h \in Procs, b \in Bills : ~Holds(h, b) /\ ~Applied(h, b) /\ ~Plans(h, b)
  BY DEF Init, Idle, Holds, Applied, Plans, Working
<1>2. LinesApart /\ CoveredPaid BY <1>1 DEF Init, LinesApart, CoveredPaid, Covered
<1>3. Counted /\ SyncedIsPaid BY <1>1 DEF Init, Counted, SyncedIsPaid
<1> QED BY <1>2, <1>3 DEF Books

LEMMA BooksStep ==
  ASSUME PaymentsAssumption, TypeOK, Books, [Next]_vars
  PROVE  Books'
<1>0. TypeOK' BY TypedStep
<1>1. CASE UNCHANGED vars \/ Day \/ \E r \in Reports : PayReport(r)
  <2>1. UNCHANGED <<netsuite, payments, bill, lines, proc, faults>>
    BY <1>1 DEF vars, db, Day, PayReport
  <2>2. faults' >= faults BY <2>1 DEF TypeOK, PaymentsAssumption
  <2>3. \A g \in Procs, b \in Bills :
           /\ Holds(g, b)' <=> Holds(g, b)
           /\ Applied(g, b)' <=> Applied(g, b)
           /\ Plans(g, b)' <=> Plans(g, b)
    BY <2>1 DEF Holds, Applied, Plans
  <2> QED BY <1>0, <2>1, <2>2, <2>3, BooksKept
<1>2. ASSUME NEW h \in Procs, Step(h) PROVE Books'
  BY <1>0, <1>2, BooksPays, BooksInsert, BooksApply, BooksCommit, BooksLost, BooksOthers
     DEF Step, Pays
<1> QED BY <1>1, <1>2, BooksTreat DEF Next

\* A bill that the integration counts as settled is paid in NetSuite, whatever
\* runs overlap, crash or lose their answers.
THEOREM SettledIsPaid == ASSUME PaymentsAssumption PROVE Spec => []SyncedIsPaid
<1>1. Init => TypeOK /\ Books BY TypedInit, BooksInit
<1>2. TypeOK /\ Books /\ [Next]_vars => (TypeOK /\ Books)' BY TypedStep, BooksStep
<1>3. Books => SyncedIsPaid BY DEF Books
<1> QED BY <1>1, <1>2, <1>3, PTL DEF Spec

\* Overlapping runs and lost answers together pay a bill once, and once more for
\* each fault: a bill is paid again only when a payment was applied and its line lost.
Overpaid == \A b \in Bills : payments[b] <= 1 + faults

THEOREM OverpaidByFaults == ASSUME PaymentsAssumption PROVE Spec => []Overpaid
<1>1. Init => TypeOK /\ Books BY TypedInit, BooksInit
<1>2. TypeOK /\ Books /\ [Next]_vars => (TypeOK /\ Books)' BY TypedStep, BooksStep
<1>3. TypeOK /\ Books => Overpaid
  <2>1. TypeOK => faults \in Nat BY DEF TypeOK, PaymentsAssumption
  <2>2. Books => \A b \in Bills : payments[b] <= faults + 1 BY DEF Books, Counted
  <2> QED BY <2>1, <2>2 DEF Overpaid, TypeOK
<1> QED BY <1>1, <1>2, <1>3, PTL DEF Spec

\* One process plans each bill once, and only bills that are not paid.
PlannedOnce == \A h \in Procs :
    /\ \A b \in Bills : Plans(h, b) => payments[b] = 0
    /\ proc[h].pc \in Working => \A o, k \in proc[h].todo : o # k => o.with \cap k.with = {}
    /\ proc[h].pc \in Working \ {"pay"} => \A o \in proc[h].todo : o.with \cap proc[h].in.with = {}

OneProcess == \A g, h \in Procs : g = h

\* A run plans each bill in one payment, and only bills that are open.
LEMMA PlannedAtStart ==
  ASSUME TypeOK, Books, NEW h \in Procs, StartPayments(h)
  PROVE  /\ proc'[h].pc \in {"idle", "pay"}
         /\ proc'[h].pc = "pay" =>
              /\ \A o \in proc'[h].todo : \A b \in o.with : b \in Bills => payments[b] = 0
              /\ \A o, k \in proc'[h].todo : o # k => o.with \cap k.with = {}
<1>1. PICK left \in SUBSET Payment :
         /\ Left(h, left)
         /\ \A o \in left : /\ o.first \in o.with
                            /\ \A b \in o.with : Payable(b) /\ Entity[b] = Entity[o.first]
         /\ \A o, k \in left : Entity[o.first] = Entity[k.first] => o = k
  BY StartedPayments
<1>2. \A o \in left : \A b \in o.with : b \in Bills => payments[b] = 0
  BY <1>1 DEF Payable, Books, Counted
<1>3. \A o, k \in left : o # k => o.with \cap k.with = {} BY <1>1
<1> QED BY <1>1, <1>2, <1>3, LeftParts DEF TypeOK

LEMMA OnceStep ==
  ASSUME PaymentsAssumption, TypeOK, Books, OneProcess, PlannedOnce, PaidOnce, [Next]_vars
  PROVE  PlannedOnce' /\ PaidOnce'
<1>0. TypeOK' BY TypedStep
<1>1. \A h \in Procs : proc[h] \in Proc BY DEF TypeOK
<1>2. CASE UNCHANGED vars \/ Day \/ \E r \in Reports : PayReport(r)
  <2>1. UNCHANGED <<payments, proc>> BY <1>2 DEF vars, db, Day, PayReport
  <2> QED BY <2>1 DEF PlannedOnce, PaidOnce, Plans
<1>3. ASSUME NEW b \in Bills, NEW how \in {"paid", "deleted"}, Treat(b, how)
      PROVE  PlannedOnce' /\ PaidOnce'
  <2>1. proc' = proc /\ \A h \in Procs : proc[h].pc = "idle" BY <1>3 DEF Treat, AllIdle
  <2>2. PlannedOnce' BY <2>1 DEF PlannedOnce, Plans, Working
  <2>3. PaidOnce' BY <1>3 DEF Treat, PaidOnce, TypeOK
  <2> QED BY <2>2, <2>3
<1>4. ASSUME NEW h \in Procs, Pays(h) PROVE PlannedOnce' /\ PaidOnce'
  <2>0. \A g \in Procs : g = h BY DEF OneProcess
  <2>1. CASE StartPayments(h)
    <3>1. payments' = payments BY <2>1 DEF StartPayments
    <3>2. PlannedOnce' BY <2>0, <2>1, <3>1, PlannedAtStart DEF PlannedOnce, Plans, Working
    <3> QED BY <3>1, <3>2 DEF PaidOnce
  <2>2. ASSUME payments' = payments, proc[h].pc \in Working,
               NEW left \in SUBSET proc[h].todo, Left(h, left)
        PROVE  PlannedOnce' /\ PaidOnce'
    <3>1. /\ proc'[h].pc \in {"idle", "pay"}
          /\ proc'[h].pc = "pay" => proc'[h].todo = left
      BY <2>2, LeftParts DEF TypeOK
    <3>2. \A b \in Bills : Plans(h, b)' => Plans(h, b) BY <2>2, LeftPlans DEF TypeOK
    <3>3. PlannedOnce' BY <2>0, <2>2, <3>1, <3>2 DEF PlannedOnce, Working
    <3> QED BY <2>2, <3>3 DEF PaidOnce
  <2>3. ASSUME NEW o \in Payment, Retire(h, o) \/ Skip(h, o) PROVE PlannedOnce' /\ PaidOnce'
    <3>1. /\ payments' = payments /\ proc[h].pc = "pay" /\ Left(h, proc[h].todo \ {o})
          /\ proc[h].todo \ {o} \in SUBSET proc[h].todo
      BY <2>3 DEF Retire, Skip
    <3> QED BY <2>2, <3>1 DEF Working
  <2>4. ASSUME NEW o \in Payment, Attempt(h, o) PROVE PlannedOnce' /\ PaidOnce'
    <3>1. /\ payments' = payments /\ proc[h].pc = "pay" /\ o \in proc[h].todo
          /\ proc'[h] = [pc |-> "lines", todo |-> proc[h].todo \ {o}, in |-> o]
      BY <2>4, SetParts DEF Attempt, TypeOK
    <3>2. \A b \in Bills : Plans(h, b)' => Plans(h, b) BY <3>1 DEF Plans, Working
    <3>3. PlannedOnce' BY <2>0, <3>1, <3>2 DEF PlannedOnce, Working
    <3> QED BY <3>1, <3>3 DEF PaidOnce
  <2>5. CASE Refuse(h) \/ Commit(h) \/ Lost(h) \/ (Insert(h) /\ HasLine(proc[h].in))
    <3>1. /\ payments' = payments /\ proc[h].pc \in Working /\ Left(h, proc[h].todo)
          /\ proc[h].todo \in SUBSET proc[h].todo
      BY <2>5 DEF Refuse, Commit, Lost, Insert, Working
    <3> QED BY <2>2, <3>1
  <2>6. ASSUME proc[h].pc \in {"lines", "open"}, NEW at \in {"open", "applied"},
               Set(h, [proc[h] EXCEPT !.pc = at])
        PROVE  proc'[h].pc = at /\ proc'[h].in = proc[h].in /\ proc'[h].todo = proc[h].todo
    <3>1. proc[h] \in [pc: {"lines", "open", "applied"}, todo: SUBSET Payment, in: Payment]
      BY <1>1, <2>6, ProcParts
    <3> QED BY <2>6, <3>1, SetParts DEF TypeOK
  <2>7. CASE Insert(h) /\ ~HasLine(proc[h].in)
    <3>1. /\ payments' = payments /\ proc[h].pc = "lines" /\ proc'[h].pc = "open"
          /\ proc'[h].in = proc[h].in /\ proc'[h].todo = proc[h].todo
      BY <2>6, <2>7 DEF Insert
    <3> QED BY <2>0, <3>1 DEF PlannedOnce, PaidOnce, Plans, Working
  <2>8. CASE Apply(h)
    <3>1. /\ proc[h].pc = "open" /\ proc'[h].pc = "applied"
          /\ proc'[h].in = proc[h].in /\ proc'[h].todo = proc[h].todo
          /\ payments' = [b \in Bills |-> payments[b] + IF b \in proc[h].in.with THEN 1 ELSE 0]
      BY <2>6, <2>8 DEF Apply
    <3>2. \A b \in Bills : b \in proc[h].in.with => payments[b] = 0 /\ payments'[b] = 1
      BY <3>1 DEF PlannedOnce, Plans
    <3>3. \A b \in Bills : b \notin proc[h].in.with => payments'[b] = payments[b]
      BY <3>1 DEF TypeOK
    <3>4. PaidOnce' BY <3>2, <3>3 DEF PaidOnce
    <3>5. \A b \in Bills : Plans(h, b)' => Plans(h, b) /\ b \notin proc[h].in.with
      BY <3>1 DEF Plans, PlannedOnce, Working
    <3>6. PlannedOnce' BY <2>0, <3>1, <3>3, <3>5 DEF PlannedOnce, Working
    <3> QED BY <3>4, <3>6
  <2> QED BY <1>4, <2>1, <2>3, <2>4, <2>5, <2>7, <2>8 DEF Pays
<1>5. ASSUME NEW h \in Procs, payments' = payments, proc'[h].pc \notin Working
      PROVE  PlannedOnce' /\ PaidOnce'
  BY <1>5 DEF OneProcess, PlannedOnce, PaidOnce, Plans, Working
<1>6. ASSUME NEW h \in Procs,
             \/ StartStatus(h) \/ \E b \in Bills : Check(h, b)
             \/ StartMark(h) \/ MarkAll(h) \/ StoreMarked(h) \/ MarkSome(h) \/ MarkOutage(h)
      PROVE  PlannedOnce' /\ PaidOnce'
  <2>1. payments' = payments
    BY <1>6 DEF StartStatus, Check, StartMark, MarkAll, StoreMarked, MarkSome, MarkOutage
  <2>2. PICK r : Set(h, r) /\ r.pc \notin Working BY <1>6, OtherJobsSet
  <2> QED BY <1>5, <2>1, <2>2, SetParts DEF TypeOK
<1>7. ASSUME NEW h \in Procs, Crash(h) PROVE PlannedOnce' /\ PaidOnce'
  <2>1. payments' = payments /\ proc'[h].pc = "idle"
    BY <1>7, SetParts DEF Crash, TypeOK, Idle
  <2> QED BY <1>5, <2>1 DEF Working
<1> QED BY <1>2, <1>3, <1>4, <1>6, <1>7 DEF Next, Step

LEMMA OnceOnly ==
  ASSUME PaymentsAssumption, OneProcess \/ MaxFaults = 0
  PROVE  Spec => []PaidOnce
<1>1. CASE MaxFaults = 0
  <2>1. Init => TypeOK /\ Books BY TypedInit, BooksInit
  <2>2. TypeOK /\ Books /\ [Next]_vars => (TypeOK /\ Books)' BY TypedStep, BooksStep
  <2>3. TypeOK /\ Books => PaidOnce
    <3>1. TypeOK => faults = 0 BY <1>1 DEF TypeOK
    <3>2. Books => \A b \in Bills : payments[b] <= faults + 1 BY DEF Books, Counted
    <3> QED BY <3>1, <3>2 DEF PaidOnce
  <2> QED BY <2>1, <2>2, <2>3, PTL DEF Spec
<1>2. CASE OneProcess
  <2>1. Init => TypeOK /\ Books BY TypedInit, BooksInit
  <2>2. Init => PlannedOnce /\ PaidOnce
    BY DEF Init, Idle, PlannedOnce, PaidOnce, Plans, Working
  <2>3. TypeOK /\ Books /\ PlannedOnce /\ PaidOnce /\ [Next]_vars
           => (TypeOK /\ Books /\ PlannedOnce /\ PaidOnce)'
    BY <1>2, TypedStep, BooksStep, OnceStep
  <2> QED BY <2>1, <2>2, <2>3, PTL DEF Spec
<1> QED BY <1>1, <1>2

\* A bill is paid once, and what counts as settled is paid, when one process takes the
\* messages, whatever is lost and whenever it crashes; and for any number of processes
\* when nothing fails, because the unique lines stop the second of two payments.
THEOREM PaysOnce ==
  ASSUME PaymentsAssumption, OneProcess \/ MaxFaults = 0
  PROVE  Spec => []SettledOnce
<1>1. Spec => []PaidOnce BY OnceOnly
<1>2. Spec => []SyncedIsPaid BY SettledIsPaid
<1> QED BY <1>1, <1>2, PTL DEF SettledOnce
-----------------------------------------------------------------------------
(* Fyle's side.                                                            *)

\* h marks the report of b as paid
Marks(h, b) == proc[h].pc \in {"mark", "marked"} /\ Report[b] \in proc[h].reports

Reconciled == \A b \in Bills :
    /\ expense[b].netsuite => netsuite[b] = "paid"
    /\ expense[b].fyle => Report[b] \in fylePaid \/ netsuite[b] = "paid"
    /\ \A h \in Procs :
          /\ Plans(h, b) => Report[b] \in fylePaid
          /\ Marks(h, b) => netsuite[b] = "paid"

\* Nothing takes a payment back, in Fyle or in NetSuite.
LEMMA PaidStays ==
  ASSUME TypeOK, [Next]_vars
  PROVE  /\ fylePaid \subseteq fylePaid'
         /\ \A b \in Bills : netsuite[b] = "paid" => netsuite'[b] = "paid"
<1>1. CASE UNCHANGED vars \/ Day \/ (\E r \in Reports : PayReport(r))
  BY <1>1 DEF vars, Day, PayReport
<1>2. ASSUME NEW b \in Bills, NEW how \in {"paid", "deleted"}, Treat(b, how)
      PROVE  fylePaid' = fylePaid /\ \A c \in Bills : netsuite[c] = "paid" => netsuite'[c] = "paid"
  BY <1>2 DEF Treat, TypeOK
<1>3. ASSUME NEW h \in Procs, Step(h)
      PROVE  /\ fylePaid \subseteq fylePaid'
             /\ \A b \in Bills : netsuite[b] = "paid" => netsuite'[b] = "paid"
  <2>1. CASE Pays(h) /\ ~Apply(h)
    BY <2>1 DEF Pays, StartPayments, Retire, Skip, Attempt, Insert, Refuse, Commit, Lost
  <2>2. CASE Apply(h) BY <2>2 DEF Apply
  <2>3. CASE ~Pays(h)
    BY <1>3, <2>3 DEF Step, StartStatus, Check, StartMark, MarkAll, StoreMarked, MarkSome,
       MarkOutage, Crash
  <2> QED BY <2>1, <2>2, <2>3 DEF Pays
<1> QED BY <1>1, <1>2, <1>3 DEF Next

LEMMA ReconciledKept ==
  ASSUME Reconciled,
         fylePaid \subseteq fylePaid',
         \A b \in Bills : netsuite[b] = "paid" => netsuite'[b] = "paid",
         \A b \in Bills :
             /\ expense'[b].netsuite => expense[b].netsuite \/ netsuite'[b] = "paid"
             /\ expense'[b].fyle =>
                   expense[b].fyle \/ Report[b] \in fylePaid' \/ netsuite'[b] = "paid",
         \A h \in Procs, b \in Bills :
             /\ Plans(h, b)' => Plans(h, b) \/ Report[b] \in fylePaid'
             /\ Marks(h, b)' => Marks(h, b) \/ netsuite'[b] = "paid"
  PROVE  Reconciled'
  BY DEF Reconciled

\* Runs of payments: what is planned is payable, and paid in Fyle if it is open.
LEMMA ReconciledPays ==
  ASSUME TypeOK, Reconciled, [Next]_vars, NEW h \in Procs, Pays(h)
  PROVE  Reconciled'
<1>1. /\ fylePaid \subseteq fylePaid'
      /\ \A b \in Bills : netsuite[b] = "paid" => netsuite'[b] = "paid"
  BY PaidStays
<1>2. CASE StartPayments(h)
  <2>1. /\ fylePaid' = fylePaid
        /\ expense' = [b \in Bills |->
              IF \E c \in Unpaid : Report[c] = Report[b] /\ Report[c] \in fylePaid
              THEN [expense[b] EXCEPT !.fyle = TRUE] ELSE expense[b]]
    BY <1>2 DEF StartPayments
  <2>2. \A b \in Bills :
           /\ expense'[b].netsuite => expense[b].netsuite
           /\ expense'[b].fyle => expense[b].fyle \/ Report[b] \in fylePaid'
    BY <2>1 DEF TypeOK, Expense
  <2>3. PICK left \in SUBSET Payment :
           Left(h, left) /\ \A o \in left : \A b \in o.with : Payable(b)
    BY <1>2, StartedPayments
  <2>4. \A b \in Bills : Payable(b) => Report[b] \in fylePaid'
    BY <1>1 DEF Payable, Reimbursed, Reconciled
  <2>5. \A g \in Procs, b \in Bills :
           /\ Plans(g, b)' => Plans(g, b) \/ Report[b] \in fylePaid'
           /\ Marks(g, b)' => Marks(g, b)
    BY <2>3, <2>4, LeftParts DEF TypeOK, Plans, Marks, Working
  <2> QED BY <1>1, <2>2, <2>5, ReconciledKept
<1>3. CASE ~StartPayments(h)
  <2>1. expense' = expense
    BY <1>3 DEF Pays, Retire, Skip, Attempt, Insert, Refuse, Apply, Commit, Lost, db
  <2>2. ASSUME proc[h].pc \in Working, NEW left \in SUBSET proc[h].todo, Left(h, left)
        PROVE  Reconciled'
    <3>1. \A g \in Procs, b \in Bills : Plans(g, b)' => Plans(g, b)
      BY <2>2, LeftPlans DEF TypeOK
    <3>2. \A g \in Procs, b \in Bills : Marks(g, b)' => Marks(g, b)
      BY <2>2, LeftParts DEF TypeOK, Marks
    <3> QED BY <1>1, <2>1, <3>1, <3>2, ReconciledKept
  <2>3. ASSUME NEW o \in Payment, Retire(h, o) \/ Skip(h, o) PROVE Reconciled'
    <3>1. /\ proc[h].pc = "pay" /\ Left(h, proc[h].todo \ {o})
          /\ proc[h].todo \ {o} \in SUBSET proc[h].todo
      BY <2>3 DEF Retire, Skip
    <3> QED BY <2>2, <3>1 DEF Working
  <2>4. ASSUME NEW o \in Payment, Attempt(h, o) PROVE Reconciled'
    <3>1. /\ proc[h].pc = "pay" /\ o \in proc[h].todo
          /\ proc'[h] = [pc |-> "lines", todo |-> proc[h].todo \ {o}, in |-> o]
          /\ \A g \in Procs : g # h => proc'[g] = proc[g]
      BY <2>4, SetParts DEF Attempt, TypeOK
    <3>2. \A g \in Procs, b \in Bills :
             /\ Plans(g, b)' => Plans(g, b)
             /\ Marks(g, b)' => Marks(g, b)
      BY <3>1 DEF Plans, Marks, Working
    <3> QED BY <1>1, <2>1, <3>2, ReconciledKept
  <2>5. CASE Refuse(h) \/ Commit(h) \/ Lost(h) \/ (Insert(h) /\ HasLine(proc[h].in))
    <3>1. /\ proc[h].pc \in Working /\ Left(h, proc[h].todo)
          /\ proc[h].todo \in SUBSET proc[h].todo
      BY <2>5 DEF Refuse, Commit, Lost, Insert, Working
    <3> QED BY <2>2, <3>1
  <2>6. CASE Apply(h) \/ (Insert(h) /\ ~HasLine(proc[h].in))
    <3>1. /\ proc[h].pc \in {"lines", "open"}
          /\ \E at \in {"open", "applied"} : Set(h, [proc[h] EXCEPT !.pc = at])
      BY <2>6 DEF Apply, Insert
    <3>2. proc[h] \in [pc: {"lines", "open", "applied"}, todo: SUBSET Payment, in: Payment]
      BY <3>1, ProcParts DEF TypeOK
    <3>3. /\ proc'[h].pc \in {"open", "applied"}
          /\ proc'[h].in = proc[h].in /\ proc'[h].todo = proc[h].todo
          /\ \A g \in Procs : g # h => proc'[g] = proc[g]
      BY <3>1, <3>2, SetParts DEF TypeOK
    <3>4. \A g \in Procs, b \in Bills :
             /\ Plans(g, b)' => Plans(g, b)
             /\ Marks(g, b)' => Marks(g, b)
      BY <3>1, <3>3 DEF Plans, Marks, Working
    <3> QED BY <1>1, <2>1, <3>4, ReconciledKept
  <2> QED BY <1>3, <2>3, <2>4, <2>5, <2>6 DEF Pays
<1> QED BY <1>2, <1>3

\* Status checks and marking: a report is marked when all its bills are paid.
LEMMA ReconciledOthers ==
  ASSUME TypeOK, Reconciled, [Next]_vars, NEW h \in Procs,
         \/ StartStatus(h) \/ \E b \in Bills : Check(h, b)
         \/ StartMark(h) \/ MarkAll(h) \/ StoreMarked(h) \/ MarkSome(h) \/ MarkOutage(h)
  PROVE  Reconciled'
<1>1. /\ fylePaid \subseteq fylePaid'
      /\ \A b \in Bills : netsuite[b] = "paid" => netsuite'[b] = "paid"
  BY PaidStays
<1>2. \A g \in Procs, b \in Bills : Plans(g, b)' => Plans(g, b)
  <2>1. PICK r : Set(h, r) /\ r.pc \notin Working BY OtherJobsSet
  <2> QED BY <2>1, OtherJobs, OtherJobsSet DEF TypeOK
<1>3. ASSUME NEW rs \in SUBSET proc[h].reports, proc[h].pc \in {"mark", "marked"}, MarkedInFyle(rs)
      PROVE  \A b \in Bills :
                /\ expense'[b].netsuite => expense[b].netsuite
                /\ expense'[b].fyle => expense[b].fyle \/ netsuite'[b] = "paid"
  <2>1. \A b \in Bills : Report[b] \in rs => netsuite'[b] = "paid"
    BY <1>1, <1>3 DEF Reconciled, Marks
  <2> QED BY <1>3, <2>1 DEF MarkedInFyle, TypeOK, Expense
<1>4. ASSUME NEW r, Set(h, r), r.pc \notin {"mark", "marked"}
      PROVE  \A g \in Procs, b \in Bills : Marks(g, b)' => Marks(g, b)
  BY <1>4, SetParts DEF TypeOK, Marks
<1>5. ASSUME proc[h].pc = "mark", NEW rs \in SUBSET proc[h].reports, Again(h, rs)
      PROVE  \A g \in Procs, b \in Bills : Marks(g, b)' => Marks(g, b)
  <2>1. proc[h] \in [pc: {"mark", "marked"}, reports: SUBSET Reports, retry: 0..Retries]
    BY <1>5, ProcParts DEF TypeOK
  <2> DEFINE next == IF rs = {} \/ proc[h].retry = 0 THEN Idle
                     ELSE [proc[h] EXCEPT !.reports = rs, !.retry = @ - 1]
  <2>2. next = Idle \/ (next.pc = "mark" /\ next.reports = rs) BY <1>5, <2>1, ExceptMark
  <2>4. Set(h, next) BY <1>5 DEF Again
  <2> HIDE DEF next
  <2>5. proc'[h] = next BY <2>4, SetParts DEF TypeOK
  <2>3. \A g \in Procs : g # h => proc'[g] = proc[g] BY <1>5, SetParts DEF Again, TypeOK
  <2> QED BY <1>5, <2>2, <2>3, <2>5 DEF Marks, Idle
<1>6. CASE StartStatus(h)
  <2>1. expense' = expense BY <1>6 DEF StartStatus, db
  <2>2. \A g \in Procs, b \in Bills : Marks(g, b)' => Marks(g, b)
    BY <1>4, <1>6 DEF StartStatus, Idle
  <2> QED BY <1>1, <1>2, <2>1, <2>2, ReconciledKept
<1>7. ASSUME NEW b \in Bills, Check(h, b) PROVE Reconciled'
  <2>1. \A c \in Bills :
           /\ expense'[c].netsuite => expense[c].netsuite \/ netsuite'[c] = "paid"
           /\ expense'[c].fyle => expense[c].fyle
    <3>1. CASE ~Found(b) BY <1>7, <3>1 DEF Check
    <3>2. CASE Found(b)
      <4>1. expense' = [expense EXCEPT ![b].netsuite = TRUE] /\ netsuite'[b] = "paid"
        BY <1>1, <1>7, <3>2 DEF Check, Found
      <4> QED BY <4>1 DEF TypeOK, Expense
    <3> QED BY <3>1, <3>2
  <2>2. proc[h] \in [pc: {"status"}, todo: SUBSET Bills, copy: [Bills -> Bill]]
    BY <1>7, ProcParts DEF TypeOK, Check
  <2>3. \E r : Set(h, r) /\ r.pc \notin {"mark", "marked"}
    <3> DEFINE r == IF proc[h].todo \ {b} = {} THEN Idle
                    ELSE [proc[h] EXCEPT !.todo = proc[h].todo \ {b}]
    <3>1. Set(h, r) BY <1>7 DEF Check
    <3>2. r.pc \notin {"mark", "marked"} BY <2>2, ExceptStatus DEF Idle
    <3> QED BY <3>1, <3>2
  <2>4. \A g \in Procs, c \in Bills : Marks(g, c)' => Marks(g, c) BY <1>4, <2>3
  <2> QED BY <1>1, <1>2, <2>1, <2>4, ReconciledKept
<1>8. CASE StartMark(h)
  <2> DEFINE due == {r \in Reports : PaidInFull(r) /\ \E b \in Bills : Report[b] = r /\ ~expense[b].fyle}
  <2>1. expense' = expense BY <1>8 DEF StartMark, db
  <2>2. \A b \in Bills : Report[b] \in due => netsuite'[b] = "paid"
    BY <1>1 DEF PaidInFull, Reconciled
  <2>3. /\ proc'[h] = Idle \/ (proc'[h].pc = "mark" /\ proc'[h].reports = due)
        /\ \A g \in Procs : g # h => proc'[g] = proc[g]
    BY <1>8, SetParts DEF StartMark, TypeOK
  <2>4. \A g \in Procs, b \in Bills : Marks(g, b)' => Marks(g, b) \/ netsuite'[b] = "paid"
    BY <2>2, <2>3 DEF Marks, Idle
  <2> QED BY <1>1, <1>2, <2>1, <2>4, ReconciledKept
<1>9. CASE MarkAll(h)
  <2>1. expense' = expense /\ proc[h].pc = "mark" BY <1>9 DEF MarkAll, db
  <2>2. proc[h] \in [pc: {"mark", "marked"}, reports: SUBSET Reports, retry: 0..Retries]
    BY <2>1, ProcParts DEF TypeOK
  <2>3. /\ proc'[h].pc = "marked" /\ proc'[h].reports = proc[h].reports
        /\ \A g \in Procs : g # h => proc'[g] = proc[g]
    BY <1>9, <2>2, SetParts DEF MarkAll, TypeOK
  <2>4. \A g \in Procs, b \in Bills : Marks(g, b)' => Marks(g, b) BY <2>1, <2>3 DEF Marks
  <2> QED BY <1>1, <1>2, <2>1, <2>4, ReconciledKept
<1>10. CASE StoreMarked(h)
  <2>1. \A g \in Procs, b \in Bills : Marks(g, b)' => Marks(g, b)
    BY <1>4, <1>10 DEF StoreMarked, Idle
  <2> QED BY <1>1, <1>2, <1>3, <1>10, <2>1, ReconciledKept DEF StoreMarked
<1>11. CASE MarkSome(h)
  <2>1. /\ proc[h].pc = "mark" /\ MarkedInFyle(Stored(proc[h].reports))
        /\ Again(h, proc[h].reports \ Rejected(proc[h].reports))
    BY <1>11 DEF MarkSome
  <2>2. /\ Stored(proc[h].reports) \in SUBSET proc[h].reports
        /\ proc[h].reports \ Rejected(proc[h].reports) \in SUBSET proc[h].reports
    BY DEF Stored, Rejected
  <2> QED BY <1>1, <1>2, <1>3, <1>5, <2>1, <2>2, ReconciledKept
<1>12. CASE MarkOutage(h)
  <2>1. /\ proc[h].pc = "mark" /\ expense' = expense
        /\ Again(h, proc[h].reports) \/ Set(h, Idle)
    BY <1>12 DEF MarkOutage, db
  <2>2. \A g \in Procs, b \in Bills : Marks(g, b)' => Marks(g, b)
    BY <1>4, <1>5, <2>1 DEF Idle
  <2> QED BY <1>1, <1>2, <2>1, <2>2, ReconciledKept
<1> QED BY <1>6, <1>7, <1>8, <1>9, <1>10, <1>11, <1>12

LEMMA ReconciledStep == ASSUME TypeOK, Reconciled, [Next]_vars PROVE Reconciled'
<1>1. /\ fylePaid \subseteq fylePaid'
      /\ \A b \in Bills : netsuite[b] = "paid" => netsuite'[b] = "paid"
  BY PaidStays
<1>2. CASE \/ UNCHANGED vars \/ Day \/ \E r \in Reports : PayReport(r)
           \/ \E b \in Bills, how \in {"paid", "deleted"} : Treat(b, how)
  <2>1. UNCHANGED <<expense, proc>> BY <1>2 DEF vars, db, Day, PayReport, Treat
  <2>2. \A g \in Procs, b \in Bills :
           /\ Plans(g, b)' => Plans(g, b)
           /\ Marks(g, b)' => Marks(g, b)
    BY <2>1 DEF Plans, Marks
  <2> QED BY <1>1, <2>1, <2>2, ReconciledKept
<1>3. ASSUME NEW h \in Procs, Crash(h) PROVE Reconciled'
  <2>1. expense' = expense BY <1>3 DEF Crash, db
  <2>2. \A g \in Procs, b \in Bills :
           /\ Plans(g, b)' => Plans(g, b)
           /\ Marks(g, b)' => Marks(g, b)
    BY <1>3, SetParts DEF Crash, TypeOK, Idle, Plans, Marks, Working
  <2> QED BY <1>1, <2>1, <2>2, ReconciledKept
<1>4. ASSUME NEW h \in Procs, Step(h) PROVE Reconciled'
  BY <1>3, <1>4, ReconciledPays, ReconciledOthers DEF Step
<1> QED BY <1>2, <1>4 DEF Next

LEMMA ReconciledInit == ASSUME Init PROVE Reconciled
  BY DEF Init, Idle, Reconciled, Plans, Marks, Working

\* Neither side is paid before the other.  NetSuite is told to pay only bills of reports
\* paid in Fyle: a report that is stored as paid because Fyle refused to mark it does
\* not break that, since its bills are paid in NetSuite, and a payment is planned for
\* open bills only.  And a report is marked as paid in Fyle only when NetSuite has paid
\* each of its bills, also when they were read a while before, and after retries.
THEOREM OnlyPaid == ASSUME PaymentsAssumption PROVE Spec => PaysOnlyPaid
<1>1. Init => TypeOK /\ Reconciled BY TypedInit, ReconciledInit
<1>2. TypeOK /\ Reconciled /\ [Next]_vars => (TypeOK /\ Reconciled)'
  BY TypedStep, ReconciledStep
<1>3. Reconciled => [PaysOnlyReimbursed]_vars
  BY DEF Reconciled, PaysOnlyReimbursed, Apply, Plans
<1>4. Reconciled => [PaysWholeReports]_vars
  BY DEF Reconciled, PaysWholeReports, MarkAll, MarkSome, Marks
<1> QED BY <1>1, <1>2, <1>3, <1>4, PTL DEF Spec, PaysOnlyPaid
-----------------------------------------------------------------------------
(* The calendar.                                                           *)

\* most attempts, extra runs aside, when the last one was at age t
Base(t) == IF t < Month THEN 1 + t \div Week
           ELSE IF t < 2 * Month THEN 2 + (Month - 1) \div Week ELSE 3 + (Month - 1) \div Week

\* processes that may yet try a payment with b in its unique_id
Pending(b) == {h \in Procs : proc[h].pc \in Working /\ \E o \in proc[h].todo : o.first = b}

\* A vendor has one payment in a run.
FirstsDiffer == \A h \in Procs : proc[h].pc \in Working =>
    \A o, k \in proc[h].todo : o.first = k.first => o = k

\* The days on which the strict comparisons let every run try again count the
\* runs, and a day without a run has seen no attempt.
OnTime(b) ==
    /\ ~row[b].made => attempts[b] = 0
    /\ attempts[b] <= Base(2 * Month) + extra
    /\ row[b].made /\ row[b].created <= 2 * Month =>
          attempts[b] <= Base(row[b].created - row[b].updated) + extra
    /\ row[b].made /\ row[b].created \in {Month, 2 * Month} /\ "pay" \in ran =>
          attempts[b] + Cardinality(Pending(b)) <= Base(row[b].created) + extra
    /\ "pay" \notin ran => Pending(b) = {} /\ (row[b].made => row[b].updated > 0)

InTime == FirstsDiffer /\ \A b \in Bills : OnTime(b)

\* More attempts fit into more days.
LEMMA BaseGrows ==
  ASSUME PaymentsAssumption, NEW t \in Nat, NEW u \in Nat, t <= u
  PROVE  Base(t) \in Nat /\ Base(u) \in Nat /\ Base(t) <= Base(u)
<1>1. Week \in Nat \ {0} /\ Month \in Nat \ {0} BY DEF PaymentsAssumption
<1>2. \A k \in Nat : k \div Week \in Nat BY <1>1
<1>3. \A k, n \in Nat : k <= n => k \div Week <= n \div Week BY <1>1
<1>4. Month - 1 \in Nat BY <1>1
<1>5. Base(t) \in Nat /\ Base(u) \in Nat BY <1>1, <1>2, <1>4 DEF Base
<1>6. t < Month => t \div Week <= (Month - 1) \div Week BY <1>1, <1>3, <1>4
<1>7. t \div Week <= u \div Week BY <1>3
<1> HIDE DEF Base
<1>8. t \div Week \in Nat /\ u \div Week \in Nat /\ (Month - 1) \div Week \in Nat BY <1>2, <1>4
<1> QED BY <1>1, <1>5, <1>6, <1>7, <1>8 DEF Base

\* A week later there is room for an attempt, in the first month.
LEMMA RoomInAWeek ==
  ASSUME PaymentsAssumption, NEW t \in Nat, NEW u \in Nat, t + Week <= u, u < Month
  PROVE  Base(t) + 1 <= Base(u)
<1>1. Week \in Nat \ {0} /\ Month \in Nat \ {0} BY DEF PaymentsAssumption
<1>2. t \div Week \in Nat /\ u \div Week \in Nat /\ t \div Week + 1 <= u \div Week BY <1>1
<1> QED BY <1>1, <1>2 DEF Base

\* So there is when the first month is over, and when the second is.
LEMMA RoomInAMonth ==
  ASSUME PaymentsAssumption, NEW t \in Nat, NEW u \in Nat, t < u,
         (t < Month /\ Month <= u) \/ u = 2 * Month
  PROVE  Base(t) + 1 <= Base(u)
<1>1. Week \in Nat \ {0} /\ Month \in Nat \ {0} BY DEF PaymentsAssumption
<1>2. Month - 1 \in Nat /\ (Month - 1) \div Week \in Nat BY <1>1
<1>3. t < Month => t \div Week \in Nat /\ t \div Week <= (Month - 1) \div Week BY <1>1
<1> QED BY <1>1, <1>2, <1>3 DEF Base

LEMMA PendingFinite ==
  ASSUME PaymentsAssumption, NEW b
  PROVE  IsFiniteSet(Pending(b)) /\ Cardinality(Pending(b)) \in Nat
  BY FS_Subset, FS_CardinalityType DEF Pending, PaymentsAssumption

\* A step that tries no payment and starts no run of payments.
LEMMA OnTimeKept ==
  ASSUME PaymentsAssumption, TypeOK, NEW b \in Bills, OnTime(b),
         UNCHANGED <<row, attempts>>, extra' \in Nat, extra' >= extra,
         "pay" \in ran' <=> "pay" \in ran, Pending(b)' \subseteq Pending(b)
  PROVE  OnTime(b)'
<1>1. attempts[b] \in Nat /\ extra \in Nat BY DEF TypeOK, PaymentsAssumption
<1>2. Base(2 * Month) \in Nat BY BaseGrows DEF PaymentsAssumption
<1>3. row[b].made => row[b].created \in Nat /\ row[b].updated \in Nat /\ row[b].updated <= row[b].created
  BY DEF TypeOK, Row, Old, PaymentsAssumption
<1>4. row[b].made => Base(row[b].created) \in Nat /\ Base(row[b].created - row[b].updated) \in Nat
  BY <1>3, BaseGrows
<1>5. Cardinality(Pending(b)') \in Nat /\ Cardinality(Pending(b)) \in Nat
        /\ Cardinality(Pending(b)') <= Cardinality(Pending(b))
  <2>1. IsFiniteSet(Pending(b)) BY PendingFinite
  <2> QED BY <2>1, FS_Subset, FS_CardinalityType
<1> QED BY <1>1, <1>2, <1>4, <1>5 DEF OnTime

\* A day passes: an attempt keeps the age it was made at.
LEMMA InTimeDay ==
  ASSUME PaymentsAssumption, TypeOK, InTime, Day
  PROVE  InTime'
<1>1. /\ UNCHANGED <<attempts, proc, extra>> /\ ran' = {} /\ \A h \in Procs : proc[h].pc = "idle"
      /\ \A b \in Bills : row'[b] = Aged(row[b])
  BY DEF Day, AllIdle
<1>2. \A b \in Bills : Pending(b)' = {} BY <1>1 DEF Pending, Working
<1>3. FirstsDiffer' BY <1>1 DEF FirstsDiffer, Working
<1>4. ASSUME NEW b \in Bills PROVE OnTime(b)'
  <2>1. OnTime(b) BY DEF InTime
  <2>2. Month \in Nat \ {0} /\ Old = 2 * Month + 1 BY DEF Old, PaymentsAssumption
  <2>3. row[b] \in Row /\ row[b].updated <= row[b].created BY DEF TypeOK
  <2>4. row[b].created \in 0..Old /\ row[b].updated \in 0..Old BY <2>3 DEF Row
  <2>5. /\ row'[b].made = row[b].made
        /\ row[b].made => /\ row'[b].created = Older(row[b].created)
                          /\ row'[b].updated = Older(row[b].updated)
    BY <1>1, <2>3, RowAged
  <2>6. row[b].made => row'[b].updated > 0 BY <2>2, <2>4, <2>5 DEF Older
  <2>7. row[b].made /\ row'[b].created <= 2 * Month =>
           /\ row[b].created <= 2 * Month
           /\ row'[b].created - row'[b].updated = row[b].created - row[b].updated
    BY <2>2, <2>3, <2>4, <2>5 DEF Older
  <2> QED BY <1>1, <1>2, <2>1, <2>5, <2>6, <2>7 DEF OnTime
<1> QED BY <1>3, <1>4 DEF InTime

\* A run of payments begins: today's first, or an extra one.
LEMMA InTimeStart ==
  ASSUME PaymentsAssumption, TypeOK, TypeOK', InTime, NEW h \in Procs, StartPayments(h)
  PROVE  InTime'
<1>1. /\ UNCHANGED <<row, attempts>> /\ proc[h].pc = "idle" /\ ran' = ran \cup {"pay"}
      /\ IF "pay" \in ran THEN extra' = extra + 1 ELSE extra' = extra
  BY DEF StartPayments, Begins
<1>2. PICK left \in SUBSET Payment :
         /\ Left(h, left)
         /\ \A o, k \in left : Entity[o.first] = Entity[k.first] => o = k
  BY StartedPayments
<1>3. FirstsDiffer' BY <1>2, LeftParts DEF InTime, FirstsDiffer, TypeOK, Working
<1>4. ASSUME NEW b \in Bills PROVE OnTime(b)'
  <2>1. OnTime(b) BY DEF InTime
  <2>2. Pending(b)' \subseteq Pending(b) \cup {h} /\ h \notin Pending(b)
    BY <1>1, <1>2, LeftParts DEF Pending, TypeOK, Working
  <2>3. /\ Cardinality(Pending(b)') \in Nat /\ Cardinality(Pending(b)) \in Nat
        /\ Cardinality(Pending(b)') <= Cardinality(Pending(b)) + 1
    <3>1. IsFiniteSet(Pending(b)) BY PendingFinite
    <3>2. /\ IsFiniteSet(Pending(b) \cup {h})
          /\ Cardinality(Pending(b) \cup {h}) = Cardinality(Pending(b)) + 1
      BY <2>2, <3>1, FS_AddElement
    <3> QED BY <2>2, <3>1, <3>2, FS_Subset, FS_CardinalityType
  <2>4. Month \in Nat \ {0} BY DEF PaymentsAssumption
  <2>5. attempts[b] \in Nat /\ extra \in Nat BY DEF TypeOK, PaymentsAssumption
  <2>6. /\ row[b].created \in Nat /\ row[b].updated \in Nat
        /\ row[b].created - row[b].updated \in Nat
    BY DEF TypeOK, Row, Old, PaymentsAssumption
  <2>7. /\ Base(2 * Month) \in Nat /\ Base(row[b].created) \in Nat
        /\ Base(row[b].created - row[b].updated) \in Nat
    BY <2>4, <2>6, BaseGrows
  <2>8. CASE "pay" \in ran
    <3>1. extra' = extra + 1 BY <1>1, <2>8
    <3> QED BY <1>1, <2>1, <2>3, <2>5, <2>7, <2>8, <3>1 DEF OnTime
  <2>9. CASE "pay" \notin ran
    <3>1. extra' = extra /\ Pending(b) = {} /\ (row[b].made => row[b].updated > 0)
      BY <1>1, <2>1, <2>9 DEF OnTime
    <3>2. Cardinality(Pending(b)') <= 1 BY <2>3, <3>1, FS_EmptySet
    <3>3. row[b].made /\ row[b].created \in {Month, 2 * Month} =>
             Base(row[b].created - row[b].updated) + 1 <= Base(row[b].created)
      <4> DEFINE t == row[b].created - row[b].updated
      <4>1. t \in Nat BY <2>6
      <4>2. row[b].made => t < row[b].created BY <2>6, <3>1
      <4>3. row[b].created = Month /\ row[b].made => t < Month BY <4>2
      <4> HIDE DEF t
      <4>4. row[b].made /\ row[b].created \in {Month, 2 * Month} => Base(t) + 1 <= Base(row[b].created)
        BY <2>4, <2>6, <4>1, <4>2, <4>3, RoomInAMonth
      <4> QED BY <4>4 DEF t
    <3>4. row[b].created \in {Month, 2 * Month} => row[b].created <= 2 * Month BY <2>4
    <3> QED BY <1>1, <2>1, <2>3, <2>5, <2>7, <3>1, <3>2, <3>3, <3>4 DEF OnTime
  <2> QED BY <2>8, <2>9
<1> QED BY <1>3, <1>4 DEF InTime

\* The rest of a run tries no bill more often than the run had planned.
LEMMA PendingLeft ==
  ASSUME NEW h \in Procs, proc \in [Procs -> Proc], proc[h].pc \in Working, FirstsDiffer,
         NEW left \in SUBSET proc[h].todo, Left(h, left)
  PROVE  FirstsDiffer' /\ \A b \in Bills : Pending(b)' \subseteq Pending(b)
  BY LeftParts DEF FirstsDiffer, Pending, Working

\* A payment is tried: the calendar leaves room for it.
LEMMA InTimeAttempt ==
  ASSUME PaymentsAssumption, TypeOK, TypeOK', InTime, NEW h \in Procs, NEW o \in Payment,
         Attempt(h, o)
  PROVE  InTime'
<1> DEFINE f == o.first
<1>0. f \in Bills BY DEF Payment
<1>1. /\ UNCHANGED <<ran, extra>> /\ proc[h].pc = "pay" /\ o \in proc[h].todo
      /\ Calendar(f) = "pay"
      /\ row' = [row EXCEPT ![f] =
                   [made |-> TRUE, created |-> IF @.made THEN @.created ELSE 0, updated |-> 0]]
      /\ attempts' = [attempts EXCEPT ![f] = IF @ > Most THEN @ ELSE @ + 1]
  BY DEF Attempt
<1>2. /\ proc'[h] = [pc |-> "lines", todo |-> proc[h].todo \ {o}, in |-> o]
      /\ \A g \in Procs : g # h => proc'[g] = proc[g]
  BY SetParts DEF Attempt, TypeOK
<1>3. FirstsDiffer' BY <1>1, <1>2 DEF InTime, FirstsDiffer, Working
<1>4. /\ \A b \in Bills : Pending(b)' \subseteq Pending(b)
      /\ h \in Pending(f) /\ h \notin Pending(f)'
  BY <1>1, <1>2 DEF InTime, FirstsDiffer, Pending, Working
<1>5. ASSUME NEW b \in Bills, b # f PROVE OnTime(b)'
  <2>1. OnTime(b) /\ attempts[b] \in Nat /\ extra \in Nat
    BY DEF InTime, TypeOK, PaymentsAssumption
  <2>2. row'[b] = row[b] /\ attempts'[b] = attempts[b] BY <1>1, <1>5 DEF TypeOK
  <2>3. /\ Cardinality(Pending(b)') \in Nat /\ Cardinality(Pending(b)) \in Nat
        /\ Cardinality(Pending(b)') <= Cardinality(Pending(b))
    BY <1>4, PendingFinite, FS_Subset, FS_CardinalityType
  <2>4. row[b].made /\ row[b].created \in {Month, 2 * Month} => Base(row[b].created) \in Nat
    BY BaseGrows DEF PaymentsAssumption
  <2> QED BY <1>1, <1>4, <2>1, <2>2, <2>3, <2>4 DEF OnTime
<1>6. OnTime(f)'
  <2> DEFINE c == row[f].created
  <2> DEFINE t == c - row[f].updated
  <2>1. OnTime(f) BY <1>0 DEF InTime
  <2>2. "pay" \in ran BY <1>4, <2>1 DEF OnTime
  <2>3. Month \in Nat \ {0} /\ Week \in Nat \ {0} /\ 2 * Month \in Nat BY DEF PaymentsAssumption
  <2>4. attempts[f] \in Nat /\ extra \in Nat /\ Most \in Nat
    BY <1>0, MostTyped DEF TypeOK, PaymentsAssumption
  <2>5. c \in Nat /\ row[f].updated \in Nat /\ row[f].updated <= c /\ t \in Nat
    BY <1>0 DEF TypeOK, Row, Old, PaymentsAssumption
  <2>6. /\ row'[f].made /\ row'[f].updated = 0
        /\ row'[f].created = (IF row[f].made THEN c ELSE 0)
        /\ attempts'[f] \in Nat /\ attempts'[f] <= attempts[f] + 1
    BY <1>0, <1>1, <2>4 DEF TypeOK
  <2>7. /\ Cardinality(Pending(f)') \in Nat /\ Cardinality(Pending(f)) \in Nat
        /\ Cardinality(Pending(f)') + 1 <= Cardinality(Pending(f))
    <3>1. IsFiniteSet(Pending(f)) BY PendingFinite
    <3>2. /\ IsFiniteSet(Pending(f) \ {h})
          /\ Cardinality(Pending(f) \ {h}) = Cardinality(Pending(f)) - 1
      BY <1>4, <3>1, FS_RemoveElement
    <3>3. Pending(f)' \subseteq Pending(f) \ {h} BY <1>0, <1>4
    <3> QED BY <3>1, <3>2, <3>3, FS_Subset, FS_CardinalityType
  <2> HIDE DEF c, t, f
  <2>8. Base(2 * Month) \in Nat /\ Base(c) \in Nat /\ Base(t) \in Nat /\ Base(0) = 1
    <3>1. 0 \div Week = 0 BY <2>3
    <3>2. Base(0) = 1 BY <2>3, <3>1 DEF Base
    <3>3. \A k \in Nat : Base(k) \in Nat BY BaseGrows
    <3> QED BY <2>3, <2>5, <3>2, <3>3
  <2>9. CASE ~row[f].made
    <3>1. attempts[f] = 0 /\ row'[f].created = 0 BY <2>1, <2>6, <2>9 DEF OnTime
    <3>2. 1 <= Base(2 * Month) BY <2>3, <2>8, BaseGrows
    <3> QED BY <1>1, <2>2, <2>3, <2>4, <2>6, <2>8, <3>1, <3>2 DEF OnTime
  <2>10. CASE row[f].made
    <3>0. row'[f].created = c BY <2>6, <2>10
    <3>1. \/ Month < c /\ c < 2 * Month /\ row[f].updated >= Month
          \/ c < Month /\ row[f].updated >= Week
          \/ c = Month \/ c = 2 * Month
      BY <1>1, <2>3, <2>5, <2>10 DEF Calendar, c
    <3>2. c <= 2 * Month /\ Base(c) <= Base(2 * Month) BY <2>3, <2>5, <3>1, BaseGrows
    <3>3. attempts[f] <= Base(t) + extra BY <2>1, <2>10, <3>2 DEF OnTime, c, t
    <3>4. attempts'[f] <= Base(c) + extra
      <4>1. CASE c \in {Month, 2 * Month}
        <5>1. attempts[f] + Cardinality(Pending(f)) <= Base(c) + extra
          BY <2>1, <2>2, <2>10, <4>1 DEF OnTime, c
        <5> QED BY <2>4, <2>6, <2>7, <2>8, <5>1
      <4>2. CASE Month < c /\ c < 2 * Month /\ row[f].updated >= Month
        <5>1. t < c /\ t < Month BY <2>3, <2>5, <4>2 DEF t
        <5>2. Base(t) + 1 <= Base(c) BY <2>3, <2>5, <4>2, <5>1, RoomInAMonth
        <5> QED BY <2>4, <2>6, <2>8, <3>3, <5>2
      <4>3. CASE c < Month /\ row[f].updated >= Week
        <5>1. t + Week <= c BY <2>3, <2>5, <4>3 DEF t
        <5>2. Base(t) + 1 <= Base(c) BY <2>5, <4>3, <5>1, RoomInAWeek
        <5> QED BY <2>4, <2>6, <2>8, <3>3, <5>2
      <4> QED BY <3>1, <4>1, <4>2, <4>3
    <3>5. c \in {Month, 2 * Month} => attempts'[f] + Cardinality(Pending(f)') <= Base(c) + extra
      <4>1. c \in {Month, 2 * Month} => attempts[f] + Cardinality(Pending(f)) <= Base(c) + extra
        BY <2>1, <2>2, <2>10 DEF OnTime, c
      <4> QED BY <2>4, <2>6, <2>7, <2>8, <4>1
    <3>6. c - 0 = c BY <2>5
    <3> QED BY <1>1, <2>2, <2>4, <2>6, <2>8, <3>0, <3>2, <3>4, <3>5, <3>6 DEF OnTime
  <2> QED BY <2>9, <2>10
<1> QED BY <1>3, <1>5, <1>6 DEF InTime

\* Any other step of a process.
LEMMA InTimeOthers ==
  ASSUME PaymentsAssumption, TypeOK, TypeOK', InTime, NEW h \in Procs, Step(h),
         ~StartPayments(h), ~\E o \in Payment : Attempt(h, o)
  PROVE  InTime'
<1>1. /\ UNCHANGED <<row, attempts>> /\ extra' \in {extra, extra + 1}
      /\ "pay" \in ran' <=> "pay" \in ran
  <2>1. CASE Pays(h)
    BY <2>1 DEF Pays, Retire, Skip, Insert, Refuse, Apply, Commit, Lost, db
  <2>2. CASE StartStatus(h) \/ StartMark(h) BY <2>2 DEF StartStatus, StartMark, Begins, db
  <2>3. CASE \/ \E b \in Bills : Check(h, b)
             \/ MarkAll(h) \/ StoreMarked(h) \/ MarkSome(h) \/ MarkOutage(h) \/ Crash(h)
    BY <2>3 DEF Check, MarkAll, StoreMarked, MarkSome, MarkOutage, Crash, db
  <2> QED BY <2>1, <2>2, <2>3 DEF Step
<1>2. extra' \in Nat /\ extra' >= extra BY <1>1 DEF TypeOK, PaymentsAssumption
<1>3. FirstsDiffer' /\ \A b \in Bills : Pending(b)' \subseteq Pending(b)
  <2>1. ASSUME proc[h].pc \in Working, NEW left \in SUBSET proc[h].todo, Left(h, left)
        PROVE  FirstsDiffer' /\ \A b \in Bills : Pending(b)' \subseteq Pending(b)
    BY <2>1, PendingLeft DEF InTime, TypeOK
  <2>2. ASSUME NEW o \in Payment, Retire(h, o) \/ Skip(h, o)
        PROVE  FirstsDiffer' /\ \A b \in Bills : Pending(b)' \subseteq Pending(b)
    <3>1. /\ proc[h].pc = "pay" /\ Left(h, proc[h].todo \ {o})
          /\ proc[h].todo \ {o} \in SUBSET proc[h].todo
      BY <2>2 DEF Retire, Skip
    <3> QED BY <2>1, <3>1 DEF Working
  <2>3. CASE Refuse(h) \/ Commit(h) \/ Lost(h) \/ (Insert(h) /\ HasLine(proc[h].in))
    <3>1. /\ proc[h].pc \in Working /\ Left(h, proc[h].todo)
          /\ proc[h].todo \in SUBSET proc[h].todo
      BY <2>3 DEF Refuse, Commit, Lost, Insert, Working
    <3> QED BY <2>1, <3>1
  <2>4. CASE Apply(h) \/ (Insert(h) /\ ~HasLine(proc[h].in))
    <3>1. /\ proc[h].pc \in {"lines", "open"}
          /\ \E at \in {"open", "applied"} : Set(h, [proc[h] EXCEPT !.pc = at])
      BY <2>4 DEF Apply, Insert
    <3>2. proc[h] \in [pc: {"lines", "open", "applied"}, todo: SUBSET Payment, in: Payment]
      BY <3>1, ProcParts DEF TypeOK
    <3>3. /\ proc'[h].pc \in {"open", "applied"} /\ proc'[h].todo = proc[h].todo
          /\ \A g \in Procs : g # h => proc'[g] = proc[g]
      BY <3>1, <3>2, SetParts DEF TypeOK
    <3> QED BY <3>1, <3>3 DEF InTime, FirstsDiffer, Pending, Working
  <2>5. ASSUME NEW r, Set(h, r), r.pc \notin Working
        PROVE  FirstsDiffer' /\ \A b \in Bills : Pending(b)' \subseteq Pending(b)
    BY <2>5, SetParts DEF InTime, FirstsDiffer, Pending, TypeOK
  <2>6. CASE Crash(h) BY <2>5, <2>6 DEF Crash, Idle, Working
  <2>7. CASE ~Pays(h) /\ ~Crash(h)
    <3>1. \E r : Set(h, r) /\ r.pc \notin Working BY <2>7, OtherJobsSet DEF Step
    <3> QED BY <2>5, <3>1
  <2> QED BY <2>2, <2>3, <2>4, <2>6, <2>7 DEF Pays
<1> QED BY <1>1, <1>2, <1>3, OnTimeKept DEF InTime

LEMMA InTimeStep ==
  ASSUME PaymentsAssumption, TypeOK, InTime, [Next]_vars
  PROVE  InTime'
<1>0. TypeOK' BY TypedStep
<1>1. CASE \/ UNCHANGED vars \/ \E r \in Reports : PayReport(r)
           \/ \E b \in Bills, how \in {"paid", "deleted"} : Treat(b, how)
  <2>1. UNCHANGED <<row, attempts, ran, proc, extra>>
    BY <1>1 DEF vars, db, PayReport, Treat
  <2> QED BY <2>1 DEF InTime, FirstsDiffer, OnTime, Pending
<1>2. ASSUME NEW h \in Procs, Step(h) PROVE InTime'
  BY <1>0, <1>2, InTimeStart, InTimeAttempt, InTimeOthers
<1> QED BY <1>1, <1>2, InTimeDay DEF Next

LEMMA InTimeInit == ASSUME PaymentsAssumption, Init PROVE InTime
<1>1. \A b \in Bills : Pending(b) = {} BY DEF Init, Idle, Pending, Working
<1>2. FirstsDiffer BY DEF Init, Idle, FirstsDiffer, Working
<1>3. Base(2 * Month) \in Nat BY BaseGrows DEF PaymentsAssumption
<1> QED BY <1>1, <1>2, <1>3 DEF Init, InTime, OnTime, NoRow

\* A payment that keeps failing is tried at most once a week in the first month of
\* its row, once more when that month is over and once more at the end of the second,
\* and once more for each run beside the daily ones; whatever a week and a month are.
THEOREM TriedInTime == ASSUME PaymentsAssumption PROVE Spec => []AttemptsBounded
<1>1. Init => TypeOK /\ InTime BY TypedInit, InTimeInit
<1>2. TypeOK /\ InTime /\ [Next]_vars => (TypeOK /\ InTime)' BY TypedStep, InTimeStep
<1>3. TypeOK /\ InTime => AttemptsBounded
  <2>1. Month \in Nat \ {0} /\ Week \in Nat \ {0} /\ MaxExtra \in Nat BY DEF PaymentsAssumption
  <2>2. (Month - 1) \div Week \in Nat BY <2>1
  <2>3. Base(2 * Month) = 3 + (Month - 1) \div Week BY <2>1 DEF Base
  <2>4. TypeOK => extra \in 0..MaxExtra /\ \A b \in Bills : attempts[b] \in Nat
    BY MostTyped DEF TypeOK
  <2>5. TypeOK /\ InTime => \A b \in Bills : attempts[b] <= 3 + (Month - 1) \div Week + extra
    BY <2>3 DEF InTime, OnTime
  <2> QED BY <2>1, <2>2, <2>4, <2>5 DEF AttemptsBounded, Most
<1> QED BY <1>1, <1>2, <1>3, PTL DEF Spec
=============================================================================
