---------------------------- MODULE ExportProofs ----------------------------
(* Proofs about Export.                                                    *)
EXTENDS Export, TLAPS, SequenceTheorems

Typed == TypeOK /\ LocalsFit

\* The rows and jobs the pipeline starts from are rows and jobs.
LEMMA RowFacts ==
    /\ NoRow \in Row
    /\ NoJob \in Job
  BY ExportAssumption DEF NoRow, Row, Status, NoJob, Job, MaxStuck

\* The columns a save changes leave a row a row.
LEMMA RowUpdates ==
  ASSUME NEW r \in Row, NEW s \in Status, NEW t \in Types, NEW b \in BOOLEAN
  PROVE  /\ [r EXCEPT !.status = s] \in Row
         /\ [r EXCEPT !.status = s, !.reAttempt = b] \in Row
         /\ [r EXCEPT !.status = s, !.doc = t] \in Row
         /\ [r EXCEPT !.type = t, !.status = s] \in Row
  BY DEF Row

\* So does the stuck check's UPDATE.
LEMMA GiveBackRow ==
  \A r \in Row : r.stuck < MaxStuck => GiveBack(r) \in Row
<1> SUFFICES ASSUME NEW r \in Row, r.stuck < MaxStuck PROVE GiveBack(r) \in Row
  OBVIOUS
<1>1. r.stuck + 1 \in 0..MaxStuck /\ "FAILED" \in Status BY DEF Row, MaxStuck, Status
<1> QED BY <1>1 DEF Row, GiveBack

\* A row has a primary key.
LEMMA RowParts == \A r \in Row : r.id \in Nat
  BY DEF Row

\* A worker with a chain has a current task.
LEMMA CurrentTask ==
  ASSUME NEW w \in Workers, LocalsOK, chain[w] # << >>
  PROVE  GroupNow(w) \in Groups /\ RowNow(w) \in Nat
<1>1. chain[w] \in Seq(Task) BY DEF LocalsOK
<1>2. Head(chain[w]) \in Task BY <1>1, HeadTailProperties
<1> QED BY <1>2 DEF GroupNow, RowNow, Task

\* A task appended to a chain is its last.
LEMMA AppendTask ==
  ASSUME NEW s \in Seq(Task), NEW g \in Groups, NEW id \in Nat
  PROVE  LET t == Append(s, [group |-> g, row |-> id])
         IN  t \in Seq(Task) /\ t # << >> /\ t[Len(t)].group = g
<1> DEFINE e == [group |-> g, row |-> id]
<1>1. e \in Task BY DEF Task
<1> HIDE DEF e
<1>2. Append(s, e) \in Seq(Task) /\ Append(s, e) # << >> /\ Append(s, e)[Len(Append(s, e))] = e
  BY <1>1, AppendProperties
<1> QED BY <1>2 DEF e

\* The task appended last names a group.
LEMMA SavedTask ==
  ASSUME NEW w \in Workers, LocalsOK, chain[w] # << >>
  PROVE  SavedGroup(w) \in Groups
<1>1. chain[w] \in Seq(Task) BY DEF LocalsOK
<1>2. chain[w][Len(chain[w])] \in Task BY <1>1, ElementOfSeq, EmptySeq, LenProperties
<1> QED BY <1>2 DEF SavedGroup, Task

\* A message published again is a message.
LEMMA Retry ==
  ASSUME NEW j \in Job PROVE [j EXCEPT !.retry = 1] \in Job
  BY DEF Job

\* A published message keeps the queue a set of messages.
LEMMA PublishTyped ==
  ASSUME NEW ids \in SUBSET Groups, OutsideOK, CountersOK, Publish(ids)
  PROVE  queue' \subseteq Job
<1> DEFINE m == [kind |-> "message", no |-> requests + 1, ids |-> ids, retry |-> 0]
<1>1. m \in Job BY DEF CountersOK, Job
<1> HIDE DEF m
<1>2. queue' = queue \cup {m} BY DEF Publish, m
<1> QED BY <1>1, <1>2 DEF OutsideOK

\* Every step keeps the types and the locals' fit.
LEMMA TypedStep == Typed /\ [Next]_vars => Typed'
<1> SUFFICES ASSUME Typed, [Next]_vars PROVE Typed'
  OBVIOUS
<1> USE ExportAssumption, RowFacts DEF Typed, TypeOK
<1>1. ASSUME NEW w \in Workers, Deliver(w) PROVE Typed'
  <2> USE <1>1 DEF Deliver
  <2>1. DbOK' BY DEF DbOK, dbVars
  <2>2. OutsideOK' BY DEF OutsideOK
  <2>3. CountersOK' BY DEF CountersOK, counters
  <2>4. LocalsOK' BY DEF LocalsOK, DbOK, OutsideOK, StartExport, FirstFund, Funds, Pcs
  <2>5. LocalsFit' BY DEF LocalsFit, DbOK, LocalsOK, StartExport, FirstFund, Funds, InTask, TypeNow
  <2> QED BY <2>1, <2>2, <2>3, <2>4, <2>5
<1>2. ASSUME NEW w \in Workers, Crash(w) PROVE Typed'
  <2> USE <1>2 DEF Crash
  <2>1. DbOK' BY DEF DbOK, dbVars
  <2>2. OutsideOK' BY DEF OutsideOK, LocalsOK, Job
  <2>3. CountersOK' BY DEF CountersOK
  <2>4. LocalsOK' BY DEF LocalsOK, Forget, Funds, Pcs, Unset
  <2>5. LocalsFit' BY DEF LocalsFit, LocalsOK, Forget, InTask, TypeNow
  <2> QED BY <2>1, <2>2, <2>3, <2>4, <2>5
<1>3. ASSUME NEW w \in Workers, StuckRead(w) PROVE Typed'
  <2> USE <1>3 DEF StuckRead
  <2>1. DbOK' BY DEF DbOK, dbVars
  <2>2. OutsideOK' BY DEF OutsideOK, outside
  <2>3. CountersOK' BY DEF CountersOK, counters
  <2>4. LocalsOK' BY DEF LocalsOK, Goto, Pcs, Job
  <2>5. LocalsFit' BY DEF LocalsFit, LocalsOK, Goto, InTask, TypeNow
  <2> QED BY <2>1, <2>2, <2>3, <2>4, <2>5
<1>4. ASSUME NEW w \in Workers, StuckUpdate(w) PROVE Typed'
  <2> USE <1>4 DEF StuckUpdate
  <2>1. DbOK'
    <3>1. PICK hit \in SUBSET {g \in job[w].ids : Stuck(g)} :
             /\ taskLog' = [g \in Groups |-> IF g \in hit THEN GiveBack(taskLog[g]) ELSE taskLog[g]]
             /\ disturbed' = disturbed \cup hit
      OBVIOUS
    <3>2. hit \subseteq Groups /\ \A g \in hit : taskLog[g].stuck < MaxStuck
      BY <3>1 DEF LocalsOK, Job, Stuck
    <3>3. taskLog' \in [Groups -> Row]
      BY <3>1, <3>2, GiveBackRow DEF DbOK
    <3> QED BY <3>1, <3>2, <3>3 DEF DbOK
  <2>2. OutsideOK' BY DEF OutsideOK, outside
  <2>3. CountersOK' BY DEF CountersOK, counters
  <2>4. LocalsOK'
    <3>1. CASE StartExport(w, job[w]) /\ UNCHANGED <<todo, chain, stale, copy>>
      BY <3>1 DEF LocalsOK, DbOK, StartExport, FirstFund, Funds, Pcs
    <3>2. CASE Forget(w)
      BY <3>2 DEF LocalsOK, Forget, Funds, Pcs, Unset
    <3> QED BY <3>1, <3>2
  <2>5. LocalsFit' BY DEF LocalsFit, DbOK, LocalsOK, StartExport, FirstFund, Funds, InTask, TypeNow, Forget
  <2> QED BY <2>1, <2>2, <2>3, <2>4, <2>5
<1>5. ASSUME NEW w \in Workers, Select(w) PROVE Typed'
  <2> USE <1>5 DEF Select
  <2>0. Exportable(w) \subseteq Groups BY DEF Exportable, LocalsOK, Job
  <2>1. DbOK' BY DEF DbOK, dbVars
  <2>2. OutsideOK' BY DEF OutsideOK, outside
  <2>3. CountersOK' BY DEF CountersOK, counters
  <2>4. LocalsOK'
    <3>1. CASE Exportable(w) # {}
      <4>1. todo' = [todo EXCEPT ![w] = Exportable(w)] /\ pc' = [pc EXCEPT ![w] = "chain"] /\ fund' = fund
        BY <3>1 DEF Goto
      <4>2. todo' \in [Workers -> SUBSET Groups] BY <2>0, <4>1 DEF LocalsOK
      <4>3. pc' \in [Workers -> Pcs] BY <4>1 DEF LocalsOK, Pcs
      <4> QED BY <4>1, <4>2, <4>3 DEF LocalsOK
    <3>2. CASE Exportable(w) = {}
      <4>1. fund' = [fund EXCEPT ![w] = NextFund(w)] /\ UNCHANGED <<todo, pc>>
        BY <3>2
      <4>2. fund' \in [Workers -> Funds \cup {"done"}]
        BY <4>1 DEF LocalsOK, NextFund, Funds
      <4> QED BY <4>1, <4>2 DEF LocalsOK
    <3> QED BY <3>1, <3>2
  <2>5. LocalsFit' BY DEF LocalsFit, LocalsOK, Goto, NextFund, Funds, InTask, TypeNow
  <2> QED BY <2>1, <2>2, <2>3, <2>4, <2>5
<1>6. ASSUME NEW w \in Workers, SkipGroup(w) PROVE Typed'
  <2> USE <1>6 DEF SkipGroup
  <2>1. DbOK' BY DEF DbOK, dbVars
  <2>2. OutsideOK' BY DEF OutsideOK, outside
  <2>3. CountersOK' BY DEF CountersOK, counters
  <2>4. LocalsOK' BY DEF LocalsOK
  <2>5. LocalsFit' BY DEF LocalsFit, LocalsOK, InTask, TypeNow
  <2> QED BY <2>1, <2>2, <2>3, <2>4, <2>5
<1>7. ASSUME NEW w \in Workers, EnqueueNew(w) PROVE Typed'
  <2> USE <1>7 DEF EnqueueNew
  <2>0. TypeNow(w) \in Types BY DEF LocalsFit
  <2>1. DbOK'
    <3> DEFINE row == [NoRow EXCEPT !.id = nextId, !.status = "ENQUEUED", !.type = TypeNow(w)]
    <3>1. row \in Row BY <2>0 DEF DbOK, Row, NoRow, Status, MaxStuck
    <3> HIDE DEF row
    <3>2. \E g \in Groups : WriteLog(g, row) BY DEF row, LocalsOK
    <3>3. PICK g \in Groups : WriteLog(g, row) BY <3>2
    <3>4. taskLog' \in [Groups -> Row] BY <3>1, <3>3 DEF DbOK, WriteLog
    <3> QED BY <3>4 DEF DbOK
  <2>2. OutsideOK' BY DEF OutsideOK, outside
  <2>3. CountersOK' BY DEF CountersOK, counters
  <2>4. LocalsOK' BY AppendTask DEF LocalsOK, DbOK, Append1
  <2>5. LocalsFit' BY DEF LocalsFit, LocalsOK, Append1, InTask, TypeNow
  <2> QED BY <2>1, <2>2, <2>3, <2>4, <2>5
<1>8. ASSUME NEW w \in Workers, EnqueueAgain(w) PROVE Typed'
  <2> USE <1>8 DEF EnqueueAgain
  <2>1. DbOK' BY DEF DbOK, dbVars
  <2>2. OutsideOK' BY DEF OutsideOK, outside
  <2>3. CountersOK' BY DEF CountersOK, counters
  <2>4. LocalsOK' BY AppendTask, RowParts DEF LocalsOK, DbOK, Append1
  <2>5. LocalsFit' BY DEF LocalsFit, LocalsOK, Append1, InTask, TypeNow
  <2> QED BY <2>1, <2>2, <2>3, <2>4, <2>5
<1>9. ASSUME NEW w \in Workers, EnqueueRead(w) PROVE Typed'
  <2> USE <1>9 DEF EnqueueRead
  <2>1. DbOK' BY DEF DbOK, dbVars
  <2>2. OutsideOK' BY DEF OutsideOK, outside
  <2>3. CountersOK' BY DEF CountersOK, counters
  <2>4. LocalsOK' BY AppendTask, RowParts DEF LocalsOK, DbOK, Append1, Goto, Pcs
  <2>5. LocalsFit' BY AppendTask, RowParts DEF LocalsFit, DbOK, LocalsOK, Append1, InTask, TypeNow, Goto
  <2> QED BY <2>1, <2>2, <2>3, <2>4, <2>5
<1>10. ASSUME NEW w \in Workers, EnqueueSave(w) PROVE Typed'
  <2> USE <1>10 DEF EnqueueSave
  <2>0. SavedGroup(w) \in Groups /\ TypeNow(w) \in Types BY SavedTask DEF LocalsFit, InTask
  <2>1. DbOK' BY <2>0, RowUpdates DEF DbOK, LocalsOK, WriteLog, Requeued, Status
  <2>2. OutsideOK' BY DEF OutsideOK, outside
  <2>3. CountersOK' BY DEF CountersOK, counters
  <2>4. LocalsOK' BY DEF LocalsOK, Goto, Pcs
  <2>5. LocalsFit' BY DEF LocalsFit, LocalsOK, InTask, TypeNow, Goto
  <2> QED BY <2>1, <2>2, <2>3, <2>4, <2>5
<1>11. ASSUME NEW w \in Workers, EnqueueSaveFails(w) PROVE Typed'
  <2> USE <1>11 DEF EnqueueSaveFails
  <2>1. DbOK' BY DEF DbOK, dbVars
  <2>2. OutsideOK' BY Retry DEF OutsideOK, LocalsOK, HandleException
  <2>3. CountersOK' BY DEF CountersOK, counters
  <2>4. LocalsOK' BY DEF LocalsOK, HandleException, Forget, Funds, Pcs, Unset
  <2>5. LocalsFit' BY DEF LocalsFit, HandleException, LocalsOK, Forget, InTask, TypeNow
  <2> QED BY <2>1, <2>2, <2>3, <2>4, <2>5
<1>12. ASSUME NEW w \in Workers, NoChain(w) PROVE Typed'
  <2> USE <1>12 DEF NoChain
  <2>1. DbOK' BY DEF DbOK, dbVars
  <2>2. OutsideOK' BY DEF OutsideOK, outside
  <2>3. CountersOK' BY DEF CountersOK, counters
  <2>4. LocalsOK' BY DEF LocalsOK, Goto, NextFund, Funds, Pcs
  <2>5. LocalsFit' BY DEF LocalsFit, LocalsOK, Goto, NextFund, Funds, InTask, TypeNow
  <2> QED BY <2>1, <2>2, <2>3, <2>4, <2>5
<1>13. ASSUME NEW w \in Workers, Finish(w) PROVE Typed'
  <2> USE <1>13 DEF Finish
  <2>1. DbOK' BY DEF DbOK, dbVars
  <2>2. OutsideOK' BY DEF OutsideOK, outside
  <2>3. CountersOK' BY DEF CountersOK, counters
  <2>4. LocalsOK' BY DEF LocalsOK, Forget, Funds, Pcs, Unset
  <2>5. LocalsFit' BY DEF LocalsFit, LocalsOK, Forget, InTask, TypeNow
  <2> QED BY <2>1, <2>2, <2>3, <2>4, <2>5
<1>14. ASSUME NEW w \in Workers, Fetch(w) PROVE Typed'
  <2> USE <1>14 DEF Fetch
  <2>0. GroupNow(w) \in Groups /\ TypeNow(w) \in Types BY CurrentTask DEF LocalsFit, InTask
  <2>1. DbOK' BY DEF DbOK, dbVars
  <2>2. OutsideOK' BY DEF OutsideOK, outside
  <2>3. CountersOK' BY DEF CountersOK, counters
  <2>4. LocalsOK'
    <3>1. taskLog[GroupNow(w)] \in Row BY <2>0 DEF DbOK
    <3>2. PICK p \in {"claim", "raised"} : pc' = [pc EXCEPT ![w] = p] BY DEF Goto
    <3>3. PICK r \in {stale[w], taskLog[GroupNow(w)]} : stale' = [stale EXCEPT ![w] = r]
      BY DEF LocalsOK
    <3>4. r \in Row BY <3>1, <3>3 DEF LocalsOK
    <3>5. pc' \in [Workers -> Pcs] BY <3>2 DEF LocalsOK, Pcs
    <3>6. stale' \in [Workers -> Row] BY <3>3, <3>4 DEF LocalsOK
    <3> QED BY <3>5, <3>6 DEF LocalsOK
  <2>5. LocalsFit' BY DEF LocalsFit, LocalsOK, Goto, InTask, TypeNow
  <2> QED BY <2>1, <2>2, <2>3, <2>4, <2>5
<1>15. ASSUME NEW w \in Workers, Claim(w) PROVE Typed'
  <2> USE <1>15 DEF Claim
  <2>0. GroupNow(w) \in Groups /\ TypeNow(w) \in Types BY CurrentTask DEF LocalsFit, InTask
  <2>1. DbOK'
    <3>1. Claimed(taskLog[GroupNow(w)]) \in Row
      BY <2>0, RowUpdates DEF DbOK, Status, Claimed
    <3> QED BY <2>0, <3>1 DEF DbOK, WriteLog
  <2>2. OutsideOK' BY DEF OutsideOK, outside
  <2>3. CountersOK' BY DEF CountersOK, counters
  <2>4. LocalsOK'
    <3>1. Claimed(taskLog[GroupNow(w)]) \in Row
      BY <2>0, RowUpdates DEF DbOK, Status, Claimed
    <3>3. stale' = stale /\ copy' \in [Workers -> Row] /\ pc' \in [Workers -> Pcs]
      <4>1. CASE pc' = [pc EXCEPT ![w] = "tail"] /\ copy' = copy
        BY <4>1 DEF LocalsOK, Pcs
      <4>2. CASE /\ pc' = [pc EXCEPT ![w] = "claimed"]
                 /\ copy' = [copy EXCEPT ![w] = Claimed(taskLog[GroupNow(w)])]
        BY <3>1, <4>2 DEF LocalsOK, Pcs
      <4> QED BY <4>1, <4>2 DEF Goto
    <3> QED BY <3>3 DEF LocalsOK
  <2>5. LocalsFit' BY DEF LocalsFit, LocalsOK, Goto, InTask, TypeNow
  <2> QED BY <2>1, <2>2, <2>3, <2>4, <2>5
<1>16. ASSUME NEW w \in Workers, Post(w) PROVE Typed'
  <2> USE <1>16 DEF Post
  <2>0. GroupNow(w) \in Groups /\ TypeNow(w) \in Types BY CurrentTask DEF LocalsFit, InTask
  <2>1. DbOK' BY DEF DbOK, dbVars
  <2>2. OutsideOK' BY <2>0 DEF OutsideOK, ExternalId, Document
  <2>3. CountersOK' BY DEF CountersOK, counters
  <2>4. LocalsOK' BY DEF LocalsOK, Goto, Pcs
  <2>5. LocalsFit' BY DEF LocalsFit, LocalsOK, Goto, InTask, TypeNow
  <2> QED BY <2>1, <2>2, <2>3, <2>4, <2>5
<1>17. ASSUME NEW w \in Workers, Commit(w) PROVE Typed'
  <2> USE <1>17 DEF Commit
  <2>0. GroupNow(w) \in Groups /\ TypeNow(w) \in Types BY CurrentTask DEF LocalsFit, InTask
  <2>1. DbOK' BY <2>0, RowUpdates DEF DbOK, WriteLog, Status, LocalsOK
  <2>2. OutsideOK' BY DEF OutsideOK, outside
  <2>3. CountersOK' BY DEF CountersOK, counters
  <2>4. LocalsOK' BY DEF LocalsOK, Goto, Pcs
  <2>5. LocalsFit' BY DEF LocalsFit, LocalsOK, Goto, InTask, TypeNow
  <2> QED BY <2>1, <2>2, <2>3, <2>4, <2>5
<1>18. ASSUME NEW w \in Workers, FailValidation(w) PROVE Typed'
  <2> USE <1>18 DEF FailValidation
  <2>0. GroupNow(w) \in Groups /\ TypeNow(w) \in Types BY CurrentTask DEF LocalsFit, InTask
  <2>1. DbOK' BY <2>0, RowUpdates DEF DbOK, SaveFailure, Failed, WriteLog, Status, LocalsOK
  <2>2. OutsideOK' BY DEF OutsideOK, outside
  <2>3. CountersOK' BY DEF CountersOK, counters
  <2>4. LocalsOK' BY DEF LocalsOK, SaveFailure, Goto, Pcs
  <2>5. LocalsFit' BY DEF LocalsFit, LocalsOK, SaveFailure, Goto, InTask, TypeNow
  <2> QED BY <2>1, <2>2, <2>3, <2>4, <2>5
<1>19. ASSUME NEW w \in Workers, Fail(w) PROVE Typed'
  <2> USE <1>19 DEF Fail
  <2>0. GroupNow(w) \in Groups /\ TypeNow(w) \in Types BY CurrentTask DEF LocalsFit, InTask
  <2>1. DbOK'
    <3>1. Failed(w) \in Row /\ Fatal(w) \in Row
      BY <2>0, RowUpdates DEF Failed, Fatal, Status, LocalsOK
    <3> QED BY <2>0, <3>1 DEF DbOK, SaveFailure, WriteLog
  <2>2. OutsideOK' BY DEF OutsideOK, outside
  <2>3. CountersOK' BY DEF CountersOK, counters
  <2>4. LocalsOK' BY DEF LocalsOK, SaveFailure, Goto, Pcs
  <2>5. LocalsFit' BY DEF LocalsFit, LocalsOK, SaveFailure, Goto, InTask, TypeNow
  <2> QED BY <2>1, <2>2, <2>3, <2>4, <2>5
<1>20. ASSUME NEW w \in Workers, FailAfterCommit(w) PROVE Typed'
  <2> USE <1>20 DEF FailAfterCommit
  <2>0. GroupNow(w) \in Groups /\ TypeNow(w) \in Types BY CurrentTask DEF LocalsFit, InTask
  <2>1. DbOK' BY <2>0, RowUpdates DEF DbOK, SaveFailure, Fatal, WriteLog, Status, LocalsOK
  <2>2. OutsideOK' BY DEF OutsideOK, outside
  <2>3. CountersOK' BY DEF CountersOK, counters
  <2>4. LocalsOK' BY DEF LocalsOK, SaveFailure, Goto, Pcs
  <2>5. LocalsFit' BY DEF LocalsFit, LocalsOK, SaveFailure, Goto, InTask, TypeNow
  <2> QED BY <2>1, <2>2, <2>3, <2>4, <2>5
<1>21. ASSUME NEW w \in Workers, FailUnsaved(w) PROVE Typed'
  <2> USE <1>21 DEF FailUnsaved
  <2>1. DbOK' BY DEF DbOK, dbVars
  <2>2. OutsideOK' BY DEF OutsideOK, outside
  <2>3. CountersOK' BY DEF CountersOK, counters
  <2>4. LocalsOK' BY DEF LocalsOK, Goto, Pcs
  <2>5. LocalsFit' BY DEF LocalsFit, LocalsOK, Goto, InTask, TypeNow
  <2> QED BY <2>1, <2>2, <2>3, <2>4, <2>5
<1>22. ASSUME NEW w \in Workers, HandlerRaises(w) PROVE Typed'
  <2> USE <1>22 DEF HandlerRaises
  <2>1. DbOK' BY DEF DbOK, dbVars
  <2>2. OutsideOK' BY DEF OutsideOK, outside
  <2>3. CountersOK' BY DEF CountersOK
  <2>4. LocalsOK' BY DEF LocalsOK, Goto, Pcs
  <2>5. LocalsFit' BY DEF LocalsFit, LocalsOK, Goto, InTask, TypeNow
  <2> QED BY <2>1, <2>2, <2>3, <2>4, <2>5
<1>23. ASSUME NEW w \in Workers, TaskDone(w) PROVE Typed'
  <2> USE <1>23 DEF TaskDone
  <2>1. DbOK' BY DEF DbOK, dbVars
  <2>2. OutsideOK' BY DEF OutsideOK, outside
  <2>3. CountersOK' BY DEF CountersOK, counters
  <2>4. LocalsOK' BY DEF LocalsOK, LocalsFit, Advance, InTask, NextFund, Funds, Pcs
  <2>5. LocalsFit' BY DEF LocalsFit, LocalsOK, Advance, InTask, TypeNow, NextFund, Funds
  <2> QED BY <2>1, <2>2, <2>3, <2>4, <2>5
<1>24. ASSUME NEW w \in Workers, TailRaises(w) PROVE Typed'
  <2> USE <1>24 DEF TailRaises
  <2>1. DbOK' BY DEF DbOK, dbVars
  <2>2. OutsideOK' BY DEF OutsideOK, outside
  <2>3. CountersOK' BY DEF CountersOK
  <2>4. LocalsOK' BY DEF LocalsOK, Goto, Pcs
  <2>5. LocalsFit' BY DEF LocalsFit, LocalsOK, Goto, InTask, TypeNow
  <2> QED BY <2>1, <2>2, <2>3, <2>4, <2>5
<1>25. ASSUME NEW w \in Workers, RunnerContinues(w) PROVE Typed'
  <2> USE <1>25 DEF RunnerContinues
  <2>1. DbOK' BY DEF DbOK, dbVars
  <2>2. OutsideOK' BY DEF OutsideOK, outside
  <2>3. CountersOK' BY DEF CountersOK, counters
  <2>4. LocalsOK' BY DEF LocalsOK, LocalsFit, Advance, InTask, NextFund, Funds, Pcs
  <2>5. LocalsFit' BY DEF LocalsFit, LocalsOK, Advance, InTask, TypeNow, NextFund, Funds
  <2> QED BY <2>1, <2>2, <2>3, <2>4, <2>5
<1>26. ASSUME NEW w \in Workers, RunnerAborts(w) PROVE Typed'
  <2> USE <1>26 DEF RunnerAborts
  <2>1. DbOK' BY DEF DbOK, dbVars
  <2>2. OutsideOK' BY Retry DEF OutsideOK, LocalsOK, HandleException
  <2>3. CountersOK' BY DEF CountersOK, counters
  <2>4. LocalsOK' BY DEF LocalsOK, HandleException, Forget, Funds, Pcs, Unset
  <2>5. LocalsFit' BY DEF LocalsFit, HandleException, LocalsOK, Forget, InTask, TypeNow
  <2> QED BY <2>1, <2>2, <2>3, <2>4, <2>5
<1>27. ASSUME RequestExport PROVE Typed'
  <2> USE <1>27 DEF RequestExport
  <2>1. DbOK' BY DEF DbOK, dbVars
  <2>2. OutsideOK' BY PublishTyped DEF OutsideOK
  <2>3. CountersOK' BY DEF CountersOK, Publish
  <2>4. LocalsOK' /\ LocalsFit' BY DEF LocalsOK, LocalsFit, localVars, TypeNow
  <2> QED BY <2>1, <2>2, <2>3, <2>4
<1>28. ASSUME SyncBegin PROVE Typed'
  <2> USE <1>28 DEF SyncBegin
  <2>1. DbOK' BY DEF DbOK, dbVars
  <2>2. OutsideOK' BY DEF OutsideOK
  <2>3. CountersOK' BY DEF CountersOK, counters
  <2>4. LocalsOK' /\ LocalsFit' BY DEF LocalsOK, LocalsFit, localVars, TypeNow
  <2> QED BY <2>1, <2>2, <2>3, <2>4
<1>29. ASSUME SyncPublish PROVE Typed'
  <2> USE <1>29 DEF SyncPublish
  <2>1. DbOK' BY DEF DbOK, dbVars
  <2>2. OutsideOK' BY PublishTyped DEF OutsideOK, Eligible
  <2>3. CountersOK' BY DEF CountersOK, Publish
  <2>4. LocalsOK' /\ LocalsFit' BY DEF LocalsOK, LocalsFit, localVars, TypeNow
  <2> QED BY <2>1, <2>2, <2>3, <2>4
<1>30. ASSUME SyncEnd PROVE Typed'
  <2> USE <1>30 DEF SyncEnd
  <2>1. DbOK' BY DEF DbOK, dbVars
  <2>2. OutsideOK' BY DEF OutsideOK
  <2>3. CountersOK' BY DEF CountersOK, counters
  <2>4. LocalsOK' /\ LocalsFit' BY DEF LocalsOK, LocalsFit, localVars, TypeNow
  <2> QED BY <2>1, <2>2, <2>3, <2>4
<1>31. ASSUME SaveConfiguration PROVE Typed'
  <2> USE <1>31 DEF SaveConfiguration
  <2>1. DbOK' BY DEF DbOK
  <2>2. OutsideOK' BY DEF OutsideOK
  <2>3. CountersOK' BY DEF CountersOK
  <2>4. LocalsOK' /\ LocalsFit' BY DEF LocalsOK, LocalsFit, localVars, TypeNow
  <2> QED BY <2>1, <2>2, <2>3, <2>4
<1>32. ASSUME ClearErrors PROVE Typed'
  <2> USE <1>32 DEF ClearErrors
  <2>1. DbOK' BY DEF DbOK, Cleared
  <2>2. OutsideOK' BY DEF OutsideOK
  <2>3. CountersOK' BY DEF CountersOK, counters
  <2>4. LocalsOK' /\ LocalsFit' BY DEF LocalsOK, LocalsFit, localVars, TypeNow
  <2> QED BY <2>1, <2>2, <2>3, <2>4
<1>33. ASSUME SettingsCrash PROVE Typed'
  <2> USE <1>33 DEF SettingsCrash
  <2>1. DbOK' BY DEF DbOK, dbVars
  <2>2. OutsideOK' BY DEF OutsideOK
  <2>3. CountersOK' BY DEF CountersOK
  <2>4. LocalsOK' /\ LocalsFit' BY DEF LocalsOK, LocalsFit, localVars, TypeNow
  <2> QED BY <2>1, <2>2, <2>3, <2>4
<1>34. ASSUME MapAttribute PROVE Typed'
  <2> USE <1>34 DEF MapAttribute
  <2>1. DbOK' BY DEF DbOK
  <2>2. OutsideOK' BY DEF OutsideOK, outside
  <2>3. CountersOK' BY DEF CountersOK, counters
  <2>4. LocalsOK' /\ LocalsFit' BY DEF LocalsOK, LocalsFit, localVars, TypeNow
  <2> QED BY <2>1, <2>2, <2>3, <2>4
<1>35. CASE UNCHANGED vars
  BY <1>35 DEF vars, dbVars, outside, counters, localVars, DbOK, OutsideOK, CountersOK, LocalsOK, LocalsFit, TypeNow
<1>36. ASSUME NEW w \in Workers, ScheduleRaises(w) PROVE Typed'
  <2> USE <1>36 DEF ScheduleRaises
  <2>1. DbOK' BY DEF DbOK, dbVars
  <2>2. OutsideOK' BY Retry DEF OutsideOK, LocalsOK, HandleException
  <2>3. CountersOK' BY DEF CountersOK
  <2>4. LocalsOK' BY DEF LocalsOK, HandleException, Forget, Funds, Pcs, Unset
  <2>5. LocalsFit' BY DEF LocalsFit, HandleException, LocalsOK, Forget, InTask, TypeNow
  <2> QED BY <2>1, <2>2, <2>3, <2>4, <2>5
<1>37. QED
  BY <1>1, <1>2, <1>3, <1>4, <1>5, <1>6, <1>7, <1>8, <1>9, <1>10, <1>11, <1>12, <1>13, <1>14, <1>15, <1>16, <1>17, <1>18, <1>19, <1>20, <1>21, <1>22, <1>23, <1>24, <1>25, <1>26, <1>27, <1>28, <1>29, <1>30, <1>31, <1>32, <1>33, <1>34, <1>35, <1>36
  DEF Next, Work, Schedule, Task1, User, Sync

\* A step leaves the books alone: what is exported, what objects there are, what
\* NetSuite holds; and no row becomes COMPLETE.
BooksKept ==
    /\ UNCHANGED <<exported, objs, netsuite>>
    /\ \A g \in Groups : taskLog'[g].status = "COMPLETE" => taskLog'[g] = taskLog[g]

\* No task starts to export, nor moves on while it exports.
Steady == \A v \in Workers : pc'[v] \in {"claimed", "posted"} =>
    pc'[v] = pc[v] /\ chain'[v] = chain[v] /\ seen'[v] = seen[v] /\ fund'[v] = fund[v]

\* Only Claim, Post and Commit do otherwise.
LEMMA FrameStep ==
  ASSUME Typed, [Next]_vars,
         \A w \in Workers : ~Claim(w) /\ ~Post(w) /\ ~Commit(w)
  PROVE  BooksKept /\ Steady
<1> USE DEF Typed, TypeOK
<1>1. ASSUME NEW w \in Workers, Deliver(w) PROVE BooksKept /\ Steady
  BY <1>1 DEF Deliver, BooksKept, Steady, LocalsOK, dbVars, outside, StartExport
<1>2. ASSUME NEW w \in Workers, Crash(w) PROVE BooksKept /\ Steady
  BY <1>2 DEF Crash, BooksKept, Steady, LocalsOK, dbVars, outside, Forget
<1>3. ASSUME NEW w \in Workers, StuckRead(w) PROVE BooksKept /\ Steady
  BY <1>3 DEF StuckRead, BooksKept, Steady, LocalsOK, dbVars, outside, Goto
<1>4. ASSUME NEW w \in Workers, StuckUpdate(w) PROVE BooksKept /\ Steady
  <2>1. PICK hit \in SUBSET Groups :
           taskLog' = [g \in Groups |-> IF g \in hit THEN GiveBack(taskLog[g]) ELSE taskLog[g]]
    BY <1>4 DEF StuckUpdate, LocalsOK, Job
  <2>2. \A g \in Groups : GiveBack(taskLog[g]).status = "FAILED" BY DEF GiveBack, DbOK, Row
  <2>3. UNCHANGED <<exported, objs, netsuite>> BY <1>4 DEF StuckUpdate, outside
  <2>4. BooksKept BY <2>1, <2>2, <2>3 DEF BooksKept
  <2>5. Steady BY <1>4 DEF StuckUpdate, StartExport, Forget, LocalsOK, Steady
  <2> QED BY <2>4, <2>5
<1>5. ASSUME NEW w \in Workers, Select(w) PROVE BooksKept /\ Steady
  BY <1>5 DEF Select, BooksKept, Steady, LocalsOK, dbVars, outside, Goto
<1>6. ASSUME NEW w \in Workers, SkipGroup(w) PROVE BooksKept /\ Steady
  BY <1>6 DEF SkipGroup, BooksKept, Steady, LocalsOK, dbVars, outside
<1>7. ASSUME NEW w \in Workers, EnqueueNew(w) PROVE BooksKept /\ Steady
  <2>1. BooksKept BY <1>7 DEF EnqueueNew, BooksKept, outside, WriteLog, NoRow, DbOK, Row
  <2>2. Steady BY <1>7 DEF EnqueueNew, Steady, LocalsOK, Append1
  <2> QED BY <2>1, <2>2
<1>8. ASSUME NEW w \in Workers, EnqueueAgain(w) PROVE BooksKept /\ Steady
  BY <1>8 DEF EnqueueAgain, BooksKept, Steady, LocalsOK, dbVars, outside, Append1
<1>9. ASSUME NEW w \in Workers, EnqueueRead(w) PROVE BooksKept /\ Steady
  BY <1>9 DEF EnqueueRead, BooksKept, Steady, LocalsOK, dbVars, outside, Append1, Goto
<1>10. ASSUME NEW w \in Workers, EnqueueSave(w) PROVE BooksKept /\ Steady
  <2>1. BooksKept BY <1>10 DEF EnqueueSave, BooksKept, outside, WriteLog, Requeued, DbOK, Row
  <2>2. Steady BY <1>10 DEF EnqueueSave, Steady, LocalsOK, Goto
  <2> QED BY <2>1, <2>2
<1>11. ASSUME NEW w \in Workers, EnqueueSaveFails(w) PROVE BooksKept /\ Steady
  BY <1>11 DEF EnqueueSaveFails, BooksKept, Steady, LocalsOK, dbVars, outside, HandleException, Forget
<1>12. ASSUME NEW w \in Workers, NoChain(w) PROVE BooksKept /\ Steady
  BY <1>12 DEF NoChain, BooksKept, Steady, LocalsOK, dbVars, outside, Goto
<1>13. ASSUME NEW w \in Workers, Finish(w) PROVE BooksKept /\ Steady
  BY <1>13 DEF Finish, BooksKept, Steady, LocalsOK, dbVars, outside, Forget
<1>14. ASSUME NEW w \in Workers, Fetch(w) PROVE BooksKept /\ Steady
  BY <1>14 DEF Fetch, BooksKept, Steady, LocalsOK, dbVars, outside, Goto
<1>15. ASSUME NEW w \in Workers, FailValidation(w) PROVE BooksKept /\ Steady
  <2>1. BooksKept BY <1>15 DEF FailValidation, BooksKept, outside, SaveFailure, WriteLog, Failed, LocalsOK, DbOK, Row
  <2>2. Steady BY <1>15 DEF FailValidation, Steady, LocalsOK, SaveFailure, Goto
  <2> QED BY <2>1, <2>2
<1>16. ASSUME NEW w \in Workers, Fail(w) PROVE BooksKept /\ Steady
  <2>0. PICK row \in {Failed(w), Fatal(w)} : SaveFailure(w, row)
    BY <1>16 DEF Fail
  <2>00. row.status # "COMPLETE"
    <3>1. stale[w] \in Row BY DEF LocalsOK
    <3>2. Failed(w).status = "FAILED" /\ Fatal(w).status = "FATAL" BY <3>1 DEF Failed, Fatal, Row
    <3> QED BY <2>0, <3>2
  <2>1. BooksKept BY <1>16, <2>0, <2>00 DEF Fail, BooksKept, outside, SaveFailure, WriteLog, LocalsOK, DbOK, Row
  <2>2. Steady BY <1>16 DEF Fail, Steady, LocalsOK, SaveFailure, Goto
  <2> QED BY <2>1, <2>2
<1>17. ASSUME NEW w \in Workers, FailAfterCommit(w) PROVE BooksKept /\ Steady
  <2>1. BooksKept BY <1>17 DEF FailAfterCommit, BooksKept, outside, SaveFailure, WriteLog, Fatal, LocalsOK, DbOK, Row
  <2>2. Steady BY <1>17 DEF FailAfterCommit, Steady, LocalsOK, SaveFailure, Goto
  <2> QED BY <2>1, <2>2
<1>18. ASSUME NEW w \in Workers, FailUnsaved(w) PROVE BooksKept /\ Steady
  BY <1>18 DEF FailUnsaved, BooksKept, Steady, LocalsOK, dbVars, outside, Goto
<1>19. ASSUME NEW w \in Workers, HandlerRaises(w) PROVE BooksKept /\ Steady
  BY <1>19 DEF HandlerRaises, BooksKept, Steady, LocalsOK, dbVars, outside, Goto
<1>20. ASSUME NEW w \in Workers, TaskDone(w) PROVE BooksKept /\ Steady
  BY <1>20 DEF TaskDone, BooksKept, Steady, LocalsOK, dbVars, outside, Advance
<1>21. ASSUME NEW w \in Workers, TailRaises(w) PROVE BooksKept /\ Steady
  BY <1>21 DEF TailRaises, BooksKept, Steady, LocalsOK, dbVars, outside, Goto
<1>22. ASSUME NEW w \in Workers, RunnerContinues(w) PROVE BooksKept /\ Steady
  BY <1>22 DEF RunnerContinues, BooksKept, Steady, LocalsOK, dbVars, outside, Advance
<1>23. ASSUME NEW w \in Workers, RunnerAborts(w) PROVE BooksKept /\ Steady
  BY <1>23 DEF RunnerAborts, BooksKept, Steady, LocalsOK, dbVars, outside, HandleException, Forget
<1>24. ASSUME RequestExport PROVE BooksKept /\ Steady
  BY <1>24 DEF RequestExport, BooksKept, Steady, localVars, dbVars, outside
<1>25. ASSUME SyncBegin PROVE BooksKept /\ Steady
  BY <1>25 DEF SyncBegin, BooksKept, Steady, localVars, dbVars, outside
<1>26. ASSUME SyncPublish PROVE BooksKept /\ Steady
  BY <1>26 DEF SyncPublish, BooksKept, Steady, localVars, dbVars, outside
<1>27. ASSUME SyncEnd PROVE BooksKept /\ Steady
  BY <1>27 DEF SyncEnd, BooksKept, Steady, localVars, dbVars, outside
<1>28. ASSUME SaveConfiguration PROVE BooksKept /\ Steady
  BY <1>28 DEF SaveConfiguration, BooksKept, Steady, localVars, dbVars, outside
<1>29. ASSUME ClearErrors PROVE BooksKept /\ Steady
  BY <1>29 DEF ClearErrors, BooksKept, Steady, localVars, dbVars, outside, Cleared, NoRow, DbOK
<1>30. ASSUME SettingsCrash PROVE BooksKept /\ Steady
  BY <1>30 DEF SettingsCrash, BooksKept, Steady, localVars, dbVars, outside
<1>31. ASSUME MapAttribute PROVE BooksKept /\ Steady
  BY <1>31 DEF MapAttribute, BooksKept, Steady, localVars, dbVars, outside
<1>32. CASE UNCHANGED vars
  BY <1>32 DEF BooksKept, Steady, vars, localVars, dbVars, outside
<1>33. ASSUME NEW w \in Workers, ScheduleRaises(w) PROVE BooksKept /\ Steady
  BY <1>33 DEF ScheduleRaises, BooksKept, Steady, LocalsOK, dbVars, outside, HandleException, Forget
<1>34. QED
  BY <1>1, <1>2, <1>3, <1>4, <1>5, <1>6, <1>7, <1>8, <1>9, <1>10, <1>11, <1>12, <1>13, <1>14, <1>15, <1>16, <1>17, <1>18, <1>19, <1>20, <1>21, <1>22, <1>23, <1>24, <1>25, <1>26, <1>27, <1>28, <1>29, <1>30, <1>31, <1>32, <1>33
  DEF Next, Work, Schedule, Task1, User, Sync

Books == PostedIsStored /\ ExportedIsPosted /\ CompleteIsExported

\* The books stay true: what is booked is in NetSuite, COMPLETE is booked.
LEMMA BooksStep == Typed /\ Books /\ [Next]_vars => Books'
<1> SUFFICES ASSUME Typed, Books, [Next]_vars PROVE Books'
  OBVIOUS
<1> USE DEF Typed, TypeOK
<1>1. CASE \A w \in Workers : ~Claim(w) /\ ~Post(w) /\ ~Commit(w)
  <2>1. BooksKept /\ Steady BY <1>1, FrameStep
  <2>2. PostedIsStored'
    BY <2>1 DEF Books, PostedIsStored, BooksKept, Steady, ExternalId, GroupNow, TypeNow
  <2>3. ExportedIsPosted' BY <2>1 DEF Books, ExportedIsPosted, BooksKept
  <2>4. CompleteIsExported' BY <2>1 DEF Books, CompleteIsExported, BooksKept
  <2> QED BY <2>2, <2>3, <2>4 DEF Books
<1>2. ASSUME NEW w \in Workers, Claim(w) PROVE Books'
  <2>1. PostedIsStored'
    BY <1>2 DEF Claim, Goto, LocalsOK, outside, Books, PostedIsStored, ExternalId, GroupNow, TypeNow
  <2>2. ExportedIsPosted' BY <1>2 DEF Claim, outside, Books, ExportedIsPosted
  <2>3. CompleteIsExported'
    BY <1>2 DEF Claim, Claimed, WriteLog, DbOK, Row, Books, CompleteIsExported
  <2> QED BY <2>1, <2>2, <2>3 DEF Books
<1>3. ASSUME NEW w \in Workers, Post(w) PROVE Books'
  <2>1. PostedIsStored'
    BY <1>3 DEF Post, Goto, LocalsOK, Books, PostedIsStored, ExternalId, GroupNow, TypeNow
  <2>2. ExportedIsPosted' BY <1>3 DEF Post, dbVars, Books, ExportedIsPosted
  <2>3. CompleteIsExported' BY <1>3 DEF Post, dbVars, Books, CompleteIsExported
  <2> QED BY <2>1, <2>2, <2>3 DEF Books
<1>4. ASSUME NEW w \in Workers, Commit(w) PROVE Books'
  <2> DEFINE g == GroupNow(w)
  <2>1. g \in Groups /\ TypeNow(w) \in Types
    BY <1>4, CurrentTask DEF Commit, LocalsFit, InTask
  <2>2. PostedIsStored'
    BY <1>4 DEF Commit, Goto, LocalsOK, outside, Books, PostedIsStored, ExternalId, GroupNow, TypeNow
  <2>3. ExternalId(w) \in netsuite' BY <1>4 DEF Commit, outside, Books, PostedIsStored
  <2>4. /\ objs' = [objs EXCEPT ![g] = objs[g] \cup {TypeNow(w)}]
        /\ exported' = [exported EXCEPT ![g] = TRUE]
        /\ taskLog' = [taskLog EXCEPT ![g] = [copy[w] EXCEPT !.status = "COMPLETE", !.doc = TypeNow(w)]]
        /\ netsuite' = netsuite
    BY <1>4 DEF Commit, WriteLog, outside
  <2>5. ExportedIsPosted'
    BY <2>1, <2>3, <2>4 DEF DbOK, Books, ExportedIsPosted, ExternalId
  <2>6. taskLog'[g].doc = TypeNow(w) BY <2>1, <2>4 DEF DbOK, LocalsOK, Row
  <2>7. CompleteIsExported'
    BY <2>1, <2>4, <2>6 DEF DbOK, Books, CompleteIsExported
  <2> QED BY <2>2, <2>5, <2>7 DEF Books
<1>5. QED
  BY <1>1, <1>2, <1>3, <1>4

\* A row nobody disturbed keeps its values or is created.
RowsForward ==
    /\ disturbed \subseteq disturbed'
    /\ \A g \in Groups \ disturbed' :
        \/ taskLog'[g] = taskLog[g]
        \/ taskLog[g].status = "NONE" /\ taskLog'[g].status = "ENQUEUED"

\* A worker about to save a copy holds one of a disturbed group, or the one it held.
SavesSafe ==
    \A v \in Workers : pc'[v] = "save" =>
        \/ SavedGroup(v)' \in disturbed'
        \/ pc[v] = "save" /\ chain'[v] = chain[v]

\* All steps but Claim, Post and Commit.
LEMMA RowsStep ==
  ASSUME Typed, OnlyForward, [Next]_vars,
         \A w \in Workers : ~Claim(w) /\ ~Post(w) /\ ~Commit(w)
  PROVE  RowsForward /\ SavesSafe
<1> USE DEF Typed, TypeOK
<1>1. ASSUME NEW w \in Workers, Deliver(w) PROVE RowsForward /\ SavesSafe
  BY <1>1 DEF Deliver, RowsForward, SavesSafe, dbVars, LocalsOK, StartExport
<1>2. ASSUME NEW w \in Workers, Crash(w) PROVE RowsForward /\ SavesSafe
  BY <1>2 DEF Crash, RowsForward, SavesSafe, dbVars, LocalsOK, Forget
<1>3. ASSUME NEW w \in Workers, StuckRead(w) PROVE RowsForward /\ SavesSafe
  BY <1>3 DEF StuckRead, RowsForward, SavesSafe, dbVars, LocalsOK, Goto
<1>4. ASSUME NEW w \in Workers, Select(w) PROVE RowsForward /\ SavesSafe
  BY <1>4 DEF Select, RowsForward, SavesSafe, dbVars, LocalsOK, Goto
<1>5. ASSUME NEW w \in Workers, SkipGroup(w) PROVE RowsForward /\ SavesSafe
  BY <1>5 DEF SkipGroup, RowsForward, SavesSafe, dbVars, LocalsOK
<1>6. ASSUME NEW w \in Workers, EnqueueAgain(w) PROVE RowsForward /\ SavesSafe
  BY <1>6 DEF EnqueueAgain, RowsForward, SavesSafe, dbVars, LocalsOK, Append1
<1>7. ASSUME NEW w \in Workers, EnqueueSaveFails(w) PROVE RowsForward /\ SavesSafe
  BY <1>7 DEF EnqueueSaveFails, RowsForward, SavesSafe, dbVars, LocalsOK, HandleException, Forget
<1>8. ASSUME NEW w \in Workers, NoChain(w) PROVE RowsForward /\ SavesSafe
  BY <1>8 DEF NoChain, RowsForward, SavesSafe, dbVars, LocalsOK, Goto
<1>9. ASSUME NEW w \in Workers, Finish(w) PROVE RowsForward /\ SavesSafe
  BY <1>9 DEF Finish, RowsForward, SavesSafe, dbVars, LocalsOK, Forget
<1>10. ASSUME NEW w \in Workers, Fetch(w) PROVE RowsForward /\ SavesSafe
  BY <1>10 DEF Fetch, RowsForward, SavesSafe, dbVars, LocalsOK, Goto
<1>11. ASSUME NEW w \in Workers, FailUnsaved(w) PROVE RowsForward /\ SavesSafe
  BY <1>11 DEF FailUnsaved, RowsForward, SavesSafe, dbVars, LocalsOK, Goto
<1>12. ASSUME NEW w \in Workers, HandlerRaises(w) PROVE RowsForward /\ SavesSafe
  BY <1>12 DEF HandlerRaises, RowsForward, SavesSafe, dbVars, LocalsOK, Goto
<1>13. ASSUME NEW w \in Workers, TaskDone(w) PROVE RowsForward /\ SavesSafe
  BY <1>13 DEF TaskDone, RowsForward, SavesSafe, dbVars, LocalsOK, Advance
<1>14. ASSUME NEW w \in Workers, TailRaises(w) PROVE RowsForward /\ SavesSafe
  BY <1>14 DEF TailRaises, RowsForward, SavesSafe, dbVars, LocalsOK, Goto
<1>15. ASSUME NEW w \in Workers, RunnerContinues(w) PROVE RowsForward /\ SavesSafe
  BY <1>15 DEF RunnerContinues, RowsForward, SavesSafe, dbVars, LocalsOK, Advance
<1>16. ASSUME NEW w \in Workers, RunnerAborts(w) PROVE RowsForward /\ SavesSafe
  BY <1>16 DEF RunnerAborts, RowsForward, SavesSafe, dbVars, LocalsOK, HandleException, Forget
<1>17. ASSUME RequestExport PROVE RowsForward /\ SavesSafe
  BY <1>17 DEF RequestExport, RowsForward, SavesSafe, dbVars, localVars
<1>18. ASSUME SyncBegin PROVE RowsForward /\ SavesSafe
  BY <1>18 DEF SyncBegin, RowsForward, SavesSafe, dbVars, localVars
<1>19. ASSUME SyncPublish PROVE RowsForward /\ SavesSafe
  BY <1>19 DEF SyncPublish, RowsForward, SavesSafe, dbVars, localVars
<1>20. ASSUME SyncEnd PROVE RowsForward /\ SavesSafe
  BY <1>20 DEF SyncEnd, RowsForward, SavesSafe, dbVars, localVars
<1>21. ASSUME SaveConfiguration PROVE RowsForward /\ SavesSafe
  BY <1>21 DEF SaveConfiguration, RowsForward, SavesSafe, dbVars, localVars
<1>22. ASSUME SettingsCrash PROVE RowsForward /\ SavesSafe
  BY <1>22 DEF SettingsCrash, RowsForward, SavesSafe, dbVars, localVars
<1>23. ASSUME MapAttribute PROVE RowsForward /\ SavesSafe
  BY <1>23 DEF MapAttribute, RowsForward, SavesSafe, dbVars, localVars
<1>24. ASSUME NEW w \in Workers, EnqueueNew(w) PROVE RowsForward /\ SavesSafe
  <2>1. RowsForward BY <1>24 DEF EnqueueNew, WriteLog, NoRow, DbOK, RowsForward
  <2>2. SavesSafe BY <1>24 DEF EnqueueNew, Append1, LocalsOK, SavesSafe
  <2> QED BY <2>1, <2>2
<1>25. ASSUME NEW w \in Workers, EnqueueRead(w) PROVE RowsForward /\ SavesSafe
  <2>1. RowsForward BY <1>25 DEF EnqueueRead, dbVars, RowsForward
  <2>2. PICK g \in todo[w] \ mappingErr :
          taskLog[g].status \in {"FAILED", "FATAL"} /\ Append1(w, g, taskLog[g].id)
    BY <1>25 DEF EnqueueRead
  <2>3. g \in disturbed BY <2>2 DEF OnlyForward, LocalsOK
  <2>4. SavedGroup(w)' = g
    BY <2>2, AppendTask, RowParts DEF Append1, SavedGroup, DbOK, LocalsOK
  <2>5. \A v \in Workers \ {w} : pc'[v] = pc[v] /\ chain'[v] = chain[v]
    BY <1>25, <2>2 DEF EnqueueRead, Append1, Goto, LocalsOK
  <2>6. disturbed' = disturbed BY <1>25 DEF EnqueueRead, dbVars
  <2>7. SavesSafe BY <2>3, <2>4, <2>5, <2>6 DEF SavesSafe
  <2> QED BY <2>1, <2>7
<1>26. ASSUME NEW w \in Workers, EnqueueSave(w) PROVE RowsForward /\ SavesSafe
  <2>1. SavedGroup(w) \in Groups BY <1>26, SavedTask DEF EnqueueSave, LocalsFit
  <2>2. SavedGroup(w) \in disturbed BY <1>26, <2>1 DEF EnqueueSave, OnlyForward
  <2>3. RowsForward BY <1>26, <2>2 DEF EnqueueSave, WriteLog, DbOK, RowsForward
  <2>4. SavesSafe BY <1>26 DEF EnqueueSave, Goto, LocalsOK, SavesSafe
  <2> QED BY <2>3, <2>4
<1>27. ASSUME NEW w \in Workers, FailValidation(w) PROVE RowsForward /\ SavesSafe
  <2>1. RowsForward BY <1>27 DEF FailValidation, SaveFailure, WriteLog, DbOK, RowsForward
  <2>2. SavesSafe BY <1>27 DEF FailValidation, SaveFailure, Goto, LocalsOK, SavesSafe
  <2> QED BY <2>1, <2>2
<1>28. ASSUME NEW w \in Workers, Fail(w) PROVE RowsForward /\ SavesSafe
  <2>1. RowsForward BY <1>28 DEF Fail, SaveFailure, WriteLog, DbOK, RowsForward
  <2>2. SavesSafe BY <1>28 DEF Fail, SaveFailure, Goto, LocalsOK, SavesSafe
  <2> QED BY <2>1, <2>2
<1>29. ASSUME NEW w \in Workers, FailAfterCommit(w) PROVE RowsForward /\ SavesSafe
  <2>1. RowsForward BY <1>29 DEF FailAfterCommit, SaveFailure, WriteLog, DbOK, RowsForward
  <2>2. SavesSafe BY <1>29 DEF FailAfterCommit, SaveFailure, Goto, LocalsOK, SavesSafe
  <2> QED BY <2>1, <2>2
<1>30. ASSUME NEW w \in Workers, StuckUpdate(w) PROVE RowsForward /\ SavesSafe
  <2>1. RowsForward BY <1>30 DEF StuckUpdate, DbOK, RowsForward
  <2>2. SavesSafe BY <1>30 DEF StuckUpdate, StartExport, Forget, LocalsOK, SavesSafe
  <2> QED BY <2>1, <2>2
<1>31. ASSUME ClearErrors PROVE RowsForward /\ SavesSafe
  <2>1. RowsForward BY <1>31 DEF ClearErrors, DbOK, RowsForward
  <2>2. SavesSafe BY <1>31 DEF ClearErrors, localVars, SavesSafe
  <2> QED BY <2>1, <2>2
<1>32. CASE UNCHANGED vars
  BY <1>32 DEF vars, dbVars, localVars, RowsForward, SavesSafe
<1>33. ASSUME NEW w \in Workers, ScheduleRaises(w) PROVE RowsForward /\ SavesSafe
  BY <1>33 DEF ScheduleRaises, RowsForward, SavesSafe, dbVars, LocalsOK, HandleException, Forget
<1>34. QED
  BY <1>1, <1>2, <1>3, <1>4, <1>5, <1>6, <1>7, <1>8, <1>9, <1>10, <1>11, <1>12, <1>13, <1>14, <1>15, <1>16, <1>17, <1>18, <1>19, <1>20, <1>21, <1>22, <1>23, <1>24, <1>25, <1>26, <1>27, <1>28, <1>29, <1>30, <1>31, <1>32, <1>33
  DEF Next, Work, Schedule, Task1, User, Sync

\* Undisturbed rows only move forward.
LEMMA ForwardStep == Typed /\ OnlyForward /\ [Next]_vars => OnlyForward'
<1> SUFFICES ASSUME Typed, OnlyForward, [Next]_vars PROVE OnlyForward'
  OBVIOUS
<1> USE DEF Typed, TypeOK
<1>1. CASE \A w \in Workers : ~Claim(w) /\ ~Post(w) /\ ~Commit(w)
  <2>1. BooksKept /\ Steady /\ RowsForward /\ SavesSafe BY <1>1, FrameStep, RowsStep
  <2> SUFFICES ASSUME NEW g \in Groups, g \notin disturbed'
               PROVE  /\ taskLog'[g].status \notin {"FAILED", "FATAL"}
                      /\ exported'[g] => taskLog'[g].status = "COMPLETE"
                      /\ \A w \in Workers :
                          /\ Exporting(w, g)' => taskLog'[g].status = "IN_PROGRESS"
                          /\ pc'[w] = "save" => SavedGroup(w)' # g
                          /\ \A v \in Workers : Exporting(v, g)' /\ Exporting(w, g)' => v = w
    BY DEF OnlyForward
  <2>2. g \notin disturbed BY <2>1 DEF RowsForward
  <2>3. \A w \in Workers : Exporting(w, g)' => Exporting(w, g)
    BY <2>1 DEF Steady, Exporting, GroupNow
  <2>4. /\ taskLog'[g].status \notin {"FAILED", "FATAL"}
        /\ exported'[g] => taskLog'[g].status = "COMPLETE"
        /\ \A w \in Workers : Exporting(w, g)' => taskLog'[g].status = "IN_PROGRESS"
    BY <2>1, <2>2, <2>3 DEF OnlyForward, RowsForward, BooksKept
  <2>5. \A w \in Workers : pc'[w] = "save" => SavedGroup(w)' # g
    BY <2>1, <2>2 DEF OnlyForward, SavesSafe, SavedGroup
  <2>6. \A v, w \in Workers : Exporting(v, g)' /\ Exporting(w, g)' => v = w
    BY <2>2, <2>3 DEF OnlyForward
  <2> QED BY <2>4, <2>5, <2>6
<1>2. ASSUME NEW w \in Workers, Claim(w) PROVE OnlyForward'
  <2> DEFINE g == GroupNow(w)
  <2>1. g \in Groups
    BY <1>2, CurrentTask DEF Claim, LocalsFit, InTask
  <2>2. /\ UNCHANGED <<exported, disturbed, chain>>
        /\ \A v \in Workers \ {w} : pc'[v] = pc[v]
    BY <1>2 DEF Claim, Goto, LocalsOK
  <2>3. CASE taskLog' = taskLog /\ pc'[w] = "tail"
    BY <2>2, <2>3 DEF OnlyForward, Exporting, GroupNow, SavedGroup
  <2>4. CASE /\ HasRow(g, RowNow(w)) /\ taskLog[g].status \notin {"IN_PROGRESS", "COMPLETE"}
             /\ taskLog' = [taskLog EXCEPT ![g] = Claimed(taskLog[g])]
             /\ pc'[w] = "claimed"
    <3>1. taskLog'[g].status = "IN_PROGRESS" /\ \A h \in Groups \ {g} : taskLog'[h] = taskLog[h]
      BY <2>1, <2>4 DEF DbOK, Row, Claimed
    <3>2. g \notin disturbed => ~exported[g] /\ \A v \in Workers : ~Exporting(v, g)
      BY <2>1, <2>4 DEF OnlyForward
    <3>3. \A v \in Workers, h \in Groups :
             Exporting(v, h)' <=> IF v = w THEN h = g ELSE Exporting(v, h)
      BY <2>2, <2>4 DEF Exporting, GroupNow
    <3>4. \A v \in Workers : pc'[v] = "save" => pc[v] = "save" /\ SavedGroup(v)' = SavedGroup(v)
      BY <2>2, <2>4 DEF SavedGroup
    <3> QED BY <2>1, <2>2, <3>1, <3>2, <3>3, <3>4 DEF OnlyForward
  <2> QED BY <1>2, <2>3, <2>4 DEF Claim, Claimable, Goto, WriteLog, LocalsOK
<1>3. ASSUME NEW w \in Workers, Post(w) PROVE OnlyForward'
  <2>1. UNCHANGED <<taskLog, exported, disturbed, chain>> BY <1>3 DEF Post, dbVars
  <2>2. \A v \in Workers : pc'[v] \in {"claimed", "posted"} <=> pc[v] \in {"claimed", "posted"}
    BY <1>3 DEF Post, Goto, LocalsOK
  <2>3. \A v \in Workers : pc'[v] = "save" => pc[v] = "save"
    BY <1>3 DEF Post, Goto, LocalsOK
  <2> QED BY <2>1, <2>2, <2>3 DEF OnlyForward, Exporting, GroupNow, SavedGroup
<1>4. ASSUME NEW w \in Workers, Commit(w) PROVE OnlyForward'
  <2> DEFINE g == GroupNow(w)
  <2>1. g \in Groups /\ Exporting(w, g)
    BY <1>4, CurrentTask DEF Commit, LocalsFit, InTask, Exporting
  <2>2. /\ UNCHANGED <<disturbed, chain>>
        /\ pc' = [pc EXCEPT ![w] = "committed"]
        /\ exported' = [exported EXCEPT ![g] = TRUE]
        /\ taskLog' = [taskLog EXCEPT ![g] = [copy[w] EXCEPT !.status = "COMPLETE", !.doc = TypeNow(w)]]
    BY <1>4 DEF Commit, Goto, WriteLog
  <2>3. taskLog'[g].status = "COMPLETE" /\ \A h \in Groups \ {g} : taskLog'[h] = taskLog[h] /\ exported'[h] = exported[h]
    BY <2>1, <2>2 DEF DbOK, LocalsOK, Row
  <2>4. \A v \in Workers, h \in Groups : Exporting(v, h)' => v # w /\ Exporting(v, h)
    BY <2>2 DEF Exporting, GroupNow, LocalsOK
  <2>5. \A h \in Groups \ disturbed : h = g => \A v \in Workers : ~Exporting(v, h)'
    BY <2>1, <2>4 DEF OnlyForward
  <2>6. \A v \in Workers : pc'[v] = "save" => pc[v] = "save" /\ SavedGroup(v)' = SavedGroup(v)
    BY <2>2 DEF SavedGroup, LocalsOK
  <2> QED BY <2>1, <2>2, <2>3, <2>4, <2>5, <2>6 DEF OnlyForward
<1>5. QED
  BY <1>1, <1>2, <1>3, <1>4

\* A chain of tasks of one fund source stays one with a task appended,
LEMMA FundAppend ==
  ASSUME NEW s \in Seq(Task), NEW g \in Groups, NEW id \in Nat, NEW f,
         FundOf[g] = f, \A i \in DOMAIN s : FundOf[s[i].group] = f
  PROVE  LET t == Append(s, [group |-> g, row |-> id])
         IN  \A i \in DOMAIN t : FundOf[t[i].group] = f
<1> DEFINE e == [group |-> g, row |-> id]
<1>1. e \in Task /\ FundOf[e.group] = f BY DEF Task
<1> HIDE DEF e
<1>2. \A i \in 1..Len(s) + 1 : FundOf[Append(s, e)[i].group] = f
  BY <1>1, AppendProperties, LenProperties
<1>3. DOMAIN Append(s, e) = 1..Len(s) + 1
  BY <1>1, AppendProperties, LenProperties
<1> QED BY <1>2, <1>3 DEF e

\* ... its tail,
LEMMA FundTail ==
  ASSUME NEW s \in Seq(Task), s # << >>, NEW f,
         \A i \in DOMAIN s : FundOf[s[i].group] = f
  PROVE  \A i \in DOMAIN Tail(s) : FundOf[Tail(s)[i].group] = f
<1>1. /\ Tail(s) \in Seq(Task) /\ Len(Tail(s)) = Len(s) - 1 /\ Len(s) \in Nat
      /\ \A i \in 1..Len(Tail(s)) : Tail(s)[i] = s[i + 1]
      /\ DOMAIN s = 1..Len(s)
  BY HeadTailProperties, LenProperties
<1>2. DOMAIN Tail(s) = 1..Len(Tail(s)) BY <1>1, LenProperties
<1> QED BY <1>1, <1>2

\* ... and its head.
LEMMA HeadFund ==
  ASSUME NEW s \in Seq(Task), s # << >>, NEW f,
         \A i \in DOMAIN s : FundOf[s[i].group] = f
  PROVE  FundOf[Head(s).group] = f
<1>1. Len(s) \in Nat \ {0} /\ DOMAIN s = 1..Len(s) BY EmptySeq, LenProperties
<1>2. Head(s) = s[1] OBVIOUS
<1> QED BY <1>1, <1>2

\* The lists of a worker are of its fund source.
LEMMA FundsStep == Typed /\ FundsFit /\ [Next]_vars => FundsFit'
<1> SUFFICES ASSUME Typed, FundsFit, [Next]_vars PROVE FundsFit'
  OBVIOUS
<1> USE DEF Typed, TypeOK
<1>1. ASSUME NEW w \in Workers, Deliver(w) PROVE FundsFit'
  BY <1>1 DEF Deliver, FundsFit, LocalsOK, InTask, StartExport
<1>2. ASSUME NEW w \in Workers, Crash(w) PROVE FundsFit'
  BY <1>2 DEF Crash, FundsFit, LocalsOK, InTask, Forget
<1>3. ASSUME NEW w \in Workers, StuckRead(w) PROVE FundsFit'
  BY <1>3 DEF StuckRead, FundsFit, LocalsOK, InTask, Goto
<1>4. ASSUME NEW w \in Workers, StuckUpdate(w) PROVE FundsFit'
  BY <1>4 DEF StuckUpdate, FundsFit, LocalsOK, InTask, StartExport, Forget
<1>5. ASSUME NEW w \in Workers, Select(w) PROVE FundsFit'
  <2>1. \A g \in Exportable(w) : FundOf[g] = fund[w]
    BY DEF Exportable
  <2>2. Exportable(w) \subseteq Groups
    BY DEF Exportable, LocalsOK, Job
  <2>3. CASE Exportable(w) # {}
    <3>1. /\ todo' = [todo EXCEPT ![w] = Exportable(w)]
          /\ pc' = [pc EXCEPT ![w] = "chain"]
          /\ UNCHANGED <<fund, chain>> /\ pc[w] = "select"
      BY <1>5, <2>3 DEF Select, Goto
    <3> QED BY <3>1, <2>1, <2>2 DEF FundsFit, LocalsOK, InTask
  <2>4. CASE Exportable(w) = {}
    <3>1. /\ fund' = [fund EXCEPT ![w] = NextFund(w)]
          /\ UNCHANGED <<todo, pc, chain>> /\ pc[w] = "select"
      BY <1>5, <2>4 DEF Select
    <3> QED BY <3>1 DEF FundsFit, LocalsOK, InTask
  <2> QED BY <2>3, <2>4
<1>6. ASSUME NEW w \in Workers, SkipGroup(w) PROVE FundsFit'
  BY <1>6 DEF SkipGroup, FundsFit, LocalsOK, InTask
<1>7. ASSUME NEW w \in Workers, EnqueueNew(w) PROVE FundsFit'
  <2>1. PICK g \in todo[w], id \in Nat : Append1(w, g, id)
    BY <1>7, RowParts DEF EnqueueNew, LocalsOK, DbOK
  <2>2. \A i \in DOMAIN chain'[w] : FundOf[chain'[w][i].group] = fund[w]
    BY <2>1, FundAppend DEF Append1, LocalsOK, FundsFit
  <2> QED BY <1>7, <2>1, <2>2 DEF EnqueueNew, FundsFit, LocalsOK, InTask, Append1
<1>8. ASSUME NEW w \in Workers, EnqueueAgain(w) PROVE FundsFit'
  <2>1. PICK g \in todo[w], id \in Nat : Append1(w, g, id)
    BY <1>8, RowParts DEF EnqueueAgain, LocalsOK, DbOK
  <2>2. \A i \in DOMAIN chain'[w] : FundOf[chain'[w][i].group] = fund[w]
    BY <2>1, FundAppend DEF Append1, LocalsOK, FundsFit
  <2> QED BY <1>8, <2>1, <2>2 DEF EnqueueAgain, FundsFit, LocalsOK, InTask, Append1
<1>9. ASSUME NEW w \in Workers, EnqueueRead(w) PROVE FundsFit'
  <2>1. PICK g \in todo[w], id \in Nat : Append1(w, g, id)
    BY <1>9, RowParts DEF EnqueueRead, LocalsOK, DbOK
  <2>2. \A i \in DOMAIN chain'[w] : FundOf[chain'[w][i].group] = fund[w]
    BY <2>1, FundAppend DEF Append1, LocalsOK, FundsFit
  <2> QED BY <1>9, <2>1, <2>2 DEF EnqueueRead, FundsFit, LocalsOK, InTask, Append1, Goto
<1>10. ASSUME NEW w \in Workers, EnqueueSave(w) PROVE FundsFit'
  BY <1>10 DEF EnqueueSave, FundsFit, LocalsOK, InTask, Goto
<1>11. ASSUME NEW w \in Workers, EnqueueSaveFails(w) PROVE FundsFit'
  BY <1>11 DEF EnqueueSaveFails, FundsFit, LocalsOK, InTask, HandleException, Forget
<1>12. ASSUME NEW w \in Workers, NoChain(w) PROVE FundsFit'
  BY <1>12 DEF NoChain, FundsFit, LocalsOK, InTask, Goto
<1>13. ASSUME NEW w \in Workers, Finish(w) PROVE FundsFit'
  BY <1>13 DEF Finish, FundsFit, LocalsOK, InTask, Forget
<1>14. ASSUME NEW w \in Workers, Fetch(w) PROVE FundsFit'
  BY <1>14 DEF Fetch, FundsFit, LocalsOK, InTask, Goto
<1>15. ASSUME NEW w \in Workers, Claim(w) PROVE FundsFit'
  BY <1>15 DEF Claim, FundsFit, LocalsOK, InTask, Goto
<1>16. ASSUME NEW w \in Workers, Post(w) PROVE FundsFit'
  BY <1>16 DEF Post, FundsFit, LocalsOK, InTask, Goto
<1>17. ASSUME NEW w \in Workers, Commit(w) PROVE FundsFit'
  BY <1>17 DEF Commit, FundsFit, LocalsOK, InTask, Goto
<1>18. ASSUME NEW w \in Workers, FailValidation(w) PROVE FundsFit'
  BY <1>18 DEF FailValidation, FundsFit, LocalsOK, InTask, SaveFailure, Goto
<1>19. ASSUME NEW w \in Workers, Fail(w) PROVE FundsFit'
  BY <1>19 DEF Fail, FundsFit, LocalsOK, InTask, SaveFailure, Goto
<1>20. ASSUME NEW w \in Workers, FailAfterCommit(w) PROVE FundsFit'
  BY <1>20 DEF FailAfterCommit, FundsFit, LocalsOK, InTask, SaveFailure, Goto
<1>21. ASSUME NEW w \in Workers, FailUnsaved(w) PROVE FundsFit'
  BY <1>21 DEF FailUnsaved, FundsFit, LocalsOK, InTask, Goto
<1>22. ASSUME NEW w \in Workers, HandlerRaises(w) PROVE FundsFit'
  BY <1>22 DEF HandlerRaises, FundsFit, LocalsOK, InTask, Goto
<1>23. ASSUME NEW w \in Workers, TaskDone(w) PROVE FundsFit'
  <2>1. \A i \in DOMAIN Tail(chain[w]) : FundOf[Tail(chain[w])[i].group] = fund[w]
    BY <1>23, FundTail DEF TaskDone, LocalsOK, LocalsFit, InTask, FundsFit
  <2> QED BY <1>23, <2>1 DEF TaskDone, FundsFit, LocalsOK, InTask, Advance
<1>24. ASSUME NEW w \in Workers, TailRaises(w) PROVE FundsFit'
  BY <1>24 DEF TailRaises, FundsFit, LocalsOK, InTask, Goto
<1>25. ASSUME NEW w \in Workers, RunnerContinues(w) PROVE FundsFit'
  <2>1. \A i \in DOMAIN Tail(chain[w]) : FundOf[Tail(chain[w])[i].group] = fund[w]
    BY <1>25, FundTail DEF RunnerContinues, LocalsOK, LocalsFit, InTask, FundsFit
  <2>2. chain' = [chain EXCEPT ![w] = Tail(chain[w])] /\ UNCHANGED todo
    BY <1>25 DEF RunnerContinues, Advance
  <2>3. pc[w] = "raised" /\ todo[w] = {} BY <1>25 DEF RunnerContinues, FundsFit, InTask
  <2>4. IF Tail(chain[w]) = << >>
        THEN pc' = [pc EXCEPT ![w] = "select"] /\ fund' = [fund EXCEPT ![w] = NextFund(w)]
        ELSE pc' = [pc EXCEPT ![w] = "chain"] /\ UNCHANGED fund
    BY <1>25 DEF RunnerContinues, Advance, LocalsOK
  <2> QED BY <2>1, <2>2, <2>3, <2>4 DEF FundsFit, LocalsOK, InTask
<1>26. ASSUME NEW w \in Workers, RunnerAborts(w) PROVE FundsFit'
  BY <1>26 DEF RunnerAborts, FundsFit, LocalsOK, InTask, HandleException, Forget
<1>27. ASSUME RequestExport PROVE FundsFit'
  BY <1>27 DEF RequestExport, FundsFit, localVars
<1>28. ASSUME SyncBegin PROVE FundsFit'
  BY <1>28 DEF SyncBegin, FundsFit, localVars
<1>29. ASSUME SyncPublish PROVE FundsFit'
  BY <1>29 DEF SyncPublish, FundsFit, localVars
<1>30. ASSUME SyncEnd PROVE FundsFit'
  BY <1>30 DEF SyncEnd, FundsFit, localVars
<1>31. ASSUME SaveConfiguration PROVE FundsFit'
  BY <1>31 DEF SaveConfiguration, FundsFit, localVars
<1>32. ASSUME ClearErrors PROVE FundsFit'
  BY <1>32 DEF ClearErrors, FundsFit, localVars
<1>33. ASSUME SettingsCrash PROVE FundsFit'
  BY <1>33 DEF SettingsCrash, FundsFit, localVars
<1>34. ASSUME MapAttribute PROVE FundsFit'
  BY <1>34 DEF MapAttribute, FundsFit, localVars
<1>35. CASE UNCHANGED vars
  BY <1>35 DEF vars, localVars, FundsFit
<1>36. ASSUME NEW w \in Workers, ScheduleRaises(w) PROVE FundsFit'
  BY <1>36 DEF ScheduleRaises, FundsFit, LocalsOK, InTask, HandleException, Forget
<1>37. QED
  BY <1>1, <1>2, <1>3, <1>4, <1>5, <1>6, <1>7, <1>8, <1>9, <1>10, <1>11, <1>12, <1>13, <1>14, <1>15, <1>16, <1>17, <1>18, <1>19, <1>20, <1>21, <1>22, <1>23, <1>24, <1>25, <1>26, <1>27, <1>28, <1>29, <1>30, <1>31, <1>32, <1>33, <1>34, <1>35, <1>36
  DEF Next, Work, Schedule, Task1, User, Sync

\* Until the settings change, everybody exports by them.
LEMMA SettingsStep == Typed /\ FundsFit /\ SettingsFit /\ [Next]_vars => SettingsFit'
<1> SUFFICES ASSUME Typed, FundsFit, SettingsFit, [Next]_vars PROVE SettingsFit'
  OBVIOUS
<1> USE DEF Typed, TypeOK
<1>1. ASSUME NEW w \in Workers, Deliver(w) PROVE SettingsFit'
  BY <1>1 DEF Deliver, SettingsFit, LocalsOK, dbVars, outside, counters, StartExport
<1>2. ASSUME NEW w \in Workers, Crash(w) PROVE SettingsFit'
  BY <1>2 DEF Crash, SettingsFit, LocalsOK, dbVars, outside, counters, Forget
<1>3. ASSUME NEW w \in Workers, StuckRead(w) PROVE SettingsFit'
  BY <1>3 DEF StuckRead, SettingsFit, LocalsOK, dbVars, outside, counters, Goto
<1>4. ASSUME NEW w \in Workers, StuckUpdate(w) PROVE SettingsFit'
  BY <1>4 DEF StuckUpdate, SettingsFit, LocalsOK, dbVars, outside, counters, StartExport, Forget
<1>5. ASSUME NEW w \in Workers, Select(w) PROVE SettingsFit'
  BY <1>5 DEF Select, SettingsFit, LocalsOK, dbVars, outside, counters, Goto
<1>6. ASSUME NEW w \in Workers, SkipGroup(w) PROVE SettingsFit'
  BY <1>6 DEF SkipGroup, SettingsFit, LocalsOK, dbVars, outside, counters
<1>7. ASSUME NEW w \in Workers, EnqueueNew(w) PROVE SettingsFit'
  BY <1>7 DEF EnqueueNew, SettingsFit, LocalsOK, dbVars, outside, counters, Append1
<1>8. ASSUME NEW w \in Workers, EnqueueAgain(w) PROVE SettingsFit'
  BY <1>8 DEF EnqueueAgain, SettingsFit, LocalsOK, dbVars, outside, counters, Append1
<1>9. ASSUME NEW w \in Workers, EnqueueRead(w) PROVE SettingsFit'
  BY <1>9 DEF EnqueueRead, SettingsFit, LocalsOK, dbVars, outside, counters, Append1, Goto
<1>10. ASSUME NEW w \in Workers, EnqueueSave(w) PROVE SettingsFit'
  BY <1>10 DEF EnqueueSave, SettingsFit, LocalsOK, dbVars, outside, counters, Goto
<1>11. ASSUME NEW w \in Workers, EnqueueSaveFails(w) PROVE SettingsFit'
  BY <1>11 DEF EnqueueSaveFails, SettingsFit, LocalsOK, dbVars, outside, counters, HandleException, Forget
<1>12. ASSUME NEW w \in Workers, NoChain(w) PROVE SettingsFit'
  BY <1>12 DEF NoChain, SettingsFit, LocalsOK, dbVars, outside, counters, Goto
<1>13. ASSUME NEW w \in Workers, Finish(w) PROVE SettingsFit'
  BY <1>13 DEF Finish, SettingsFit, LocalsOK, dbVars, outside, counters, Forget
<1>14. ASSUME NEW w \in Workers, Fetch(w) PROVE SettingsFit'
  BY <1>14 DEF Fetch, SettingsFit, LocalsOK, dbVars, outside, counters, Goto
<1>15. ASSUME NEW w \in Workers, Claim(w) PROVE SettingsFit'
  BY <1>15 DEF Claim, SettingsFit, LocalsOK, dbVars, outside, counters, Goto
<1>16. ASSUME NEW w \in Workers, Post(w) PROVE SettingsFit'
  <2>1. chain[w] # << >> /\ pc[w] = "claimed" BY <1>16 DEF Post, LocalsFit, InTask
  <2>2. FundOf[GroupNow(w)] = fund[w]
    BY <2>1, HeadFund DEF LocalsOK, FundsFit, GroupNow
  <2>3. changes = 0 => ExternalId(w).type = config[FundOf[ExternalId(w).group]]
    BY <2>1, <2>2 DEF SettingsFit, ExternalId, TypeNow
  <2> QED BY <1>16, <2>3 DEF Post, SettingsFit, Goto, LocalsOK, counters, dbVars
<1>17. ASSUME NEW w \in Workers, Commit(w) PROVE SettingsFit'
  BY <1>17 DEF Commit, SettingsFit, LocalsOK, dbVars, outside, counters, Goto
<1>18. ASSUME NEW w \in Workers, FailValidation(w) PROVE SettingsFit'
  BY <1>18 DEF FailValidation, SettingsFit, LocalsOK, dbVars, outside, counters, SaveFailure, Goto
<1>19. ASSUME NEW w \in Workers, Fail(w) PROVE SettingsFit'
  BY <1>19 DEF Fail, SettingsFit, LocalsOK, dbVars, outside, counters, SaveFailure, Goto
<1>20. ASSUME NEW w \in Workers, FailAfterCommit(w) PROVE SettingsFit'
  BY <1>20 DEF FailAfterCommit, SettingsFit, LocalsOK, dbVars, outside, counters, SaveFailure, Goto
<1>21. ASSUME NEW w \in Workers, FailUnsaved(w) PROVE SettingsFit'
  BY <1>21 DEF FailUnsaved, SettingsFit, LocalsOK, dbVars, outside, counters, Goto
<1>22. ASSUME NEW w \in Workers, HandlerRaises(w) PROVE SettingsFit'
  BY <1>22 DEF HandlerRaises, SettingsFit, LocalsOK, dbVars, outside, counters, Goto
<1>23. ASSUME NEW w \in Workers, TaskDone(w) PROVE SettingsFit'
  BY <1>23 DEF TaskDone, SettingsFit, LocalsOK, dbVars, outside, counters, Advance
<1>24. ASSUME NEW w \in Workers, TailRaises(w) PROVE SettingsFit'
  BY <1>24 DEF TailRaises, SettingsFit, LocalsOK, dbVars, outside, counters, Goto
<1>25. ASSUME NEW w \in Workers, RunnerContinues(w) PROVE SettingsFit'
  BY <1>25 DEF RunnerContinues, SettingsFit, LocalsOK, dbVars, outside, counters, Advance
<1>26. ASSUME NEW w \in Workers, RunnerAborts(w) PROVE SettingsFit'
  BY <1>26 DEF RunnerAborts, SettingsFit, LocalsOK, dbVars, outside, counters, HandleException, Forget
<1>27. ASSUME RequestExport PROVE SettingsFit'
  BY <1>27 DEF RequestExport, SettingsFit, localVars, dbVars, outside, counters, Publish
<1>28. ASSUME SyncBegin PROVE SettingsFit'
  BY <1>28 DEF SyncBegin, SettingsFit, localVars, dbVars, outside, counters
<1>29. ASSUME SyncPublish PROVE SettingsFit'
  BY <1>29 DEF SyncPublish, SettingsFit, localVars, dbVars, outside, counters, Publish
<1>30. ASSUME SyncEnd PROVE SettingsFit'
  BY <1>30 DEF SyncEnd, SettingsFit, localVars, dbVars, outside, counters
<1>31. ASSUME SaveConfiguration PROVE SettingsFit'
  BY <1>31 DEF SaveConfiguration, SettingsFit, localVars, dbVars, outside, counters, CountersOK
<1>32. ASSUME ClearErrors PROVE SettingsFit'
  BY <1>32 DEF ClearErrors, SettingsFit, localVars, dbVars, outside, counters
<1>33. ASSUME SettingsCrash PROVE SettingsFit'
  BY <1>33 DEF SettingsCrash, SettingsFit, localVars, dbVars, outside, counters
<1>34. ASSUME MapAttribute PROVE SettingsFit'
  BY <1>34 DEF MapAttribute, SettingsFit, localVars, dbVars, outside, counters
<1>35. CASE UNCHANGED vars
  BY <1>35 DEF vars, localVars, dbVars, outside, counters, SettingsFit
<1>36. ASSUME NEW w \in Workers, ScheduleRaises(w) PROVE SettingsFit'
  BY <1>36 DEF ScheduleRaises, SettingsFit, LocalsOK, dbVars, outside, counters, HandleException, Forget
<1>37. QED
  BY <1>1, <1>2, <1>3, <1>4, <1>5, <1>6, <1>7, <1>8, <1>9, <1>10, <1>11, <1>12, <1>13, <1>14, <1>15, <1>16, <1>17, <1>18, <1>19, <1>20, <1>21, <1>22, <1>23, <1>24, <1>25, <1>26, <1>27, <1>28, <1>29, <1>30, <1>31, <1>32, <1>33, <1>34, <1>35, <1>36
  DEF Next, Work, Schedule, Task1, User, Sync

LEMMA InitIInv == Init => IInv
<1> SUFFICES ASSUME Init PROVE IInv
  OBVIOUS
<1> USE ExportAssumption, RowFacts DEF Init
<1>1. DbOK BY DEF DbOK
<1>2. OutsideOK /\ CountersOK BY DEF OutsideOK, CountersOK
<1>3. LocalsOK BY DEF LocalsOK, Pcs, Unset, Funds
<1>4. LocalsFit /\ PostedIsStored BY DEF LocalsFit, PostedIsStored, InTask
<1>5. ExportedIsPosted /\ CompleteIsExported BY DEF ExportedIsPosted, CompleteIsExported, NoRow
<1>6. OnlyForward BY DEF OnlyForward, Exporting, NoRow
<1>7. FundsFit /\ SettingsFit BY DEF FundsFit, SettingsFit, InTask
<1> QED BY <1>1, <1>2, <1>3, <1>4, <1>5, <1>6, <1>7 DEF IInv, TypeOK

\* The inductive invariant holds in every state the pipeline can reach.
THEOREM Inductive == Spec => []IInv
<1>1. IInv /\ [Next]_vars => IInv'
  BY TypedStep, BooksStep, ForwardStep, FundsStep, SettingsStep DEF IInv, Typed, Books
<1> QED BY InitIInv, <1>1, PTL DEF Spec

\* Every variable keeps its type, so stuck_export_re_attempt_count never passes
\* its limit of two.
THEOREM TypeCorrect == Spec => []TypeOK
<1>1. IInv => TypeOK BY DEF IInv
<1> QED BY Inductive, <1>1, PTL

\* COMPLETE task logs belong to exported groups (create_bill's transaction 2).
THEOREM CompleteCorrect == Spec => []CompleteIsExported
<1>1. IInv => CompleteIsExported BY DEF IInv
<1> QED BY Inductive, <1>1, PTL

\* Exported groups have objects, and those are in NetSuite.
THEOREM ExportedCorrect == Spec => []ExportedIsPosted
<1>1. IInv => ExportedIsPosted BY DEF IInv
<1> QED BY Inductive, <1>1, PTL

\* The claim under select_for_update excludes every other task of a group whose
\* row was never disturbed.
THEOREM ClaimCorrect == Spec => []ClaimIsExclusive
<1>1. IInv => ClaimIsExclusive
  BY DEF IInv, OnlyForward, ClaimIsExclusive
<1> QED BY Inductive, <1>1, PTL

\* Retries by external id: one document per group while the settings stand.
THEOREM OneDocumentCorrect == Spec => []OneDocument
<1>1. IInv => OneDocument
  BY DEF IInv, TypeOK, OutsideOK, Document, SettingsFit, OneDocument
<1> QED BY Inductive, <1>1, PTL

\* The initial states of the pipeline are those of the promise.
LEMMA PromiseInit == Init => Promise!Init
  BY DEF Init, Promise!Init, Ledger, Document, Promise!Document

\* Every step is a step of the promise, or leaves the ledger alone.
LEMMA PromiseStep == IInv /\ [Next]_vars => [Promise!Next]_(Promise!vars)
<1> SUFFICES ASSUME IInv, [Next]_vars PROVE [Promise!Next]_(Promise!vars)
  OBVIOUS
<1> USE DEF IInv, Typed, TypeOK
<1>1. CASE \A w \in Workers : ~Claim(w) /\ ~Post(w) /\ ~Commit(w)
  <2>1. UNCHANGED <<exported, objs, netsuite>> BY <1>1, FrameStep DEF BooksKept
  <2> QED BY <2>1 DEF Promise!vars, Ledger
<1>2. ASSUME NEW w \in Workers, Claim(w) PROVE [Promise!Next]_(Promise!vars)
  BY <1>2 DEF Claim, outside, Promise!vars, Ledger
<1>3. ASSUME NEW w \in Workers, Post(w) PROVE [Promise!Next]_(Promise!vars)
  <2> DEFINE d == ExternalId(w)
  <2>1. d \in Document
    BY <1>3, CurrentTask DEF Post, LocalsFit, InTask, ExternalId, Document
  <2>2. netsuite' = netsuite \cup {d} /\ UNCHANGED <<exported, objs>>
    BY <1>3 DEF Post, dbVars
  <2> HIDE DEF d
  <2>3. CASE d \in netsuite \/ d.type \in objs[d.group]
    <3>1. Ledger' = Ledger BY <2>2, <2>3 DEF Ledger
    <3> QED BY <2>2, <3>1 DEF Promise!vars
  <2>4. CASE d \notin netsuite /\ d.type \notin objs[d.group]
    <3>1. Ledger[d] = "absent" BY <2>1, <2>4 DEF Ledger
    <3>2. Ledger' = [Ledger EXCEPT ![d] = "stored"] BY <2>1, <2>2, <2>4 DEF Ledger
    <3>3. Promise!Store(d) BY <2>2, <3>1, <3>2 DEF Promise!Store
    <3> QED BY <2>1, <3>3 DEF Promise!Next, Promise!Document, Document
  <2> QED BY <2>3, <2>4
<1>4. ASSUME NEW w \in Workers, Commit(w) PROVE [Promise!Next]_(Promise!vars)
  <2> DEFINE d == ExternalId(w)
  <2>1. d \in Document
    BY <1>4, CurrentTask DEF Commit, LocalsFit, InTask, ExternalId, Document
  <2>2. /\ netsuite' = netsuite
        /\ exported' = [exported EXCEPT ![d.group] = TRUE]
        /\ objs' = [objs EXCEPT ![d.group] = objs[d.group] \cup {d.type}]
    BY <1>4 DEF Commit, outside, ExternalId
  <2>3. d \in netsuite BY <1>4 DEF Commit, PostedIsStored
  <2>4. d = [group |-> d.group, type |-> d.type] /\ d.group \in Groups BY <2>1 DEF Document
  <2> HIDE DEF d
  <2>5. \A e \in Document : e # d => (e.type \in objs'[e.group] <=> e.type \in objs[e.group])
    BY <2>1, <2>2 DEF Document, DbOK
  <2>6. d.type \in objs'[d.group] BY <2>2, <2>4 DEF DbOK
  <2>7. CASE d.type \in objs[d.group]
    <3>1. objs' = objs /\ exported' = exported
      BY <2>2, <2>4, <2>7 DEF DbOK, ExportedIsPosted
    <3> QED BY <2>2, <3>1 DEF Promise!vars, Ledger
  <2>8. CASE d.type \notin objs[d.group]
    <3>1. Ledger[d] = "stored" BY <2>1, <2>3, <2>8 DEF Ledger
    <3>2. Ledger' = [Ledger EXCEPT ![d] = "booked"] BY <2>1, <2>2, <2>5, <2>6 DEF Ledger
    <3>3. Promise!Book(d) BY <2>2, <3>1, <3>2 DEF Promise!Book
    <3> QED BY <2>1, <3>3 DEF Promise!Next, Promise!Document, Document
  <2> QED BY <2>7, <2>8
<1>5. QED
  BY <1>1, <1>2, <1>3, <1>4

\* The pipeline implements its promise: whatever overlaps, fails or is redelivered,
\* documents are stored before they are booked, and nothing is taken back.
THEOREM Refinement == Spec => KeepsPromise
  BY Inductive, PromiseInit, PromiseStep, PTL DEF Spec, KeepsPromise, Promise!Spec
-----------------------------------------------------------------------------
(* The count of stuck re-attempts, when live tasks end within the hour.    *)

\* The copies that worker w may yet save as the row of group g.
Taking == {"claim", "claimed", "posted", "committed"}
Saves(w, g) == {r \in {copy[w], stale[w]} :
    \/ r = copy[w] /\ pc[w] = "save" /\ g = SavedGroup(w)
    \/ r = copy[w] /\ Exporting(w, g)
    \/ r = stale[w] /\ pc[w] \in Taking /\ g = GroupNow(w)}

\* A copy of the row has its count, and so have the copies of a deleted row,
\* of which one may be inserted again.
Counts(g, r) == r.id < nextId /\ (HasRow(g, r.id) => r.stuck = taskLog[g].stuck)
Kept == \A g \in Groups :
    /\ taskLog[g].status # "NONE" => taskLog[g].id < nextId
    /\ \A w \in Workers : \A r \in Saves(w, g) :
          /\ Counts(g, r)
          /\ \A v \in Workers : \A s \in Saves(v, g) : s.id = r.id => s.stuck = r.stuck

\* What a step does to a row: leave its key and count, delete it, insert it,
\* save a copy, or add to the count when nobody has a copy.
Like(r, s) == r.id = s.id /\ r.stuck = s.stuck
RowMoves(g) ==
    \/ Like(taskLog'[g], taskLog[g]) /\ (taskLog'[g].status = "NONE" <=> taskLog[g].status = "NONE")
    \/ taskLog'[g].status = "NONE"
    \/ taskLog[g].status = "NONE" /\ taskLog'[g].id = nextId /\ nextId' = nextId + 1
    \/ \E w \in Workers : \E r \in Saves(w, g) : Like(taskLog'[g], r) /\ CanSave(g, r)
    \/ /\ taskLog[g].status # "NONE" /\ taskLog'[g].id = taskLog[g].id
       /\ taskLog'[g].stuck >= taskLog[g].stuck
       /\ \A w \in Workers : Saves(w, g)' = {}
\* What it does to the copies of a worker: keep some, or read the row.
CopyMoves(w) == \A g \in Groups : \A r \in Saves(w, g)' :
    \/ \E s \in Saves(w, g) : Like(r, s)
    \/ taskLog[g].status # "NONE" /\ Like(r, taskLog[g])
NoneBack == \A g \in Groups :
    HasRow(g, taskLog'[g].id) /\ taskLog'[g].status # "NONE" => taskLog'[g].stuck >= taskLog[g].stuck

LEMMA MovesKeep ==
  ASSUME TypeOK, TypeOK', Kept, nextId' >= nextId,
         \A g \in Groups : RowMoves(g), \A w \in Workers : CopyMoves(w)
  PROVE  Kept' /\ NoneBack
<1>0. nextId \in Nat /\ nextId' \in Nat BY DEF TypeOK, DbOK
<1>a. ASSUME NEW g \in Groups
      PROVE  /\ taskLog[g].id \in Nat /\ taskLog'[g].id \in Nat
             /\ taskLog[g].stuck \in Nat /\ taskLog'[g].stuck \in Nat
  <2>1. taskLog[g] \in Row /\ taskLog'[g] \in Row BY DEF TypeOK, DbOK
  <2> QED BY <2>1 DEF Row, MaxStuck
<1>b. ASSUME NEW g \in Groups, NEW w \in Workers, NEW r \in Saves(w, g)'
      PROVE  r.id \in Nat /\ r.stuck \in Nat
  <2>1. r \in {copy'[w], stale'[w]} BY DEF Saves
  <2>2. r \in Row BY <2>1 DEF TypeOK, LocalsOK
  <2> QED BY <2>2 DEF Row, MaxStuck
\* the copies after the step, and the row before it
<1>1. ASSUME NEW g \in Groups, NEW w \in Workers, NEW r \in Saves(w, g)' PROVE Counts(g, r)
  BY <1>1 DEF CopyMoves, Kept, Counts, HasRow, Like
<1>2. ASSUME NEW g \in Groups, NEW w \in Workers, NEW r \in Saves(w, g)',
             NEW v \in Workers, NEW s \in Saves(v, g) \cup Saves(v, g)', s.id = r.id
      PROVE  s.stuck = r.stuck
  <2>1. \/ \E x \in Saves(w, g) : Like(r, x)
        \/ taskLog[g].status # "NONE" /\ Like(r, taskLog[g])
    BY <1>2 DEF CopyMoves
  <2>2. \/ \E y \in Saves(v, g) : Like(s, y)
        \/ taskLog[g].status # "NONE" /\ Like(s, taskLog[g])
    BY <1>2 DEF CopyMoves, Like
  <2> QED BY <1>2, <2>1, <2>2 DEF Kept, Counts, HasRow, Like
\* the copies and the row after it
<1>3. ASSUME NEW g \in Groups
      PROVE  /\ taskLog'[g].status # "NONE" => taskLog'[g].id < nextId'
             /\ \A w \in Workers : \A r \in Saves(w, g)' : Counts(g, r)'
             /\ HasRow(g, taskLog'[g].id) /\ taskLog'[g].status # "NONE" =>
                  taskLog'[g].stuck >= taskLog[g].stuck
  <2>r. RowMoves(g) OBVIOUS
  <2>1. CASE Like(taskLog'[g], taskLog[g]) /\ (taskLog'[g].status = "NONE" <=> taskLog[g].status = "NONE")
    BY <1>0, <1>1, <1>a, <1>b, <2>1 DEF Like, Kept, Counts, HasRow
  <2>2. CASE taskLog'[g].status = "NONE"
    BY <1>0, <1>1, <1>a, <1>b, <2>2 DEF Counts, HasRow
  <2>3. CASE taskLog[g].status = "NONE" /\ taskLog'[g].id = nextId /\ nextId' = nextId + 1
    BY <1>0, <1>1, <1>a, <1>b, <2>3 DEF Counts, HasRow
  <2>4. ASSUME NEW v \in Workers, NEW s \in Saves(v, g), Like(taskLog'[g], s), CanSave(g, s)
        PROVE  /\ taskLog'[g].status # "NONE" => taskLog'[g].id < nextId'
               /\ \A w \in Workers : \A r \in Saves(w, g)' : Counts(g, r)'
               /\ HasRow(g, taskLog'[g].id) /\ taskLog'[g].status # "NONE" =>
                    taskLog'[g].stuck >= taskLog[g].stuck
    <3>1. Counts(g, s) BY DEF Kept
    <3>2. taskLog'[g].id < nextId' BY <1>0, <1>a, <2>4, <3>1 DEF Counts, Like
    <3>3. ASSUME NEW w \in Workers, NEW r \in Saves(w, g)' PROVE Counts(g, r)'
      <4>1. r.id < nextId' BY <1>0, <1>1, <1>b, <3>3 DEF Counts
      <4>2. s.id = r.id => s.stuck = r.stuck BY <1>2, <3>3
      <4> QED BY <2>4, <4>1, <4>2 DEF Counts, HasRow, Like
    <3>4. HasRow(g, taskLog'[g].id) => taskLog'[g].stuck = taskLog[g].stuck
      BY <2>4, <3>1 DEF Counts, HasRow, Like
    <3> QED BY <1>a, <3>2, <3>3, <3>4
  <2>5. CASE /\ taskLog[g].status # "NONE" /\ taskLog'[g].id = taskLog[g].id
             /\ taskLog'[g].stuck >= taskLog[g].stuck
             /\ \A w \in Workers : Saves(w, g)' = {}
    BY <1>0, <1>a, <2>5 DEF Kept
  <2> QED BY <2>1, <2>2, <2>3, <2>4, <2>5, <2>r DEF RowMoves
<1>4. Kept' BY <1>2, <1>3 DEF Kept
<1>5. NoneBack BY <1>3 DEF NoneBack
<1> QED BY <1>4, <1>5

\* A step leaves the copies of the other workers alone.
Rest(w) == \A v \in Workers \ {w} :
    pc'[v] = pc[v] /\ chain'[v] = chain[v] /\ copy'[v] = copy[v] /\ stale'[v] = stale[v]
Holding == Taking \cup {"save"}
Moves ==
    /\ nextId' >= nextId
    /\ \A g \in Groups : RowMoves(g)
    /\ \A w \in Workers : CopyMoves(w)

LEMMA SameCopies ==
  ASSUME NEW v \in Workers, pc'[v] = pc[v], chain'[v] = chain[v],
         copy'[v] = copy[v], stale'[v] = stale[v]
  PROVE  CopyMoves(v) /\ \A g : Saves(v, g)' = Saves(v, g)
<1>1. \A g : Saves(v, g)' = Saves(v, g) BY DEF Saves, SavedGroup, GroupNow, Exporting
<1> QED BY <1>1 DEF CopyMoves, Like

LEMMA NoCopies ==
  ASSUME NEW w \in Workers, pc'[w] \notin Holding
  PROVE  CopyMoves(w) /\ \A g : Saves(w, g)' = {}
<1>1. \A g : Saves(w, g)' = {} BY DEF Saves, Holding, Taking, Exporting
<1> QED BY <1>1 DEF CopyMoves

\* Who has a copy of a row has its group in its hands.
LEMMA CopiesHeld ==
  ASSUME Typed, NEW w \in Workers, NEW g, Saves(w, g) # {}
  PROVE  Holds(w, g)
<1>1. pc[w] \in Holding /\ (g = SavedGroup(w) \/ g = GroupNow(w))
  BY DEF Saves, Holding, Taking, Exporting
<1>2. chain[w] \in Seq(Task) /\ chain[w] # << >> /\ pc[w] # "idle"
  BY <1>1 DEF Typed, TypeOK, LocalsOK, LocalsFit, InTask, Holding, Taking
<1>3. Len(chain[w]) \in 1..Len(chain[w]) /\ 1 \in 1..Len(chain[w]) /\ Head(chain[w]) = chain[w][1]
  BY <1>2
<1> QED BY <1>1, <1>2, <1>3 DEF Holds, SavedGroup, GroupNow

\* A step of a worker that touches no row keeps no copy, or those it had.
LEMMA PlainMoves ==
  ASSUME NEW w \in Workers, Rest(w), UNCHANGED <<taskLog, nextId>>, CopyMoves(w), TypeOK
  PROVE  Moves
<1>1. \A v \in Workers : CopyMoves(v) BY SameCopies DEF Rest
<1>2. \A g \in Groups : RowMoves(g) BY DEF RowMoves, Like
<1>3. nextId' >= nextId BY DEF TypeOK, DbOK
<1> QED BY <1>1, <1>2, <1>3 DEF Moves

LEMMA LooseStep ==
  ASSUME Typed, NEW w \in Workers,
         \/ Deliver(w) \/ Crash(w) \/ StuckRead(w) \/ Select(w) \/ SkipGroup(w) \/ EnqueueAgain(w)
         \/ EnqueueSaveFails(w) \/ ScheduleRaises(w) \/ NoChain(w) \/ Finish(w) \/ FailUnsaved(w)
         \/ HandlerRaises(w) \/ TaskDone(w) \/ TailRaises(w) \/ RunnerContinues(w) \/ RunnerAborts(w)
  PROVE  Moves
<1> USE DEF Typed, TypeOK, Rest, Holding, Taking, dbVars, LocalsOK
<1>1. CASE Deliver(w) \/ StuckRead(w)
  <2>1. Rest(w) /\ pc'[w] \notin Holding /\ UNCHANGED <<taskLog, nextId>>
    BY <1>1 DEF Deliver, StuckRead, StartExport, Goto
  <2> QED BY <2>1, NoCopies, PlainMoves
<1>2. CASE Crash(w) \/ Finish(w)
  <2>1. Rest(w) /\ pc'[w] \notin Holding /\ UNCHANGED <<taskLog, nextId>>
    BY <1>2 DEF Crash, Finish, Forget
  <2> QED BY <2>1, NoCopies, PlainMoves
<1>3. CASE EnqueueSaveFails(w) \/ ScheduleRaises(w) \/ RunnerAborts(w)
  <2>1. Rest(w) /\ pc'[w] \notin Holding /\ UNCHANGED <<taskLog, nextId>>
    BY <1>3 DEF EnqueueSaveFails, ScheduleRaises, RunnerAborts, HandleException, Forget
  <2> QED BY <2>1, NoCopies, PlainMoves
<1>4. CASE Select(w) \/ SkipGroup(w) \/ EnqueueAgain(w) \/ NoChain(w)
  <2>1. Rest(w) /\ pc'[w] \notin Holding /\ UNCHANGED <<taskLog, nextId>>
    BY <1>4 DEF Select, SkipGroup, EnqueueAgain, NoChain, Append1, Goto
  <2> QED BY <2>1, NoCopies, PlainMoves
<1>5. CASE FailUnsaved(w) \/ HandlerRaises(w) \/ TailRaises(w)
  <2>1. Rest(w) /\ pc'[w] \notin Holding /\ UNCHANGED <<taskLog, nextId>>
    BY <1>5 DEF FailUnsaved, HandlerRaises, TailRaises, Goto
  <2> QED BY <2>1, NoCopies, PlainMoves
<1>6. CASE TaskDone(w) \/ RunnerContinues(w)
  <2>1. Rest(w) /\ pc'[w] \notin Holding /\ UNCHANGED <<taskLog, nextId>>
    BY <1>6 DEF TaskDone, RunnerContinues, Advance
  <2> QED BY <2>1, NoCopies, PlainMoves
<1> QED BY <1>1, <1>2, <1>3, <1>4, <1>5, <1>6

LEMMA CopyStep ==
  ASSUME Typed, NEW w \in Workers, EnqueueRead(w) \/ Fetch(w) \/ Claim(w) \/ Post(w)
  PROVE  Moves
<1> USE DEF Typed, TypeOK
<1>1. CASE EnqueueRead(w)
  <2>1. PICK g \in todo[w] \ mappingErr :
          /\ taskLog[g].status \in {"FAILED", "FATAL"}
          /\ copy' = [copy EXCEPT ![w] = taskLog[g]] /\ Append1(w, g, taskLog[g].id)
    BY <1>1 DEF EnqueueRead
  <2>2. Rest(w) /\ pc'[w] = "save" /\ copy'[w] = taskLog[g] /\ UNCHANGED <<taskLog, nextId>>
    BY <1>1, <2>1 DEF EnqueueRead, Append1, Goto, LocalsOK, Rest, dbVars
  <2>3. SavedGroup(w)' = g
    BY <2>1, AppendTask, RowParts DEF Append1, SavedGroup, DbOK, LocalsOK
  <2>4. CopyMoves(w) BY <2>1, <2>2, <2>3 DEF CopyMoves, Saves, Exporting, Taking, Like
  <2> QED BY <2>2, <2>4, PlainMoves
<1>2. CASE Fetch(w)
  <2>1. Rest(w) /\ UNCHANGED <<taskLog, nextId, chain>>
    BY <1>2 DEF Fetch, Goto, LocalsOK, Rest, dbVars
  <2>2. CASE HasRow(GroupNow(w), RowNow(w))
    <3>1. /\ pc'[w] = "claim" /\ stale'[w] = taskLog[GroupNow(w)] /\ GroupNow(w)' = GroupNow(w)
          /\ taskLog[GroupNow(w)].status # "NONE"
      BY <1>2, <2>1, <2>2 DEF Fetch, Goto, LocalsOK, HasRow, GroupNow
    <3>2. CopyMoves(w) BY <3>1 DEF CopyMoves, Saves, Exporting, Taking, Like
    <3> QED BY <2>1, <3>2, PlainMoves
  <2>3. CASE ~HasRow(GroupNow(w), RowNow(w))
    <3>1. pc'[w] = "raised" BY <1>2, <2>3 DEF Fetch, Goto, LocalsOK
    <3> QED BY <2>1, <3>1, NoCopies, PlainMoves DEF Holding, Taking
  <2> QED BY <2>2, <2>3
<1>3. CASE Claim(w)
  <2>1. Rest(w) /\ UNCHANGED <<nextId, chain, stale>> /\ pc[w] = "claim" /\ GroupNow(w)' = GroupNow(w)
    BY <1>3 DEF Claim, Goto, LocalsOK, Rest, GroupNow
  <2>2. CASE Claimable(w)
    <3>p. PICK g, r : g = GroupNow(w) /\ r = taskLog[g] OBVIOUS
    <3>1. /\ taskLog' = [taskLog EXCEPT ![g] = Claimed(r)] /\ copy'[w] = Claimed(r)
          /\ pc'[w] = "claimed" /\ r.status # "NONE" /\ g \in Groups /\ r \in Row
      BY <1>3, <2>2, <3>p, CurrentTask
      DEF Claim, Claimable, WriteLog, Goto, LocalsOK, HasRow, LocalsFit, InTask, DbOK
    <3>2. Like(Claimed(r), r) /\ Claimed(r).status = "IN_PROGRESS" BY <3>1 DEF Claimed, Like, Row
    <3>3. /\ taskLog'[g] = Claimed(r) /\ \A h \in Groups : h # g => taskLog'[h] = taskLog[h]
      BY <3>1 DEF DbOK
    <3>4. \A h \in Groups : RowMoves(h) BY <3>1, <3>2, <3>3, <3>p DEF RowMoves, Like
    <3>5. CopyMoves(w)
      <4>1. \A h : stale[w] \in Saves(w, h) <=> h = g BY <2>1, <3>p DEF Saves, Taking, Exporting
      <4>2. \A h : \A x \in Saves(w, h)' : h = g /\ x \in {Claimed(r), stale[w]}
        BY <2>1, <3>1, <3>p DEF Saves, Taking, Exporting
      <4> QED BY <3>1, <3>2, <3>p, <4>1, <4>2 DEF CopyMoves, Like
    <3>6. \A v \in Workers : CopyMoves(v) BY <2>1, <3>5, SameCopies DEF Rest
    <3> QED BY <2>1, <3>4, <3>6 DEF Moves, DbOK
  <2>3. CASE ~Claimable(w)
    <3>1. pc'[w] = "tail" /\ taskLog' = taskLog BY <1>3, <2>3 DEF Claim, Goto, LocalsOK
    <3> QED BY <2>1, <3>1, NoCopies, PlainMoves DEF Holding, Taking
  <2> QED BY <2>2, <2>3
<1>4. CASE Post(w)
  <2>1. /\ Rest(w) /\ UNCHANGED <<taskLog, nextId, chain, copy, stale>>
        /\ pc[w] = "claimed" /\ pc'[w] = "posted"
    BY <1>4 DEF Post, Goto, LocalsOK, Rest, dbVars
  <2>2. \A g : Saves(w, g)' = Saves(w, g) BY <2>1 DEF Saves, GroupNow, Exporting, Taking
  <2>3. CopyMoves(w) BY <2>2 DEF CopyMoves, Like
  <2> QED BY <2>1, <2>3, PlainMoves
<1> QED BY <1>1, <1>2, <1>3, <1>4

\* A save writes a copy, with its key and its count.
LEMMA SaveStep ==
  ASSUME Typed, NEW w \in Workers,
         EnqueueSave(w) \/ Commit(w) \/ FailValidation(w) \/ Fail(w) \/ FailAfterCommit(w)
  PROVE  Moves
<1> USE DEF Typed, TypeOK
<1>1. ASSUME NEW g \in Groups, NEW r \in Saves(w, g), CanSave(g, r), NEW row, Like(row, r),
             WriteLog(g, row), Rest(w), nextId' = nextId, CopyMoves(w)
      PROVE  Moves
  <2>1. taskLog'[g] = row /\ \A h \in Groups : h # g => taskLog'[h] = taskLog[h]
    BY <1>1 DEF WriteLog, DbOK
  <2>2. \A h \in Groups : RowMoves(h) BY <1>1, <2>1 DEF RowMoves, Like
  <2>3. \A v \in Workers : CopyMoves(v) BY <1>1, SameCopies DEF Rest
  <2> QED BY <1>1, <2>2, <2>3 DEF Moves, DbOK
<1>p. PICK g, c, s : g = GroupNow(w) /\ c = copy[w] /\ s = stale[w] OBVIOUS
<1>r. c \in Row /\ s \in Row BY <1>p DEF LocalsOK
<1>2. CASE EnqueueSave(w)
  <2>1. PICK h : h = SavedGroup(w) OBVIOUS
  <2>2. h \in Groups BY <1>2, <2>1, SavedTask DEF EnqueueSave, LocalsFit
  <2>3. c \in Saves(w, h) /\ CanSave(h, c) BY <1>2, <1>p, <2>1 DEF Saves, EnqueueSave
  <2>4. Like(Requeued(w), c) BY <1>p, <1>r DEF Like, Requeued, Row
  <2>5. Rest(w) /\ WriteLog(h, Requeued(w)) /\ nextId' = nextId /\ pc'[w] = "chain"
    BY <1>2, <2>1 DEF EnqueueSave, Rest, Goto, LocalsOK
  <2> QED BY <1>1, <2>2, <2>3, <2>4, <2>5, NoCopies DEF Holding, Taking
<1>3. CASE Commit(w)
  <2>1. g \in Groups BY <1>3, <1>p, CurrentTask DEF Commit, LocalsFit, InTask
  <2>2. c \in Saves(w, g) /\ CanSave(g, c) BY <1>3, <1>p DEF Saves, Commit, Exporting
  <2>3. PICK row : row = [c EXCEPT !.status = "COMPLETE", !.doc = TypeNow(w)] OBVIOUS
  <2>4. Like(row, c) BY <1>r, <2>3 DEF Like, Row
  <2>5. /\ Rest(w) /\ WriteLog(g, row) /\ UNCHANGED <<nextId, chain, stale, copy>>
        /\ pc[w] = "posted" /\ pc'[w] = "committed"
    BY <1>3, <1>p, <2>3 DEF Commit, Rest, Goto, LocalsOK
  <2>6. CopyMoves(w) BY <2>5 DEF CopyMoves, Saves, GroupNow, Exporting, Taking, Like
  <2> QED BY <1>1, <2>1, <2>2, <2>4, <2>5, <2>6
<1>4. ASSUME NEW row \in {Failed(w), Fatal(w)}, pc[w] \in Taking, SaveFailure(w, row), Rest(w),
             nextId' = nextId, chain[w] # << >>
      PROVE  Moves
  <2>1. g \in Groups BY <1>4, <1>p, CurrentTask
  <2>2. Like(row, s) BY <1>4, <1>p, <1>r DEF Like, Failed, Fatal, Row
  <2>3. s \in Saves(w, g) BY <1>4, <1>p DEF Saves
  <2>4. CanSave(g, s) /\ WriteLog(g, row) BY <1>4, <1>p, <2>2 DEF SaveFailure, CanSave, Like
  <2>5. pc'[w] = "tail" BY <1>4 DEF SaveFailure, Goto, LocalsOK
  <2> QED BY <1>1, <1>4, <2>1, <2>2, <2>3, <2>4, <2>5, NoCopies DEF Holding, Taking
<1>5. CASE FailValidation(w) \/ Fail(w) \/ FailAfterCommit(w)
  <2>1. PICK row \in {Failed(w), Fatal(w)} : SaveFailure(w, row)
    BY <1>5 DEF FailValidation, Fail, FailAfterCommit
  <2>2. pc[w] \in Taking /\ nextId' = nextId /\ UNCHANGED <<chain, copy, stale>>
    BY <1>5 DEF FailValidation, Fail, FailAfterCommit, Taking
  <2>3. Rest(w) BY <2>1, <2>2 DEF SaveFailure, Goto, Rest, LocalsOK
  <2>4. chain[w] # << >> BY <2>2 DEF LocalsFit, InTask, Taking
  <2> QED BY <1>4, <2>1, <2>2, <2>3, <2>4
<1> QED BY <1>2, <1>3, <1>5

LEMMA NewStep == ASSUME Typed, NEW w \in Workers, EnqueueNew(w) PROVE Moves
<1> USE DEF Typed, TypeOK
<1>1. PICK g \in todo[w] \ mappingErr :
        /\ taskLog[g].status = "NONE"
        /\ WriteLog(g, [NoRow EXCEPT !.id = nextId, !.status = "ENQUEUED", !.type = TypeNow(w)])
        /\ Append1(w, g, nextId)
  BY DEF EnqueueNew
<1>2. g \in Groups BY DEF LocalsOK
<1>3. taskLog'[g].id = nextId /\ \A h \in Groups : h # g => taskLog'[h] = taskLog[h]
  BY <1>1, <1>2 DEF WriteLog, DbOK, NoRow
<1>4. Rest(w) /\ pc'[w] = "chain" /\ nextId' = nextId + 1
  BY <1>1 DEF EnqueueNew, Append1, Rest, LocalsOK
<1>5. \A h \in Groups : RowMoves(h) BY <1>1, <1>3, <1>4 DEF RowMoves, Like
<1>6. \A v \in Workers : CopyMoves(v)
  BY <1>4, NoCopies, SameCopies DEF Rest, Holding, Taking
<1> QED BY <1>4, <1>5, <1>6 DEF Moves, DbOK

\* The stuck check counts up rows of which no worker has a copy.
LEMMA StuckStep ==
  ASSUME Typed, HourSuffices, NEW w \in Workers, StuckUpdate(w) PROVE Moves
<1> USE DEF Typed, TypeOK
<1>1. PICK hit \in SUBSET {g \in job[w].ids : Stuck(g)} :
        taskLog' = [g \in Groups |-> IF g \in hit THEN GiveBack(taskLog[g]) ELSE taskLog[g]]
  BY DEF StuckUpdate
<1>2. pc[w] = "stuck" /\ nextId' = nextId BY DEF StuckUpdate
<1>3. Rest(w) /\ pc'[w] \notin Holding
  BY <1>2 DEF StuckUpdate, StartExport, Forget, Rest, Holding, Taking, LocalsOK
<1>4. \A v \in Workers : CopyMoves(v) BY <1>3, NoCopies, SameCopies DEF Rest
<1>5. ASSUME NEW g \in Groups PROVE RowMoves(g)
  <2>1. CASE g \notin hit BY <1>1, <2>1 DEF RowMoves, Like
  <2>2. CASE g \in hit
    <3>1. /\ taskLog[g].status # "NONE" /\ \A v \in Workers : ~Holds(v, g)
          /\ taskLog'[g] = GiveBack(taskLog[g]) /\ taskLog[g] \in Row
      BY <1>1, <2>2 DEF Stuck, InFlight, DbOK
    <3>2. taskLog'[g].id = taskLog[g].id /\ taskLog'[g].stuck >= taskLog[g].stuck
      BY <3>1 DEF GiveBack, Row, MaxStuck
    <3>3. ASSUME NEW v \in Workers PROVE Saves(v, g)' = {}
      <4>1. Saves(v, g) = {} BY <3>1, CopiesHeld
      <4> QED BY <1>3, <4>1, NoCopies, SameCopies DEF Rest
    <3> QED BY <3>1, <3>2, <3>3 DEF RowMoves
  <2> QED BY <2>1, <2>2
<1> QED BY <1>2, <1>4, <1>5 DEF Moves, DbOK

LEMMA OutsideStep == ASSUME Typed, User \/ Sync \/ UNCHANGED vars PROVE Moves
<1> USE DEF Typed, TypeOK
<1>1. UNCHANGED localVars /\ nextId' = nextId
  BY DEF User, RequestExport, SaveConfiguration, ClearErrors, SettingsCrash, MapAttribute,
         Sync, SyncBegin, SyncPublish, SyncEnd, dbVars, vars
<1>2. \A w \in Workers : CopyMoves(w) BY <1>1, SameCopies DEF localVars
<1>3. CASE ClearErrors
  <2>1. \A g \in Groups : taskLog'[g] \in {taskLog[g], NoRow} BY <1>3 DEF ClearErrors
  <2>2. \A g \in Groups : RowMoves(g) BY <2>1 DEF RowMoves, Like, NoRow
  <2> QED BY <1>1, <1>2, <2>2 DEF Moves, DbOK
<1>4. CASE ~ClearErrors
  <2>1. taskLog' = taskLog
    BY <1>4 DEF User, RequestExport, SaveConfiguration, SettingsCrash, MapAttribute,
                Sync, SyncBegin, SyncPublish, SyncEnd, dbVars, vars
  <2>2. \A g \in Groups : RowMoves(g) BY <2>1 DEF RowMoves, Like
  <2> QED BY <1>1, <1>2, <2>2 DEF Moves, DbOK
<1> QED BY <1>3, <1>4

LEMMA KeptStep ==
  ASSUME HourSuffices PROVE Typed /\ Kept /\ [Next]_vars => Kept' /\ NoneBack
<1> SUFFICES ASSUME Typed, Kept, [Next]_vars PROVE Kept' /\ NoneBack
  OBVIOUS
<1>1. Typed' BY TypedStep
<1>2. ASSUME NEW w \in Workers, Deliver(w) \/ Work(w) \/ Crash(w) \/ StuckRead(w) PROVE Moves
  BY <1>2, LooseStep, CopyStep, SaveStep, NewStep, StuckStep DEF Work, Schedule, Task1
<1>3. Moves BY <1>2, OutsideStep DEF Next
<1> QED BY <1>1, <1>3, MovesKeep DEF Moves, Typed

LEMMA KeptInit == Init => Kept
<1> SUFFICES ASSUME Init PROVE Kept
  OBVIOUS
<1>1. \A w \in Workers : \A g : Saves(w, g) = {} BY DEF Init, Saves, Exporting, Taking
<1> QED BY <1>1 DEF Init, Kept, NoRow

\* While a task that is alive ends within the hour, no whole-row save of an older
\* copy, not even one that inserts a deleted row again, takes back a count of
\* stuck re-attempts, so that the two re-attempts are not granted anew.
THEOREM StuckCountCorrect == ASSUME HourSuffices PROVE Spec => StuckCountKept
<1>1. Typed /\ Kept /\ [Next]_vars => Typed' /\ Kept' BY TypedStep, KeptStep
<1>2. Init => Typed /\ Kept BY InitIInv, KeptInit DEF IInv, Typed
<1>3. Typed /\ Kept /\ [Next]_vars =>
        [\A g \in Groups : (HasRow(g, taskLog'[g].id) /\ taskLog'[g].status # "NONE")
            => taskLog'[g].stuck >= taskLog[g].stuck]_vars
  BY KeptStep DEF NoneBack
<1> QED BY <1>1, <1>2, <1>3, PTL DEF Spec, StuckCountKept
=============================================================================
