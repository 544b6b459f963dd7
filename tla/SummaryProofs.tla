--------------------------- MODULE SummaryProofs ---------------------------
(* Proofs about ExportSummary.                                             *)
EXTENDS ExportSummary, TLAPS, SequenceTheorems, FiniteSetTheorems, WellFoundedInduction

\* A worker that posts has a batch to post.
Posting == {"send", "refused", "mark", "marking"}
Fit     == \A w \in Workers : at[w] \in Posting => batches[w] # << >>
Typed   == TypeOK /\ Fit

\* The operations of the scripts are operations.
LEMMA OpTypes ==
  ASSUME NEW E \in SUBSET Expenses, NEW g \in Groups, NEW s \in States, NEW b \in BOOLEAN
  PROVE  /\ PostAll \in Op /\ PostIds(E) \in Op /\ PostGroup(g) \in Op /\ PostFailed(g) \in Op
         /\ PostFailedIds(E) \in Op /\ Update(s, g) \in Op /\ UpdateIds(s, E) \in Op
         /\ Outcome(g, b) \in Op /\ Skip(E) \in Op /\ Ungroup(E) \in Op
  BY DEF PostAll, PostIds, PostGroup, PostFailed, PostFailedIds, Update, UpdateIds, Outcome,
         Skip, Ungroup, Op, States

\* Operations in a set make scripts over that set.
LEMMA ScriptOf ==
  ASSUME NEW S, NEW a \in S, NEW b \in S, NEW c \in S, NEW d \in S
  PROVE  /\ << >> \in Seq(S) /\ <<a>> \in Seq(S) /\ <<a, b>> \in Seq(S)
         /\ <<a, b, c>> \in Seq(S) /\ <<a, b, c, d>> \in Seq(S)
  OBVIOUS

LEMMA JoinOf ==
  ASSUME NEW S, NEW s \in Seq(S), NEW t \in Seq(S)
  PROVE  s \o t \in Seq(S)
  BY ConcatProperties

LEMMA DetailsOf ==
  ASSUME NEW S, PostAll \in S, NEW b \in BOOLEAN
  PROVE  Details(b) \in Seq(S)
  BY DEF Details

\* What is left after an export is a script over any set with its operations.
LEMMA AfterExport ==
  ASSUME NEW S, NEW g, NEW b \in BOOLEAN,
         PostAll \in S, PostGroup(g) \in S, PostFailed(g) \in S
  PROVE  /\ Update("COMPLETE", g) \in S => Exported(g, b) \in Seq(S)
         /\ Update("ERROR", g) \in S => Failed(g, b) \in Seq(S)
         /\ Faulted(g, b) \in Seq(S)
<1>1. Details(b) \in Seq(S) BY DetailsOf
<1>2. ASSUME Update("COMPLETE", g) \in S PROVE Exported(g, b) \in Seq(S)
  <2>1. <<Update("COMPLETE", g), PostGroup(g), PostFailed(g)>> \in Seq(S) BY <1>2, ScriptOf
  <2> QED BY <1>1, <2>1, JoinOf DEF Exported
<1>3. ASSUME Update("ERROR", g) \in S PROVE Failed(g, b) \in Seq(S)
  <2>1. <<Update("ERROR", g), PostFailed(g)>> \in Seq(S) BY <1>3, ScriptOf
  <2> QED BY <1>1, <2>1, JoinOf DEF Failed
<1>4. Faulted(g, b) \in Seq(S)
  <2>1. <<PostFailed(g)>> \in Seq(S) BY ScriptOf
  <2> QED BY <1>1, <2>1, JoinOf DEF Faulted
<1> QED BY <1>2, <1>3, <1>4

\* The current operation and the rest of the script.
LEMMA NowTyped ==
  ASSUME NEW w \in Workers, LocalsOK, script[w] # << >>
  PROVE  Now(w) \in Op /\ Tail(script[w]) \in Seq(Op)
<1>1. script[w] \in Seq(Op) BY DEF LocalsOK
<1> QED BY <1>1, HeadTailProperties DEF Now

\* The expenses of an operation are expenses.
LEMMA ScopeTyped ==
  ASSUME NEW op \in Op, DbOK PROVE Scope(op) \in SUBSET Expenses
  BY DEF Scope, Members, DbOK, Op

LEMMA CopyTyped ==
  ASSUME NEW E \in SUBSET Expenses, DbOK
  PROVE  /\ [e \in E |-> summary[e]] \in Partial(Summary)
         /\ [e \in E |-> summary[e].state] \in Partial(States)
  BY DEF Partial, DbOK, Summary

LEMMA SyncedTyped ==
  ASSUME NEW s \in Summary
  PROVE  /\ [s EXCEPT !.synced = TRUE] \in Summary
         /\ [s EXCEPT !.synced = TRUE].state = s.state /\ s.state \in States
  BY DEF Summary

LEMMA NoCopyTyped == NoCopy \in Partial(Summary) /\ DOMAIN NoCopy = {}
<1>1. NoCopy \in [{} -> Summary] BY DEF NoCopy
<1>2. {} \in SUBSET Expenses OBVIOUS
<1> QED BY <1>1, <1>2 DEF Partial

\* The first batch of a post and the rest of them.
LEMMA BatchTyped ==
  ASSUME NEW w \in Workers, PostOK, batches[w] # << >>
  PROVE  /\ Head(batches[w]) \in Partial(States)
         /\ Batch(w) \subseteq Expenses
         /\ Tail(batches[w]) \in Seq(Partial(States))
<1>1. batches[w] \in Seq(Partial(States)) BY DEF PostOK
<1>2. Head(batches[w]) \in Partial(States) /\ Tail(batches[w]) \in Seq(Partial(States))
  BY <1>1, HeadTailProperties
<1> QED BY <1>2 DEF Batch, Partial

\* Going on keeps the locals typed.
LEMMA GoOnTyped ==
  ASSUME NEW w \in Workers, NEW ops \in Seq(Op), LocalsOK, GoOn(w, ops)
  PROVE  /\ LocalsOK'
         /\ at' = [at EXCEPT ![w] = "next"]
  BY NoCopyTyped DEF LocalsOK, GoOn, Places

LEMMA StartWritingTyped ==
  ASSUME NEW w \in Workers, NEW ops \in Seq(Op), NEW E \in SUBSET Expenses,
         NEW all \in SUBSET Expenses, DbOK, LocalsOK, StartWriting(w, E, ops, all)
  PROVE  LocalsOK' /\ at' = [at EXCEPT ![w] = "write"]
<1>1. [e \in E |-> summary[e]] \in Partial(Summary) BY CopyTyped
<1> QED BY <1>1 DEF LocalsOK, StartWriting, Places

LEMMA ContinueTyped ==
  ASSUME NEW w \in Workers, Typed, script[w] # << >>,
         NEW o \in Nat, NEW n \in Nat, NEW left \in Seq(Partial(States)),
         Continue(w, o, n, left)
  PROVE  /\ LocalsOK'
         /\ batches' \in [Workers -> Seq(Partial(States))]
         /\ count' \in [Workers -> Nat] /\ off' \in [Workers -> Nat]
         /\ Fit'
<1> USE DEF Typed, TypeOK
<1>1. batches' = [batches EXCEPT ![w] = left] BY DEF Continue
<1>2. CASE Onward(o, n, left) = "next"
  <2>1. /\ GoOn(w, Tail(script[w]))
        /\ off' = [off EXCEPT ![w] = 0] /\ count' = [count EXCEPT ![w] = 0]
    BY <1>2 DEF Continue
  <2>2. LocalsOK' /\ at' = [at EXCEPT ![w] = "next"] BY <2>1, NowTyped, GoOnTyped
  <2> QED BY <1>1, <2>1, <2>2 DEF PostOK, Fit, Posting, LocalsOK
<1>3. CASE Onward(o, n, left) # "next"
  <2>1. /\ at' = [at EXCEPT ![w] = Onward(o, n, left)]
        /\ off' = [off EXCEPT ![w] = o] /\ count' = [count EXCEPT ![w] = n]
        /\ copy' = [copy EXCEPT ![w] = NoCopy] /\ UNCHANGED <<script, held>>
    BY <1>3 DEF Continue
  <2>2. Onward(o, n, left) = "page" \/ (Onward(o, n, left) = "send" /\ left # << >>)
    BY <1>3 DEF Onward
  <2>3. LocalsOK' BY <2>1, <2>2, NoCopyTyped DEF LocalsOK, Places
  <2> QED BY <1>1, <2>1, <2>2, <2>3 DEF PostOK, Fit, Posting, LocalsOK
<1> QED BY <1>2, <1>3

\* A set of keys has a least one.
LEMMA LeastKey ==
  ASSUME NEW T \in SUBSET Nat, T # {} PROVE \E n \in T : \A m \in T : n <= m
<1>1. PICK n \in T : \A m \in T : ~(<<m, n>> \in OpToRel(<, Nat))
  BY NatLessThanWellFounded, WFMin
<1>2. \A m \in T : ~(m < n) BY <1>1 DEF OpToRel
<1> QED BY <1>2

\* The expense that comes first in a group is in it.
LEMMA FirstMember ==
  ASSUME NEW g \in Groups, DbOK, Members(g) # {}
  PROVE  First(g) \in Members(g)
<1> DEFINE keys == {Id[e] : e \in Members(g)}
<1>1. Members(g) \subseteq Expenses BY DEF Members, DbOK
<1>2. keys \in SUBSET Nat /\ keys # {} BY <1>1, SummaryAssumption
<1>3. PICK n \in keys : \A m \in keys : n <= m BY <1>2, LeastKey
<1>4. PICK e \in Members(g) : n = Id[e] BY <1>3
<1>5. \A x \in Members(g) : Id[e] <= Id[x] BY <1>3, <1>4
<1> QED BY <1>4, <1>5 DEF First

\* The jobs a worker takes up keep the types and the fit.
LEMMA TypedStart ==
  ASSUME Typed, NEW w \in Workers, Start(w) PROVE Typed'
<1> USE SummaryAssumption DEF Typed, TypeOK
<1>1. ASSUME NEW g \in Groups, NEW auto \in BOOLEAN, NEW last \in Lasts, StartExport(w, g, auto, last)
      PROVE  Typed'
  <2> DEFINE E == Members(g)
  <2> DEFINE all == IF last THEN Expenses ELSE E
  <2>0. E \in SUBSET Expenses /\ all \in SUBSET Expenses /\ last \in BOOLEAN
        /\ "IN_PROGRESS" \in States
    BY DEF Members, DbOK, States
  <2> HIDE DEF E, all
  <2>1. DbOK' BY <1>1 DEF StartExport, DbOK, Status
  <2>2. OutsideOK' /\ PostOK' BY <1>1 DEF StartExport, OutsideOK, PostOK, fyleVars, postVars
  <2>3. LocalsOK' /\ \A v \in Workers : at'[v] = at[v] \/ at'[v] = "write"
    <3>1. CASE auto /\ prev[First(g)] = "ERROR"
      <4>1. /\ script' = [script EXCEPT ![w] = <<Outcome(g, last)>>]
            /\ held' = [held EXCEPT ![w] = all] /\ UNCHANGED <<at, copy>>
        BY <1>1, <3>1 DEF StartExport, all, E
      <4>2. <<Outcome(g, last)>> \in Seq(Op) BY <2>0, OpTypes, ScriptOf
      <4> QED BY <2>0, <4>1, <4>2 DEF LocalsOK
    <3>2. CASE ~(auto /\ prev[First(g)] = "ERROR")
      <4> DEFINE ops == <<UpdateIds("IN_PROGRESS", E), PostIds(E), Outcome(g, last)>>
      <4>1. ops \in Seq(Op) BY <2>0, OpTypes, ScriptOf
      <4>2. StartWriting(w, E, ops, all) BY <1>1, <3>2 DEF StartExport, all, E
      <4> HIDE DEF ops
      <4>3. LocalsOK' /\ at' = [at EXCEPT ![w] = "write"] BY <2>0, <4>1, <4>2, StartWritingTyped
      <4> QED BY <4>3 DEF LocalsOK
    <3> QED BY <3>1, <3>2
  <2>4. Fit' BY <1>1, <2>3 DEF StartExport, Fit, Posting, postVars
  <2> QED BY <2>1, <2>2, <2>3, <2>4
<1>2. ASSUME NEW g \in Groups, NEW last \in Lasts, StartSkippedExport(w, g, last)
      PROVE  Typed'
  <2> DEFINE E == {First(g)}
  <2> DEFINE all == IF last THEN Expenses ELSE Members(g)
  <2> DEFINE ops == <<UpdateIds("IN_PROGRESS", E), PostIds(E), Update("ERROR", g), PostFailed(g)>>
                       \o Details(last)
  <2>0. E \in SUBSET Expenses /\ all \in SUBSET Expenses /\ last \in BOOLEAN
        /\ "IN_PROGRESS" \in States /\ "ERROR" \in States
    BY <1>2, FirstMember DEF StartSkippedExport, Members, DbOK, States
  <2>1. StartWriting(w, E, ops, all) BY <1>2 DEF StartSkippedExport
  <2>2. ops \in Seq(Op)
    <3>1. /\ UpdateIds("IN_PROGRESS", E) \in Op /\ PostIds(E) \in Op /\ Update("ERROR", g) \in Op
          /\ PostFailed(g) \in Op /\ PostAll \in Op
      BY <2>0, OpTypes
    <3> HIDE DEF E
    <3>2. <<UpdateIds("IN_PROGRESS", E), PostIds(E), Update("ERROR", g), PostFailed(g)>> \in Seq(Op)
      BY <3>1, ScriptOf
    <3>3. Details(last) \in Seq(Op) BY <2>0, <3>1, DetailsOf
    <3> QED BY <3>2, <3>3, JoinOf
  <2> HIDE DEF E, all, ops
  <2>3. LocalsOK' /\ at' = [at EXCEPT ![w] = "write"] BY <2>0, <2>1, <2>2, StartWritingTyped
  <2>4. DbOK' /\ OutsideOK' /\ PostOK'
    BY <1>2 DEF StartSkippedExport, DbOK, OutsideOK, PostOK, dbVars, fyleVars, postVars
  <2>5. Fit' BY <1>2, <2>3 DEF StartSkippedExport, Fit, Posting, postVars, LocalsOK
  <2> QED BY <2>3, <2>4, <2>5
<1>3. ASSUME NEW E \in SUBSET Filtered, StartSkip(w, E) PROVE Typed'
  <2>1. Skip(E) \in Op
    <3>1. E \in SUBSET Expenses OBVIOUS
    <3> QED BY <3>1 DEF Skip, PostAll, Op, States
  <2>2. <<Skip(E)>> \in Seq(Op) BY <2>1, ScriptOf
  <2>3. script' = [script EXCEPT ![w] = <<Skip(E)>>] BY <1>3 DEF StartSkip
  <2>4. LocalsOK' BY <1>3, <2>2, <2>3 DEF StartSkip, LocalsOK
  <2>5. DbOK' /\ OutsideOK' /\ PostOK'
    BY <1>3 DEF StartSkip, DbOK, OutsideOK, PostOK, dbVars, fyleVars, postVars
  <2>6. Fit' BY <1>3 DEF StartSkip, Fit, Posting, postVars
  <2> QED BY <2>4, <2>5, <2>6
<1>4. ASSUME NEW G \in SUBSET Groups, StartStuckCheck(w, G) PROVE Typed'
  <2> DEFINE E == UNION {Members(g) : g \in G}
  <2> DEFINE ops == <<UpdateIds("ERROR", E), PostFailedIds(E)>>
  <2>0. E \in SUBSET Expenses /\ "ERROR" \in States BY DEF Members, DbOK, States
  <2>1. StartWriting(w, E, ops, E) BY <1>4 DEF StartStuckCheck
  <2>2. ops \in Seq(Op)
    <3>1. UpdateIds("ERROR", E) \in Op /\ PostFailedIds(E) \in Op
      BY <2>0 DEF UpdateIds, PostFailedIds, PostIds, PostAll, Op, States
    <3> QED BY <3>1, ScriptOf
  <2>3. DbOK' BY <1>4 DEF StartStuckCheck, DbOK, Status
  <2>4. OutsideOK' /\ PostOK' BY <1>4 DEF StartStuckCheck, OutsideOK, PostOK, fyleVars, postVars
  <2> HIDE DEF E, ops
  <2>5. LocalsOK' /\ at' = [at EXCEPT ![w] = "write"] BY <2>0, <2>1, <2>2, StartWritingTyped
  <2>6. Fit' BY <1>4, <2>5 DEF StartStuckCheck, Fit, Posting, postVars, LocalsOK
  <2> QED BY <2>3, <2>4, <2>5, <2>6
<1>5. ASSUME StartPostAll(w) PROVE Typed'
  <2>1. PostAll \in Op BY DEF PostAll, Op, States
  <2>2. <<PostAll>> \in Seq(Op) BY <2>1, ScriptOf
  <2>3. script' = [script EXCEPT ![w] = <<PostAll>>] BY <1>5 DEF StartPostAll
  <2>4. LocalsOK' BY <1>5, <2>2, <2>3 DEF StartPostAll, LocalsOK
  <2>5. DbOK' /\ OutsideOK' /\ PostOK'
    BY <1>5 DEF StartPostAll, DbOK, OutsideOK, PostOK, dbVars, fyleVars, postVars
  <2>6. Fit' BY <1>5 DEF StartPostAll, Fit, Posting, postVars
  <2> QED BY <2>4, <2>5, <2>6
<1> QED BY <1>1, <1>2, <1>3, <1>4, <1>5 DEF Start

\* A worker that goes on with typed operations, the post aside.
LEMMA GoOnFits ==
  ASSUME Typed, NEW w \in Workers, NEW ops \in Seq(Op), GoOn(w, ops), batches' = batches
  PROVE  LocalsOK' /\ Fit'
<1>1. LocalsOK' /\ at' = [at EXCEPT ![w] = "next"] BY GoOnTyped DEF Typed, TypeOK
<1> QED BY <1>1 DEF Typed, TypeOK, Fit, Posting, LocalsOK

\* The writes of an update keep the database typed.
LEMMA WriteTyped ==
  ASSUME DbOK, NEW s \in States, NEW E \in SUBSET Expenses,
         summary' = [e \in Expenses |-> IF e \in E THEN Unsynced(s) ELSE summary[e]]
  PROVE  summary' \in [Expenses -> Summary]
  BY DEF DbOK, Unsynced, Summary

\* The steps of the updates keep the types and the fit.
LEMMA TypedUpdate ==
  ASSUME Typed, NEW w \in Workers,
         Read(w) \/ Write(w) \/ ReadSkipped(w) \/ WriteSkipped(w) \/ Leave(w)
  PROVE  Typed'
<1> USE SummaryAssumption DEF Typed, TypeOK
<1>1. CASE Read(w)
  <2>0. Now(w) \in Op BY <1>1, NowTyped DEF Read, Doing
  <2>1. [e \in Scope(Now(w)) |-> summary[e]] \in Partial(Summary) BY <2>0, ScopeTyped, CopyTyped
  <2>2. LocalsOK' BY <1>1, <2>1 DEF Read, LocalsOK, Places
  <2>3. DbOK' /\ OutsideOK' /\ PostOK'
    BY <1>1 DEF Read, DbOK, OutsideOK, PostOK, dbVars, fyleVars, postVars
  <2>4. Fit' BY <1>1 DEF Read, Fit, Posting, postVars, LocalsOK
  <2> QED BY <2>2, <2>3, <2>4
<1>2. CASE Write(w)
  <2>0. Now(w) \in Op /\ Tail(script[w]) \in Seq(Op) BY <1>2, NowTyped DEF Write, Doing
  <2>1. Now(w).state \in States BY <2>0 DEF Op
  <2>2. Writable(w) \in SUBSET Expenses BY DEF Writable, LocalsOK, Partial
  <2>3. summary' \in [Expenses -> Summary] BY <1>2, <2>1, <2>2, WriteTyped DEF Write
  <2>4. isSkipped' \in [Expenses -> BOOLEAN] BY <1>2 DEF Write, DbOK
  <2>5. DbOK' BY <1>2, <2>3, <2>4 DEF Write, DbOK
  <2>6. OutsideOK' /\ PostOK' BY <1>2 DEF Write, OutsideOK, PostOK, fyleVars, postVars
  <2>7. LocalsOK' /\ Fit' BY <1>2, <2>0, GoOnFits DEF Write, postVars
  <2> QED BY <2>5, <2>6, <2>7
<1>3. CASE ReadSkipped(w)
  <2> DEFINE E == {e \in Now(w).ids : ~isSkipped[e]}
  <2>0. Now(w) \in Op BY <1>3, NowTyped DEF ReadSkipped, Doing
  <2>1. E \in SUBSET Expenses BY <2>0 DEF Op
  <2>2. DbOK' /\ OutsideOK' /\ PostOK'
    BY <1>3 DEF ReadSkipped, DbOK, OutsideOK, PostOK, dbVars, fyleVars, postVars
  <2>3. LocalsOK' /\ Fit'
    <3>1. CASE E = {}
      <4>1. GoOn(w, << >>) /\ batches' = batches BY <1>3, <3>1 DEF ReadSkipped, postVars
      <4>2. << >> \in Seq(Op) OBVIOUS
      <4> QED BY <4>1, <4>2, GoOnFits
    <3>2. CASE E # {}
      <4>1. /\ copy' = [copy EXCEPT ![w] = [e \in E |-> summary[e]]]
            /\ at' = [at EXCEPT ![w] = "write"] /\ UNCHANGED <<script, held>> /\ batches' = batches
        BY <1>3, <3>2 DEF ReadSkipped, postVars
      <4>2. [e \in E |-> summary[e]] \in Partial(Summary) BY <2>1, CopyTyped
      <4> HIDE DEF E
      <4> QED BY <4>1, <4>2 DEF LocalsOK, Places, Fit, Posting
    <3> QED BY <3>1, <3>2
  <2> QED BY <2>2, <2>3
<1>4. CASE WriteSkipped(w)
  <2>1. Writable(w) \in SUBSET Expenses /\ DOMAIN copy[w] \in SUBSET Expenses
    BY DEF Writable, LocalsOK, Partial
  <2>2. summary' \in [Expenses -> Summary]
    <3>1. "SKIPPED" \in States BY DEF States
    <3> QED BY <1>4, <2>1, <3>1, WriteTyped DEF WriteSkipped
  <2>3. isSkipped' \in [Expenses -> BOOLEAN] BY <1>4 DEF WriteSkipped, DbOK
  <2>4. DbOK' BY <1>4, <2>2, <2>3 DEF WriteSkipped, DbOK
  <2>5. OutsideOK' /\ PostOK' BY <1>4 DEF WriteSkipped, OutsideOK, PostOK, fyleVars, postVars
  <2>6. SkipRest(DOMAIN copy[w]) \in Seq(Op)
    <3>1. Ungroup(DOMAIN copy[w]) \in Op /\ PostIds(DOMAIN copy[w]) \in Op
      BY <2>1 DEF Ungroup, PostIds, PostAll, Op, States
    <3> QED BY <3>1, ScriptOf DEF SkipRest
  <2>7. LocalsOK' /\ Fit' BY <1>4, <2>6, GoOnFits DEF WriteSkipped, postVars
  <2> QED BY <2>4, <2>5, <2>7
<1>5. CASE Leave(w)
  <2>0. Tail(script[w]) \in Seq(Op) BY <1>5, NowTyped DEF Leave, Doing
  <2>1. DbOK' BY <1>5 DEF Leave, DbOK, Status
  <2>2. OutsideOK' /\ PostOK' BY <1>5 DEF Leave, OutsideOK, PostOK, fyleVars, postVars
  <2>3. LocalsOK' /\ Fit' BY <1>5, <2>0, GoOnFits DEF Leave, postVars
  <2> QED BY <2>1, <2>2, <2>3
<1> QED BY <1>1, <1>2, <1>3, <1>4, <1>5

\* What the end of an export leaves to do is a script; its group is a group.
LEMMA OutcomeTyped ==
  ASSUME Typed, NEW w \in Workers, Doing(w, "outcome", "next"), CanSave(w, Now(w).group)
  PROVE  /\ Now(w).group \in Groups
         /\ Exported(Now(w).group, Now(w).last) \in Seq(Op)
         /\ Failed(Now(w).group, Now(w).last) \in Seq(Op)
         /\ Faulted(Now(w).group, Now(w).last) \in Seq(Op)
<1>1. Now(w) \in Op BY NowTyped DEF Typed, TypeOK, Doing
<1>2. Now(w).group \in Groups
  BY SummaryAssumption DEF CanSave, Members, Typed, TypeOK, DbOK
<1>3. Now(w).last \in BOOLEAN /\ "COMPLETE" \in States /\ "ERROR" \in States BY <1>1 DEF Op, States
<1>4. /\ PostAll \in Op /\ PostGroup(Now(w).group) \in Op /\ PostFailed(Now(w).group) \in Op
      /\ Update("COMPLETE", Now(w).group) \in Op /\ Update("ERROR", Now(w).group) \in Op
  BY <1>2, <1>3, OpTypes
<1> QED BY <1>2, <1>3, <1>4, AfterExport

LEMMA TypedOutcome ==
  ASSUME Typed, NEW w \in Workers, Succeed(w) \/ Fail(w) \/ Fault(w) \/ CannotSave(w)
  PROVE  Typed'
<1> USE DEF Typed, TypeOK
<1>1. CASE Succeed(w)
  <2>1. Now(w).group \in Groups /\ Exported(Now(w).group, Now(w).last) \in Seq(Op)
    BY <1>1, OutcomeTyped DEF Succeed
  <2>2. DbOK' BY <1>1, <2>1 DEF Succeed, DbOK, Status
  <2>3. OutsideOK' /\ PostOK' BY <1>1 DEF Succeed, OutsideOK, PostOK, fyleVars, postVars
  <2>4. LocalsOK' /\ Fit' BY <1>1, <2>1, GoOnFits DEF Succeed, postVars
  <2> QED BY <2>2, <2>3, <2>4
<1>2. CASE Fail(w)
  <2>1. Now(w).group \in Groups /\ Failed(Now(w).group, Now(w).last) \in Seq(Op)
    BY <1>2, OutcomeTyped DEF Fail
  <2>2. DbOK' BY <1>2, <2>1 DEF Fail, DbOK, Status
  <2>3. OutsideOK' /\ PostOK' BY <1>2 DEF Fail, OutsideOK, PostOK, fyleVars, postVars
  <2>4. LocalsOK' /\ Fit' BY <1>2, <2>1, GoOnFits DEF Fail, postVars
  <2> QED BY <2>2, <2>3, <2>4
<1>3. CASE Fault(w)
  <2>1. Now(w).group \in Groups /\ Faulted(Now(w).group, Now(w).last) \in Seq(Op)
    BY <1>3, OutcomeTyped DEF Fault
  <2>2. DbOK' BY <1>3, <2>1 DEF Fault, DbOK, Status
  <2>3. OutsideOK' /\ PostOK' BY <1>3, <2>1 DEF Fault, OutsideOK, PostOK, fyleVars, postVars
  <2>4. LocalsOK' /\ Fit' BY <1>3, <2>1, GoOnFits DEF Fault, postVars
  <2> QED BY <2>2, <2>3, <2>4
<1>4. CASE CannotSave(w)
  <2>1. << >> \in Seq(Op) OBVIOUS
  <2>2. LocalsOK' /\ Fit' BY <1>4, <2>1, GoOnFits DEF CannotSave, postVars
  <2>3. DbOK' /\ OutsideOK' /\ PostOK'
    BY <1>4 DEF CannotSave, DbOK, OutsideOK, PostOK, dbVars, fyleVars, postVars
  <2> QED BY <2>2, <2>3
<1> QED BY <1>1, <1>2, <1>3, <1>4

\* The expenses a post finds are counted and read in pages.
LEMMA MatchingTyped ==
  ASSUME NEW op, NEW o
  PROVE  /\ Matching(op) \in SUBSET Expenses /\ Page(op, o) \in SUBSET Expenses
         /\ Cardinality(Matching(op)) \in Nat
<1>1. Matching(op) \in SUBSET Expenses BY DEF Matching
<1>2. Cardinality(Matching(op)) \in Nat BY <1>1, SummaryAssumption, FS_Subset, FS_CardinalityType
<1> QED BY <1>1, <1>2 DEF Page

\* Telling Fyle the states of a batch keeps what it holds typed.
LEMMA ToldTyped ==
  ASSUME Typed, NEW w \in Workers, batches[w] # << >>
  PROVE  Told(w) \in [Expenses -> States]
<1>1. Head(batches[w]) \in Partial(States) BY BatchTyped DEF Typed, TypeOK
<1>2. \A e \in Batch(w) : Head(batches[w])[e] \in States BY <1>1 DEF Batch, Partial
<1> QED BY <1>2 DEF Told, Typed, TypeOK, OutsideOK

\* So do the steps of a post.
LEMMA TypedPost ==
  ASSUME Typed, NEW w \in Workers,
         \/ Count(w) \/ ReadPage(w) \/ Accept(w) \/ Outage(w)
         \/ Refuse(w) \/ MarkDeleted(w) \/ ReadPosted(w) \/ MarkSynced(w)
  PROVE  Typed'
<1> USE SummaryAssumption DEF Typed, TypeOK
<1>1. CASE Count(w)
  <2> DEFINE op == [Now(w) EXCEPT !.ids = Scope(Now(w)), !.group = NoGroup]
  <2>0. Now(w) \in Op /\ Tail(script[w]) \in Seq(Op) BY <1>1, NowTyped DEF Count, Doing
  <2>1. op \in Op
    <3>1. Scope(Now(w)) \in SUBSET Expenses BY <2>0, ScopeTyped
    <3> QED BY <2>0, <3>1 DEF Op
  <2>2. Matching(op) \in SUBSET Expenses /\ Cardinality(Matching(op)) \in Nat BY MatchingTyped
  <2>3. DbOK' /\ OutsideOK' BY <1>1 DEF Count, DbOK, OutsideOK, dbVars, fyleVars
  <2>4. CASE Cardinality(Matching(op)) = 0
    <3>1. GoOn(w, Tail(script[w])) /\ UNCHANGED <<count, due, off, batches>>
      BY <1>1, <2>4 DEF Count
    <3>2. LocalsOK' /\ Fit' BY <2>0, <3>1, GoOnFits
    <3> QED BY <2>3, <3>1, <3>2 DEF PostOK
  <2>5. CASE Cardinality(Matching(op)) # 0
    <3>1. /\ count' = [count EXCEPT ![w] = Cardinality(Matching(op))]
          /\ due' = [due EXCEPT ![w] = Matching(op)]
          /\ script' = [script EXCEPT ![w] = <<op>> \o Tail(@)]
          /\ at' = [at EXCEPT ![w] = "page"]
          /\ UNCHANGED <<copy, held, off, batches>>
      BY <1>1, <2>5 DEF Count
    <3> HIDE DEF op
    <3>2. <<op>> \o Tail(script[w]) \in Seq(Op)
      <4>1. <<op>> \in Seq(Op) BY <2>1, ScriptOf
      <4> QED BY <2>0, <4>1, JoinOf
    <3>3. LocalsOK' BY <3>1, <3>2 DEF LocalsOK, Places
    <3>4. PostOK' BY <2>2, <3>1 DEF PostOK
    <3>5. Fit' BY <3>1 DEF Fit, Posting, LocalsOK
    <3> QED BY <2>3, <3>3, <3>4, <3>5
  <2> QED BY <2>4, <2>5
<1>2. CASE ReadPage(w)
  <2> DEFINE payload == [e \in Page(Now(w), off[w]) |-> summary[e].state]
  <2> DEFINE left == IF Page(Now(w), off[w]) = {} THEN batches[w] ELSE Append(batches[w], payload)
  <2>1. Continue(w, off[w] + PageSize, count[w], left) /\ script[w] # << >>
    BY <1>2 DEF ReadPage, Doing
  <2>2. payload \in Partial(States) BY MatchingTyped, CopyTyped
  <2>3. batches[w] \in Seq(Partial(States)) BY DEF PostOK
  <2> HIDE DEF payload
  <2>4. left \in Seq(Partial(States)) BY <2>2, <2>3, AppendProperties
  <2>5. off[w] + PageSize \in Nat /\ count[w] \in Nat BY DEF PostOK
  <2> HIDE DEF left
  <2>6. /\ LocalsOK' /\ batches' \in [Workers -> Seq(Partial(States))]
        /\ count' \in [Workers -> Nat] /\ off' \in [Workers -> Nat] /\ Fit'
    BY <2>1, <2>4, <2>5, ContinueTyped
  <2>7. DbOK' /\ OutsideOK' /\ due' = due BY <1>2 DEF ReadPage, DbOK, OutsideOK, dbVars, fyleVars
  <2> QED BY <2>6, <2>7 DEF PostOK
<1>3. CASE Accept(w)
  <2>1. batches[w] # << >> BY <1>3 DEF Accept, Doing, Fit, Posting
  <2>2. fyle' \in [Expenses -> States] BY <1>3, <2>1, ToldTyped DEF Accept
  <2>3. DbOK' /\ PostOK' BY <1>3 DEF Accept, DbOK, PostOK, dbVars, postVars
  <2>4. OutsideOK' BY <1>3, <2>2 DEF Accept, OutsideOK
  <2>5. LocalsOK' BY <1>3 DEF Accept, LocalsOK, Places
  <2>6. Fit' BY <1>3, <2>1 DEF Accept, Fit, postVars, LocalsOK
  <2> QED BY <2>3, <2>4, <2>5, <2>6
<1>4. CASE Refuse(w)
  <2>1. batches[w] # << >> BY <1>4 DEF Refuse, Doing, Fit, Posting
  <2>2. [e \in Batch(w) \cap gone |-> summary[e]] \in Partial(Summary)
    <3>1. Batch(w) \cap gone \in SUBSET Expenses BY <2>1, BatchTyped
    <3> QED BY <3>1, CopyTyped
  <2>3. DbOK' /\ OutsideOK' /\ PostOK'
    BY <1>4 DEF Refuse, DbOK, OutsideOK, PostOK, dbVars, fyleVars, postVars
  <2>4. LocalsOK' BY <1>4, <2>2 DEF Refuse, LocalsOK, Places
  <2>5. Fit' BY <1>4, <2>1 DEF Refuse, Fit, postVars, LocalsOK
  <2> QED BY <2>3, <2>4, <2>5
<1>5. CASE ReadPosted(w)
  <2>1. batches[w] # << >> BY <1>5 DEF ReadPosted, Doing, Fit, Posting
  <2>2. [e \in Batch(w) |-> summary[e]] \in Partial(Summary) BY <2>1, BatchTyped, CopyTyped
  <2>3. DbOK' /\ OutsideOK' /\ PostOK'
    BY <1>5 DEF ReadPosted, DbOK, OutsideOK, PostOK, dbVars, fyleVars, postVars
  <2>4. LocalsOK' BY <1>5, <2>2 DEF ReadPosted, LocalsOK, Places
  <2>5. Fit' BY <1>5, <2>1 DEF ReadPosted, Fit, postVars, LocalsOK
  <2> QED BY <2>3, <2>4, <2>5
<1>6. ASSUME Outage(w) \/ MarkDeleted(w) \/ MarkSynced(w)
      PROVE  LocalsOK' /\ PostOK' /\ Fit'
  <2>1. /\ batches[w] # << >> /\ script[w] # << >>
        /\ Continue(w, off[w], count[w], Tail(batches[w]))
        /\ due' = [due EXCEPT ![w] = @ \ Batch(w)]
    BY <1>6 DEF Outage, MarkDeleted, MarkSynced, Doing, Fit, Posting
  <2>2. Tail(batches[w]) \in Seq(Partial(States)) BY <2>1, BatchTyped
  <2>3. off[w] \in Nat /\ count[w] \in Nat BY DEF PostOK
  <2>4. /\ LocalsOK' /\ batches' \in [Workers -> Seq(Partial(States))]
        /\ count' \in [Workers -> Nat] /\ off' \in [Workers -> Nat] /\ Fit'
    BY <2>1, <2>2, <2>3, ContinueTyped
  <2> QED BY <2>1, <2>4 DEF PostOK
<1>7. CASE Outage(w)
  <2>1. batches[w] # << >> BY <1>7 DEF Outage, Doing, Fit, Posting
  <2>2. fyle' = fyle \/ fyle' = Told(w) BY <1>7 DEF Outage
  <2>3. fyle' \in [Expenses -> States] BY <2>1, <2>2, ToldTyped DEF OutsideOK
  <2>4. DbOK' BY <1>7 DEF Outage, DbOK, dbVars
  <2>5. OutsideOK' BY <1>7, <2>3 DEF Outage, OutsideOK
  <2> QED BY <1>6, <1>7, <2>4, <2>5
<1>8. CASE MarkDeleted(w)
  <2>1. summary' \in [Expenses -> Summary]
    BY <1>8 DEF MarkDeleted, DbOK, Deleted, Summary, States
  <2>2. DbOK' BY <1>8, <2>1 DEF MarkDeleted, DbOK
  <2>3. OutsideOK' BY <1>8 DEF MarkDeleted, OutsideOK, fyleVars
  <2> QED BY <1>6, <1>8, <2>2, <2>3
<1>9. CASE MarkSynced(w)
  <2>1. \A e \in DOMAIN copy[w] : copy[w][e] \in Summary BY DEF LocalsOK, Partial
  <2>2. \A e \in DOMAIN copy[w] : /\ [copy[w][e] EXCEPT !.synced = TRUE] \in Summary
                                  /\ copy[w][e].state \in States
    BY <2>1, SyncedTyped
  <2>3. summary' \in [Expenses -> Summary] /\ prev' \in [Expenses -> States]
    BY <1>9, <2>2 DEF MarkSynced, DbOK
  <2>4. DbOK' BY <1>9, <2>3 DEF MarkSynced, DbOK
  <2>5. OutsideOK' BY <1>9 DEF MarkSynced, OutsideOK, fyleVars
  <2> QED BY <1>6, <1>9, <2>4, <2>5
<1> QED BY <1>1, <1>2, <1>3, <1>4, <1>5, <1>7, <1>8, <1>9

\* Every step keeps the types and the fit.
LEMMA TypedStep == Typed /\ [Next]_vars => Typed'
<1> SUFFICES ASSUME Typed, [Next]_vars PROVE Typed'
  OBVIOUS
<1>1. ASSUME NEW w \in Workers, Crash(w) PROVE Typed'
  <2> USE DEF Typed, TypeOK
  <2>1. << >> \in Seq(Op) /\ << >> \in Seq(Partial(States)) OBVIOUS
  <2>2. LocalsOK' /\ at' = [at EXCEPT ![w] = "next"] BY <1>1, <2>1, GoOnTyped DEF Crash
  <2>3. PostOK' BY <1>1, <2>1 DEF Crash, PostOK
  <2>4. Fit' BY <1>1, <2>2 DEF Crash, Fit, Posting, LocalsOK, PostOK
  <2>5. DbOK' BY <1>1 DEF Crash, DbOK, dbVars
  <2>6. Unfinished(w) \subseteq Groups
    <3>1. \A i \in DOMAIN script[w] : script[w][i] \in Op BY DEF LocalsOK
    <3>2. \A i \in DOMAIN script[w] : Scope(script[w][i]) \in SUBSET Expenses BY <3>1, ScopeTyped
    <3> QED BY <3>2, SummaryAssumption DEF Unfinished
  <2>7. OutsideOK' BY <1>1, <2>6 DEF Crash, OutsideOK, fyleVars
  <2> QED BY <2>2, <2>3, <2>4, <2>5, <2>7
<1>2. ASSUME NEW e \in CanVanish, Vanish(e) PROVE Typed'
  <2> USE SummaryAssumption, <1>2 DEF Typed, TypeOK, Vanish
  <2>1. DbOK' /\ OutsideOK' BY DEF DbOK, OutsideOK, dbVars
  <2>2. LocalsOK' /\ PostOK' /\ Fit' BY DEF LocalsOK, PostOK, Fit, localVars, postVars
  <2> QED BY <2>1, <2>2
<1>3. CASE UNCHANGED vars
  BY <1>3 DEF vars, dbVars, fyleVars, localVars, postVars, Typed, TypeOK, DbOK, OutsideOK,
              LocalsOK, PostOK, Fit
<1> QED BY <1>1, <1>2, <1>3, TypedStart, TypedUpdate, TypedOutcome, TypedPost DEF Next, Step

LEMMA TypedInit == Init => Typed
<1> SUFFICES ASSUME Init PROVE Typed
  OBVIOUS
<1>1. << >> \in Seq(Op) /\ << >> \in Seq(Partial(States)) OBVIOUS
<1>2. DbOK BY DEF Init, DbOK, Summary, States, Status, Empty
<1>3. OutsideOK BY DEF Init, OutsideOK, States
<1>4. LocalsOK BY <1>1, NoCopyTyped DEF Init, LocalsOK, Places
<1>5. PostOK BY <1>1 DEF Init, PostOK
<1>6. Fit BY DEF Init, Fit, Posting
<1> QED BY <1>2, <1>3, <1>4, <1>5, <1>6 DEF Typed, TypeOK

\* Every reachable state has the types of TypeOK, whatever the number of
\* expenses, groups and workers and the size of a page.
THEOREM SummaryTyped == Spec => []TypeOK
<1>1. Spec => []Typed BY TypedInit, TypedStep, PTL DEF Spec
<1>2. Typed => TypeOK BY DEF Typed
<1> QED BY <1>1, <1>2, PTL
-----------------------------------------------------------------------------
(* Nobody is told COMPLETE of an expense whose group is not exported.  The *)
(* invariant says it of everything a worker has read and not yet written   *)
(* or posted, and of the operations it has yet to do.                      *)

Done(e) == status[GroupOf[e]] = "complete"

TrueCopies(w) ==
    /\ \A e \in DOMAIN copy[w] : copy[w][e].state = "COMPLETE" => Done(e)
    /\ Doing(w, "update", "write") /\ Now(w).state = "COMPLETE" =>
          \A e \in DOMAIN copy[w] : Done(e)

TruePayloads == {p \in Partial(States) : \A e \in DOMAIN p : p[e] = "COMPLETE" => Done(e)}

\* an update to COMPLETE names an exported group; who has yet to end an export
\* of a group whose row is its own finds the group not exported
TrueOps(w) == {op \in Op :
    /\ op.do = "update" /\ op.state = "COMPLETE" =>
          op.group # NoGroup /\ status[op.group] = "complete"
    /\ op.do = "outcome" =>
          op.group \in Groups /\ (owner[op.group] = {w} => status[op.group] # "complete")}

WorkerTrue(w) ==
    /\ TrueCopies(w)
    /\ batches[w] \in Seq(TruePayloads)
    /\ script[w] \in Seq(TrueOps(w))

AllTrue == Typed /\ CompleteMeansExported /\ \A w \in Workers : WorkerTrue(w)

\* What a step does to the groups: an export that is complete stays so, and the
\* operations that were true stay true.
Lasting == \A g \in Groups : status[g] = "complete" => status'[g] = "complete"
Kept    == Lasting /\ \A w \in Workers : TrueOps(w) \subseteq TrueOps(w)'

\* Only worker w moves.
OnlyMoves(w) == \A v \in Workers \ {w} :
    script'[v] = script[v] /\ at'[v] = at[v] /\ copy'[v] = copy[v] /\ batches'[v] = batches[v]

LEMMA Wider ==
  ASSUME NEW A, NEW B, A \subseteq B, NEW s \in Seq(A) PROVE s \in Seq(B)
  OBVIOUS

LEMMA KeptUnchanged == ASSUME UNCHANGED <<status, owner>> PROVE Kept
  BY DEF Kept, Lasting, TrueOps

LEMMA PayloadsKept == ASSUME Lasting PROVE TruePayloads \subseteq TruePayloads'
<1>1. \A e \in Expenses : Done(e) => Done(e)' BY SummaryAssumption DEF Kept, Lasting, Done
<1>2. \A p \in Partial(States) : DOMAIN p \subseteq Expenses BY DEF Partial
<1> QED BY <1>1, <1>2 DEF TruePayloads

\* The workers that do not move stay true.
LEMMA OthersTrue ==
  ASSUME AllTrue, NEW w \in Workers, Lasting, OnlyMoves(w), NEW v \in Workers, v # w,
         TrueOps(v) \subseteq TrueOps(v)'
  PROVE  WorkerTrue(v)'
<1>1. script'[v] = script[v] /\ at'[v] = at[v] /\ copy'[v] = copy[v] /\ batches'[v] = batches[v]
  BY DEF OnlyMoves
<1>2. WorkerTrue(v) BY DEF AllTrue
<1>3. DOMAIN copy[v] \subseteq Expenses BY DEF AllTrue, Typed, TypeOK, LocalsOK, Partial
<1>4. \A e \in Expenses : Done(e) => Done(e)' BY SummaryAssumption DEF Kept, Lasting, Done
<1>5. TrueCopies(v)' BY <1>1, <1>2, <1>3, <1>4 DEF WorkerTrue, TrueCopies, Doing, Now
<1>6. batches'[v] \in Seq(TruePayloads') BY <1>1, <1>2, PayloadsKept, Wider DEF WorkerTrue
<1>7. script'[v] \in Seq(TrueOps(v)')
  <2>1. script[v] \in Seq(TrueOps(v)) /\ TrueOps(v) \subseteq TrueOps(v)' BY <1>2 DEF WorkerTrue, Kept, Lasting
  <2> QED BY <1>1, <2>1, Wider
<1> QED BY <1>5, <1>6, <1>7 DEF WorkerTrue

LEMMA MoveTrue ==
  ASSUME AllTrue, Typed', NEW w \in Workers, Lasting, OnlyMoves(w), WorkerTrue(w)',
         CompleteMeansExported', \A v \in Workers \ {w} : TrueOps(v) \subseteq TrueOps(v)'
  PROVE  AllTrue'
  BY OthersTrue DEF AllTrue

\* What was told stays true when nothing new is told.
LEMMA QuietTrue ==
  ASSUME CompleteMeansExported, Lasting, UNCHANGED <<summary, fyle, prev>>
  PROVE  CompleteMeansExported'
  BY SummaryAssumption DEF CompleteMeansExported, Kept, Lasting

\* A worker that goes on forgets its copies.
LEMMA GoOnTrue ==
  ASSUME AllTrue, NEW w \in Workers, Lasting, NEW ops, GoOn(w, ops), ops \in Seq(TrueOps(w)'),
         batches' = batches
  PROVE  OnlyMoves(w) /\ WorkerTrue(w)'
<1> USE DEF AllTrue, Typed, TypeOK
<1>1. script'[w] = ops /\ at'[w] = "next" /\ copy'[w] = NoCopy BY DEF GoOn, LocalsOK
<1>2. OnlyMoves(w) BY DEF GoOn, LocalsOK, OnlyMoves
<1>3. TrueCopies(w)' BY <1>1, NoCopyTyped DEF TrueCopies
<1>4. batches[w] \in Seq(TruePayloads) BY DEF WorkerTrue
<1>5. batches'[w] \in Seq(TruePayloads') BY <1>4, PayloadsKept, Wider
<1> QED BY <1>1, <1>2, <1>3, <1>5 DEF WorkerTrue

\* What a worker reads of the database is true.
LEMMA ReadTrue ==
  ASSUME AllTrue, Kept, NEW E \in SUBSET Expenses, NEW e \in E, summary[e].state = "COMPLETE"
  PROVE  Done(e) /\ Done(e)'
<1>1. Done(e) BY DEF AllTrue, CompleteMeansExported, Done
<1>2. GroupOf[e] \in Groups BY SummaryAssumption
<1> QED BY <1>1, <1>2 DEF Kept, Lasting, Done

LEMMA StartWritingTrue ==
  ASSUME AllTrue, NEW w \in Workers, Kept, NEW E \in SUBSET Expenses, NEW all,
         NEW ops, ops \in Seq(TrueOps(w)'), Head(ops).state # "COMPLETE",
         StartWriting(w, E, ops, all), batches' = batches
  PROVE  OnlyMoves(w) /\ WorkerTrue(w)'
<1> USE DEF AllTrue, Typed, TypeOK
<1> DEFINE new == [e \in E |-> summary[e]]
<1>1. script'[w] = ops /\ at'[w] = "write" /\ copy'[w] = new BY DEF StartWriting, LocalsOK
<1>2. OnlyMoves(w) BY DEF StartWriting, LocalsOK, OnlyMoves
<1>3. TrueCopies(w)'
  <2>1. \A e \in E : summary[e].state = "COMPLETE" => Done(e)' BY ReadTrue
  <2>2. \A e \in DOMAIN copy'[w] : copy'[w][e].state = "COMPLETE" => Done(e)' BY <1>1, <2>1
  <2>3. Now(w)' = Head(ops) BY <1>1 DEF Now
  <2> QED BY <2>2, <2>3 DEF TrueCopies
<1>4. batches[w] \in Seq(TruePayloads) BY DEF WorkerTrue
<1>5. batches'[w] \in Seq(TruePayloads') BY <1>4, PayloadsKept, Wider DEF Kept
<1> QED BY <1>1, <1>2, <1>3, <1>5 DEF WorkerTrue

\* Operations that update nothing to COMPLETE and end no export are true.
LEMMA PlainOps ==
  ASSUME NEW w, NEW op \in Op, op.do # "outcome", op.do = "update" => op.state # "COMPLETE"
  PROVE  op \in TrueOps(w)'
  BY DEF TrueOps

\* The operations of the jobs, and the first of them.
LEMMA OpParts ==
  ASSUME NEW E, NEW g, NEW s, NEW b
  PROVE  /\ PostAll.do = "post" /\ PostIds(E).do = "post" /\ PostGroup(g).do = "post"
         /\ PostFailed(g).do = "post" /\ PostFailedIds(E).do = "post"
         /\ Update(s, g).do = "update" /\ Update(s, g).state = s /\ Update(s, g).group = g
         /\ UpdateIds(s, E).do = "update" /\ UpdateIds(s, E).state = s
         /\ Outcome(g, b).do = "outcome" /\ Outcome(g, b).group = g
         /\ Skip(E).do = "skip" /\ Ungroup(E).do = "ungroup"
  BY DEF PostAll, PostIds, PostGroup, PostFailed, PostFailedIds, Update, UpdateIds, Outcome,
         Skip, Ungroup

\* The exports' row moves only where no export is complete.
LEMMA RowMoves ==
  ASSUME AllTrue, NEW g \in Groups, NEW s \in Status, status[g] # "complete",
         status' = [status EXCEPT ![g] = s], owner' = owner, s # "complete"
  PROVE  Kept
  BY DEF AllTrue, Typed, TypeOK, DbOK, Kept, Lasting, TrueOps

\* Rows that are not complete may move to another state than complete.
LEMMA RowsMove ==
  ASSUME NEW G, NEW s, s # "complete", \A g \in G : status[g] # "complete", owner' = owner,
         status' = [g \in Groups |-> IF g \in G THEN s ELSE status[g]]
  PROVE  Kept
<1>1. \A g \in Groups : status[g] = "complete" => status'[g] = "complete" OBVIOUS
<1>2. \A g \in Groups : status[g] # "complete" => status'[g] # "complete" OBVIOUS
<1>3. ASSUME NEW v \in Workers, NEW op \in TrueOps(v) PROVE op \in TrueOps(v)'
  <2>1. op \in Op /\ op.group \in Groups \cup {NoGroup} BY DEF TrueOps, Op
  <2>2. op.do = "update" /\ op.state = "COMPLETE" =>
           op.group # NoGroup /\ status'[op.group] = "complete"
    BY <1>1, <2>1 DEF TrueOps
  <2>3. op.do = "outcome" =>
           op.group \in Groups /\ (owner'[op.group] = {v} => status'[op.group] # "complete")
    BY <1>2 DEF TrueOps
  <2> QED BY <2>1, <2>2, <2>3 DEF TrueOps
<1> QED BY <1>1, <1>3 DEF Kept, Lasting

\* The jobs a worker takes up.
LEMMA StartTrue ==
  ASSUME AllTrue, Typed', NEW w \in Workers, Start(w) PROVE AllTrue'
<1> USE SummaryAssumption
<1>a. TypeOK BY DEF AllTrue, Typed
<1>1. ASSUME NEW g \in Groups, NEW auto \in BOOLEAN, NEW last \in Lasts, StartExport(w, g, auto, last)
      PROVE  AllTrue'
  <2> DEFINE E == Members(g)
  <2> DEFINE all == IF last THEN Expenses ELSE E
  <2>0. /\ E \in SUBSET Expenses /\ last \in BOOLEAN /\ "IN_PROGRESS" \in States
        /\ status[g] # "complete"
    BY <1>1, <1>a DEF StartExport, Members, TypeOK, DbOK, States
  <2>1. status' = [status EXCEPT ![g] = "inflight"] /\ owner' = [owner EXCEPT ![g] = {w}]
        /\ batches' = batches /\ UNCHANGED <<summary, fyle, prev>>
    BY <1>1 DEF StartExport, fyleVars, postVars
  <2>2. Kept BY <1>a, <2>0, <2>1 DEF TypeOK, DbOK, Kept, Lasting, TrueOps
  <2>3. Outcome(g, last) \in TrueOps(w)'
    <3>1. status'[g] # "complete" BY <1>a, <2>1 DEF TypeOK, DbOK
    <3>2. Outcome(g, last) \in Op BY <2>0, OpTypes
    <3> QED BY <3>1, <3>2, OpParts DEF TrueOps
  <2> HIDE DEF E, all
  <2>4. OnlyMoves(w) /\ WorkerTrue(w)'
    <3>1. CASE auto /\ prev[First(g)] = "ERROR"
      <4>1. /\ script' = [script EXCEPT ![w] = <<Outcome(g, last)>>] /\ UNCHANGED <<at, copy>>
            /\ script[w] = << >>
        BY <1>1, <3>1 DEF StartExport, Idle
      <4>2. OnlyMoves(w) BY <1>a, <2>1, <4>1 DEF OnlyMoves, TypeOK, LocalsOK
      <4>3. script'[w] = <<Outcome(g, last)>> BY <1>a, <4>1 DEF TypeOK, LocalsOK
      <4>4. script'[w] \in Seq(TrueOps(w)') BY <2>3, <4>3
      <4>5. TrueCopies(w)'
        <5>1. \A e \in DOMAIN copy[w] : copy[w][e].state = "COMPLETE" => Done(e)
          BY DEF AllTrue, WorkerTrue, TrueCopies
        <5>2. DOMAIN copy[w] \subseteq Expenses BY <1>a DEF TypeOK, LocalsOK, Partial
        <5>3. \A e \in Expenses : Done(e) => Done(e)' BY <2>2 DEF Kept, Lasting, Done
        <5>4. Now(w)'.do = "outcome" BY <4>3, OpParts DEF Now
        <5> QED BY <4>1, <5>1, <5>2, <5>3, <5>4 DEF TrueCopies, Doing
      <4>6. batches'[w] \in Seq(TruePayloads')
        <5>1. batches[w] \in Seq(TruePayloads) BY DEF AllTrue, WorkerTrue
        <5> QED BY <2>1, <2>2, <5>1, PayloadsKept, Wider DEF Kept
      <4> QED BY <4>2, <4>4, <4>5, <4>6 DEF WorkerTrue
    <3>2. CASE ~(auto /\ prev[First(g)] = "ERROR")
      <4> DEFINE ops == <<UpdateIds("IN_PROGRESS", E), PostIds(E), Outcome(g, last)>>
      <4>1. StartWriting(w, E, ops, all) BY <1>1, <3>2 DEF StartExport, all, E
      <4>2. UpdateIds("IN_PROGRESS", E) \in TrueOps(w)' /\ PostIds(E) \in TrueOps(w)'
        <5>1. UpdateIds("IN_PROGRESS", E) \in Op /\ PostIds(E) \in Op BY <2>0, OpTypes
        <5> QED BY <5>1, PlainOps, OpParts
      <4>3. ops \in Seq(TrueOps(w)') BY <2>3, <4>2, ScriptOf
      <4>4. Head(ops).state # "COMPLETE" BY OpParts
      <4> HIDE DEF ops
      <4> QED BY <2>0, <2>1, <2>2, <4>1, <4>3, <4>4, StartWritingTrue
    <3> QED BY <3>1, <3>2
  <2>5. CompleteMeansExported' BY <2>1, <2>2, QuietTrue DEF AllTrue, Kept
  <2> QED BY <2>2, <2>4, <2>5, MoveTrue DEF Kept
<1>2. ASSUME NEW g \in Groups, NEW last \in Lasts, StartSkippedExport(w, g, last)
      PROVE  AllTrue'
  <2> DEFINE E == {First(g)}
  <2> DEFINE all == IF last THEN Expenses ELSE Members(g)
  <2> DEFINE four == <<UpdateIds("IN_PROGRESS", E), PostIds(E), Update("ERROR", g), PostFailed(g)>>
  <2>0. E \in SUBSET Expenses /\ last \in BOOLEAN /\ "IN_PROGRESS" \in States /\ "ERROR" \in States
    BY <1>2, <1>a, FirstMember DEF StartSkippedExport, Members, TypeOK, DbOK, States
  <2>1. StartWriting(w, E, four \o Details(last), all) BY <1>2 DEF StartSkippedExport
  <2>2. Kept /\ CompleteMeansExported' /\ batches' = batches
    BY <1>2, KeptUnchanged, QuietTrue DEF StartSkippedExport, dbVars, fyleVars, postVars, AllTrue, Kept
  <2>3. /\ UpdateIds("IN_PROGRESS", E) \in TrueOps(w)' /\ PostIds(E) \in TrueOps(w)'
        /\ Update("ERROR", g) \in TrueOps(w)' /\ PostFailed(g) \in TrueOps(w)'
        /\ PostAll \in TrueOps(w)'
    <3>1. /\ UpdateIds("IN_PROGRESS", E) \in Op /\ PostIds(E) \in Op /\ Update("ERROR", g) \in Op
          /\ PostFailed(g) \in Op /\ PostAll \in Op
      BY <2>0, OpTypes
    <3> QED BY <3>1, PlainOps, OpParts
  <2>4. four \in Seq(TrueOps(w)') BY <2>3, ScriptOf
  <2>5. Details(last) \in Seq(TrueOps(w)') BY <2>0, <2>3, DetailsOf
  <2>6. four \o Details(last) \in Seq(TrueOps(w)') BY <2>4, <2>5, JoinOf
  <2>7. Head(four \o Details(last)).state # "COMPLETE"
    <3>1. four # << >> /\ Head(four) = UpdateIds("IN_PROGRESS", E) OBVIOUS
    <3> HIDE DEF four
    <3>2. Head(four \o Details(last)) = Head(four)
      BY <2>4, <2>5, <3>1, ConcatProperties
    <3> QED BY <3>1, <3>2, OpParts
  <2> HIDE DEF E, four, all
  <2>8. OnlyMoves(w) /\ WorkerTrue(w)' BY <2>0, <2>1, <2>2, <2>6, <2>7, StartWritingTrue
  <2> QED BY <2>2, <2>8, MoveTrue DEF Kept
<1>3. ASSUME NEW op \in Op, op.do # "outcome", op.do # "update",
             script' = [script EXCEPT ![w] = <<op>>],
             UNCHANGED <<dbVars, fyle, at, copy, batches>>
      PROVE  AllTrue'
  <2>1. Kept /\ CompleteMeansExported'
    BY <1>3, KeptUnchanged, QuietTrue DEF dbVars, AllTrue, Kept
  <2>2. script'[w] = <<op>> BY <1>a, <1>3 DEF TypeOK, LocalsOK
  <2>3. op \in TrueOps(w)' BY <1>3, PlainOps
  <2>4. script'[w] \in Seq(TrueOps(w)') BY <2>2, <2>3
  <2>5. OnlyMoves(w) BY <1>a, <1>3 DEF OnlyMoves, TypeOK, LocalsOK
  <2>6. TrueCopies(w)'
    <3>1. \A e \in DOMAIN copy[w] : copy[w][e].state = "COMPLETE" => Done(e)
      BY DEF AllTrue, WorkerTrue, TrueCopies
    <3>2. Now(w)' = op BY <2>2 DEF Now
    <3> QED BY <1>3, <3>1, <3>2 DEF TrueCopies, Doing, Done, dbVars
  <2>7. batches'[w] \in Seq(TruePayloads')
    <3>1. batches[w] \in Seq(TruePayloads) BY DEF AllTrue, WorkerTrue
    <3> QED BY <1>3, <2>1, <3>1, PayloadsKept, Wider DEF Kept
  <2>8. WorkerTrue(w)' BY <2>4, <2>6, <2>7 DEF WorkerTrue
  <2> QED BY <2>1, <2>5, <2>8, MoveTrue DEF Kept
<1>4. ASSUME NEW E \in SUBSET Filtered, StartSkip(w, E) PROVE AllTrue'
  <2>1. Skip(E) \in Op
    <3>1. E \in SUBSET Expenses OBVIOUS
    <3> QED BY <3>1 DEF Skip, PostAll, Op, States
  <2>2. Skip(E).do = "skip" BY OpParts
  <2> QED BY <1>3, <1>4, <2>1, <2>2 DEF StartSkip, fyleVars, postVars
<1>5. ASSUME StartPostAll(w) PROVE AllTrue'
  <2>1. PostAll \in Op /\ PostAll.do = "post" BY DEF PostAll, Op, States
  <2> QED BY <1>3, <1>5, <2>1 DEF StartPostAll, fyleVars, postVars
<1>6. ASSUME NEW G \in SUBSET Groups, StartStuckCheck(w, G) PROVE AllTrue'
  <2> DEFINE E == UNION {Members(g) : g \in G}
  <2> DEFINE ops == <<UpdateIds("ERROR", E), PostFailedIds(E)>>
  <2>0. E \in SUBSET Expenses /\ "ERROR" \in States BY <1>a DEF Members, TypeOK, DbOK, States
  <2>1. StartWriting(w, E, ops, E) BY <1>6 DEF StartStuckCheck
  <2>2. /\ status' = [g \in Groups |-> IF g \in G THEN "failed" ELSE status[g]]
        /\ \A g \in G : status[g] # "complete"
        /\ owner' = owner /\ batches' = batches /\ UNCHANGED <<summary, fyle, prev>>
    BY <1>6 DEF StartStuckCheck, fyleVars, postVars
  <2>3. Kept BY <2>2, RowsMove
  <2>4. ops \in Seq(TrueOps(w)')
    <3>1. UpdateIds("ERROR", E) \in Op /\ PostFailedIds(E) \in Op
      BY <2>0 DEF UpdateIds, PostFailedIds, PostIds, PostAll, Op, States
    <3>2. UpdateIds("ERROR", E) \in TrueOps(w)' /\ PostFailedIds(E) \in TrueOps(w)'
      BY <3>1, PlainOps, OpParts
    <3> QED BY <3>2, ScriptOf
  <2>5. Head(ops).state # "COMPLETE" BY OpParts
  <2> HIDE DEF E, ops
  <2>6. OnlyMoves(w) /\ WorkerTrue(w)' BY <2>0, <2>1, <2>2, <2>3, <2>4, <2>5, StartWritingTrue
  <2>7. CompleteMeansExported' BY <2>2, <2>3, QuietTrue DEF AllTrue, Kept
  <2> QED BY <2>3, <2>6, <2>7, MoveTrue DEF Kept
<1> QED BY <1>1, <1>2, <1>4, <1>5, <1>6 DEF Start

\* The rest of a worker's script, and the operation it is in.
LEMMA RestTrue ==
  ASSUME AllTrue, NEW w \in Workers, Kept, script[w] # << >>
  PROVE  /\ Now(w) \in TrueOps(w)
         /\ Tail(script[w]) \in Seq(TrueOps(w)')
<1>1. script[w] \in Seq(TrueOps(w)) /\ TrueOps(w) \subseteq TrueOps(w)'
  BY DEF AllTrue, WorkerTrue, Kept, Lasting
<1>2. Now(w) \in TrueOps(w) /\ Tail(script[w]) \in Seq(TrueOps(w))
  BY <1>1, HeadTailProperties DEF Now
<1> QED BY <1>1, <1>2, Wider

\* Writing s over the summaries of E tells no lie when s is true of E.
LEMMA WritesTrue ==
  ASSUME AllTrue, NEW w \in Workers, NEW s, NEW E, UNCHANGED <<status, owner, fyle, prev>>,
         s = "COMPLETE" => \A e \in E : Done(e),
         summary' = [e \in Expenses |-> IF e \in E THEN Unsynced(s) ELSE summary[e]]
  PROVE  CompleteMeansExported'
  BY DEF AllTrue, CompleteMeansExported, Done, Unsynced

LEMMA UpdateTrue ==
  ASSUME AllTrue, Typed', NEW w \in Workers,
         Read(w) \/ Write(w) \/ ReadSkipped(w) \/ WriteSkipped(w) \/ Leave(w)
  PROVE  AllTrue'
<1> USE SummaryAssumption
<1>a. TypeOK BY DEF AllTrue, Typed
<1>1. ASSUME NEW E \in SUBSET Expenses, script[w] # << >>,
             Now(w).do = "update" /\ Now(w).state = "COMPLETE" => \A e \in E : Done(e),
             copy' = [copy EXCEPT ![w] = [e \in E |-> summary[e]]],
             at' = [at EXCEPT ![w] = "write"],
             UNCHANGED <<dbVars, fyle, script, batches>>
      PROVE  AllTrue'
  <2>1. Kept /\ CompleteMeansExported'
    BY <1>1, KeptUnchanged, QuietTrue DEF dbVars, AllTrue, Kept
  <2>2. OnlyMoves(w) BY <1>a, <1>1 DEF OnlyMoves, TypeOK, LocalsOK
  <2>3. copy'[w] = [e \in E |-> summary[e]] BY <1>a, <1>1 DEF TypeOK, LocalsOK
  <2>4. \A e \in E : summary[e].state = "COMPLETE" => Done(e)' BY <2>1, ReadTrue
  <2>5. Now(w)' = Now(w) /\ \A e \in E : Done(e)' = Done(e) BY <1>1 DEF Now, Done, dbVars
  <2>6. TrueCopies(w)' BY <1>1, <2>3, <2>4, <2>5 DEF TrueCopies, Doing
  <2>7. script'[w] \in Seq(TrueOps(w)') /\ batches'[w] \in Seq(TruePayloads')
    <3>1. /\ script[w] \in Seq(TrueOps(w)) /\ batches[w] \in Seq(TruePayloads)
          /\ TrueOps(w) \subseteq TrueOps(w)'
      BY <2>1 DEF AllTrue, WorkerTrue, Kept, Lasting
    <3> QED BY <1>1, <2>1, <3>1, PayloadsKept, Wider DEF Kept
  <2>8. WorkerTrue(w)' BY <2>6, <2>7 DEF WorkerTrue
  <2> QED BY <2>1, <2>2, <2>8, MoveTrue DEF Kept
<1>2. CASE Read(w)
  <2> DEFINE E == Scope(Now(w))
  <2>1. script[w] # << >> /\ Now(w).do = "update" BY <1>2 DEF Read, Doing
  <2>2. Now(w) \in TrueOps(w)
    <3>1. script[w] \in Seq(TrueOps(w)) BY DEF AllTrue, WorkerTrue
    <3> QED BY <2>1, <3>1, HeadTailProperties DEF Now
  <2>3. E \in SUBSET Expenses BY <1>a, <2>2, ScopeTyped DEF TypeOK, TrueOps
  <2>4. ASSUME Now(w).state = "COMPLETE" PROVE \A e \in E : Done(e)
    <3>1. Now(w).group # NoGroup /\ status[Now(w).group] = "complete" BY <2>1, <2>2, <2>4 DEF TrueOps
    <3> QED BY <3>1 DEF Scope, Members, Done
  <2> HIDE DEF E
  <2>5. /\ copy' = [copy EXCEPT ![w] = [e \in E |-> summary[e]]] /\ at' = [at EXCEPT ![w] = "write"]
        /\ UNCHANGED <<dbVars, fyle, script, batches>>
    BY <1>2 DEF Read, fyleVars, postVars, E
  <2> QED BY <1>1, <2>1, <2>3, <2>4, <2>5
<1>3. CASE Write(w)
  <2>1. script[w] # << >> /\ UNCHANGED <<status, owner, fyle, prev, batches>>
        /\ GoOn(w, Tail(script[w]))
    BY <1>3 DEF Write, Doing, fyleVars, postVars
  <2>2. Kept BY <2>1, KeptUnchanged
  <2>3. OnlyMoves(w) /\ WorkerTrue(w)' BY <2>1, <2>2, RestTrue, GoOnTrue DEF Kept
  <2>4. Now(w).state = "COMPLETE" => \A e \in Writable(w) : Done(e)
    BY <1>3 DEF Write, Writable, AllTrue, WorkerTrue, TrueCopies
  <2>5. CompleteMeansExported'
    <3> DEFINE s == Now(w).state
    <3> DEFINE E == Writable(w)
    <3>1. summary' = [e \in Expenses |-> IF e \in E THEN Unsynced(s) ELSE summary[e]]
      BY <1>3 DEF Write
    <3>2. s = "COMPLETE" => \A e \in E : Done(e) BY <2>4
    <3> HIDE DEF s, E
    <3> QED BY <2>1, <3>1, <3>2 DEF AllTrue, CompleteMeansExported, Done, Unsynced
  <2> QED BY <2>2, <2>3, <2>5, MoveTrue DEF Kept
<1>4. CASE ReadSkipped(w)
  <2> DEFINE E == {e \in Now(w).ids : ~isSkipped[e]}
  <2>1. script[w] # << >> /\ Now(w).do = "skip" /\ UNCHANGED <<dbVars, fyle, batches>>
    BY <1>4 DEF ReadSkipped, Doing, fyleVars, postVars
  <2>2. Kept /\ CompleteMeansExported'
    BY <2>1, KeptUnchanged, QuietTrue DEF dbVars, AllTrue, Kept
  <2>3. E \in SUBSET Expenses
    <3>1. Now(w) \in Op BY <1>a, <2>1, NowTyped DEF TypeOK
    <3> QED BY <3>1 DEF Op
  <2>4. CASE E = {}
    <3>1. GoOn(w, << >>) BY <1>4, <2>4 DEF ReadSkipped
    <3>2. << >> \in Seq(TrueOps(w)') OBVIOUS
    <3> QED BY <2>1, <2>2, <3>1, <3>2, GoOnTrue, MoveTrue DEF Kept
  <2>5. CASE E # {}
    <3>1. /\ copy' = [copy EXCEPT ![w] = [e \in E |-> summary[e]]]
          /\ at' = [at EXCEPT ![w] = "write"] /\ UNCHANGED script
      BY <1>4, <2>5 DEF ReadSkipped
    <3> HIDE DEF E
    <3> QED BY <1>1, <2>1, <2>3, <3>1
  <2> QED BY <2>4, <2>5
<1>5. CASE WriteSkipped(w)
  <2>1. UNCHANGED <<status, owner, fyle, prev, batches>> /\ GoOn(w, SkipRest(DOMAIN copy[w]))
    BY <1>5 DEF WriteSkipped, fyleVars, postVars
  <2>2. Kept BY <2>1, KeptUnchanged
  <2>3. SkipRest(DOMAIN copy[w]) \in Seq(TrueOps(w)')
    <3> DEFINE E == DOMAIN copy[w]
    <3>1. E \in SUBSET Expenses BY <1>a DEF TypeOK, LocalsOK, Partial
    <3> HIDE DEF E
    <3>2. Ungroup(E) \in Op /\ PostIds(E) \in Op
      BY <3>1 DEF Ungroup, PostIds, PostAll, Op, States
    <3>3. Ungroup(E) \in TrueOps(w)' /\ PostIds(E) \in TrueOps(w)' BY <3>2, PlainOps, OpParts
    <3>4. SkipRest(E) \in Seq(TrueOps(w)') BY <3>3, ScriptOf DEF SkipRest
    <3> QED BY <3>4 DEF E
  <2>4. OnlyMoves(w) /\ WorkerTrue(w)' BY <2>1, <2>2, <2>3, GoOnTrue DEF Kept
  <2>5. CompleteMeansExported' BY <1>5, <2>1, WritesTrue DEF WriteSkipped
  <2> QED BY <2>2, <2>4, <2>5, MoveTrue DEF Kept
<1>6. CASE Leave(w)
  <2>1. /\ script[w] # << >> /\ UNCHANGED <<summary, owner, fyle, prev, batches>>
        /\ GoOn(w, Tail(script[w]))
    BY <1>6 DEF Leave, Doing, fyleVars, postVars
  <2>2. PICK G \in SUBSET {g \in Groups : status[g] # "complete"} :
             status' = [g \in Groups |-> IF g \in G THEN "ready" ELSE status[g]]
    <3> DEFINE E == {e \in Now(w).ids : status[GroupOf[e]] # "complete"}
    <3> DEFINE G == {GroupOf[e] : e \in E \cap member}
    <3>1. status' = [g \in Groups |-> IF g \in G THEN "ready" ELSE status[g]]
      BY <1>6 DEF Leave
    <3>2. G \in SUBSET {g \in Groups : status[g] # "complete"} BY <1>a DEF TypeOK, DbOK
    <3> QED BY <3>1, <3>2
  <2>3. Kept
    <3>1. \A g \in G : status[g] # "complete" BY <2>2
    <3> QED BY <2>1, <2>2, <3>1, RowsMove
  <2>4. OnlyMoves(w) /\ WorkerTrue(w)' BY <2>1, <2>3, RestTrue, GoOnTrue DEF Kept
  <2>5. CompleteMeansExported' BY <2>1, <2>3, QuietTrue DEF AllTrue, Kept
  <2> QED BY <2>3, <2>4, <2>5, MoveTrue DEF Kept
<1> QED BY <1>2, <1>3, <1>4, <1>5, <1>6

\* The end of an export.  Only Succeed makes a row complete, and only of a
\* group whose row is the worker's own.
LEMMA OutcomeTrue ==
  ASSUME AllTrue, Typed', NEW w \in Workers,
         Succeed(w) \/ Fail(w) \/ Fault(w) \/ CannotSave(w)
  PROVE  AllTrue'
<1> USE SummaryAssumption
<1> DEFINE g == Now(w).group
<1>a. TypeOK BY DEF AllTrue, Typed
<1>b. script[w] # << >> /\ Now(w).do = "outcome" /\ batches' = batches
      /\ UNCHANGED <<summary, owner, fyle, prev>>
  BY DEF Succeed, Fail, Fault, CannotSave, Doing, dbVars, fyleVars, postVars
<1>c. Now(w) \in Op /\ g \in Groups /\ (owner[g] = {w} => status[g] # "complete")
      /\ Now(w).last \in BOOLEAN
  <2>1. script[w] \in Seq(TrueOps(w)) BY DEF AllTrue, WorkerTrue
  <2>2. Now(w) \in TrueOps(w) BY <1>b, <2>1, HeadTailProperties DEF Now
  <2> QED BY <1>b, <2>2 DEF TrueOps, Op
<1> HIDE DEF g
<1>d. ASSUME Lasting, NEW ops, GoOn(w, ops), ops \in Seq(TrueOps(w)'),
             \A v \in Workers \ {w} : TrueOps(v) \subseteq TrueOps(v)'
      PROVE  AllTrue'
  <2>1. OnlyMoves(w) /\ WorkerTrue(w)' BY <1>b, <1>d, GoOnTrue
  <2>2. CompleteMeansExported' BY <1>b, <1>d, QuietTrue DEF AllTrue
  <2> QED BY <1>d, <2>1, <2>2, MoveTrue
<1>e. /\ PostAll \in TrueOps(w)' /\ PostGroup(g) \in TrueOps(w)' /\ PostFailed(g) \in TrueOps(w)'
      /\ Update("ERROR", g) \in TrueOps(w)' /\ Update("COMPLETE", g) \in Op
  <2>1. /\ PostAll \in Op /\ PostGroup(g) \in Op /\ PostFailed(g) \in Op
        /\ Update("ERROR", g) \in Op /\ Update("COMPLETE", g) \in Op
    BY <1>c, OpTypes DEF States
  <2> QED BY <2>1, PlainOps, OpParts
<1>1. CASE Succeed(w)
  <2>1. /\ owner[g] = {w} /\ status' = [status EXCEPT ![g] = "complete"]
        /\ GoOn(w, Exported(g, Now(w).last))
    BY <1>1 DEF Succeed, CanSave, g
  <2>2. status'[g] = "complete" /\ Lasting BY <1>a, <1>c, <2>1 DEF TypeOK, DbOK, Lasting
  <2>3. \A v \in Workers \ {w} : TrueOps(v) \subseteq TrueOps(v)'
    <3> SUFFICES ASSUME NEW v \in Workers \ {w}, NEW op \in TrueOps(v)
                 PROVE  op \in TrueOps(v)'
      OBVIOUS
    <3>1. op \in Op /\ op.group \in Groups \cup {NoGroup} BY DEF TrueOps, Op
    <3>2. op.do = "update" /\ op.state = "COMPLETE" =>
             op.group # NoGroup /\ status'[op.group] = "complete"
      BY <2>2, <3>1 DEF TrueOps, Lasting
    <3>3. op.do = "outcome" =>
             op.group \in Groups /\ (owner'[op.group] = {v} => status'[op.group] # "complete")
      <4>1. ASSUME op.do = "outcome", owner'[op.group] = {v}
            PROVE  status'[op.group] # "complete"
        <5>1. op.group # g BY <1>b, <2>1, <4>1
        <5>2. status[op.group] # "complete" /\ op.group \in Groups BY <1>b, <4>1 DEF TrueOps
        <5> QED BY <1>a, <2>1, <5>1, <5>2 DEF TypeOK, DbOK
      <4> QED BY <4>1 DEF TrueOps
    <3> QED BY <3>1, <3>2, <3>3 DEF TrueOps
  <2>4. Update("COMPLETE", g) \in TrueOps(w)'
    BY <1>c, <1>e, <2>2, OpParts DEF TrueOps
  <2>5. Exported(g, Now(w).last) \in Seq(TrueOps(w)') BY <1>c, <1>e, <2>4, AfterExport
  <2> QED BY <1>d, <2>1, <2>2, <2>3, <2>5
<1>2. CASE Fail(w)
  <2>1. /\ owner[g] = {w} /\ status' = [status EXCEPT ![g] = "failed"]
        /\ GoOn(w, Failed(g, Now(w).last))
    BY <1>2 DEF Fail, CanSave, g
  <2>2. Kept BY <1>b, <1>c, <2>1, RowMoves DEF Status
  <2>3. Failed(g, Now(w).last) \in Seq(TrueOps(w)') BY <1>c, <1>e, AfterExport
  <2> QED BY <1>d, <2>1, <2>2, <2>3 DEF Kept
<1>3. CASE Fault(w)
  <2>1. /\ owner[g] = {w} /\ status' = [status EXCEPT ![g] = "failed"]
        /\ GoOn(w, Faulted(g, Now(w).last))
    BY <1>3 DEF Fault, CanSave, g
  <2>2. Kept BY <1>b, <1>c, <2>1, RowMoves DEF Status
  <2>3. Faulted(g, Now(w).last) \in Seq(TrueOps(w)') BY <1>c, <1>e, AfterExport
  <2> QED BY <1>d, <2>1, <2>2, <2>3 DEF Kept
<1>4. CASE CannotSave(w)
  <2>1. GoOn(w, << >>) /\ UNCHANGED <<status, owner>> BY <1>4 DEF CannotSave, dbVars
  <2>2. Kept BY <2>1, KeptUnchanged
  <2>3. << >> \in Seq(TrueOps(w)') OBVIOUS
  <2> QED BY <1>d, <2>1, <2>2, <2>3 DEF Kept
<1> QED BY <1>1, <1>2, <1>3, <1>4

\* A post goes on.
LEMMA ContinueTrue ==
  ASSUME AllTrue, NEW w \in Workers, Kept, script[w] # << >>, NEW o, NEW n, NEW left,
         left \in Seq(TruePayloads'), Continue(w, o, n, left)
  PROVE  OnlyMoves(w) /\ WorkerTrue(w)'
<1> USE DEF AllTrue, Typed, TypeOK
<1>1. batches'[w] = left /\ \A v \in Workers \ {w} : batches'[v] = batches[v]
  BY DEF Continue, PostOK
<1>2. copy'[w] = NoCopy /\ \A v \in Workers \ {w} : copy'[v] = copy[v]
  BY DEF Continue, GoOn, LocalsOK
<1>3. (script'[w] = script[w] \/ script'[w] = Tail(script[w]))
      /\ \A v \in Workers \ {w} : script'[v] = script[v] /\ at'[v] = at[v]
  BY DEF Continue, GoOn, LocalsOK
<1>4. script'[w] \in Seq(TrueOps(w)')
  <2>1. script[w] \in Seq(TrueOps(w)) /\ TrueOps(w) \subseteq TrueOps(w)'
    BY DEF WorkerTrue, Kept
  <2>2. script[w] \in Seq(TrueOps(w)') BY <2>1, Wider
  <2> QED BY <1>3, <2>2, RestTrue
<1>5. TrueCopies(w)' BY <1>2, NoCopyTyped DEF TrueCopies
<1>6. OnlyMoves(w) BY <1>1, <1>2, <1>3 DEF OnlyMoves
<1> QED BY <1>1, <1>4, <1>5, <1>6 DEF WorkerTrue

\* The first batch of a post and the rest of them.
LEMMA BatchTrue ==
  ASSUME AllTrue, NEW w \in Workers, batches[w] # << >>
  PROVE  /\ Head(batches[w]) \in TruePayloads /\ Tail(batches[w]) \in Seq(TruePayloads)
         /\ \A e \in Batch(w) : Head(batches[w])[e] = "COMPLETE" => Done(e)
<1>1. batches[w] \in Seq(TruePayloads) BY DEF AllTrue, WorkerTrue
<1>2. Head(batches[w]) \in TruePayloads /\ Tail(batches[w]) \in Seq(TruePayloads)
  BY <1>1, HeadTailProperties
<1> QED BY <1>2 DEF TruePayloads, Batch

\* What Fyle is told is true.
LEMMA ToldTrue ==
  ASSUME AllTrue, NEW w \in Workers, batches[w] # << >>, NEW e \in Expenses,
         Told(w)[e] = "COMPLETE"
  PROVE  Done(e)
<1>1. CASE e \in Batch(w) BY <1>1, BatchTrue DEF Told
<1>2. CASE e \notin Batch(w) BY <1>2 DEF Told, AllTrue, CompleteMeansExported, Done
<1> QED BY <1>1, <1>2

\* The steps of a post: they read, tell and write back only what is true.
LEMMA PostTrue ==
  ASSUME AllTrue, Typed', NEW w \in Workers,
         \/ Count(w) \/ ReadPage(w) \/ Accept(w) \/ Outage(w)
         \/ Refuse(w) \/ MarkDeleted(w) \/ ReadPosted(w) \/ MarkSynced(w)
  PROVE  AllTrue'
<1> USE SummaryAssumption
<1>a. TypeOK /\ Fit BY DEF AllTrue, Typed
<1>b. Kept
  <2>1. UNCHANGED <<status, owner>>
    BY DEF Count, ReadPage, Accept, Outage, Refuse, MarkDeleted, ReadPosted, MarkSynced, dbVars
  <2> QED BY <2>1, KeptUnchanged
<1>c. script[w] # << >> /\ Now(w).do = "post" /\ UNCHANGED status
  BY DEF Count, ReadPage, Accept, Outage, Refuse, MarkDeleted, ReadPosted, MarkSynced, Doing, dbVars
<1>d. WorkerTrue(w) BY DEF AllTrue
\* the worker stays in its post, its script and batches unchanged
<1>e. ASSUME UNCHANGED <<script, batches>>, NEW new, copy' = [copy EXCEPT ![w] = new],
             \A e \in DOMAIN new : new[e].state = "COMPLETE" => Done(e),
             \A v \in Workers \ {w} : at'[v] = at[v]
      PROVE  OnlyMoves(w) /\ WorkerTrue(w)'
  <2>1. copy'[w] = new /\ OnlyMoves(w) BY <1>a, <1>e DEF TypeOK, LocalsOK, OnlyMoves
  <2>2. Now(w)' = Now(w) BY <1>e DEF Now
  <2>3. TrueCopies(w)' BY <1>c, <1>e, <2>1, <2>2 DEF TrueCopies, Doing, Done
  <2>4. script'[w] \in Seq(TrueOps(w)') /\ batches'[w] \in Seq(TruePayloads')
    <3>1. /\ script[w] \in Seq(TrueOps(w)) /\ batches[w] \in Seq(TruePayloads)
          /\ TrueOps(w) \subseteq TrueOps(w)'
      BY <1>b, <1>d DEF WorkerTrue, Kept
    <3> QED BY <1>b, <1>e, <3>1, PayloadsKept, Wider DEF Kept
  <2> QED BY <2>1, <2>3, <2>4 DEF WorkerTrue
\* it keeps its copies
<1>f. ASSUME UNCHANGED <<script, copy, batches>>, \A v \in Workers \ {w} : at'[v] = at[v]
      PROVE  OnlyMoves(w) /\ WorkerTrue(w)'
  <2>1. copy' = [copy EXCEPT ![w] = copy[w]] BY <1>a, <1>f DEF TypeOK, LocalsOK
  <2>2. \A e \in DOMAIN copy[w] : copy[w][e].state = "COMPLETE" => Done(e)
    BY <1>d DEF WorkerTrue, TrueCopies
  <2> QED BY <1>e, <1>f, <2>1, <2>2
<1>1. CASE Count(w)
  <2> DEFINE op == [Now(w) EXCEPT !.ids = Scope(Now(w)), !.group = NoGroup]
  <2>1. UNCHANGED <<summary, fyle, prev, batches>> BY <1>1 DEF Count, dbVars, fyleVars
  <2>2. CompleteMeansExported' BY <1>b, <2>1, QuietTrue DEF AllTrue, Kept
  <2>3. CASE Cardinality(Matching(op)) = 0
    <3>1. GoOn(w, Tail(script[w])) BY <1>1, <2>3 DEF Count
    <3>2. OnlyMoves(w) /\ WorkerTrue(w)' BY <1>b, <1>c, <2>1, <3>1, RestTrue, GoOnTrue DEF Kept
    <3> QED BY <1>b, <2>2, <3>2, MoveTrue DEF Kept
  <2>4. CASE Cardinality(Matching(op)) # 0
    <3>1. /\ script' = [script EXCEPT ![w] = <<op>> \o Tail(@)]
          /\ at' = [at EXCEPT ![w] = "page"] /\ UNCHANGED copy
      BY <1>1, <2>4 DEF Count
    <3>2. op \in Op /\ op.do = "post"
      <4>1. Now(w) \in Op BY <1>a, <1>c, NowTyped DEF TypeOK
      <4>2. Scope(Now(w)) \in SUBSET Expenses BY <1>a, <4>1, ScopeTyped DEF TypeOK
      <4> QED BY <1>c, <4>1, <4>2 DEF Op
    <3> HIDE DEF op
    <3>3. op \in TrueOps(w)' BY <3>2, PlainOps
    <3>4. script'[w] = <<op>> \o Tail(script[w]) BY <1>a, <3>1 DEF TypeOK, LocalsOK
    <3>5. script'[w] \in Seq(TrueOps(w)')
      <4>1. <<op>> \in Seq(TrueOps(w)') BY <3>3
      <4> QED BY <1>b, <1>c, <3>4, <4>1, RestTrue, JoinOf
    <3>6. OnlyMoves(w) BY <1>a, <2>1, <3>1 DEF TypeOK, LocalsOK, OnlyMoves
    <3>7. TrueCopies(w)'
      <4>1. at'[w] = "page" BY <1>a, <3>1 DEF TypeOK, LocalsOK
      <4> QED BY <1>c, <1>d, <3>1, <4>1 DEF WorkerTrue, TrueCopies, Doing, Done
    <3>8. batches'[w] \in Seq(TruePayloads')
      <4>1. batches[w] \in Seq(TruePayloads) BY <1>d DEF WorkerTrue
      <4> QED BY <1>b, <2>1, <4>1, PayloadsKept, Wider DEF Kept
    <3>9. WorkerTrue(w)' BY <3>5, <3>7, <3>8 DEF WorkerTrue
    <3> QED BY <1>b, <2>2, <3>6, <3>9, MoveTrue DEF Kept
  <2> QED BY <2>3, <2>4
<1>2. CASE ReadPage(w)
  <2> DEFINE P == Page(Now(w), off[w])
  <2> DEFINE payload == [e \in P |-> summary[e].state]
  <2> DEFINE left == IF P = {} THEN batches[w] ELSE Append(batches[w], payload)
  <2>1. Continue(w, off[w] + PageSize, count[w], left) /\ UNCHANGED <<summary, fyle, prev>>
    BY <1>2 DEF ReadPage, dbVars, fyleVars
  <2>2. payload \in TruePayloads'
    <3>1. P \in SUBSET Expenses BY MatchingTyped
    <3>2. payload \in Partial(States) BY <1>a, <3>1, CopyTyped DEF TypeOK
    <3>3. \A e \in P : summary[e].state = "COMPLETE" => Done(e)' BY <1>b, <3>1, ReadTrue
    <3> QED BY <3>2, <3>3 DEF TruePayloads
  <2>3. batches[w] \in Seq(TruePayloads')
    <3>1. batches[w] \in Seq(TruePayloads) BY <1>d DEF WorkerTrue
    <3> QED BY <1>b, <3>1, PayloadsKept, Wider DEF Kept
  <2> HIDE DEF P, payload
  <2>4. left \in Seq(TruePayloads') BY <2>2, <2>3, AppendProperties
  <2> HIDE DEF left
  <2>5. OnlyMoves(w) /\ WorkerTrue(w)' BY <1>b, <1>c, <2>1, <2>4, ContinueTrue
  <2>6. CompleteMeansExported' BY <1>b, <2>1, QuietTrue DEF AllTrue, Kept
  <2> QED BY <1>b, <2>5, <2>6, MoveTrue DEF Kept
<1>3. CASE Accept(w)
  <2>1. /\ batches[w] # << >> /\ fyle' = Told(w) /\ at' = [at EXCEPT ![w] = "mark"]
        /\ UNCHANGED <<script, copy, batches, summary, prev>>
    BY <1>a, <1>3 DEF Accept, Doing, Fit, Posting, dbVars, postVars
  <2>2. OnlyMoves(w) /\ WorkerTrue(w)' BY <1>a, <1>f, <2>1 DEF TypeOK, LocalsOK
  <2>3. CompleteMeansExported' BY <1>c, <2>1, ToldTrue DEF AllTrue, CompleteMeansExported, Done
  <2> QED BY <1>b, <2>2, <2>3, MoveTrue DEF Kept
<1>4. CASE Refuse(w) \/ ReadPosted(w)
  <2>0. /\ batches[w] # << >> /\ UNCHANGED <<script, batches, summary, fyle, prev>>
        /\ \A v \in Workers \ {w} : at'[v] = at[v]
    BY <1>a, <1>4 DEF Refuse, ReadPosted, Doing, Fit, Posting, TypeOK, LocalsOK,
                      dbVars, fyleVars, postVars
  <2>1. PICK E \in SUBSET Batch(w) : copy' = [copy EXCEPT ![w] = [e \in E |-> summary[e]]]
    BY <1>4 DEF Refuse, ReadPosted
  <2> DEFINE new == [e \in E |-> summary[e]]
  <2>2. \A e \in DOMAIN new : new[e].state = "COMPLETE" => Done(e)
    <3>1. Batch(w) \in SUBSET Expenses BY <1>a, <2>0, BatchTyped DEF TypeOK
    <3>2. E \in SUBSET Expenses BY <3>1
    <3> QED BY <1>b, <3>2, ReadTrue
  <2> HIDE DEF new
  <2>3. OnlyMoves(w) /\ WorkerTrue(w)'
    <3>1. copy' = [copy EXCEPT ![w] = new] BY <2>1 DEF new
    <3> QED BY <1>e, <2>0, <2>2, <3>1
  <2>4. CompleteMeansExported' BY <1>b, <2>0, QuietTrue DEF AllTrue, Kept
  <2> QED BY <1>b, <2>3, <2>4, MoveTrue DEF Kept
<1>5. CASE Outage(w) \/ MarkDeleted(w) \/ MarkSynced(w)
  <2>1. batches[w] # << >> /\ Continue(w, off[w], count[w], Tail(batches[w]))
    BY <1>a, <1>5 DEF Outage, MarkDeleted, MarkSynced, Doing, Fit, Posting
  <2>2. Tail(batches[w]) \in Seq(TruePayloads')
    <3>1. Tail(batches[w]) \in Seq(TruePayloads) BY <2>1, BatchTrue
    <3> QED BY <1>b, <3>1, PayloadsKept, Wider DEF Kept
  <2>3. OnlyMoves(w) /\ WorkerTrue(w)' BY <1>b, <1>c, <2>1, <2>2, ContinueTrue
  <2>4. CompleteMeansExported'
    <3>1. CASE Outage(w)
      <4>1. (fyle' = fyle \/ fyle' = Told(w)) /\ UNCHANGED <<summary, prev>>
        BY <3>1 DEF Outage, dbVars
      <4> QED BY <1>c, <2>1, <4>1, ToldTrue DEF AllTrue, CompleteMeansExported, Done
    <3>2. CASE MarkDeleted(w)
      <4>1. UNCHANGED <<fyle, prev>>
            /\ \A e \in Expenses : summary'[e].state \in {"DELETED", summary[e].state}
        BY <3>2 DEF MarkDeleted, fyleVars, Deleted
      <4> QED BY <1>c, <4>1 DEF AllTrue, CompleteMeansExported
    <3>3. CASE MarkSynced(w)
      <4>1. \A e \in DOMAIN copy[w] : copy[w][e].state = "COMPLETE" => Done(e)
        BY <1>d DEF WorkerTrue, TrueCopies
      <4>2. \A e \in DOMAIN copy[w] : [copy[w][e] EXCEPT !.synced = TRUE].state = copy[w][e].state
        <5>1. \A e \in DOMAIN copy[w] : copy[w][e] \in Summary
          BY <1>a DEF TypeOK, LocalsOK, Partial
        <5> QED BY <5>1, SyncedTyped
      <4>3. /\ fyle' = fyle
            /\ summary' = [e \in Expenses |-> IF e \in DOMAIN copy[w]
                             THEN [copy[w][e] EXCEPT !.synced = TRUE] ELSE summary[e]]
            /\ prev' = [e \in Expenses |-> IF e \in DOMAIN copy[w] THEN copy[w][e].state
                                                                  ELSE prev[e]]
        BY <3>3 DEF MarkSynced, fyleVars
      <4>4. ASSUME NEW e \in Expenses, "COMPLETE" \in {summary'[e].state, fyle'[e], prev'[e]}
            PROVE  status[GroupOf[e]] = "complete"
        <5>1. CASE e \in DOMAIN copy[w]
          <6>1. summary'[e].state = copy[w][e].state /\ prev'[e] = copy[w][e].state
            BY <4>2, <4>3, <5>1
          <6> QED BY <4>1, <4>3, <4>4, <5>1, <6>1 DEF AllTrue, CompleteMeansExported, Done
        <5>2. CASE e \notin DOMAIN copy[w]
          BY <4>3, <4>4, <5>2 DEF AllTrue, CompleteMeansExported
        <5> QED BY <5>1, <5>2
      <4> QED BY <1>c, <4>4 DEF CompleteMeansExported
    <3> QED BY <1>5, <3>1, <3>2, <3>3
  <2> QED BY <1>b, <2>3, <2>4, MoveTrue DEF Kept
<1> QED BY <1>1, <1>2, <1>3, <1>4, <1>5

\* Every step keeps it true.
LEMMA TrueStep == AllTrue /\ [Next]_vars => AllTrue'
<1> SUFFICES ASSUME AllTrue, [Next]_vars PROVE AllTrue'
  OBVIOUS
<1>1. Typed' BY TypedStep DEF AllTrue
<1>2. ASSUME NEW w \in Workers, Crash(w) PROVE AllTrue'
  <2> USE SummaryAssumption
  <2>1. GoOn(w, << >>) /\ batches' = [batches EXCEPT ![w] = << >>]
        /\ UNCHANGED <<status, owner, summary, fyle, prev>>
    BY <1>2 DEF Crash, dbVars, fyleVars
  <2>2. Kept BY <2>1, KeptUnchanged
  <2>3. OnlyMoves(w) BY <2>1 DEF AllTrue, Typed, TypeOK, LocalsOK, PostOK, GoOn, OnlyMoves
  <2>4. WorkerTrue(w)'
    <3>1. script'[w] = << >> /\ copy'[w] = NoCopy /\ batches'[w] = << >>
      BY <2>1 DEF AllTrue, Typed, TypeOK, LocalsOK, PostOK, GoOn
    <3> QED BY <3>1, NoCopyTyped DEF WorkerTrue, TrueCopies
  <2>5. CompleteMeansExported' BY <2>1, <2>2, QuietTrue DEF AllTrue, Kept
  <2> QED BY <1>1, <2>2, <2>3, <2>4, <2>5, MoveTrue DEF Kept
<1>3. ASSUME UNCHANGED <<dbVars, fyle, localVars, postVars>> PROVE AllTrue'
  <2>1. CompleteMeansExported' BY <1>3 DEF AllTrue, CompleteMeansExported, dbVars
  <2>2. ASSUME NEW w \in Workers PROVE WorkerTrue(w)'
    <3>1. WorkerTrue(w) BY DEF AllTrue
    <3> QED BY <1>3, <3>1 DEF WorkerTrue, TrueCopies, Doing, Now, Done, TruePayloads, TrueOps,
                              dbVars, localVars, postVars
  <2> QED BY <1>1, <2>1, <2>2 DEF AllTrue
<1>4. ASSUME NEW e \in CanVanish, Vanish(e) PROVE AllTrue'
  BY <1>3, <1>4 DEF Vanish
<1>5. CASE UNCHANGED vars
  BY <1>3, <1>5 DEF vars, fyleVars
<1> QED BY <1>1, <1>2, <1>4, <1>5, StartTrue, UpdateTrue, OutcomeTrue, PostTrue DEF Next, Step

LEMMA TrueInit == Init => AllTrue
<1> SUFFICES ASSUME Init PROVE AllTrue
  OBVIOUS
<1>1. CompleteMeansExported BY DEF Init, CompleteMeansExported, Empty
<1>2. ASSUME NEW w \in Workers PROVE WorkerTrue(w)
  <2>1. script[w] = << >> /\ copy[w] = NoCopy /\ batches[w] = << >> BY DEF Init
  <2> QED BY <2>1, NoCopyTyped DEF WorkerTrue, TrueCopies, Doing
<1> QED BY <1>1, <1>2, TypedInit DEF AllTrue

\* Neither the user nor Fyle is told COMPLETE of an expense whose group is not
\* exported, for any number of workers whose updates, skips, exports and posts
\* interleave, crash or are refused, and any size of a page.
THEOREM CompleteIsTrue == Spec => []CompleteMeansExported
<1>1. Spec => []AllTrue BY TrueInit, TrueStep, PTL DEF Spec
<1>2. AllTrue => CompleteMeansExported BY DEF AllTrue
<1> QED BY <1>1, <1>2, PTL
=============================================================================
