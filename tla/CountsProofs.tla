---------------------------- MODULE CountsProofs ----------------------------
(***************************************************************************)
(* Proofs about LastExport: when one process handles the exports of a      *)
(* workspace and no group is left out, the counts of the dashboard are     *)
(* right whenever nothing runs.                                            *)
(***************************************************************************)
EXTENDS Dashboard, SequencesExt, FiniteSetTheorems, SequenceTheorems, TLAPS

OneWorker == \A h, k \in Workers : h = k

\* What the theorems assume.
CountsAssumption ==
    /\ IsFiniteSet(LogGroups) /\ MaxRuns \in Nat
    /\ OneWorker /\ Skips = {}

\* LastExport counts and orders as the library does.
LEMMA SameCardinality == \A S : Exports!Cardinality(S) = Cardinality(S)
  BY DEF Exports!Cardinality, Cardinality

LEMMA SameOrder == \A S : Exports!SetToSeq(S) = SetToSeq(S)
  BY Zenon DEF Exports!SetToSeq, SetToSeq, Exports!IsInjective, IsInjective,
               Exports!Cardinality, Cardinality

\* SetToSeq lists each element of a set once, and the empty set not at all.
LEMMA SeqOfSet ==
  ASSUME NEW S, IsFiniteSet(S)
  PROVE  LET s == SetToSeq(S) IN
         /\ s \in Seq(S) /\ Len(s) \in Nat
         /\ \A i, j \in 1..Len(s) : s[i] = s[j] => i = j
         /\ s = << >> <=> S = {}
<1> DEFINE n == Cardinality(S)
<1>1. n \in Nat /\ ExistsBijection(1..n, S) BY FS_CardinalityType
<1>2. PICK f \in Bijection(1..n, S) : TRUE BY <1>1 DEF ExistsBijection
<1>3. f \in [1..n -> S] /\ IsInjective(f) BY <1>2 DEF Bijection, Injection
<1> DEFINE s == SetToSeq(S)
<1>4. s \in [1..n -> S] /\ IsInjective(s) BY <1>3 DEF SetToSeq
<1>5. n = 0 <=> S = {} BY FS_EmptySet
<1> HIDE DEF s, n
<1>6. s \in Seq(S) /\ Len(s) = n BY <1>1, <1>4
<1>7. \A i, j \in 1..Len(s) : s[i] = s[j] => i = j BY <1>4, <1>6 DEF IsInjective
<1>8. s = << >> <=> Len(s) = 0 BY <1>6
<1> QED BY <1>1, <1>5, <1>6, <1>7, <1>8 DEF s
-----------------------------------------------------------------------------
(* Types.                                                                  *)

LEMMA WorkIs ==
  ASSUME NEW p \in {Exports!Idle} \cup Exports!Work, p.pc # "idle"
  PROVE  p \in Exports!Work
  BY DEF Exports!Idle

LEMMA WorkHas ==
  ASSUME NEW p \in Exports!Work
  PROVE  /\ p.pc \in {"fund", "chain", "claimed", "read", "count", "store"}
         /\ p.fund \in 1..3 /\ p.t \in 1..MaxRuns /\ p.chain \in Seq(Exports!Export)
         /\ p.any \in BOOLEAN /\ p.copy \in Exports!Detail
  BY DEF Exports!Work

LEMMA FailedFinite ==
  ASSUME IsFiniteSet(LogGroups), NEW S \in SUBSET LogGroups
  PROVE  IsFiniteSet(S) /\ Cardinality(S) \in Nat
  BY FS_Subset, FS_CardinalityType

\* The counts of a row.
LEMMA CountsIs ==
  ASSUME IsFiniteSet(LogGroups), NEW r \in Exports!Detail, NEW bad \in SUBSET LogGroups
  PROVE  /\ Exports!Counts(r, bad) \in Exports!Detail
         /\ Exports!Counts(r, bad).last = r.last
         /\ Exports!Counts(r, bad).failed = Cardinality(bad)
<1>1. PICK n, k : n = Cardinality(Exports!Since(r.last)) /\ k = Cardinality(bad) OBVIOUS
<1>2. n \in Nat /\ k \in Nat BY <1>1, FailedFinite DEF Exports!Since
<1>3. Exports!Counts(r, bad) = [r EXCEPT !.failed = k, !.successful = n, !.total = k + n]
  BY <1>1, SameCardinality DEF Exports!Counts
<1>4. k + n \in Nat BY <1>2
<1> QED BY <1>1, <1>2, <1>3, <1>4 DEF Exports!Detail
-----------------------------------------------------------------------------
(* What the worker carries from the schedule to the count.                 *)

\* The flag is on the last export of a chain, and each of its groups waits for its export.
Chained(p) ==
    /\ p.chain # << >> /\ p.any
    /\ \A i \in 1..Len(p.chain) : p.chain[i].last <=> i = Len(p.chain)
    /\ \A i, j \in 1..Len(p.chain) : p.chain[i].group = p.chain[j].group => i = j
    /\ \A i \in 1..Len(p.chain) :
          (p.pc = "claimed" /\ i = 1) \/ log[p.chain[i].group].status = "ENQUEUED"

\* Nothing is left to export when the worker counts, and nobody else writes the row.
Ready(p) ==
    /\ p.pc # "idle" => p.t = clock
    /\ p.pc \in {"chain", "claimed"} => Chained(p)
    /\ p.pc \in {"read", "count", "store"} => p.chain = << >>
    /\ p.pc \in {"count", "store"} => p.copy.last = detail.last
    /\ p.pc = "store" => p.copy.failed = Cardinality(Exports!Failed)

Dated == \A t \in done : t <= detail.last
Right ==
    /\ Dated
    /\ detail.last = 0 /\ Exports!Failed # {} => \E h \in Workers : exporter[h].pc # "idle" /\ exporter[h].any
    /\ (\A h \in Workers : exporter[h].pc \in {"idle", "fund"}) => detail.failed = Cardinality(Exports!Failed)
    /\ \A h \in Workers : Ready(exporter[h])

\* A step of the worker.
LEMMA RightMove ==
  ASSUME OneWorker, NEW h \in Workers, NEW p, p = exporter'[h], Ready(p)', Dated',
         detail'.last = 0 /\ Exports!Failed' # {} => p.pc # "idle" /\ p.any,
         p.pc \in {"idle", "fund"} => detail'.failed = Cardinality(Exports!Failed')
  PROVE  Right'
<1>1. \A k \in Workers : k = h BY DEF OneWorker
<1> QED BY <1>1 DEF Right

\* The worker has something to export or to count, and goes on.
LEMMA BeginRight ==
  ASSUME CountsAssumption, Exports!TypeOK, Right, NEW h \in Workers, Exports!Begin(h)
  PROVE  Exports!TypeOK' /\ Right'
<1> USE DEF CountsAssumption, Exports!TypeOK
<1>1. PICK r : r = [pc |-> "fund", fund |-> 1, t |-> clock + 1, chain |-> << >>, any |-> FALSE,
                    copy |-> Exports!NoDetail]
  OBVIOUS
<1>2. exporter' = [exporter EXCEPT ![h] = r] /\ exporter[h].pc = "idle" /\ clock < MaxRuns
      /\ clock' = clock + 1 /\ UNCHANGED <<log, detail, done>>
  BY <1>1 DEF Exports!Begin
<1>3. Exports!NoDetail \in Exports!Detail BY DEF Exports!NoDetail, Exports!Detail
<1>4. clock + 1 \in 1..MaxRuns BY <1>2
<1>5. r \in Exports!Work BY <1>1, <1>3, <1>4 DEF Exports!Work
<1>6. Exports!TypeOK'
  <2>1. done' \subseteq 1..clock' BY <1>2
  <2> QED BY <1>2, <1>4, <1>5, <2>1
<1>7. Exports!Failed' = Exports!Failed /\ Dated' BY <1>2 DEF Exports!Failed, Right, Dated
<1>8. Ready(r)' BY <1>1, <1>2 DEF Ready
<1>9. \A k \in Workers : k = h BY DEF OneWorker
<1>10. detail.last # 0 \/ Exports!Failed = {} BY <1>2, <1>9 DEF Right
<1>11. detail.failed = Cardinality(Exports!Failed) BY <1>2, <1>9 DEF Right
<1>12. r = exporter'[h] BY <1>2
<1>13. Right' BY <1>2, <1>7, <1>8, <1>10, <1>11, <1>12, RightMove
<1> QED BY <1>6, <1>13

LEMMA ChainIs ==
  ASSUME IsFiniteSet(LogGroups), NEW S \in SUBSET LogGroups
  PROVE  LET c == Exports!Chain(S, TRUE) IN
         /\ c \in Seq(Exports!Export) /\ (c = << >> <=> S = {})
         /\ \A i \in 1..Len(c) : c[i].group \in S /\ (c[i].last <=> i = Len(c))
         /\ \A i, j \in 1..Len(c) : c[i].group = c[j].group => i = j
<1>1. PICK s, n : s = SetToSeq(S) /\ n = Len(s) OBVIOUS
<1>2. /\ s \in Seq(S) /\ n \in Nat /\ \A i, j \in 1..n : s[i] = s[j] => i = j
      /\ s = << >> <=> S = {}
  BY <1>1, FailedFinite, SeqOfSet
<1>3. PICK c : c = [i \in 1..n |-> [group |-> s[i], last |-> i = n /\ TRUE]] OBVIOUS
<1>4. c = Exports!Chain(S, TRUE) BY <1>1, <1>3, SameOrder DEF Exports!Chain
<1>5. \A i \in 1..n : s[i] \in S BY <1>1, <1>2
<1>6. c \in [1..n -> Exports!Export] BY <1>3, <1>5 DEF Exports!Export
<1>7. c \in Seq(Exports!Export) /\ Len(c) = n BY <1>2, <1>6
<1>8. \A i \in 1..n : c[i].group = s[i] /\ (c[i].last <=> i = n) BY <1>3
<1>9. c = << >> <=> n = 0 BY <1>7
<1>10. s = << >> <=> n = 0 BY <1>1, <1>2
<1>11. /\ c \in Seq(Exports!Export) /\ (c = << >> <=> S = {})
       /\ \A i \in 1..Len(c) : c[i].group \in S /\ (c[i].last <=> i = Len(c))
       /\ \A i, j \in 1..Len(c) : c[i].group = c[j].group => i = j
  BY <1>2, <1>5, <1>7, <1>8, <1>9, <1>10
<1> QED BY <1>4, <1>11

LEMMA ScheduleRight ==
  ASSUME CountsAssumption, Exports!TypeOK, Right, NEW h \in Workers, Exports!Schedule(h)
  PROVE  Exports!TypeOK' /\ Right'
<1> USE DEF CountsAssumption, Exports!TypeOK
<1>1. PICK p, open : p = exporter[h] /\ open = {g \in Exports!Due(p.fund) : log[g].status # "IN_PROGRESS"}
  OBVIOUS
<1>2. p.pc = "fund" /\ p.fund < 3 BY <1>1 DEF Exports!Schedule
<1>3. p \in Exports!Work /\ p.fund \in 1..3 /\ open \in SUBSET LogGroups /\ open \subseteq Exports!Due(p.fund)
  BY <1>1, <1>2, WorkIs, WorkHas DEF Exports!Due
<1>4. PICK c, q, any, f : /\ c = Exports!Chain(open, TRUE) /\ q = IF open = {} THEN "fund" ELSE "chain"
                          /\ any = (p.any \/ Exports!Due(p.fund) # {}) /\ f = p.fund + 1
  OBVIOUS
<1>5. /\ c \in Seq(Exports!Export) /\ (c = << >> <=> open = {})
      /\ \A i \in 1..Len(c) : c[i].group \in open /\ (c[i].last <=> i = Len(c))
      /\ \A i, j \in 1..Len(c) : c[i].group = c[j].group => i = j
  BY <1>3, <1>4, ChainIs
<1>6. PICK r : r = [p EXCEPT !.any = any, !.fund = f, !.chain = c, !.pc = q] OBVIOUS
<1>7. log' = Exports!Enqueued(open) /\ exporter' = [exporter EXCEPT ![h] = r] /\ UNCHANGED <<detail, clock, done>>
  <2>1. open \cap Skips = {} /\ open \ {} = open /\ (open # {} => {} # open) OBVIOUS
  <2>2. PICK skipped \in SUBSET (open \cap Skips), flagged \in BOOLEAN :
          /\ flagged \/ skipped # {}
          /\ log' = Exports!Enqueued(open \ skipped)
          /\ exporter' = [exporter EXCEPT ![h] = [p EXCEPT
                !.any = @ \/ Exports!Due(p.fund) # {},
                !.fund = @ + 1,
                !.chain = Exports!Chain(open \ skipped, flagged),
                !.pc = IF open = {} THEN "fund" ELSE IF skipped = open THEN "read" ELSE "chain"]]
    BY <1>1, ZenonT(30) DEF Exports!Schedule
  <2>3. skipped = {} /\ flagged = TRUE BY <2>1, <2>2
  <2>4. r = [p EXCEPT !.any = @ \/ Exports!Due(p.fund) # {}, !.fund = @ + 1, !.chain = Exports!Chain(open, TRUE),
                      !.pc = IF open = {} THEN "fund" ELSE IF {} = open THEN "read" ELSE "chain"]
    BY <1>4, <1>6
  <2> QED BY <2>1, <2>2, <2>3, <2>4 DEF Exports!Schedule
<1>8. f \in 1..3 /\ any \in BOOLEAN /\ q \in {"fund", "chain"} BY <1>2, <1>3, <1>4, WorkHas
<1>9. r \in Exports!Work /\ r.any = any /\ r.chain = c /\ r.t = p.t /\ r.pc = q
  BY <1>3, <1>5, <1>6, <1>8 DEF Exports!Work
<1>10. \A g \in LogGroups : /\ g \in open => log'[g].status = "ENQUEUED"
                            /\ g \notin open => log'[g] = log[g]
                            /\ log'[g] \in [status: Exports!Status, at: 0..MaxRuns]
  <2> TAKE g \in LogGroups
  <2>1. log[g] \in [status: Exports!Status, at: 0..MaxRuns] OBVIOUS
  <2> QED BY <1>7, <2>1 DEF Exports!Status, Exports!Enqueued
<1>11. Exports!TypeOK' BY <1>7, <1>9, <1>10 DEF Exports!Enqueued
<1>12. Exports!Failed' \subseteq Exports!Failed /\ (open = {} => Exports!Failed' = Exports!Failed) BY <1>10 DEF Exports!Failed
<1>13. Dated' BY <1>7 DEF Dated, Right
<1>14. \A k \in Workers : k = h BY DEF OneWorker
<1>15. Ready(r)'
  <2>1. r.t = clock' BY <1>1, <1>2, <1>7, <1>9 DEF Right, Ready
  <2>2. CASE open = {} BY <1>4, <1>9, <2>1, <2>2 DEF Ready
  <2>3. CASE open # {}
    <3>1. r.any BY <1>3, <1>4, <1>9, <2>3
    <3>2. \A i \in 1..Len(c) : log'[c[i].group].status = "ENQUEUED" BY <1>3, <1>5, <1>10
    <3>3. Chained(r)' BY <1>5, <1>9, <2>3, <3>1, <3>2 DEF Chained
    <3> QED BY <1>4, <1>9, <2>1, <2>3, <3>3 DEF Ready
  <2> QED BY <2>2, <2>3
<1>16. detail.last = 0 /\ Exports!Failed # {} => p.any BY <1>1, <1>14 DEF Right
<1>17. detail.failed = Cardinality(Exports!Failed) BY <1>1, <1>2, <1>14 DEF Right
<1>18. r = exporter'[h] BY <1>7
<1>19. Right'
  <2>1. detail'.last = 0 /\ Exports!Failed' # {} => r.pc # "idle" /\ r.any
    BY <1>4, <1>7, <1>8, <1>9, <1>12, <1>16
  <2>2. r.pc \in {"idle", "fund"} => detail'.failed = Cardinality(Exports!Failed')
    BY <1>4, <1>7, <1>9, <1>12, <1>17
  <2> QED BY <1>13, <1>15, <1>18, <2>1, <2>2, RightMove
<1> QED BY <1>11, <1>19

LEMMA ChainGroups ==
  ASSUME NEW c \in Seq(Exports!Export)
  PROVE  \A i \in 1..Len(c) : c[i].group \in LogGroups /\ c[i].last \in BOOLEAN
<1>1. \A i \in 1..Len(c) : c[i] \in Exports!Export BY ElementOfSeq
<1> QED BY <1>1 DEF Exports!Export

\* A chain without its head.
LEMMA TailIs ==
  ASSUME NEW c \in Seq(Exports!Export), c # << >>
  PROVE  /\ Head(c) = c[1] /\ Head(c) \in Exports!Export /\ Tail(c) \in Seq(Exports!Export)
         /\ Len(Tail(c)) = Len(c) - 1 /\ Len(c) \in Nat /\ 1 \in 1..Len(c)
         /\ \A i \in 1..Len(Tail(c)) : Tail(c)[i] = c[i + 1] /\ i + 1 \in 1..Len(c)
         /\ Tail(c) = << >> <=> Len(c) = 1
<1>1. Len(c) \in Nat /\ Len(c) # 0 BY EmptySeq, LenProperties
<1>2. /\ Head(c) \in Exports!Export /\ Tail(c) \in Seq(Exports!Export) /\ Len(Tail(c)) = Len(c) - 1
      /\ \A i \in 1..Len(Tail(c)) : Tail(c)[i] = c[i + 1]
  BY HeadTailProperties
<1>3. Tail(c) = << >> <=> Len(Tail(c)) = 0 BY <1>2, EmptySeq
<1>4. Head(c) = c[1] OBVIOUS
<1> QED BY <1>1, <1>2, <1>3, <1>4

LEMMA ClaimRight ==
  ASSUME CountsAssumption, Exports!TypeOK, Right, NEW h \in Workers, Exports!Claim(h)
  PROVE  Exports!TypeOK' /\ Right'
<1> USE DEF CountsAssumption, Exports!TypeOK
<1>1. PICK p, g : p = exporter[h] /\ g = Head(p.chain).group OBVIOUS
<1>2. p.pc = "chain" BY <1>1 DEF Exports!Claim
<1>3. p \in Exports!Work /\ p.chain \in Seq(Exports!Export) BY <1>1, <1>2, WorkIs, WorkHas
<1>4. Chained(p) /\ p.t = clock BY <1>1, <1>2 DEF Right, Ready
<1>5. p.chain # << >> /\ p.any BY <1>4 DEF Chained
<1>6. 1 \in 1..Len(p.chain) /\ g = p.chain[1].group /\ g \in LogGroups
  BY <1>1, <1>3, <1>5, TailIs DEF Exports!Export
<1>7. log[g].status = "ENQUEUED" BY <1>2, <1>4, <1>6 DEF Chained
<1>8. PICK r : r = [p EXCEPT !.pc = "claimed"] OBVIOUS
<1>9. /\ log' = [log EXCEPT ![g].status = "IN_PROGRESS"] /\ exporter' = [exporter EXCEPT ![h] = r]
      /\ UNCHANGED <<detail, clock, done>>
  <2>1. /\ log' = [log EXCEPT ![g].status = "IN_PROGRESS"]
        /\ exporter' = [exporter EXCEPT ![h].pc = "claimed"]
        /\ UNCHANGED <<detail, clock, done>>
    BY <1>1, <1>7 DEF Exports!Claim, Exports!To
  <2> QED BY <1>1, <1>8, <2>1
<1>10. /\ r \in Exports!Work /\ r.pc = "claimed" /\ r.chain = p.chain /\ r.any = p.any /\ r.t = p.t
  BY <1>3, <1>8 DEF Exports!Work
<1>11. \A f \in LogGroups : /\ f # g => log'[f] = log[f]
                            /\ log'[f] \in [status: Exports!Status, at: 0..MaxRuns]
  <2> TAKE f \in LogGroups
  <2>1. log[f] \in [status: Exports!Status, at: 0..MaxRuns] OBVIOUS
  <2> QED BY <1>9, <2>1 DEF Exports!Status
<1>12. log'[g].status = "IN_PROGRESS" BY <1>6, <1>9
<1>13. Exports!TypeOK' BY <1>9, <1>10, <1>11
<1>14. Exports!Failed' = Exports!Failed BY <1>6, <1>7, <1>11, <1>12 DEF Exports!Failed
<1>15. Dated' BY <1>9 DEF Dated, Right
<1>16. Chained(r)'
  <2>1. \A i \in 1..Len(p.chain) : p.chain[i].group \in LogGroups /\ (i # 1 => p.chain[i].group # g)
    BY <1>3, <1>4, <1>6, ChainGroups DEF Chained
  <2>2. \A i \in 1..Len(p.chain) : i # 1 => log'[p.chain[i].group].status = "ENQUEUED"
    BY <1>2, <1>4, <1>11, <2>1 DEF Chained
  <2> QED BY <1>4, <1>10, <2>2 DEF Chained
<1>17. Ready(r)' BY <1>4, <1>9, <1>10, <1>16 DEF Ready
<1>18. r = exporter'[h] BY <1>9
<1>19. Right' BY <1>5, <1>10, <1>15, <1>17, <1>18, RightMove
<1> QED BY <1>13, <1>19

LEMMA FinishRight ==
  ASSUME CountsAssumption, Exports!TypeOK, Right, NEW h \in Workers,
         NEW result \in {"COMPLETE", "FAILED"}, Exports!Finish(h, result)
  PROVE  Exports!TypeOK' /\ Right'
<1> USE DEF CountsAssumption, Exports!TypeOK
<1>1. PICK p, c, e : p = exporter[h] /\ c = p.chain /\ e = Head(c) OBVIOUS
<1>2. p.pc = "claimed" BY <1>1 DEF Exports!Finish
<1>3. p \in Exports!Work /\ c \in Seq(Exports!Export) BY <1>1, <1>2, WorkIs, WorkHas
<1>4. Chained(p) /\ p.t = clock BY <1>1, <1>2 DEF Right, Ready
<1>5. c # << >> /\ p.any BY <1>1, <1>4 DEF Chained
<1>6. 1 \in 1..Len(c) /\ e = c[1] /\ e.group \in LogGroups
  BY <1>1, <1>3, <1>5, TailIs DEF Exports!Export
<1>7. PICK t, q : /\ t = Tail(c)
                  /\ q = IF e.last THEN "read" ELSE IF t = << >> THEN "fund" ELSE "chain"
  OBVIOUS
<1>8. t \in Seq(Exports!Export) /\ (e.last <=> t = << >>)
  <2>1. t \in Seq(Exports!Export) /\ (t = << >> <=> Len(c) = 1) BY <1>3, <1>5, <1>7, TailIs
  <2>2. e.last <=> 1 = Len(c) BY <1>1, <1>4, <1>6 DEF Chained
  <2> QED BY <2>1, <2>2
<1>9. PICK r : r = [p EXCEPT !.chain = t, !.pc = q] OBVIOUS
<1>10. /\ log' = [log EXCEPT ![e.group] = [status |-> result, at |-> clock]]
       /\ exporter' = [exporter EXCEPT ![h] = r] /\ UNCHANGED <<detail, clock, done>>
  <2>1. /\ log' = [log EXCEPT ![e.group] = [status |-> result, at |-> clock]]
        /\ exporter' = [exporter EXCEPT ![h].chain = Tail(@), ![h].pc = q]
        /\ UNCHANGED <<detail, clock, done>>
    BY <1>1, <1>7 DEF Exports!Finish, Exports!Counted, Exports!Rest
  <2> QED BY <1>1, <1>7, <1>9, <2>1
<1>11. /\ r \in Exports!Work /\ r.pc = q /\ r.chain = t /\ r.any = p.any /\ r.t = p.t
       /\ q \in {"read", "chain"} /\ (q = "read" <=> t = << >>)
  BY <1>3, <1>7, <1>8, <1>9 DEF Exports!Work
<1>12. \A f \in LogGroups : /\ f # e.group => log'[f] = log[f]
                            /\ log'[f] \in [status: Exports!Status, at: 0..MaxRuns]
  BY <1>10 DEF Exports!Status
<1>13. Exports!TypeOK' BY <1>10, <1>11, <1>12
<1>14. Dated' BY <1>10 DEF Dated, Right
<1>15. t # << >> => Chained(r)'
  <2> SUFFICES ASSUME t # << >> PROVE Chained(r)'
    OBVIOUS
  <2>1. /\ Len(t) = Len(c) - 1 /\ Len(c) \in Nat
        /\ \A i \in 1..Len(t) : t[i] = c[i + 1] /\ i + 1 \in 1..Len(c)
    BY <1>3, <1>5, <1>7, TailIs
  <2>2. \A i \in 1..Len(c) : c[i].group \in LogGroups /\ (i # 1 => c[i].group # e.group)
    BY <1>1, <1>3, <1>4, <1>6, ChainGroups DEF Chained
  <2>3. \A i \in 1..Len(c) : i # 1 => log'[c[i].group].status = "ENQUEUED"
    BY <1>1, <1>2, <1>4, <1>12, <2>2 DEF Chained
  <2>4. \A i \in 1..Len(t) : log'[t[i].group].status = "ENQUEUED" BY <2>1, <2>3
  <2>5. \A i \in 1..Len(t) : t[i].last <=> i = Len(t) BY <1>1, <1>4, <2>1 DEF Chained
  <2>6. \A i, j \in 1..Len(t) : t[i].group = t[j].group => i = j
    <3> SUFFICES ASSUME NEW i \in 1..Len(t), NEW j \in 1..Len(t), t[i].group = t[j].group
                 PROVE  i = j
      OBVIOUS
    <3>1. i + 1 = j + 1 BY <1>1, <1>4, <2>1, SMTT(30) DEF Chained
    <3> QED BY <3>1
  <2> QED BY <1>5, <1>11, <2>4, <2>5, <2>6 DEF Chained
<1>16. Ready(r)' BY <1>4, <1>10, <1>11, <1>15 DEF Ready
<1>17. r = exporter'[h] BY <1>10
<1>18. Right' BY <1>5, <1>11, <1>14, <1>16, <1>17, RightMove
<1> QED BY <1>13, <1>18

LEMMA ReadRight ==
  ASSUME CountsAssumption, Exports!TypeOK, Right, NEW h \in Workers, Exports!Read(h)
  PROVE  Exports!TypeOK' /\ Right'
<1> USE DEF CountsAssumption, Exports!TypeOK
<1>1. PICK p : p = exporter[h] OBVIOUS
<1>2. p.pc = "read" BY <1>1 DEF Exports!Read
<1>3. p \in Exports!Work BY <1>1, <1>2, WorkIs
<1>4. p.chain = << >> /\ p.t = clock BY <1>1, <1>2 DEF Right, Ready
<1>5. PICK r : r = [p EXCEPT !.pc = "count", !.copy = detail] OBVIOUS
<1>6. exporter' = [exporter EXCEPT ![h] = r] /\ UNCHANGED <<log, detail, clock, done>>
  <2>1. exporter' = [exporter EXCEPT ![h].pc = "count", ![h].copy = detail] /\ UNCHANGED <<log, detail, clock, done>>
    BY DEF Exports!Read
  <2> QED BY <1>1, <1>5, <2>1
<1>7. /\ r \in Exports!Work /\ r.pc = "count" /\ r.copy = detail /\ r.chain = << >> /\ r.any = p.any
      /\ r.t = clock
  BY <1>3, <1>4, <1>5 DEF Exports!Work
<1>8. Exports!TypeOK' BY <1>6, <1>7
<1>9. Exports!Failed' = Exports!Failed /\ Dated' BY <1>6 DEF Exports!Failed, Dated, Right
<1>10. Ready(r)' BY <1>6, <1>7 DEF Ready
<1>11. \A k \in Workers : k = h BY DEF OneWorker
<1>12. detail.last = 0 /\ Exports!Failed # {} => p.any BY <1>1, <1>11 DEF Right
<1>13. Right' BY <1>6, <1>7, <1>9, <1>10, <1>12, RightMove
<1> QED BY <1>8, <1>13

LEMMA CountRight ==
  ASSUME CountsAssumption, Exports!TypeOK, Right, NEW h \in Workers, Exports!Count(h)
  PROVE  Exports!TypeOK' /\ Right'
<1> USE DEF CountsAssumption, Exports!TypeOK
<1>1. PICK p, d : p = exporter[h] /\ d = Exports!Counts(p.copy, Exports!Failed) OBVIOUS
<1>2. p.pc = "count" BY <1>1 DEF Exports!Count
<1>3. p \in Exports!Work /\ p.copy \in Exports!Detail BY <1>1, <1>2, WorkIs, WorkHas
<1>4. p.chain = << >> /\ p.t = clock /\ p.copy.last = detail.last BY <1>1, <1>2 DEF Right, Ready
<1>5. d \in Exports!Detail /\ d.last = detail.last /\ d.failed = Cardinality(Exports!Failed)
  <2>1. Exports!Failed \in SUBSET LogGroups BY DEF Exports!Failed
  <2> QED BY <1>1, <1>3, <1>4, <2>1, CountsIs
<1>6. PICK r : r = [p EXCEPT !.pc = "store", !.copy = d] OBVIOUS
<1>7. exporter' = [exporter EXCEPT ![h] = r] /\ UNCHANGED <<log, detail, clock, done>>
  <2>1. exporter' = [exporter EXCEPT ![h].pc = "store", ![h].copy = Exports!Counts(@, Exports!Failed)]
        /\ UNCHANGED <<log, detail, clock, done>>
    BY DEF Exports!Count
  <2> QED BY <1>1, <1>6, <2>1
<1>8. /\ r \in Exports!Work /\ r.pc = "store" /\ r.copy = d /\ r.chain = << >> /\ r.any = p.any
      /\ r.t = clock
  BY <1>3, <1>4, <1>5, <1>6 DEF Exports!Work
<1>9. Exports!TypeOK' BY <1>7, <1>8
<1>10. Exports!Failed' = Exports!Failed /\ Dated' BY <1>7 DEF Exports!Failed, Dated, Right
<1>11. Ready(r)' BY <1>5, <1>7, <1>8, <1>10 DEF Ready
<1>12. \A k \in Workers : k = h BY DEF OneWorker
<1>13. detail.last = 0 /\ Exports!Failed # {} => p.any BY <1>1, <1>12 DEF Right
<1>14. Right' BY <1>7, <1>8, <1>10, <1>11, <1>13, RightMove
<1> QED BY <1>9, <1>14

LEMMA StoreRight ==
  ASSUME CountsAssumption, Exports!TypeOK, Right, NEW h \in Workers, Exports!Store(h)
  PROVE  Exports!TypeOK' /\ Right'
<1> USE DEF CountsAssumption, Exports!TypeOK
<1>1. PICK p : p = exporter[h] OBVIOUS
<1>2. p.pc = "store" BY <1>1 DEF Exports!Store
<1>3. p \in Exports!Work /\ p.copy \in Exports!Detail BY <1>1, <1>2, WorkIs, WorkHas
<1>4. /\ p.chain = << >> /\ p.t = clock /\ p.copy.last = detail.last
      /\ p.copy.failed = Cardinality(Exports!Failed)
  BY <1>1, <1>2 DEF Right, Ready
<1>5. PICK r : r = [p EXCEPT !.pc = "fund"] OBVIOUS
<1>6. exporter' = [exporter EXCEPT ![h] = r] /\ detail' = p.copy /\ UNCHANGED <<log, clock, done>>
  <2>1. exporter' = [exporter EXCEPT ![h].pc = "fund"] /\ detail' = p.copy /\ UNCHANGED <<log, clock, done>>
    BY <1>1, <1>4 DEF Exports!Store, Exports!To
  <2> QED BY <1>1, <1>5, <2>1
<1>7. r \in Exports!Work /\ r.pc = "fund" /\ r.any = p.any /\ r.t = clock
  BY <1>3, <1>4, <1>5 DEF Exports!Work
<1>8. Exports!TypeOK' BY <1>3, <1>6, <1>7
<1>9. Exports!Failed' = Exports!Failed /\ Dated' BY <1>4, <1>6 DEF Exports!Failed, Dated, Right
<1>10. Ready(r)' BY <1>6, <1>7 DEF Ready
<1>11. \A k \in Workers : k = h BY DEF OneWorker
<1>12. detail.last = 0 /\ Exports!Failed # {} => p.any BY <1>1, <1>11 DEF Right
<1>13. Right' BY <1>4, <1>6, <1>7, <1>9, <1>10, <1>12, RightMove
<1> QED BY <1>8, <1>13

LEMMA EndRight ==
  ASSUME CountsAssumption, Exports!TypeOK, Right, NEW h \in Workers, Exports!End(h)
  PROVE  Exports!TypeOK' /\ Right'
<1> USE DEF CountsAssumption, Exports!TypeOK
<1>1. PICK p : p = exporter[h] OBVIOUS
<1>2. p.pc = "fund" BY <1>1 DEF Exports!End
<1>3. p \in Exports!Work /\ p.t \in 1..MaxRuns BY <1>1, <1>2, WorkIs, WorkHas
<1>4. p.t = clock BY <1>1, <1>2 DEF Right, Ready
<1>5. exporter' = [exporter EXCEPT ![h] = Exports!Idle] /\ UNCHANGED <<log, clock>>
  BY DEF Exports!End
<1>6. /\ ~p.any => detail' = detail /\ done' = done
      /\ p.any => detail' = [detail EXCEPT !.last = p.t] /\ done' = done \cup {p.t}
  BY <1>1 DEF Exports!End, Exports!Stamp
<1>7. /\ detail' \in Exports!Detail /\ detail'.failed = detail.failed
      /\ ~p.any => detail'.last = detail.last
      /\ p.any => detail'.last = clock
  BY <1>3, <1>4, <1>6 DEF Exports!Detail
<1>8. Exports!TypeOK'
  <2>1. done' \subseteq 1..clock BY <1>3, <1>4, <1>6
  <2> QED BY <1>5, <1>7, <2>1
<1>9. Dated'
  <2>1. CASE p.any
    <3>1. done' \subseteq 1..clock /\ clock \in Nat BY <1>5, <1>8
    <3> QED BY <1>7, <2>1, <3>1 DEF Dated
  <2>2. CASE ~p.any BY <1>6, <1>7, <2>2 DEF Dated, Right
  <2> QED BY <2>1, <2>2
<1>10. Exports!Failed' = Exports!Failed BY <1>5 DEF Exports!Failed
<1>11. \A k \in Workers : k = h BY DEF OneWorker
<1>12. detail.last = 0 /\ Exports!Failed # {} => p.any BY <1>1, <1>11 DEF Right
<1>13. detail.failed = Cardinality(Exports!Failed) BY <1>1, <1>2, <1>11 DEF Right
<1>14. detail'.last = 0 => Exports!Failed = {} BY <1>3, <1>4, <1>7, <1>12
<1>15. Exports!Idle.pc = "idle" /\ Exports!Idle = exporter'[h] BY <1>5 DEF Exports!Idle
<1>16. Ready(Exports!Idle)' BY <1>15 DEF Ready
<1>17. Right' BY <1>7, <1>9, <1>10, <1>13, <1>14, <1>15, <1>16, RightMove
<1> QED BY <1>8, <1>17
-----------------------------------------------------------------------------
(* Rules and settings, while nothing runs.                                 *)

LEMMA MinusIs ==
  ASSUME NEW n \in Nat, NEW k \in Nat
  PROVE  Exports!Minus(n, k) \in Nat /\ (k <= n => Exports!Minus(n, k) = n - k)
  BY DEF Exports!Minus

LEMMA RestRight ==
  ASSUME Exports!TypeOK, Right, Exports!AllIdle, UNCHANGED <<exporter, clock, done>>, detail'.last = detail.last,
         Exports!Failed' \subseteq Exports!Failed, detail'.failed = Cardinality(Exports!Failed')
  PROVE  Right'
<1>1. Dated' BY DEF Right, Dated
<1>2. detail'.last = 0 => Exports!Failed' = {} BY DEF Right, Exports!AllIdle
<1>3. \A h \in Workers : Ready(exporter[h])' BY DEF Exports!AllIdle, Ready
<1> QED BY <1>1, <1>2, <1>3 DEF Right

LEMMA RuleRight ==
  ASSUME CountsAssumption, Exports!TypeOK, Right, NEW gone \in SUBSET LogGroups, Exports!Rule(gone)
  PROVE  Exports!TypeOK' /\ Right'
<1> USE DEF CountsAssumption, Exports!TypeOK
<1>1. PICK logs, n, k, m : /\ logs = {g \in gone : log[g].status # "none"}
                           /\ n = Cardinality(Exports!Failed) /\ k = Cardinality(logs)
                           /\ m = Cardinality(gone)
  OBVIOUS
<1>2. /\ Exports!AllIdle /\ UNCHANGED <<clock, done, exporter>>
      /\ \A g \in gone : log[g].status \in {"none", "FAILED"}
      /\ log' = [g \in LogGroups |-> IF g \in gone THEN [Exports!NoLog EXCEPT !.status = "deleted"] ELSE log[g]]
      /\ detail' = [detail EXCEPT !.failed = Exports!Minus(detail.failed, k), !.total = Exports!Minus(detail.total, m)]
  BY <1>1, SameCardinality DEF Exports!Rule, Exports!Corrected
<1>3. Exports!Failed \in SUBSET LogGroups /\ logs = Exports!Failed \cap gone
  BY <1>1, <1>2 DEF Exports!Failed
<1>4. n \in Nat /\ k \in Nat /\ m \in Nat /\ IsFiniteSet(Exports!Failed)
  BY <1>1, <1>3, FailedFinite
<1>5. [Exports!NoLog EXCEPT !.status = "deleted"] \in [status: Exports!Status, at: 0..MaxRuns]
      /\ [Exports!NoLog EXCEPT !.status = "deleted"].status = "deleted"
  BY DEF Exports!NoLog, Exports!Status
<1>6. \A g \in LogGroups : /\ g \in gone => log'[g].status = "deleted"
                           /\ g \notin gone => log'[g] = log[g]
                           /\ log'[g] \in [status: Exports!Status, at: 0..MaxRuns]
  BY <1>2, <1>5
<1>7. Exports!Failed' = Exports!Failed \ gone BY <1>6 DEF Exports!Failed
<1>8. Cardinality(Exports!Failed') = n - k
  <2>1. Cardinality(Exports!Failed \ gone) = Cardinality(Exports!Failed) - Cardinality(Exports!Failed \cap gone)
    BY <1>4, FS_Difference
  <2> QED BY <1>1, <1>3, <1>7, <2>1
<1>9. k <= n BY <1>1, <1>3, <1>4, FS_Subset
<1>10. detail.failed = n BY <1>1, <1>2 DEF Right, Exports!AllIdle
<1>11. detail.total \in Nat BY DEF Exports!Detail
<1>12. Exports!Minus(detail.failed, k) \in Nat /\ Exports!Minus(detail.failed, k) = n - k /\ Exports!Minus(detail.total, m) \in Nat
  BY <1>4, <1>9, <1>10, <1>11, MinusIs
<1>13. detail' \in Exports!Detail /\ detail'.failed = n - k /\ detail'.last = detail.last
  BY <1>2, <1>12 DEF Exports!Detail
<1>14. Exports!TypeOK' BY <1>2, <1>6, <1>13
<1>15. Right' BY <1>2, <1>7, <1>8, <1>13, RestRight
<1> QED BY <1>14, <1>15

LEMMA SettingsRight ==
  ASSUME CountsAssumption, Exports!TypeOK, Right, NEW f, Exports!Settings(f)
  PROVE  Exports!TypeOK' /\ Right'
<1> USE DEF CountsAssumption, Exports!TypeOK
<1>1. PICK cleared : cleared = {g \in Exports!Failed : Fund[g] = f} OBVIOUS
<1>2. /\ Exports!AllIdle /\ cleared # {} /\ UNCHANGED <<clock, done, exporter>>
      /\ log' = [g \in LogGroups |-> IF g \in cleared THEN Exports!NoLog ELSE log[g]]
      /\ detail' = IF detail.last = 0 THEN detail ELSE Exports!Counts(detail, Exports!Failed \ cleared)
  BY <1>1 DEF Exports!Settings
<1>3. Exports!Failed # {} /\ Exports!Failed \ cleared \in SUBSET LogGroups
  BY <1>1, <1>2 DEF Exports!Failed
<1>4. detail.last # 0 BY <1>2, <1>3 DEF Right, Exports!AllIdle
<1>5. Exports!NoLog \in [status: Exports!Status, at: 0..MaxRuns] /\ Exports!NoLog.status = "none"
  BY DEF Exports!NoLog, Exports!Status
<1>6. \A g \in LogGroups : /\ g \in cleared => log'[g].status = "none"
                           /\ g \notin cleared => log'[g] = log[g]
                           /\ log'[g] \in [status: Exports!Status, at: 0..MaxRuns]
  BY <1>2, <1>5
<1>7. Exports!Failed' = Exports!Failed \ cleared BY <1>6 DEF Exports!Failed
<1>8. detail' \in Exports!Detail /\ detail'.last = detail.last /\ detail'.failed = Cardinality(Exports!Failed')
  BY <1>2, <1>3, <1>4, <1>7, CountsIs
<1>9. Exports!TypeOK' BY <1>2, <1>6, <1>8
<1>10. Right' BY <1>2, <1>7, <1>8, RestRight
<1> QED BY <1>9, <1>10
-----------------------------------------------------------------------------
LEMMA RightStep == ASSUME CountsAssumption PROVE Exports!TypeOK /\ Right /\ [Exports!Next]_Exports!vars => Exports!TypeOK' /\ Right'
<1> SUFFICES ASSUME Exports!TypeOK, Right, [Exports!Next]_Exports!vars PROVE Exports!TypeOK' /\ Right'
  OBVIOUS
<1>1. CASE UNCHANGED Exports!vars
  <2>1. Exports!TypeOK' BY <1>1 DEF Exports!vars, Exports!TypeOK
  <2>2. Right' BY <1>1 DEF Exports!vars, Right, Dated, Ready, Chained, Exports!Failed
  <2> QED BY <2>1, <2>2
<1> QED BY <1>1, BeginRight, ScheduleRight, ClaimRight, FinishRight, ReadRight, CountRight,
           StoreRight, EndRight, RuleRight, SettingsRight DEF Exports!Next

LEMMA RightInit == ASSUME CountsAssumption PROVE Exports!Init => Exports!TypeOK /\ Right
<1> SUFFICES ASSUME Exports!Init PROVE Exports!TypeOK /\ Right
  OBVIOUS
<1>1. Exports!NoLog \in [status: Exports!Status, at: 0..MaxRuns] /\ Exports!NoLog.status = "none"
  BY DEF Exports!NoLog, Exports!Status, CountsAssumption
<1>2. Exports!NoDetail \in Exports!Detail /\ Exports!NoDetail.failed = 0
  BY DEF Exports!NoDetail, Exports!Detail, CountsAssumption
<1>3. Exports!TypeOK BY <1>1, <1>2 DEF Exports!Init, Exports!TypeOK, CountsAssumption
<1>4. Exports!Failed = {} BY <1>1 DEF Exports!Init, Exports!Failed
<1>5. detail.failed = Cardinality(Exports!Failed) BY <1>2, <1>4, FS_EmptySet DEF Exports!Init
<1>6. \A h \in Workers : Ready(exporter[h]) BY DEF Exports!Init, Ready, Exports!Idle
<1>7. Dated BY DEF Exports!Init, Dated
<1> QED BY <1>3, <1>4, <1>5, <1>6, <1>7 DEF Right

\* However many groups and exports there are, in whatever order exports fail and succeed,
\* rules delete groups and settings delete failed logs: once nothing runs, the failed
\* count of the dashboard is the number of failed task logs, and its time that of the last
\* export.  One process and no skipped groups are needed: the row is saved as it was read,
\* and a chain whose last group is left out does not count.
THEOREM CountsTrue == ASSUME CountsAssumption PROVE Exports!Spec => []DetailIsTrue
<1>1. Exports!TypeOK /\ Right => Exports!DetailIsTrue
  BY SameCardinality DEF Exports!DetailIsTrue, Exports!FailedCounted, Exports!LastIsLatest,
      Right, Dated, Exports!AllIdle
<1> QED BY <1>1, RightInit, RightStep, PTL DEF Exports!Spec, DetailIsTrue
=============================================================================
