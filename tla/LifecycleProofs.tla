-------------------------- MODULE LifecycleProofs ---------------------------
(* Proofs about GroupLifecycle.                                            *)
EXTENDS GroupLifecycle, FiniteSetTheorems, TLAPS

\* SetToSeq lists each element of a set once.
LEMMA SeqOfSet ==
  ASSUME NEW S, IsFiniteSet(S)
  PROVE  LET s == SetToSeq(S) IN
         /\ s \in Seq(S) /\ Len(s) \in Nat
         /\ \A i, j \in 1..Len(s) : s[i] = s[j] => i = j
<1> DEFINE n == Cardinality(S)
<1>1. n \in Nat /\ ExistsBijection(1..n, S) BY FS_CardinalityType
<1>2. PICK f \in Bijection(1..n, S) : TRUE BY <1>1 DEF ExistsBijection
<1>3. f \in [1..n -> S] /\ IsInjective(f) BY <1>2 DEF Bijection, Injection
<1> DEFINE s == SetToSeq(S)
<1>4. s \in [1..n -> S] /\ IsInjective(s) BY <1>3 DEF SetToSeq
<1> HIDE DEF s, n
<1>5. s \in Seq(S) /\ Len(s) = n BY <1>1, <1>4
<1>6. \A i, j \in 1..Len(s) : s[i] = s[j] => i = j BY <1>4, <1>5 DEF IsInjective
<1> QED BY <1>1, <1>5, <1>6 DEF s
-----------------------------------------------------------------------------
(* The helpers on the database.                                            *)

Rows == UNION {[D -> Group] : D \in SUBSET (Nat \ {0})}

Database(db) ==
    /\ db \in [fund: [Expenses -> Funds \cup {"none"}], skipped: SUBSET Expenses,
               groups: Rows, next: Nat \ {0}]
    /\ \A g \in DOMAIN db.groups : g < db.next

\* d is db with new groups of expenses in E; the groups of db are as they were
Adds(db, d, E) ==
    /\ Database(d) /\ db.next <= d.next
    /\ \A g \in DOMAIN db.groups : g \in DOMAIN d.groups /\ d.groups[g] = db.groups[g]
    /\ d.skipped \subseteq db.skipped \cup E
    /\ \A g \in DOMAIN d.groups \ DOMAIN db.groups :
          /\ g >= db.next /\ d.groups[g].members \subseteq E /\ d.groups[g].members # {}
          /\ d.groups[g].log = "NONE" /\ ~d.groups[g].exported
    /\ \A g, k \in DOMAIN d.groups \ DOMAIN db.groups :
          g # k => d.groups[g].members \cap d.groups[k].members = {}

\* The new groups have the fund source of their expenses.
Matched(db, d) == \A g \in DOMAIN d.groups \ DOMAIN db.groups :
    \A e \in d.groups[g].members : d.fund[e] = d.groups[g].fund

\* None of their expenses is skipped.
Clean(db, d) == \A g \in DOMAIN d.groups \ DOMAIN db.groups :
    \A e \in d.groups[g].members : e \notin d.skipped

LEMMA RowsTyped ==
  ASSUME NEW r \in Rows
  PROVE  DOMAIN r \subseteq Nat \ {0} /\ r \in [DOMAIN r -> Group]
  BY DEF Rows

LEMMA RowsMade ==
  ASSUME NEW D \in SUBSET (Nat \ {0}), NEW r \in [D -> Group]
  PROVE  r \in Rows
  BY DEF Rows

LEMMA WithoutDb ==
  ASSUME NEW db, Database(db), NEW gs
  PROVE  LET d == Without(db, gs) IN
         /\ Database(d) /\ d.fund = db.fund /\ d.skipped = db.skipped /\ d.next = db.next
         /\ DOMAIN d.groups = DOMAIN db.groups \ gs
         /\ \A g \in DOMAIN d.groups : d.groups[g] = db.groups[g]
<1> DEFINE d == Without(db, gs)
<1> DEFINE G == [g \in DOMAIN db.groups \ gs |-> db.groups[g]]
<1>1. db.groups \in Rows BY DEF Database
<1>2. G \in Rows
  <2>1. DOMAIN db.groups \ gs \in SUBSET (Nat \ {0}) /\ G \in [DOMAIN db.groups \ gs -> Group]
    BY <1>1, RowsTyped
  <2> QED BY <2>1, RowsMade
<1>3. DOMAIN G = DOMAIN db.groups \ gs /\ \A g \in DOMAIN G : G[g] = db.groups[g] OBVIOUS
<1>4. d = [db EXCEPT !.groups = G] BY DEF Without
<1> HIDE DEF G
<1> QED BY <1>2, <1>3, <1>4 DEF Database

LEMMA SkipDb ==
  ASSUME NEW db, Database(db), NEW E \in SUBSET Expenses
  PROVE  LET d == Skip(db, E) IN
         /\ Database(d) /\ d.fund = db.fund /\ d.groups = db.groups /\ d.next = db.next
         /\ d.skipped = db.skipped \cup E
  BY DEF Skip, Database

LEMMA LessTyped ==
  ASSUME NEW group \in Group, NEW E
  PROVE  /\ Less(group, E) \in Group /\ Less(group, E).members = group.members \ E
         /\ Less(group, E).log = group.log /\ Less(group, E).exported = group.exported
         /\ Less(group, E).fund = group.fund
  BY DEF Less, Group

LEMMA DeleteTyped ==
  ASSUME NEW db, Database(db), NEW E \in SUBSET Expenses
  PROVE  Database(DeleteExpenses(db, E))
<1> DEFINE F == [e \in Expenses |-> IF e \in E THEN "none" ELSE db.fund[e]]
<1> DEFINE G == [g \in DOMAIN db.groups |-> Less(db.groups[g], E)]
<1>1. db.groups \in Rows BY DEF Database
<1>2. G \in Rows
  <2>1. DOMAIN db.groups \in SUBSET (Nat \ {0}) /\ G \in [DOMAIN db.groups -> Group]
    BY <1>1, RowsTyped, LessTyped
  <2> QED BY <2>1, RowsMade
<1>3. F \in [Expenses -> Funds \cup {"none"}] BY DEF Database
<1>4. db.skipped \ E \in SUBSET Expenses BY DEF Database
<1>5. DOMAIN G = DOMAIN db.groups OBVIOUS
<1>6. DeleteExpenses(db, E) = [db EXCEPT !.fund = F, !.skipped = db.skipped \ E, !.groups = G]
  BY DEF DeleteExpenses
<1> HIDE DEF F, G
<1> QED BY <1>2, <1>3, <1>4, <1>5, <1>6 DEF Database

\* Expenses that are in no group are deleted without a change to the groups.
LEMMA DeleteDb ==
  ASSUME NEW db, Database(db), NEW E \in SUBSET Expenses, \A e \in E : ~InGroup(db, e)
  PROVE  LET d == DeleteExpenses(db, E) IN
         /\ Database(d) /\ d.next = db.next /\ d.skipped = db.skipped \ E
         /\ \A e \in Expenses : d.fund[e] = IF e \in E THEN "none" ELSE db.fund[e]
         /\ DOMAIN d.groups = DOMAIN db.groups
         /\ \A g \in DOMAIN db.groups : d.groups[g] = db.groups[g]
<1> DEFINE d == DeleteExpenses(db, E)
<1> DEFINE F == [e \in Expenses |-> IF e \in E THEN "none" ELSE db.fund[e]]
<1> DEFINE S == db.skipped \ E
<1> DEFINE G == [g \in DOMAIN db.groups |-> Less(db.groups[g], E)]
<1>1. db.groups \in Rows BY DEF Database
<1>2. ASSUME NEW g \in DOMAIN db.groups PROVE Less(db.groups[g], E) = db.groups[g]
  <2>1. db.groups[g].members \ E = db.groups[g].members BY DEF InGroup
  <2>2. db.groups[g] \in Group BY <1>1, RowsTyped
  <2> QED BY <2>1, <2>2 DEF Less, Group
<1>3. DOMAIN G = DOMAIN db.groups /\ \A g \in DOMAIN db.groups : G[g] = db.groups[g] BY <1>2
<1>4. G \in Rows
  <2>1. DOMAIN db.groups \in SUBSET (Nat \ {0}) /\ G \in [DOMAIN db.groups -> Group]
    BY <1>1, <1>2, RowsTyped
  <2> QED BY <2>1, RowsMade
<1>5. F \in [Expenses -> Funds \cup {"none"}] BY DEF Database
<1>6. S \in SUBSET Expenses BY DEF Database
<1>7. \A e \in Expenses : F[e] = IF e \in E THEN "none" ELSE db.fund[e] OBVIOUS
<1>8. d = [db EXCEPT !.fund = F, !.skipped = S, !.groups = G] BY DEF DeleteExpenses
<1> HIDE DEF F, G
<1> QED BY <1>3, <1>4, <1>5, <1>6, <1>7, <1>8 DEF Database

LEMMA SavedDb ==
  ASSUME NEW db, Database(db), NEW E \in SUBSET Expenses, fyle \in [Expenses -> Funds]
  PROVE  LET d == Saved(db, E) IN
         /\ Database(d) /\ d.next = db.next /\ d.skipped = db.skipped /\ d.groups = db.groups
         /\ \A e \in Expenses : d.fund[e] = IF e \in E THEN fyle[e] ELSE db.fund[e]
<1> DEFINE F == [e \in Expenses |-> IF e \in E THEN fyle[e] ELSE db.fund[e]]
<1>1. F \in [Expenses -> Funds \cup {"none"}] BY DEF Database
<1>2. \A e \in Expenses : F[e] = IF e \in E THEN fyle[e] ELSE db.fund[e] OBVIOUS
<1>3. Saved(db, E) = [db EXCEPT !.fund = F] BY DEF Saved
<1> HIDE DEF F
<1> QED BY <1>1, <1>2, <1>3 DEF Database

\* The parts that become groups: disjoint, of one fund source each.
LEMMA PartsApart ==
  ASSUME LifecycleAssumption, NEW db, NEW E \in SUBSET Expenses
  PROVE  /\ IsFiniteSet(Parts(db, E))
         /\ \A F \in Parts(db, E) : /\ F \subseteq E /\ F # {}
                                    /\ \E f \in Funds : \A e \in F : db.fund[e] = f
         /\ \A F, G \in Parts(db, E) : F # G => F \cap G = {}
<1> DEFINE Of(f) == {e \in E : db.fund[e] = f}
<1> DEFINE P(f) == IF f \in ByReport THEN {Of(f)} \ {{}} ELSE {{e} : e \in Of(f)}
<1>1. Parts(db, E) = UNION {P(f) : f \in Funds} BY DEF Parts
<1>2. ASSUME NEW f \in Funds, NEW F \in P(f)
      PROVE  F \subseteq E /\ F # {} /\ \A e \in F : db.fund[e] = f
  OBVIOUS
<1>3. ASSUME NEW f \in Funds, NEW F \in P(f), NEW G \in P(f), F # G PROVE F \cap G = {}
  BY <1>3
<1> HIDE DEF P
<1>4. \A F \in Parts(db, E) : /\ F \subseteq E /\ F # {}
                              /\ \E f \in Funds : \A e \in F : db.fund[e] = f
  BY <1>1, <1>2
<1>5. ASSUME NEW F \in Parts(db, E), NEW G \in Parts(db, E), F # G PROVE F \cap G = {}
  <2>1. PICK f \in Funds : F \in P(f) BY <1>1
  <2>2. PICK g \in Funds : G \in P(g) BY <1>1
  <2> QED BY <1>2, <1>3, <1>5, <2>1, <2>2
<1>6. IsFiniteSet(Parts(db, E))
  <2>1. IsFiniteSet(SUBSET Expenses) BY FS_SUBSET DEF LifecycleAssumption
  <2>2. Parts(db, E) \in SUBSET SUBSET Expenses BY <1>4
  <2> QED BY <2>1, <2>2, FS_Subset
<1> QED BY <1>4, <1>5, <1>6

LEMMA CreateDb ==
  ASSUME LifecycleAssumption, NEW db, Database(db), NEW E \in SUBSET Expenses
  PROVE  LET d == CreateGroups(db, E) IN
         /\ Adds(db, d, E) /\ Matched(db, d) /\ d.fund = db.fund /\ d.skipped = db.skipped
         /\ (\A e \in E : e \notin db.skipped) => Clean(db, d)
<1> DEFINE parts == SetToSeq(Parts(db, E))
<1> DEFINE Row(members) == [members |-> members, log |-> "NONE", exported |-> FALSE,
                            fund |-> db.fund[CHOOSE e \in members : TRUE]]
<1> DEFINE ids == db.next..(db.next + Len(parts) - 1)
<1> DEFINE G == [g \in DOMAIN db.groups \cup ids |->
                    IF g \in ids THEN Row(parts[g - db.next + 1]) ELSE db.groups[g]]
<1> DEFINE d == CreateGroups(db, E)
<1>1. /\ parts \in Seq(Parts(db, E)) /\ Len(parts) \in Nat
      /\ \A i, j \in 1..Len(parts) : parts[i] = parts[j] => i = j
  BY PartsApart, SeqOfSet
<1>2. d = [db EXCEPT !.groups = G, !.next = db.next + Len(parts)] BY DEF CreateGroups
<1>3. /\ db.next \in Nat \ {0} /\ db.groups \in Rows /\ \A g \in DOMAIN db.groups : g < db.next
      /\ db.fund \in [Expenses -> Funds \cup {"none"}]
  BY DEF Database
<1>4. DOMAIN db.groups \subseteq Nat \ {0} /\ db.groups \in [DOMAIN db.groups -> Group]
  BY <1>3, RowsTyped
<1> HIDE DEF parts
<1>5. ASSUME NEW i \in 1..Len(parts)
      PROVE  /\ Row(parts[i]) \in Group /\ parts[i] \subseteq E /\ parts[i] # {}
             /\ \A e \in parts[i] : db.fund[e] = Row(parts[i]).fund
  <2>1. parts[i] \in Parts(db, E) BY <1>1
  <2>2. PICK f \in Funds : \A e \in parts[i] : db.fund[e] = f BY <2>1, PartsApart
  <2>3. parts[i] \subseteq E /\ parts[i] # {} BY <2>1, PartsApart
  <2>4. (CHOOSE e \in parts[i] : TRUE) \in parts[i] BY <2>3
  <2> QED BY <2>2, <2>3, <2>4 DEF Group, Status
<1>6. \A i, j \in 1..Len(parts) : i # j => parts[i] \cap parts[j] = {}
  BY <1>1, PartsApart
<1>7. \A g \in ids : g - db.next + 1 \in 1..Len(parts) BY <1>1, <1>3
<1>8. \A g \in DOMAIN db.groups : g \notin ids BY <1>1, <1>3, <1>4
<1>9. G \in Rows
  <2>1. \A g \in ids : Row(parts[g - db.next + 1]) \in Group BY <1>5, <1>7
  <2>2. ids \subseteq Nat \ {0} BY <1>1, <1>3
  <2>3. /\ DOMAIN db.groups \cup ids \in SUBSET (Nat \ {0})
        /\ G \in [DOMAIN db.groups \cup ids -> Group]
    BY <1>4, <2>1, <2>2
  <2> QED BY <2>3, RowsMade
<1>10. DOMAIN G = DOMAIN db.groups \cup ids OBVIOUS
<1>11. \A g \in DOMAIN db.groups : G[g] = db.groups[g] BY <1>8
<1>12. \A g \in ids : G[g] = Row(parts[g - db.next + 1]) OBVIOUS
<1>13. \A g \in DOMAIN G : g < db.next + Len(parts) BY <1>1, <1>3, <1>4, <1>10
<1>14. ASSUME NEW g \in ids
       PROVE  /\ g >= db.next /\ G[g].members \subseteq E /\ G[g].members # {}
              /\ G[g].log = "NONE" /\ ~G[g].exported
              /\ \A e \in G[g].members : db.fund[e] = G[g].fund
  <2> DEFINE i == g - db.next + 1
  <2>1. i \in 1..Len(parts) /\ G[g] = Row(parts[i]) BY <1>7, <1>12
  <2>2. G[g].members = parts[i] /\ G[g].log = "NONE" /\ ~G[g].exported BY <2>1
  <2>3. /\ parts[i] \subseteq E /\ parts[i] # {}
        /\ \A e \in parts[i] : db.fund[e] = Row(parts[i]).fund
    BY <1>5, <2>1
  <2>4. g >= db.next BY <1>1, <1>3
  <2> HIDE DEF i, Row, G
  <2> QED BY <2>1, <2>2, <2>3, <2>4
<1>15. ASSUME NEW g \in ids, NEW k \in ids, g # k PROVE G[g].members \cap G[k].members = {}
  <2>1. g - db.next + 1 # k - db.next + 1 BY <1>1, <1>3, <1>15
  <2> QED BY <1>6, <1>7, <1>12, <2>1
<1> HIDE DEF G
<1>16. /\ d.groups = G /\ d.next = db.next + Len(parts) /\ d.fund = db.fund /\ d.skipped = db.skipped
       /\ Database(d)
  <2> DEFINE n == db.next + Len(parts)
  <2>1. n \in Nat \ {0} BY <1>1, <1>3
  <2>2. d = [db EXCEPT !.groups = G, !.next = n] BY <1>2
  <2> HIDE DEF d, n
  <2>3. /\ d.groups = G /\ d.next = n /\ d.fund = db.fund /\ d.skipped = db.skipped
        /\ d \in [fund: [Expenses -> Funds \cup {"none"}], skipped: SUBSET Expenses,
                  groups: Rows, next: Nat \ {0}]
    BY <1>9, <2>1, <2>2 DEF Database
  <2> QED BY <1>13, <2>3 DEF Database, n
<1>17. DOMAIN d.groups \ DOMAIN db.groups \subseteq ids BY <1>10, <1>16
<1>18. db.next <= d.next BY <1>1, <1>3, <1>16
<1> HIDE DEF d, ids, Row
<1>19. Adds(db, d, E) BY <1>10, <1>11, <1>14, <1>15, <1>16, <1>17, <1>18 DEF Adds
<1>20. Matched(db, d) BY <1>14, <1>16, <1>17 DEF Matched
<1>21. (\A e \in E : e \notin db.skipped) => Clean(db, d) BY <1>14, <1>16, <1>17 DEF Clean
<1> QED BY <1>16, <1>19, <1>20, <1>21 DEF d

\* Groups made after a change that leaves the groups alone.
LEMMA AddsAfter ==
  ASSUME NEW db, NEW m, NEW d, NEW E, NEW F \in SUBSET E,
         m.next = db.next, m.skipped \subseteq db.skipped \cup E, DOMAIN m.groups = DOMAIN db.groups,
         \A g \in DOMAIN db.groups : m.groups[g] = db.groups[g],
         Adds(m, d, F)
  PROVE  /\ Adds(db, d, E)
         /\ Matched(m, d) => Matched(db, d)
         /\ Clean(m, d) => Clean(db, d)
<1>1. Adds(db, d, E) BY DEF Adds
<1> QED BY <1>1 DEF Matched, Clean

\* group_expenses_and_save makes groups of the expenses that it is given.
LEMMA GroupedDb ==
  ASSUME LifecycleAssumption, NEW db, Database(db), NEW E \in SUBSET Expenses
  PROVE  LET d == Grouped(db, E) IN
         /\ Adds(db, d, E) /\ Matched(db, d) /\ d.fund = db.fund
         /\ (\A e \in E : e \notin db.skipped) => Clean(db, d)
<1> DEFINE kept == {e \in E : db.fund[e] \in Configured}
<1> DEFINE free == IF Filtered = {} THEN kept ELSE Ungrouped(db, kept \ Filtered)
<1> DEFINE gone == (E \ kept) \cup (kept \cap Filtered)
<1> DEFINE m == Skip(db, gone)
<1>1. gone \in SUBSET E /\ gone \in SUBSET Expenses /\ free \in SUBSET E /\ free \in SUBSET Expenses
  BY DEF Ungrouped
<1>2. free \cap gone = {} BY DEF Ungrouped
<1>3. /\ Database(m) /\ m.fund = db.fund /\ m.groups = db.groups /\ m.next = db.next
      /\ m.skipped = db.skipped \cup gone
  BY <1>1, SkipDb
<1>4. (\A e \in E : e \notin db.skipped) => \A e \in free : e \notin m.skipped
  BY <1>1, <1>2, <1>3
<1>5. m.skipped \subseteq db.skipped \cup E BY <1>1, <1>3
<1>6. Grouped(db, E) = CreateGroups(m, free) BY DEF Grouped
<1> HIDE DEF m, free, gone
<1>7. LET d == CreateGroups(m, free) IN
      /\ Adds(m, d, free) /\ Matched(m, d) /\ d.fund = m.fund
      /\ (\A e \in free : e \notin m.skipped) => Clean(m, d)
  BY <1>1, <1>3, CreateDb
<1>8. LET d == CreateGroups(m, free) IN
      /\ Adds(db, d, E) /\ Matched(db, d)
      /\ (\A e \in free : e \notin m.skipped) => Clean(db, d)
  BY <1>1, <1>3, <1>5, <1>7, AddsAfter
<1> QED BY <1>3, <1>4, <1>6, <1>7, <1>8

\* So does recreate_expense_groups with those of deleted groups.
LEMMA RecreateDb ==
  ASSUME LifecycleAssumption, NEW db, Database(db), NEW E \in SUBSET Expenses,
         \A e \in E : e \notin db.skipped /\ ~InGroup(db, e)
  PROVE  LET d == Recreate(db, E) IN
         /\ Adds(db, d, E) /\ Matched(db, d) /\ Clean(db, d)
         /\ \A e \in Expenses : d.fund[e] = db.fund[e] \/ (d.fund[e] = "none" /\ e \in E)
<1> DEFINE here == {e \in E : /\ db.fund[e] # "none"
                              /\ InGroup(db, e) => \E g \in DOMAIN db.groups :
                                    e \in db.groups[g].members /\ ~db.groups[g].exported}
<1> DEFINE kept == {e \in here : db.fund[e] \in Configured}
<1> DEFINE m == DeleteExpenses(db, here \ kept)
<1> DEFINE n == Skip(m, kept \cap Filtered)
<1>1. /\ here \ kept \in SUBSET Expenses /\ here \ kept \subseteq E /\ kept \cap Filtered \in SUBSET Expenses
      /\ kept \cap Filtered \subseteq E /\ kept \ Filtered \in SUBSET E
      /\ kept \ Filtered \in SUBSET Expenses
  OBVIOUS
<1>2. Recreate(db, E) = CreateGroups(n, kept \ Filtered) BY DEF Recreate
<1> HIDE DEF here, kept
<1>3. /\ Database(m) /\ m.next = db.next /\ m.skipped = db.skipped \ (here \ kept)
      /\ \A e \in Expenses : m.fund[e] = IF e \in here \ kept THEN "none" ELSE db.fund[e]
      /\ DOMAIN m.groups = DOMAIN db.groups
      /\ \A g \in DOMAIN db.groups : m.groups[g] = db.groups[g]
  <2>1. \A e \in here \ kept : ~InGroup(db, e) BY <1>1
  <2> QED BY <1>1, <2>1, DeleteDb
<1> HIDE DEF m
<1>4. /\ Database(n) /\ n.fund = m.fund /\ n.groups = m.groups /\ n.next = m.next
      /\ n.skipped = m.skipped \cup (kept \cap Filtered)
  BY <1>1, <1>3, SkipDb
<1> HIDE DEF n
<1>5. \A e \in kept \ Filtered : e \notin n.skipped BY <1>1, <1>3, <1>4
<1>6. LET d == CreateGroups(n, kept \ Filtered) IN
      Adds(n, d, kept \ Filtered) /\ Matched(n, d) /\ Clean(n, d) /\ d.fund = n.fund
  BY <1>1, <1>4, <1>5, CreateDb
<1>7. n.skipped \subseteq db.skipped \cup E BY <1>1, <1>3, <1>4
<1>8. LET d == CreateGroups(n, kept \ Filtered) IN Adds(db, d, E) /\ Matched(db, d) /\ Clean(db, d)
  BY <1>1, <1>3, <1>4, <1>6, <1>7, AddsAfter
<1> QED BY <1>1, <1>2, <1>3, <1>4, <1>6, <1>8

LEMMA RecreateTyped ==
  ASSUME LifecycleAssumption, NEW db, Database(db), NEW E \in SUBSET Expenses
  PROVE  Database(Recreate(db, E))
<1> DEFINE here == {e \in E : /\ db.fund[e] # "none"
                              /\ InGroup(db, e) => \E g \in DOMAIN db.groups :
                                    e \in db.groups[g].members /\ ~db.groups[g].exported}
<1> DEFINE kept == {e \in here : db.fund[e] \in Configured}
<1>1. /\ here \ kept \in SUBSET Expenses /\ kept \cap Filtered \in SUBSET Expenses
      /\ kept \ Filtered \in SUBSET Expenses
  OBVIOUS
<1>2. Recreate(db, E) =
         CreateGroups(Skip(DeleteExpenses(db, here \ kept), kept \cap Filtered), kept \ Filtered)
  BY DEF Recreate
<1> HIDE DEF here, kept
<1>3. Database(Skip(DeleteExpenses(db, here \ kept), kept \cap Filtered))
  BY <1>1, DeleteTyped, SkipDb
<1> QED BY <1>1, <1>2, <1>3, CreateDb DEF Adds

LEMMA ReplaceTyped ==
  ASSUME LifecycleAssumption, NEW db, Database(db), NEW p, p.affected \in SUBSET Expenses
  PROVE  Database(Replace(db, p))
<1> DEFINE gone == {g \in p.found : MayDelete(g)}
<1>1. Database(Without(db, gone)) BY WithoutDb
<1>2. Database(Recreate(Without(db, gone), p.affected)) BY <1>1, RecreateTyped
<1> QED BY <1>1, <1>2 DEF Replace
-----------------------------------------------------------------------------
(* Types.                                                                  *)

\* Ids of groups are used once.
Numbered == \A g \in Live : g < nextId

Typed == TypeOK /\ Numbered

LEMMA DbTyped ==
  ASSUME LifecycleAssumption, Typed
  PROVE  /\ Database(Db) /\ Db.fund = fund /\ Db.skipped = skipped /\ Db.groups = groups
         /\ Db.next = nextId
<1>1. Live \subseteq Nat \ {0} /\ groups \in [Live -> Group] /\ nextId \in Nat \ {0}
  BY DEF Typed, TypeOK, LifecycleAssumption
<1>2. groups \in Rows BY <1>1, RowsMade
<1> QED BY <1>1, <1>2 DEF Typed, TypeOK, Numbered, Database, Db, Live

LEMMA ApplyTyped ==
  ASSUME LifecycleAssumption, NEW d, Database(d), Apply(d)
  PROVE  /\ fund' \in [Expenses -> Funds \cup {"none"}] /\ skipped' \subseteq Expenses
         /\ Live' \subseteq 1..MaxGroups /\ groups' \in [Live' -> Group]
         /\ nextId' \in 1..(MaxGroups + 1) /\ Numbered'
<1>1. d.groups \in Rows /\ d.next \in Nat \ {0} /\ d.next <= MaxGroups + 1
  BY DEF Database, Apply
<1>2. DOMAIN d.groups \subseteq Nat \ {0} /\ d.groups \in [DOMAIN d.groups -> Group]
  BY <1>1, RowsTyped
<1>3. \A g \in DOMAIN d.groups : g < d.next BY DEF Database
<1>4. MaxGroups \in Nat BY DEF LifecycleAssumption
<1>5. DOMAIN d.groups \subseteq 1..MaxGroups BY <1>1, <1>2, <1>3, <1>4
<1> QED BY <1>1, <1>2, <1>3, <1>4, <1>5 DEF Database, Apply, Live, Numbered

LEMMA IdleTyped == ASSUME LifecycleAssumption PROVE Idle \in Handler
<1>1. <<>> \in Old
  <2>1. <<>> \in [{} -> SUBSET Expenses] OBVIOUS
  <2>2. {} \in SUBSET Funds OBVIOUS
  <2> QED BY <2>1, <2>2 DEF Old
<1> QED BY <1>1 DEF Idle, Handler, Pcs, LifecycleAssumption

LEMMA SetTyped ==
  ASSUME NEW h \in Procs, proc \in [Procs -> Handler], NEW r, Set(h, r)
  PROVE  /\ r \in Handler => proc' \in [Procs -> Handler]
         /\ proc'[h] = r
         /\ \A k \in Procs : k # h => proc'[k] = proc[k]
  BY DEF Set

LEMMA ScheduledTyped ==
  ASSUME LifecycleAssumption, schedules \subseteq Schedule,
         NEW ids \in SUBSET Expenses, NEW old \in Old
  PROVE  Scheduled(ids, old) \subseteq Schedule
  BY DEF Scheduled, Schedule, LifecycleAssumption

\* Fyle, the exports and the people.
LEMMA TypedFyle ==
  ASSUME LifecycleAssumption, Typed,
         \/ \E e \in Expenses : Change(e)
         \/ \E g \in Live : Enqueue(g) \/ Claim(g) \/ Succeed(g) \/ Fail(g)
  PROVE  Typed'
<1> USE DEF Typed, TypeOK
<1>1. ASSUME NEW e \in Expenses, Change(e) PROVE Typed'
  <2>1. (CHOOSE f \in Funds : f # fyle[e]) \in Funds
    <3>1. \E f \in Funds : f # fyle[e] BY DEF Funds
    <3> QED BY <3>1
  <2>2. fyle' \in [Expenses -> Funds] BY <1>1, <2>1 DEF Change
  <2>3. changes' \in 0..MaxChanges BY <1>1 DEF Change, LifecycleAssumption
  <2> QED BY <1>1, <2>2, <2>3 DEF Change, Numbered, Live
<1>2. ASSUME NEW g \in Live, NEW from, NEW to \in Status, Log(g, from, to) PROVE Typed'
  <2>1. [groups[g] EXCEPT !.log = to] \in Group BY DEF Group
  <2>2. DOMAIN groups' = DOMAIN groups /\ groups' \in [Live -> Group]
    BY <1>2, <2>1 DEF Log, Group
  <2> QED BY <1>2, <2>2 DEF Log, Numbered, Live
<1> QED BY <1>1, <1>2 DEF Enqueue, Claim, Succeed, Fail, Status

\* The steps that find out what to do.
LEMMA TypedFinds ==
  ASSUME LifecycleAssumption, Typed, NEW h \in Procs,
         \/ \E e \in Expenses : Update(h, e) \/ Eject(h, e)
         \/ \E s \in schedules : Retry(h, s)
         \/ Find(h) \/ Abort(h)
         \/ \E kind \in Imports : Import(h, kind)
         \/ \E E \in SUBSET Expenses : Fetch(h, E)
         \/ EjectCheck(h) \/ Added(h)
         \/ \E g \in proc[h].found : CheckGroup(h, g)
  PROVE  Typed'
<1> USE DEF Typed, TypeOK
<1>0. Idle \in Handler /\ proc[h] \in Handler BY IdleTyped
<1>1. ASSUME NEW r \in Handler, Set(h, r), schedules' \subseteq Schedule, faults' \in 0..MaxFaults,
             UNCHANGED <<fyle, fund, skipped, groups, nextId, changes>>
      PROVE  Typed'
  BY <1>1, SetTyped DEF Numbered, Live
<1>2. Live \subseteq 1..MaxGroups /\ \A g \in Live : groups[g].members \in SUBSET Expenses
  BY DEF Group
<1>3. ASSUME NEW e \in Expenses, Update(h, e) PROVE Typed'
  <2>1. [f \in {fund[e]} |-> {e}] \in Old
    <3>1. {fund[e]} \in SUBSET Funds BY <1>3 DEF Update
    <3>2. [f \in {fund[e]} |-> {e}] \in [{fund[e]} -> SUBSET Expenses] OBVIOUS
    <3> QED BY <3>1, <3>2 DEF Old
  <2> DEFINE old == [f \in {fund[e]} |-> {e}]
  <2> DEFINE r == [Idle EXCEPT !.pc = "find", !.kind = "webhook", !.ids = {e}, !.old = old]
  <2>2. Set(h, r) BY <1>3 DEF Update
  <2> HIDE DEF old
  <2>3. r \in Handler BY <1>0, <2>1 DEF Handler, Pcs, old
  <2>4. UNCHANGED <<fyle, skipped, groups, nextId, schedules, changes, faults>> BY <1>3 DEF Update
  <2>5. fund' \in [Expenses -> Funds \cup {"none"}] BY <1>3 DEF Update
  <2> HIDE DEF r
  <2>6. proc' \in [Procs -> Handler] BY <2>2, <2>3, SetTyped
  <2> QED BY <2>4, <2>5, <2>6 DEF Numbered, Live
<1>4. ASSUME NEW e \in Expenses, Eject(h, e) PROVE Typed'
  <2>1. PICK g \in Live :
          Set(h, [Idle EXCEPT !.pc = "eject", !.found = {g}, !.ids = {e}, !.current = g])
    BY <1>4 DEF Eject
  <2>2. g \in 0..MaxGroups /\ {g} \in SUBSET (1..MaxGroups) BY <1>2 DEF LifecycleAssumption
  <2>3. [Idle EXCEPT !.pc = "eject", !.found = {g}, !.ids = {e}, !.current = g] \in Handler
    BY <1>0, <2>2 DEF Handler, Pcs
  <2> QED BY <1>1, <1>4, <2>1, <2>3 DEF Eject
<1>5. ASSUME NEW s \in schedules, Retry(h, s) PROVE Typed'
  <2>1. s \in Schedule /\ s.repeats - 1 \in 0..Repeats
    <3>1. s \in Schedule /\ Repeats \in Nat BY DEF LifecycleAssumption
    <3>2. s.repeats > 0 BY <1>5 DEF Retry
    <3>3. s.repeats \in 0..Repeats BY <3>1 DEF Schedule
    <3> QED BY <3>1, <3>2, <3>3
  <2>2. [s EXCEPT !.repeats = @ - 1] \in Schedule BY <2>1 DEF Schedule
  <2>3. schedules' \subseteq Schedule BY <1>5, <2>2 DEF Retry
  <2> DEFINE r == [Idle EXCEPT !.pc = "find", !.kind = "retry", !.ids = s.ids, !.old = s.old]
  <2>4. r \in Handler BY <1>0, <2>1 DEF Handler, Pcs, Schedule
  <2>5. Set(h, r) BY <1>5 DEF Retry
  <2> QED BY <1>1, <1>5, <2>3, <2>4, <2>5 DEF Retry
<1>6. CASE Find(h)
  <2> DEFINE p == proc[h]
  <2> DEFINE found == Affected(p.ids, p.old)
  <2> DEFINE affected == UNION {groups[g].members : g \in found}
  <2>1. found \subseteq Live BY DEF Affected
  <2> HIDE DEF found
  <2>a. found \in SUBSET (1..MaxGroups) BY <1>2, <2>1
  <2>b. \A g \in found : groups[g].members \in SUBSET Expenses BY <1>2, <2>1
  <2>2. found \in SUBSET (1..MaxGroups) /\ affected \in SUBSET Expenses BY <2>a, <2>b
  <2> HIDE DEF affected
  <2>3. /\ [p EXCEPT !.pc = "process", !.found = found, !.affected = affected] \in Handler
        /\ [p EXCEPT !.pc = "fetch"] \in Handler
    BY <1>0, <2>2 DEF Handler, Pcs
  <2>4. \/ Set(h, [p EXCEPT !.pc = "process", !.found = found, !.affected = affected])
        \/ Set(h, [p EXCEPT !.pc = "fetch"]) \/ Set(h, Idle)
    BY <1>6 DEF Find, found, affected
  <2> QED BY <1>0, <1>1, <1>6, <2>3, <2>4 DEF Find
<1>7. CASE Abort(h)
  <2>1. [proc[h] EXCEPT !.pc = "fetch"] \in Handler BY <1>0 DEF Handler, Pcs
  <2>2. faults' \in 0..MaxFaults BY <1>7 DEF Abort, LifecycleAssumption
  <2>3. Set(h, [proc[h] EXCEPT !.pc = "fetch"]) \/ Set(h, Idle) BY <1>7 DEF Abort
  <2> QED BY <1>0, <1>1, <1>7, <2>1, <2>2, <2>3 DEF Abort
<1>8. ASSUME NEW kind \in Imports, Import(h, kind) PROVE Typed'
  <2> DEFINE changed == {e \in Expenses : fund[e] \notin {"none", fyle[e]}}
  <2> DEFINE old == [f \in Funds |-> {e \in changed : fund[e] = f}]
  <2> DEFINE r == [Idle EXCEPT !.pc = "find", !.kind = kind, !.ids = changed, !.old = old]
  <2>1. old \in Old
    <3>1. old \in [Funds -> SUBSET Expenses] OBVIOUS
    <3> QED BY <3>1 DEF Old
  <2>2. changed \in SUBSET Expenses OBVIOUS
  <2>3. Set(h, r) \/ Set(h, [Idle EXCEPT !.pc = "fetch", !.kind = kind]) BY <1>8 DEF Import
  <2> HIDE DEF changed, old
  <2>4. r \in Handler /\ [Idle EXCEPT !.pc = "fetch", !.kind = kind] \in Handler
    BY <1>0, <2>1, <2>2 DEF Handler, Pcs
  <2> QED BY <1>1, <1>8, <2>3, <2>4 DEF Import
<1>9. ASSUME NEW E \in SUBSET Expenses, Fetch(h, E) PROVE Typed'
  <2> DEFINE free == Ungrouped(Db, E)
  <2>1. free \in SUBSET Expenses BY DEF Ungrouped
  <2>2. Set(h, [proc[h] EXCEPT !.pc = "gather", !.ids = E, !.affected = free]) BY <1>9 DEF Fetch
  <2> HIDE DEF free
  <2>3. [proc[h] EXCEPT !.pc = "gather", !.ids = E, !.affected = free] \in Handler
    BY <1>0, <2>1 DEF Handler, Pcs
  <2> QED BY <1>1, <1>9, <2>2, <2>3 DEF Fetch
<1>10. CASE EjectCheck(h)
  <2> DEFINE found == {g \in proc[h].found \cap Live : groups[g].members \subseteq proc[h].ids}
  <2>1. found \in SUBSET (1..MaxGroups) BY <1>2
  <2>2. Set(h, [proc[h] EXCEPT !.pc = "ejected", !.found = found]) BY <1>10 DEF EjectCheck
  <2> HIDE DEF found
  <2>3. [proc[h] EXCEPT !.pc = "ejected", !.found = found] \in Handler
    BY <1>0, <2>1 DEF Handler, Pcs
  <2> QED BY <1>1, <1>10, <2>2, <2>3 DEF EjectCheck
<1>11. CASE Added(h)
  <2> DEFINE found == {g \in Live : ~groups[g].exported /\ groups[g].members # {}}
  <2>1. found \in SUBSET (1..MaxGroups) BY <1>2
  <2>2. Set(h, [Idle EXCEPT !.pc = "added", !.found = found]) BY <1>11 DEF Added
  <2> HIDE DEF found
  <2>3. [Idle EXCEPT !.pc = "added", !.found = found] \in Handler
    BY <1>0, <2>1 DEF Handler, Pcs
  <2> QED BY <1>1, <1>11, <2>2, <2>3 DEF Added
<1>12. ASSUME NEW g \in proc[h].found, CheckGroup(h, g) PROVE Typed'
  <2>1. g \in 1..MaxGroups /\ proc[h].found \ {g} \in SUBSET (1..MaxGroups)
    BY <1>0 DEF Handler
  <2>2. g \in 0..MaxGroups BY <2>1 DEF LifecycleAssumption
  <2>3. /\ [proc[h] EXCEPT !.found = @ \ {g}] \in Handler
        /\ [proc[h] EXCEPT !.pc = "delete", !.current = g] \in Handler
    BY <1>0, <2>1, <2>2 DEF Handler, Pcs
  <2>4. \/ Set(h, [proc[h] EXCEPT !.found = @ \ {g}]) \/ Set(h, Idle)
        \/ Set(h, [proc[h] EXCEPT !.pc = "delete", !.current = g])
    BY <1>12 DEF CheckGroup
  <2> QED BY <1>0, <1>1, <1>12, <2>3, <2>4 DEF CheckGroup
<1> QED BY <1>3, <1>4, <1>5, <1>6, <1>7, <1>8, <1>9, <1>10, <1>11, <1>12

\* The transactions: what they write is a database.
Cut(id, E) == [Db EXCEPT !.groups = [g \in DOMAIN @ |-> IF g = id THEN Less(@[g], E) ELSE @[g]]]

LEMMA CutDb ==
  ASSUME LifecycleAssumption, Typed, NEW id, NEW E
  PROVE  LET cut == Cut(id, E)
         IN  /\ Database(cut) /\ cut.fund = fund /\ cut.skipped = skipped /\ cut.next = nextId
             /\ DOMAIN cut.groups = Live
             /\ \A g \in Live : cut.groups[g] = IF g = id THEN Less(groups[g], E) ELSE groups[g]
<1>1. /\ Database(Db) /\ Db.fund = fund /\ Db.skipped = skipped /\ Db.groups = groups
      /\ Db.next = nextId
  BY DbTyped
<1> DEFINE G == [g \in Live |-> IF g = id THEN Less(groups[g], E) ELSE groups[g]]
<1>2. G \in Rows
  <2>1. /\ Live \in SUBSET (Nat \ {0}) /\ groups \in [Live -> Group]
    BY DEF Typed, TypeOK, LifecycleAssumption
  <2>2. G \in [Live -> Group] BY <2>1, LessTyped
  <2> QED BY <2>1, <2>2, RowsMade
<1>3. DOMAIN G = Live /\ \A g \in Live : G[g] = IF g = id THEN Less(groups[g], E) ELSE groups[g]
  OBVIOUS
<1>4. Cut(id, E) = [Db EXCEPT !.groups = G] BY <1>1 DEF Cut, Live
<1> HIDE DEF G
<1> QED BY <1>1, <1>2, <1>3, <1>4 DEF Database, Live

LEMMA TypedWrites ==
  ASSUME LifecycleAssumption, Typed, NEW h \in Procs,
         Process(h) \/ Gather(h) \/ ImportReplacing(h) \/ Ejected(h) \/ DeleteGroup(h)
  PROVE  Typed'
<1>0. /\ Idle \in Handler /\ proc[h] \in Handler /\ proc \in [Procs -> Handler]
      /\ schedules \subseteq Schedule /\ fyle \in [Expenses -> Funds]
  BY IdleTyped DEF Typed, TypeOK
<1>1. /\ proc[h].affected \in SUBSET Expenses /\ proc[h].ids \in SUBSET Expenses
      /\ proc[h].old \in Old
  BY <1>0 DEF Handler
<1>2. Database(Db) BY DbTyped
<1>3. ASSUME NEW d, Database(d), Apply(d), NEW r \in Handler, Set(h, r), schedules' \subseteq Schedule,
             UNCHANGED <<fyle, changes, faults>>
      PROVE  Typed'
  BY <1>0, <1>3, ApplyTyped, SetTyped DEF Typed, TypeOK
<1>4. CASE Process(h)
  <2>1. Database(Replace(Db, proc[h])) BY <1>1, <1>2, ReplaceTyped
  <2>2. schedules' \subseteq Schedule
    <3>1. Scheduled(proc[h].ids, proc[h].old) \subseteq Schedule BY <1>0, <1>1, ScheduledTyped
    <3> QED BY <1>0, <1>4, <3>1 DEF Process
  <2> QED BY <1>0, <1>3, <1>4, <2>1, <2>2 DEF Process
<1>5. CASE Gather(h)
  <2>1. Database(Saved(Db, proc[h].ids)) BY <1>0, <1>1, <1>2, SavedDb
  <2>2. Database(Grouped(Saved(Db, proc[h].ids), proc[h].affected))
    BY <1>1, <2>1, GroupedDb DEF Adds
  <2> QED BY <1>0, <1>3, <1>5, <2>2 DEF Gather
<1>6. CASE ImportReplacing(h)
  <2> DEFINE E == Asked("approved")
  <2> DEFINE mid == Saved(Replace(Saved(Db, proc[h].ids), proc[h]), E)
  <2>1. E \in SUBSET Expenses BY DEF Asked
  <2>2. Database(mid) BY <1>0, <1>1, <1>2, <2>1, SavedDb, ReplaceTyped
  <2>3. Ungrouped(mid, E) \in SUBSET Expenses BY <2>1 DEF Ungrouped
  <2>4. Apply(Grouped(mid, Ungrouped(mid, E))) BY <1>6 DEF ImportReplacing
  <2>5. schedules' \subseteq Schedule
    <3>1. Scheduled(proc[h].ids, proc[h].old) \subseteq Schedule BY <1>0, <1>1, ScheduledTyped
    <3> QED BY <1>0, <1>6, <3>1 DEF ImportReplacing
  <2> HIDE DEF mid, E
  <2>6. Database(Grouped(mid, Ungrouped(mid, E))) BY <2>2, <2>3, GroupedDb DEF Adds
  <2> QED BY <1>0, <1>3, <1>6, <2>4, <2>5, <2>6 DEF ImportReplacing
<1>7. CASE Ejected(h)
  <2> DEFINE cut == Cut(proc[h].current, proc[h].ids)
  <2>1. Database(cut) BY CutDb
  <2>2. Apply(Without(cut, proc[h].found)) BY <1>7 DEF Ejected, Cut
  <2> HIDE DEF cut
  <2>3. Database(Without(cut, proc[h].found)) BY <2>1, WithoutDb
  <2> QED BY <1>0, <1>3, <1>7, <2>2, <2>3 DEF Ejected
<1>8. CASE DeleteGroup(h)
  <2>1. Database(Without(Db, {proc[h].current})) BY <1>2, WithoutDb
  <2> DEFINE r == [proc[h] EXCEPT !.pc = "added", !.found = @ \ {proc[h].current}, !.current = 0]
  <2>2. r \in Handler
    <3> DEFINE rest == proc[h].found \ {proc[h].current}
    <3>1. rest \in SUBSET (1..MaxGroups) BY <1>0 DEF Handler
    <3>2. 0 \in 0..MaxGroups BY DEF LifecycleAssumption
    <3> HIDE DEF rest
    <3>3. [proc[h] EXCEPT !.pc = "added", !.found = rest, !.current = 0] \in Handler
      BY <1>0, <3>1, <3>2 DEF Handler, Pcs
    <3> QED BY <3>3 DEF rest
  <2>3. Set(h, r) \/ Set(h, Idle) BY <1>8 DEF DeleteGroup
  <2> QED BY <1>0, <1>3, <1>8, <2>1, <2>2, <2>3 DEF DeleteGroup
<1> QED BY <1>4, <1>5, <1>6, <1>7, <1>8

LEMMA TypedInit == ASSUME LifecycleAssumption, Init PROVE Typed
<1>1. Idle \in Handler BY IdleTyped
<1>2. DOMAIN groups = {} /\ groups \in [{} -> Group] BY DEF Init
<1> QED BY <1>1, <1>2 DEF Init, Typed, TypeOK, Numbered, Live, LifecycleAssumption

LEMMA TypedStep == ASSUME LifecycleAssumption, Typed, [Next]_vars PROVE Typed'
<1>1. CASE UNCHANGED vars BY <1>1 DEF vars, Typed, TypeOK, Numbered, Live
<1> QED BY <1>1, TypedFyle, TypedFinds, TypedWrites DEF Next

\* Every variable keeps its type, for any set of expenses, any number of processes,
\* whatever fund sources are configured or grouped and whatever imports and webhooks
\* arrive: ids of groups stay within the bound, and schedules never repeat too often.
THEOREM LifecycleTyped == ASSUME LifecycleAssumption PROVE Spec => []TypeOK
<1>1. Init => Typed BY TypedInit
<1>2. Typed /\ [Next]_vars => Typed' BY TypedStep
<1>3. Typed => TypeOK BY DEF Typed
<1> QED BY <1>1, <1>2, <1>3, PTL DEF Spec
-----------------------------------------------------------------------------
(* One group for an expense.                                               *)

OneProcess == \A g, h \in Procs : g = h

\* fund source changes are not handled
FundsFixed == "update" \notin Webhooks /\ "approved" \notin Imports

\* What an import is about to group is locked, not skipped and in no group.
GatherOwns == \A h \in Procs : proc[h].pc = "gather" =>
    /\ proc[h].affected \subseteq proc[h].ids
    /\ \A e \in proc[h].affected : e \notin skipped /\ ~InGroup(Db, e)
    /\ \A k \in Procs \ {h} : proc[k].pc = "gather" => proc[h].ids \cap proc[k].ids = {}

\* What a handler is about to group again is in the groups that it found.
HandlerOwns == \A h \in Procs : proc[h].pc = "process" =>
    \A e \in proc[h].affected :
        e \notin skipped /\ \A g \in Live : e \in groups[g].members => g \in proc[h].found

\* Nothing is grouped again beside another process.
Calm == OneProcess \/ (schedules = {} /\ \A h \in Procs : proc[h].pc \notin {"find", "process"})

Orderly == Typed /\ OneGroup /\ SkippedStaysOut /\ GatherOwns /\ HandlerOwns /\ Calm

\* OneGroup and SkippedStaysOut of a database.
Apart(db) == \A g, k \in DOMAIN db.groups :
    g # k => db.groups[g].members \cap db.groups[k].members = {}
Out(db) == \A e \in db.skipped : ~InGroup(db, e)

LEMMA LessApart ==
  ASSUME NEW db, NEW d, Apart(db), Out(db), d.skipped = db.skipped,
         \A g \in DOMAIN d.groups :
            g \in DOMAIN db.groups /\ d.groups[g].members \subseteq db.groups[g].members
  PROVE  Apart(d) /\ Out(d)
<1>1. Apart(d) BY DEF Apart
<1>2. Out(d) BY DEF Out, InGroup
<1> QED BY <1>1, <1>2

LEMMA AddsApart ==
  ASSUME NEW db, NEW d, NEW E, Apart(db), Out(db), Adds(db, d, E), Clean(db, d),
         \/ d = db
         \/ \A e \in E : ~InGroup(db, e)
  PROVE  Apart(d) /\ Out(d)
<1>1. CASE d = db BY <1>1
<1>2. CASE \A e \in E : ~InGroup(db, e)
  <2>1. ASSUME NEW g \in DOMAIN d.groups, NEW k \in DOMAIN d.groups, g # k
        PROVE  d.groups[g].members \cap d.groups[k].members = {}
    <3>1. CASE g \in DOMAIN db.groups /\ k \in DOMAIN db.groups BY <2>1, <3>1 DEF Adds, Apart
    <3>2. CASE g \notin DOMAIN db.groups /\ k \notin DOMAIN db.groups BY <2>1, <3>2 DEF Adds
    <3>3. CASE g \in DOMAIN db.groups /\ k \notin DOMAIN db.groups BY <1>2, <3>3 DEF Adds, InGroup
    <3>4. CASE g \notin DOMAIN db.groups /\ k \in DOMAIN db.groups BY <1>2, <3>4 DEF Adds, InGroup
    <3> QED BY <3>1, <3>2, <3>3, <3>4
  <2>2. ASSUME NEW e \in d.skipped, NEW g \in DOMAIN d.groups, e \in d.groups[g].members PROVE FALSE
    <3>1. g \in DOMAIN db.groups BY <2>2 DEF Clean
    <3>2. InGroup(db, e) BY <2>2, <3>1 DEF Adds, InGroup
    <3> QED BY <1>2, <2>2, <3>2 DEF Adds, Out
  <2> QED BY <2>1, <2>2 DEF Apart, Out, InGroup
<1> QED BY <1>1, <1>2

\* Groups that go, and groups for their expenses when all of them went.
LEMMA ReplaceDb ==
  ASSUME LifecycleAssumption, NEW db, Database(db), NEW p, p.affected \in SUBSET Expenses,
         \A e \in p.affected : /\ e \notin db.skipped
                               /\ \A g \in DOMAIN db.groups :
                                     e \in db.groups[g].members => g \in p.found
  PROVE  LET w == Without(db, {g \in p.found : MayDelete(g)})
             d == Replace(db, p)
         IN  /\ Adds(w, d, p.affected) /\ Matched(w, d) /\ Clean(w, d)
             /\ \A e \in Expenses :
                   d.fund[e] = w.fund[e] \/ (d.fund[e] = "none" /\ e \in p.affected)
             /\ d = w \/ \A e \in p.affected : ~InGroup(w, e)
<1> DEFINE gone == {g \in p.found : MayDelete(g)}
<1> DEFINE w == Without(db, gone)
<1>1. /\ Database(w) /\ w.skipped = db.skipped /\ DOMAIN w.groups = DOMAIN db.groups \ gone
      /\ \A g \in DOMAIN w.groups : w.groups[g] = db.groups[g]
  BY WithoutDb
<1>2. Replace(db, p) = IF gone = p.found THEN Recreate(w, p.affected) ELSE w
  BY DEF Replace
<1> HIDE DEF gone, w
<1>3. CASE gone = p.found
  <2>1. \A e \in p.affected : e \notin w.skipped /\ ~InGroup(w, e) BY <1>1, <1>3 DEF InGroup
  <2>2. LET d == Recreate(w, p.affected) IN
        /\ Adds(w, d, p.affected) /\ Matched(w, d) /\ Clean(w, d)
        /\ \A e \in Expenses : d.fund[e] = w.fund[e] \/ (d.fund[e] = "none" /\ e \in p.affected)
    BY <1>1, <2>1, RecreateDb
  <2>3. Replace(db, p) = Recreate(w, p.affected) BY <1>2, <1>3
  <2> QED BY <2>1, <2>2, <2>3 DEF w, gone
<1>4. CASE gone # p.found
  <2>1. Replace(db, p) = w BY <1>2, <1>4
  <2>2. Adds(w, w, p.affected) BY <1>1 DEF Adds, Database
  <2>3. Matched(w, w) /\ Clean(w, w) BY DEF Matched, Clean
  <2> QED BY <2>1, <2>2, <2>3 DEF w, gone
<1> QED BY <1>3, <1>4

LEMMA ReplaceApart ==
  ASSUME LifecycleAssumption, NEW db, Database(db), NEW p, p.affected \in SUBSET Expenses,
         \A e \in p.affected : /\ e \notin db.skipped
                               /\ \A g \in DOMAIN db.groups :
                                     e \in db.groups[g].members => g \in p.found,
         Apart(db), Out(db)
  PROVE  Apart(Replace(db, p)) /\ Out(Replace(db, p))
<1> DEFINE w == Without(db, {g \in p.found : MayDelete(g)})
<1>1. /\ w.skipped = db.skipped
      /\ \A g \in DOMAIN w.groups : g \in DOMAIN db.groups /\ w.groups[g] = db.groups[g]
  BY WithoutDb
<1>2. /\ Adds(w, Replace(db, p), p.affected) /\ Clean(w, Replace(db, p))
      /\ Replace(db, p) = w \/ \A e \in p.affected : ~InGroup(w, e)
  BY ReplaceDb
<1> HIDE DEF w
<1>3. Apart(w) /\ Out(w) BY <1>1, LessApart
<1> QED BY <1>2, <1>3, AddsApart

LEMMA DbApart == Apart(Db) /\ Out(Db) <=> OneGroup /\ SkippedStaysOut
  BY DEF Apart, Out, OneGroup, SkippedStaysOut, Db, Live

LEMMA ApplyApart ==
  ASSUME NEW d, Apply(d), Apart(d), Out(d)
  PROVE  OneGroup' /\ SkippedStaysOut'
  BY DEF Apply, Apart, Out, OneGroup, SkippedStaysOut, InGroup, Db, Live

\* Steps that make no group and find none to group again.
LEMMA OrderlyKept ==
  ASSUME Orderly, Typed', NEW h \in Procs, NEW r, Set(h, r),
         r.pc \notin {"gather", "process"},
         OneProcess \/ (r.pc # "find" /\ schedules' = schedules),
         skipped' = skipped,
         \A g \in Live' : g \in Live /\ groups'[g].members \subseteq groups[g].members
  PROVE  Orderly'
<1>1. /\ proc'[h] = r
      /\ \A k \in Procs : k # h => proc'[k] = proc[k]
  BY SetTyped DEF Orderly, Typed, TypeOK, Set
<1>2. OneGroup' BY DEF Orderly, OneGroup
<1>3. \A e \in Expenses : InGroup(Db, e)' => InGroup(Db, e) BY DEF InGroup, Db, Live
<1>4. skipped \subseteq Expenses BY DEF Orderly, Typed, TypeOK
<1>5. SkippedStaysOut' BY <1>3, <1>4 DEF Orderly, SkippedStaysOut
<1>6. GatherOwns'
  <2> SUFFICES ASSUME NEW k \in Procs, proc'[k].pc = "gather"
               PROVE  /\ proc'[k].affected \subseteq proc'[k].ids
                      /\ \A e \in proc'[k].affected : e \notin skipped' /\ ~InGroup(Db, e)'
                      /\ \A j \in Procs \ {k} : proc'[j].pc = "gather" =>
                            proc'[k].ids \cap proc'[j].ids = {}
    BY DEF GatherOwns
  <2>1. k # h /\ proc'[k] = proc[k] BY <1>1
  <2>2. proc[k].affected \in SUBSET Expenses BY DEF Orderly, Typed, TypeOK, Handler
  <2>3. \A j \in Procs : proc'[j].pc = "gather" => proc'[j] = proc[j] BY <1>1
  <2> QED BY <1>3, <2>1, <2>2, <2>3 DEF Orderly, GatherOwns
<1>7. HandlerOwns'
  <2> SUFFICES ASSUME NEW k \in Procs, proc'[k].pc = "process",
                      NEW e \in proc'[k].affected
               PROVE  /\ e \notin skipped'
                      /\ \A g \in Live' : e \in groups'[g].members => g \in proc'[k].found
    BY DEF HandlerOwns
  <2>1. proc'[k] = proc[k] BY <1>1
  <2> QED BY <2>1 DEF Orderly, HandlerOwns
<1>8. Calm'
  <2>1. CASE OneProcess BY <2>1 DEF Calm, OneProcess
  <2>2. CASE ~OneProcess BY <1>1, <2>2 DEF Orderly, Calm
  <2> QED BY <2>1, <2>2
<1> QED BY <1>2, <1>5, <1>6, <1>7, <1>8 DEF Orderly

LEMMA OrderlyFyle ==
  ASSUME LifecycleAssumption, Orderly, Typed',
         \/ \E e \in Expenses : Change(e)
         \/ \E g \in Live : Enqueue(g) \/ Claim(g) \/ Succeed(g) \/ Fail(g)
         \/ UNCHANGED vars
  PROVE  Orderly'
<1>1. ASSUME UNCHANGED <<skipped, schedules, proc>>, Live' = Live,
             \A g \in Live : groups'[g].members = groups[g].members
      PROVE  Orderly'
  <2>1. \A e : InGroup(Db, e)' <=> InGroup(Db, e) BY <1>1 DEF InGroup, Db, Live
  <2>2. OneGroup' BY <1>1 DEF Orderly, OneGroup
  <2>3. SkippedStaysOut' BY <1>1, <2>1 DEF Orderly, SkippedStaysOut
  <2>4. GatherOwns' BY <1>1, <2>1 DEF Orderly, GatherOwns
  <2>5. HandlerOwns' BY <1>1 DEF Orderly, HandlerOwns
  <2>6. Calm' BY <1>1 DEF Orderly, Calm, OneProcess
  <2> QED BY <2>2, <2>3, <2>4, <2>5, <2>6 DEF Orderly
<1>2. ASSUME NEW e \in Expenses, Change(e) PROVE Orderly' BY <1>1, <1>2 DEF Change, Live
<1>3. ASSUME NEW g \in Live, NEW from, NEW to \in Status, Log(g, from, to) PROVE Orderly'
  <2>1. \A k \in Live : groups[k] \in Group BY DEF Orderly, Typed, TypeOK
  <2>2. Live' = Live /\ \A k \in Live : groups'[k].members = groups[k].members
    BY <1>3, <2>1 DEF Log, Live, Group
  <2> QED BY <1>1, <1>3, <2>2 DEF Log
<1>4. CASE UNCHANGED vars BY <1>1, <1>4 DEF vars, Live
<1> QED BY <1>2, <1>3, <1>4 DEF Enqueue, Claim, Succeed, Fail, Status

LEMMA OrderlyFinds ==
  ASSUME LifecycleAssumption, OneProcess \/ FundsFixed, Orderly, Typed', NEW h \in Procs,
         \/ \E e \in Expenses : Update(h, e) \/ Eject(h, e)
         \/ \E s \in schedules : Retry(h, s)
         \/ Abort(h)
         \/ \E kind \in Imports : Import(h, kind)
         \/ EjectCheck(h) \/ Added(h)
         \/ \E g \in proc[h].found : CheckGroup(h, g)
  PROVE  Orderly'
<1>1. Idle.pc = "idle" /\ Idle \in Handler /\ proc[h] \in Handler
  BY IdleTyped DEF Idle, Orderly, Typed, TypeOK
<1>2. ASSUME NEW r, Set(h, r), r.pc \notin {"gather", "process"},
             OneProcess \/ (r.pc # "find" /\ schedules' = schedules), UNCHANGED <<skipped, groups>>
      PROVE  Orderly'
  BY <1>2, OrderlyKept DEF Live
<1> HIDE DEF Idle
<1>3. ASSUME NEW e \in Expenses, Update(h, e) PROVE Orderly'
  <2>1. OneProcess BY <1>3 DEF Update, FundsFixed
  <2>2. [Idle EXCEPT !.pc = "find", !.kind = "webhook", !.ids = {e},
                     !.old = [f \in {fund[e]} |-> {e}]].pc = "find" BY <1>1 DEF Handler
  <2> QED BY <1>2, <1>3, <2>1, <2>2 DEF Update
<1>4. ASSUME NEW e \in Expenses, Eject(h, e) PROVE Orderly'
  <2>1. PICK g \in Live :
          Set(h, [Idle EXCEPT !.pc = "eject", !.found = {g}, !.ids = {e}, !.current = g])
    BY <1>4 DEF Eject
  <2>2. [Idle EXCEPT !.pc = "eject", !.found = {g}, !.ids = {e}, !.current = g].pc = "eject"
    BY <1>1 DEF Handler
  <2> QED BY <1>2, <1>4, <2>1, <2>2 DEF Eject
<1>5. ASSUME NEW s \in schedules, Retry(h, s) PROVE Orderly'
  <2>1. OneProcess BY DEF Orderly, Calm
  <2>2. [Idle EXCEPT !.pc = "find", !.kind = "retry", !.ids = s.ids, !.old = s.old].pc = "find"
    BY <1>1 DEF Handler
  <2> QED BY <1>2, <1>5, <2>1, <2>2 DEF Retry
<1>6. CASE Abort(h)
  <2>1. [proc[h] EXCEPT !.pc = "fetch"].pc = "fetch" BY <1>1 DEF Handler
  <2>2. PICK r \in {Idle, [proc[h] EXCEPT !.pc = "fetch"]} : Set(h, r) BY <1>6 DEF Abort
  <2>3. r.pc \in {"idle", "fetch"} BY <1>1, <2>1, <2>2
  <2> QED BY <1>2, <1>6, <2>2, <2>3 DEF Abort
<1>7. ASSUME NEW kind \in Imports, Import(h, kind) PROVE Orderly'
  <2> DEFINE changed == {e \in Expenses : fund[e] \notin {"none", fyle[e]}}
  <2> DEFINE r == [Idle EXCEPT !.pc = "find", !.kind = kind, !.ids = changed,
                               !.old = [f \in Funds |-> {e \in changed : fund[e] = f}]]
  <2> DEFINE q == [Idle EXCEPT !.pc = "fetch", !.kind = kind]
  <2>1. r.pc = "find" /\ q.pc = "fetch" BY <1>1 DEF Handler
  <2>2. \/ kind = "approved" /\ Set(h, r)
        \/ Set(h, q)
    BY <1>7 DEF Import
  <2>3. kind = "approved" => OneProcess BY DEF FundsFixed
  <2>4. UNCHANGED <<skipped, groups, schedules>> BY <1>7 DEF Import
  <2> HIDE DEF r, q
  <2> QED BY <1>2, <2>1, <2>2, <2>3, <2>4
<1>8. CASE EjectCheck(h)
  <2> DEFINE r == [proc[h] EXCEPT !.pc = "ejected",
                      !.found = {g \in proc[h].found \cap Live : groups[g].members \subseteq proc[h].ids}]
  <2>1. r.pc = "ejected" BY <1>1 DEF Handler
  <2> QED BY <1>2, <1>8, <2>1 DEF EjectCheck
<1>9. CASE Added(h)
  <2> DEFINE found == {g \in Live : ~groups[g].exported /\ groups[g].members # {}}
  <2>1. [Idle EXCEPT !.pc = "added", !.found = found].pc = "added" BY <1>1 DEF Handler
  <2>2. Set(h, [Idle EXCEPT !.pc = "added", !.found = found]) BY <1>9 DEF Added
  <2> QED BY <1>2, <1>9, <2>1, <2>2 DEF Added
<1>10. ASSUME NEW g \in proc[h].found, CheckGroup(h, g) PROVE Orderly'
  <2>1. /\ [proc[h] EXCEPT !.found = @ \ {g}].pc = proc[h].pc
        /\ [proc[h] EXCEPT !.pc = "delete", !.current = g].pc = "delete"
    BY <1>1 DEF Handler
  <2>2. PICK r \in {Idle, [proc[h] EXCEPT !.found = @ \ {g}],
                    [proc[h] EXCEPT !.pc = "delete", !.current = g]} : Set(h, r)
    BY <1>10 DEF CheckGroup
  <2>3. r.pc \in {"idle", "added", "delete"} BY <1>1, <1>10, <2>1, <2>2 DEF CheckGroup
  <2> QED BY <1>2, <1>10, <2>2, <2>3 DEF CheckGroup
<1> QED BY <1>3, <1>4, <1>5, <1>6, <1>7, <1>8, <1>9, <1>10

LEMMA OrderlyFind ==
  ASSUME LifecycleAssumption, Orderly, Typed', NEW h \in Procs, Find(h)
  PROVE  Orderly'
<1> DEFINE p == proc[h]
<1> DEFINE found == Affected(p.ids, p.old)
<1> DEFINE affected == UNION {groups[g].members : g \in found}
<1> DEFINE r == [p EXCEPT !.pc = "process", !.found = found, !.affected = affected]
<1>1. p \in Handler /\ Idle \in Handler /\ Idle.pc = "idle" /\ proc \in [Procs -> Handler]
  BY IdleTyped DEF Idle, Orderly, Typed, TypeOK
<1>2. OneProcess /\ p.pc = "find" BY DEF Find, Orderly, Calm
<1>3. UNCHANGED <<skipped, groups, schedules>> BY DEF Find
<1>4. CASE Set(h, r)
  <2>1. found \subseteq Live BY DEF Affected
  <2>2. \A e \in affected : e \notin skipped
    BY <2>1 DEF Orderly, SkippedStaysOut, InGroup, Db, Live
  <2>3. \A e \in affected : \A g \in Live : e \in groups[g].members => g \in found
    BY <2>1 DEF Orderly, OneGroup
  <2> HIDE DEF found, affected
  <2>4. r.pc = "process" /\ r.found = found /\ r.affected = affected BY <1>1 DEF Handler
  <2> HIDE DEF r
  <2>5. proc'[h] = r /\ \A k \in Procs : k = h BY <1>1, <1>2, <1>4, SetTyped DEF OneProcess
  <2>6. GatherOwns' BY <2>4, <2>5 DEF GatherOwns
  <2>7. HandlerOwns' BY <1>3, <2>2, <2>3, <2>4, <2>5 DEF HandlerOwns, Live
  <2>8. OneGroup' /\ SkippedStaysOut' /\ Calm'
    BY <1>2, <1>3 DEF Orderly, OneGroup, SkippedStaysOut, Calm, OneProcess, InGroup, Db, Live
  <2> QED BY <2>6, <2>7, <2>8 DEF Orderly
<1>5. CASE Set(h, [p EXCEPT !.pc = "fetch"]) \/ Set(h, Idle)
  <2>1. [p EXCEPT !.pc = "fetch"].pc = "fetch" BY <1>1 DEF Handler
  <2>2. PICK q \in {Idle, [p EXCEPT !.pc = "fetch"]} : Set(h, q) BY <1>5
  <2>3. q.pc \in {"idle", "fetch"} BY <1>1, <2>1, <2>2
  <2> HIDE DEF p
  <2> QED BY <1>2, <1>3, <2>2, <2>3, OrderlyKept DEF Live
<1> QED BY <1>4, <1>5 DEF Find

LEMMA OrderlyFetch ==
  ASSUME LifecycleAssumption, Orderly, Typed', NEW h \in Procs,
         NEW E \in SUBSET Expenses, Fetch(h, E)
  PROVE  Orderly'
<1> DEFINE p == proc[h]
<1> DEFINE free == Ungrouped(Db, E)
<1> DEFINE r == [p EXCEPT !.pc = "gather", !.ids = E, !.affected = free]
<1>1. p \in Handler /\ proc \in [Procs -> Handler] BY DEF Orderly, Typed, TypeOK
<1>2. Set(h, r) /\ UNCHANGED <<skipped, groups, schedules>> /\ E \cap Locked(h) = {} BY DEF Fetch
<1>3. free \subseteq E /\ \A e \in free : e \notin skipped /\ ~InGroup(Db, e)
  BY DEF Ungrouped, Db
<1>4. \A k \in Procs \ {h} : proc[k].pc = "gather" => E \cap proc[k].ids = {}
  BY <1>2 DEF Locked
<1> HIDE DEF free
<1>5. r.pc = "gather" /\ r.ids = E /\ r.affected = free BY <1>1 DEF Handler
<1> HIDE DEF r
<1>6. proc'[h] = r /\ \A k \in Procs : k # h => proc'[k] = proc[k] BY <1>1, <1>2, SetTyped
<1>7. \A e : InGroup(Db, e)' <=> InGroup(Db, e) BY <1>2 DEF InGroup, Db
<1>8. GatherOwns'
  <2> SUFFICES ASSUME NEW k \in Procs, proc'[k].pc = "gather"
               PROVE  /\ proc'[k].affected \subseteq proc'[k].ids
                      /\ \A e \in proc'[k].affected : e \notin skipped' /\ ~InGroup(Db, e)'
                      /\ \A j \in Procs \ {k} : proc'[j].pc = "gather" =>
                            proc'[k].ids \cap proc'[j].ids = {}
    BY DEF GatherOwns
  <2>1. CASE k = h BY <1>2, <1>3, <1>4, <1>5, <1>6, <1>7, <2>1
  <2>2. CASE k # h
    <3>1. proc'[k] = proc[k] BY <1>6, <2>2
    <3>2. \A j \in Procs \ {k} : proc'[j].pc = "gather" => proc'[k].ids \cap proc'[j].ids = {}
      BY <1>4, <1>5, <1>6, <2>2, <3>1 DEF Orderly, GatherOwns
    <3> QED BY <1>2, <1>7, <3>1, <3>2 DEF Orderly, GatherOwns
  <2> QED BY <2>1, <2>2
<1>9. HandlerOwns'
  <2>1. \A k \in Procs : proc'[k].pc = "process" => proc'[k] = proc[k] BY <1>5, <1>6
  <2> QED BY <1>2, <2>1 DEF Orderly, HandlerOwns, Live
<1>10. OneGroup' /\ SkippedStaysOut' BY <1>2, <1>7 DEF Orderly, OneGroup, SkippedStaysOut, Live
<1>11. Calm' BY <1>2, <1>5, <1>6 DEF Orderly, Calm, OneProcess
<1> QED BY <1>8, <1>9, <1>10, <1>11 DEF Orderly

\* One process that has ended a transaction: nothing is owned.
LEMMA OrderlyIdle ==
  ASSUME LifecycleAssumption, Typed, Typed', OneProcess, OneGroup', SkippedStaysOut',
         NEW h \in Procs, Set(h, Idle)
  PROVE  Orderly'
<1>1. proc'[h].pc = "idle" BY IdleTyped, SetTyped DEF Idle, Typed, TypeOK
<1>2. \A k \in Procs : proc'[k].pc = "idle" BY <1>1 DEF OneProcess
<1>3. GatherOwns' /\ HandlerOwns' /\ Calm' BY <1>2 DEF GatherOwns, HandlerOwns, Calm, OneProcess
<1> QED BY <1>3 DEF Orderly

LEMMA OrderlyReplaces ==
  ASSUME LifecycleAssumption, Orderly, Typed', NEW h \in Procs, Process(h) \/ ImportReplacing(h)
  PROVE  Orderly'
<1> DEFINE p == proc[h]
<1>1. OneProcess /\ p.pc = "process" BY DEF Process, ImportReplacing, Orderly, Calm
<1>2. /\ Database(Db) /\ Db.skipped = skipped /\ Db.groups = groups /\ Apart(Db) /\ Out(Db)
      /\ fyle \in [Expenses -> Funds]
  BY DbTyped, DbApart DEF Orderly, Typed, TypeOK
<1>3. p.affected \in SUBSET Expenses /\ p.ids \in SUBSET Expenses
  BY DEF Orderly, Typed, TypeOK, Handler
<1>4. \A e \in p.affected : /\ e \notin skipped
                            /\ \A g \in DOMAIN groups : e \in groups[g].members => g \in p.found
  BY <1>1 DEF Orderly, HandlerOwns, Live
<1>5. Set(h, Idle) BY DEF Process, ImportReplacing
<1>6. CASE Process(h)
  <2>1. Apply(Replace(Db, p)) BY <1>6 DEF Process
  <2>2. Apart(Replace(Db, p)) /\ Out(Replace(Db, p)) BY <1>2, <1>3, <1>4, ReplaceApart
  <2> QED BY <1>1, <1>5, <2>1, <2>2, ApplyApart, OrderlyIdle DEF Orderly
<1>7. CASE ImportReplacing(h)
  <2> DEFINE E   == Asked("approved")
  <2> DEFINE sav == Saved(Db, p.ids)
  <2> DEFINE mid == Saved(Replace(sav, p), E)
  <2> DEFINE new == Grouped(mid, Ungrouped(mid, E))
  <2>1. Apply(new) BY <1>7 DEF ImportReplacing
  <2>2. Database(sav) /\ sav.skipped = skipped /\ sav.groups = groups /\ Apart(sav) /\ Out(sav)
    BY <1>2, <1>3, SavedDb DEF Apart, Out, InGroup
  <2> HIDE DEF sav
  <2>3. /\ Database(Replace(sav, p))
        /\ Apart(Replace(sav, p)) /\ Out(Replace(sav, p))
    BY <1>3, <1>4, <2>2, ReplaceTyped, ReplaceApart
  <2>4. E \in SUBSET Expenses BY DEF Asked
  <2>5. Database(mid) /\ Apart(mid) /\ Out(mid)
    BY <1>2, <2>3, <2>4, SavedDb DEF Apart, Out, InGroup
  <2> HIDE DEF mid, E
  <2>6. /\ Ungrouped(mid, E) \in SUBSET Expenses
        /\ \A e \in Ungrouped(mid, E) : e \notin mid.skipped /\ ~InGroup(mid, e)
    BY <2>4 DEF Ungrouped
  <2>7. Adds(mid, new, Ungrouped(mid, E)) /\ Clean(mid, new) BY <2>5, <2>6, GroupedDb
  <2> HIDE DEF new
  <2>8. Apart(new) /\ Out(new) BY <2>5, <2>6, <2>7, AddsApart
  <2> QED BY <1>1, <1>5, <2>1, <2>8, ApplyApart, OrderlyIdle DEF Orderly
<1> QED BY <1>6, <1>7

\* The import's lock keeps the expenses of another import out of its groups.
LEMMA OrderlyGather ==
  ASSUME LifecycleAssumption, Orderly, Typed', NEW h \in Procs, Gather(h)
  PROVE  Orderly'
<1> DEFINE p == proc[h]
<1> DEFINE sav == Saved(Db, p.ids)
<1> DEFINE new == Grouped(sav, p.affected)
<1>1. /\ Database(Db) /\ Db.skipped = skipped /\ Db.groups = groups /\ Apart(Db) /\ Out(Db)
      /\ fyle \in [Expenses -> Funds] /\ proc \in [Procs -> Handler]
      /\ p.affected \in SUBSET Expenses /\ p.ids \in SUBSET Expenses
  BY DbTyped, DbApart DEF Orderly, Typed, TypeOK, Handler
<1>2. p.pc = "gather" /\ Apply(new) /\ Set(h, Idle) /\ schedules' = schedules BY DEF Gather
<1>3. /\ p.affected \subseteq p.ids /\ \A e \in p.affected : e \notin skipped /\ ~InGroup(Db, e)
  BY <1>2 DEF Orderly, GatherOwns
<1>4. Database(sav) /\ sav.skipped = skipped /\ sav.groups = groups BY <1>1, SavedDb
<1>5. Apart(sav) /\ Out(sav) /\ \A e \in p.affected : e \notin sav.skipped /\ ~InGroup(sav, e)
  BY <1>1, <1>3, <1>4 DEF Apart, Out, InGroup
<1> HIDE DEF sav
<1>6. Adds(sav, new, p.affected) /\ Clean(sav, new) BY <1>1, <1>4, <1>5, GroupedDb
<1> HIDE DEF new
<1>7. OneGroup' /\ SkippedStaysOut'
  <2>1. Apart(new) /\ Out(new) BY <1>5, <1>6, AddsApart
  <2> QED BY <1>2, <2>1, ApplyApart
<1>8. proc'[h].pc = "idle" /\ \A k \in Procs : k # h => proc'[k] = proc[k]
  BY <1>1, <1>2, IdleTyped, SetTyped DEF Idle
<1>9. skipped' \subseteq skipped \cup p.affected BY <1>2, <1>4, <1>6 DEF Adds, Apply
<1>10. \A e : InGroup(Db, e)' => InGroup(Db, e) \/ e \in p.affected
  BY <1>1, <1>2, <1>4, <1>6 DEF Adds, Apply, InGroup, Db
<1>11. GatherOwns'
  <2> SUFFICES ASSUME NEW k \in Procs, proc'[k].pc = "gather"
               PROVE  /\ proc'[k].affected \subseteq proc'[k].ids
                      /\ \A e \in proc'[k].affected : e \notin skipped' /\ ~InGroup(Db, e)'
                      /\ \A j \in Procs \ {k} : proc'[j].pc = "gather" =>
                            proc'[k].ids \cap proc'[j].ids = {}
    BY DEF GatherOwns
  <2>1. k # h /\ proc'[k] = proc[k] BY <1>8
  <2>2. proc[k].affected \cap p.affected = {} BY <1>2, <1>3, <2>1 DEF Orderly, GatherOwns
  <2>3. \A j \in Procs : proc'[j].pc = "gather" => proc'[j] = proc[j] BY <1>8
  <2> QED BY <1>9, <1>10, <2>1, <2>2, <2>3 DEF Orderly, GatherOwns
<1>12. HandlerOwns'
  <2>1. CASE OneProcess BY <1>8, <2>1 DEF HandlerOwns, OneProcess
  <2>2. CASE ~OneProcess BY <1>8, <2>2 DEF Orderly, Calm, HandlerOwns
  <2> QED BY <2>1, <2>2
<1>13. Calm' BY <1>2, <1>8 DEF Orderly, Calm, OneProcess
<1> QED BY <1>7, <1>11, <1>12, <1>13 DEF Orderly

LEMMA OrderlyReports ==
  ASSUME LifecycleAssumption, Orderly, Typed', NEW h \in Procs, Ejected(h) \/ DeleteGroup(h)
  PROVE  Orderly'
<1> DEFINE p == proc[h]
<1>1. /\ Idle.pc = "idle" /\ p \in Handler /\ groups \in [Live -> Group]
      /\ Database(Db) /\ Db.skipped = skipped /\ Db.groups = groups
  BY IdleTyped, DbTyped DEF Idle, Orderly, Typed, TypeOK
<1>2. CASE Ejected(h)
  <2> DEFINE cut == Cut(p.current, p.ids)
  <2>1. /\ Database(cut) /\ cut.skipped = skipped /\ DOMAIN cut.groups = Live
        /\ \A g \in Live : cut.groups[g] = IF g = p.current THEN Less(groups[g], p.ids) ELSE groups[g]
    BY CutDb DEF Orderly
  <2>2. Apply(Without(cut, p.found)) /\ Set(h, Idle) /\ schedules' = schedules
    BY <1>2 DEF Ejected, Cut
  <2> HIDE DEF cut
  <2>3. /\ skipped' = skipped
        /\ \A g \in Live' : g \in Live /\ groups'[g] = cut.groups[g]
    BY <2>1, <2>2, WithoutDb DEF Apply, Live
  <2>4. \A g \in Live' : g \in Live /\ groups'[g].members \subseteq groups[g].members
    BY <1>1, <2>1, <2>3, LessTyped
  <2> QED BY <1>1, <2>2, <2>3, <2>4, OrderlyKept
<1>3. CASE DeleteGroup(h)
  <2>1. Apply(Without(Db, {p.current})) /\ schedules' = schedules BY <1>3 DEF DeleteGroup
  <2>2. /\ skipped' = skipped
        /\ \A g \in Live' : g \in Live /\ groups'[g] = groups[g]
    BY <1>1, <2>1, WithoutDb DEF Apply, Live
  <2> DEFINE r == [p EXCEPT !.pc = "added", !.found = @ \ {p.current}, !.current = 0]
  <2>3. r.pc = "added" BY <1>1 DEF Handler
  <2>4. PICK q \in {Idle, r} : Set(h, q) BY <1>3 DEF DeleteGroup
  <2>5. q.pc \in {"idle", "added"} BY <1>1, <2>3, <2>4
  <2> HIDE DEF r
  <2> QED BY <2>1, <2>2, <2>4, <2>5, OrderlyKept
<1> QED BY <1>2, <1>3

LEMMA OrderlyInit == ASSUME LifecycleAssumption, OneProcess \/ FundsFixed, Init PROVE Orderly
<1>1. Typed BY TypedInit
<1>2. Live = {} /\ skipped = {} /\ schedules = {} /\ \A h \in Procs : proc[h].pc = "idle"
  BY DEF Init, Live, Idle
<1> QED BY <1>1, <1>2
     DEF Orderly, OneGroup, SkippedStaysOut, GatherOwns, HandlerOwns, Calm

LEMMA OrderlyStep ==
  ASSUME LifecycleAssumption, OneProcess \/ FundsFixed, Orderly, [Next]_vars
  PROVE  Orderly'
<1>1. Typed' BY TypedStep DEF Orderly
<1> QED BY <1>1, OrderlyFyle, OrderlyFinds, OrderlyFind, OrderlyFetch, OrderlyReplaces,
           OrderlyGather, OrderlyReports DEF Next

LEMMA OrderlyAlways ==
  ASSUME LifecycleAssumption, OneProcess \/ FundsFixed
  PROVE  Spec => []Orderly
<1>1. Init => Orderly BY OrderlyInit
<1>2. Orderly /\ [Next]_vars => Orderly' BY OrderlyStep
<1> QED BY <1>1, <1>2, PTL DEF Spec

\* An expense is in one group at most, and so is exported once: with any number of
\* processes that import while expenses leave their reports, because an import's row
\* locks order it after the imports of the same expenses; and in one process with fund
\* source changes too, because what is grouped again comes from groups that are gone.
THEOREM OneGroupOnly ==
  ASSUME LifecycleAssumption, OneProcess \/ FundsFixed
  PROVE  Spec => []OneGroup
<1>1. Orderly => OneGroup BY DEF Orderly
<1> QED BY <1>1, OrderlyAlways, PTL

\* An expense that a rule or a missing setting skipped is in no group, so that no
\* export sends it, also when its fund source changes later.
THEOREM SkippedStay ==
  ASSUME LifecycleAssumption, OneProcess \/ FundsFixed
  PROVE  Spec => []SkippedStaysOut
<1>1. Orderly => SkippedStaysOut BY DEF Orderly
<1> QED BY <1>1, OrderlyAlways, PTL
-----------------------------------------------------------------------------
(* What the transactions that group expenses leave of the groups.          *)

New(group) == group.log = "NONE" /\ ~group.exported /\ group.members # {}

\* d has the groups of db that are not gone, as they were, and new ones.
Follows(db, d, gone) ==
    /\ db.next <= d.next
    /\ DOMAIN db.groups \ gone \subseteq DOMAIN d.groups
    /\ \A g \in DOMAIN d.groups : IF g \in DOMAIN db.groups
                                  THEN g \notin gone /\ d.groups[g] = db.groups[g]
                                  ELSE New(d.groups[g])

LEMMA AddsFollow ==
  ASSUME NEW db, NEW m, NEW d, NEW gone, NEW E, Database(db), Database(m),
         Follows(db, m, gone), Adds(m, d, E)
  PROVE  Follows(db, d, gone)
<1>1. /\ db.next \in Nat /\ m.next \in Nat /\ d.next \in Nat
      /\ DOMAIN db.groups \subseteq Nat /\ DOMAIN d.groups \subseteq Nat
  BY RowsTyped DEF Adds, Database
<1>2. \A g \in DOMAIN d.groups \ DOMAIN m.groups : g \notin DOMAIN db.groups
  BY <1>1 DEF Adds, Database, Follows
<1>3. \A g \in DOMAIN d.groups \ DOMAIN m.groups : New(d.groups[g]) BY DEF Adds, New
<1>4. \A g \in DOMAIN m.groups : g \in DOMAIN d.groups /\ d.groups[g] = m.groups[g] BY DEF Adds
<1>5. db.next <= d.next BY <1>1 DEF Follows, Adds
<1> QED BY <1>2, <1>3, <1>4, <1>5 DEF Follows

LEMMA ReplaceFollows ==
  ASSUME LifecycleAssumption, NEW db, Database(db), NEW p, p.affected \in SUBSET Expenses,
         \/ Funds \subseteq Configured
         \/ \A e \in p.affected : /\ e \notin db.skipped
                                  /\ \A g \in DOMAIN db.groups :
                                        e \in db.groups[g].members => g \in p.found
  PROVE  Follows(db, Replace(db, p), {g \in p.found : MayDelete(g)})
<1> DEFINE gone == {g \in p.found : MayDelete(g)}
<1> DEFINE w == Without(db, gone)
<1>1. /\ Database(w) /\ w.next = db.next /\ DOMAIN w.groups = DOMAIN db.groups \ gone
      /\ w.fund = db.fund
      /\ \A g \in DOMAIN w.groups : w.groups[g] = db.groups[g]
  BY WithoutDb
<1>2. Follows(db, w, gone) BY <1>1 DEF Follows, Database
<1>3. CASE \A e \in p.affected : /\ e \notin db.skipped
                                 /\ \A g \in DOMAIN db.groups :
                                       e \in db.groups[g].members => g \in p.found
  <2>1. Adds(w, Replace(db, p), p.affected) BY <1>3, ReplaceDb
  <2> HIDE DEF gone, w
  <2>2. Follows(db, Replace(db, p), gone) BY <1>1, <1>2, <2>1, AddsFollow
  <2> QED BY <2>2 DEF gone
<1>4. CASE Funds \subseteq Configured
  <2> DEFINE here == {e \in p.affected :
                         /\ w.fund[e] # "none"
                         /\ InGroup(w, e) => \E g \in DOMAIN w.groups :
                               e \in w.groups[g].members /\ ~w.groups[g].exported}
  <2> DEFINE kept == {e \in here : w.fund[e] \in Configured}
  <2>1. here \ kept = {} BY <1>1, <1>4 DEF Database
  <2>2. Recreate(w, p.affected) =
           CreateGroups(Skip(DeleteExpenses(w, here \ kept), kept \cap Filtered), kept \ Filtered)
    BY DEF Recreate
  <2>3. kept \cap Filtered \in SUBSET Expenses /\ kept \ Filtered \in SUBSET Expenses OBVIOUS
  <2>4. Replace(db, p) \in {w, Recreate(w, p.affected)} BY DEF Replace
  <2> HIDE DEF here, kept, w, gone
  <2> DEFINE m == DeleteExpenses(w, {})
  <2>5. /\ Database(m) /\ m.next = w.next /\ DOMAIN m.groups = DOMAIN w.groups
        /\ \A g \in DOMAIN w.groups : m.groups[g] = w.groups[g]
    BY <1>1, DeleteDb
  <2> HIDE DEF m
  <2> DEFINE n == Skip(m, kept \cap Filtered)
  <2>6. Database(n) /\ n.next = m.next /\ n.groups = m.groups BY <2>3, <2>5, SkipDb
  <2> HIDE DEF n
  <2>7. Adds(n, CreateGroups(n, kept \ Filtered), kept \ Filtered) BY <2>3, <2>6, CreateDb
  <2>8. Follows(db, n, gone) BY <1>2, <2>5, <2>6 DEF Follows
  <2>9. Follows(db, CreateGroups(n, kept \ Filtered), gone) BY <2>6, <2>7, <2>8, AddsFollow
  <2>10. Recreate(w, p.affected) = CreateGroups(n, kept \ Filtered) BY <2>1, <2>2 DEF m, n
  <2>11. Follows(db, Replace(db, p), gone) BY <1>2, <2>4, <2>9, <2>10
  <2> QED BY <2>11 DEF gone
<1> QED BY <1>3, <1>4

\* With every fund source configured, or expenses in one group each, a transaction
\* deletes only groups that are not in flight and leaves the others alone.
LEMMA Transacts ==
  ASSUME LifecycleAssumption, Typed, Funds \subseteq Configured \/ Orderly, NEW h \in Procs,
         Process(h) \/ ImportReplacing(h) \/ Gather(h)
  PROVE  /\ \A g \in Live : g \in Live' \/ (g \in proc[h].found /\ MayDelete(g))
         /\ \A g \in Live' : IF g \in Live THEN groups'[g] = groups[g] ELSE New(groups'[g])
<1> DEFINE p == proc[h]
<1> DEFINE gone == {g \in p.found : MayDelete(g)}
<1>1. /\ Database(Db) /\ Db.skipped = skipped /\ Db.groups = groups /\ Db.next = nextId
      /\ fyle \in [Expenses -> Funds]
      /\ p.affected \in SUBSET Expenses /\ p.ids \in SUBSET Expenses
  BY DbTyped DEF Typed, TypeOK, Handler
<1>2. p.pc = "process" =>
        \/ Funds \subseteq Configured
        \/ \A e \in p.affected : /\ e \notin skipped
                                 /\ \A g \in DOMAIN groups : e \in groups[g].members => g \in p.found
  BY DEF Orderly, HandlerOwns, Live
<1>3. ASSUME NEW d, Apply(d), Follows(Db, d, gone) \/ Follows(Db, d, {})
      PROVE  /\ \A g \in Live : g \in Live' \/ g \in gone
             /\ \A g \in Live' : IF g \in Live THEN groups'[g] = groups[g] ELSE New(groups'[g])
  BY <1>1, <1>3 DEF Follows, Apply, Live
<1> HIDE DEF gone
<1>4. CASE Process(h)
  <2>1. Apply(Replace(Db, p)) /\ p.pc = "process" BY <1>4 DEF Process
  <2>2. Follows(Db, Replace(Db, p), gone) BY <1>1, <1>2, <2>1, ReplaceFollows DEF gone
  <2> QED BY <1>3, <2>1, <2>2 DEF gone
<1>5. CASE ImportReplacing(h)
  <2> DEFINE E   == Asked("approved")
  <2> DEFINE sav == Saved(Db, p.ids)
  <2> DEFINE mid == Saved(Replace(sav, p), E)
  <2> DEFINE new == Grouped(mid, Ungrouped(mid, E))
  <2>1. Apply(new) /\ p.pc = "process" BY <1>5 DEF ImportReplacing
  <2>2. Database(sav) /\ sav.skipped = skipped /\ sav.groups = groups /\ sav.next = nextId
    BY <1>1, SavedDb
  <2> HIDE DEF sav
  <2>3. Database(Replace(sav, p)) /\ Follows(sav, Replace(sav, p), gone)
    BY <1>1, <1>2, <2>1, <2>2, ReplaceTyped, ReplaceFollows DEF gone
  <2>4. E \in SUBSET Expenses BY DEF Asked
  <2>5. Database(mid) /\ Follows(sav, mid, gone) BY <1>1, <2>3, <2>4, SavedDb DEF Follows
  <2> HIDE DEF mid, E
  <2>6. Ungrouped(mid, E) \in SUBSET Expenses BY <2>4 DEF Ungrouped
  <2>7. Adds(mid, new, Ungrouped(mid, E)) BY <2>5, <2>6, GroupedDb
  <2> HIDE DEF new
  <2>8. Follows(sav, new, gone) BY <2>2, <2>5, <2>7, AddsFollow
  <2>9. Follows(Db, new, gone) BY <1>1, <2>2, <2>8 DEF Follows
  <2> QED BY <1>3, <2>1, <2>9 DEF gone
<1>6. CASE Gather(h)
  <2> DEFINE sav == Saved(Db, p.ids)
  <2>1. Apply(Grouped(sav, p.affected)) BY <1>6 DEF Gather
  <2>2. Database(sav) /\ sav.groups = groups /\ sav.next = nextId BY <1>1, SavedDb
  <2> HIDE DEF sav
  <2>3. Adds(sav, Grouped(sav, p.affected), p.affected) BY <1>1, <2>2, GroupedDb
  <2>4. Follows(Db, sav, {}) BY <1>1, <2>2 DEF Follows, Database
  <2>5. Follows(Db, Grouped(sav, p.affected), {}) BY <1>1, <2>2, <2>3, <2>4, AddsFollow
  <2> QED BY <1>3, <2>1, <2>5 DEF gone
<1> QED BY <1>4, <1>5, <1>6
-----------------------------------------------------------------------------
(* Groups with expenses.                                                   *)

\* An expense that is ejected leaves a group that keeps others, or that is deleted.
Ejecting == \A h \in Procs :
    /\ proc[h].pc = "eject" => proc[h].found = {proc[h].current}
    /\ proc[h].pc = "ejected" => \A g \in Live :
          g = proc[h].current /\ groups[g].members \subseteq proc[h].ids => g \in proc[h].found

Filled == Orderly /\ Ejecting /\ NoEmptyGroup

LEMMA FilledKept ==
  ASSUME OneProcess, Filled, Orderly', NEW h \in Procs, NEW r, Set(h, r),
         r.pc \notin {"eject", "ejected"}, \A g \in Live' : groups'[g].members # {}
  PROVE  Filled'
<1>1. proc'[h] = r BY SetTyped DEF Filled, Orderly, Typed, TypeOK
<1>2. Ejecting' BY <1>1 DEF Ejecting, OneProcess
<1> QED BY <1>2 DEF Filled, NoEmptyGroup

LEMMA FilledFyle ==
  ASSUME LifecycleAssumption, Filled, Orderly',
         \/ \E e \in Expenses : Change(e)
         \/ \E g \in Live : Enqueue(g) \/ Claim(g) \/ Succeed(g) \/ Fail(g)
         \/ UNCHANGED vars
  PROVE  Filled'
<1>1. ASSUME proc' = proc, Live' = Live, \A g \in Live : groups'[g].members = groups[g].members
      PROVE  Filled'
  BY <1>1 DEF Filled, Ejecting, NoEmptyGroup
<1>2. ASSUME NEW e \in Expenses, Change(e) PROVE Filled' BY <1>1, <1>2 DEF Change, Live
<1>3. ASSUME NEW g \in Live, NEW from, NEW to \in Status, Log(g, from, to) PROVE Filled'
  <2>1. \A k \in Live : groups[k] \in Group BY DEF Filled, Orderly, Typed, TypeOK
  <2>2. Live' = Live /\ \A k \in Live : groups'[k].members = groups[k].members
    BY <1>3, <2>1 DEF Log, Live, Group
  <2> QED BY <1>1, <1>3, <2>2 DEF Log
<1>4. CASE UNCHANGED vars BY <1>1, <1>4 DEF vars, Live
<1> QED BY <1>2, <1>3, <1>4 DEF Enqueue, Claim, Succeed, Fail, Status

\* The steps that leave the groups alone.
LEMMA FilledFinds ==
  ASSUME LifecycleAssumption, OneProcess, Filled, Orderly', NEW h \in Procs,
         \/ \E e \in Expenses : Update(h, e) \/ Eject(h, e)
         \/ \E s \in schedules : Retry(h, s)
         \/ Find(h) \/ Abort(h)
         \/ \E kind \in Imports : Import(h, kind)
         \/ \E E \in SUBSET Expenses : Fetch(h, E)
         \/ EjectCheck(h) \/ Added(h)
         \/ \E g \in proc[h].found : CheckGroup(h, g)
  PROVE  Filled'
<1> DEFINE p == proc[h]
<1>1. Idle.pc = "idle" /\ Idle \in Handler /\ p \in Handler /\ proc \in [Procs -> Handler]
  BY IdleTyped DEF Idle, Filled, Orderly, Typed, TypeOK
<1>2. ASSUME NEW r, Set(h, r), r.pc \notin {"eject", "ejected"}, groups' = groups PROVE Filled'
  BY <1>2, FilledKept DEF Filled, NoEmptyGroup, Live
<1> HIDE DEF Idle
<1>3. ASSUME NEW e \in Expenses, Update(h, e) PROVE Filled'
  <2> DEFINE r == [Idle EXCEPT !.pc = "find", !.kind = "webhook", !.ids = {e},
                               !.old = [f \in {fund[e]} |-> {e}]]
  <2>1. r.pc = "find" BY <1>1 DEF Handler
  <2> QED BY <1>2, <1>3, <2>1 DEF Update
<1>4. ASSUME NEW e \in Expenses, Eject(h, e) PROVE Filled'
  <2>1. PICK g \in Live :
          Set(h, [Idle EXCEPT !.pc = "eject", !.found = {g}, !.ids = {e}, !.current = g])
    BY <1>4 DEF Eject
  <2> DEFINE r == [Idle EXCEPT !.pc = "eject", !.found = {g}, !.ids = {e}, !.current = g]
  <2>2. r.pc = "eject" /\ r.found = {g} /\ r.current = g BY <1>1 DEF Handler
  <2> HIDE DEF r
  <2>3. proc'[h] = r BY <1>1, <2>1, SetTyped DEF r
  <2>4. Ejecting' BY <2>2, <2>3 DEF Ejecting, OneProcess
  <2> QED BY <1>4, <2>4 DEF Eject, Filled, NoEmptyGroup, Live
<1>5. ASSUME NEW s \in schedules, Retry(h, s) PROVE Filled'
  <2> DEFINE r == [Idle EXCEPT !.pc = "find", !.kind = "retry", !.ids = s.ids, !.old = s.old]
  <2>1. r.pc = "find" BY <1>1 DEF Handler
  <2> QED BY <1>2, <1>5, <2>1 DEF Retry
<1>6. CASE Find(h)
  <2> DEFINE found == Affected(p.ids, p.old)
  <2> DEFINE affected == UNION {groups[g].members : g \in found}
  <2> HIDE DEF found, affected
  <2>1. /\ [p EXCEPT !.pc = "process", !.found = found, !.affected = affected].pc = "process"
        /\ [p EXCEPT !.pc = "fetch"].pc = "fetch"
    BY <1>1 DEF Handler
  <2>2. PICK r \in {[p EXCEPT !.pc = "process", !.found = found, !.affected = affected],
                    [p EXCEPT !.pc = "fetch"], Idle} : Set(h, r)
    BY <1>6 DEF Find, found, affected
  <2>3. r.pc \in {"process", "fetch", "idle"} BY <1>1, <2>1, <2>2
  <2> QED BY <1>2, <1>6, <2>2, <2>3 DEF Find
<1>7. CASE Abort(h)
  <2>1. [p EXCEPT !.pc = "fetch"].pc = "fetch" BY <1>1 DEF Handler
  <2>2. PICK r \in {Idle, [p EXCEPT !.pc = "fetch"]} : Set(h, r) BY <1>7 DEF Abort
  <2>3. r.pc \in {"idle", "fetch"} BY <1>1, <2>1, <2>2
  <2> QED BY <1>2, <1>7, <2>2, <2>3 DEF Abort
<1>8. ASSUME NEW kind \in Imports, Import(h, kind) PROVE Filled'
  <2> DEFINE changed == {e \in Expenses : fund[e] \notin {"none", fyle[e]}}
  <2> DEFINE q == [Idle EXCEPT !.pc = "find", !.kind = kind, !.ids = changed,
                               !.old = [f \in Funds |-> {e \in changed : fund[e] = f}]]
  <2> DEFINE w == [Idle EXCEPT !.pc = "fetch", !.kind = kind]
  <2>1. q.pc = "find" /\ w.pc = "fetch" BY <1>1 DEF Handler
  <2>2. Set(h, q) \/ Set(h, w) BY <1>8 DEF Import
  <2> HIDE DEF q, w
  <2>3. PICK r \in {q, w} : Set(h, r) BY <2>2
  <2>4. r.pc \in {"find", "fetch"} BY <2>1, <2>3
  <2> QED BY <1>2, <1>8, <2>3, <2>4 DEF Import
<1>9. ASSUME NEW E \in SUBSET Expenses, Fetch(h, E) PROVE Filled'
  <2> DEFINE r == [p EXCEPT !.pc = "gather", !.ids = E, !.affected = Ungrouped(Db, E)]
  <2>1. r.pc = "gather" BY <1>1 DEF Handler
  <2> QED BY <1>2, <1>9, <2>1 DEF Fetch
<1>10. CASE EjectCheck(h)
  <2> DEFINE found == {g \in p.found \cap Live : groups[g].members \subseteq p.ids}
  <2> DEFINE r == [p EXCEPT !.pc = "ejected", !.found = found]
  <2>1. p.found = {p.current} /\ Set(h, r) /\ groups' = groups
    BY <1>10 DEF EjectCheck, Filled, Ejecting
  <2>2. \A g \in Live : g = p.current /\ groups[g].members \subseteq p.ids => g \in found
    BY <2>1
  <2> HIDE DEF found
  <2>3. r.pc = "ejected" /\ r.found = found /\ r.current = p.current /\ r.ids = p.ids
    BY <1>1 DEF Handler
  <2> HIDE DEF r
  <2>4. proc'[h] = r BY <1>1, <2>1, SetTyped
  <2>5. Ejecting' BY <2>1, <2>2, <2>3, <2>4 DEF Ejecting, OneProcess, Live
  <2> QED BY <2>1, <2>5 DEF Filled, NoEmptyGroup, Live
<1>11. CASE Added(h)
  <2> DEFINE found == {g \in Live : ~groups[g].exported /\ groups[g].members # {}}
  <2> DEFINE r == [Idle EXCEPT !.pc = "added", !.found = found]
  <2>1. r.pc = "added" BY <1>1 DEF Handler
  <2> QED BY <1>2, <1>11, <2>1 DEF Added
<1>12. ASSUME NEW g \in p.found, CheckGroup(h, g) PROVE Filled'
  <2>1. /\ [p EXCEPT !.found = @ \ {g}].pc = p.pc
        /\ [p EXCEPT !.pc = "delete", !.current = g].pc = "delete"
    BY <1>1 DEF Handler
  <2>2. PICK r \in {Idle, [p EXCEPT !.found = @ \ {g}],
                    [p EXCEPT !.pc = "delete", !.current = g]} : Set(h, r)
    BY <1>12 DEF CheckGroup
  <2>3. r.pc \in {"idle", "added", "delete"} BY <1>1, <1>12, <2>1, <2>2 DEF CheckGroup
  <2> QED BY <1>2, <1>12, <2>2, <2>3 DEF CheckGroup
<1> QED BY <1>3, <1>4, <1>5, <1>6, <1>7, <1>8, <1>9, <1>10, <1>11, <1>12

\* The steps that write groups.
LEMMA FilledWrites ==
  ASSUME LifecycleAssumption, OneProcess, Filled, Orderly', NEW h \in Procs,
         Process(h) \/ Gather(h) \/ ImportReplacing(h) \/ Ejected(h) \/ DeleteGroup(h)
  PROVE  Filled'
<1> DEFINE p == proc[h]
<1>1. /\ Idle.pc = "idle" /\ p \in Handler /\ groups \in [Live -> Group]
      /\ Database(Db) /\ Db.groups = groups
  BY IdleTyped, DbTyped DEF Idle, Filled, Orderly, Typed, TypeOK
<1>2. CASE Process(h) \/ Gather(h) \/ ImportReplacing(h)
  <2>1. \A g \in Live' : IF g \in Live THEN groups'[g] = groups[g] ELSE New(groups'[g])
    BY <1>2, Transacts DEF Filled, Orderly
  <2>2. \A g \in Live' : groups'[g].members # {} BY <2>1 DEF New, Filled, NoEmptyGroup
  <2>3. Set(h, Idle) BY <1>2 DEF Process, Gather, ImportReplacing
  <2> QED BY <1>1, <2>2, <2>3, FilledKept
<1>3. CASE Ejected(h)
  <2> DEFINE cut == Cut(p.current, p.ids)
  <2>1. /\ Database(cut) /\ DOMAIN cut.groups = Live
        /\ \A g \in Live : cut.groups[g] = IF g = p.current THEN Less(groups[g], p.ids) ELSE groups[g]
    BY CutDb DEF Filled, Orderly
  <2>2. Apply(Without(cut, p.found)) /\ Set(h, Idle) /\ p.pc = "ejected" BY <1>3 DEF Ejected, Cut
  <2> HIDE DEF cut
  <2>3. \A g \in Live' : g \in Live /\ g \notin p.found /\ groups'[g] = cut.groups[g]
    BY <2>1, <2>2, WithoutDb DEF Apply, Live
  <2>4. ASSUME NEW g \in Live' PROVE groups'[g].members # {}
    <3>1. CASE g # p.current BY <2>1, <2>3, <3>1 DEF Filled, NoEmptyGroup
    <3>2. CASE g = p.current
      <4>1. ~(groups[g].members \subseteq p.ids) BY <2>2, <2>3, <3>2 DEF Filled, Ejecting
      <4>2. groups'[g].members = groups[g].members \ p.ids BY <1>1, <2>1, <2>3, <3>2, LessTyped
      <4> QED BY <4>1, <4>2
    <3> QED BY <3>1, <3>2
  <2> QED BY <1>1, <2>2, <2>4, FilledKept
<1>4. CASE DeleteGroup(h)
  <2>1. Apply(Without(Db, {p.current})) BY <1>4 DEF DeleteGroup
  <2>2. \A g \in Live' : g \in Live /\ groups'[g] = groups[g]
    BY <1>1, <2>1, WithoutDb DEF Apply, Live
  <2>3. \A g \in Live' : groups'[g].members # {} BY <2>2 DEF Filled, NoEmptyGroup
  <2> DEFINE r == [p EXCEPT !.pc = "added", !.found = @ \ {p.current}, !.current = 0]
  <2>4. r.pc = "added" BY <1>1 DEF Handler
  <2>5. PICK q \in {Idle, r} : Set(h, q) BY <1>4 DEF DeleteGroup
  <2>6. q.pc \in {"idle", "added"} BY <1>1, <2>4, <2>5
  <2> HIDE DEF r
  <2> QED BY <2>3, <2>5, <2>6, FilledKept
<1> QED BY <1>2, <1>3, <1>4

\* In one process, a group always has an expense, whatever is ejected, deleted, grouped
\* again or skipped: the exports read the first expense of a group without a check.
THEOREM GroupsFilled ==
  ASSUME LifecycleAssumption, OneProcess
  PROVE  Spec => []NoEmptyGroup
<1>1. Init => Filled
  <2> SUFFICES ASSUME Init PROVE Filled OBVIOUS
  <2>1. Live = {} /\ \A h \in Procs : proc[h].pc = "idle" BY DEF Init, Live, Idle
  <2> QED BY <2>1, OrderlyInit DEF Filled, Ejecting, NoEmptyGroup
<1>2. Filled /\ [Next]_vars => Filled'
  <2> SUFFICES ASSUME Filled, [Next]_vars PROVE Filled' OBVIOUS
  <2>1. Orderly' BY OrderlyStep DEF Filled
  <2> QED BY <2>1, FilledFyle, FilledFinds, FilledWrites DEF Next
<1>3. Filled => NoEmptyGroup BY DEF Filled
<1> QED BY <1>1, <1>2, <1>3, PTL DEF Spec

\* What an export finds in a group, in one process: at least one expense, since it
\* reads the first, and none that was skipped meanwhile.
THEOREM GroupsFit ==
  ASSUME LifecycleAssumption, OneProcess
  PROVE  Spec => []MembersFit
<1>1. Spec => []NoEmptyGroup BY GroupsFilled
<1>2. Spec => []SkippedStaysOut BY SkippedStay
<1> QED BY <1>1, <1>2, PTL DEF MembersFit
-----------------------------------------------------------------------------
(* Groups that keep their rows.                                            *)

\* Either every fund source has a setting, so that no expense is deleted, or expenses
\* are in one group each.
Settled == Funds \subseteq Configured \/ OneProcess \/ FundsFixed

Ended == \A g \in Live : groups[g].exported <=> groups[g].log = "COMPLETE"

OffReport == \A h \in Procs : proc[h].pc \notin {"eject", "ejected", "added", "delete"}

Final == Typed /\ (Funds \subseteq Configured \/ Orderly) /\ Ended /\ OffReport

LEMMA FinalStep ==
  ASSUME LifecycleAssumption, Settled, Webhooks \subseteq {"update"}, Final, [Next]_vars
  PROVE  Final' /\ KeepsInFlight /\ KeepsExported
<1>1. Typed' /\ (Funds \subseteq Configured \/ Orderly')
  BY TypedStep, OrderlyStep DEF Final, Settled
<1>2. /\ Idle.pc = "idle" /\ Idle \in Handler /\ groups \in [Live -> Group]
      /\ proc \in [Procs -> Handler]
  BY IdleTyped DEF Idle, Final, Typed, TypeOK
<1> HIDE DEF Idle
<1>3. ASSUME groups' = groups PROVE Ended' /\ KeepsInFlight /\ KeepsExported
  BY <1>3 DEF Final, Ended, KeepsInFlight, KeepsExported, Live
<1>4. ASSUME NEW h \in Procs, NEW r, Set(h, r), r.pc \in {"idle", "find", "process", "fetch", "gather"}
      PROVE  OffReport'
  BY <1>2, <1>4, SetTyped DEF Final, OffReport
<1>5. CASE \/ \E e \in Expenses : Change(e)
           \/ UNCHANGED vars
  BY <1>1, <1>3, <1>5 DEF Change, vars, Final, OffReport
<1>6. ASSUME NEW g \in Live, NEW from \in SUBSET (Status \ {"COMPLETE"}), NEW to \in Status,
             Log(g, from, to)
      PROVE  Final' /\ KeepsInFlight /\ KeepsExported
  <2> DEFINE r == [groups[g] EXCEPT !.log = to, !.exported = (to = "COMPLETE")]
  <2>1. groups' = [groups EXCEPT ![g] = r] /\ groups[g].log # "COMPLETE" /\ proc' = proc
    BY <1>2, <1>6 DEF Log
  <2>2. r.members = groups[g].members /\ r.log = to /\ r.exported = (to = "COMPLETE")
    BY <1>2 DEF Group
  <2> HIDE DEF r
  <2>3. Live' = Live /\ groups'[g] = r /\ \A k \in Live : k # g => groups'[k] = groups[k]
    BY <1>2, <2>1 DEF Live
  <2>4. Ended' BY <2>2, <2>3 DEF Final, Ended
  <2>5. KeepsInFlight BY <2>2, <2>3 DEF KeepsInFlight, Live
  <2>6. KeepsExported BY <2>1, <2>3 DEF Final, Ended, KeepsExported, Live
  <2> QED BY <1>1, <2>1, <2>4, <2>5, <2>6 DEF Final, OffReport
<1>7. CASE \E g \in Live : Enqueue(g) \/ Claim(g) \/ Succeed(g) \/ Fail(g)
  <2>1. /\ {"NONE", "FAILED"} \in SUBSET (Status \ {"COMPLETE"})
        /\ {"ENQUEUED"} \in SUBSET (Status \ {"COMPLETE"})
        /\ {"IN_PROGRESS"} \in SUBSET (Status \ {"COMPLETE"})
        /\ {"ENQUEUED", "IN_PROGRESS"} \in SUBSET (Status \ {"COMPLETE"})
        /\ {"ENQUEUED", "IN_PROGRESS", "COMPLETE", "FAILED"} \subseteq Status
    BY DEF Status
  <2> QED BY <1>6, <1>7, <2>1 DEF Enqueue, Claim, Succeed, Fail
<1>8. ASSUME NEW h \in Procs, Process(h) \/ ImportReplacing(h) \/ Gather(h)
      PROVE  Final' /\ KeepsInFlight /\ KeepsExported
  <2>1. /\ \A g \in Live : g \in Live' \/ (g \in proc[h].found /\ MayDelete(g))
        /\ \A g \in Live' : IF g \in Live THEN groups'[g] = groups[g] ELSE New(groups'[g])
    BY <1>8, Transacts DEF Final
  <2>2. Ended' BY <2>1 DEF Final, Ended, New
  <2>3. \A g \in Live : MayDelete(g) => ~Active(g) /\ ~groups[g].exported
    BY DEF Final, Ended, MayDelete, Active, InFlight
  <2>4. KeepsInFlight BY <2>1, <2>3 DEF KeepsInFlight, Live
  <2>5. KeepsExported BY <2>1, <2>3 DEF KeepsExported, Live
  <2>6. Set(h, Idle) BY <1>8 DEF Process, ImportReplacing, Gather
  <2> QED BY <1>1, <1>2, <1>4, <2>2, <2>4, <2>5, <2>6 DEF Final
<1>9. ASSUME NEW h \in Procs, NEW r, Set(h, r), groups' = groups,
             r.pc \in {"idle", "find", "process", "fetch", "gather"}
      PROVE  Final' /\ KeepsInFlight /\ KeepsExported
  BY <1>1, <1>3, <1>4, <1>9 DEF Final
<1>10. ASSUME NEW h \in Procs, NEW e \in Expenses, Update(h, e)
       PROVE  Final' /\ KeepsInFlight /\ KeepsExported
  <2> DEFINE r == [Idle EXCEPT !.pc = "find", !.kind = "webhook", !.ids = {e},
                               !.old = [f \in {fund[e]} |-> {e}]]
  <2>1. r.pc = "find" BY <1>2 DEF Handler
  <2> QED BY <1>9, <1>10, <2>1 DEF Update
<1>11. ASSUME NEW h \in Procs, NEW s \in schedules, Retry(h, s)
       PROVE  Final' /\ KeepsInFlight /\ KeepsExported
  <2> DEFINE r == [Idle EXCEPT !.pc = "find", !.kind = "retry", !.ids = s.ids, !.old = s.old]
  <2>1. r.pc = "find" BY <1>2 DEF Handler
  <2> QED BY <1>9, <1>11, <2>1 DEF Retry
<1>12. ASSUME NEW h \in Procs, Find(h) PROVE Final' /\ KeepsInFlight /\ KeepsExported
  <2> DEFINE p == proc[h]
  <2> DEFINE found == Affected(p.ids, p.old)
  <2> DEFINE affected == UNION {groups[g].members : g \in found}
  <2> HIDE DEF found, affected
  <2>1. /\ [p EXCEPT !.pc = "process", !.found = found, !.affected = affected].pc = "process"
        /\ [p EXCEPT !.pc = "fetch"].pc = "fetch"
    BY <1>2 DEF Handler
  <2>2. PICK r \in {[p EXCEPT !.pc = "process", !.found = found, !.affected = affected],
                    [p EXCEPT !.pc = "fetch"], Idle} : Set(h, r)
    BY <1>12 DEF Find, found, affected
  <2>3. r.pc \in {"process", "fetch", "idle"} BY <1>2, <2>1, <2>2
  <2> QED BY <1>9, <1>12, <2>2, <2>3 DEF Find
<1>13. ASSUME NEW h \in Procs, Abort(h) PROVE Final' /\ KeepsInFlight /\ KeepsExported
  <2>1. [proc[h] EXCEPT !.pc = "fetch"].pc = "fetch" BY <1>2 DEF Handler
  <2>2. PICK r \in {Idle, [proc[h] EXCEPT !.pc = "fetch"]} : Set(h, r) BY <1>13 DEF Abort
  <2>3. r.pc \in {"idle", "fetch"} BY <1>2, <2>1, <2>2
  <2> QED BY <1>9, <1>13, <2>2, <2>3 DEF Abort
<1>14. ASSUME NEW h \in Procs, NEW kind \in Imports, Import(h, kind)
       PROVE  Final' /\ KeepsInFlight /\ KeepsExported
  <2> DEFINE changed == {e \in Expenses : fund[e] \notin {"none", fyle[e]}}
  <2> DEFINE q == [Idle EXCEPT !.pc = "find", !.kind = kind, !.ids = changed,
                               !.old = [f \in Funds |-> {e \in changed : fund[e] = f}]]
  <2> DEFINE w == [Idle EXCEPT !.pc = "fetch", !.kind = kind]
  <2>1. q.pc = "find" /\ w.pc = "fetch" BY <1>2 DEF Handler
  <2>2. Set(h, q) \/ Set(h, w) BY <1>14 DEF Import
  <2> HIDE DEF q, w
  <2>3. PICK r \in {q, w} : Set(h, r) BY <2>2
  <2>4. r.pc \in {"find", "fetch"} BY <2>1, <2>3
  <2> QED BY <1>9, <1>14, <2>3, <2>4 DEF Import
<1>15. ASSUME NEW h \in Procs, NEW E \in SUBSET Expenses, Fetch(h, E)
       PROVE  Final' /\ KeepsInFlight /\ KeepsExported
  <2> DEFINE r == [proc[h] EXCEPT !.pc = "gather", !.ids = E, !.affected = Ungrouped(Db, E)]
  <2>1. r.pc = "gather" BY <1>2 DEF Handler
  <2> QED BY <1>9, <1>15, <2>1 DEF Fetch
<1>16. ASSUME NEW h \in Procs
       PROVE  /\ ~Added(h) /\ ~EjectCheck(h) /\ ~Ejected(h) /\ ~DeleteGroup(h)
              /\ \A e \in Expenses : ~Eject(h, e)
              /\ \A g \in proc[h].found : ~CheckGroup(h, g)
  BY DEF Final, OffReport, Added, EjectCheck, Ejected, DeleteGroup, Eject, CheckGroup
<1> QED BY <1>5, <1>7, <1>8, <1>10, <1>11, <1>12, <1>13, <1>14, <1>15, <1>16 DEF Next

\* Webhooks that change fund sources and imports, in any number of processes, never take
\* a group from its export: one in flight keeps its row and its expenses and an exported
\* one is final, because a handler looks at the rows again under their locks.  When a
\* fund source has no setting, its expenses are deleted, and one process is assumed.
THEOREM ExportsKeepGroups ==
  ASSUME LifecycleAssumption, Settled, Webhooks \subseteq {"update"}
  PROVE  Spec => GroupsKept
<1>1. Init => Final
  <2> SUFFICES ASSUME Init PROVE Final OBVIOUS
  <2>1. Live = {} /\ \A h \in Procs : proc[h].pc = "idle" BY DEF Init, Live, Idle
  <2>2. Typed /\ (Funds \subseteq Configured \/ Orderly) BY TypedInit, OrderlyInit DEF Settled
  <2> QED BY <2>1, <2>2 DEF Final, Ended, OffReport
<1>2. Final /\ [Next]_vars => Final' BY FinalStep
<1>3. Final /\ [Next]_vars => [KeepsInFlight /\ KeepsExported]_vars BY FinalStep
<1> QED BY <1>1, <1>2, <1>3, PTL DEF Spec, GroupsKept
-----------------------------------------------------------------------------
(* Fund source changes that are not lost.                                  *)

\* One process, no change in Fyle and no fault while it works, and imports that
\* handle the changes that they find.
Careful == OneProcess /\ ~Overlap /\ MaxFaults = 0 /\ Imports \subseteq {"approved"}

Changed(e) == fund[e] \notin {"none", fyle[e]}
Fits(e)    == \A g \in Live :
    ~groups[g].exported /\ e \in groups[g].members => Waiting(e) \/ fund[e] = groups[g].fund
All(old)   == UNION {old[f] : f \in DOMAIN old}

Handling(r, e) == r.pc \in {"find", "process"} /\ r.kind # "approved" /\ e \in r.ids

\* What a handler has found, and an import has left, of the changed expenses.
Minds(r) ==
    /\ r.pc \in {"find", "process"} =>
          /\ r.ids \subseteq All(r.old)
          /\ r.kind = "approved" => r.ids = {e \in Expenses : Changed(e)}
    /\ \A g \in Live : ~groups[g].exported =>
          /\ r.pc = "process" /\ groups[g].members \cap r.ids # {} => g \in r.found
          /\ r.pc \in {"fetch", "gather"} => \A e \in groups[g].members : ~Changed(e)

NoChangeLost ==
    /\ \A s \in schedules : s.ids \subseteq All(s.old)
    /\ \A h \in Procs : Minds(proc[h])
    /\ \A e \in Expenses : Fits(e) \/ \E h \in Procs : Handling(proc[h], e)

Tended == Orderly /\ Ended /\ NoChangeLost

LEMMA AffectedCovers ==
  ASSUME NEW ids, NEW old, ids \subseteq All(old), NEW g \in Live, ~groups[g].exported,
         groups[g].members \cap ids # {}
  PROVE  g \in Affected(ids, old)
<1>1. \E f \in DOMAIN old : groups[g].members \cap old[f] # {} BY DEF All
<1> QED BY <1>1 DEF Affected

\* The expenses of groups keep their fund source, and the new groups have it.
LEMMA ReplaceFund ==
  ASSUME LifecycleAssumption, NEW db, Database(db), NEW p, p.affected \in SUBSET Expenses,
         \A e \in p.affected : /\ e \notin db.skipped
                               /\ \A g \in DOMAIN db.groups :
                                     e \in db.groups[g].members => g \in p.found
  PROVE  LET d == Replace(db, p) IN
         \A g \in DOMAIN d.groups : \A e \in d.groups[g].members :
            /\ d.fund[e] = db.fund[e]
            /\ g \notin DOMAIN db.groups => d.fund[e] = d.groups[g].fund
<1> DEFINE w == Without(db, {g \in p.found : MayDelete(g)})
<1> DEFINE d == Replace(db, p)
<1>1. /\ Database(w) /\ w.fund = db.fund /\ w.next = db.next
      /\ DOMAIN w.groups \subseteq DOMAIN db.groups
  BY WithoutDb
<1>2. /\ Adds(w, d, p.affected) /\ Matched(w, d)
      /\ \A e \in Expenses : d.fund[e] = w.fund[e] \/ (d.fund[e] = "none" /\ e \in p.affected)
      /\ d = w \/ \A e \in p.affected : ~InGroup(w, e)
  BY ReplaceDb
<1> HIDE DEF w, d
<1>3. \A g \in DOMAIN d.groups : d.groups[g] \in Group
  BY <1>2, RowsTyped DEF Adds, Database
<1>4. ASSUME NEW g \in DOMAIN d.groups, NEW e \in d.groups[g].members
      PROVE  /\ d.fund[e] = db.fund[e]
             /\ g \notin DOMAIN db.groups => d.fund[e] = d.groups[g].fund
  <2>1. CASE g \in DOMAIN w.groups
    <3>1. e \in w.groups[g].members BY <1>2, <2>1 DEF Adds
    <3>2. CASE d = w BY <1>1, <2>1, <3>2
    <3>3. CASE \A x \in p.affected : ~InGroup(w, x)
      <4>1. e \notin p.affected BY <2>1, <3>1, <3>3 DEF InGroup
      <4>2. e \in Expenses BY <1>3 DEF Group
      <4> QED BY <1>1, <1>2, <2>1, <4>1, <4>2
    <3> QED BY <1>2, <3>2, <3>3
  <2>2. CASE g \notin DOMAIN w.groups
    <3>1. d.fund[e] = d.groups[g].fund BY <1>2, <2>2 DEF Matched
    <3>2. d.groups[g].fund \in Funds /\ e \in Expenses BY <1>3 DEF Group
    <3>3. d.fund[e] # "none" BY <3>1, <3>2 DEF Funds
    <3> QED BY <1>1, <1>2, <3>1, <3>2, <3>3
  <2> QED BY <2>1, <2>2
<1> QED BY <1>4 DEF d

LEMMA EndedStep ==
  ASSUME LifecycleAssumption, Orderly, Ended, [Next]_vars
  PROVE  Ended'
<1>1. /\ groups \in [Live -> Group] /\ Database(Db) /\ Db.groups = groups
  BY DbTyped DEF Orderly, Typed, TypeOK
<1>2. ASSUME \A g \in Live' : g \in Live /\ groups'[g].log = groups[g].log
                                         /\ groups'[g].exported = groups[g].exported
      PROVE  Ended'
  BY <1>2 DEF Ended
<1>3. ASSUME NEW g \in Live, NEW from, NEW to \in Status, Log(g, from, to) PROVE Ended'
  <2> DEFINE r == [groups[g] EXCEPT !.log = to, !.exported = (to = "COMPLETE")]
  <2>1. groups' = [groups EXCEPT ![g] = r] BY <1>1, <1>3 DEF Log
  <2>2. r.log = to /\ r.exported = (to = "COMPLETE") BY <1>1 DEF Group
  <2> HIDE DEF r
  <2>3. Live' = Live /\ groups'[g] = r /\ \A k \in Live : k # g => groups'[k] = groups[k]
    BY <1>1, <2>1 DEF Live
  <2> QED BY <2>2, <2>3 DEF Ended
<1>4. CASE \E g \in Live : Enqueue(g) \/ Claim(g) \/ Succeed(g) \/ Fail(g)
  BY <1>3, <1>4 DEF Enqueue, Claim, Succeed, Fail, Status
<1>5. ASSUME NEW h \in Procs, Process(h) \/ ImportReplacing(h) \/ Gather(h) PROVE Ended'
  <2>1. \A g \in Live' : IF g \in Live THEN groups'[g] = groups[g] ELSE New(groups'[g])
    BY <1>5, Transacts DEF Orderly
  <2> QED BY <2>1 DEF Ended, New
<1>6. ASSUME NEW h \in Procs, Ejected(h) PROVE Ended'
  <2> DEFINE cut == Cut(proc[h].current, proc[h].ids)
  <2>1. /\ Database(cut) /\ DOMAIN cut.groups = Live
        /\ \A g \in Live : cut.groups[g] = IF g = proc[h].current
                                           THEN Less(groups[g], proc[h].ids) ELSE groups[g]
    BY CutDb DEF Orderly
  <2>2. Apply(Without(cut, proc[h].found)) BY <1>6 DEF Ejected, Cut
  <2> HIDE DEF cut
  <2>3. \A g \in Live' : g \in Live /\ groups'[g] = cut.groups[g]
    BY <2>1, <2>2, WithoutDb DEF Apply, Live
  <2> QED BY <1>1, <1>2, <2>1, <2>3, LessTyped
<1>7. ASSUME NEW h \in Procs, DeleteGroup(h) PROVE Ended'
  <2>1. Apply(Without(Db, {proc[h].current})) BY <1>7 DEF DeleteGroup
  <2>2. \A g \in Live' : g \in Live /\ groups'[g] = groups[g]
    BY <1>1, <2>1, WithoutDb DEF Apply, Live
  <2> QED BY <1>2, <2>2
<1>8. CASE groups' = groups BY <1>2, <1>8 DEF Live
<1> QED BY <1>4, <1>5, <1>6, <1>7, <1>8
     DEF Next, vars, Change, Update, Eject, Retry, Find, Abort, Import, Fetch, EjectCheck,
         Added, CheckGroup

\* Steps that save no expense and group none.
LEMMA TendedKept ==
  ASSUME Careful, Tended, Orderly', Ended', NEW h \in Procs, NEW r, Set(h, r),
         UNCHANGED <<fyle, fund>>,
         \A s \in schedules' : s.ids \subseteq All(s.old),
         \A e \in Expenses : Waiting(e) => Waiting(e)',
         \A g \in Live' : ~groups'[g].exported =>
            /\ g \in Live /\ ~groups[g].exported
            /\ groups'[g].fund = groups[g].fund /\ groups'[g].members \subseteq groups[g].members,
         \A e \in Expenses : Fits(e) \/ Handling(r, e),
         Minds(r)
  PROVE  Tended'
<1>1. proc'[h] = r /\ \A k \in Procs : k = h
  BY SetTyped DEF Careful, OneProcess, Tended, Orderly, Typed, TypeOK
<1>2. \A e : Changed(e)' <=> Changed(e) BY DEF Changed
<1>3. {e \in Expenses : Changed(e)}' = {e \in Expenses : Changed(e)} BY <1>2
<1>4. Minds(proc[h])'
  <2>1. r.pc \in {"find", "process"} =>
          /\ r.ids \subseteq All(r.old)
          /\ r.kind = "approved" => r.ids = {e \in Expenses : Changed(e)}'
    BY <1>3 DEF Minds
  <2>2. \A g \in Live' : ~groups'[g].exported =>
          /\ r.pc = "process" /\ groups'[g].members \cap r.ids # {} => g \in r.found
          /\ r.pc \in {"fetch", "gather"} => \A e \in groups'[g].members : ~Changed(e)'
    BY <1>2 DEF Minds
  <2> QED BY <1>1, <2>1, <2>2 DEF Minds, All
<1>5. ASSUME NEW e \in Expenses, Fits(e) PROVE Fits(e)'
  <2> SUFFICES ASSUME NEW g \in Live', ~groups'[g].exported, e \in groups'[g].members
               PROVE  Waiting(e)' \/ fund'[e] = groups'[g].fund
    BY DEF Fits
  <2> QED BY <1>5 DEF Fits
<1>6. \A e \in Expenses : Fits(e)' \/ Handling(proc[h], e)' BY <1>1, <1>5 DEF Handling
<1> QED BY <1>1, <1>4, <1>6 DEF Tended, NoChangeLost

LEMMA TendedFyle ==
  ASSUME LifecycleAssumption, Careful, Tended, Orderly', Ended',
         \/ \E e \in Expenses : Change(e)
         \/ \E g \in Live : Enqueue(g) \/ Claim(g) \/ Succeed(g) \/ Fail(g)
         \/ UNCHANGED vars
  PROVE  Tended'
<1>1. CASE UNCHANGED vars
  BY <1>1 DEF vars, Tended, NoChangeLost, Minds, Handling, Fits, Waiting, Changed, All, Live
<1>2. ASSUME NEW e \in Expenses, Change(e) PROVE Tended'
  <2>1. /\ \A h \in Procs : proc[h].pc = "idle"
        /\ UNCHANGED <<fund, groups, schedules, proc>>
    BY <1>2 DEF Change, Careful, AllIdle
  <2>2. \A x \in Expenses : Fits(x)' <=> Fits(x) BY <2>1 DEF Fits, Waiting, Live
  <2>3. \A h \in Procs : Minds(proc[h])' BY <2>1 DEF Minds
  <2>4. \A x \in Expenses : Fits(x)' BY <2>1, <2>2 DEF Tended, NoChangeLost, Handling
  <2> QED BY <2>1, <2>3, <2>4 DEF Tended, NoChangeLost, All
<1>3. ASSUME NEW g \in Live, NEW from \in SUBSET (Status \ {"COMPLETE"}), NEW to \in Status,
             Log(g, from, to)
      PROVE  Tended'
  <2> DEFINE r == [groups[g] EXCEPT !.log = to, !.exported = (to = "COMPLETE")]
  <2>1. groups \in [Live -> Group] BY DEF Tended, Orderly, Typed, TypeOK
  <2>2. /\ groups' = [groups EXCEPT ![g] = r] /\ groups[g].log # "COMPLETE"
        /\ UNCHANGED <<fyle, fund, schedules, proc>>
    BY <1>3, <2>1 DEF Log
  <2>3. r.members = groups[g].members /\ r.fund = groups[g].fund BY <2>1 DEF Group
  <2> HIDE DEF r
  <2>4. Live' = Live /\ groups'[g] = r /\ \A k \in Live : k # g => groups'[k] = groups[k]
    BY <2>1, <2>2 DEF Live
  <2>5. ~groups[g].exported BY <2>2 DEF Tended, Ended
  <2>6. \A k \in Live' : ~groups'[k].exported =>
           /\ k \in Live /\ ~groups[k].exported
           /\ groups'[k].fund = groups[k].fund /\ groups'[k].members = groups[k].members
    BY <2>3, <2>4, <2>5
  <2>7. \A e \in Expenses : Waiting(e)' <=> Waiting(e) BY <2>2 DEF Waiting
  <2>8. \A e \in Expenses : Fits(e) => Fits(e)'
    <3> SUFFICES ASSUME NEW e \in Expenses, Fits(e), NEW k \in Live', ~groups'[k].exported,
                        e \in groups'[k].members
                 PROVE  Waiting(e)' \/ fund'[e] = groups'[k].fund
      BY DEF Fits
    <3> QED BY <2>2, <2>6, <2>7 DEF Fits
  <2>9. \A h \in Procs : Minds(proc[h]) => Minds(proc[h])'
    <3>1. \A e : Changed(e)' <=> Changed(e) BY <2>2 DEF Changed
    <3> QED BY <2>2, <2>6, <3>1 DEF Minds, All
  <2>10. \A e \in Expenses : \A h \in Procs : Handling(proc[h], e) => Handling(proc[h], e)'
    BY <2>2 DEF Handling
  <2> QED BY <2>2, <2>8, <2>9, <2>10 DEF Tended, NoChangeLost, All
<1>4. CASE \E g \in Live : Enqueue(g) \/ Claim(g) \/ Succeed(g) \/ Fail(g)
  <2>1. /\ {"NONE", "FAILED"} \in SUBSET (Status \ {"COMPLETE"})
        /\ {"ENQUEUED"} \in SUBSET (Status \ {"COMPLETE"})
        /\ {"IN_PROGRESS"} \in SUBSET (Status \ {"COMPLETE"})
        /\ {"ENQUEUED", "IN_PROGRESS"} \in SUBSET (Status \ {"COMPLETE"})
        /\ {"ENQUEUED", "IN_PROGRESS", "COMPLETE", "FAILED"} \subseteq Status
    BY DEF Status
  <2> QED BY <1>3, <1>4, <2>1 DEF Enqueue, Claim, Succeed, Fail
<1> QED BY <1>1, <1>2, <1>4

\* A change that is saved has a handler.
LEMMA TendedUpdate ==
  ASSUME LifecycleAssumption, Careful, Tended, Orderly', Ended', NEW h \in Procs,
         NEW e \in Expenses, Update(h, e)
  PROVE  Tended'
<1> DEFINE r == [Idle EXCEPT !.pc = "find", !.kind = "webhook", !.ids = {e},
                             !.old = [f \in {fund[e]} |-> {e}]]
<1>1. /\ Idle \in Handler /\ proc \in [Procs -> Handler]
      /\ fund \in [Expenses -> Funds \cup {"none"}]
  BY IdleTyped DEF Tended, Orderly, Typed, TypeOK
<1>2. proc[h].pc = "idle" /\ UNCHANGED <<groups, schedules>> /\ fund' = [fund EXCEPT ![e] = fyle[e]]
      /\ Set(h, r)
  BY DEF Update
<1>3. r.pc = "find" /\ r.kind = "webhook" /\ r.ids = {e} /\ r.old = [f \in {fund[e]} |-> {e}]
  BY <1>1 DEF Handler
<1> HIDE DEF r
<1>4. proc'[h] = r /\ \A k \in Procs : k = h BY <1>1, <1>2, SetTyped DEF Careful, OneProcess
<1>5. \A x \in Expenses : x # e => Fits(x)'
  <2> SUFFICES ASSUME NEW x \in Expenses, x # e, NEW g \in Live', ~groups'[g].exported,
                      x \in groups'[g].members
               PROVE  Waiting(x)' \/ fund'[x] = groups'[g].fund
    BY DEF Fits
  <2>1. Fits(x) BY <1>2, <1>4 DEF Tended, NoChangeLost, Handling
  <2> QED BY <1>1, <1>2, <2>1 DEF Fits, Waiting, Live
<1>6. Handling(proc[h], e)' BY <1>3, <1>4 DEF Handling
<1>7. r.ids \subseteq All(r.old) BY <1>3 DEF All
<1>8. Minds(proc[h])' BY <1>3, <1>4, <1>7 DEF Minds, All
<1> QED BY <1>2, <1>4, <1>5, <1>6, <1>8 DEF Tended, NoChangeLost, All

LEMMA TendedFind ==
  ASSUME LifecycleAssumption, Careful, Tended, Orderly', Ended', NEW h \in Procs, Find(h)
  PROVE  Tended'
<1> DEFINE p == proc[h]
<1> DEFINE found == Affected(p.ids, p.old)
<1> DEFINE affected == UNION {groups[g].members : g \in found}
<1> DEFINE r == [p EXCEPT !.pc = "process", !.found = found, !.affected = affected]
<1> DEFINE q == [p EXCEPT !.pc = "fetch"]
<1>1. p \in Handler /\ Idle.pc = "idle" BY DEF Idle, Tended, Orderly, Typed, TypeOK
<1>2. p.pc = "find" /\ UNCHANGED <<fyle, fund, groups, schedules>> BY DEF Find
<1>3. /\ p.ids \subseteq All(p.old)
      /\ p.kind = "approved" => p.ids = {e \in Expenses : Changed(e)}
      /\ \A s \in schedules : s.ids \subseteq All(s.old)
      /\ \A e \in Expenses : Fits(e) \/ Handling(p, e)
  BY <1>2 DEF Tended, NoChangeLost, Minds, Careful, OneProcess
<1>4. \A g \in Live : ~groups[g].exported /\ groups[g].members \cap p.ids # {} => g \in found
  BY <1>3, AffectedCovers
<1>5. \/ found # {} /\ Set(h, r)
      \/ found = {} /\ p.kind = "approved" /\ Set(h, q)
      \/ found = {} /\ p.kind # "approved" /\ Set(h, Idle)
  BY DEF Find
<1> HIDE DEF found, affected
<1>6. /\ r.pc = "process" /\ r.found = found /\ r.ids = p.ids /\ r.old = p.old /\ r.kind = p.kind
      /\ q.pc = "fetch"
  BY <1>1 DEF Handler
<1> HIDE DEF p, r, q, Idle
<1>7. ASSUME NEW x, Set(h, x), Minds(x), \A e \in Expenses : Fits(e) \/ Handling(x, e)
      PROVE  Tended'
  BY <1>2, <1>3, <1>7, TendedKept DEF Live, Waiting
<1>8. CASE found # {} /\ Set(h, r)
  <2>1. Minds(r) BY <1>3, <1>4, <1>6 DEF Minds
  <2>2. \A e \in Expenses : Fits(e) \/ Handling(r, e) BY <1>3, <1>6 DEF Handling
  <2> QED BY <1>7, <1>8, <2>1, <2>2
<1>9. ASSUME found = {} PROVE \A e \in Expenses : Fits(e)
  <2>1. \A e \in p.ids : Fits(e) BY <1>4, <1>9 DEF Fits
  <2> QED BY <1>3, <2>1 DEF Handling
<1>10. CASE found = {} /\ p.kind = "approved" /\ Set(h, q)
  <2>1. \A g \in Live : ~groups[g].exported => \A e \in groups[g].members : ~Changed(e)
    <3>1. \A g \in Live : groups[g].members \subseteq Expenses
      BY DEF Tended, Orderly, Typed, TypeOK, Group
    <3> QED BY <1>3, <1>4, <1>10, <3>1
  <2>2. Minds(q) BY <1>6, <2>1 DEF Minds
  <2> QED BY <1>7, <1>9, <1>10, <2>2
<1>11. CASE found = {} /\ Set(h, Idle)
  <2>1. Minds(Idle) BY <1>1 DEF Minds
  <2> QED BY <1>7, <1>9, <1>11, <2>1
<1> QED BY <1>5, <1>8, <1>10, <1>11

\* The other steps that leave the groups alone.
LEMMA TendedFinds ==
  ASSUME LifecycleAssumption, Careful, Tended, Orderly', Ended', NEW h \in Procs,
         \/ \E e \in Expenses : Eject(h, e)
         \/ \E s \in schedules : Retry(h, s)
         \/ Abort(h)
         \/ \E kind \in Imports : Import(h, kind)
         \/ \E E \in SUBSET Expenses : Fetch(h, E)
         \/ EjectCheck(h) \/ Added(h)
         \/ \E g \in proc[h].found : CheckGroup(h, g)
  PROVE  Tended'
<1> DEFINE p == proc[h]
<1>1. Idle.pc = "idle" /\ Idle \in Handler /\ p \in Handler
  BY IdleTyped DEF Idle, Tended, Orderly, Typed, TypeOK
<1>2. /\ \A s \in schedules : s.ids \subseteq All(s.old)
      /\ Minds(p)
      /\ \A e \in Expenses : Fits(e) \/ Handling(p, e)
  BY DEF Tended, NoChangeLost, Careful, OneProcess
<1>3. ASSUME NEW r, Set(h, r), UNCHANGED <<fyle, fund, groups>>, Minds(r),
             p.pc \notin {"find", "process"},
             \A s \in schedules' : s.ids \subseteq All(s.old),
             \A e \in Expenses : Waiting(e) => Waiting(e)'
      PROVE  Tended'
  <2>1. \A e \in Expenses : Fits(e) BY <1>2, <1>3 DEF Handling
  <2> HIDE DEF p
  <2> QED BY <1>3, <2>1, TendedKept DEF Live
<1>4. ASSUME NEW r, Set(h, r), UNCHANGED <<fyle, fund, groups, schedules>>, Minds(r),
             p.pc \notin {"find", "process"}
      PROVE  Tended'
  BY <1>2, <1>3, <1>4 DEF Waiting
<1>5. ASSUME NEW r, r.pc \notin {"find", "process", "fetch", "gather"} PROVE Minds(r)
  BY <1>5 DEF Minds
<1> HIDE DEF Idle
<1>6. ASSUME NEW e \in Expenses, Eject(h, e) PROVE Tended'
  <2>1. PICK g \in Live :
          Set(h, [Idle EXCEPT !.pc = "eject", !.found = {g}, !.ids = {e}, !.current = g])
    BY <1>6 DEF Eject
  <2> DEFINE r == [Idle EXCEPT !.pc = "eject", !.found = {g}, !.ids = {e}, !.current = g]
  <2>2. r.pc = "eject" BY <1>1 DEF Handler
  <2>3. p.pc = "idle" /\ UNCHANGED <<fyle, fund, groups, schedules>> BY <1>6 DEF Eject
  <2> HIDE DEF r
  <2>4. Minds(r) BY <1>5, <2>2
  <2> QED BY <1>4, <2>1, <2>3, <2>4 DEF r
<1>7. ASSUME NEW s \in schedules, Retry(h, s) PROVE Tended'
  <2> DEFINE r == [Idle EXCEPT !.pc = "find", !.kind = "retry", !.ids = s.ids, !.old = s.old]
  <2> DEFINE t == [s EXCEPT !.repeats = @ - 1]
  <2>1. s \in Schedule BY DEF Tended, Orderly, Typed, TypeOK
  <2>2. t.ids = s.ids /\ t.old = s.old BY <2>1 DEF Schedule
  <2>3. /\ p.pc = "idle" /\ UNCHANGED <<fyle, fund, groups>> /\ Set(h, r)
        /\ schedules' = (schedules \ {s}) \cup {t}
    BY <1>7 DEF Retry
  <2>4. r.pc = "find" /\ r.kind = "retry" /\ r.ids = s.ids /\ r.old = s.old BY <1>1 DEF Handler
  <2> HIDE DEF r, t
  <2>5. Minds(r) BY <1>2, <2>4 DEF Minds
  <2>6. \A x \in schedules' : x.ids \subseteq All(x.old) BY <1>2, <2>2, <2>3
  <2>7. \A e \in Expenses : Waiting(e) => Waiting(e)' BY <2>2, <2>3 DEF Waiting
  <2> QED BY <1>3, <2>3, <2>5, <2>6, <2>7
<1>8. ~Abort(h)
  <2>1. faults = 0 /\ MaxFaults = 0 BY DEF Careful, Tended, Orderly, Typed, TypeOK
  <2> QED BY <2>1 DEF Abort
<1>9. ASSUME NEW kind \in Imports, Import(h, kind) PROVE Tended'
  <2> DEFINE changed == {e \in Expenses : fund[e] \notin {"none", fyle[e]}}
  <2> DEFINE old == [f \in Funds |-> {e \in changed : fund[e] = f}]
  <2> DEFINE q == [Idle EXCEPT !.pc = "find", !.kind = kind, !.ids = changed, !.old = old]
  <2> DEFINE w == [Idle EXCEPT !.pc = "fetch", !.kind = kind]
  <2>1. kind = "approved" BY DEF Careful
  <2>2. \/ changed # {} /\ Set(h, q)
        \/ changed = {} /\ Set(h, w)
    BY <1>9, <2>1 DEF Import
  <2>3. p.pc = "idle" /\ UNCHANGED <<fyle, fund, groups, schedules>> BY <1>9 DEF Import
  <2>4. changed = {e \in Expenses : Changed(e)} BY DEF Changed
  <2>5. changed \subseteq All(old)
    <3>1. \A e \in changed : fund[e] \in Funds BY DEF Tended, Orderly, Typed, TypeOK
    <3> QED BY <3>1 DEF All
  <2> HIDE DEF changed, old
  <2>6. q.pc = "find" /\ q.ids = changed /\ q.old = old /\ w.pc = "fetch" BY <1>1 DEF Handler
  <2> HIDE DEF q, w
  <2>7. Minds(q) BY <2>4, <2>5, <2>6 DEF Minds
  <2>8. ASSUME changed = {} PROVE Minds(w)
    <3>1. \A g \in Live : groups[g].members \subseteq Expenses
      BY DEF Tended, Orderly, Typed, TypeOK, Group
    <3> QED BY <2>4, <2>6, <2>8, <3>1 DEF Minds
  <2> QED BY <1>4, <2>2, <2>3, <2>7, <2>8
<1>10. ASSUME NEW E \in SUBSET Expenses, Fetch(h, E) PROVE Tended'
  <2> DEFINE r == [p EXCEPT !.pc = "gather", !.ids = E, !.affected = Ungrouped(Db, E)]
  <2>1. r.pc = "gather" BY <1>1 DEF Handler
  <2>2. p.pc = "fetch" /\ Set(h, r) /\ UNCHANGED <<fyle, fund, groups, schedules>>
    BY <1>10 DEF Fetch
  <2> HIDE DEF r
  <2>3. Minds(r) BY <1>2, <2>1, <2>2 DEF Minds
  <2> QED BY <1>4, <2>2, <2>3
<1>11. CASE EjectCheck(h)
  <2> DEFINE r == [p EXCEPT !.pc = "ejected",
                            !.found = {g \in p.found \cap Live : groups[g].members \subseteq p.ids}]
  <2>1. r.pc = "ejected" BY <1>1 DEF Handler
  <2>2. p.pc = "eject" /\ Set(h, r) /\ UNCHANGED <<fyle, fund, groups, schedules>>
    BY <1>11 DEF EjectCheck
  <2> HIDE DEF r
  <2> QED BY <1>4, <1>5, <2>1, <2>2
<1>12. CASE Added(h)
  <2> DEFINE found == {g \in Live : ~groups[g].exported /\ groups[g].members # {}}
  <2> DEFINE r == [Idle EXCEPT !.pc = "added", !.found = found]
  <2>1. r.pc = "added" BY <1>1 DEF Handler
  <2>2. p.pc = "idle" /\ Set(h, r) /\ UNCHANGED <<fyle, fund, groups, schedules>>
    BY <1>12 DEF Added
  <2> HIDE DEF r
  <2> QED BY <1>4, <1>5, <2>1, <2>2
<1>13. ASSUME NEW g \in p.found, CheckGroup(h, g) PROVE Tended'
  <2>1. /\ [p EXCEPT !.found = @ \ {g}].pc = p.pc
        /\ [p EXCEPT !.pc = "delete", !.current = g].pc = "delete"
    BY <1>1 DEF Handler
  <2>2. p.pc = "added" /\ UNCHANGED <<fyle, fund, groups, schedules>> BY <1>13 DEF CheckGroup
  <2>3. PICK r \in {Idle, [p EXCEPT !.found = @ \ {g}],
                    [p EXCEPT !.pc = "delete", !.current = g]} : Set(h, r)
    BY <1>13 DEF CheckGroup
  <2>4. r.pc \in {"idle", "added", "delete"} BY <1>1, <2>1, <2>2, <2>3
  <2> QED BY <1>4, <1>5, <2>2, <2>3, <2>4
<1> QED BY <1>6, <1>7, <1>8, <1>9, <1>10, <1>11, <1>12, <1>13

\* A transaction ends with every change handled, or in a schedule.
LEMMA TendedIdle ==
  ASSUME Careful, Orderly, Orderly', Ended', NEW h \in Procs, Set(h, Idle),
         \A s \in schedules' : s.ids \subseteq All(s.old),
         \A g \in Live' : ~groups'[g].exported =>
            \A e \in groups'[g].members : Waiting(e)' \/ fund'[e] = groups'[g].fund
  PROVE  Tended'
<1>1. proc'[h] = Idle /\ Idle.pc = "idle" /\ \A k \in Procs : k = h
  BY SetTyped DEF Careful, OneProcess, Orderly, Typed, TypeOK, Idle
<1>2. Minds(proc[h])' BY <1>1 DEF Minds
<1>3. \A e \in Expenses : Fits(e)' BY DEF Fits
<1> QED BY <1>1, <1>2, <1>3 DEF Tended, NoChangeLost, All

\* The groups of changed expenses that could not go are in flight: a schedule waits.
LEMMA HeldBack ==
  ASSUME Tended, NEW h \in Procs, proc[h].pc = "process", NEW g \in Live,
         ~groups[g].exported, ~(g \in proc[h].found /\ MayDelete(g)),
         NEW e \in groups[g].members, e \in proc[h].ids
  PROVE  /\ g \in proc[h].found /\ ~MayDelete(g) /\ Active(g)
         /\ \E s \in Scheduled(proc[h].ids, proc[h].old) : e \in s.ids
<1>1. g \in proc[h].found BY DEF Tended, NoChangeLost, Minds
<1>2. groups[g].log \in Status BY DEF Tended, Orderly, Typed, TypeOK, Group
<1>3. groups[g].log # "COMPLETE" BY DEF Tended, Ended
<1>4. ~MayDelete(g) /\ Active(g) BY <1>1, <1>2, <1>3 DEF MayDelete, Active, InFlight, Status
<1>5. \E s \in Scheduled(proc[h].ids, proc[h].old) : s.ids = proc[h].ids
  <2> DEFINE new == [ids |-> proc[h].ids, old |-> proc[h].old, repeats |-> Repeats]
  <2>1. CASE \E s \in schedules : s.ids = proc[h].ids BY <2>1 DEF Scheduled
  <2>2. CASE ~ \E s \in schedules : s.ids = proc[h].ids
    <3>1. new \in Scheduled(proc[h].ids, proc[h].old) BY <2>2 DEF Scheduled
    <3>2. new.ids = proc[h].ids OBVIOUS
    <3> QED BY <3>1, <3>2
  <2> QED BY <2>1, <2>2
<1> QED BY <1>1, <1>4, <1>5

LEMMA TendedProcess ==
  ASSUME LifecycleAssumption, Careful, Tended, Orderly', Ended', NEW h \in Procs, Process(h)
  PROVE  Tended'
<1> DEFINE p == proc[h]
<1> DEFINE gone == {g \in p.found : MayDelete(g)}
<1> DEFINE d == Replace(Db, p)
<1>1. /\ Database(Db) /\ Db.skipped = skipped /\ Db.groups = groups /\ Db.fund = fund
      /\ p.affected \in SUBSET Expenses
  BY DbTyped DEF Tended, Orderly, Typed, TypeOK, Handler
<1>2. p.pc = "process" /\ p.kind \in {"webhook", "retry"} /\ Set(h, Idle) /\ Apply(d)
  BY DEF Process
<1>3. \A e \in p.affected : /\ e \notin skipped
                            /\ \A g \in DOMAIN groups : e \in groups[g].members => g \in p.found
  BY <1>2 DEF Tended, Orderly, HandlerOwns, Live
<1>4. \A g \in DOMAIN d.groups : \A e \in d.groups[g].members :
         d.fund[e] = fund[e] /\ (g \notin DOMAIN groups => d.fund[e] = d.groups[g].fund)
  BY <1>1, <1>3, ReplaceFund
<1>5. Follows(Db, d, gone) BY <1>1, <1>3, ReplaceFollows
<1>6. \A g \in Live' : g \in Live => g \notin gone /\ groups'[g] = groups[g]
  BY <1>1, <1>2, <1>5 DEF Follows, Apply, Live
<1> HIDE DEF d, gone
<1>7. /\ p.ids \subseteq All(p.old) /\ \A s \in schedules : s.ids \subseteq All(s.old)
      /\ \A e \in Expenses : Fits(e) \/ e \in p.ids
  BY <1>2 DEF Tended, NoChangeLost, Minds, Handling, Careful, OneProcess
<1>8. fund' = d.fund /\ groups' = d.groups BY <1>2 DEF Apply
<1>9. \A s \in schedules : s \in schedules' \/ s.ids = p.ids BY DEF Process, Scheduled
<1>10. \A s \in schedules' : s.ids \subseteq All(s.old) BY <1>7 DEF Process, Scheduled
<1>11. ASSUME NEW g \in Live', ~groups'[g].exported, NEW e \in groups'[g].members
       PROVE  Waiting(e)' \/ fund'[e] = groups'[g].fund
  <2>1. /\ fund'[e] = fund[e]
        /\ g \notin Live => fund'[e] = groups'[g].fund
    BY <1>4, <1>8, <1>11 DEF Live
  <2>2. CASE g \in Live
    <3>1. groups'[g] = groups[g] /\ ~(g \in p.found /\ MayDelete(g)) BY <1>6, <2>2 DEF gone
    <3>2. e \in Expenses BY <1>11, <2>2, <3>1 DEF Tended, Orderly, Typed, TypeOK, Group
    <3>3. CASE e \in p.ids
      <4>1. /\ g \in p.found /\ ~MayDelete(g) /\ Active(g)
            /\ \E s \in Scheduled(p.ids, p.old) : e \in s.ids
        BY <1>2, <1>11, <2>2, <3>1, <3>3, HeldBack
      <4>2. schedules' = Scheduled(p.ids, p.old) BY <2>2, <4>1 DEF Process
      <4> QED BY <4>1, <4>2 DEF Waiting
    <3>4. CASE e \notin p.ids
      <4>1. Waiting(e) \/ fund[e] = groups[g].fund BY <1>7, <1>11, <2>2, <3>1, <3>2, <3>4 DEF Fits
      <4>2. Waiting(e) => Waiting(e)' BY <1>9, <3>4 DEF Waiting
      <4> QED BY <2>1, <3>1, <4>1, <4>2
    <3> QED BY <3>3, <3>4
  <2> QED BY <2>1, <2>2
<1> QED BY <1>2, <1>10, <1>11, TendedIdle DEF Tended

LEMMA TendedImport ==
  ASSUME LifecycleAssumption, Careful, Tended, Orderly', Ended', NEW h \in Procs,
         ImportReplacing(h)
  PROVE  Tended'
<1> DEFINE p == proc[h]
<1> DEFINE gone == {g \in p.found : MayDelete(g)}
<1> DEFINE E   == Asked("approved")
<1> DEFINE sav == Saved(Db, p.ids)
<1> DEFINE rep == Replace(sav, p)
<1> DEFINE mid == Saved(rep, E)
<1> DEFINE new == Grouped(mid, Ungrouped(mid, E))
<1>1. /\ Database(Db) /\ Db.skipped = skipped /\ Db.groups = groups /\ Db.fund = fund
      /\ Db.next = nextId /\ fyle \in [Expenses -> Funds]
      /\ p.affected \in SUBSET Expenses /\ p.ids \in SUBSET Expenses
  BY DbTyped DEF Tended, Orderly, Typed, TypeOK, Handler
<1>2. p.pc = "process" /\ p.kind = "approved" /\ Set(h, Idle) /\ Apply(new)
  BY DEF ImportReplacing
<1>3. \A e \in p.affected : /\ e \notin skipped
                            /\ \A g \in DOMAIN groups : e \in groups[g].members => g \in p.found
  BY <1>2 DEF Tended, Orderly, HandlerOwns, Live
<1>4. /\ p.ids \subseteq All(p.old) /\ p.ids = {e \in Expenses : Changed(e)}
      /\ \A s \in schedules : s.ids \subseteq All(s.old)
      /\ \A e \in Expenses : Fits(e)
  BY <1>2 DEF Tended, NoChangeLost, Minds, Handling, Careful, OneProcess
<1>5. /\ Database(sav) /\ sav.skipped = skipped /\ sav.groups = groups /\ sav.next = nextId
      /\ \A e \in Expenses : sav.fund[e] = IF e \in p.ids THEN fyle[e] ELSE fund[e]
  BY <1>1, SavedDb
<1>6. \A e \in Expenses : sav.fund[e] \in {"none", fyle[e]} BY <1>4, <1>5 DEF Changed
<1> HIDE DEF sav
<1>7. /\ Database(rep) /\ Follows(sav, rep, gone)
      /\ \A g \in DOMAIN rep.groups : \A e \in rep.groups[g].members :
            rep.fund[e] = sav.fund[e] /\ (g \notin DOMAIN groups => rep.fund[e] = rep.groups[g].fund)
  <2>1. \A e \in p.affected : /\ e \notin sav.skipped
                              /\ \A g \in DOMAIN sav.groups :
                                    e \in sav.groups[g].members => g \in p.found
    BY <1>3, <1>5
  <2>2. Database(rep) BY <1>1, <1>5, ReplaceTyped
  <2>3. Follows(sav, rep, gone) BY <1>1, <1>5, <2>1, ReplaceFollows
  <2>4. \A g \in DOMAIN rep.groups : \A e \in rep.groups[g].members :
          /\ rep.fund[e] = sav.fund[e]
          /\ g \notin DOMAIN sav.groups => rep.fund[e] = rep.groups[g].fund
    BY <1>1, <1>5, <2>1, ReplaceFund
  <2> QED BY <1>5, <2>2, <2>3, <2>4
<1> HIDE DEF rep
<1>8. E \in SUBSET Expenses BY DEF Asked
<1>9. /\ Database(mid) /\ mid.groups = rep.groups /\ mid.next = rep.next
      /\ \A e \in Expenses : mid.fund[e] = IF e \in E THEN fyle[e] ELSE rep.fund[e]
  BY <1>1, <1>7, <1>8, SavedDb
<1> HIDE DEF mid, E
<1>10. Adds(mid, new, Ungrouped(mid, E)) /\ Matched(mid, new) /\ new.fund = mid.fund
  <2>1. Ungrouped(mid, E) \in SUBSET Expenses BY <1>8 DEF Ungrouped
  <2> QED BY <1>9, <2>1, GroupedDb
<1> HIDE DEF new
<1>11. \A g \in DOMAIN groups : g \in DOMAIN new.groups =>
          g \in DOMAIN rep.groups /\ g \notin gone /\ new.groups[g] = groups[g]
  <2>1. Follows(sav, mid, gone) BY <1>7, <1>9 DEF Follows
  <2>2. sav.next <= mid.next /\ DOMAIN groups \subseteq Nat /\ \A g \in DOMAIN groups : g < sav.next
    BY <1>5, <2>1, RowsTyped DEF Follows, Database
  <2>3. \A g \in DOMAIN new.groups \ DOMAIN mid.groups : g \notin DOMAIN groups
    BY <1>5, <1>9, <1>10, <2>2, RowsTyped DEF Adds, Database
  <2> QED BY <1>5, <1>9, <1>10, <2>1, <2>3 DEF Follows, Adds
<1>12. fund' = new.fund /\ groups' = new.groups BY <1>2 DEF Apply
<1>13. /\ schedules \subseteq schedules'
       /\ \A s \in schedules' : s.ids \subseteq All(s.old)
  BY <1>4 DEF ImportReplacing, Scheduled
<1>14. \A g \in DOMAIN new.groups : new.groups[g] \in Group
  BY <1>10, RowsTyped DEF Adds, Database
<1>15. ASSUME NEW g \in Live', ~groups'[g].exported, NEW e \in groups'[g].members
       PROVE  Waiting(e)' \/ fund'[e] = groups'[g].fund
  <2>1. g \in DOMAIN new.groups /\ e \in new.groups[g].members BY <1>12, <1>15 DEF Live
  <2>2. e \in Expenses /\ new.groups[g].fund # "none" BY <1>14, <2>1 DEF Group, Funds
  <2>3. CASE g \in DOMAIN rep.groups
    <3>1. new.groups[g] = rep.groups[g] BY <1>9, <1>10, <2>3 DEF Adds
    <3>2. rep.fund[e] = sav.fund[e] BY <1>7, <2>1, <2>3, <3>1
    <3>3. rep.fund[e] # "none" => fund'[e] = rep.fund[e]
      BY <1>6, <1>9, <1>10, <1>12, <2>2, <3>2
    <3>4. CASE g \notin DOMAIN groups
      <4>1. rep.fund[e] = rep.groups[g].fund BY <1>7, <2>1, <2>3, <3>1, <3>4
      <4> QED BY <1>12, <2>2, <3>1, <3>3, <4>1
    <3>5. CASE g \in DOMAIN groups
      <4>1. groups'[g] = groups[g] /\ ~(g \in p.found /\ MayDelete(g)) /\ g \in Live
        BY <1>11, <1>12, <2>1, <3>5 DEF Live
      <4>2. CASE e \in p.ids
        <5>1. g \in p.found /\ Active(g) /\ \E s \in Scheduled(p.ids, p.old) : e \in s.ids
          BY <1>2, <1>15, <4>1, <4>2, HeldBack
        <5>2. schedules' = Scheduled(p.ids, p.old) BY <4>1, <5>1 DEF ImportReplacing
        <5> QED BY <5>1, <5>2 DEF Waiting
      <4>3. CASE e \notin p.ids
        <5>1. Waiting(e) \/ fund[e] = groups[g].fund BY <1>4, <1>15, <2>2, <4>1 DEF Fits
        <5>2. Waiting(e) => Waiting(e)' BY <1>13 DEF Waiting
        <5>3. fund[e] = groups[g].fund => fund'[e] = groups'[g].fund
          BY <1>5, <1>12, <2>2, <3>2, <3>3, <4>1, <4>3
        <5> QED BY <5>1, <5>2, <5>3, <4>1
      <4> QED BY <4>2, <4>3
    <3> QED BY <3>4, <3>5
  <2>4. CASE g \notin DOMAIN rep.groups BY <1>9, <1>10, <1>12, <2>1, <2>4 DEF Matched
  <2> QED BY <2>3, <2>4
<1> QED BY <1>2, <1>13, <1>15, TendedIdle DEF Tended

\* An import saves the expenses as they are in Fyle: those in groups have not changed.
LEMMA TendedGather ==
  ASSUME LifecycleAssumption, Careful, Tended, Orderly', Ended', NEW h \in Procs, Gather(h)
  PROVE  Tended'
<1> DEFINE p == proc[h]
<1> DEFINE sav == Saved(Db, p.ids)
<1> DEFINE new == Grouped(sav, p.affected)
<1>1. /\ Database(Db) /\ Db.groups = groups /\ Db.fund = fund /\ fyle \in [Expenses -> Funds]
      /\ p.affected \in SUBSET Expenses /\ p.ids \in SUBSET Expenses
      /\ groups \in [Live -> Group]
  BY DbTyped DEF Tended, Orderly, Typed, TypeOK, Handler
<1>2. p.pc = "gather" /\ Set(h, Idle) /\ Apply(new) /\ schedules' = schedules BY DEF Gather
<1>3. /\ \A s \in schedules : s.ids \subseteq All(s.old)
      /\ \A e \in Expenses : Fits(e)
      /\ \A g \in Live : ~groups[g].exported => \A e \in groups[g].members : ~Changed(e)
  BY <1>2 DEF Tended, NoChangeLost, Minds, Handling, Careful, OneProcess
<1>4. /\ Database(sav) /\ sav.groups = groups
      /\ \A e \in Expenses : sav.fund[e] = IF e \in p.ids THEN fyle[e] ELSE fund[e]
  BY <1>1, SavedDb
<1> HIDE DEF sav
<1>5. Adds(sav, new, p.affected) /\ Matched(sav, new) /\ new.fund = sav.fund
  BY <1>1, <1>4, GroupedDb
<1> HIDE DEF new
<1>6. fund' = new.fund /\ groups' = new.groups BY <1>2 DEF Apply
<1>7. ASSUME NEW g \in Live', ~groups'[g].exported, NEW e \in groups'[g].members
      PROVE  Waiting(e)' \/ fund'[e] = groups'[g].fund
  <2>1. CASE g \in Live
    <3>1. groups'[g] = groups[g] BY <1>4, <1>5, <1>6, <2>1 DEF Adds, Live
    <3>2. e \in Expenses /\ groups[g].fund # "none" BY <1>1, <1>7, <2>1, <3>1 DEF Group, Funds
    <3>3. Waiting(e) \/ fund[e] = groups[g].fund BY <1>3, <1>7, <2>1, <3>1, <3>2 DEF Fits
    <3>4. fund[e] \in {"none", fyle[e]} BY <1>3, <1>7, <2>1, <3>1 DEF Changed
    <3>5. fund[e] = groups[g].fund => fund'[e] = fund[e] BY <1>4, <1>5, <1>6, <3>2, <3>4
    <3> QED BY <1>2, <3>1, <3>3, <3>5 DEF Waiting
  <2>2. CASE g \notin Live BY <1>4, <1>5, <1>6, <1>7, <2>2 DEF Matched, Live
  <2> QED BY <2>1, <2>2
<1> QED BY <1>2, <1>3, <1>7, TendedIdle DEF Tended

LEMMA TendedReports ==
  ASSUME LifecycleAssumption, Careful, Tended, Orderly', Ended', NEW h \in Procs,
         Ejected(h) \/ DeleteGroup(h)
  PROVE  Tended'
<1> DEFINE p == proc[h]
<1>1. /\ Idle.pc = "idle" /\ p \in Handler /\ groups \in [Live -> Group]
      /\ Database(Db) /\ Db.fund = fund /\ Db.groups = groups
  BY IdleTyped, DbTyped DEF Idle, Tended, Orderly, Typed, TypeOK
<1>2. /\ p.pc \in {"ejected", "delete"} /\ UNCHANGED <<fyle, schedules>>
      /\ \A s \in schedules : s.ids \subseteq All(s.old)
      /\ \A e \in Expenses : Fits(e)
  BY DEF Ejected, DeleteGroup, Tended, NoChangeLost, Handling, Careful, OneProcess
<1>3. ASSUME NEW r, Set(h, r), r.pc \in {"idle", "added"}, fund' = fund,
             \A g \in Live' : ~groups'[g].exported =>
                /\ g \in Live /\ ~groups[g].exported
                /\ groups'[g].fund = groups[g].fund
                /\ groups'[g].members \subseteq groups[g].members
      PROVE  Tended'
  <2>1. Minds(r) BY <1>3 DEF Minds
  <2> QED BY <1>2, <1>3, <2>1, TendedKept DEF Waiting
<1>4. CASE Ejected(h)
  <2> DEFINE cut == Cut(p.current, p.ids)
  <2>1. /\ Database(cut) /\ cut.fund = fund /\ DOMAIN cut.groups = Live
        /\ \A g \in Live : cut.groups[g] = IF g = p.current THEN Less(groups[g], p.ids) ELSE groups[g]
    BY CutDb DEF Tended, Orderly
  <2>2. Apply(Without(cut, p.found)) /\ Set(h, Idle) BY <1>4 DEF Ejected, Cut
  <2> HIDE DEF cut
  <2>3. fund' = fund /\ \A g \in Live' : g \in Live /\ groups'[g] = cut.groups[g]
    BY <2>1, <2>2, WithoutDb DEF Apply, Live
  <2>4. \A g \in Live' : /\ groups'[g].exported = groups[g].exported
                         /\ groups'[g].fund = groups[g].fund
                         /\ groups'[g].members \subseteq groups[g].members
    BY <1>1, <2>1, <2>3, LessTyped
  <2> QED BY <1>1, <1>3, <2>2, <2>3, <2>4
<1>5. CASE DeleteGroup(h)
  <2>1. Apply(Without(Db, {p.current})) BY <1>5 DEF DeleteGroup
  <2>2. fund' = fund /\ \A g \in Live' : g \in Live /\ groups'[g] = groups[g]
    BY <1>1, <2>1, WithoutDb DEF Apply, Live
  <2> DEFINE r == [p EXCEPT !.pc = "added", !.found = @ \ {p.current}, !.current = 0]
  <2>3. r.pc = "added" BY <1>1 DEF Handler
  <2>4. PICK q \in {Idle, r} : Set(h, q) BY <1>5 DEF DeleteGroup
  <2>5. q.pc \in {"idle", "added"} BY <1>1, <2>3, <2>4
  <2> QED BY <1>3, <2>2, <2>4, <2>5
<1> QED BY <1>4, <1>5

\* When nothing runs and no retry is scheduled, a group that is neither exported nor being
\* exported has the fund source of its expenses: a handler finds every group of the
\* expenses it was called for, and the ones it may not delete are left to a schedule.
\* The hypotheses are those under which it holds: a handler that fails, one that reads
\* what another writes, or a change in Fyle while an import runs, may lose a change.
THEOREM FundsMatch ==
  ASSUME LifecycleAssumption, Careful
  PROVE  Spec => []FundMatches
<1>1. Init => Tended
  <2> SUFFICES ASSUME Init PROVE Tended OBVIOUS
  <2>1. Live = {} /\ schedules = {} /\ \A h \in Procs : proc[h].pc = "idle"
    BY DEF Init, Live, Idle
  <2> QED BY <2>1, OrderlyInit DEF Careful, Tended, Ended, NoChangeLost, Minds, Fits
<1>2. Tended /\ [Next]_vars => Tended'
  <2> SUFFICES ASSUME Tended, [Next]_vars PROVE Tended' OBVIOUS
  <2>1. Orderly' BY OrderlyStep DEF Tended, Careful
  <2>2. Ended' BY EndedStep DEF Tended
  <2> QED BY <2>1, <2>2, TendedFyle, TendedUpdate, TendedFind, TendedFinds, TendedProcess,
             TendedImport, TendedGather, TendedReports DEF Next
<1>3. Tended => FundMatches
  <2> SUFFICES ASSUME Tended, AllIdle, NEW g \in Live, ~groups[g].exported,
                      NEW e \in groups[g].members
               PROVE  Waiting(e) \/ fund[e] = groups[g].fund
    BY DEF FundMatches
  <2>1. e \in Expenses BY DEF Tended, Orderly, Typed, TypeOK, Group
  <2> QED BY <2>1 DEF Tended, NoChangeLost, Handling, Fits, AllIdle
<1> QED BY <1>1, <1>2, <1>3, PTL DEF Spec
=============================================================================
