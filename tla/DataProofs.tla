------------------------------ MODULE DataProofs ------------------------------
(***************************************************************************)
(* Proofs about the data that goes to and comes from NetSuite: that the    *)
(* documents of Documents carry the amounts and links of their expenses,   *)
(* that the lines of LineCoding are coded by one rule, and that the copies *)
(* of DimensionSync are in step after a sync.                              *)
(***************************************************************************)
EXTENDS NetSuiteData, Integers, FiniteSetTheorems, WellFoundedInduction, TLAPS

\* Rates are percentages and a tax has the sign of its amount, at least where nothing is
\* refunded; None is no amount.
DocumentsAssumption ==
    /\ None \notin Int /\ MaxTries \in Nat
    /\ Kinds \subseteq {"BILL", "EXPENSE REPORT", "CREDIT CARD CHARGE", "JOURNAL ENTRY"}
    /\ Settings \subseteq Docs!Setting
    /\ \A exps \in Groups :
          /\ exps \in Seq(Docs!Expense)
          /\ \A i \in 1..Len(exps) :
                /\ exps[i].rate =< 100
                /\ exps[i].amount >= 0 /\ exps[i].tax # None => exps[i].tax >= 0
-----------------------------------------------------------------------------
(* Rounding to the cent.                                                   *)

LEMMA RoundIs ==
  ASSUME NEW a \in Int, NEW b \in Nat, b > 0
  PROVE  /\ Docs!Round(a, b) \in Int
         /\ 2 * b * Docs!Round(a, b) =< 2 * a + b
         /\ 2 * a + b < 2 * b * Docs!Round(a, b) + 2 * b
BY DEF Docs!Round

LEMMA Spread ==
  ASSUME NEW a \in Int, NEW b \in Int, NEW r \in Int
  PROVE  /\ (a - b) * r = a * r - b * r
         /\ 2 * (100 + r) * b = 200 * b + 2 * (b * r)
OBVIOUS

\* The tax of the net amount that belongs to a tax is that tax.
LEMMA NetOfBack ==
  ASSUME NEW t \in Int, NEW r \in 1..100
  PROVE  /\ Docs!NetOf(t, r) \in Int
         /\ Docs!Round(Docs!NetOf(t, r) * r, 100) = t
<1> DEFINE n == Docs!Round(t * 100, r)
<1>1. PICK s \in Int : s = t * 100 OBVIOUS
<1>2. n \in Int /\ 2 * r * n =< 2 * s + r /\ 2 * s + r < 2 * r * n + 2 * r
  <2>1. r \in Nat /\ r > 0 /\ n = Docs!Round(s, r) BY <1>1
  <2> QED BY <2>1, RoundIs
<1>3. PICK p \in Int : p = n * r BY <1>2
<1>4. 2 * p =< 200 * t + r /\ 200 * t + r < 2 * p + 2 * r
  <2>1. 2 * r * n = 2 * (n * r) BY <1>2
  <2> QED BY <1>1, <1>2, <1>3, <2>1
<1> DEFINE m == Docs!Round(p, 100)
<1>5. m \in Int /\ 200 * m =< 2 * p + 100 /\ 2 * p + 100 < 200 * m + 200
  BY RoundIs
<1>6. Docs!NetOf(t, r) = n BY DEF Docs!NetOf
<1>7. m = t
  <2>1. CASE r = 100
    <3>1. p = 100 * n BY <1>2, <1>3, <2>1
    <3>2. 200 * n =< 200 * t + 100 /\ 200 * t + 100 < 200 * n + 200 BY <1>2, <1>4, <2>1, <3>1
    <3>3. n = t
      <4>1. n \in Int BY <1>2
      <4> HIDE DEF n, m
      <4> QED BY <3>2, <4>1
    <3>4. 200 * m =< 200 * n + 100 /\ 200 * n + 100 < 200 * m + 200 BY <1>2, <1>5, <3>1
    <3> HIDE DEF m, n
    <3> QED BY <1>2, <1>5, <3>3, <3>4
  <2>2. CASE r < 100 BY <1>4, <1>5, <2>2
  <2> QED BY <2>1, <2>2
<1> QED BY <1>2, <1>3, <1>6, <1>7

\* The tax of what is left of an amount without its own tax is that tax, to the cent.
LEMMA TaxOfRest ==
  ASSUME NEW a \in Int, NEW r \in 1..100, NEW t \in Int,
         Docs!Abs(t) = Docs!Expected(a, r), a >= 0 => t >= 0
  PROVE  Docs!Round((a - t) * r, 100) \in t - 1..t + 1
<1>1. PICK p \in Int : p = a * r OBVIOUS
<1>2. PICK q \in Int : q = t * r OBVIOUS
<1> DEFINE e == Docs!Round(p, 100 + r)
           m == Docs!Round(p - q, 100)
<1>3. (a - t) * r = p - q BY <1>1, <1>2, Spread
<1>4. m \in Int /\ 200 * m =< 2 * (p - q) + 100 /\ 2 * (p - q) + 100 < 200 * m + 200
  BY RoundIs
<1>5. e \in Int /\ 2 * (100 + r) * e =< 2 * p + 100 + r /\ 2 * p + 100 + r < 2 * (100 + r) * e + 200 + 2 * r
  <2>1. PICK b \in Nat : b = 100 + r /\ b > 0 OBVIOUS
  <2>2. e = Docs!Round(p, b) BY <2>1
  <2> HIDE DEF e
  <2>3. e \in Int /\ 2 * b * e =< 2 * p + b /\ 2 * p + b < 2 * b * e + 2 * b
    BY <2>1, <2>2, RoundIs
  <2>4. 2 * b = 200 + 2 * r BY <2>1
  <2>5. 2 * (100 + r) * e = 2 * b * e BY <2>1
  <2> QED BY <2>1, <2>3, <2>4, <2>5
<1>6. 2 * (100 + r) * e = 200 * e + 2 * (e * r) BY <1>5, Spread
<1>7. e = Docs!Abs(t) BY <1>1 DEF Docs!Expected
<1>8. CASE t = e
  <2>1. e * r = q BY <1>8, <1>2
  <2>2. m \in t - 1..t + 1
    BY <1>4, <1>5, <1>6, <1>8, <2>1
  <2> QED BY <2>2, <1>3
<1>9. CASE t # e
  <2>1. t < 0 /\ a < 0 /\ e > 0 BY <1>7, <1>9 DEF Docs!Abs
  <2>2. p =< -r BY <2>1, <1>1
  <2>3. e * r > 0 BY <2>1, <1>5
  <2> QED BY <2>1, <2>2, <2>3, <1>5, <1>6
<1> QED BY <1>8, <1>9
-----------------------------------------------------------------------------
(* The lines of an expense.                                                *)

\* the tax that is sent with the line that carries it
TaxOn(x) == IF Docs!HasTax THEN x.tax ELSE None

\* ls is the line of expense x, or its two lines when its tax does not fit its amount
Split(ls, x, amount) ==
    \/ /\ ls \in [whole: Docs!Line]
       /\ ls.whole.net = amount - (IF Docs!Taxed(x) THEN x.tax ELSE 0)
       /\ ~Docs!Taxed(x) => ls.whole.tax = None
       /\ Docs!Taxed(x) /\ ~Docs!Overridden =>
             ~Docs!Modified(amount, x) /\ ls.whole.code = x.code /\ ls.whole.tax = TaxOn(x)
    \/ /\ ls \in [taxed: Docs!Line, rest: Docs!Line]
       /\ Docs!Taxed(x) /\ Docs!Modified(amount, x)
       /\ ls.taxed.net = Docs!NetOf(x.tax, x.rate)
       /\ ls.taxed.code = x.code /\ ls.taxed.tax = TaxOn(x)
       /\ ls.rest.net = amount - Docs!NetOf(x.tax, x.rate) - x.tax
       /\ ls.rest.code = "default" /\ ls.rest.tax = None

Linked(ls) == \A k \in DOMAIN ls : ls[k].links > 0

\* what a document was built from
GroupOK ==
    /\ group \in [kind: Kinds, exps: Groups, conf: Settings]
    /\ rows = [i \in Docs!Indices |-> IF Docs!Refund THEN Docs!Abs(group.exps[i].amount)
                                      ELSE group.exps[i].amount]

LEMMA GroupParts ==
  ASSUME DocumentsAssumption, group \in [kind: Kinds, exps: Groups, conf: Settings]
  PROVE  /\ None \notin Int
         /\ group.kind \in {"BILL", "EXPENSE REPORT", "CREDIT CARD CHARGE", "JOURNAL ENTRY"}
         /\ group.exps \in Groups /\ group.conf \in Docs!Setting
         /\ Len(group.exps) \in Nat
         /\ \A i \in Docs!Indices :
               /\ group.exps[i] \in Docs!Expense
               /\ group.exps[i].rate =< 100
               /\ group.exps[i].amount >= 0 /\ group.exps[i].tax # None
                     => group.exps[i].tax >= 0
<1>1. group.exps \in Groups /\ group.conf \in Settings /\ group.kind \in Kinds OBVIOUS
<1>2. group.exps \in Seq(Docs!Expense) BY <1>1 DEF DocumentsAssumption
<1>3. \A i \in 1..Len(group.exps) : group.exps[i] \in Docs!Expense BY <1>2
<1>4. \A i \in 1..Len(group.exps) :
         /\ group.exps[i].rate =< 100
         /\ group.exps[i].amount >= 0 /\ group.exps[i].tax # None => group.exps[i].tax >= 0
  BY <1>1, Zenon DEF DocumentsAssumption
<1>5. Len(group.exps) \in Nat BY <1>2
<1>6. /\ None \notin Int /\ group.conf \in Docs!Setting
      /\ group.kind \in {"BILL", "EXPENSE REPORT", "CREDIT CARD CHARGE", "JOURNAL ENTRY"}
  BY <1>1 DEF DocumentsAssumption
<1> QED BY <1>1, <1>3, <1>4, <1>5, <1>6, Zenon DEF Docs!Indices

LEMMA NetOfInt ==
  ASSUME NEW t \in Int, NEW r \in Nat
  PROVE  Docs!NetOf(t, r) \in Int
<1>1. CASE r = 0 BY <1>1 DEF Docs!NetOf
<1>2. CASE r # 0
  <2>1. t * 100 \in Int /\ r > 0 BY <1>2
  <2> QED BY <1>2, <2>1, RoundIs DEF Docs!NetOf
<1> QED BY <1>1, <1>2

LEMMA HandledRight ==
  ASSUME DocumentsAssumption, GroupOK,
         NEW x \in Docs!Expense, NEW amount \in Int, NEW base \in Docs!Line,
         base.tax = None, base.links > 0, Docs!Taxed(x), ~Docs!Overridden
  PROVE  LET ls == Docs!HandleTaxed(base, amount, x)
         IN  Split(ls, x, amount) /\ Linked(ls)
<1> DEFINE ls == Docs!HandleTaxed(base, amount, x)
<1>1. x.tax \in Int /\ x.rate \in Nat /\ x.code \in {"mapped", "default"}
  BY DEF Docs!Expense, Docs!Taxed
<1>2. PICK n \in Int : n = Docs!NetOf(x.tax, x.rate) BY <1>1, NetOfInt
<1>3. /\ TaxOn(x) \in Int \cup {None}
      /\ Docs!Rated(x, amount) \in Int \cup {None}
  BY <1>1 DEF TaxOn, Docs!Rated
<1>4. CASE Docs!Modified(amount, x)
  <2>1. ls = [taxed |-> Docs!TaxedPart(base, amount, x), rest |-> Docs!Rest(base, amount, x)]
    BY <1>4 DEF Docs!HandleTaxed
  <2>2. PICK one : one = Docs!TaxedPart(base, amount, x) OBVIOUS
  <2>3. /\ one \in Docs!Line /\ one.net = n /\ one.code = x.code /\ one.tax = TaxOn(x)
        /\ one.links = base.links
    <3>1. PICK r \in Int \cup {None} : r = Docs!Rated(x, amount) BY <1>3
    <3>2. PICK t \in Int \cup {None} : t = TaxOn(x) BY <1>3
    <3>3. PICK g \in Int \cup {None} :
             g = IF group.kind = "JOURNAL ENTRY" THEN n + x.tax ELSE base.gross
      <4>1. PICK s \in Int : s = n + x.tax BY <1>1
      <4> QED BY <4>1 DEF Docs!Line
    <3>4. one = [base EXCEPT !.net = n, !.code = x.code, !.rate = r, !.tax = t, !.gross = g]
      BY <1>2, <2>2, <3>1, <3>2, <3>3 DEF Docs!TaxedPart, TaxOn
    <3>6. r \in Int \cup {None} /\ t \in Int \cup {None} /\ g \in Int \cup {None}
      BY <3>1, <3>2, <3>3
    <3>7. x.code \in {"mapped", "default"} BY <1>1
    <3>8. one \in Docs!Line /\ one.net = n /\ one.code = x.code /\ one.tax = t /\ one.links = base.links
      BY <3>4, <3>6, <3>7 DEF Docs!Line
    <3> QED BY <3>2, <3>8
  <2>4. PICK two : two = Docs!Rest(base, amount, x) OBVIOUS
  <2>5. /\ two \in Docs!Line /\ two.net = amount - n - x.tax /\ two.code = "default"
        /\ two.tax = None /\ two.links = base.links
    <3>1. PICK m \in Int : m = amount - n - x.tax BY <1>1
    <3>2. PICK g \in Int \cup {None} : g = IF group.kind = "JOURNAL ENTRY" THEN m ELSE base.gross
      BY DEF Docs!Line
    <3>3. two = [base EXCEPT !.net = m, !.code = "default", !.gross = g]
      BY <1>2, <2>4, <3>1, <3>2 DEF Docs!Rest
    <3> QED BY <3>1, <3>3 DEF Docs!Line
  <2>6. ls = [taxed |-> one, rest |-> two] BY <2>1, <2>2, <2>4
  <2>7. Split(ls, x, amount) BY <1>2, <1>4, <2>3, <2>5, <2>6 DEF Split
  <2>8. Linked(ls) BY <2>3, <2>5, <2>6 DEF Linked
  <2> QED BY <2>7, <2>8
<1>5. CASE ~Docs!Modified(amount, x)
  <2>1. ls = [whole |-> Docs!Unsplit(base, amount, x)] BY <1>5 DEF Docs!HandleTaxed
  <2>2. PICK one : one = Docs!Unsplit(base, amount, x) OBVIOUS
  <2>3. /\ one \in Docs!Line /\ one.net = amount - x.tax /\ one.code = x.code
        /\ one.tax = TaxOn(x) /\ one.links = base.links
    <3>1. PICK r \in Int \cup {None} : r = Docs!Rated(x, amount) BY <1>3
    <3>2. PICK t \in Int \cup {None} : t = TaxOn(x) BY <1>3
    <3>3. PICK g \in Int \cup {None} : g = IF group.kind = "JOURNAL ENTRY" THEN amount ELSE base.gross
      BY DEF Docs!Line
    <3>4. PICK m \in Int : m = amount - x.tax BY <1>1
    <3>5. one = [base EXCEPT !.net = m, !.code = x.code, !.rate = r, !.tax = t, !.gross = g]
      BY <2>2, <3>1, <3>2, <3>3, <3>4 DEF Docs!Unsplit, TaxOn
    <3>6. r \in Int \cup {None} /\ t \in Int \cup {None} /\ g \in Int \cup {None}
      BY <3>1, <3>2, <3>3
    <3>7. x.code \in {"mapped", "default"} BY <1>1
    <3>8. one \in Docs!Line /\ one.net = m /\ one.code = x.code /\ one.tax = t /\ one.links = base.links
      BY <3>5, <3>6, <3>7 DEF Docs!Line
    <3> QED BY <3>2, <3>4, <3>8
  <2>4. ls = [whole |-> one] BY <2>1, <2>2
  <2>5. Split(ls, x, amount) BY <1>5, <2>3, <2>4 DEF Split
  <2>6. Linked(ls) BY <2>3, <2>4 DEF Linked
  <2> QED BY <2>5, <2>6
<1> QED BY <1>4, <1>5

\* a line whose tax is not looked at, or goes to the tax details
LEMMA WholeRight ==
  ASSUME GroupOK, NEW x, NEW amount, NEW base \in Docs!Line,
         base.net = amount - (IF Docs!Taxed(x) THEN x.tax ELSE 0),
         base.tax = None, base.links > 0, Docs!Taxed(x) => Docs!Overridden
  PROVE  Split([whole |-> base], x, amount) /\ Linked([whole |-> base])
BY DEF Split, Linked

LEMMA RowIs ==
  ASSUME DocumentsAssumption, GroupOK, NEW i \in Docs!Indices
  PROVE  /\ rows[i] \in Int
         /\ group.kind # "CREDIT CARD CHARGE" => rows[i] = group.exps[i].amount
         /\ ~Docs!Refund => rows[i] = group.exps[i].amount
<1>1. group.exps[i] \in Docs!Expense BY GroupParts DEF GroupOK
<1>2. group.exps[i].amount \in Int /\ Docs!Abs(group.exps[i].amount) \in Int
  BY <1>1 DEF Docs!Expense, Docs!Abs
<1> QED BY <1>2 DEF GroupOK, Docs!Refund

LEMMA LinesRight ==
  ASSUME DocumentsAssumption, GroupOK, noGross \in BOOLEAN, NEW i \in Docs!Indices,
         links'[i] \in Nat, links'[i] > 0
  PROVE  Split(Docs!Lines[i], group.exps[i], rows[i]) /\ Linked(Docs!Lines[i])
<1> DEFINE Good(ls) == Split(ls, group.exps[i], rows[i]) /\ Linked(ls)
<1>1. PICK x \in Docs!Expense : x = group.exps[i] BY GroupParts DEF GroupOK
<1>2. PICK amount \in Int : amount = rows[i] BY RowIs
<1>3. x.tax \in Int \cup {None} /\ (Docs!Taxed(x) => x.tax \in Int) /\ x.item \in BOOLEAN
  BY <1>1 DEF Docs!Expense, Docs!Taxed
<1>4. ASSUME NEW gross \in Int \cup {None}
      PROVE  /\ Docs!Base(i, gross) \in Docs!Line
             /\ Docs!Base(i, gross).tax = None /\ Docs!Base(i, gross).net = amount
             /\ Docs!Base(i, gross).links = links'[i]
  BY <1>2 DEF Docs!Base, Docs!Line
<1>5. Docs!Posted(i) \in Int \cup {None} BY <1>2 DEF Docs!Posted
<1>6. ASSUME NEW gross \in Int \cup {None}, ~Docs!Overridden, Docs!Taxed(x)
      PROVE  Good(Docs!HandleTaxed(Docs!Base(i, gross), rows[i], x))
  <2>1. PICK base : base = Docs!Base(i, gross) OBVIOUS
  <2>2. base \in Docs!Line /\ base.tax = None /\ base.links > 0 BY <1>4, <2>1
  <2> QED BY <1>1, <1>2, <1>6, <2>1, <2>2, HandledRight
<1>7. ASSUME NEW gross \in Int \cup {None}, ~Docs!Taxed(x)
      PROVE  Good([whole |-> Docs!Base(i, gross)])
  <2>1. PICK base : base = Docs!Base(i, gross) OBVIOUS
  <2>2. base \in Docs!Line /\ base.tax = None /\ base.links > 0 /\ base.net = amount - 0
    BY <1>2, <1>4, <2>1
  <2> QED BY <1>1, <1>2, <1>7, <2>1, <2>2, WholeRight
<1>8. CASE group.kind = "BILL"
  <2>1. PICK base : base = [Docs!Base(i, Docs!Posted(i)) EXCEPT
                               !.rate = IF x.item THEN rows[i] ELSE None]
    OBVIOUS
  <2>2. /\ base \in Docs!Line /\ base.tax = None /\ base.net = amount
        /\ base.links = links'[i]
    BY <1>2, <1>3, <1>4, <1>5, <2>1 DEF Docs!Line
  <2>3. Docs!Lines[i] = Docs!BillLines(i) BY <1>8 DEF Docs!Lines
  <2>4. CASE ~Docs!Taxed(x)
    <3>1. Docs!BillLines(i) = [whole |-> base] BY <1>1, <2>1, <2>4 DEF Docs!BillLines
    <3>2. base.net = amount - (IF Docs!Taxed(x) THEN x.tax ELSE 0) /\ base.links > 0
      BY <1>2, <2>2, <2>4
    <3>3. Split([whole |-> base], x, amount) /\ Linked([whole |-> base])
      BY <2>2, <2>4, <3>2, WholeRight
    <3> QED BY <1>1, <1>2, <2>3, <3>1, <3>3
  <2>5. CASE Docs!Taxed(x) /\ group.conf.override
    <3>1. PICK line : line = [base EXCEPT !.gross = None, !.net = rows[i] - x.tax] OBVIOUS
    <3>2. /\ line \in Docs!Line /\ line.tax = None /\ line.net = amount - x.tax
          /\ line.links = links'[i]
      <4>1. PICK m \in Int : m = amount - x.tax BY <1>3, <2>5
      <4>2. line = [base EXCEPT !.gross = None, !.net = m] BY <1>2, <3>1, <4>1
      <4> QED BY <2>2, <4>1, <4>2 DEF Docs!Line
    <3>3. Docs!BillLines(i) = [whole |-> line]
      BY <1>1, <2>1, <2>5, <3>1 DEF Docs!BillLines
    <3>4. Docs!Overridden BY <1>8, <2>5 DEF Docs!Overridden
    <3> QED BY <1>1, <1>2, <2>3, <2>5, <3>2, <3>3, <3>4, WholeRight
  <2>6. CASE Docs!Taxed(x) /\ ~group.conf.override
    <3>1. Docs!BillLines(i) = Docs!HandleTaxed(base, rows[i], x)
      BY <1>1, <2>1, <2>6 DEF Docs!BillLines
    <3>2. ~Docs!Overridden BY <2>6 DEF Docs!Overridden
    <3> QED BY <1>1, <1>2, <2>2, <2>3, <2>6, <3>1, <3>2, HandledRight
  <2> QED BY <2>4, <2>5, <2>6
<1>9. CASE group.kind # "BILL"
  <2>1. ~Docs!Overridden BY <1>9 DEF Docs!Overridden
  <2>2. \E gross \in Int \cup {None} :
           Docs!Lines[i] = IF Docs!Taxed(x) THEN Docs!HandleTaxed(Docs!Base(i, gross), rows[i], x)
                           ELSE [whole |-> Docs!Base(i, gross)]
    <3>1. CASE group.kind = "EXPENSE REPORT"
      BY <1>1, <1>5, <3>1 DEF Docs!Lines, Docs!ReportLines
    <3>2. CASE group.kind = "CREDIT CARD CHARGE"
      BY <1>1, <1>2, <3>2 DEF Docs!Lines, Docs!ChargeLines
    <3>3. CASE group.kind = "JOURNAL ENTRY"
      BY <1>1, <3>3 DEF Docs!Lines, Docs!DebitLines
    <3> QED BY <1>9, <3>1, <3>2, <3>3, GroupParts DEF GroupOK
  <2>3. PICK gross \in Int \cup {None} :
           Docs!Lines[i] = IF Docs!Taxed(x) THEN Docs!HandleTaxed(Docs!Base(i, gross), rows[i], x)
                           ELSE [whole |-> Docs!Base(i, gross)]
    BY <2>2
  <2> QED BY <1>6, <1>7, <2>1, <2>3
<1> QED BY <1>8, <1>9
-----------------------------------------------------------------------------
(* Sums.                                                                   *)

\* a smallest of some finite sets
LEMMA Smallest ==
  ASSUME NEW S, IsFiniteSet(S), NEW B \in SUBSET SUBSET S, B # {}
  PROVE  \E s \in B : \A t \in SUBSET s : t # s => t \notin B
<1> DEFINE T == {Cardinality(s) : s \in B}
<1>1. \A s \in SUBSET S : IsFiniteSet(s) /\ Cardinality(s) \in Nat
  BY FS_Subset, FS_CardinalityType
<1>2. T \subseteq Nat /\ T # {} BY <1>1
<1>3. PICK n \in T : \A m \in T : ~(<<m, n>> \in OpToRel(<, Nat))
  <2> HIDE DEF T
  <2> QED BY <1>2, NatLessThanWellFounded, WFMin
<1>4. \A m \in T : ~(m < n) BY <1>2, <1>3 DEF OpToRel
<1>5. PICK s \in B : n = Cardinality(s) BY <1>3
<1>6. ASSUME NEW t \in SUBSET s, t # s PROVE t \notin B
  <2>1. IsFiniteSet(s) BY <1>1
  <2>2. Cardinality(t) =< Cardinality(s) /\ Cardinality(t) # Cardinality(s)
    BY <1>6, <2>1, FS_Subset
  <2>3. Cardinality(t) \in Nat /\ Cardinality(s) \in Nat BY <1>1
  <2>4. Cardinality(t) < n BY <1>5, <2>2, <2>3
  <2> QED BY <1>4, <2>4
<1> QED BY <1>5, <1>6

Pick(s) == CHOOSE x \in s : TRUE

\* g has the sums of h over the subsets of S
Folds(g, h, S) ==
    g = [s \in SUBSET S |-> IF s = {} THEN 0 ELSE h[Pick(s)] + g[s \ {Pick(s)}]]

LEMMA FoldsAt ==
  ASSUME NEW S, NEW g, NEW h, Folds(g, h, S), NEW s \in SUBSET S
  PROVE  /\ s = {} => g[s] = 0
         /\ s # {} => g[s] = h[Pick(s)] + g[s \ {Pick(s)}]
<1>1. \A t \in SUBSET S : g[t] = IF t = {} THEN 0 ELSE h[Pick(t)] + g[t \ {Pick(t)}]
  <2> DEFINE F(t) == IF t = {} THEN 0 ELSE h[Pick(t)] + g[t \ {Pick(t)}]
  <2>1. g = [t \in SUBSET S |-> F(t)] BY DEF Folds
  <2> HIDE DEF F
  <2>2. \A t \in SUBSET S : g[t] = F(t) BY <2>1
  <2> QED BY <2>2 DEF F
<1> QED BY <1>1

LEMMA Picked == ASSUME NEW s, s # {} PROVE Pick(s) \in s
BY DEF Pick

\* there is one such g at most
LEMMA OneSum ==
  ASSUME NEW S, IsFiniteSet(S), NEW T \in SUBSET S, NEW g, NEW h, NEW k, NEW l,
         Folds(g, h, S), Folds(k, l, T), \A x \in T : h[x] = l[x]
  PROVE  \A s \in SUBSET T : g[s] = k[s]
<1> DEFINE B == {s \in SUBSET T : g[s] # k[s]}
<1> SUFFICES ASSUME B # {} PROVE FALSE OBVIOUS
<1>1. IsFiniteSet(T) BY FS_Subset
<1>2. PICK s \in B : \A t \in SUBSET s : t # s => t \notin B
  <2>1. B \in SUBSET SUBSET T /\ B # {} OBVIOUS
  <2> HIDE DEF B
  <2> QED BY <1>1, <2>1, Smallest
<1>3. CASE s = {}
  <2>1. g[s] = 0 /\ k[s] = 0 BY <1>3, FoldsAt
  <2> QED BY <2>1
<1>4. CASE s # {}
  <2>1. PICK p \in s : p = Pick(s) BY <1>4, Picked
  <2>2. g[s] = h[p] + g[s \ {p}] /\ k[s] = l[p] + k[s \ {p}]
    <3>1. s \in SUBSET S /\ s \in SUBSET T OBVIOUS
    <3> HIDE DEF B
    <3>2. g[s] = h[Pick(s)] + g[s \ {Pick(s)}]
      <4>1. Folds(g, h, S) /\ s \in SUBSET S BY <3>1
      <4> QED BY ONLY <1>4, <4>1, FoldsAt
    <3>3. k[s] = l[Pick(s)] + k[s \ {Pick(s)}] BY <1>4, <3>1, FoldsAt
    <3> QED BY <2>1, <3>2, <3>3
  <2>3. g[s \ {p}] = k[s \ {p}]
    <3>1. s \ {p} \in SUBSET s /\ s \ {p} # s /\ s \ {p} \in SUBSET T BY <2>1
    <3> QED BY <1>2, <3>1
  <2>4. h[p] = l[p] BY <2>1
  <2> QED BY <2>2, <2>3, <2>4
<1> QED BY <1>3, <1>4

LEMMA SumIs ==
  ASSUME NEW S, NEW h, \E g : Folds(g, h, S)
  PROVE  \E g : Folds(g, h, S) /\ Docs!SumFunctionOnSet(h, S) = g[S]
<1> DEFINE iter == CHOOSE g : Folds(g, h, S)
<1>1. Folds(iter, h, S) OBVIOUS
<1>2. Docs!SumFunctionOnSet(h, S) = iter[S]
  BY DEF Docs!SumFunctionOnSet, Docs!FoldFunctionOnSet, Docs!MapThenFoldSet, Folds, Pick
<1> QED BY <1>1, <1>2

LEMMA SumStep ==
  ASSUME NEW S, IsFiniteSet(S), NEW h, \E g : Folds(g, h, S),
         S # {} => \E g : Folds(g, h, S \ {Pick(S)})
  PROVE  Docs!SumFunctionOnSet(h, S) =
            IF S = {} THEN 0 ELSE h[Pick(S)] + Docs!SumFunctionOnSet(h, S \ {Pick(S)})
<1>1. PICK g : Folds(g, h, S) /\ Docs!SumFunctionOnSet(h, S) = g[S] BY SumIs
<1>2. CASE S = {}
  <2>1. Folds(g, h, S) /\ S \in SUBSET S BY <1>1
  <2>2. g[S] = 0 BY ONLY <1>2, <2>1, FoldsAt
  <2> QED BY <1>1, <1>2, <2>2
<1>3. CASE S # {}
  <2>1. PICK p \in S : p = Pick(S) BY <1>3, Picked
  <2>2. PICK k : Folds(k, h, S \ {p}) /\ Docs!SumFunctionOnSet(h, S \ {p}) = k[S \ {p}]
    BY <1>3, <2>1, SumIs
  <2>3. S \ {p} \in SUBSET S OBVIOUS
  <2>4. g[S \ {p}] = k[S \ {p}] BY <1>1, <2>2, <2>3, OneSum
  <2>5. g[S] = h[p] + g[S \ {p}] BY <1>1, <1>3, <2>1, FoldsAt
  <2> QED BY <1>1, <1>3, <2>1, <2>2, <2>4, <2>5
<1> QED BY <1>2, <1>3

\* and one at least
LEMMA SumExists ==
  ASSUME NEW S, IsFiniteSet(S), NEW h
  PROVE  \E g : Folds(g, h, S)
<1> DEFINE B == {s \in SUBSET S : ~\E g : Folds(g, h, s)}
<1> SUFFICES ASSUME B # {} PROVE FALSE OBVIOUS
<1>1. PICK s \in B : \A t \in SUBSET s : t # s => t \notin B
  <2>1. B \in SUBSET SUBSET S /\ B # {} OBVIOUS
  <2> HIDE DEF B
  <2> QED BY <2>1, Smallest
<1>2. \A t \in SUBSET s : t # s => \E g : Folds(g, h, t) BY <1>1
<1> DEFINE sum(t) == Docs!SumFunctionOnSet(h, t)
           G == [t \in SUBSET s |->
                    IF t # s THEN sum(t)
                    ELSE IF s = {} THEN 0 ELSE h[Pick(s)] + sum(s \ {Pick(s)})]
<1>3. ASSUME NEW t \in SUBSET s
      PROVE  G[t] = IF t = {} THEN 0 ELSE h[Pick(t)] + G[t \ {Pick(t)}]
  <2>1. CASE t = {} /\ t = s BY <2>1
  <2>2. CASE t = {} /\ t # s
    <3>1. sum(t) = 0
      <4>1. \E g : Folds(g, h, t) BY <1>2, <2>2
      <4>2. IsFiniteSet(t) BY <2>2, FS_EmptySet
      <4> QED BY <2>2, <4>1, <4>2, SumStep
    <3> QED BY <2>2, <3>1
  <2>3. CASE t # {}
    <3>1. PICK p \in t : p = Pick(t) BY <2>3, Picked
    <3>2. PICK u \in SUBSET s : u = t \ {p} OBVIOUS
    <3>3. u # s /\ u # t BY <3>1, <3>2
    <3>4. G[u] = sum(u) BY <3>3
    <3>5. CASE t = s BY <2>3, <3>1, <3>2, <3>4, <3>5
    <3>6. CASE t # s
      <4>1. (\E g : Folds(g, h, t)) /\ (\E g : Folds(g, h, u)) BY <1>2, <3>3, <3>6
      <4>2. IsFiniteSet(t) BY FS_Subset
      <4>3. sum(t) = h[p] + sum(u) BY <2>3, <3>1, <3>2, <4>1, <4>2, SumStep
      <4>4. G[t] = sum(t) BY <3>6
      <4> QED BY <2>3, <3>1, <3>2, <3>4, <4>3, <4>4
    <3> QED BY <3>5, <3>6
  <2> QED BY <2>1, <2>2, <2>3
<1>4. Folds(G, h, s)
  <2> DEFINE F(t) == IF t = {} THEN 0 ELSE h[Pick(t)] + G[t \ {Pick(t)}]
  <2>1. \A t \in SUBSET s : G[t] = F(t) BY <1>3
  <2>2. G = [t \in SUBSET s |-> G[t]] OBVIOUS
  <2> HIDE DEF G, F
  <2>3. G = [t \in SUBSET s |-> F(t)] BY <2>1, <2>2
  <2> QED BY <2>3 DEF Folds, F
<1> QED BY <1>1, <1>4

LEMMA SumRec ==
  ASSUME NEW S, IsFiniteSet(S), NEW h
  PROVE  Docs!SumFunctionOnSet(h, S) =
            IF S = {} THEN 0 ELSE h[Pick(S)] + Docs!SumFunctionOnSet(h, S \ {Pick(S)})
<1>1. IsFiniteSet(S \ {Pick(S)}) BY FS_Subset
<1> QED BY <1>1, SumExists, SumStep

LEMMA SumSame ==
  ASSUME NEW S, IsFiniteSet(S), NEW h, NEW l, \A x \in S : h[x] = l[x]
  PROVE  Docs!SumFunctionOnSet(h, S) = Docs!SumFunctionOnSet(l, S)
<1>1. PICK g : Folds(g, h, S) /\ Docs!SumFunctionOnSet(h, S) = g[S] BY SumExists, SumIs
<1>2. PICK k : Folds(k, l, S) /\ Docs!SumFunctionOnSet(l, S) = k[S] BY SumExists, SumIs
<1>3. g[S] = k[S]
  <2>1. S \in SUBSET S OBVIOUS
  <2>2. Folds(g, h, S) /\ Folds(k, l, S) BY <1>1, <1>2
  <2>3. \A s \in SUBSET S : g[s] = k[s] BY <2>1, <2>2, OneSum
  <2> QED BY <2>1, <2>3
<1> QED BY <1>1, <1>2, <1>3

LEMMA SumInt ==
  ASSUME NEW S, IsFiniteSet(S), NEW h, \A x \in S : h[x] \in Int
  PROVE  Docs!SumFunctionOnSet(h, S) \in Int
<1> DEFINE B == {s \in SUBSET S : Docs!SumFunctionOnSet(h, s) \notin Int}
<1> SUFFICES ASSUME B # {} PROVE FALSE OBVIOUS
<1>1. PICK s \in B : \A t \in SUBSET s : t # s => t \notin B
  <2>1. B \in SUBSET SUBSET S /\ B # {} OBVIOUS
  <2> HIDE DEF B
  <2> QED BY <2>1, Smallest
<1>2. IsFiniteSet(s) BY FS_Subset
<1>3. PICK sum : sum = Docs!SumFunctionOnSet(h, s) OBVIOUS
<1>4. CASE s = {}
  <2>1. Docs!SumFunctionOnSet(h, s) = 0 BY <1>2, <1>4, SumRec
  <2>2. Docs!SumFunctionOnSet(h, s) \notin Int BY <1>1
  <2> QED BY <2>1, <2>2
<1>5. CASE s # {}
  <2>1. PICK p \in s : p = Pick(s) BY <1>5, Picked
  <2>2. PICK m : m = Docs!SumFunctionOnSet(h, s \ {p}) OBVIOUS
  <2>3. m \in Int
    <3>1. s \ {p} \in SUBSET s /\ s \ {p} # s BY <2>1
    <3> QED BY <1>1, <2>2, <3>1
  <2>4. Docs!SumFunctionOnSet(h, s) = h[p] + m BY <1>2, <1>5, <2>1, <2>2, SumRec
  <2>5. h[p] \in Int BY <2>1
  <2>6. Docs!SumFunctionOnSet(h, s) \notin Int BY <1>1
  <2> QED BY <2>3, <2>4, <2>5, <2>6
<1> QED BY <1>4, <1>5

\* it does not matter which element is taken first
LEMMA SumWithout ==
  ASSUME NEW S, IsFiniteSet(S), NEW h, \A x \in S : h[x] \in Int, NEW y \in S
  PROVE  Docs!SumFunctionOnSet(h, S) = h[y] + Docs!SumFunctionOnSet(h, S \ {y})
<1> DEFINE sum(s) == Docs!SumFunctionOnSet(h, s)
           B == {s \in SUBSET S : \E z \in s : sum(s) # h[z] + sum(s \ {z})}
<1> SUFFICES ASSUME B # {} PROVE FALSE
  <2>1. S \in SUBSET S OBVIOUS
  <2> QED BY <2>1
<1>1. PICK s \in B : \A t \in SUBSET s : t # s => t \notin B
  <2>1. B \in SUBSET SUBSET S /\ B # {} OBVIOUS
  <2> HIDE DEF B
  <2> QED BY <2>1, Smallest
<1>2. PICK z \in s : sum(s) # h[z] + sum(s \ {z}) BY <1>1
<1>3. PICK p \in s : p = Pick(s) BY <1>2, Picked
<1>4. IsFiniteSet(s) BY FS_Subset
<1>5. sum(s) = h[p] + sum(s \ {p}) BY <1>3, <1>4, SumRec
<1>6. p # z BY <1>2, <1>5
<1>7. PICK u \in SUBSET s : u = s \ {p, z} OBVIOUS
<1>8. sum(s \ {p}) = h[z] + sum(u)
  <2>1. s \ {p} \in SUBSET s /\ s \ {p} # s /\ z \in s \ {p} /\ (s \ {p}) \ {z} = u
    BY <1>3, <1>6, <1>7
  <2> QED BY <1>1, <2>1
<1>9. sum(s \ {z}) = h[p] + sum(u)
  <2>1. s \ {z} \in SUBSET s /\ s \ {z} # s /\ p \in s \ {z} /\ (s \ {z}) \ {p} = u
    BY <1>2, <1>3, <1>6, <1>7
  <2> QED BY <1>1, <2>1
<1>10. sum(u) \in Int /\ h[p] \in Int /\ h[z] \in Int
  <2>1. IsFiniteSet(u) /\ \A x \in u : h[x] \in Int BY <1>4, <1>7, FS_Subset
  <2> QED BY <1>2, <1>3, <2>1, SumInt
<1> HIDE DEF sum, B
<1> QED BY <1>2, <1>5, <1>8, <1>9, <1>10

\* a sum over two sets
LEMMA SumUnion ==
  ASSUME NEW A, NEW C, IsFiniteSet(A), IsFiniteSet(C), A \cap C = {},
         NEW h, \A x \in A \cup C : h[x] \in Int
  PROVE  Docs!SumFunctionOnSet(h, A \cup C)
            = Docs!SumFunctionOnSet(h, A) + Docs!SumFunctionOnSet(h, C)
<1> DEFINE sum(s) == Docs!SumFunctionOnSet(h, s)
           B == {s \in SUBSET A : sum(s \cup C) # sum(s) + sum(C)}
<1> SUFFICES ASSUME B # {} PROVE FALSE
  <2>1. A \in SUBSET A OBVIOUS
  <2> QED BY <2>1
<1>1. PICK s \in B : \A t \in SUBSET s : t # s => t \notin B
  <2>1. B \in SUBSET SUBSET A /\ B # {} OBVIOUS
  <2> HIDE DEF B
  <2> QED BY <2>1, Smallest
<1>2. IsFiniteSet(s) /\ IsFiniteSet(s \cup C) BY FS_Subset, FS_Union
<1>3. sum(C) \in Int /\ sum(s) \in Int BY <1>2, SumInt
<1>4. CASE s = {}
  <2>1. s \cup C = C BY <1>4
  <2>2. sum(s) = 0 BY <1>2, <1>4, SumRec
  <2>3. sum(s \cup C) # sum(s) + sum(C) BY <1>1
  <2>4. PICK c \in Int : c = sum(C) BY <1>3
  <2>5. sum(s \cup C) = c /\ sum(s) + sum(C) = 0 + c BY <2>1, <2>2, <2>4
  <2> HIDE DEF sum, B
  <2> QED BY <2>3, <2>4, <2>5
<1>5. CASE s # {}
  <2>1. PICK p \in s : TRUE BY <1>5
  <2>2. PICK u \in SUBSET s : u = s \ {p} OBVIOUS
  <2>3. sum(u \cup C) = sum(u) + sum(C)
    <3>1. u # s BY <2>1, <2>2
    <3> QED BY <1>1, <3>1
  <2>4. sum(s) = h[p] + sum(u) BY <1>2, <2>1, <2>2, SumWithout
  <2>5. sum(s \cup C) = h[p] + sum(u \cup C)
    <3>1. (s \cup C) \ {p} = u \cup C /\ p \in s \cup C BY <2>1, <2>2
    <3>2. \A x \in s \cup C : h[x] \in Int OBVIOUS
    <3> QED BY <1>2, <3>1, <3>2, SumWithout
  <2>6. sum(u) \in Int /\ h[p] \in Int
    <3>1. IsFiniteSet(u) /\ \A x \in u : h[x] \in Int BY <1>2, <2>2, FS_Subset
    <3> QED BY <2>1, <3>1, SumInt
  <2>7. sum(s \cup C) # sum(s) + sum(C) BY <1>1
  <2> HIDE DEF sum, B
  <2> QED BY <1>3, <2>3, <2>4, <2>5, <2>6, <2>7
<1> QED BY <1>4, <1>5
-----------------------------------------------------------------------------
(* The credits of a journal entry.                                         *)

\* the lines of a journal entry that give the money
CreditsRight(credits) ==
    /\ credits \in Seq(Docs!Line)
    /\ group.kind = "JOURNAL ENTRY" =>
          Docs!SumFunction([k \in DOMAIN credits |-> credits[k].net])
             = Docs!SumFunctionOnSet(rows, Docs!Indices)

\* f lists m accounts once, and c what n expenses h sum up to on each of them
ByAccount(n, h, account, m, f, c) ==
    /\ n \in Nat /\ m \in Nat
    /\ \A i \in 1..n : h[i] \in Int /\ \E k \in 1..m : f[k] = account[i]
    /\ \A j, k \in 1..m : f[j] = f[k] => j = k
    /\ \A k \in 1..m : c[k] = Docs!SumFunctionOnSet(h, {i \in 1..n : account[i] = f[k]})

\* together they sum up to all expenses
LEMMA SumByAccount ==
  ASSUME NEW n, NEW h, NEW account, NEW m, NEW f, NEW c, ByAccount(n, h, account, m, f, c)
  PROVE  Docs!SumFunctionOnSet(c, 1..m) = Docs!SumFunctionOnSet(h, 1..n)
<1> DEFINE sum(s) == Docs!SumFunctionOnSet(h, s)
           Of(k)  == {i \in 1..n : account[i] = f[k]}
           All(K) == {i \in 1..n : \E k \in K : account[i] = f[k]}
           B      == {K \in SUBSET (1..m) : Docs!SumFunctionOnSet(c, K) # sum(All(K))}
<1> USE DEF ByAccount
<1>1. IsFiniteSet(1..n) /\ IsFiniteSet(1..m) BY FS_Interval
<1>2. ASSUME NEW s \in SUBSET (1..n) PROVE IsFiniteSet(s) /\ sum(s) \in Int
  <2>1. IsFiniteSet(s) BY <1>1, FS_Subset
  <2> QED BY <2>1, SumInt
<1>3. All(1..m) = 1..n OBVIOUS
<1>4. \A k \in 1..m : c[k] = sum(Of(k)) OBVIOUS
<1>5. ASSUME B # {} PROVE FALSE
  <2>1. PICK K \in B : \A L \in SUBSET K : L # K => L \notin B
    <3>1. B \in SUBSET SUBSET (1..m) OBVIOUS
    <3> HIDE DEF B
    <3> QED BY <1>1, <1>5, <3>1, Smallest
  <2>2. K \in SUBSET (1..m) /\ IsFiniteSet(K) BY <1>1, FS_Subset
  <2>3. CASE K = {}
    <3>1. Docs!SumFunctionOnSet(c, K) = 0 BY <2>2, <2>3, SumRec
    <3>2. All(K) = {} BY <2>3
    <3>3. sum(All(K)) = 0 BY <2>2, <2>3, <3>2, SumRec
    <3> QED BY <2>1, <3>1, <3>3
  <2>4. CASE K # {}
    <3>1. PICK p \in K : TRUE BY <2>4
    <3>2. PICK L \in SUBSET K : L = K \ {p} OBVIOUS
    <3>3. Docs!SumFunctionOnSet(c, L) = sum(All(L))
      <4>1. L # K BY <3>1, <3>2
      <4>2. L \in SUBSET (1..m) BY <2>2
      <4> QED BY <2>1, <4>1, <4>2
    <3>4. \A k \in K : c[k] \in Int
      <4>1. TAKE k \in K
      <4>2. Of(k) \in SUBSET (1..n) /\ k \in 1..m BY <2>2
      <4>3. c[k] = sum(Of(k)) BY <1>4, <4>2
      <4> QED BY <1>2, <4>2, <4>3
    <3>5. Docs!SumFunctionOnSet(c, K) = c[p] + Docs!SumFunctionOnSet(c, L)
      <4>1. Docs!SumFunctionOnSet(c, K) = c[p] + Docs!SumFunctionOnSet(c, K \ {p})
        BY ONLY <2>2, <3>1, <3>4, SumWithout
      <4> QED BY <3>2, <4>1
    <3>6. All(K) = Of(p) \cup All(L) /\ Of(p) \cap All(L) = {}
      BY <2>2, <3>1, <3>2
    <3>7. sum(Of(p) \cup All(L)) = sum(Of(p)) + sum(All(L))
      <4>1. Of(p) \in SUBSET (1..n) /\ All(L) \in SUBSET (1..n) OBVIOUS
      <4>2. IsFiniteSet(Of(p)) /\ IsFiniteSet(All(L)) BY <1>2, <4>1
      <4>3. \A x \in Of(p) \cup All(L) : h[x] \in Int BY <4>1
      <4> QED BY <3>6, <4>2, <4>3, SumUnion
    <3>8. c[p] = sum(Of(p)) BY <1>4, <2>2, <3>1
    <3>9. Docs!SumFunctionOnSet(c, K) # sum(All(K)) BY <2>1
    <3> HIDE DEF sum, Of, All, B
    <3> QED BY <3>3, <3>5, <3>6, <3>7, <3>8, <3>9
  <2> QED BY <2>3, <2>4
<1>6. 1..m \in SUBSET (1..m) OBVIOUS
<1>7. Docs!SumFunctionOnSet(c, 1..m) = sum(All(1..m)) BY <1>5, <1>6
<1> QED BY <1>3, <1>7

\* SetToSeq lists each account once
LEMMA AccountsListed ==
  ASSUME NEW A \in SUBSET {1, 2}
  PROVE  \E n \in Nat : /\ Docs!SetToSeq(A) \in [1..n -> A]
                        /\ \A j, k \in 1..n :
                              Docs!SetToSeq(A)[j] = Docs!SetToSeq(A)[k] => j = k
                        /\ \A a \in A : \E k \in 1..n : Docs!SetToSeq(A)[k] = a
<1>1. IsFiniteSet(A)
  <2>1. IsFiniteSet(1..2)
    <3>1. PICK a \in Int, b \in Int : a = 1 /\ b = 2 OBVIOUS
    <3> QED BY <3>1, FS_Interval
  <2>2. 1..2 = {1, 2} OBVIOUS
  <2> QED BY <2>1, <2>2, FS_Subset
<1>2. PICK n \in Nat : n = Cardinality(A) BY <1>1, FS_CardinalityType
<1>3. PICK b : b \in Bijection(1..n, A) BY <1>1, <1>2, FS_CardinalityType DEF ExistsBijection
<1> DEFINE f == CHOOSE g \in [1..Cardinality(A) -> A] : Docs!IsInjective(g)
<1>4. b \in [1..n -> A] /\ Docs!IsInjective(b)
  BY <1>3 DEF Bijection, Injection, IsInjective, Docs!IsInjective
<1>5. f \in [1..n -> A] /\ Docs!IsInjective(f)
  <2>1. \E g \in [1..Cardinality(A) -> A] : Docs!IsInjective(g) BY <1>2, <1>4
  <2> QED BY <1>2, <2>1
<1>6. Docs!SetToSeq(A) = f BY Zenon DEF Docs!SetToSeq, Docs!Cardinality, Cardinality
<1> HIDE DEF f
<1>7. f \in Injection(1..n, A) BY <1>5 DEF Docs!IsInjective, IsInjective, Injection
<1>8. f \in Surjection(1..n, A)
  <2>1. IsFiniteSet(1..n) /\ Cardinality(1..n) = n BY FS_Interval
  <2> QED BY <1>1, <1>2, <1>7, <2>1, FS_Injection
<1> QED BY <1>5, <1>6, <1>8 DEF Docs!IsInjective, Surjection

LEMMA CreditsAre ==
  ASSUME DocumentsAssumption, GroupOK, links' \in [Docs!Indices -> Nat]
  PROVE  CreditsRight(Docs!CreditLines)
<1>1. PICK n \in Nat : n = Len(group.exps) BY GroupParts DEF GroupOK
<1>2. Docs!Indices = 1..n BY <1>1 DEF Docs!Indices
<1>3. \A i \in 1..n : rows[i] \in Int BY <1>2, RowIs
<1>4. CASE group.kind # "JOURNAL ENTRY"
  <2>1. Docs!CreditLines = << >> BY <1>4 DEF Docs!CreditLines
  <2>2. << >> \in Seq(Docs!Line) OBVIOUS
  <2> QED BY <1>4, <2>1, <2>2 DEF CreditsRight
<1>5. CASE group.kind = "JOURNAL ENTRY" /\ ~group.conf.single
  <2>1. PICK cs : cs = [i \in 1..n |-> Docs!CreditLine(i)] OBVIOUS
  <2>2. Docs!CreditLines = cs BY <1>2, <1>5, <2>1 DEF Docs!CreditLines
  <2>3. ASSUME NEW i \in 1..n PROVE cs[i] \in Docs!Line /\ cs[i].net = rows[i]
    <3>1. rows[i] \in Int /\ links'[i] \in Nat BY <1>2, <1>3
    <3>2. cs[i] = [net |-> rows[i], gross |-> None, tax |-> None, rate |-> None, code |-> "none",
                   links |-> links'[i]]
      BY <2>1 DEF Docs!CreditLine, Docs!Base
    <3> QED BY <3>1, <3>2 DEF Docs!Line
  <2>4. cs \in Seq(Docs!Line)
    <3>1. cs \in [1..n -> Docs!Line] BY <2>1, <2>3
    <3> QED BY <3>1
  <2>5. PICK h : h = [k \in DOMAIN cs |-> cs[k].net] OBVIOUS
  <2>6. DOMAIN cs = 1..n /\ DOMAIN h = 1..n /\ \A i \in 1..n : h[i] = rows[i] BY <2>1, <2>3, <2>5
  <2>7. Docs!SumFunctionOnSet(h, 1..n) = Docs!SumFunctionOnSet(rows, 1..n)
    <3>1. IsFiniteSet(1..n) BY FS_Interval
    <3> QED BY <2>6, <3>1, SumSame
  <2>8. Docs!SumFunction(h) = Docs!SumFunctionOnSet(rows, 1..n)
    BY <2>6, <2>7 DEF Docs!SumFunction
  <2> QED BY <1>2, <2>2, <2>4, <2>5, <2>8 DEF CreditsRight
<1>6. CASE group.kind = "JOURNAL ENTRY" /\ group.conf.single
  <2>1. PICK account : account = [i \in 1..n |-> group.exps[i].account] OBVIOUS
  <2>2. PICK A \in SUBSET {1, 2} : A = {group.exps[i].account : i \in 1..n}
    <3>1. \A i \in 1..n : group.exps[i].account \in {1, 2}
      BY <1>2, GroupParts DEF GroupOK, Docs!Expense
    <3> QED BY <3>1
  <2>3. PICK f : f = Docs!SetToSeq(A) OBVIOUS
  <2>4. PICK m \in Nat : /\ f \in [1..m -> A]
                         /\ \A j, k \in 1..m : f[j] = f[k] => j = k
                         /\ \A a \in A : \E k \in 1..m : f[k] = a
    BY <2>3, AccountsListed
  <2>5. PICK cs : cs = [k \in 1..m |-> Docs!CreditOf(f[k])] OBVIOUS
  <2>6. Docs!CreditLines = cs
    <3>1. Len(f) = m BY <2>4
    <3> QED BY <1>2, <1>6, <2>2, <2>3, <2>5, <3>1 DEF Docs!CreditLines, Docs!SingleCreditLines
  <2>7. ASSUME NEW k \in 1..m
        PROVE  /\ cs[k] \in Docs!Line
               /\ cs[k].net = Docs!SumFunctionOnSet(rows, {i \in 1..n : account[i] = f[k]})
    <3>1. PICK s \in SUBSET (1..n) : s = {i \in 1..n : account[i] = f[k]} OBVIOUS
    <3>2. s = {i \in Docs!Indices : group.exps[i].account = f[k]} BY <1>2, <2>1, <3>1
    <3>3. Docs!SumFunctionOnSet(rows, s) \in Int
      <4>1. IsFiniteSet(s)
        <5>1. IsFiniteSet(1..n) BY FS_Interval
        <5> QED BY <5>1, FS_Subset
      <4> QED BY <1>3, <4>1, SumInt
    <3>4. PICK t \in Int : t = Docs!SumFunctionOnSet(rows, s) BY <3>3
    <3>5. cs[k] = [gross |-> None, tax |-> None, rate |-> None, code |-> "none", links |-> 0,
                   net |-> t]
      BY <2>5, <3>2, <3>4 DEF Docs!CreditOf
    <3> QED BY <3>1, <3>4, <3>5 DEF Docs!Line
  <2>8. cs \in Seq(Docs!Line)
    <3>1. cs \in [1..m -> Docs!Line] BY <2>5, <2>7
    <3> QED BY <3>1
  <2>9. PICK h : h = [k \in DOMAIN cs |-> cs[k].net] OBVIOUS
  <2>10. /\ DOMAIN h = 1..m
         /\ \A k \in 1..m :
               h[k] = Docs!SumFunctionOnSet(rows, {i \in 1..n : account[i] = f[k]})
    BY <2>5, <2>7, <2>9
  <2>11. \A i \in 1..n : \E k \in 1..m : f[k] = account[i]
    <3>1. \A i \in 1..n : account[i] \in A BY <2>1, <2>2
    <3> QED BY <2>4, <3>1
  <2>12. Docs!SumFunctionOnSet(h, 1..m) = Docs!SumFunctionOnSet(rows, 1..n)
    <3>1. \A j, k \in 1..m : f[j] = f[k] => j = k BY <2>4
    <3>2. \A k \in 1..m : h[k] = Docs!SumFunctionOnSet(rows, {i \in 1..n : account[i] = f[k]})
      BY <2>10
    <3>3. n \in Nat /\ m \in Nat BY <1>1, <2>4
    <3>4. ByAccount(n, rows, account, m, f, h)
      BY ONLY <1>3, <2>11, <3>1, <3>2, <3>3 DEF ByAccount
    <3> QED BY ONLY <3>4, SumByAccount
  <2>13. Docs!SumFunction(h) = Docs!SumFunctionOnSet(rows, 1..n)
    BY <2>10, <2>12 DEF Docs!SumFunction
  <2> QED BY <1>2, <2>6, <2>8, <2>9, <2>13 DEF CreditsRight
<1> QED BY <1>4, <1>5, <1>6
-----------------------------------------------------------------------------
(* The document.                                                           *)

\* what NetSuite has
BooksRight ==
    /\ \A i \in Docs!Indices :
          Split(books.debits[i], group.exps[i], rows[i]) /\ Linked(books.debits[i])
    /\ books.debits = [i \in Docs!Indices |-> books.debits[i]]
    /\ CreditsRight(books.credits)
    /\ books.details = IF Docs!Overridden THEN Docs!TaxDetails ELSE {}

\* once a document was built its objects have the links of their expenses
DocsRight ==
    /\ group \in [kind: Kinds, exps: Groups, conf: Settings]
    /\ noGross \in BOOLEAN
    /\ at \in {"new", "created", "dated", "ungrossed", "complete", "failed"}
    /\ at \notin {"new", "failed"} => GroupOK
    /\ at \in {"created", "dated", "ungrossed"} => links \in [Docs!Indices -> Nat]
    /\ at \in {"dated", "ungrossed"} => \A i \in Docs!Indices : links[i] > 0
    /\ at = "complete" => BooksRight

LEMMA NoGrossKeeps ==
  ASSUME NEW x, NEW amount, NEW ls, Split(ls, x, amount), Linked(ls)
  PROVE  LET less == [k \in DOMAIN ls |-> [ls[k] EXCEPT !.gross = None]]
         IN  Split(less, x, amount) /\ Linked(less)
<1> DEFINE less == [k \in DOMAIN ls |-> [ls[k] EXCEPT !.gross = None]]
<1>1. ASSUME NEW l \in Docs!Line
      PROVE  LET m == [l EXCEPT !.gross = None]
             IN  m \in Docs!Line /\ m.net = l.net /\ m.code = l.code /\ m.tax = l.tax /\ m.links = l.links
  BY DEF Docs!Line
<1>2. CASE ls \in [whole: Docs!Line]
  <2>1. PICK l \in Docs!Line : l = ls.whole BY <1>2
  <2>2. PICK m : m = [l EXCEPT !.gross = None] OBVIOUS
  <2>3. /\ m \in Docs!Line /\ m.net = l.net /\ m.code = l.code /\ m.tax = l.tax
        /\ m.links = l.links
    BY <1>1, <2>2
  <2>4. less = [whole |-> m] BY <1>2, <2>1, <2>2
  <2>5. Split(less, x, amount) BY <1>2, <2>1, <2>3, <2>4 DEF Split
  <2>6. Linked(less) BY <1>2, <2>1, <2>3, <2>4 DEF Linked
  <2> QED BY <2>5, <2>6
<1>3. CASE ls \in [taxed: Docs!Line, rest: Docs!Line]
  <2>1. PICK l \in Docs!Line : l = ls.taxed BY <1>3
  <2>2. PICK m : m = [l EXCEPT !.gross = None] OBVIOUS
  <2>3. /\ m \in Docs!Line /\ m.net = l.net /\ m.code = l.code /\ m.tax = l.tax
        /\ m.links = l.links
    BY <1>1, <2>2
  <2>4. PICK r \in Docs!Line : r = ls.rest BY <1>3
  <2>5. PICK s : s = [r EXCEPT !.gross = None] OBVIOUS
  <2>6. /\ s \in Docs!Line /\ s.net = r.net /\ s.code = r.code /\ s.tax = r.tax
        /\ s.links = r.links
    BY <1>1, <2>5
  <2>7. less = [taxed |-> m, rest |-> s] BY <1>3, <2>1, <2>2, <2>4, <2>5
  <2>8. Split(less, x, amount) BY <1>3, <2>1, <2>3, <2>4, <2>6, <2>7 DEF Split
  <2>9. Linked(less) BY <1>3, <2>1, <2>3, <2>4, <2>6, <2>7 DEF Linked
  <2> QED BY <2>8, <2>9
<1> QED BY <1>2, <1>3 DEF Split

LEMMA SplitSame ==
  ASSUME UNCHANGED <<group, rows>>, NEW i,
         Split(books'.debits[i], group.exps[i], rows[i])
  PROVE  Split(books.debits[i], group.exps[i], rows[i])'
<1>1. PICK ls : ls = books'.debits[i] OBVIOUS
<1>2. PICK x : x = group.exps[i] OBVIOUS
<1>3. PICK amount : amount = rows[i] OBVIOUS
<1>4. /\ Docs!Overridden' = Docs!Overridden /\ TaxOn(x)' = TaxOn(x)
      /\ Docs!Modified(amount, x)' = Docs!Modified(amount, x)
  BY DEF TaxOn, Docs!HasTax, Docs!Overridden, Docs!Modified
<1>5. Split(ls, x, amount)' BY <1>1, <1>2, <1>3, <1>4 DEF Split
<1> QED BY <1>1, <1>2, <1>3, <1>5 DEF Split, TaxOn, Docs!HasTax, Docs!Overridden, Docs!Modified

LEMMA CreditsSame ==
  ASSUME UNCHANGED <<group, rows>>, CreditsRight(books'.credits)
  PROVE  CreditsRight(books.credits)'
<1>1. PICK cs : cs = books'.credits OBVIOUS
<1>2. PICK nets : nets = [k \in DOMAIN cs |-> cs[k].net] OBVIOUS
<1>3. /\ cs \in Seq(Docs!Line)
      /\ group.kind = "JOURNAL ENTRY" =>
            Docs!SumFunction(nets) = Docs!SumFunctionOnSet(rows, Docs!Indices)
  BY <1>1, <1>2 DEF CreditsRight
<1>4. Docs!Indices' = Docs!Indices BY DEF Docs!Indices
<1>5. Docs!SumFunctionOnSet(rows, Docs!Indices)' = Docs!SumFunctionOnSet(rows, Docs!Indices)
  BY <1>4
<1> QED BY <1>1, <1>2, <1>3, <1>5 DEF CreditsRight

\* a document built now, with its gross amounts or without
LEMMA BuiltRight ==
  ASSUME DocumentsAssumption, GroupOK, noGross \in BOOLEAN, UNCHANGED <<group, rows>>,
         links' \in [Docs!Indices -> Nat], \A i \in Docs!Indices : links'[i] > 0,
         NEW date,
         books' = Docs!Document(date)
            \/ books' = [Docs!Document(date) EXCEPT !.debits = Docs!NoGrossIn(@)]
  PROVE  BooksRight'
<1>1. /\ Docs!Document(date).debits = Docs!Lines
      /\ Docs!Document(date).details = IF Docs!Overridden THEN Docs!TaxDetails ELSE {}
  BY DEF Docs!Document
<1>2. books'.details = IF Docs!Overridden THEN Docs!TaxDetails ELSE {}
  BY <1>1 DEF Docs!Document
<1>3. books'.debits = Docs!Lines \/ books'.debits = Docs!NoGrossIn(Docs!Lines)
  BY <1>1 DEF Docs!Document
<1> DEFINE ds == books'.debits
<1>4. ds = [i \in Docs!Indices |-> ds[i]]
  <2>1. Docs!Lines = [i \in Docs!Indices |-> Docs!Lines[i]]
    <3> DEFINE L(i) == CASE group.kind = "BILL"               -> Docs!BillLines(i)
                         [] group.kind = "EXPENSE REPORT"     -> Docs!ReportLines(i)
                         [] group.kind = "CREDIT CARD CHARGE" -> Docs!ChargeLines(i)
                         [] group.kind = "JOURNAL ENTRY"      -> Docs!DebitLines(i)
    <3>1. Docs!Lines = [i \in Docs!Indices |-> L(i)] BY DEF Docs!Lines
    <3> HIDE DEF L
    <3> QED BY <3>1
  <2>2. Docs!NoGrossIn(Docs!Lines) = [i \in Docs!Indices |-> Docs!NoGrossIn(Docs!Lines)[i]]
    <3>1. DOMAIN Docs!Lines = Docs!Indices BY DEF Docs!Lines
    <3> QED BY <3>1 DEF Docs!NoGrossIn
  <2> QED BY <1>3, <2>1, <2>2
<1>5. CreditsRight(books.credits)'
  <2>1. PICK cs : cs = Docs!CreditLines OBVIOUS
  <2>2. books'.credits = cs BY <2>1 DEF Docs!Document
  <2>3. CreditsRight(cs) BY <2>1, CreditsAre
  <2> QED BY <2>2, <2>3, CreditsSame
<1>6. ASSUME NEW i \in Docs!Indices
      PROVE  Split(books'.debits[i], group.exps[i], rows[i]) /\ Linked(books'.debits[i])
  <2>1. links'[i] \in Nat /\ links'[i] > 0 OBVIOUS
  <2>2. PICK ls : ls = Docs!Lines[i] OBVIOUS
  <2>3. Split(ls, group.exps[i], rows[i]) /\ Linked(ls) BY <2>1, <2>2, LinesRight
  <2>4. PICK less : less = [k \in DOMAIN ls |-> [ls[k] EXCEPT !.gross = None]] OBVIOUS
  <2>5. Split(less, group.exps[i], rows[i]) /\ Linked(less) BY <2>3, <2>4, NoGrossKeeps
  <2>6. i \in DOMAIN Docs!Lines BY DEF Docs!Lines
  <2>7. Docs!NoGrossIn(Docs!Lines)[i] = less BY <2>2, <2>4, <2>6 DEF Docs!NoGrossIn
  <2> QED BY <1>3, <2>2, <2>3, <2>5, <2>7
<1>7. /\ Docs!Indices' = Docs!Indices /\ Docs!Overridden' = Docs!Overridden
      /\ Docs!TaxDetails' = Docs!TaxDetails
  BY DEF Docs!Indices, Docs!Overridden, Docs!TaxDetails
<1>8. ASSUME NEW i \in Docs!Indices
      PROVE  Split(books.debits[i], group.exps[i], rows[i])' /\ Linked(books.debits[i])'
  <2>1. Split(books.debits[i], group.exps[i], rows[i])' BY <1>6, SplitSame
  <2>2. Linked(books.debits[i])' BY <1>6 DEF Linked
  <2> QED BY <2>1, <2>2
<1>9. books'.debits = [i \in Docs!Indices' |-> books'.debits[i]] BY <1>7, <1>4
<1> QED BY <1>2, <1>7, <1>8, <1>5, <1>9 DEF BooksRight

LEMMA DocsInit == DocumentsAssumption /\ Docs!Init => DocsRight
BY DEF Docs!Init, DocsRight

LEMMA DocsStep ==
  ASSUME DocumentsAssumption, DocsRight, [Docs!Next]_(Docs!vars)
  PROVE  DocsRight'
<1>1. CASE UNCHANGED Docs!vars
  <2>1. /\ UNCHANGED <<group, rows, links, at, noGross, books>>
        /\ Docs!Indices' = Docs!Indices /\ Docs!Overridden' = Docs!Overridden
        /\ Docs!TaxDetails' = Docs!TaxDetails /\ (GroupOK' <=> GroupOK)
    BY <1>1 DEF Docs!vars, Docs!Indices, Docs!Overridden, Docs!TaxDetails, GroupOK, Docs!Refund
  <2>2. ASSUME BooksRight PROVE BooksRight'
    <3>1. ASSUME NEW i \in Docs!Indices
          PROVE  Split(books.debits[i], group.exps[i], rows[i])' /\ Linked(books.debits[i])'
      <4>1. Split(books'.debits[i], group.exps[i], rows[i]) /\ Linked(books.debits[i])
        BY <2>1, <2>2 DEF BooksRight
      <4>2. Split(books.debits[i], group.exps[i], rows[i])' BY <2>1, <4>1, SplitSame
      <4>3. Linked(books.debits[i])' BY <2>1, <4>1 DEF Linked
      <4> QED BY <4>2, <4>3
    <3>2. CreditsRight(books.credits)'
      <4>1. CreditsRight(books'.credits) BY <2>1, <2>2 DEF BooksRight
      <4> QED BY <2>1, <4>1, CreditsSame
    <3> QED BY <2>1, <2>2, <3>1, <3>2 DEF BooksRight
  <2> QED BY <2>1, <2>2 DEF DocsRight
<1>2. ASSUME group' = group, rows' = rows PROVE GroupOK' <=> GroupOK
  BY <1>2 DEF GroupOK, Docs!Indices, Docs!Refund
<1>3. ASSUME group' = group PROVE Docs!Indices' = Docs!Indices
  BY <1>3 DEF Docs!Indices
<1>4. ASSUME links \in [Docs!Indices -> Nat], Docs!AddLinks
      PROVE  links' \in [Docs!Indices -> Nat] /\ \A i \in Docs!Indices : links'[i] > 0
  BY <1>4 DEF Docs!AddLinks
<1>5. CASE Docs!Create
  <2>1. group' = group /\ at' = "created" /\ noGross' \in BOOLEAN BY <1>5 DEF Docs!Create
  <2>2. GroupOK' BY <1>5, <2>1 DEF Docs!Create, GroupOK, DocsRight, Docs!Indices, Docs!Refund
  <2>3. links' \in [Docs!Indices' -> Nat] BY <1>3, <1>5, <2>1 DEF Docs!Create
  <2> QED BY <2>1, <2>2, <2>3 DEF DocsRight
<1>6. CASE Docs!Raise \/ Docs!Refuse
  BY <1>6 DEF Docs!Raise, Docs!Refuse, Docs!RollBack, DocsRight
<1>7. CASE Docs!Accept
  <2>1. /\ group' = group /\ rows' = rows /\ noGross' = noGross /\ at' = "complete"
        /\ books' = Docs!Document("spent") /\ at = "created"
    BY <1>7 DEF Docs!Accept
  <2>2. links' \in [Docs!Indices -> Nat] /\ \A i \in Docs!Indices : links'[i] > 0
    BY <1>4, <1>7, <2>1 DEF Docs!Accept, DocsRight
  <2>3. GroupOK BY <2>1 DEF DocsRight
  <2>4. BooksRight' BY <2>1, <2>2, <2>3, BuiltRight DEF DocsRight
  <2> QED BY <1>2, <2>1, <2>3, <2>4 DEF DocsRight
<1>8. CASE Docs!ClosedPeriod
  <2>1. CASE at' = "failed"
    BY <1>8, <2>1 DEF Docs!ClosedPeriod, Docs!RollBack, DocsRight
  <2>2. CASE at' # "failed"
    <3>1. at' = "dated" /\ UNCHANGED <<group, rows, noGross>> /\ at = "created"
      BY <1>8, <2>2 DEF Docs!ClosedPeriod, Docs!RollBack
    <3>2. links' \in [Docs!Indices -> Nat] /\ \A i \in Docs!Indices : links'[i] > 0
      BY <1>4, <1>8, <3>1 DEF Docs!ClosedPeriod, DocsRight
    <3> QED BY <1>2, <1>3, <3>1, <3>2 DEF DocsRight
  <2> QED BY <2>1, <2>2
<1>9. CASE Docs!Redate
  <2>1. at = "dated" /\ group' = group /\ noGross' = noGross
    BY <1>9 DEF Docs!Redate, Docs!RollBack
  <2>2. links' \in [Docs!Indices -> Nat] /\ \A i \in Docs!Indices : links'[i] > 0
    BY <1>4, <1>9, <2>1 DEF Docs!Redate, DocsRight
  <2>3. CASE at' = "failed" BY <2>1, <2>3 DEF DocsRight
  <2>4. CASE at' # "failed"
    <3>1. at' = "complete" /\ books' = Docs!Document("month") /\ rows' = rows
      BY <1>9, <2>4 DEF Docs!Redate, Docs!RollBack
    <3>2. GroupOK BY <2>1 DEF DocsRight
    <3>3. BooksRight' BY <2>1, <2>2, <3>1, <3>2, BuiltRight DEF DocsRight
    <3> QED BY <1>2, <2>1, <3>1, <3>2, <3>3 DEF DocsRight
  <2> QED BY <2>3, <2>4
<1>10. CASE Docs!DenyGross
  <2>1. at' = "ungrossed" /\ UNCHANGED <<group, rows, noGross>> /\ at = "created"
    BY <1>10 DEF Docs!DenyGross
  <2>2. links' \in [Docs!Indices -> Nat] /\ \A i \in Docs!Indices : links'[i] > 0
    BY <1>4, <1>10, <2>1 DEF Docs!DenyGross, DocsRight
  <2> QED BY <1>2, <1>3, <2>1, <2>2 DEF DocsRight
<1>11. CASE Docs!Ungross
  <2>1. at = "ungrossed" /\ group' = group /\ noGross' = TRUE /\ Docs!AddLinks
    BY <1>11 DEF Docs!Ungross
  <2>2. links' \in [Docs!Indices -> Nat] /\ \A i \in Docs!Indices : links'[i] > 0
    BY <1>4, <2>1 DEF DocsRight
  <2>3. CASE at' = "failed" BY <2>1, <2>3 DEF DocsRight
  <2>4. CASE at' # "failed"
    <3>1. /\ at' = "complete" /\ rows' = rows
          /\ books' = [Docs!Document("spent") EXCEPT !.debits = Docs!NoGrossIn(@)]
      BY <1>11, <2>4 DEF Docs!Ungross
    <3>2. GroupOK BY <2>1 DEF DocsRight
    <3>3. BooksRight' BY <2>1, <2>2, <3>1, <3>2, BuiltRight DEF DocsRight
    <3> QED BY <1>2, <2>1, <3>1, <3>2, <3>3 DEF DocsRight
  <2> QED BY <2>3, <2>4
<1> QED BY <1>1, <1>5, <1>6, <1>7, <1>8, <1>9, <1>10, <1>11 DEF Docs!Next

LEMMA DocsInvariant == DocumentsAssumption => (Docs!Spec => []DocsRight)
<1> SUFFICES ASSUME DocumentsAssumption PROVE Docs!Spec => []DocsRight OBVIOUS
<1>1. Docs!Init => DocsRight BY DocsInit
<1>2. DocsRight /\ [Docs!Next]_(Docs!vars) => DocsRight' BY DocsStep
<1> QED BY <1>1, <1>2, PTL DEF Docs!Spec
\* types of what DocsRight leaves open; NetSuite gets one document at most
DocsTyped ==
    /\ rows \in Seq(Int) /\ links \in Seq(Nat) /\ tries \in 0..MaxTries
    /\ books.date \in {"none", "spent", "month"}
    /\ at # "complete" => books = Docs!NoBooks

LEMMA DocsTypedStep ==
  ASSUME DocumentsAssumption, DocsRight, DocsTyped, [Docs!Next]_(Docs!vars)
  PROVE  DocsTyped'
<1>1. PICK n \in Nat : n = Len(group.exps) BY GroupParts DEF DocsRight
<1>2. Docs!Indices = 1..n BY <1>1 DEF Docs!Indices
<1>3. MaxTries \in Nat BY DEF DocumentsAssumption
<1>4. ASSUME at \in {"created", "dated", "ungrossed"}, Docs!AddLinks PROVE links' \in Seq(Nat)
  <2>1. \A i \in 1..n : links[i] \in Nat BY <1>2, <1>4 DEF DocsRight
  <2>2. links' \in [1..n -> Nat] BY <1>2, <1>4, <2>1 DEF Docs!AddLinks
  <2> QED BY <2>2
<1>5. ASSUME NEW date \in {"spent", "month"},
             books' = Docs!Document(date)
                \/ books' = [Docs!Document(date) EXCEPT !.debits = Docs!NoGrossIn(@)]
      PROVE  books'.date = date
  BY <1>5 DEF Docs!Document
<1>6. CASE UNCHANGED Docs!vars BY <1>6 DEF Docs!vars, DocsTyped, Docs!NoBooks
<1>7. CASE Docs!Create
  <2>1. /\ tries' = tries + 1 /\ tries < MaxTries /\ books' = books /\ at # "complete"
        /\ rows' = [i \in 1..n |-> IF Docs!Refund THEN Docs!Abs(group.exps[i].amount)
                                   ELSE group.exps[i].amount]
        /\ links' = [i \in 1..n |-> 0]
    BY <1>2, <1>7 DEF Docs!Create
  <2>2. rows' \in Seq(Int)
    <3>1. ASSUME NEW i \in 1..n PROVE rows'[i] \in Int
      <4>1. group.exps[i] \in Docs!Expense BY <1>2, GroupParts DEF DocsRight
      <4> QED BY <2>1, <4>1 DEF Docs!Expense, Docs!Abs
    <3>2. rows' \in [1..n -> Int] BY <2>1, <3>1
    <3> QED BY <3>2
  <2>3. links' \in Seq(Nat)
    <3>1. links' \in [1..n -> Nat] BY <2>1
    <3> QED BY <3>1
  <2>4. tries' \in 0..MaxTries BY <1>3, <2>1 DEF DocsTyped
  <2> QED BY <2>1, <2>2, <2>3, <2>4 DEF DocsTyped, Docs!NoBooks
<1>8. ASSUME at \in {"created", "dated", "ungrossed"}, rows' \in {rows, << >>}, tries' = tries,
             links' = links \/ Docs!AddLinks,
             \/ books' = books
             \/ at' = "complete" /\ books'.date \in {"spent", "month"}
      PROVE  DocsTyped'
  <2>1. links' \in Seq(Nat) BY <1>4, <1>8 DEF DocsTyped
  <2>2. rows' \in Seq(Int)
    <3>1. rows \in Seq(Int) /\ << >> \in Seq(Int) BY DEF DocsTyped
    <3> QED BY <1>8, <3>1
  <2>3. books'.date \in {"none", "spent", "month"} BY <1>8 DEF DocsTyped
  <2>4. at' # "complete" => books' = Docs!NoBooks BY <1>8 DEF DocsTyped
  <2> QED BY <1>8, <2>1, <2>2, <2>3, <2>4 DEF DocsTyped, Docs!NoBooks
<1>9. CASE Docs!Raise \/ Docs!Refuse BY <1>8, <1>9 DEF Docs!Raise, Docs!Refuse, Docs!RollBack
<1>10. CASE Docs!Accept BY <1>5, <1>8, <1>10 DEF Docs!Accept
<1>11. CASE Docs!ClosedPeriod BY <1>8, <1>11 DEF Docs!ClosedPeriod, Docs!RollBack
<1>12. CASE Docs!Redate BY <1>5, <1>8, <1>12 DEF Docs!Redate, Docs!RollBack
<1>13. CASE Docs!DenyGross BY <1>8, <1>13 DEF Docs!DenyGross
<1>14. CASE Docs!Ungross BY <1>5, <1>8, <1>14 DEF Docs!Ungross
<1> QED BY <1>6, <1>7, <1>9, <1>10, <1>11, <1>12, <1>13, <1>14 DEF Docs!Next

\* The variables of Documents keep their types: a document has one line or two for each
\* expense, and only lines NetSuite can take.
THEOREM DocsTypes == ASSUME DocumentsAssumption PROVE Docs!Spec => []Docs!TypeOK
<1>1. Docs!Init => DocsTyped
  <2> SUFFICES ASSUME Docs!Init PROVE DocsTyped OBVIOUS
  <2>1. MaxTries \in Nat BY DEF DocumentsAssumption
  <2>2. rows = << >> /\ links = << >> /\ tries = 0 /\ books = Docs!NoBooks BY DEF Docs!Init
  <2>3. << >> \in Seq(Int) /\ << >> \in Seq(Nat) OBVIOUS
  <2> QED BY <2>1, <2>2, <2>3 DEF DocsTyped, Docs!NoBooks
<1>2. DocsRight /\ DocsTyped /\ [Docs!Next]_(Docs!vars) => DocsTyped' BY DocsTypedStep
<1>3. ASSUME DocsRight, DocsTyped PROVE Docs!TypeOK
  <2>1. group.kind \in Kinds /\ group.exps \in Groups /\ group.conf \in Settings
    BY <1>3 DEF DocsRight
  <2>2. books.debits \in Seq(Docs!Parts) /\ books.credits \in Seq(Docs!Line)
    <3>1. CASE at = "complete"
      <4>1. BooksRight BY <1>3, <3>1 DEF DocsRight
      <4>2. PICK n \in Nat : n = Len(group.exps) BY <1>3, GroupParts DEF DocsRight
      <4>3. PICK ds : ds = books.debits OBVIOUS
      <4>4. ASSUME NEW i \in 1..n PROVE ds[i] \in Docs!Parts
        BY <4>1, <4>2, <4>3 DEF BooksRight, Split, Docs!Parts, Docs!Indices
      <4>5. ds \in [1..n -> Docs!Parts] BY <4>1, <4>2, <4>3, <4>4 DEF BooksRight, Docs!Indices
      <4>6. ds \in Seq(Docs!Parts) BY <4>5
      <4> QED BY <4>1, <4>3, <4>6 DEF BooksRight, CreditsRight
    <3>2. CASE at # "complete"
      <4>1. books.debits = << >> /\ books.credits = << >>
        BY <1>3, <3>2 DEF DocsTyped, Docs!NoBooks
      <4> QED BY <4>1
    <3> QED BY <3>1, <3>2
  <2> QED BY <1>3, <2>1, <2>2 DEF Docs!TypeOK, DocsRight, DocsTyped
<1>4. DocsRight /\ DocsTyped => Docs!TypeOK BY <1>3
<1> QED BY <1>1, <1>2, <1>4, DocsInvariant, PTL DEF Docs!Spec
-----------------------------------------------------------------------------
(* What a document promises.                                               *)

\* Every line that takes money has the URL of its expense, also after the date or the
\* gross amounts were refused and the document was built again from the same objects.
THEOREM LinksPresent == ASSUME DocumentsAssumption PROVE Docs!Spec => []Docs!LinkPresent
<1>1. DocsRight => Docs!LinkPresent
  BY DEF DocsRight, BooksRight, Linked, Docs!LinkPresent, Docs!Sent
<1> QED BY <1>1, DocsInvariant, PTL

\* However the tax of an expense splits its line, the net amounts that are posted
\* add up to the amount less the tax.
THEOREM NetsKept == ASSUME DocumentsAssumption PROVE Docs!Spec => []Docs!NetKept
<1>1. ASSUME DocsRight, Docs!Sent PROVE Docs!NetKept
  <2>1. GroupOK /\ BooksRight BY <1>1 DEF DocsRight, Docs!Sent
  <2>2. ASSUME NEW i \in Docs!Indices
        PROVE  Docs!Add(books.debits[i], Docs!Net)
                  = rows[i] - (IF Docs!Taxed(group.exps[i]) THEN group.exps[i].tax ELSE 0)
    <3>1. PICK ls : ls = books.debits[i] OBVIOUS
    <3>2. PICK x \in Docs!Expense : x = group.exps[i] BY <2>1, GroupParts DEF GroupOK
    <3>3. PICK amount \in Int : amount = rows[i] BY <2>1, RowIs
    <3>4. Split(ls, x, amount) BY <2>1, <3>1, <3>2, <3>3 DEF BooksRight
    <3>5. Docs!Taxed(x) => x.tax \in Int /\ x.rate \in Nat BY DEF Docs!Expense, Docs!Taxed
    <3>6. CASE ls \in [whole: Docs!Line]
      <4>1. "whole" \in DOMAIN ls BY <3>6
      <4>2. ls.whole.net = amount - (IF Docs!Taxed(x) THEN x.tax ELSE 0)
        BY <3>4, <3>6 DEF Split
      <4> QED BY <3>1, <3>2, <3>3, <4>1, <4>2 DEF Docs!Add, Docs!Net
    <3>7. CASE ls \in [taxed: Docs!Line, rest: Docs!Line]
      <4>1. "whole" \notin DOMAIN ls BY <3>7
      <4>2. PICK n : n = Docs!NetOf(x.tax, x.rate) OBVIOUS
      <4>3. Docs!Taxed(x) /\ ls.taxed.net = n /\ ls.rest.net = amount - n - x.tax
        BY <3>4, <3>7, <4>2 DEF Split
      <4>4. n \in Int BY <3>5, <4>2, <4>3, NetOfInt
      <4>5. n + (amount - n - x.tax) = amount - x.tax BY <3>5, <4>3, <4>4
      <4> QED BY <3>1, <3>2, <3>3, <4>1, <4>3, <4>5 DEF Docs!Add, Docs!Net
    <3> QED BY <3>4, <3>6, <3>7 DEF Split
  <2> QED BY <2>2 DEF Docs!NetKept
<1>2. DocsRight => Docs!NetKept BY <1>1 DEF Docs!NetKept
<1> QED BY <1>2, DocsInvariant, PTL

\* When all expenses of a bill with overridden tax are taxed, its tax details and its
\* lines speak of the same amounts.
THEOREM DetailsRight == ASSUME DocumentsAssumption PROVE Docs!Spec => []Docs!DetailsAgree
<1>1. ASSUME DocsRight, Docs!NetKept, Docs!Sent, Docs!Overridden,
             \A i \in Docs!Indices : Docs!Taxed(group.exps[i]),
             NEW d \in books.details
      PROVE  d.basis + d.tax = rows[d.of] /\ Docs!Add(books.debits[d.of], Docs!Net) = d.basis
  <2>1. GroupOK /\ BooksRight BY <1>1 DEF DocsRight, Docs!Sent
  <2>2. PICK i \in Docs!Indices :
           d = [of |-> i, basis |-> group.exps[i].amount - group.exps[i].tax,
                tax |-> group.exps[i].tax]
    BY <1>1, <2>1 DEF BooksRight, Docs!TaxDetails
  <2>3. rows[i] = group.exps[i].amount BY <1>1, <2>1, RowIs DEF Docs!Overridden
  <2>4. group.exps[i] \in Docs!Expense BY <2>1, GroupParts DEF GroupOK
  <2>5. group.exps[i].amount \in Int /\ group.exps[i].tax \in Int
    BY <1>1, <2>4 DEF Docs!Expense, Docs!Taxed
  <2>6. Docs!Add(books.debits[i], Docs!Net) = rows[i] - group.exps[i].tax
    BY <1>1 DEF Docs!NetKept
  <2> QED BY <2>2, <2>3, <2>5, <2>6
<1>2. DocsRight /\ Docs!NetKept => Docs!DetailsAgree BY <1>1 DEF Docs!DetailsAgree
<1> QED BY <1>2, DocsInvariant, NetsKept, PTL

LEMMA Back ==
  ASSUME NEW a \in Int, NEW n \in Int, NEW t \in Int
  PROVE  (a - t) + t = a /\ (a - 0) + 0 = a /\ (n + t) + ((a - n - t) + 0) = a
OBVIOUS

\* The debits of an expense, with their taxes, are its amount.
LEMMA DebitsMatch ==
  ASSUME DocumentsAssumption, DocsRight, Docs!Sent, group.kind = "JOURNAL ENTRY",
         NEW i \in Docs!Indices
  PROVE  Docs!Add(books.debits[i], LAMBDA l : l.net + Docs!TaxSent(l)) = rows[i]
<1>1. GroupOK /\ BooksRight BY DEF DocsRight, Docs!Sent
<1>2. PICK ls : ls = books.debits[i] OBVIOUS
<1>3. PICK x \in Docs!Expense : x = group.exps[i] BY <1>1, GroupParts DEF GroupOK
<1>4. PICK amount \in Int : amount = rows[i] BY <1>1, RowIs
<1>5. Split(ls, x, amount) BY <1>1, <1>2, <1>3, <1>4 DEF BooksRight
<1>6. TaxOn(x) = x.tax /\ ~Docs!Overridden BY DEF TaxOn, Docs!HasTax, Docs!Overridden
<1>7. (Docs!Taxed(x) => x.tax \in Int /\ x.tax # None /\ x.rate \in Nat) /\ None \notin Int
  BY <1>1, GroupParts DEF GroupOK, Docs!Expense, Docs!Taxed
<1>8. CASE ls \in [whole: Docs!Line]
  <2>1. "whole" \in DOMAIN ls BY <1>8
  <2>2. PICK l : l = ls.whole OBVIOUS
  <2>3. CASE Docs!Taxed(x)
    <3>1. l.net = amount - x.tax /\ l.tax = x.tax BY <1>5, <1>6, <1>8, <2>2, <2>3 DEF Split
    <3>2. Docs!TaxSent(l) = x.tax BY <1>7, <2>3, <3>1 DEF Docs!TaxSent
    <3>3. (amount - x.tax) + x.tax = amount BY <1>7, <2>3, Back
    <3> QED BY <1>2, <1>4, <2>1, <2>2, <3>1, <3>2, <3>3 DEF Docs!Add
  <2>4. CASE ~Docs!Taxed(x)
    <3>1. l.net = amount - 0 /\ l.tax = None BY <1>5, <1>8, <2>2, <2>4 DEF Split
    <3>2. Docs!TaxSent(l) = 0 BY <3>1 DEF Docs!TaxSent
    <3>3. (amount - 0) + 0 = amount BY Back
    <3> QED BY <1>2, <1>4, <2>1, <2>2, <3>1, <3>2, <3>3 DEF Docs!Add
  <2> QED BY <2>3, <2>4
<1>9. CASE ls \in [taxed: Docs!Line, rest: Docs!Line]
  <2>1. "whole" \notin DOMAIN ls BY <1>9
  <2>2. PICK n : n = Docs!NetOf(x.tax, x.rate) OBVIOUS
  <2>3. PICK one, two : one = ls.taxed /\ two = ls.rest OBVIOUS
  <2>4. /\ Docs!Taxed(x)
        /\ one.net = n /\ one.tax = x.tax
        /\ two.net = amount - n - x.tax /\ two.tax = None
    BY <1>5, <1>6, <1>9, <2>2, <2>3 DEF Split
  <2>5. n \in Int BY <1>7, <2>2, <2>4, NetOfInt
  <2>6. Docs!TaxSent(one) = x.tax /\ Docs!TaxSent(two) = 0 BY <1>7, <2>4 DEF Docs!TaxSent
  <2>7. (n + x.tax) + ((amount - n - x.tax) + 0) = amount
    <3>1. x.tax \in Int BY <1>7, <2>4
    <3> QED BY <2>5, <3>1, Back
  <2> QED BY <1>2, <1>4, <2>1, <2>3, <2>4, <2>6, <2>7 DEF Docs!Add
<1> QED BY <1>5, <1>8, <1>9 DEF Split

\* The debits of a journal entry, with their taxes, are its credits, which NetSuite insists
\* on: for groups of any size, with one credit line for each expense or for each account.
THEOREM JournalsBalance == ASSUME DocumentsAssumption PROVE Docs!Spec => []Docs!Balanced
<1>1. ASSUME DocsRight, Docs!Sent, group.kind = "JOURNAL ENTRY"
      PROVE  Docs!SumFunction([k \in DOMAIN books.credits |-> books.credits[k].net])
                = Docs!SumFunction([i \in Docs!Indices |->
                     Docs!Add(books.debits[i], LAMBDA l : l.net + Docs!TaxSent(l))])
  <2>1. GroupOK /\ BooksRight BY <1>1 DEF DocsRight, Docs!Sent
  <2>2. Docs!SumFunction([k \in DOMAIN books.credits |-> books.credits[k].net])
           = Docs!SumFunctionOnSet(rows, Docs!Indices)
    BY <1>1, <2>1 DEF BooksRight, CreditsRight
  <2>3. PICK d : d = [i \in Docs!Indices |->
                         Docs!Add(books.debits[i], LAMBDA l : l.net + Docs!TaxSent(l))]
    OBVIOUS
  <2>4. \A i \in Docs!Indices : d[i] = rows[i] BY <1>1, <2>3, DebitsMatch
  <2>5. IsFiniteSet(Docs!Indices)
    <3>1. PICK n \in Nat : n = Len(group.exps) BY <2>1, GroupParts DEF GroupOK
    <3> QED BY <3>1, FS_Interval DEF Docs!Indices
  <2>6. Docs!SumFunction(d) = Docs!SumFunctionOnSet(d, Docs!Indices)
    BY <2>3 DEF Docs!SumFunction
  <2>7. Docs!SumFunctionOnSet(d, Docs!Indices) = Docs!SumFunctionOnSet(rows, Docs!Indices)
    BY <2>4, <2>5, SumSame
  <2> QED BY <2>2, <2>3, <2>6, <2>7
<1>2. DocsRight => Docs!Balanced BY <1>1 DEF Docs!Balanced
<1> QED BY <1>2, DocsInvariant, PTL

\* No cent is lost or added on the way from the expenses to the document.
THEOREM AmountsRight == ASSUME DocumentsAssumption PROVE Docs!Spec => []Docs!AmountsKept
<1>1. Docs!NetKept /\ Docs!Balanced /\ Docs!DetailsAgree => Docs!AmountsKept
  BY DEF Docs!AmountsKept
<1> QED BY <1>1, NetsKept, JournalsBalance, DetailsRight, PTL

\* With tax balancing, NetSuite arrives at the amount of the expense whatever tax the
\* user entered, for all tax items with a rate and all documents but refunds (and
\* bills whose tax is overridden); to the cent, unless the tax is that of the amount.
THEOREM TaxesBalance == ASSUME DocumentsAssumption PROVE Docs!Spec => []Docs!TaxBalanced
<1> DEFINE Charged(l, x) == l.net + Docs!TaxInNetSuite(l, x.rate)
<1>1. ASSUME DocsRight, Docs!Sent, group.conf.balancing, ~Docs!Refund, ~Docs!Overridden,
             NEW i \in Docs!Indices,
             Docs!Taxed(group.exps[i]), group.exps[i].code = "mapped", group.exps[i].rate > 0
      PROVE  LET x     == group.exps[i]
                 total == Docs!Add(books.debits[i], LAMBDA l : Charged(l, x))
             IN  IF Docs!Modified(rows[i], x) THEN total = rows[i]
                 ELSE total \in rows[i] - 1..rows[i] + 1
  <2>1. GroupOK /\ BooksRight BY <1>1 DEF DocsRight, Docs!Sent
  <2>2. PICK ls : ls = books.debits[i] OBVIOUS
  <2>3. PICK x \in Docs!Expense :
           /\ x = group.exps[i] /\ x.rate =< 100
           /\ x.amount >= 0 /\ x.tax # None => x.tax >= 0
    BY <2>1, GroupParts DEF GroupOK
  <2>4. PICK amount \in Int : amount = rows[i] /\ amount = x.amount BY <1>1, <2>1, <2>3, RowIs
  <2>5. Split(ls, x, amount) BY <2>1, <2>2, <2>3, <2>4 DEF BooksRight
  <2>6. x.tax \in Int /\ x.rate \in 1..100 /\ x.tax # None /\ None \notin Int /\ x.code = "mapped"
    <3>1. Docs!Taxed(x) /\ x.code = "mapped" /\ x.rate > 0 BY <1>1, <2>3
    <3>2. None \notin Int BY <2>1, GroupParts DEF GroupOK
    <3> QED BY <2>3, <3>1, <3>2 DEF Docs!Expense, Docs!Taxed
  <2>7. PICK tax \in Int, rate \in 1..100 : tax = x.tax /\ rate = x.rate BY <2>6
  <2>8. CASE ls \in [whole: Docs!Line]
    <3>1. "whole" \in DOMAIN ls BY <2>8
    <3>2. /\ ~Docs!Modified(amount, x) /\ ls.whole.code = "mapped" /\ ls.whole.tax = TaxOn(x)
          /\ ls.whole.net = amount - tax
      BY <1>1, <2>3, <2>5, <2>6, <2>7, <2>8 DEF Split
    <3>3. PICK given : given = Docs!TaxInNetSuite(ls.whole, rate) OBVIOUS
    <3>4. Docs!Abs(tax) = Docs!Expected(amount, rate)
      BY <1>1, <2>7, <3>2 DEF Docs!Modified
    <3>5. Docs!Round((amount - tax) * rate, 100) \in tax - 1..tax + 1
      <4>1. amount >= 0 => tax >= 0 BY <2>3, <2>4, <2>6, <2>7
      <4> QED BY <3>4, <4>1, TaxOfRest
    <3>6. given \in tax - 1..tax + 1
      <4>1. CASE Docs!HasTax
        BY <2>6, <2>7, <3>2, <3>3, <4>1 DEF Docs!TaxInNetSuite, TaxOn
      <4>2. CASE ~Docs!HasTax
        BY <2>6, <2>7, <3>2, <3>3, <3>5, <4>2 DEF Docs!TaxInNetSuite, TaxOn
      <4> QED BY <4>1, <4>2
    <3>7. (amount - tax) + given \in amount - 1..amount + 1 BY <3>6
    <3>8. Docs!Add(books.debits[i], LAMBDA l : Charged(l, group.exps[i])) = (amount - tax) + given
      BY <2>2, <2>3, <2>7, <3>1, <3>2, <3>3 DEF Docs!Add
    <3>9. ~Docs!Modified(rows[i], group.exps[i]) BY <2>3, <2>4, <3>2
    <3> QED BY <2>4, <3>7, <3>8, <3>9
  <2>9. CASE ls \in [taxed: Docs!Line, rest: Docs!Line]
    <3>1. "whole" \notin DOMAIN ls BY <2>9
    <3>2. PICK n \in Int : n = Docs!NetOf(tax, rate) /\ Docs!Round(n * rate, 100) = tax
      BY NetOfBack
    <3>3. /\ Docs!Modified(amount, x)
          /\ ls.taxed.net = n /\ ls.taxed.code = "mapped" /\ ls.taxed.tax = TaxOn(x)
          /\ ls.rest.net = amount - n - tax /\ ls.rest.code = "default" /\ ls.rest.tax = None
      BY <2>5, <2>6, <2>7, <2>9, <3>2 DEF Split
    <3>4. PICK one, two : one = ls.taxed /\ two = ls.rest OBVIOUS
    <3>5. Docs!TaxInNetSuite(one, rate) = tax
      <4>1. CASE Docs!HasTax
        BY <2>6, <2>7, <3>3, <3>4, <4>1 DEF Docs!TaxInNetSuite, TaxOn
      <4>2. CASE ~Docs!HasTax
        BY <2>6, <2>7, <3>2, <3>3, <3>4, <4>2 DEF Docs!TaxInNetSuite, TaxOn
      <4> QED BY <4>1, <4>2
    <3>6. Docs!TaxInNetSuite(two, rate) = 0
      BY <3>3, <3>4 DEF Docs!TaxInNetSuite
    <3>7. Docs!Add(books.debits[i], LAMBDA l : Charged(l, group.exps[i]))
             = (n + tax) + ((amount - n - tax) + 0)
      BY <2>2, <2>3, <2>7, <3>1, <3>3, <3>4, <3>5, <3>6 DEF Docs!Add
    <3>8. (n + tax) + ((amount - n - tax) + 0) = amount OBVIOUS
    <3>9. Docs!Modified(rows[i], group.exps[i]) BY <2>3, <2>4, <3>3
    <3> QED BY <2>4, <3>7, <3>8, <3>9
  <2> QED BY <2>5, <2>8, <2>9 DEF Split
<1>2. DocsRight => Docs!TaxBalanced BY <1>1 DEF Docs!TaxBalanced
<1> QED BY <1>2, DocsInvariant, PTL
-----------------------------------------------------------------------------
(* The copy of NetSuite's records.                                         *)

AllTypes ==
    Copy!PerPage \cup Copy!Growing \cup Copy!Incremental \cup Copy!Whole \cup Copy!Plain \cup {"employee", "item", "tax_item"}

DimsAssumption ==
    Types \subseteq AllTypes /\ Slack \in Nat /\ MaxFails \in Nat /\ IsFiniteSet(Ids)

Running == sync.at \in {"on", "read"}

\* a sync still has to look at id i; one that notices deletions looks at all ids at once
Pending(i) ==
    IF type \in Copy!Drops THEN sync.pages # << >> \/ sync.at = "read"
    ELSE \/ \E k \in DOMAIN sync.pages : i \in sync.pages[k]
         \/ sync.at = "read" /\ i \in DOMAIN sync.got

\* NetSuite changed the record after any row was stored
Newer(i) == \A j \in Copy!Rows : local[j].at < remote[i].at

DimsTyped ==
    /\ type \in Types /\ DOMAIN remote = Ids /\ DOMAIN local = Ids
    /\ clock \in Nat /\ clean \in BOOLEAN
    /\ \A i \in Ids :
          remote[i].state \in Copy!States /\ remote[i].at \in Nat /\ local[i].at \in 0..clock
    /\ sync.at \in {"off", "on", "read", "done"} /\ sync.pages \in Seq(SUBSET Ids)
    /\ DOMAIN sync = {"at", "pages", "known", "got", "held", "count"}

\* what a sync that nothing disturbed has read is what NetSuite has
Undisturbed ==
    clean /\ Running =>
        /\ DOMAIN sync.got \subseteq DOMAIN sync.held /\ DOMAIN sync.held \subseteq Copy!InUse
        /\ \A i \in DOMAIN sync.held : sync.held[i] = remote[i]
        /\ type \in Copy!Growing =>
              \A i \in Ids \ sync.known : remote[i].state = "inactive" => ~Copy!Stored(i)

\* the records that come, or fit, on one page
OnePage ==
    /\ type \in Copy!Whole /\ sync.at # "off" => sync.count = 1
    /\ type \in Copy!Whole \cup {"item"} /\ clean /\ Running /\ sync.count = 1 =>
          /\ sync.at = "on" => sync.pages \in {<< >>, <<Copy!InUse>>}
          /\ sync.at = "read" => sync.pages = << >> /\ DOMAIN sync.held = Copy!InUse

\* during such a sync every id is in step or will be looked at
Settled ==
    clean /\ (type = "item" => sync.count = 1) /\ Running =>
        \A i \in Ids : Copy!Ours(i) => Copy!InStep(i) \/ Pending(i)

\* between syncs, what is not in step is what the next sync asks for
Recent ==
    clean /\ ~Running /\ type \in Copy!Timed => \A i \in Ids : Copy!Ours(i) => Copy!InStep(i) \/ Newer(i)

InStepInv == DimsTyped /\ Undisturbed /\ OnePage /\ Settled /\ Recent /\ Copy!SyncedInStep
-----------------------------------------------------------------------------
LEMMA MaxIs ==
  ASSUME NEW c \in Nat, NEW S \in SUBSET (0..c), S # {}
  PROVE  Copy!Max(S) \in S /\ \A y \in S : Copy!Max(S) >= y
<1> DEFINE T == {n \in Nat : \E x \in S : n = c - x}
<1>1. T # {} /\ T \subseteq Nat
  <2>1. PICK x \in S : x \in 0..c OBVIOUS
  <2>2. c - x \in Nat BY <2>1
  <2>3. c - x \in T BY <2>2
  <2> QED BY <2>3
<1>2. PICK n \in T : \A m \in T : ~(<<m, n>> \in OpToRel(<, Nat))
  BY <1>1, NatLessThanWellFounded, WFMin
<1>3. \A m \in T : ~(m < n) BY <1>1, <1>2 DEF OpToRel
<1>4. PICK x \in S : n = c - x BY <1>2
<1>5. \A y \in S : x >= y
  <2>1. TAKE y \in S
  <2>2. c - y \in T OBVIOUS
  <2> QED BY <1>3, <1>4, <2>2
<1> QED BY <1>4, <1>5 DEF Copy!Max

LEMMA UpsertIs ==
  ASSUME NEW base, NEW A, NEW i \in Ids
  PROVE  /\ DOMAIN Copy!Upsert(base, A) = Ids
         /\ i \in DOMAIN A => /\ Copy!Upsert(base, A)[i].state = A[i].state
                              /\ Copy!Upsert(base, A)[i].name = A[i].name
         /\ i \notin DOMAIN A => Copy!Upsert(base, A)[i] = base[i]
         /\ Copy!Upsert(base, A)[i].at \in {base[i].at, Copy!Stamp}
BY DEF Copy!Upsert, Copy!Attribute

\* the pages of a sync have what it asked for
LEMMA PagesAre ==
  ASSUME NEW S \in SUBSET Ids, NEW pages \in Copy!Pages(S)
  PROVE  /\ pages \in Seq(SUBSET Ids)
         /\ \A i \in S : \E k \in DOMAIN pages : i \in pages[k]
         /\ type \in Copy!Whole => pages = <<S>>
         /\ Len(pages) = 1 => pages = <<S>>
<1>1. CASE pages = <<S>> BY <1>1
<1>2. CASE pages = << >> /\ S = {} /\ type \notin Copy!Whole BY <1>2
<1>3. CASE type \notin Copy!Whole /\ \E A \in SUBSET S : pages = <<A, S \ A>>
  <2>1. PICK A \in SUBSET S : pages = <<A, S \ A>> BY <1>3
  <2>2. pages \in Seq(SUBSET Ids) /\ Len(pages) = 2 /\ DOMAIN pages = {1, 2} BY <2>1
  <2>3. pages[1] = A /\ pages[2] = S \ A BY <2>1
  <2> QED BY <1>3, <2>2, <2>3
<1> QED BY <1>1, <1>2, <1>3 DEF Copy!Pages

LEMMA TypeIs ==
  ASSUME DimsAssumption, DimsTyped
  PROVE  \/ type \in Copy!PerPage \/ type \in Copy!Growing \/ type \in Copy!Timed \/ type = "item"
         \/ type = "custom_record" \/ type \in {"custom_list", "custom_segment"}
         \/ type = "tax_item" \/ type \in Copy!Plain
BY DEF DimsAssumption, DimsTyped, AllTypes, Copy!PerPage, Copy!Growing, Copy!Timed,
    Copy!Incremental, Copy!Whole, Copy!Plain

\* what is stored of a record that is on the page
LEMMA OnPage ==
  ASSUME DimsAssumption, DimsTyped, NEW page, NEW i \in Ids, i \in DOMAIN page, Copy!Ours(i),
         page[i] = remote[i], Copy!Here(i)
  PROVE  LET A == Copy!Attributes(page) IN
         /\ i \in DOMAIN A => A[i].name = remote[i].name \/ A[i].state = "inactive"
         /\ i \in DOMAIN A => \/ A[i].state = remote[i].state
                              \/ A[i].state = "active" /\ type \in Copy!Plain
                              \/ A[i].state = "inactive" /\ type = "item" /\ ~conf.items
         /\ i \notin DOMAIN A =>
               /\ remote[i].state = "inactive"
               /\ \/ type = "tax_item" \/ i \notin Copy!Rows
                  \/ type \in Copy!Growing /\ i \notin sync.known
<1> DEFINE A == Copy!Attributes(page)
<1> USE DEF Copy!Attribute
<1>0. i \in Copy!Taken(page) BY DEF Copy!Taken
<1>1. remote[i].state \in {"active", "inactive"} BY DEF DimsTyped, Copy!States, Copy!Here
<1>2. CASE type \in Copy!PerPage
  <2>1. A = Copy!Listed(page, Copy!Rows) BY <1>2 DEF Copy!Attributes, Copy!PerPage, Copy!Growing,
      Copy!Timed, Copy!Incremental, Copy!Whole, Copy!Plain
  <2> QED BY <1>0, <1>1, <1>2, <2>1 DEF Copy!Listed, Copy!PerPage, Copy!Growing, Copy!Plain
<1>3. CASE type \in Copy!Growing
  <2>1. A = Copy!Listed(page, sync.known) BY <1>3 DEF Copy!Attributes, Copy!PerPage,
      Copy!Growing, Copy!Timed, Copy!Incremental, Copy!Whole, Copy!Plain
  <2> QED BY <1>0, <1>1, <1>3, <2>1 DEF Copy!Listed, Copy!PerPage, Copy!Growing, Copy!Plain
<1>4. CASE type \in Copy!Timed
  <2>1. A = [j \in Copy!Taken(page) |-> Copy!Attribute(page[j])]
    BY <1>4 DEF Copy!Attributes, Copy!PerPage, Copy!Growing, Copy!Timed, Copy!Incremental,
        Copy!Whole, Copy!Plain
  <2> QED BY <1>0, <1>1, <2>1
<1>5. CASE type = "item"
  <2>1. A = Copy!Items(page) BY <1>5 DEF Copy!Attributes, Copy!PerPage, Copy!Growing, Copy!Timed,
      Copy!Incremental, Copy!Whole, Copy!Plain
  <2> QED BY <1>0, <1>1, <1>5, <2>1 DEF Copy!Items, Copy!Missing
<1>6. CASE type = "custom_record"
  <2>1. A = [j \in DOMAIN page |-> Copy!Attribute(page[j])]
    BY <1>6 DEF Copy!Attributes, Copy!PerPage, Copy!Growing, Copy!Timed, Copy!Incremental,
        Copy!Whole, Copy!Plain
  <2> QED BY <1>1, <2>1
<1>7. CASE type \in {"custom_list", "custom_segment"}
  <2>1. A = Copy!PageAndMissing(page)
    BY <1>7 DEF Copy!Attributes, Copy!PerPage, Copy!Growing, Copy!Timed, Copy!Incremental,
        Copy!Whole, Copy!Plain
  <2> QED BY <1>1, <2>1 DEF Copy!PageAndMissing
<1>8. CASE type = "tax_item"
  <2>1. A = Copy!ListedActive(page, {})
    BY <1>8 DEF Copy!Attributes, Copy!PerPage, Copy!Growing, Copy!Timed, Copy!Incremental,
        Copy!Whole, Copy!Plain
  <2> QED BY <1>0, <1>1, <1>8, <2>1 DEF Copy!ListedActive
<1>9. CASE type \in Copy!Plain
  <2>1. A = [j \in DOMAIN page |-> [state |-> "active", name |-> page[j].name]]
    BY <1>9 DEF Copy!Attributes, Copy!PerPage, Copy!Growing, Copy!Timed, Copy!Incremental,
        Copy!Whole, Copy!Plain
  <2> QED BY <1>1, <1>9, <2>1
<1> QED BY <1>2, <1>3, <1>4, <1>5, <1>6, <1>7, <1>8, <1>9, TypeIs

\* what is stored of a record that is not
LEMMA OffPage ==
  ASSUME DimsAssumption, DimsTyped, NEW page, NEW i \in Ids, i \notin DOMAIN page
  PROVE  LET A == Copy!Attributes(page) IN
         /\ i \in DOMAIN A => type \in Copy!Drops /\ i \in Copy!Rows /\ A[i].state = "inactive"
         /\ type \in Copy!Drops /\ i \notin DOMAIN A => i \notin Copy!Rows
<1> DEFINE A == Copy!Attributes(page)
<1>1. CASE type \in Copy!PerPage
  <2>1. A = Copy!Listed(page, Copy!Rows) BY <1>1 DEF Copy!Attributes, Copy!PerPage, Copy!Growing,
      Copy!Timed, Copy!Incremental, Copy!Whole, Copy!Plain
  <2> QED BY <1>1, <2>1 DEF Copy!Listed, Copy!PerPage, Copy!Drops, Copy!Whole, Copy!Taken
<1>2. CASE type \in Copy!Growing
  <2>1. A = Copy!Listed(page, sync.known) BY <1>2 DEF Copy!Attributes, Copy!PerPage,
      Copy!Growing, Copy!Timed, Copy!Incremental, Copy!Whole, Copy!Plain
  <2> QED BY <1>2, <2>1 DEF Copy!Listed, Copy!Growing, Copy!Drops, Copy!Whole, Copy!Taken
<1>3. CASE type \in Copy!Timed
  <2>1. A = [j \in Copy!Taken(page) |-> Copy!Attribute(page[j])]
    BY <1>3 DEF Copy!Attributes, Copy!PerPage, Copy!Growing, Copy!Timed, Copy!Incremental,
        Copy!Whole, Copy!Plain
  <2> QED BY <1>3, <2>1 DEF Copy!Taken, Copy!Timed, Copy!Incremental, Copy!Drops, Copy!Whole
<1>4. CASE type = "item"
  <2>1. A = Copy!Items(page) BY <1>4 DEF Copy!Attributes, Copy!PerPage, Copy!Growing, Copy!Timed,
      Copy!Incremental, Copy!Whole, Copy!Plain
  <2> QED BY <1>4, <2>1 DEF Copy!Items, Copy!Missing, Copy!Drops
<1>5. CASE type = "custom_record"
  <2>1. A = [j \in DOMAIN page |-> Copy!Attribute(page[j])]
    BY <1>5 DEF Copy!Attributes, Copy!PerPage, Copy!Growing, Copy!Timed, Copy!Incremental,
        Copy!Whole, Copy!Plain
  <2> QED BY <1>5, <2>1 DEF Copy!Drops
<1>6. CASE type \in {"custom_list", "custom_segment"}
  <2>1. A = Copy!PageAndMissing(page)
    BY <1>6 DEF Copy!Attributes, Copy!PerPage, Copy!Growing, Copy!Timed, Copy!Incremental,
        Copy!Whole, Copy!Plain
  <2> QED BY <1>6, <2>1 DEF Copy!PageAndMissing, Copy!Missing, Copy!Drops, Copy!Whole
<1>7. CASE type = "tax_item"
  <2>1. A = Copy!ListedActive(page, {})
    BY <1>7 DEF Copy!Attributes, Copy!PerPage, Copy!Growing, Copy!Timed, Copy!Incremental,
        Copy!Whole, Copy!Plain
  <2> QED BY <1>7, <2>1 DEF Copy!ListedActive, Copy!Taken, Copy!Drops, Copy!Whole
<1>8. CASE type \in Copy!Plain
  <2>1. A = [j \in DOMAIN page |-> [state |-> "active", name |-> page[j].name]]
    BY <1>8 DEF Copy!Attributes, Copy!PerPage, Copy!Growing, Copy!Timed, Copy!Incremental,
        Copy!Whole, Copy!Plain
  <2> QED BY <1>8, <2>1 DEF Copy!Plain, Copy!Drops, Copy!Whole
<1> QED BY <1>1, <1>2, <1>3, <1>4, <1>5, <1>6, <1>7, <1>8, TypeIs

LEMMA RenumberedIs ==
  ASSUME DimsTyped, NEW page, NEW i \in Ids
  PROVE  /\ DOMAIN Copy!Renumbered(page) = Ids
         /\ Copy!Renumbered(page)[i] = Copy!NoRow \/ \E j \in Ids : Copy!Renumbered(page)[i] = local[j]
<1> DEFINE to == {j \in Copy!Moved(page) : Copy!NewId(page, j) = i}
<1>1. DOMAIN Copy!Renumbered(page) = Ids BY DEF Copy!Renumbered
<1>2. CASE to # {}
  <2>1. PICK j : j = CHOOSE k \in to : TRUE OBVIOUS
  <2>2. j \in to BY <1>2, <2>1
  <2>3. j \in Ids BY <2>2 DEF Copy!Moved, Copy!Rows
  <2>4. Copy!Renumbered(page)[i] = local[j] BY <1>2, <2>1 DEF Copy!Renumbered
  <2> QED BY <1>1, <2>3, <2>4
<1>3. CASE to = {} BY <1>1, <1>3 DEF Copy!Renumbered
<1> QED BY <1>2, <1>3

LEMMA DimsTypedInit == DimsAssumption /\ Copy!Init => DimsTyped
<1> SUFFICES ASSUME DimsAssumption, Copy!Init PROVE DimsTyped OBVIOUS
<1>1. /\ DOMAIN remote = Ids
      /\ \A i \in Ids : remote[i].state \in {"active", "inactive"} /\ remote[i].at = 0
  <2>1. remote \in [Ids -> [state: {"active", "inactive"}, name: Names, at: {0}]] BY DEF Copy!Init
  <2> QED BY <2>1
<1>2. DOMAIN local = Ids /\ \A i \in Ids : local[i].at = 0 BY DEF Copy!Init, Copy!NoRow
<1> QED BY <1>1, <1>2 DEF Copy!Init, DimsTyped, Copy!Idle, Copy!States

LEMMA DimsTypedStep ==
  ASSUME DimsAssumption, DimsTyped, [Copy!Next]_Copy!vars
  PROVE  DimsTyped'
<1> USE DEF DimsTyped
<1>1. CASE UNCHANGED Copy!vars BY <1>1 DEF Copy!vars
<1>2. ASSUME NEW i \in Ids, Copy!Change(i) PROVE DimsTyped'
  <2>1. PICK s \in Copy!States, n \in Names :
           remote' = [remote EXCEPT ![i] = [state |-> s, name |-> n, at |-> clock']]
    BY <1>2 DEF Copy!Change
  <2>2. clock' = clock + 1 /\ UNCHANGED <<type, local>> /\ clean' \in BOOLEAN
    BY <1>2 DEF Copy!Change
  <2>3. \A j \in Ids : remote'[j].state \in Copy!States /\ remote'[j].at \in Nat
    BY <2>1, <2>2
  <2>4. /\ sync'.at \in {"off", "on", "read", "done"} /\ sync'.pages = sync.pages
        /\ DOMAIN sync' = DOMAIN sync
    BY <1>2 DEF Copy!Change
  <2> QED BY <2>1, <2>2, <2>3, <2>4
<1>3. ASSUME NEW i \in Ids, NEW j \in Ids, Copy!Renumber(i, j) PROVE DimsTyped'
  <2>1. remote' = [remote EXCEPT ![i] = remote[j], ![j] = remote[i]] BY <1>3 DEF Copy!Renumber
  <2>2. clock' = clock + 1 /\ UNCHANGED <<type, local>> /\ clean' \in BOOLEAN
    BY <1>3 DEF Copy!Renumber
  <2>3. \A k \in Ids : remote'[k].state \in Copy!States /\ remote'[k].at \in Nat
    BY <2>1
  <2>4. /\ sync'.at \in {"off", "on", "read", "done"} /\ sync'.pages = sync.pages
        /\ DOMAIN sync' = DOMAIN sync
    BY <1>3 DEF Copy!Renumber
  <2>5. \A k \in Ids : local'[k].at \in 0..clock' BY <2>2
  <2>6. DOMAIN remote' = Ids /\ clock' \in Nat BY <2>1, <2>2
  <2> QED BY <2>2, <2>3, <2>4, <2>5, <2>6
<1>4. ASSUME NEW i \in Ids, Copy!Direct(i) PROVE DimsTyped'
  <2>1. PICK A : local' = Copy!Upsert(local, A) BY <1>4 DEF Copy!Direct
  <2>2. clock' = clock + 1 /\ UNCHANGED <<type, sync>> /\ clean' = FALSE BY <1>4 DEF Copy!Direct
  <2>3. DOMAIN remote' = Ids /\ \A j \in Ids : remote'[j].state \in Copy!States /\ remote'[j].at \in Nat
    <3>1. PICK r : /\ remote' = [remote EXCEPT ![i] = r]
                   /\ r = IF Copy!Here(i) THEN remote[i]
                          ELSE [state |-> "active", name |-> remote[i].name, at |-> clock']
      BY <1>4 DEF Copy!Direct
    <3>2. r.state \in Copy!States /\ r.at \in Nat BY <2>2, <3>1 DEF Copy!States
    <3> QED BY <3>1, <3>2
  <2>4. DOMAIN local' = Ids BY <2>1 DEF Copy!Upsert
  <2>5. \A j \in Ids : local'[j].at \in 0..clock'
    <3>1. Copy!Stamp \in 0..clock + 1 BY DEF Copy!Stamp
    <3> QED BY <2>1, <2>2, <3>1, UpsertIs
  <2>6. clean' \in BOOLEAN /\ clock' \in Nat
    <3>1. clean' \in BOOLEAN BY <2>2, Zenon
    <3>2. clock' \in Nat BY <2>2
    <3> QED BY <3>1, <3>2
  <2>7. type' = type /\ sync' = sync BY <2>2
  <2> QED BY <2>3, <2>4, <2>5, <2>6, <2>7
<1>5. CASE Copy!Begin
  <2>1. Copy!Asked \in SUBSET Ids BY DEF Copy!Asked, Copy!InUse
  <2>2. PICK pages \in Copy!Pages(Copy!Asked) :
           sync' = [Copy!Idle EXCEPT !.at = "on", !.pages = pages, !.known = Copy!Rows, !.count = Len(pages)]
    BY <1>5 DEF Copy!Begin
  <2>3. pages \in Seq(SUBSET Ids) BY <2>1, PagesAre
  <2>4. /\ sync'.at = "on" /\ sync'.pages = pages
        /\ DOMAIN sync' = {"at", "pages", "known", "got", "held", "count"}
    BY <2>2 DEF Copy!Idle
  <2> QED BY <1>5, <2>3, <2>4 DEF Copy!Begin, Copy!Afresh
<1>6. CASE Copy!Fetch
  <2>1. Tail(sync.pages) \in Seq(SUBSET Ids) BY <1>6 DEF Copy!Fetch
  <2>2. /\ sync'.at = "read" /\ sync'.pages = Tail(sync.pages) /\ DOMAIN sync' = DOMAIN sync
    BY <1>6 DEF Copy!Fetch
  <2> QED BY <1>6, <2>1, <2>2 DEF Copy!Fetch
<1>7. CASE Copy!Write
  <2>1. PICK base, A : /\ local' = Copy!Upsert(base, A)
                       /\ base = IF type = "custom_record" THEN Copy!Renumbered(sync.got) ELSE local
    BY <1>7 DEF Copy!Write
  <2>2. /\ UNCHANGED <<type, remote, clean>> /\ sync' = [sync EXCEPT !.at = "on", !.got = << >>]
        /\ clock' = IF local' # local /\ type \in Copy!Timed THEN clock + 1 ELSE clock
    BY <1>7 DEF Copy!Write
  <2>3. \A i \in Ids : base[i].at \in 0..clock
    <3>1. TAKE i \in Ids
    <3>2. Copy!NoRow.at = 0 BY DEF Copy!NoRow
    <3>3. Copy!Renumbered(sync.got)[i].at \in 0..clock BY <3>2, RenumberedIs
    <3> QED BY <2>1, <3>3
  <2>4. DOMAIN local' = Ids BY <2>1 DEF Copy!Upsert
  <2>5. \A i \in Ids : local'[i].at \in 0..clock'
    <3>1. CASE type \in Copy!Timed
      <4>1. Copy!Stamp = clock + 1 BY <3>1 DEF Copy!Stamp
      <4>2. CASE local' = local BY <2>2, <4>2
      <4>3. CASE local' # local BY <2>1, <2>2, <2>3, <3>1, <4>1, <4>3, UpsertIs
      <4> QED BY <4>2, <4>3
    <3>2. CASE type \notin Copy!Timed
      <4>1. Copy!Stamp = 0 BY <3>2 DEF Copy!Stamp
      <4> QED BY <2>1, <2>2, <2>3, <3>2, <4>1, UpsertIs
    <3> QED BY <3>1, <3>2
  <2> QED BY <2>2, <2>4, <2>5
<1>8. CASE Copy!Raise
  <2>1. local' = Copy!Renumbered(sync.got) \/ local' = local BY <1>8 DEF Copy!Raise
  <2>2. DOMAIN local' = Ids /\ \A i \in Ids : local'[i].at \in 0..clock
    <3>1. Copy!NoRow.at = 0 BY DEF Copy!NoRow
    <3>2. ASSUME NEW i \in Ids PROVE local'[i].at \in 0..clock
      <4>1. Copy!Renumbered(sync.got)[i].at \in 0..clock BY <3>1, RenumberedIs
      <4> QED BY <2>1, <4>1
    <3>3. DOMAIN Copy!Renumbered(sync.got) = Ids BY DEF Copy!Renumbered
    <3> QED BY <2>1, <3>2, <3>3
  <2>3. UNCHANGED <<type, remote, clock>> /\ clean' = FALSE BY <1>8 DEF Copy!Raise
  <2>4. /\ sync'.at = "off" /\ sync'.pages = << >>
        /\ DOMAIN sync' = {"at", "pages", "known", "got", "held", "count"}
    BY <1>8 DEF Copy!Raise, Copy!Idle
  <2>5. << >> \in Seq(SUBSET Ids) OBVIOUS
  <2> QED BY <2>2, <2>3, <2>4, <2>5
<1>9. CASE Copy!Fail
  <2>1. UNCHANGED <<type, remote, local, clock>> /\ clean' = FALSE BY <1>9 DEF Copy!Fail
  <2>2. /\ sync'.at = "off" /\ sync'.pages = << >>
        /\ DOMAIN sync' = {"at", "pages", "known", "got", "held", "count"}
    BY <1>9 DEF Copy!Fail, Copy!Idle
  <2>3. << >> \in Seq(SUBSET Ids) OBVIOUS
  <2> QED BY <2>1, <2>2, <2>3
<1>10. CASE Copy!End BY <1>10 DEF Copy!End
<1> QED BY <1>1, <1>2, <1>3, <1>4, <1>5, <1>6, <1>7, <1>8, <1>9, <1>10 DEF Copy!Next

\* what a write does to the row of id i, when nothing disturbed the sync
LEMMA WriteIs ==
  ASSUME DimsAssumption, DimsTyped, Undisturbed, clean, Copy!Write, NEW i \in Ids
  PROVE  /\ Copy!Ours(i) /\ i \in DOMAIN sync.held => Copy!InStep(i)'
         /\ i \notin DOMAIN sync.held /\ type \notin Copy!Drops \cup {"custom_record"}
               => local'[i] = local[i]
         /\ i \notin DOMAIN sync.held /\ type \in Copy!Drops => local'[i].state # "active"
         /\ type \in Copy!Growing /\ remote[i].state = "inactive" /\ i \notin sync.known
               => local'[i].state = "absent"
<1> DEFINE A == Copy!Attributes(sync.held)
           base == IF type = "custom_record" THEN Copy!Renumbered(sync.got) ELSE local
<1>1. local' = Copy!Upsert(base, A) /\ sync.at = "read" /\ UNCHANGED <<type, conf, remote>>
  BY DEF Copy!Write
<1>2. /\ i \in DOMAIN A => local'[i].state = A[i].state /\ local'[i].name = A[i].name
      /\ i \notin DOMAIN A => local'[i] = base[i]
  <2> HIDE DEF A, base
  <2> QED BY <1>1, UpsertIs
<1>3. /\ \A j \in DOMAIN sync.held : sync.held[j] = remote[j]
      /\ DOMAIN sync.held \subseteq Copy!InUse
      /\ type \in Copy!Growing =>
            \A j \in Ids \ sync.known : remote[j].state = "inactive" => ~Copy!Stored(j)
  BY <1>1 DEF Undisturbed, Running
<1>4. /\ remote[i].state = "active" =>
            (Copy!InStep(i)' <=> \/ local'[i].state = "active" /\ local'[i].name = remote[i].name
                                 \/ type = "item" /\ ~conf.items /\ local'[i].state # "active")
      /\ remote[i].state = "inactive" =>
            (Copy!InStep(i)' <=> local'[i].state # "active" \/ type \in Copy!Plain \cup {"tax_item"})
  BY <1>1 DEF Copy!InStep, Copy!Same, Copy!Closed
<1>5. CASE i \in DOMAIN sync.held
  <2>1. Copy!Here(i) /\ sync.held[i] = remote[i] BY <1>3, <1>5 DEF Copy!InUse
  <2>2. remote[i].state \in {"active", "inactive"} BY <2>1 DEF DimsTyped, Copy!States, Copy!Here
  <2>3. CASE Copy!Ours(i)
    <3> HIDE DEF A, base
    <3>1. /\ i \in DOMAIN A => A[i].name = remote[i].name \/ A[i].state = "inactive"
          /\ i \in DOMAIN A => \/ A[i].state = remote[i].state
                               \/ A[i].state = "active" /\ type \in Copy!Plain
                               \/ A[i].state = "inactive" /\ type = "item" /\ ~conf.items
          /\ i \notin DOMAIN A =>
                /\ remote[i].state = "inactive"
                /\ \/ type = "tax_item" \/ i \notin Copy!Rows
                   \/ type \in Copy!Growing /\ i \notin sync.known
      BY <1>5, <2>1, <2>3, OnPage DEF A
    <3>2. ASSUME i \in DOMAIN A PROVE Copy!InStep(i)'
      <4>1. CASE remote[i].state = "active" BY <1>2, <1>4, <3>1, <3>2, <4>1
      <4>2. CASE remote[i].state = "inactive" BY <1>2, <1>4, <3>1, <3>2, <4>2
      <4> QED BY <2>2, <4>1, <4>2
    <3>3. ASSUME i \notin DOMAIN A PROVE Copy!InStep(i)'
      <4>1. type = "tax_item" \/ ~Copy!Stored(i) BY <1>3, <3>1, <3>3 DEF Copy!Rows
      <4>2. CASE type = "tax_item" BY <1>4, <3>1, <3>3, <4>2
      <4>3. CASE ~Copy!Stored(i)
        <5>1. CASE type = "custom_record"
          <6>1. i \in DOMAIN A
            BY <1>5, <5>1 DEF A, Copy!Attributes, Copy!PerPage, Copy!Growing, Copy!Timed,
                Copy!Incremental, Copy!Whole, Copy!Plain
          <6> QED BY <3>3, <6>1
        <5>2. CASE type # "custom_record"
          <6>1. local'[i] = local[i] BY <1>2, <3>3, <5>2 DEF base
          <6> QED BY <1>4, <3>1, <3>3, <4>3, <6>1 DEF Copy!Stored
        <5> QED BY <5>1, <5>2
      <4> QED BY <4>1, <4>2, <4>3
    <3>4. Copy!InStep(i)' BY <3>2, <3>3
    <3>5. ASSUME type \in Copy!Growing, remote[i].state = "inactive", i \notin sync.known
          PROVE  local'[i].state = "absent"
      <4>1. i \notin DOMAIN A
        BY <1>3, <2>1, <3>5
        DEF A, Copy!Attributes, Copy!Listed, Copy!PerPage, Copy!Growing, Copy!Timed, Copy!Incremental, Copy!Whole, Copy!Plain
      <4>2. local'[i] = local[i] BY <1>2, <3>5, <4>1 DEF base, Copy!Growing
      <4> QED BY <1>3, <3>5, <4>2 DEF Copy!Stored
    <3> QED BY <1>5, <3>4, <3>5
  <2>4. CASE ~Copy!Ours(i)
    <3>1. ASSUME type \in Copy!Growing, remote[i].state = "inactive", i \notin sync.known
          PROVE  local'[i].state = "absent"
      <4>1. i \notin DOMAIN A
        BY <2>4, <3>1
        DEF Copy!Attributes, Copy!Listed, Copy!Taken, Copy!PerPage, Copy!Growing, Copy!Timed, Copy!Incremental, Copy!Whole, Copy!Plain
      <4>2. local'[i] = local[i] BY <1>2, <3>1, <4>1 DEF Copy!Growing
      <4> QED BY <1>3, <3>1, <4>2 DEF Copy!Stored
    <3> QED BY <1>5, <2>4, <3>1
  <2> QED BY <2>3, <2>4
<1>6. CASE i \notin DOMAIN sync.held
  <2>1. /\ i \in DOMAIN A => type \in Copy!Drops /\ i \in Copy!Rows /\ A[i].state = "inactive"
        /\ type \in Copy!Drops /\ i \notin DOMAIN A => i \notin Copy!Rows
    BY <1>6, OffPage
  <2>2. type # "custom_record" /\ i \notin DOMAIN A => local'[i] = local[i] BY <1>2
  <2> HIDE DEF A
  <2>3. ASSUME type \notin Copy!Drops \cup {"custom_record"} PROVE local'[i] = local[i]
    BY <2>1, <2>2, <2>3
  <2>4. ASSUME type \in Copy!Drops PROVE local'[i].state # "active"
    BY <1>2, <2>1, <2>2, <2>4 DEF Copy!Rows, Copy!Stored, Copy!Drops, Copy!Whole
  <2>5. ASSUME type \in Copy!Growing, remote[i].state = "inactive", i \notin sync.known
        PROVE  local'[i].state = "absent"
    <3>1. local'[i] = local[i] BY <2>3, <2>5 DEF Copy!Growing, Copy!Drops, Copy!Whole
    <3> QED BY <1>3, <2>5, <3>1 DEF Copy!Stored
  <2> QED BY <1>6, <2>3, <2>4, <2>5
<1> QED BY <1>5, <1>6

LEMMA WatermarkIs ==
  ASSUME DimsTyped, Copy!Rows # {}
  PROVE  Copy!Watermark \in 0..clock /\ \E j \in Copy!Rows : Copy!Watermark = local[j].at
<1> DEFINE S == {local[j].at : j \in Copy!Rows}
<1>1. S \in SUBSET (0..clock) /\ S # {} BY DEF DimsTyped, Copy!Rows
<1>2. Copy!Max(S) \in S
  <2> HIDE DEF S
  <2> QED BY <1>1, MaxIs DEF DimsTyped
<1> QED BY <1>1, <1>2 DEF Copy!Watermark

\* what a sync does not ask for is in step
LEMMA NotAsked ==
  ASSUME DimsAssumption, DimsTyped, Recent, ~Running, clean \/ Copy!Afresh,
         NEW i \in Ids, Copy!Here(i), Copy!Ours(i), i \notin Copy!Asked
  PROVE  Copy!InStep(i)
<1>1. i \in Copy!InUse BY DEF Copy!InUse
<1>2. type \in Copy!Timed BY <1>1 DEF Copy!Asked, Copy!Timed
<1>3. ASSUME clean PROVE Copy!InStep(i) \/ Newer(i) BY <1>2, <1>3 DEF Recent
<1>4. ASSUME Newer(i), Copy!Rows # {} PROVE remote[i].at > Copy!Watermark
  <2>1. PICK j \in Copy!Rows : Copy!Watermark = local[j].at BY <1>4, WatermarkIs
  <2>2. local[j].at < remote[i].at BY <1>4 DEF Newer
  <2>3. local[j].at \in Nat /\ remote[i].at \in Nat BY DEF DimsTyped, Copy!Rows
  <2> QED BY <2>1, <2>2, <2>3
<1>5. CASE type \in Copy!Incremental
  <2>1. clean BY <1>2, <1>5 DEF Copy!Afresh, Copy!Incremental
  <2>2. CASE Newer(i)
    <3>1. Copy!Since(i) BY <1>4, <1>5, <2>2 DEF Copy!Since, Copy!Incremental
    <3>2. Copy!Rows = {} /\ remote[i].state # "active" BY <1>1, <1>5, <3>1 DEF Copy!Asked
    <3>3. remote[i].state = "inactive" BY <3>2 DEF DimsTyped, Copy!States, Copy!Here
    <3>4. local[i].state = "absent" BY <3>2 DEF Copy!Rows, Copy!Stored
    <3> QED BY <3>3, <3>4 DEF Copy!InStep, Copy!Closed
  <2> QED BY <1>3, <2>1, <2>2
<1>6. CASE type = "employee"
  <2>1. ~Copy!Since(i) BY <1>1, <1>6 DEF Copy!Asked, Copy!Incremental
  <2>2. Copy!Rows # {} /\ ~(remote[i].at + Slack >= Copy!Watermark) BY <1>6, <2>1 DEF Copy!Since
  <2>3. Copy!Watermark \in 0..clock BY <2>2, WatermarkIs
  <2>4. remote[i].at \in Nat /\ clock \in Nat /\ Slack \in Nat
    BY DEF DimsTyped, DimsAssumption
  <2>5. clean
    <3>1. clock > Slack BY <2>2, <2>3, <2>4
    <3>2. ~Copy!Afresh BY <1>6, <2>4, <3>1 DEF Copy!Afresh, Copy!Timed
    <3> QED BY <3>2
  <2>6. ~Newer(i)
    <3>1. ~(remote[i].at > Copy!Watermark) BY <2>2, <2>3, <2>4
    <3> QED BY <1>4, <2>2, <3>1
  <2> QED BY <1>3, <2>5, <2>6
<1> QED BY <1>2, <1>5, <1>6 DEF Copy!Timed

\* when neither side changes, nor does what is said of them
LEMMA SameSides ==
  ASSUME UNCHANGED <<type, conf, remote, local>>
  PROVE  /\ Copy!InUse' = Copy!InUse /\ Copy!Rows' = Copy!Rows
         /\ \A i \in Ids : /\ Copy!InStep(i)' <=> Copy!InStep(i)
                           /\ Copy!Ours(i)' <=> Copy!Ours(i)
                           /\ Newer(i)' <=> Newer(i)
                           /\ Copy!Stored(i)' <=> Copy!Stored(i)
<1>1. Copy!InUse' = Copy!InUse /\ Copy!Rows' = Copy!Rows
  BY DEF Copy!InUse, Copy!Rows, Copy!Here, Copy!Stored
<1>2. ASSUME NEW i \in Ids
      PROVE  /\ Copy!Ours(i)' <=> Copy!Ours(i)
             /\ Newer(i)' <=> Newer(i)
             /\ Copy!Stored(i)' <=> Copy!Stored(i)
  BY <1>1 DEF Copy!Ours, Newer, Copy!Stored
<1>3. ASSUME NEW i \in Ids PROVE Copy!InStep(i)' <=> Copy!InStep(i)
  BY DEF Copy!InStep, Copy!Same, Copy!Closed
<1> QED BY <1>1, <1>2, <1>3

LEMMA InStepInit == DimsAssumption /\ Copy!Init => InStepInv
<1> SUFFICES ASSUME DimsAssumption, Copy!Init PROVE InStepInv OBVIOUS
<1>1. DimsTyped BY DimsTypedInit
<1>2. sync.at = "off" BY DEF Copy!Init, Copy!Idle
<1>3. Copy!Rows = {} BY DEF Copy!Init, Copy!Rows, Copy!Stored, Copy!NoRow
<1>4. Recent BY <1>3 DEF Recent, Newer
<1>5. Undisturbed /\ OnePage /\ Settled /\ Copy!SyncedInStep
  BY <1>2 DEF Undisturbed, OnePage, Settled, Copy!SyncedInStep, Running
<1> QED BY <1>1, <1>4, <1>5 DEF InStepInv

\* a disturbed sync promises nothing, but to be what it is
LEMMA Disturbed ==
  ASSUME DimsTyped', ~clean', type \in Copy!Whole /\ sync'.at # "off" => sync'.count = 1,
         UNCHANGED type
  PROVE  InStepInv'
BY DEF InStepInv, Undisturbed, OnePage, Settled, Recent, Copy!SyncedInStep

LEMMA ChangeStep ==
  ASSUME DimsAssumption, InStepInv, DimsTyped', NEW i \in Ids, Copy!Change(i)
  PROVE  InStepInv'
<1>1. /\ clock' = clock + 1 /\ UNCHANGED <<type, conf, local>>
      /\ clean' = (clean /\ sync.at \in {"off", "done"})
      /\ sync' = [sync EXCEPT !.at = IF @ = "done" THEN "off" ELSE @]
  BY DEF Copy!Change
<1>2. sync'.count = sync.count /\ sync'.at = IF sync.at = "done" THEN "off" ELSE sync.at
  BY <1>1 DEF InStepInv, DimsTyped
<1>3. type \in Copy!Whole /\ sync'.at # "off" => sync'.count = 1
  BY <1>2 DEF InStepInv, OnePage
<1>4. CASE ~clean' BY <1>1, <1>3, <1>4, Disturbed
<1>5. CASE clean'
  <2>1. clean /\ sync.at \in {"off", "done"} /\ sync'.at = "off" BY <1>1, <1>2, <1>5
  <2>2. \A j \in Ids : /\ j # i => remote'[j] = remote[j]
                       /\ j = i => remote'[j].at = clock + 1
    BY <1>1 DEF Copy!Change, InStepInv, DimsTyped
  <2>3. ASSUME type \in Copy!Timed, NEW j \in Ids, Copy!Ours(j)' PROVE Copy!InStep(j)' \/ Newer(j)'
    <3>1. Copy!Rows' = Copy!Rows /\ Copy!Rows \subseteq Ids BY <1>1 DEF Copy!Rows, Copy!Stored
    <3>2. CASE j = i
      <4>1. \A k \in Copy!Rows : local[k].at < clock + 1
        BY <3>1 DEF InStepInv, DimsTyped
      <4>2. Newer(j)' BY <1>1, <2>2, <3>1, <3>2, <4>1 DEF Newer
      <4> QED BY <4>2
    <3>3. CASE j # i
      <4>1. Copy!InStep(j) \/ Newer(j)
        BY <1>1, <2>1, <2>3 DEF InStepInv, Recent, Running, Copy!Ours
      <4>2. remote'[j] = remote[j] BY <2>2, <3>3
      <4>3. Copy!InStep(j) => Copy!InStep(j)'
        BY <1>1, <4>2 DEF Copy!InStep, Copy!Same, Copy!Closed
      <4>4. Newer(j) => Newer(j)' BY <1>1, <3>1, <4>2 DEF Newer
      <4> QED BY <4>1, <4>3, <4>4
    <3> QED BY <3>2, <3>3
  <2>4. Recent' BY <1>1, <2>3 DEF Recent
  <2> QED BY <1>3, <2>1, <2>4
      DEF InStepInv, Undisturbed, OnePage, Settled, Copy!SyncedInStep, Running
<1> QED BY <1>4, <1>5

LEMMA RenumberStep ==
  ASSUME InStepInv, DimsTyped', NEW i \in Ids, NEW j \in Ids, Copy!Renumber(i, j)
  PROVE  InStepInv'
<1>1. /\ type = "custom_record" /\ UNCHANGED type
      /\ clean' = (clean /\ sync.at \in {"off", "done"})
      /\ sync' = [sync EXCEPT !.at = IF @ = "done" THEN "off" ELSE @]
  BY DEF Copy!Renumber
<1>2. sync'.count = sync.count /\ sync'.at = IF sync.at = "done" THEN "off" ELSE sync.at
  BY <1>1 DEF InStepInv, DimsTyped
<1>3. type \in Copy!Whole /\ sync'.at # "off" => sync'.count = 1
  BY <1>2 DEF InStepInv, OnePage
<1>4. CASE ~clean' BY <1>1, <1>3, <1>4, Disturbed
<1>5. CASE clean'
  <2>1. sync'.at = "off" BY <1>1, <1>2, <1>5
  <2>2. type \notin Copy!Timed BY <1>1 DEF Copy!Timed, Copy!Incremental
  <2> QED BY <1>1, <1>3, <2>1, <2>2
      DEF InStepInv, Undisturbed, OnePage, Settled, Recent, Copy!SyncedInStep, Running
<1> QED BY <1>4, <1>5

LEMMA BeginStep ==
  ASSUME DimsAssumption, InStepInv, DimsTyped', Copy!Begin
  PROVE  InStepInv'
<1>1. /\ sync.at \in {"off", "done"} /\ UNCHANGED <<type, conf, remote, local>>
      /\ clean' = (clean \/ Copy!Afresh)
  BY DEF Copy!Begin
<1>2. PICK pages \in Copy!Pages(Copy!Asked) :
         sync' = [Copy!Idle EXCEPT !.at = "on", !.pages = pages, !.known = Copy!Rows, !.count = Len(pages)]
  BY DEF Copy!Begin
<1>3. /\ sync'.at = "on" /\ sync'.pages = pages /\ sync'.known = Copy!Rows
      /\ sync'.count = Len(pages) /\ sync'.got = << >> /\ sync'.held = << >>
  BY <1>2 DEF Copy!Idle
<1>4. Copy!Asked \in SUBSET Ids BY DEF Copy!Asked, Copy!InUse
<1>5. /\ pages \in Seq(SUBSET Ids)
      /\ \A i \in Copy!Asked : \E k \in DOMAIN pages : i \in pages[k]
      /\ type \in Copy!Whole => pages = <<Copy!Asked>>
      /\ Len(pages) = 1 => pages = <<Copy!Asked>>
  BY <1>4, PagesAre
<1>6. type \in Copy!Whole \cup {"item"} => Copy!Asked = Copy!InUse
  BY DEF Copy!Asked, Copy!Whole, Copy!Incremental
<1>7. DOMAIN sync'.got = {} /\ DOMAIN sync'.held = {} BY <1>3
<1>8. Undisturbed' BY <1>1, <1>3, <1>7, SameSides DEF Undisturbed, Copy!Rows
<1>9. OnePage' BY <1>1, <1>3, <1>5, <1>6, SameSides DEF OnePage
<1>10. ASSUME clean', type = "item" => sync'.count = 1, NEW i \in Ids, Copy!Ours(i)
       PROVE  Copy!InStep(i) \/ Pending(i)'
  <2>1. CASE type \in Copy!Drops
    <3>1. pages # << >>
      <4>1. type \in Copy!Whole \/ Len(pages) = 1 BY <1>3, <1>10, <2>1 DEF Copy!Drops
      <4>2. pages = <<Copy!Asked>> BY <1>5, <4>1
      <4> QED BY <4>2
    <3> QED BY <1>1, <1>3, <2>1, <3>1 DEF Pending
  <2>2. CASE type \notin Copy!Drops /\ i \in Copy!Asked
    <3>1. \E k \in DOMAIN sync'.pages : i \in sync'.pages[k] BY <1>3, <1>5, <2>2
    <3> QED BY <1>1, <2>2, <3>1 DEF Pending
  <2>3. CASE type \notin Copy!Drops /\ ~Copy!Here(i)
    BY <2>3 DEF Copy!Here, Copy!InStep
  <2>4. CASE i \notin Copy!Asked /\ Copy!Here(i)
    BY <1>1, <1>10, <2>4, NotAsked DEF InStepInv, Running
  <2> QED BY <2>1, <2>2, <2>3, <2>4
<1>11. Settled' BY <1>1, <1>10, SameSides DEF Settled
<1>12. Recent' /\ Copy!SyncedInStep' BY <1>3 DEF Recent, Copy!SyncedInStep, Running
<1> QED BY <1>8, <1>9, <1>11, <1>12 DEF InStepInv

LEMMA FetchStep ==
  ASSUME InStepInv, DimsTyped', Copy!Fetch
  PROVE  InStepInv'
<1> DEFINE found == Head(sync.pages) \cap Copy!InUse
           kept  == IF type \in Copy!Growing THEN DOMAIN sync.held ELSE {}
<1>1. /\ sync.at = "on" /\ sync.pages # << >>
      /\ UNCHANGED <<type, conf, remote, local, clean>>
  BY DEF Copy!Fetch
<1>2. /\ sync'.at = "read" /\ sync'.pages = Tail(sync.pages)
      /\ sync'.known = sync.known /\ sync'.count = sync.count
      /\ sync'.got = [i \in found |-> remote[i]]
      /\ sync'.held = [i \in found \cup kept |-> IF i \in found THEN remote[i] ELSE sync.held[i]]
  BY DEF Copy!Fetch, InStepInv, DimsTyped
<1>3. sync.pages \in Seq(SUBSET Ids) BY DEF InStepInv, DimsTyped
<1>4. DOMAIN sync'.got = found /\ DOMAIN sync'.held = found \cup kept BY <1>2
<1>5. ASSUME clean
      PROVE  /\ kept \subseteq Copy!InUse /\ \A i \in kept : sync.held[i] = remote[i]
             /\ type \in Copy!Growing =>
                   \A i \in Ids \ sync.known : remote[i].state = "inactive" => ~Copy!Stored(i)
  BY <1>1, <1>5 DEF InStepInv, Undisturbed, Running
<1>6. Undisturbed'
  <2> SUFFICES ASSUME clean
               PROVE  /\ DOMAIN sync'.got \subseteq DOMAIN sync'.held
                      /\ DOMAIN sync'.held \subseteq Copy!InUse
                      /\ \A i \in DOMAIN sync'.held : sync'.held[i] = remote[i]
                      /\ type \in Copy!Growing =>
                            \A i \in Ids \ sync.known : remote[i].state = "inactive" => ~Copy!Stored(i)
    BY <1>1, <1>2, SameSides DEF Undisturbed
  <2> QED BY <1>2, <1>4, <1>5
<1>7. OnePage'
  <2>1. ASSUME type \in Copy!Whole \cup {"item"}, clean, sync.count = 1
        PROVE  sync'.pages = << >> /\ DOMAIN sync'.held = Copy!InUse
    <3>1. sync.pages = <<Copy!InUse>> BY <1>1, <2>1 DEF InStepInv, OnePage, Running
    <3>2. Head(sync.pages) = Copy!InUse /\ Tail(sync.pages) = << >> BY <3>1
    <3> QED BY <1>2, <1>4, <1>5, <2>1, <3>2
  <2>2. type \in Copy!Whole => sync.count = 1 BY <1>1 DEF InStepInv, OnePage
  <2> QED BY <1>1, <1>2, <2>1, <2>2, SameSides DEF OnePage
<1>8. ASSUME clean, type = "item" => sync.count = 1, NEW i \in Ids, Copy!Ours(i)
      PROVE  Copy!InStep(i) \/ Pending(i)'
  <2>1. Copy!InStep(i) \/ Pending(i) BY <1>1, <1>8 DEF InStepInv, Settled, Running
  <2>2. CASE type \in Copy!Drops BY <1>1, <1>2, <2>2 DEF Pending
  <2>3. CASE type \notin Copy!Drops /\ Pending(i)
    <3>1. PICK k \in DOMAIN sync.pages : i \in sync.pages[k]
      BY <1>1, <2>3 DEF Pending
    <3>2. CASE k = 1 /\ Copy!Here(i)
      <4>1. i \in found BY <1>3, <3>1, <3>2 DEF Copy!InUse
      <4> QED BY <1>1, <1>2, <1>4, <2>3, <4>1 DEF Pending
    <3>3. CASE ~Copy!Here(i) BY <2>3, <3>3 DEF Copy!Here, Copy!InStep
    <3>4. CASE k # 1
      <4>1. k \in 2..Len(sync.pages) /\ Len(sync.pages) \in Nat BY <1>3, <3>1, <3>4
      <4>2. k - 1 \in DOMAIN Tail(sync.pages) /\ Tail(sync.pages)[k - 1] = sync.pages[k]
        BY <1>1, <1>3, <4>1
      <4>3. \E m \in DOMAIN sync'.pages : i \in sync'.pages[m] BY <1>2, <3>1, <4>2
      <4> QED BY <1>1, <2>3, <4>3 DEF Pending
    <3> QED BY <3>2, <3>3, <3>4
  <2> QED BY <2>1, <2>2, <2>3
<1>9. Settled' BY <1>1, <1>2, <1>8, SameSides DEF Settled
<1>10. Recent' /\ Copy!SyncedInStep' BY <1>2 DEF Recent, Copy!SyncedInStep, Running
<1> QED BY <1>6, <1>7, <1>9, <1>10 DEF InStepInv

LEMMA WriteStep ==
  ASSUME DimsAssumption, InStepInv, DimsTyped', Copy!Write
  PROVE  InStepInv'
<1>1. /\ sync.at = "read" /\ UNCHANGED <<type, conf, remote, clean>>
      /\ sync' = [sync EXCEPT !.at = "on", !.got = << >>]
  BY DEF Copy!Write
<1>2. /\ sync'.at = "on" /\ sync'.pages = sync.pages /\ sync'.known = sync.known
      /\ sync'.count = sync.count /\ sync'.held = sync.held /\ DOMAIN sync'.got = {}
  BY <1>1 DEF InStepInv, DimsTyped
<1>3. Copy!InUse' = Copy!InUse /\ \A i \in Ids : Copy!Ours(i)' <=> Copy!Ours(i)
  BY <1>1 DEF Copy!InUse, Copy!Here, Copy!Ours
<1>4. ASSUME clean, NEW i \in Ids
      PROVE  /\ Copy!Ours(i) /\ i \in DOMAIN sync.held => Copy!InStep(i)'
             /\ i \notin DOMAIN sync.held /\ type \notin Copy!Drops \cup {"custom_record"}
                   => local'[i] = local[i]
             /\ i \notin DOMAIN sync.held /\ type \in Copy!Drops => local'[i].state # "active"
             /\ type \in Copy!Growing /\ remote[i].state = "inactive" /\ i \notin sync.known
                   => local'[i].state = "absent"
  BY <1>4, WriteIs DEF InStepInv
<1>5. Undisturbed'
  <2> SUFFICES ASSUME clean
               PROVE  /\ DOMAIN sync.held \subseteq Copy!InUse
                      /\ \A i \in DOMAIN sync.held : sync.held[i] = remote[i]
                      /\ type \in Copy!Growing =>
                            \A i \in Ids \ sync.known :
                               remote[i].state = "inactive" => local'[i].state = "absent"
    BY <1>1, <1>2, <1>3 DEF Undisturbed, Copy!Stored
  <2>1. DOMAIN sync.held \subseteq Copy!InUse /\ \A i \in DOMAIN sync.held : sync.held[i] = remote[i]
    BY <1>1 DEF InStepInv, Undisturbed, Running
  <2> QED BY <1>4, <2>1
<1>6. OnePage' BY <1>1, <1>2, <1>3 DEF InStepInv, OnePage, Running
<1>7. ASSUME clean, type = "item" => sync.count = 1, NEW i \in Ids, Copy!Ours(i)
      PROVE  Copy!InStep(i)' \/ Pending(i)'
  <2>1. CASE i \in DOMAIN sync.held BY <1>4, <1>7, <2>1
  <2>2. CASE i \notin DOMAIN sync.held /\ type \in Copy!Drops \cup {"custom_record"}
    <3>1. sync.count = 1 BY <1>1, <1>7, <2>2 DEF InStepInv, OnePage, Copy!Drops, Copy!Whole
    <3>2. DOMAIN sync.held = Copy!InUse
      BY <1>1, <1>7, <2>2, <3>1 DEF InStepInv, OnePage, Running, Copy!Drops, Copy!Whole
    <3>3. remote[i].state = "absent" BY <2>2, <3>2 DEF Copy!InUse, Copy!Here
    <3>4. type \in Copy!Drops => local'[i].state # "active" BY <1>4, <1>7, <2>2
    <3> QED BY <1>1, <3>3, <3>4 DEF Copy!InStep, Copy!Closed
  <2>3. CASE i \notin DOMAIN sync.held /\ type \notin Copy!Drops \cup {"custom_record"}
    <3>1. local'[i] = local[i] BY <1>4, <1>7, <2>3
    <3>2. Copy!InStep(i) \/ Pending(i) BY <1>1, <1>7 DEF InStepInv, Settled, Running
    <3>3. Copy!InStep(i) => Copy!InStep(i)' BY <1>1, <3>1 DEF Copy!InStep, Copy!Same, Copy!Closed
    <3>4. ASSUME Pending(i) PROVE Pending(i)'
      <4>1. i \notin DOMAIN sync.got BY <1>1, <1>7, <2>3 DEF InStepInv, Undisturbed, Running
      <4>2. \E k \in DOMAIN sync.pages : i \in sync.pages[k]
        BY <2>3, <3>4, <4>1 DEF Pending
      <4> QED BY <1>1, <1>2, <2>3, <4>2 DEF Pending
    <3> QED BY <3>2, <3>3, <3>4
  <2> QED BY <2>1, <2>2, <2>3
<1>8. Settled' BY <1>1, <1>2, <1>3, <1>7 DEF Settled
<1>9. Recent' /\ Copy!SyncedInStep' BY <1>2 DEF Recent, Copy!SyncedInStep, Running
<1> QED BY <1>5, <1>6, <1>8, <1>9 DEF InStepInv

LEMMA EndStep ==
  ASSUME InStepInv, DimsTyped', Copy!End
  PROVE  InStepInv'
<1>1. /\ sync.at = "on" /\ sync.pages = << >> /\ UNCHANGED <<type, conf, remote, local, clean>>
      /\ sync'.at = "done" /\ sync'.count = sync.count
  BY DEF Copy!End, InStepInv, DimsTyped
<1>2. ASSUME clean, type = "item" => sync.count = 1, NEW i \in Ids, Copy!Ours(i)
      PROVE  Copy!InStep(i)
  <2>1. Copy!InStep(i) \/ Pending(i) BY <1>1, <1>2 DEF InStepInv, Settled, Running
  <2>2. ~Pending(i) BY <1>1 DEF Pending
  <2> QED BY <2>1, <2>2
<1>3. Copy!SyncedInStep' BY <1>1, <1>2, SameSides DEF Copy!SyncedInStep
<1>4. Recent'
  <2>1. type \in Copy!Timed => type # "item" BY DEF Copy!Timed, Copy!Incremental
  <2> QED BY <1>1, <1>2, <2>1, SameSides DEF Recent
<1>5. OnePage' BY <1>1 DEF InStepInv, OnePage, Running
<1>6. Undisturbed' /\ Settled' BY <1>1 DEF Undisturbed, Settled, Running
<1> QED BY <1>3, <1>4, <1>5, <1>6 DEF InStepInv

LEMMA InStepStep ==
  ASSUME DimsAssumption, InStepInv, [Copy!Next]_Copy!vars
  PROVE  InStepInv'
<1>1. DimsTyped' BY DimsTypedStep DEF InStepInv
<1>2. CASE UNCHANGED Copy!vars
  <2>1. UNCHANGED <<type, conf, remote, local, sync, clean>> BY <1>2 DEF Copy!vars
  <2>2. Undisturbed' BY <2>1, SameSides DEF InStepInv, Undisturbed, Running
  <2>3. OnePage' BY <2>1, SameSides DEF InStepInv, OnePage, Running
  <2>4. \A i \in Ids : Pending(i)' <=> Pending(i) BY <2>1 DEF Pending
  <2>5. Settled' BY <2>1, <2>4, SameSides DEF InStepInv, Settled, Running
  <2>6. Recent' BY <2>1, SameSides DEF InStepInv, Recent, Running
  <2>7. Copy!SyncedInStep' BY <2>1, SameSides DEF InStepInv, Copy!SyncedInStep
  <2> QED BY <1>1, <2>2, <2>3, <2>5, <2>6, <2>7 DEF InStepInv
<1>3. ASSUME NEW i \in Ids, Copy!Change(i) PROVE InStepInv' BY <1>1, <1>3, ChangeStep
<1>4. ASSUME NEW i \in Ids, NEW j \in Ids, Copy!Renumber(i, j) PROVE InStepInv'
  BY <1>1, <1>4, RenumberStep
<1>5. ASSUME NEW i \in Ids, Copy!Direct(i) PROVE InStepInv'
  <2>1. ~clean' /\ UNCHANGED <<type, sync>> BY <1>5 DEF Copy!Direct
  <2>2. type \in Copy!Whole /\ sync'.at # "off" => sync'.count = 1
    BY <2>1 DEF InStepInv, OnePage
  <2> QED BY <1>1, <2>1, <2>2, Disturbed
<1>6. CASE Copy!Begin BY <1>1, <1>6, BeginStep
<1>7. CASE Copy!Fetch BY <1>1, <1>7, FetchStep
<1>8. CASE Copy!Write BY <1>1, <1>8, WriteStep
<1>9. CASE Copy!Raise \/ Copy!Fail
  <2>1. ~clean' /\ type' = type /\ sync'.at = "off" BY <1>9 DEF Copy!Raise, Copy!Fail, Copy!Idle
  <2> QED BY <1>1, <2>1, Disturbed
<1>10. CASE Copy!End BY <1>1, <1>10, EndStep
<1> QED BY <1>2, <1>3, <1>4, <1>5, <1>6, <1>7, <1>8, <1>9, <1>10 DEF Copy!Next

\* At the end of a sync that nothing disturbed the workspace has what NetSuite has: for
\* the kinds of records that are read as a whole this is so whatever happened before,
\* for employees within 30 days, for vendors and customers as long as no sync before
\* failed or was overtaken by a change, and no vendor came from an export.  Items need
\* to fit on one page.
THEOREM CopyInStep == ASSUME DimsAssumption PROVE Copy!Spec => []Copy!SyncedInStep
<1>1. Copy!Init => InStepInv BY InStepInit
<1>2. InStepInv /\ [Copy!Next]_Copy!vars => InStepInv' BY InStepStep
<1>3. InStepInv => Copy!SyncedInStep BY DEF InStepInv
<1> QED BY <1>1, <1>2, <1>3, PTL DEF Copy!Spec
-----------------------------------------------------------------------------
(* Custom records keep their rows.                                         *)

\* within a list, names are unique in NetSuite, on a page and in the copy
NamesApart ==
    type = "custom_record" =>
        /\ DOMAIN remote = Ids /\ DOMAIN local = Ids
        /\ \A i, j \in Ids : remote[i].name = remote[j].name => i = j
        /\ \A i, j \in Copy!Rows : local[i].name = local[j].name => i = j
        /\ DOMAIN sync = {"at", "pages", "known", "got", "held", "count"}
        /\ sync.at = "read" =>
              /\ sync.held = sync.got /\ DOMAIN sync.got \subseteq Ids
              /\ \A i, j \in DOMAIN sync.got : sync.got[i].name = sync.got[j].name => i = j
              /\ \A i \in DOMAIN sync.got : sync.got[i].state # "absent"

\* a row that does not move is not replaced
LEMMA Unmoved ==
  ASSUME NEW page, ~Copy!Occupied(page), NEW i \in Copy!Rows, Copy!NewId(page, i) = i
  PROVE  Copy!Renumbered(page)[i] = local[i]
<1> DEFINE to == {k \in Copy!Moved(page) : Copy!NewId(page, k) = i}
<1>1. i \in Ids /\ i \notin Copy!Moved(page) BY DEF Copy!Rows, Copy!Moved
<1>2. to = {} BY <1>1 DEF Copy!Occupied
<1> QED BY <1>1, <1>2 DEF Copy!Renumbered

\* what the new ids do to a row: it moves, or stays
LEMMA MovesOrStays ==
  ASSUME type = "custom_record", NamesApart, sync.at = "read", ~Copy!Occupied(sync.got), NEW i \in Copy!Rows
  PROVE  /\ Copy!NewId(sync.got, i) \in Ids
         /\ Copy!Renumbered(sync.got)[Copy!NewId(sync.got, i)] = local[i]
         /\ (\E k \in DOMAIN sync.got : sync.got[k].name = local[i].name) =>
               /\ Copy!NewId(sync.got, i) \in DOMAIN sync.got
               /\ sync.got[Copy!NewId(sync.got, i)].name = local[i].name
<1> DEFINE page == sync.got
           same == {j \in DOMAIN page : page[j].name = local[i].name}
           new  == Copy!NewId(page, i)
<1>0. i \in Ids /\ Copy!Stored(i) BY DEF Copy!Rows
<1>1. CASE same # {}
  <2>1. PICK j \in same : j = CHOOSE k \in same : TRUE BY <1>1
  <2>2. new = j BY <1>0, <1>1, <2>1 DEF Copy!NewId
  <2>3. new \in Ids /\ new \in DOMAIN page /\ page[new].name = local[i].name
    BY <2>1, <2>2 DEF NamesApart
  <2>4. CASE new # i
    <3>1. i \in Copy!Moved(page) BY <1>0, <2>4 DEF Copy!Moved
    <3> DEFINE to == {k \in Copy!Moved(page) : Copy!NewId(page, k) = new}
    <3>2. i \in to BY <3>1
    <3>3. ASSUME NEW k \in to PROVE k = i
      <4>1. k \in Copy!Rows /\ Copy!NewId(page, k) = new /\ k # new BY <3>3 DEF Copy!Moved
      <4>2. {m \in DOMAIN page : page[m].name = local[k].name} # {} BY <4>1 DEF Copy!NewId
      <4>3. new \in {m \in DOMAIN page : page[m].name = local[k].name}
        BY <4>1, <4>2 DEF Copy!NewId
      <4>4. local[k].name = local[i].name BY <2>3, <4>3
      <4> QED BY <4>1, <4>4 DEF NamesApart
    <3>4. (CHOOSE k \in to : TRUE) = i
      <4>1. (CHOOSE k \in to : TRUE) \in to BY <3>2
      <4> HIDE DEF to
      <4> QED BY <3>3, <4>1
    <3>5. Copy!Renumbered(page)[new] = local[i] BY <2>3, <3>2, <3>4 DEF Copy!Renumbered
    <3> QED BY <2>3, <3>5
  <2>5. CASE new = i
    <3>1. Copy!Renumbered(page)[i] = local[i] BY <1>0, <2>5, Unmoved
    <3> QED BY <2>3, <2>5, <3>1
  <2> QED BY <2>4, <2>5
<1>2. CASE same = {}
  <2>1. new = i BY <1>2 DEF Copy!NewId
  <2>2. Copy!Renumbered(page)[i] = local[i] BY <1>0, <2>1, Unmoved
  <2> QED BY <1>0, <1>2, <2>1, <2>2
<1> QED BY <1>1, <1>2

\* what is stored under new ids comes from one row
LEMMA FromRow ==
  ASSUME NEW page, NEW k \in Ids, Copy!Renumbered(page)[k].state # "absent"
  PROVE  \E r \in Copy!Rows : Copy!Renumbered(page)[k] = local[r] /\ Copy!NewId(page, r) = k
<1> DEFINE to == {m \in Copy!Moved(page) : Copy!NewId(page, m) = k}
<1>1. CASE to # {}
  <2>1. PICK r \in to : r = CHOOSE m \in to : TRUE BY <1>1
  <2>2. r \in Copy!Rows /\ Copy!NewId(page, r) = k BY <2>1 DEF Copy!Moved
  <2>3. Copy!Renumbered(page)[k] = local[r] BY <1>1, <2>1 DEF Copy!Renumbered
  <2> QED BY <2>2, <2>3
<1>2. CASE to = {}
  <2>1. k \notin Copy!Moved(page) BY <1>2 DEF Copy!Renumbered, Copy!NoRow
  <2>2. Copy!Renumbered(page)[k] = local[k] BY <1>2, <2>1 DEF Copy!Renumbered
  <2>3. k \in Copy!Rows BY <2>2 DEF Copy!Rows, Copy!Stored
  <2> QED BY <2>1, <2>2, <2>3 DEF Copy!Moved
<1> QED BY <1>1, <1>2

\* rows that have new ids still have different names
LEMMA RenumberedApart ==
  ASSUME type = "custom_record", NamesApart, sync.at = "read",
         NEW i \in Ids, NEW j \in Ids, ~Copy!Occupied(sync.got),
         Copy!Renumbered(sync.got)[i].state # "absent", Copy!Renumbered(sync.got)[j].state # "absent",
         Copy!Renumbered(sync.got)[i].name = Copy!Renumbered(sync.got)[j].name
  PROVE  i = j
<1>1. PICK r \in Copy!Rows : Copy!Renumbered(sync.got)[i] = local[r] /\ Copy!NewId(sync.got, r) = i BY FromRow
<1>2. PICK q \in Copy!Rows : Copy!Renumbered(sync.got)[j] = local[q] /\ Copy!NewId(sync.got, q) = j BY FromRow
<1>3. r = q BY <1>1, <1>2 DEF NamesApart
<1> QED BY <1>1, <1>2, <1>3

LEMMA RecordsWrite ==
  ASSUME type = "custom_record", NamesApart, Copy!Write
  PROVE  /\ sync.at = "read" /\ ~Copy!Occupied(sync.got) /\ ~Copy!Gone(sync.got)
         /\ DOMAIN local' = Ids
         /\ \A i \in Ids :
               /\ i \in DOMAIN sync.got =>
                     /\ local'[i].name = sync.got[i].name
                     /\ Copy!Renumbered(sync.got)[i].state # "absent" =>
                           local'[i].row = Copy!Renumbered(sync.got)[i].row
               /\ i \notin DOMAIN sync.got =>
                     local'[i] = Copy!Renumbered(sync.got)[i] /\ local'[i].state = "absent"
<1>1. /\ sync.at = "read" /\ ~Copy!Occupied(sync.got) /\ ~Copy!Gone(sync.got)
      /\ local' = Copy!Upsert(Copy!Renumbered(sync.got), Copy!Attributes(sync.held))
  BY DEF Copy!Write, Copy!Raises
<1>2. sync.held = sync.got BY <1>1 DEF NamesApart
<1>3. Copy!Attributes(sync.held) = [i \in DOMAIN sync.got |-> Copy!Attribute(sync.got[i])]
  BY <1>2 DEF Copy!Attributes, Copy!PerPage, Copy!Growing, Copy!Timed, Copy!Incremental,
      Copy!Whole, Copy!Plain
<1>4. PICK base, A : base = Copy!Renumbered(sync.got) /\ A = Copy!Attributes(sync.held) OBVIOUS
<1>5. DOMAIN A = DOMAIN sync.got /\ \A i \in DOMAIN A : A[i].name = sync.got[i].name
  BY <1>3, <1>4 DEF Copy!Attribute
<1>6. ASSUME NEW i \in Ids
      PROVE  /\ i \in DOMAIN A => local'[i].name = A[i].name
             /\ i \notin DOMAIN A => local'[i] = base[i]
             /\ base[i].state # "absent" => local'[i].row = base[i].row
  <2>1. local' = Copy!Upsert(base, A) BY <1>1, <1>4
  <2>2. base[i].state # "absent" => Copy!Upsert(base, A)[i].row = base[i].row BY DEF Copy!Upsert
  <2> QED BY <2>1, <2>2, UpsertIs
<1>7. \A i \in Ids \ DOMAIN sync.got : base[i].state = "absent" BY <1>1, <1>4 DEF Copy!Gone
<1>8. DOMAIN local' = Ids BY <1>1 DEF Copy!Upsert
<1> QED BY <1>1, <1>4, <1>5, <1>6, <1>7, <1>8

LEMMA NamesApartInit == Copy!Init => NamesApart
<1> SUFFICES ASSUME Copy!Init, type = "custom_record" PROVE NamesApart BY DEF NamesApart
<1>1. DOMAIN remote = Ids /\ \A i, j \in Ids : remote[i].name = remote[j].name => i = j
  <2>1. type \in Copy!Whole BY DEF Copy!Whole
  <2>2. /\ remote \in [Ids -> [state: {"active", "inactive"}, name: Names, at: {0}]]
        /\ Copy!IsInjective([i \in Ids |-> remote[i].name])
    BY <2>1 DEF Copy!Init
  <2>3. PICK f : f = [i \in Ids |-> remote[i].name] OBVIOUS
  <2>4. \A i, j \in DOMAIN f : f[i] = f[j] => i = j BY <2>2, <2>3 DEF Copy!IsInjective
  <2> QED BY <2>2, <2>3, <2>4
<1>2. DOMAIN local = Ids /\ Copy!Rows = {} BY DEF Copy!Init, Copy!Rows, Copy!Stored, Copy!NoRow
<1>3. DOMAIN sync = {"at", "pages", "known", "got", "held", "count"} /\ sync.at = "off"
  BY DEF Copy!Init, Copy!Idle
<1> QED BY <1>1, <1>2, <1>3 DEF NamesApart

LEMMA NamesApartStep == ASSUME NamesApart, [Copy!Next]_Copy!vars PROVE NamesApart'
<1> SUFFICES ASSUME type = "custom_record" PROVE NamesApart'
  <2>1. type' = type
    BY DEF Copy!Next, Copy!vars, Copy!Change, Copy!Renumber, Copy!Direct, Copy!Begin, Copy!Fetch,
        Copy!Write, Copy!Raise, Copy!Fail, Copy!End
  <2> QED BY <2>1 DEF NamesApart
<1> USE DEF NamesApart
<1>1. CASE UNCHANGED Copy!vars BY <1>1 DEF Copy!vars, Copy!Rows, Copy!Stored
<1>2. ASSUME NEW i \in Ids, Copy!Change(i) PROVE NamesApart'
  <2>1. PICK s \in Copy!States, n \in Names :
           /\ remote' = [remote EXCEPT ![i] = [state |-> s, name |-> n, at |-> clock']]
           /\ \A j \in Ids \ {i} : remote[j].name # n
    BY <1>2, ZenonT(30) DEF Copy!Change, Copy!Whole
  <2>2. UNCHANGED <<type, local>> /\ sync' = [sync EXCEPT !.at = IF @ = "done" THEN "off" ELSE @]
    BY <1>2 DEF Copy!Change
  <2>3. DOMAIN remote' = Ids /\ \A j, k \in Ids : remote'[j].name = remote'[k].name => j = k
    BY <2>1
  <2>4. Copy!Rows' = Copy!Rows BY <2>2 DEF Copy!Rows, Copy!Stored
  <2>5. /\ DOMAIN sync' = DOMAIN sync /\ sync'.got = sync.got /\ sync'.held = sync.held
        /\ sync'.at = "read" => sync.at = "read"
    BY <2>2
  <2> QED BY <2>2, <2>3, <2>4, <2>5
<1>3. ASSUME NEW i \in Ids, NEW j \in Ids, Copy!Renumber(i, j) PROVE NamesApart'
  <2>1. remote' = [remote EXCEPT ![i] = remote[j], ![j] = remote[i]] BY <1>3 DEF Copy!Renumber
  <2>2. UNCHANGED <<type, local>> /\ sync' = [sync EXCEPT !.at = IF @ = "done" THEN "off" ELSE @]
    BY <1>3 DEF Copy!Renumber
  <2>3. DOMAIN remote' = Ids /\ \A k, m \in Ids : remote'[k].name = remote'[m].name => k = m
    BY <2>1
  <2>4. Copy!Rows' = Copy!Rows BY <2>2 DEF Copy!Rows, Copy!Stored
  <2>5. /\ DOMAIN sync' = DOMAIN sync /\ sync'.got = sync.got /\ sync'.held = sync.held
        /\ sync'.at = "read" => sync.at = "read"
    BY <2>2
  <2> QED BY <2>2, <2>3, <2>4, <2>5
<1>4. ASSUME NEW i \in Ids, Copy!Direct(i) PROVE NamesApart' BY <1>4 DEF Copy!Direct
<1>5. CASE Copy!Begin
  <2>1. UNCHANGED <<type, remote, local>> BY <1>5 DEF Copy!Begin
  <2>2. DOMAIN sync' = DOMAIN sync /\ sync'.at = "on" BY <1>5 DEF Copy!Begin, Copy!Idle
  <2>3. Copy!Rows' = Copy!Rows BY <2>1 DEF Copy!Rows, Copy!Stored
  <2> QED BY <2>1, <2>2, <2>3
<1>6. CASE Copy!Fetch
  <2> DEFINE found == Head(sync.pages) \cap Copy!InUse
  <2>1. UNCHANGED <<type, remote, local>> BY <1>6 DEF Copy!Fetch
  <2>2. /\ DOMAIN sync' = DOMAIN sync /\ sync'.at = "read"
        /\ sync'.got = [i \in found |-> remote[i]] /\ sync'.held = [i \in found |-> remote[i]]
    <3>1. sync' = [sync EXCEPT !.at = "read", !.pages = Tail(@),
                      !.got  = [i \in found |-> remote[i]],
                      !.held = [i \in found \cup {} |-> IF i \in found THEN remote[i] ELSE @[i]]]
      BY <1>6 DEF Copy!Fetch, Copy!Growing
    <3> QED BY <3>1
  <2>3. Copy!Rows' = Copy!Rows BY <2>1 DEF Copy!Rows, Copy!Stored
  <2>4. found \subseteq Ids /\ \A i \in found : remote[i].state # "absent"
    BY DEF Copy!InUse, Copy!Here
  <2> HIDE DEF found
  <2> QED BY <2>1, <2>2, <2>3, <2>4
<1>7. CASE Copy!Write
  <2>1. /\ UNCHANGED <<type, remote>> /\ sync' = [sync EXCEPT !.at = "on", !.got = << >>]
    BY <1>7 DEF Copy!Write
  <2>2. DOMAIN sync' = DOMAIN sync /\ sync'.at = "on" BY <2>1
  <2>3. DOMAIN local' = Ids BY <1>7, RecordsWrite
  <2>4. ASSUME NEW i \in Copy!Rows', NEW j \in Copy!Rows', local'[i].name = local'[j].name PROVE i = j
    <3>1. i \in Ids /\ j \in Ids /\ local'[i].state # "absent" /\ local'[j].state # "absent"
      BY <2>4 DEF Copy!Rows, Copy!Stored
    <3>2. i \in DOMAIN sync.got /\ j \in DOMAIN sync.got BY <1>7, <3>1, RecordsWrite
    <3>3. local'[i].name = sync.got[i].name /\ local'[j].name = sync.got[j].name /\ sync.at = "read"
      BY <1>7, <3>1, <3>2, RecordsWrite
    <3> QED BY <2>4, <3>2, <3>3
  <2> QED BY <2>1, <2>2, <2>3, <2>4
<1>8. CASE Copy!Raise
  <2>1. /\ UNCHANGED <<type, remote>> /\ sync.at = "read"
        /\ DOMAIN sync' = DOMAIN sync /\ sync'.at = "off"
    BY <1>8 DEF Copy!Raise, Copy!Idle
  <2>2. CASE local' = local
    <3>1. Copy!Rows' = Copy!Rows BY <2>2 DEF Copy!Rows, Copy!Stored
    <3> QED BY <2>1, <2>2, <3>1
  <2>3. CASE local' # local
    <3>1. local' = Copy!Renumbered(sync.got) /\ ~Copy!Occupied(sync.got)
      BY <1>8, <2>3 DEF Copy!Raise
    <3>2. DOMAIN local' = Ids BY <3>1 DEF Copy!Renumbered
    <3>3. ASSUME NEW i \in Copy!Rows', NEW j \in Copy!Rows', local'[i].name = local'[j].name PROVE i = j
      <4>1. i \in Ids /\ j \in Ids /\ local'[i].state # "absent" /\ local'[j].state # "absent"
        BY <3>3 DEF Copy!Rows, Copy!Stored
      <4> QED BY <2>1, <3>1, <3>3, <4>1, RenumberedApart
    <3> QED BY <2>1, <3>2, <3>3
  <2> QED BY <2>2, <2>3
<1>9. CASE Copy!Fail
  <2>1. UNCHANGED <<type, remote, local>> /\ DOMAIN sync' = DOMAIN sync /\ sync'.at = "off"
    BY <1>9 DEF Copy!Fail, Copy!Idle
  <2>2. Copy!Rows' = Copy!Rows BY <2>1 DEF Copy!Rows, Copy!Stored
  <2> QED BY <2>1, <2>2
<1>10. CASE Copy!End
  <2>1. UNCHANGED <<type, remote, local>> /\ DOMAIN sync' = DOMAIN sync /\ sync'.at = "done"
    BY <1>10 DEF Copy!End
  <2>2. Copy!Rows' = Copy!Rows BY <2>1 DEF Copy!Rows, Copy!Stored
  <2> QED BY <2>1, <2>2
<1> QED BY <1>1, <1>2, <1>3, <1>4, <1>5, <1>6, <1>7, <1>8, <1>9, <1>10 DEF Copy!Next

LEMMA KeepsNamesStep == ASSUME NamesApart, [Copy!Next]_Copy!vars PROVE [Copy!KeepsNames]_Copy!vars
<1> SUFFICES ASSUME type = "custom_record", sync.at = "read", NEW i \in Copy!Rows
             PROVE  \E j \in Ids :
                       /\ local'[j].row = local[i].row
                       /\ (\E k \in DOMAIN sync.got : sync.got[k].name = local[i].name)
                             => local'[j].name = local[i].name
  BY DEF Copy!KeepsNames
<1>1. i \in Ids /\ local[i].state # "absent" BY DEF Copy!Rows, Copy!Stored
<1>2. CASE local' = local BY <1>1, <1>2
<1>3. CASE Copy!Write
  <2>1. ~Copy!Occupied(sync.got) /\ ~Copy!Gone(sync.got) BY <1>3, RecordsWrite
  <2>2. PICK j \in Ids :
           /\ Copy!Renumbered(sync.got)[j] = local[i]
           /\ (\E k \in DOMAIN sync.got : sync.got[k].name = local[i].name) =>
                 j \in DOMAIN sync.got /\ sync.got[j].name = local[i].name
    BY <2>1, MovesOrStays
  <2>3. j \in DOMAIN sync.got BY <1>1, <2>1, <2>2 DEF Copy!Gone
  <2>4. local'[j].name = sync.got[j].name /\ local'[j].row = local[i].row
    BY <1>1, <1>3, <2>2, <2>3, RecordsWrite
  <2> QED BY <2>2, <2>4
<1>4. CASE Copy!Raise /\ local' # local
  <2>1. local' = Copy!Renumbered(sync.got) /\ ~Copy!Occupied(sync.got) BY <1>4 DEF Copy!Raise
  <2>2. PICK j \in Ids : Copy!Renumbered(sync.got)[j] = local[i] BY <2>1, MovesOrStays
  <2> QED BY <2>1, <2>2
<1>5. Copy!Write \/ (Copy!Raise /\ local' # local) \/ local' = local
  BY DEF Copy!Next, Copy!vars, Copy!Change, Copy!Renumber, Copy!Direct, Copy!Begin, Copy!Fetch,
      Copy!Raise, Copy!Fail, Copy!End
<1> QED BY <1>2, <1>3, <1>4, <1>5

\* A mapping points to a row.  When the ids of custom records move, its row stays and
\* keeps its name as long as NetSuite has a record of that name.
THEOREM RowsKeepNames == Copy!Spec => Copy!NamesKept
<1>1. Copy!Init => NamesApart BY NamesApartInit
<1>2. NamesApart /\ [Copy!Next]_Copy!vars => NamesApart' BY NamesApartStep
<1>3. NamesApart /\ [Copy!Next]_Copy!vars => [Copy!KeepsNames]_Copy!vars BY KeepsNamesStep
<1> QED BY <1>1, <1>2, <1>3, PTL DEF Copy!Spec, Copy!NamesKept
-----------------------------------------------------------------------------
(* Types of the copy.                                                      *)

\* DimensionSync counts as the library does.
LEMMA SameCardinality == \A S : Copy!Cardinality(S) = Cardinality(S)
  BY DEF Copy!Cardinality, Cardinality

Row == [state: Copy!States, name: Names, at: Nat, row: 0..Cardinality(Ids)]
In(rs) == {i \in Ids : rs[i].state # "absent"}

\* each stored record has a row of its own; rows are numbered in the order they are added
RowsOK(rs) ==
    /\ rs \in [Ids -> Row]
    /\ \A i \in Ids : rs[i].row = 0 <=> rs[i].state = "absent"
    /\ \A i, j \in Ids : rs[i].row = rs[j].row /\ rs[i].row # 0 => i = j
    /\ \A i \in Ids : rs[i].row =< Cardinality(In(rs))

PageOK(page) ==
    /\ page = [i \in DOMAIN page |-> page[i]] /\ DOMAIN page \subseteq Ids
    /\ \A i \in DOMAIN page :
          page[i] \in [state: {"active", "inactive"}, name: Names, at: Nat]

CopyTyped ==
    /\ conf \in [items: BOOLEAN, intercompany: BOOLEAN, old: BOOLEAN]
    /\ remote \in [Ids -> [state: Copy!States, name: Names, at: Nat]]
    /\ RowsOK(local)
    /\ sync.known \subseteq Ids /\ PageOK(sync.got) /\ PageOK(sync.held)
    /\ fails \in 0..MaxFails

\* numbers for rows that are added
LEMMA Numbers ==
  ASSUME NEW F, IsFiniteSet(F), NEW used \in Nat
  PROVE  \E f \in [F -> used + 1..used + Cardinality(F)] : \A i, j \in F : f[i] = f[j] => i = j
<1>1. PICK c \in Nat : c = Cardinality(F) BY FS_CardinalityType
<1>2. PICK b : b \in Bijection(1..c, F) BY <1>1, FS_CardinalityType DEF ExistsBijection
<1>3. b \in [1..c -> F] /\ \A i \in F : \E k \in 1..c : b[k] = i
  BY <1>2 DEF Bijection, Surjection
<1> DEFINE pos(i) == CHOOSE k \in 1..c : b[k] = i
<1>4. \A i \in F : pos(i) \in 1..c /\ b[pos(i)] = i BY <1>3
<1> HIDE DEF pos
<1>5. PICK f : f = [i \in F |-> used + pos(i)] OBVIOUS
<1>6. f \in [F -> used + 1..used + c]
  <2>1. ASSUME NEW i \in F PROVE used + pos(i) \in used + 1..used + c
    <3>1. PICK k \in 1..c : k = pos(i) BY <1>4
    <3> QED BY <3>1
  <2> QED BY <1>5, <2>1
<1>7. ASSUME NEW i \in F, NEW j \in F, f[i] = f[j] PROVE i = j
  <2>1. PICK k \in 1..c, m \in 1..c : k = pos(i) /\ m = pos(j) BY <1>4
  <2>2. k = m BY <1>5, <1>7, <2>1
  <2> QED BY <1>4, <2>1, <2>2
<1> QED BY <1>1, <1>6, <1>7

LEMMA UpsertTyped ==
  ASSUME IsFiniteSet(Ids), clock \in Nat, NEW base, RowsOK(base), NEW A, DOMAIN A \subseteq Ids,
         \A i \in DOMAIN A : A[i] \in [state: {"active", "inactive"}, name: Names]
  PROVE  RowsOK(Copy!Upsert(base, A))
<1> DEFINE fresh == {i \in DOMAIN A : base[i].state = "absent"}
<1>1. PICK ids : ids = Cardinality(Ids) OBVIOUS
<1>2. PICK used : used = Cardinality(In(base)) OBVIOUS
<1>3. PICK more : more = Cardinality(fresh) OBVIOUS
<1>4. /\ IsFiniteSet(fresh) /\ IsFiniteSet(In(base))
      /\ ids \in Nat /\ used \in Nat /\ more \in Nat
  <2>1. fresh \in SUBSET Ids /\ In(base) \in SUBSET Ids BY DEF In
  <2>2. IsFiniteSet(fresh) /\ IsFiniteSet(In(base)) BY <2>1, FS_Subset
  <2> QED BY <1>1, <1>2, <1>3, <2>2, FS_CardinalityType
<1> DEFINE num == CHOOSE f \in [fresh -> used + 1..used + more] :
                     \A i, j \in fresh : f[i] = f[j] => i = j
<1>5. num \in [fresh -> used + 1..used + more] /\ \A i, j \in fresh : num[i] = num[j] => i = j
  <2>1. \E f \in [fresh -> used + 1..used + more] : \A i, j \in fresh : f[i] = f[j] => i = j
    BY <1>3, <1>4, Numbers
  <2> QED BY <2>1
<1>6. PICK new : new = Copy!Upsert(base, A) OBVIOUS
<1>7. new = [i \in Ids |->
                IF i \notin DOMAIN A \/ Copy!Attribute(base[i]) = A[i] THEN base[i]
                ELSE [state |-> A[i].state, name |-> A[i].name, at |-> Copy!Stamp,
                      row |-> IF i \in fresh THEN num[i] ELSE base[i].row]]
  BY <1>2, <1>3, <1>6, SameCardinality DEF Copy!Upsert, In
<1> HIDE DEF num
<1>8. ASSUME NEW i \in Ids
      PROVE  /\ i \in fresh => new[i].row = num[i]
             /\ i \notin fresh => new[i].row = base[i].row
             /\ i \in DOMAIN A => new[i].state = A[i].state
             /\ i \notin DOMAIN A => new[i] = base[i]
  <2>1. CASE i \notin DOMAIN A BY <1>7, <2>1
  <2>2. CASE i \in DOMAIN A /\ Copy!Attribute(base[i]) = A[i]
    <3>1. base[i].state = A[i].state BY <2>2 DEF Copy!Attribute
    <3>2. A[i].state # "absent" BY <2>2
    <3> QED BY <1>7, <2>2, <3>1, <3>2
  <2>3. CASE i \in DOMAIN A /\ Copy!Attribute(base[i]) # A[i] BY <1>7, <2>3
  <2> QED BY <2>1, <2>2, <2>3
<1>9. In(new) = In(base) \cup fresh
  <2>1. \A i \in DOMAIN A : A[i].state # "absent" OBVIOUS
  <2> QED BY <1>8, <2>1 DEF In
<1>10. Cardinality(In(new)) = used + more
  <2>1. In(base) \cap fresh = {} BY DEF In
  <2>2. Cardinality(In(base) \cap fresh) = 0 BY <2>1, FS_EmptySet
  <2>3. Cardinality(In(base) \cup fresh) = used + more - 0
    BY <1>2, <1>3, <1>4, <2>2, FS_Union
  <2> QED BY <1>4, <1>9, <2>3
<1>11. used + more =< ids
  <2>1. In(new) \in SUBSET Ids BY DEF In
  <2> QED BY <1>1, <1>10, <2>1, FS_Subset
<1>12. \A i \in Ids : base[i].row \in 0..used /\ base[i].row \in Nat
  <2>1. TAKE i \in Ids
  <2>2. base[i].row \in 0..ids BY <1>1 DEF RowsOK, Row
  <2>3. base[i].row =< used BY <1>2 DEF RowsOK
  <2> QED BY <1>4, <2>2, <2>3
<1>13. \A i \in fresh : num[i] \in used + 1..used + more /\ num[i] \in Nat /\ num[i] > used
  <2>1. TAKE i \in fresh
  <2>2. PICK n \in used + 1..used + more : n = num[i] BY <1>5
  <2> QED BY <1>4, <2>2
<1>14. \A i \in Ids : new[i].row \in 0..used + more
  <2>1. TAKE i \in Ids
  <2>2. CASE i \in fresh BY <1>4, <1>8, <1>13, <2>2
  <2>3. CASE i \notin fresh BY <1>4, <1>8, <1>12, <2>3
  <2> QED BY <2>2, <2>3
<1>15. new \in [Ids -> Row]
  <2>1. ASSUME NEW i \in Ids PROVE new[i] \in Row
    <3>1. new[i].row \in 0..ids BY <1>4, <1>11, <1>14
    <3>2. CASE i \notin DOMAIN A \/ Copy!Attribute(base[i]) = A[i]
      <4>1. new[i] = base[i] BY <1>7, <3>2
      <4> QED BY <4>1 DEF RowsOK
    <3>3. CASE ~(i \notin DOMAIN A \/ Copy!Attribute(base[i]) = A[i])
      <4>1. PICK n : n = IF i \in fresh THEN num[i] ELSE base[i].row OBVIOUS
      <4>2. new[i] = [state |-> A[i].state, name |-> A[i].name, at |-> Copy!Stamp, row |-> n]
        BY <1>7, <3>3, <4>1
      <4>3. n \in 0..ids BY <3>1, <4>2
      <4>4. Copy!Stamp \in Nat BY DEF Copy!Stamp
      <4>5. A[i].state \in Copy!States /\ A[i].name \in Names BY <3>3 DEF Copy!States
      <4> QED BY <1>1, <4>2, <4>3, <4>4, <4>5 DEF Row
    <3> QED BY <3>2, <3>3
  <2>2. new = [i \in Ids |-> new[i]] BY <1>7
  <2> QED BY <2>1, <2>2
<1>16. \A i \in Ids : new[i].row = 0 <=> new[i].state = "absent"
  <2>1. TAKE i \in Ids
  <2>2. CASE i \in fresh
    <3>1. new[i].row # 0 BY <1>4, <1>8, <1>13, <2>2
    <3>2. new[i].state # "absent" BY <1>8, <2>2
    <3> QED BY <3>1, <3>2
  <2>3. CASE i \in DOMAIN A /\ i \notin fresh
    <3>1. base[i].state # "absent" BY <2>3
    <3>2. new[i].row # 0 BY <1>8, <2>3, <3>1 DEF RowsOK
    <3>3. new[i].state # "absent" BY <1>8, <2>3
    <3> QED BY <3>2, <3>3
  <2>4. CASE i \notin DOMAIN A BY <1>8, <2>4 DEF RowsOK
  <2> QED BY <2>2, <2>3, <2>4
<1>17. ASSUME NEW i \in Ids, NEW j \in Ids, new[i].row = new[j].row, new[i].row # 0
       PROVE  i = j
  <2>1. CASE i \in fresh /\ j \in fresh BY <1>5, <1>8, <1>17, <2>1
  <2>2. CASE i \notin fresh /\ j \notin fresh BY <1>8, <1>17, <2>2 DEF RowsOK
  <2>3. CASE i \in fresh /\ j \notin fresh
    <3>1. num[i] = base[j].row BY <1>8, <1>17, <2>3
    <3> QED BY <1>4, <1>12, <1>13, <2>3, <3>1
  <2>4. CASE i \notin fresh /\ j \in fresh
    <3>1. num[j] = base[i].row BY <1>8, <1>17, <2>4
    <3> QED BY <1>4, <1>12, <1>13, <2>4, <3>1
  <2> QED BY <2>1, <2>2, <2>3, <2>4
<1>18. \A i \in Ids : new[i].row =< Cardinality(In(new)) BY <1>4, <1>10, <1>14
<1> QED BY <1>6, <1>15, <1>16, <1>17, <1>18 DEF RowsOK

\* rows that have new ids are as many as before
LEMMA RenumberedTyped ==
  ASSUME IsFiniteSet(Ids), RowsOK(local),
         type = "custom_record", NamesApart, sync.at = "read", ~Copy!Occupied(sync.got)
  PROVE  RowsOK(Copy!Renumbered(sync.got))
<1>1. PICK new : new = Copy!Renumbered(sync.got) OBVIOUS
<1>2. \A k \in Ids : new[k].state # "absent" =>
         \E r \in Copy!Rows : new[k] = local[r] /\ Copy!NewId(sync.got, r) = k
  BY <1>1, FromRow
<1>3. \A i \in Copy!Rows : Copy!NewId(sync.got, i) \in Ids /\ new[Copy!NewId(sync.got, i)] = local[i]
  BY <1>1, MovesOrStays
<1>4. \A i \in Copy!Rows : i \in Ids /\ local[i].state # "absent" BY DEF Copy!Rows, Copy!Stored
<1>5. ASSUME NEW k \in Ids, new[k].state = "absent" PROVE new[k] = Copy!NoRow \/ new[k] = local[k]
  <2> DEFINE to == {i \in Copy!Moved(sync.got) : Copy!NewId(sync.got, i) = k}
  <2>1. to = {}
    <3>1. SUFFICES ASSUME to # {} PROVE FALSE OBVIOUS
    <3>2. PICK i \in to : TRUE BY <3>1
    <3>3. i \in Copy!Rows /\ Copy!NewId(sync.got, i) = k BY <3>2 DEF Copy!Moved
    <3>4. new[k] = local[i] BY <1>3, <3>3
    <3> QED BY <1>4, <1>5, <3>3, <3>4
  <2> QED BY <1>1, <2>1 DEF Copy!Renumbered
<1>6. PICK used : used = Cardinality(In(local)) OBVIOUS
<1>7. used =< Cardinality(In(new)) /\ used \in Nat /\ Cardinality(In(new)) \in Nat
  <2>1. In(new) \in SUBSET Ids /\ In(local) \in SUBSET Ids /\ In(local) = Copy!Rows
    BY DEF In, Copy!Rows, Copy!Stored
  <2>2. IsFiniteSet(In(new)) /\ IsFiniteSet(In(local)) BY <2>1, FS_Subset
  <2>3. PICK f : f = [i \in Copy!Rows |-> Copy!NewId(sync.got, i)] OBVIOUS
  <2>4. f \in [Copy!Rows -> In(new)]
    <3>1. \A i \in Copy!Rows : Copy!NewId(sync.got, i) \in In(new) BY <1>3, <1>4 DEF In
    <3> QED BY <2>3, <3>1
  <2>5. ASSUME NEW i \in Copy!Rows, NEW j \in Copy!Rows, f[i] = f[j] PROVE i = j
    <3>1. local[i] = local[j] BY <1>3, <2>3, <2>5
    <3> QED BY <3>1 DEF NamesApart
  <2>6. f \in Injection(Copy!Rows, In(new)) BY <2>4, <2>5 DEF Injection, IsInjective
  <2> QED BY <1>6, <2>1, <2>2, <2>6, FS_Injection, FS_CardinalityType
<1>8. new \in [Ids -> Row]
  <2>1. ASSUME NEW k \in Ids PROVE new[k] \in Row
    <3>1. local[k] \in Row BY DEF RowsOK
    <3>2. Copy!NoRow \in Row
      <4>1. Names # {} BY <3>1 DEF Row
      <4>2. PICK n \in Names : n = CHOOSE m \in Names : TRUE BY <4>1
      <4>3. 0 \in 0..Cardinality(Ids)
        <5>1. Cardinality(Ids) \in Nat BY FS_CardinalityType
        <5> QED BY <5>1
      <4> QED BY <4>2, <4>3 DEF Copy!NoRow, Row, Copy!States
    <3>3. CASE new[k].state = "absent" BY <1>5, <3>1, <3>2, <3>3
    <3>4. CASE new[k].state # "absent"
      <4>1. PICK r \in Copy!Rows : new[k] = local[r] BY <1>2, <3>4
      <4> QED BY <1>4, <4>1 DEF RowsOK
    <3> QED BY <3>3, <3>4
  <2>2. new = [k \in Ids |-> new[k]] BY <1>1 DEF Copy!Renumbered
  <2> QED BY <2>1, <2>2
<1>9. ASSUME NEW k \in Ids PROVE new[k].row = 0 <=> new[k].state = "absent"
  <2>1. CASE new[k].state = "absent"
    <3>1. Copy!NoRow.row = 0 BY DEF Copy!NoRow
    <3> QED BY <1>5, <2>1, <3>1 DEF RowsOK
  <2>2. CASE new[k].state # "absent"
    <3>1. PICK r \in Copy!Rows : new[k] = local[r] BY <1>2, <2>2
    <3> QED BY <1>4, <2>2, <3>1 DEF RowsOK
  <2> QED BY <2>1, <2>2
<1>10. ASSUME NEW j \in Ids, NEW k \in Ids, new[j].row = new[k].row, new[j].row # 0
       PROVE  j = k
  <2>1. new[j].state # "absent" /\ new[k].state # "absent" BY <1>9, <1>10
  <2>2. PICK q \in Copy!Rows : new[j] = local[q] /\ Copy!NewId(sync.got, q) = j BY <1>2, <2>1
  <2>3. PICK r \in Copy!Rows : new[k] = local[r] /\ Copy!NewId(sync.got, r) = k BY <1>2, <2>1
  <2>4. q = r BY <1>4, <1>10, <2>2, <2>3 DEF RowsOK
  <2> QED BY <2>2, <2>3, <2>4
<1>11. ASSUME NEW k \in Ids PROVE new[k].row =< Cardinality(In(new))
  <2>1. CASE new[k].row = 0 BY <1>7, <2>1
  <2>2. CASE new[k].row # 0
    <3>1. PICK r \in Copy!Rows : new[k] = local[r] BY <1>2, <1>9, <2>2
    <3>2. local[r].row =< used BY <1>4, <1>6, <3>1 DEF RowsOK
    <3>3. new[k].row \in Nat
      <4>1. Cardinality(Ids) \in Nat BY FS_CardinalityType
      <4> QED BY <1>8, <4>1 DEF Row
    <3> QED BY <1>7, <3>1, <3>2, <3>3
  <2> QED BY <2>1, <2>2
<1> QED BY <1>1, <1>8, <1>9, <1>10, <1>11 DEF RowsOK

LEMMA AttributesTyped ==
  ASSUME DimsAssumption, DimsTyped, RowsOK(local), NEW page, PageOK(page)
  PROVE  /\ DOMAIN Copy!Attributes(page) \subseteq Ids
         /\ \A i \in DOMAIN Copy!Attributes(page) :
               Copy!Attributes(page)[i] \in [state: {"active", "inactive"}, name: Names]
<1> DEFINE A == Copy!Attributes(page)
           Good(B) == /\ DOMAIN B \subseteq Ids
                      /\ \A i \in DOMAIN B :
                            B[i] \in [state: {"active", "inactive"}, name: Names]
<1> USE DEF Copy!PerPage, Copy!Growing, Copy!Timed, Copy!Incremental, Copy!Whole, Copy!Plain
<1>1. \A i \in DOMAIN page :
         /\ i \in Ids /\ page[i].name \in Names /\ page[i].state \in {"active", "inactive"}
         /\ Copy!Attribute(page[i]) \in [state: {"active", "inactive"}, name: Names]
  BY DEF PageOK, Copy!Attribute
<1>2. \A i \in Copy!Rows : i \in Ids /\ Copy!Missing(i) \in [state: {"active", "inactive"}, name: Names]
  BY DEF Copy!Rows, RowsOK, Row, Copy!Missing
<1>3. Copy!Taken(page) \subseteq DOMAIN page BY DEF Copy!Taken
<1>4. ASSUME NEW known PROVE Good(Copy!Listed(page, known)) BY <1>1, <1>3 DEF Copy!Listed
<1>5. CASE type \in Copy!PerPage
  <2>1. A = Copy!Listed(page, Copy!Rows) BY <1>5 DEF Copy!Attributes
  <2> QED BY <1>4, <2>1
<1>6. CASE type \in Copy!Growing
  <2>1. A = Copy!Listed(page, sync.known) BY <1>6 DEF Copy!Attributes
  <2> QED BY <1>4, <2>1
<1>7. CASE type \in Copy!Timed
  <2>1. A = [i \in Copy!Taken(page) |-> Copy!Attribute(page[i])] BY <1>7 DEF Copy!Attributes
  <2> QED BY <1>1, <1>3, <2>1
<1>8. CASE type = "item"
  <2>1. A = Copy!Items(page) BY <1>8 DEF Copy!Attributes
  <2>2. Good(Copy!Items(page)) BY <1>1, <1>2 DEF Copy!Items
  <2> QED BY <2>1, <2>2
<1>9. CASE type = "custom_record"
  <2>1. A = [i \in DOMAIN page |-> Copy!Attribute(page[i])] BY <1>9 DEF Copy!Attributes
  <2> QED BY <1>1, <2>1
<1>10. CASE type \in {"custom_list", "custom_segment"}
  <2>1. A = Copy!PageAndMissing(page) BY <1>10 DEF Copy!Attributes
  <2>2. Good(Copy!PageAndMissing(page)) BY <1>1, <1>2 DEF Copy!PageAndMissing
  <2> QED BY <2>1, <2>2
<1>11. CASE type = "tax_item"
  <2>1. A = Copy!ListedActive(page, {}) BY <1>11 DEF Copy!Attributes
  <2>2. Good(Copy!ListedActive(page, {})) BY <1>1, <1>3 DEF Copy!ListedActive
  <2> QED BY <2>1, <2>2
<1>12. CASE type \in Copy!Plain
  <2>1. A = [i \in DOMAIN page |-> [state |-> "active", name |-> page[i].name]]
    BY <1>12 DEF Copy!Attributes
  <2> QED BY <1>1, <2>1
<1> QED BY <1>5, <1>6, <1>7, <1>8, <1>9, <1>10, <1>11, <1>12, TypeIs

LEMMA CopyTypedInit == DimsAssumption /\ Copy!Init => CopyTyped
<1> SUFFICES ASSUME DimsAssumption, Copy!Init PROVE CopyTyped OBVIOUS
<1>1. remote \in [Ids -> [state: Copy!States, name: Names, at: Nat]]
  <2>1. remote \in [Ids -> [state: {"active", "inactive"}, name: Names, at: {0}]] BY DEF Copy!Init
  <2> QED BY <2>1 DEF Copy!States
<1>2. local = [i \in Ids |-> Copy!NoRow] /\ Cardinality(Ids) \in Nat
  BY FS_CardinalityType DEF Copy!Init, DimsAssumption
<1>3. In(local) = {} BY <1>2 DEF In, Copy!NoRow
<1>4. Cardinality(In(local)) = 0 BY <1>3, FS_EmptySet
<1>5. local \in [Ids -> Row]
  <2>1. ASSUME NEW i \in Ids PROVE Copy!NoRow \in Row
    <3>1. Names # {} BY <1>1
    <3>2. PICK n \in Names : n = CHOOSE m \in Names : TRUE BY <3>1
    <3> QED BY <1>2, <3>2 DEF Copy!NoRow, Row, Copy!States
  <2> QED BY <1>2, <2>1
<1>6. RowsOK(local)
  <2>1. \A i \in Ids : local[i].row = 0 /\ local[i].state = "absent" BY <1>2 DEF Copy!NoRow
  <2>2. \A i \in Ids : local[i].row =< Cardinality(In(local)) BY <1>4, <2>1
  <2> QED BY <1>5, <2>1, <2>2 DEF RowsOK
<1>7. PageOK(<< >>) BY DEF PageOK
<1>8. sync.known = {} /\ sync.got = << >> /\ sync.held = << >> BY DEF Copy!Init, Copy!Idle
<1>9. fails \in 0..MaxFails BY DEF Copy!Init, DimsAssumption
<1>10. conf \in [items: BOOLEAN, intercompany: BOOLEAN, old: BOOLEAN] BY DEF Copy!Init
<1> QED BY <1>1, <1>6, <1>7, <1>8, <1>9, <1>10 DEF CopyTyped

LEMMA CopyTypedStep ==
  ASSUME DimsAssumption, DimsTyped, NamesApart, CopyTyped, [Copy!Next]_Copy!vars
  PROVE  CopyTyped'
<1> USE DEF CopyTyped
<1>1. IsFiniteSet(Ids) /\ clock \in Nat /\ MaxFails \in Nat BY DEF DimsAssumption, DimsTyped
<1>2. DOMAIN sync = {"at", "pages", "known", "got", "held", "count"} BY DEF DimsTyped
<1>3. PageOK(<< >>) BY DEF PageOK
<1>4. CASE UNCHANGED Copy!vars BY <1>4 DEF Copy!vars, RowsOK, PageOK, In
<1>5. ASSUME NEW i \in Ids, Copy!Change(i) PROVE CopyTyped'
  <2>1. PICK q \in Copy!States, n \in Names :
           remote' = [remote EXCEPT ![i] = [state |-> q, name |-> n, at |-> clock']]
    BY <1>5 DEF Copy!Change
  <2>2. clock' \in Nat BY <1>1, <1>5 DEF Copy!Change
  <2>3. remote' \in [Ids -> [state: Copy!States, name: Names, at: Nat]] BY <2>1, <2>2
  <2>4. UNCHANGED <<conf, local, fails>>
        /\ sync' = [sync EXCEPT !.at = IF @ = "done" THEN "off" ELSE @]
    BY <1>5 DEF Copy!Change
  <2>5. sync'.known = sync.known /\ sync'.got = sync.got /\ sync'.held = sync.held BY <2>4
  <2> QED BY <2>3, <2>4, <2>5
<1>6. ASSUME NEW i \in Ids, NEW j \in Ids, Copy!Renumber(i, j) PROVE CopyTyped'
  <2>1. remote' = [remote EXCEPT ![i] = remote[j], ![j] = remote[i]] BY <1>6 DEF Copy!Renumber
  <2>2. remote' \in [Ids -> [state: Copy!States, name: Names, at: Nat]] BY <2>1
  <2>3. UNCHANGED <<conf, local, fails>>
        /\ sync' = [sync EXCEPT !.at = IF @ = "done" THEN "off" ELSE @]
    BY <1>6 DEF Copy!Renumber
  <2>4. sync'.known = sync.known /\ sync'.got = sync.got /\ sync'.held = sync.held BY <2>3
  <2> QED BY <2>2, <2>3, <2>4
<1>7. ASSUME NEW i \in Ids, Copy!Direct(i) PROVE CopyTyped'
  <2>1. /\ clock' \in Nat /\ UNCHANGED <<conf, sync, fails>>
        /\ remote' = [remote EXCEPT ![i] =
                         IF Copy!Here(i) THEN @
                         ELSE [state |-> "active", name |-> @.name, at |-> clock']]
    BY <1>1, <1>7 DEF Copy!Direct
  <2>2. remote' \in [Ids -> [state: Copy!States, name: Names, at: Nat]] BY <2>1 DEF Copy!States
  <2>3. remote'[i].state = "active" /\ remote'[i].name \in Names
    <3>1. remote[i].state \in Copy!States /\ remote[i].state # "inactive" BY <1>7 DEF Copy!Direct
    <3>2. CASE Copy!Here(i) BY <2>1, <2>2, <3>1, <3>2 DEF Copy!Here, Copy!States
    <3>3. CASE ~Copy!Here(i) BY <2>1, <2>2, <3>3
    <3> QED BY <3>2, <3>3
  <2>4. PICK A : A = [k \in {i} |-> Copy!Attribute(remote'[i])] OBVIOUS
  <2>5. /\ DOMAIN A \subseteq Ids
        /\ \A k \in DOMAIN A : A[k] \in [state: {"active", "inactive"}, name: Names]
    BY <2>3, <2>4 DEF Copy!Attribute
  <2>6. local' = Copy!Upsert(local, A) BY <1>7, <2>4 DEF Copy!Direct
  <2>7. RowsOK(local') BY <1>1, <2>5, <2>6, UpsertTyped
  <2> QED BY <2>1, <2>2, <2>7
<1>8. CASE Copy!Begin
  <2>1. /\ UNCHANGED <<conf, remote, local, fails>>
        /\ sync'.known = Copy!Rows /\ sync'.got = << >> /\ sync'.held = << >>
    BY <1>8 DEF Copy!Begin, Copy!Idle
  <2>2. Copy!Rows \subseteq Ids BY DEF Copy!Rows
  <2> QED BY <1>3, <2>1, <2>2
<1>9. CASE Copy!Fetch
  <2> DEFINE found == Head(sync.pages) \cap Copy!InUse
             kept  == IF type \in Copy!Growing THEN DOMAIN sync.held ELSE {}
  <2>1. UNCHANGED <<conf, remote, local, fails>> BY <1>9 DEF Copy!Fetch
  <2>2. /\ sync'.known = sync.known
        /\ sync'.got = [i \in found |-> remote[i]]
        /\ sync'.held = [i \in found \cup kept |->
                            IF i \in found THEN remote[i] ELSE sync.held[i]]
    BY <1>2, <1>9 DEF Copy!Fetch
  <2>3. \A i \in found : /\ i \in Ids
                         /\ remote[i] \in [state: {"active", "inactive"}, name: Names, at: Nat]
    <3>1. TAKE i \in found
    <3>2. i \in Ids /\ remote[i].state # "absent" BY DEF Copy!InUse, Copy!Here
    <3>3. remote[i] \in [state: Copy!States, name: Names, at: Nat] BY <3>2
    <3> QED BY <3>2, <3>3 DEF Copy!States
  <2>4. \A i \in kept :
           /\ i \in Ids
           /\ sync.held[i] \in [state: {"active", "inactive"}, name: Names, at: Nat]
    BY DEF PageOK
  <2> HIDE DEF found, kept
  <2>5. PageOK(sync'.got) BY <2>2, <2>3 DEF PageOK
  <2>6. PageOK(sync'.held) BY <2>2, <2>3, <2>4 DEF PageOK
  <2> QED BY <2>1, <2>2, <2>5, <2>6
<1>10. CASE Copy!Write
  <2>1. UNCHANGED <<conf, remote, fails>> /\ sync' = [sync EXCEPT !.at = "on", !.got = << >>]
    BY <1>10 DEF Copy!Write
  <2>2. sync'.known = sync.known /\ sync'.got = << >> /\ sync'.held = sync.held BY <1>2, <2>1
  <2>3. PICK base : base = IF type = "custom_record" THEN Copy!Renumbered(sync.got) ELSE local OBVIOUS
  <2>4. RowsOK(base)
    <3>1. CASE type = "custom_record"
      <4>1. sync.at = "read" /\ ~Copy!Occupied(sync.got) BY <1>10, <3>1, RecordsWrite
      <4> QED BY <1>1, <2>3, <3>1, <4>1, RenumberedTyped
    <3>2. CASE type # "custom_record" BY <2>3, <3>2
    <3> QED BY <3>1, <3>2
  <2>5. PICK A : A = Copy!Attributes(sync.held) OBVIOUS
  <2>6. /\ DOMAIN A \subseteq Ids
        /\ \A i \in DOMAIN A : A[i] \in [state: {"active", "inactive"}, name: Names]
    BY <2>5, AttributesTyped
  <2>7. local' = Copy!Upsert(base, A) BY <1>10, <2>3, <2>5 DEF Copy!Write
  <2>8. RowsOK(local') BY <1>1, <2>4, <2>6, <2>7, UpsertTyped
  <2> QED BY <1>3, <2>1, <2>2, <2>8
<1>11. CASE Copy!Raise
  <2>1. /\ UNCHANGED <<conf, remote, fails>>
        /\ sync'.known = {} /\ sync'.got = << >> /\ sync'.held = << >>
    BY <1>11 DEF Copy!Raise, Copy!Idle
  <2>2. CASE local' = local BY <1>3, <2>1, <2>2
  <2>3. CASE local' # local
    <3>1. /\ local' = Copy!Renumbered(sync.got) /\ ~Copy!Occupied(sync.got) /\ sync.at = "read"
          /\ type = "custom_record"
      BY <1>11, <2>3 DEF Copy!Raise, Copy!Raises
    <3>2. RowsOK(local') BY <1>1, <3>1, RenumberedTyped
    <3> QED BY <1>3, <2>1, <3>2
  <2> QED BY <2>2, <2>3
<1>12. CASE Copy!Fail
  <2>1. /\ UNCHANGED <<conf, remote, local>> /\ fails' = fails + 1 /\ fails < MaxFails
        /\ sync'.known = {} /\ sync'.got = << >> /\ sync'.held = << >>
    BY <1>12 DEF Copy!Fail, Copy!Idle
  <2>2. fails' \in 0..MaxFails BY <1>1, <2>1
  <2> QED BY <1>3, <2>1, <2>2
<1>13. CASE Copy!End
  <2>1. /\ UNCHANGED <<conf, remote, local, fails>>
        /\ sync' = [sync EXCEPT !.at = "done", !.held = << >>, !.known = {}]
    BY <1>13 DEF Copy!End
  <2>2. sync'.known = {} /\ sync'.got = sync.got /\ sync'.held = << >> BY <1>2, <2>1
  <2> QED BY <1>3, <2>1, <2>2
<1> QED BY <1>4, <1>5, <1>6, <1>7, <1>8, <1>9, <1>10, <1>11, <1>12, <1>13 DEF Copy!Next

\* The variables of DimensionSync keep their types: whatever order pages, failures, new
\* vendors and new ids come in, each stored record has a row of its own.
THEOREM CopyTypes == ASSUME DimsAssumption PROVE Copy!Spec => []Copy!TypeOK
<1>1. Copy!Init => DimsTyped /\ NamesApart /\ CopyTyped
  BY DimsTypedInit, NamesApartInit, CopyTypedInit
<1>2. DimsTyped /\ NamesApart /\ CopyTyped /\ [Copy!Next]_Copy!vars => (DimsTyped /\ NamesApart /\ CopyTyped)'
  BY DimsTypedStep, NamesApartStep, CopyTypedStep
<1>3. ASSUME DimsTyped, CopyTyped PROVE Copy!TypeOK
  <2>1. Copy!IsInjective([i \in {j \in Ids : local[j].row # 0} |-> local[i].row])
    <3>1. PICK f : f = [i \in {j \in Ids : local[j].row # 0} |-> local[i].row] OBVIOUS
    <3>2. ASSUME NEW i \in DOMAIN f, NEW j \in DOMAIN f, f[i] = f[j] PROVE i = j
      BY <1>3, <3>1, <3>2 DEF CopyTyped, RowsOK
    <3> QED BY <3>1, <3>2 DEF Copy!IsInjective
  <2> QED BY <1>3, <2>1, SameCardinality DEF Copy!TypeOK, DimsTyped, CopyTyped, RowsOK, Row
<1>4. DimsTyped /\ CopyTyped => Copy!TypeOK BY <1>3
<1> QED BY <1>1, <1>2, <1>4, PTL DEF Copy!Spec
-----------------------------------------------------------------------------
(* LineCoding.                                                             *)

\* None is none of the values, and there are no other kinds, dimensions and fields.
CodingAssumption ==
    /\ None \notin {"mapping", "employee", "default", "project", "TRANSACTION_LINE", "ALL",
                    "PROJECT", "COST_CENTER", "CUSTOM", "GONE"}
    /\ Kinds \subseteq {"BILL", "EXPENSE REPORT", "CREDIT CARD CHARGE", "JOURNAL ENTRY"}
    /\ Dims \subseteq {"department", "class", "location"}
    /\ Fields \subseteq Seq({"PROJECT", "COST_CENTER", "CUSTOM", "GONE"})

\* What get_custom_segments has found after the first fields, none of which was a project
\* that has another field after it.
Visited(k) == {fields[j] : j \in 1..k} \ {"GONE"}
Early(k)   == \E j \in 1..k : fields[j] = "PROJECT"

SearchOK ==
    /\ loop = [next |-> loop.next, source |-> loop.source, found |-> loop.found]
    /\ loop.next \in 1..Len(fields) + 1
    /\ loop.source \in Coding!Source
    /\ (\A k \in 1..Len(fields) - 1 : fields[k] # "PROJECT") =>
          /\ loop.found = Visited(loop.next - 1)
          /\ loop.source.id = None \/ Early(loop.next - 1)

StoredOK ==
    /\ stored.done \in BOOLEAN
    /\ stored.done => /\ loop.next > Len(fields)
                      /\ stored.line = Coding!Item(input)
                      /\ stored.segments = loop.found

CodedRight ==
    /\ input \in Coding!Input
    /\ fields \in Seq({"PROJECT", "COST_CENTER", "CUSTOM", "GONE"})
    /\ SearchOK
    /\ StoredOK

\* The rule, for every input.
LEMMA ItemFollowsRule ==
  ASSUME CodingAssumption, NEW x \in Coding!Input
  PROVE  /\ x.default /\ x.level \in Coding!OnLine => Coding!Item(x) # None
         /\ x.level = "TRANSACTION_BODY" /\ ~(x.kind = "JOURNAL ENTRY" /\ x.dim = "location")
               => Coding!Item(x) # "default"
         /\ ~x.mapped /\ x.fund = "CCC" /\ x.use /\ x.level \in Coding!OnLine
               /\ x.field = "EMPLOYEE" /\ x.employee = "set" => Coding!Item(x) = "employee"
<1> DEFINE own == Coding!Own(x)
<1>1. own \in {"employee", None} /\ (x.employee = "set" => own = "employee") BY DEF Coding!Own
<1>2. x.kind \in {"BILL", "EXPENSE REPORT", "CREDIT CARD CHARGE", "JOURNAL ENTRY"}
      /\ x.dim \in {"department", "class", "location"} /\ x.mapped \in BOOLEAN
  BY DEF CodingAssumption, Coding!Input
<1>3. /\ None \notin {"mapping", "employee", "default", "TRANSACTION_LINE", "ALL"}
      /\ x.level \in Coding!Levels
  BY DEF CodingAssumption, Coding!Input
<1>4. CASE x.kind \in {"BILL", "CREDIT CARD CHARGE"}
  <2>1. Coding!Item(x) = Coding!Either(Coding!Either(Coding!Mapped(x), Coding!Cardholder(x)),
                                       Coding!Default(x, Coding!OnLine))
    BY <1>4 DEF Coding!Item, Coding!BillLine, Coding!ChargeLine
  <2>2. Coding!Cardholder(x) = IF ~x.mapped /\ x.fund = "CCC" /\ x.use
                                  /\ (x.dim = "class" \/ x.level \in Coding!OnLine)
                               THEN own ELSE None
    BY DEF Coding!Cardholder
  <2> HIDE DEF own
  <2> QED BY <1>1, <1>2, <1>3, <2>1, <2>2
             DEF Coding!Either, Coding!Mapped, Coding!Default, Coding!OnLine
<1>5. CASE x.kind \in {"EXPENSE REPORT", "JOURNAL ENTRY"}
  <2>1. PICK levels : /\ levels \in {Coding!OnLine, Coding!Levels}
                      /\ levels = Coding!Levels => x.kind = "JOURNAL ENTRY" /\ x.dim = "location"
                      /\ Coding!Item(x) =
                            Coding!Either(Coding!Either(Coding!Mapped(x), Coding!EmployeeValue(x)),
                                          Coding!Default(x, levels))
    <3>1. Coding!OnLine # Coding!Levels
      <4>1. "TRANSACTION_BODY" \in Coding!Levels /\ "TRANSACTION_BODY" \notin Coding!OnLine
        BY DEF Coding!Levels, Coding!OnLine
      <4> QED BY <4>1
    <3>2. CASE x.kind = "EXPENSE REPORT"
      BY <3>1, <3>2 DEF Coding!Item, Coding!ReportLine
    <3>3. CASE x.kind = "JOURNAL ENTRY" /\ x.dim = "location"
      BY <3>1, <3>3 DEF Coding!Item, Coding!JournalLine
    <3>4. CASE x.kind = "JOURNAL ENTRY" /\ x.dim # "location"
      BY <3>1, <3>4 DEF Coding!Item, Coding!JournalLine
    <3> QED BY <1>5, <3>2, <3>3, <3>4
  <2>2. Coding!EmployeeValue(x) =
            IF x.use /\ (x.dim = "class" \/ x.level \in Coding!OnLine) /\ x.field = "EMPLOYEE"
            THEN own ELSE None
    BY DEF Coding!EmployeeValue
  <2> HIDE DEF own
  <2>3. levels = Coding!OnLine \/ (x.kind = "JOURNAL ENTRY" /\ x.dim = "location") BY <2>1
  <2>4. "TRANSACTION_BODY" \notin Coding!OnLine /\ (x.level \in Coding!OnLine => x.level \in levels)
    BY <1>3, <2>1 DEF Coding!OnLine
  <2>5. PICK v : v = Coding!EmployeeValue(x) OBVIOUS
  <2>6. PICK d : d = Coding!Default(x, levels) OBVIOUS
  <2>7. v \in {"employee", None} BY <1>1, <2>2, <2>5
  <2>8. d = (IF x.default /\ x.level \in levels THEN "default" ELSE None)
    BY <2>6 DEF Coding!Default
  <2>9. Coding!Item(x) = IF x.mapped THEN "mapping" ELSE IF v # None THEN v ELSE d
    BY <1>2, <1>3, <2>1, <2>5, <2>6 DEF Coding!Either, Coding!Mapped
  <2>10. x.default /\ x.level \in Coding!OnLine => Coding!Item(x) # None
    BY <1>3, <2>4, <2>8, <2>9
  <2>11. x.level = "TRANSACTION_BODY" /\ ~(x.kind = "JOURNAL ENTRY" /\ x.dim = "location")
            => Coding!Item(x) # "default"
    <3> SUFFICES ASSUME x.level = "TRANSACTION_BODY",
                        ~(x.kind = "JOURNAL ENTRY" /\ x.dim = "location")
                 PROVE  Coding!Item(x) # "default"
      OBVIOUS
    <3>1. d = None
      <4>1. levels = Coding!OnLine BY <2>3
      <4>2. x.level \notin levels BY <2>4, <4>1
      <4> QED BY <2>8, <4>2
    <3>2. v # "default" /\ d # "default" BY <1>3, <2>7, <3>1
    <3> QED BY <2>9, <3>2
  <2>12. ~x.mapped /\ x.fund = "CCC" /\ x.use /\ x.level \in Coding!OnLine
            /\ x.field = "EMPLOYEE" /\ x.employee = "set" => Coding!Item(x) = "employee"
    BY <1>1, <1>3, <2>2, <2>5, <2>9
  <2> QED BY <2>10, <2>11, <2>12
<1> QED BY <1>2, <1>4, <1>5

LEMMA CodedInit == CodingAssumption /\ Coding!Init => CodedRight
<1> SUFFICES ASSUME CodingAssumption, Coding!Init PROVE CodedRight OBVIOUS
<1>1. input \in Coding!Input /\ fields \in Seq({"PROJECT", "COST_CENTER", "CUSTOM", "GONE"})
  BY DEF CodingAssumption, Coding!Init
<1>2. Len(fields) \in Nat BY <1>1
<1>3. loop = [next |-> 1, source |-> [id |-> None, value |-> None], found |-> {}]
  BY DEF Coding!Init
<1>4. Visited(0) = {} BY DEF Visited
<1>5. SearchOK
  <2>1. loop.next = 1 /\ loop.found = {} /\ loop.source = [id |-> None, value |-> None]
    BY <1>3
  <2>2. loop.source \in Coding!Source /\ loop.source.id = None BY <2>1 DEF Coding!Source
  <2>3. loop = [next |-> loop.next, source |-> loop.source, found |-> loop.found] BY <1>3
  <2>4. loop.next \in 1..Len(fields) + 1 /\ loop.next - 1 = 0 BY <1>2, <2>1
  <2> QED BY <1>4, <2>1, <2>2, <2>3, <2>4 DEF SearchOK
<1>6. StoredOK BY DEF Coding!Init, StoredOK, Coding!Nothing
<1> QED BY <1>1, <1>5, <1>6 DEF CodedRight

LEMMA CodedStep ==
  ASSUME CodingAssumption, CodedRight, [Coding!Next]_Coding!vars
  PROVE  CodedRight'
<1> DEFINE n == Len(fields)
<1>0. /\ n \in Nat /\ loop.next \in Nat
      /\ \A k \in 1..n : fields[k] \in {"PROJECT", "COST_CENTER", "CUSTOM", "GONE"}
  BY DEF CodedRight, SearchOK
<1>1. CASE Coding!Visit
  <2>1. PICK i \in 1..n : i = loop.next BY <1>0, <1>1 DEF Coding!Visit, CodedRight, SearchOK
  <2>2. PICK f : f = fields[i] OBVIOUS
  <2>3. PICK s : s = Coding!SourceOf(f, loop.source) OBVIOUS
  <2>4. loop' = [next |-> i + 1, source |-> s,
                 found |-> loop.found \cup (IF Coding!Found(f, s) THEN {f} ELSE {})]
        /\ UNCHANGED <<input, fields, stored>>
    BY <1>1, <2>1, <2>2, <2>3 DEF Coding!Visit
  <2>5. f \in {"PROJECT", "COST_CENTER", "CUSTOM", "GONE"} BY <1>0, <2>2
  <2>6. PICK id, value : loop.source = [id |-> id, value |-> value]
                         /\ id \in {"project", None}
                         /\ value \in {"PROJECT", "COST_CENTER", "CUSTOM", None}
    BY DEF CodedRight, SearchOK, Coding!Source
  <2>7. /\ f = "PROJECT" => s = [id |-> "project", value |-> f]
        /\ f \in {"COST_CENTER", "CUSTOM"} => s = [id |-> id, value |-> f]
        /\ f = "GONE" => s = [id |-> id, value |-> value]
    BY <2>3, <2>6 DEF Coding!SourceOf
  <2>8. s \in Coding!Source BY <2>5, <2>6, <2>7 DEF Coding!Source
  <2>9. ASSUME \A k \in 1..n - 1 : fields[k] # "PROJECT"
        PROVE  /\ loop'.found = Visited(i)
               /\ loop'.source.id = None \/ Early(i)
    <3>1. loop.found = Visited(i - 1) /\ (id = None \/ Early(i - 1))
      BY <2>1, <2>6, <2>9 DEF CodedRight, SearchOK
    <3>2. ~Early(i - 1) BY <1>0, <2>1, <2>9 DEF Early
    <3>3. id = None BY <3>1, <3>2
    <3>4. Coding!Found(f, s) <=> f # "GONE"
      <4>1. None \notin {"project", "GONE"} BY DEF CodingAssumption
      <4>2. CASE f = "PROJECT" BY <2>7, <4>1, <4>2 DEF Coding!Found
      <4>3. CASE f \in {"COST_CENTER", "CUSTOM"} BY <2>7, <3>3, <4>3 DEF Coding!Found
      <4>4. CASE f = "GONE"
        <5>1. value # "GONE" BY <2>6, <4>1
        <5> QED BY <2>7, <3>3, <4>4, <5>1 DEF Coding!Found
      <4> QED BY <2>5, <4>2, <4>3, <4>4
    <3>5. Visited(i) = Visited(i - 1) \cup ({f} \ {"GONE"})
      <4>1. 1..i = 1..i - 1 \cup {i} BY <2>1
      <4> QED BY <2>2, <4>1 DEF Visited
    <3>6. s.id = None \/ f = "PROJECT" BY <2>5, <2>7, <3>3
    <3>7. f = "PROJECT" => Early(i)
      <4>1. i \in 1..i BY <2>1
      <4> QED BY <2>2, <4>1 DEF Early
    <3> QED BY <2>4, <3>1, <3>4, <3>5, <3>6, <3>7
  <2>10. SearchOK'
    <3>1. loop'.next = i + 1 /\ loop'.source = s /\ fields' = fields BY <2>4
    <3>2. loop' = [next |-> loop'.next, source |-> loop'.source, found |-> loop'.found] BY <2>4
    <3>3. i + 1 \in 1..n + 1 /\ i + 1 - 1 = i BY <1>0, <2>1
    <3> QED BY <2>8, <2>9, <3>1, <3>2, <3>3 DEF SearchOK, Visited, Early
  <2>11. StoredOK'
    <3>1. ~stored.done BY <1>0, <2>1 DEF CodedRight, StoredOK
    <3> QED BY <2>4, <3>1 DEF CodedRight, StoredOK
  <2> QED BY <2>4, <2>10, <2>11 DEF CodedRight
<1>2. CASE Coding!Store
  <2>1. /\ loop.next > n
        /\ stored' = [header |-> Coding!Header(input), line |-> Coding!Item(input),
                      segments |-> loop.found, done |-> TRUE]
        /\ UNCHANGED <<input, fields, loop>>
    BY <1>2 DEF Coding!Store
  <2>2. SearchOK' BY <2>1 DEF CodedRight, SearchOK, Visited, Early
  <2>3. Coding!Item(input)' = Coding!Item(input) BY <2>1
  <2>4. StoredOK' BY <2>1, <2>3 DEF StoredOK
  <2> QED BY <2>1, <2>2, <2>4 DEF CodedRight
<1>3. CASE UNCHANGED Coding!vars
  <2>1. UNCHANGED <<input, fields, loop, stored>> BY <1>3 DEF Coding!vars
  <2>2. Coding!Item(input)' = Coding!Item(input) BY <2>1
  <2> QED BY <2>1, <2>2 DEF CodedRight, SearchOK, StoredOK, Visited, Early
<1> QED BY <1>1, <1>2, <1>3 DEF Coding!Next

\* Models.py has one copy of the rule for each kind of document and each dimension.  All of
\* them follow it, for all settings, mappings and employees: the default of the lines
\* reaches every line that has nothing else, that of the header no line, and the employee
\* comes before it.  And get_custom_segments finds the mapped value of every field,
\* however many there are, unless a project comes before another field.
THEOREM CodingRight == ASSUME CodingAssumption PROVE Coding!Spec => []Coding!CodingFollowsRules
<1>1. Coding!Init => CodedRight BY CodedInit
<1>2. CodedRight /\ [Coding!Next]_Coding!vars => CodedRight' BY CodedStep
<1>3. CodedRight => Coding!CodingFollowsRules
  <2> SUFFICES ASSUME CodedRight PROVE Coding!CodingFollowsRules OBVIOUS
  <2>1. PICK x \in Coding!Input : x = input BY DEF CodedRight
  <2>2. stored.done => stored.line = Coding!Item(x) BY <2>1 DEF CodedRight, StoredOK
  <2>3. Coding!DefaultReaches BY <2>1, <2>2, ItemFollowsRule DEF Coding!DefaultReaches
  <2>4. Coding!LevelRespected BY <2>1, <2>2, ItemFollowsRule DEF Coding!LevelRespected
  <2>5. Coding!EmployeeFirst BY <2>1, <2>2, ItemFollowsRule DEF Coding!EmployeeFirst
  <2>6. Coding!SegmentsOwn
    <3> SUFFICES ASSUME stored.done, \A k \in 1..Len(fields) - 1 : fields[k] # "PROJECT"
                 PROVE  stored.segments = {fields[k] : k \in 1..Len(fields)} \ {"GONE"}
      BY DEF Coding!SegmentsOwn
    <3>1. loop.next - 1 = Len(fields) BY DEF CodedRight, StoredOK, SearchOK
    <3>2. stored.segments = Visited(loop.next - 1) BY DEF CodedRight, StoredOK, SearchOK
    <3> QED BY <3>1, <3>2 DEF Visited
  <2> QED BY <2>3, <2>4, <2>5, <2>6 DEF Coding!CodingFollowsRules
<1> QED BY <1>1, <1>2, <1>3, PTL DEF Coding!Spec
-----------------------------------------------------------------------------
(* All of them: a behaviour of NetSuiteData is one of its subject.         *)

LEMMA DocsPart == DataSpec => Docs!Spec \/ []~(subject = "documents")
<1>1. DataInit /\ subject = "documents" => Docs!Init BY DEF DataInit
<1>2. subject = "documents" /\ [DataNext]_dataVars
         => (subject = "documents")' /\ [Docs!Next]_Docs!vars
  BY DEF DataNext, dataVars, docVars, Docs!vars
<1>3. ~(subject = "documents") /\ [DataNext]_dataVars => ~(subject = "documents")'
  BY DEF DataNext, dataVars
<1> QED BY <1>1, <1>2, <1>3, PTL DEF DataSpec, Docs!Spec

LEMMA LinesPart == DataSpec => Coding!Spec \/ []~(subject = "lines")
<1>1. DataInit /\ subject = "lines" => Coding!Init BY DEF DataInit
<1>2. subject = "lines" /\ [DataNext]_dataVars
         => (subject = "lines")' /\ [Coding!Next]_Coding!vars
  BY DEF DataNext, dataVars, lineVars, Coding!vars
<1>3. ~(subject = "lines") /\ [DataNext]_dataVars => ~(subject = "lines")'
  BY DEF DataNext, dataVars
<1> QED BY <1>1, <1>2, <1>3, PTL DEF DataSpec, Coding!Spec

LEMMA DimsStep ==
  ASSUME [DataNext]_dataVars, subject = "dimensions"
  PROVE  /\ (subject = "dimensions")' /\ [Copy!Next]_Copy!vars
         /\ UNCHANGED Copy!vars => UNCHANGED dataVars
  BY DEF DataNext, dataVars, docVars, lineVars, dimVars, Copy!vars

LEMMA DimsPart == DataSpec => Copy!Spec \/ []~(subject = "dimensions")
<1>1. DataInit /\ subject = "dimensions" => Copy!Init BY DEF DataInit
<1>2. subject = "dimensions" /\ [DataNext]_dataVars
         => (subject = "dimensions")' /\ [Copy!Next]_Copy!vars
  BY DimsStep
<1>3. ~(subject = "dimensions") /\ [DataNext]_dataVars => ~(subject = "dimensions")'
  BY DEF DataNext, dataVars
<1> QED BY <1>1, <1>2, <1>3, PTL DEF DataSpec, Copy!Spec

\* No cent is lost or added between the expenses of a group and its document in NetSuite.
THEOREM AmountsHold == ASSUME DocumentsAssumption PROVE DataSpec => []AmountsKept
<1> QED BY DocsPart, AmountsRight, PTL DEF AmountsKept

\* With tax balancing, NetSuite arrives at the amounts of the expenses.
THEOREM TaxesHold == ASSUME DocumentsAssumption PROVE DataSpec => []TaxBalanced
<1> QED BY DocsPart, TaxesBalance, PTL DEF TaxBalanced

\* Every line that takes money has the URL of its expense, however often it is built.
THEOREM LinksHold == ASSUME DocumentsAssumption PROVE DataSpec => []LinkPresent
<1> QED BY DocsPart, LinksPresent, PTL DEF LinkPresent

\* The lines of all kinds of documents are coded by one rule.
THEOREM CodingHolds == ASSUME CodingAssumption PROVE DataSpec => []CodingFollowsRules
<1> QED BY LinesPart, CodingRight, PTL DEF CodingFollowsRules

\* After a sync that nothing disturbed the workspace has what NetSuite has.
THEOREM CopyHolds == ASSUME DimsAssumption PROVE DataSpec => []SyncedInStep
<1> QED BY DimsPart, CopyInStep, PTL DEF SyncedInStep

\* The variables of a document and of a copy keep their types.
THEOREM DataTypes == ASSUME DocumentsAssumption, DimsAssumption PROVE DataSpec => []RestTypeOK
<1> QED BY DocsPart, DimsPart, DocsTypes, CopyTypes, PTL DEF RestTypeOK

\* A row to which a mapping points keeps its name when the ids of custom records move.
THEOREM NamesHold == DataSpec => NamesKept
<1> DEFINE Inv == subject = "dimensions" => NamesApart
<1>1. DataInit => Inv BY NamesApartInit DEF DataInit
<1>2. Inv /\ [DataNext]_dataVars => Inv'
  <2> SUFFICES ASSUME Inv, [DataNext]_dataVars, (subject = "dimensions")' PROVE NamesApart'
    OBVIOUS
  <2>1. subject = "dimensions" BY DEF DataNext, dataVars
  <2> QED BY <2>1, DimsStep, NamesApartStep
<1>3. Inv /\ [DataNext]_dataVars => [subject = "dimensions" => Copy!KeepsNames]_dataVars
  <2> SUFFICES ASSUME Inv, [DataNext]_dataVars, subject = "dimensions"
               PROVE  Copy!KeepsNames \/ UNCHANGED dataVars
    OBVIOUS
  <2> QED BY DimsStep, KeepsNamesStep
<1> QED BY <1>1, <1>2, <1>3, PTL DEF DataSpec, NamesKept
=============================================================================
