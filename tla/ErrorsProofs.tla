---------------------------- MODULE ErrorsProofs -----------------------------
(* Proofs about MappingErrors.                                             *)
EXTENDS Dashboard, TLAPS

\* a copy that will be written is that of a row
Fits  == \A h \in Workers : handler[h].pc \in {"append", "save"} => handler[h].copy.made
Typed == Errors!TypeOK /\ Fits

\* What each place of a process holds.
LEMMA Places ==
  ASSUME NEW p \in Errors!Proc
  PROVE  /\ p.pc \in {"idle", "look", "get", "append", "save", "changed", "remove"}
         /\ p.pc # "idle" => p.g \in Groups
         /\ p.pc \in {"look", "get", "append", "save"} =>
               p.todo \in SUBSET Attrs /\ p.found \in SUBSET Attrs
         /\ p.pc \in {"get", "append", "save"} => p.a \in Attrs
         /\ p.pc \in {"append", "save"} => p.copy \in Errors!Error
         /\ p.pc \in {"changed", "remove"} => p.new \in Attrs
         /\ p.pc = "remove" => p.copies \in [Attrs -> Errors!Error] /\ p.from \in SUBSET Attrs
  BY DEF Errors!Proc, Errors!Idle

Row == [made: {TRUE}, ids: (SUBSET Groups) \ {{}}, resolved: BOOLEAN]

LEMMA ErrorIs ==
  ASSUME NEW e \in Errors!Error
  PROVE  /\ e.made \in BOOLEAN /\ e.resolved \in BOOLEAN /\ e.ids \in SUBSET Groups
         /\ e.made <=> e.ids # {}
         /\ ~e.made => e = Errors!NoError
         /\ e.made => e \in Row
<1>1. CASE e = Errors!NoError BY <1>1 DEF Errors!NoError
<1>2. CASE e \in Row
  <2>1. e.made = TRUE /\ e.ids \in (SUBSET Groups) \ {{}} /\ e.resolved \in BOOLEAN
    BY <1>2 DEF Row
  <2> QED BY <1>2, <2>1
<1> QED BY <1>1, <1>2 DEF Errors!Error, Row

\* The error with another list.
LEMMA IdsSet ==
  ASSUME NEW e \in Errors!Error, e.made, NEW ids \in SUBSET Groups, ids # {},
         NEW r, r = [e EXCEPT !.ids = ids]
  PROVE  r \in Errors!Error /\ r.ids = ids /\ r.made /\ r.resolved = e.resolved
<1>1. e \in Row BY ErrorIs
<1>2. r \in Row /\ r.ids = ids /\ r.made /\ r.resolved = e.resolved BY <1>1 DEF Row
<1> QED BY <1>2 DEF Row, Errors!Error

\* A new error, and one that is resolved.
LEMMA MadeIs ==
  ASSUME NEW ids \in SUBSET Groups, ids # {}
  PROVE  [made |-> TRUE, ids |-> ids, resolved |-> FALSE] \in Errors!Error
  BY DEF Errors!Error

LEMMA ResolvedIs ==
  ASSUME NEW e \in Errors!Error, e.made, NEW r, r = [e EXCEPT !.resolved = TRUE]
  PROVE  r \in Errors!Error /\ r.ids = e.ids /\ r.made /\ r.resolved
<1>1. e \in Row BY ErrorIs
<1>2. r \in Row /\ r.ids = e.ids /\ r.made /\ r.resolved BY <1>1 DEF Row
<1> QED BY <1>2 DEF Row, Errors!Error

LEMMA WithoutIs ==
  ASSUME NEW e \in Errors!Error, NEW g
  PROVE  /\ Errors!Without(e, g) \in Errors!Error /\ Errors!Without(e, g).ids = e.ids \ {g}
         /\ Errors!Without(e, g).made => e.made /\ Errors!Without(e, g).resolved = e.resolved
<1>1. CASE e.ids \subseteq {g} BY <1>1, ErrorIs DEF Errors!Without, Errors!NoError, Errors!Error
<1>2. CASE ~(e.ids \subseteq {g})
  <2>1. PICK ids : ids = e.ids \ {g} OBVIOUS
  <2>2. e.made /\ ids # {} /\ ids \in SUBSET Groups BY <1>2, <2>1, ErrorIs
  <2>3. Errors!Without(e, g) = [e EXCEPT !.ids = ids] BY <1>2, <2>1 DEF Errors!Without
  <2> QED BY <2>1, <2>2, <2>3, IdsSet
<1> QED BY <1>1, <1>2

\* What a category change makes of the rows, in the words of ChangeWrite.
Gone(p) == \E a \in p.from : ~error[a].made /\ p.copies[a].ids # {p.g}
Out(p)  == [a \in Attrs |->
    IF a \notin p.from THEN error[a]
    ELSE IF Errors!Without(p.copies[a], p.g) = Errors!NoError THEN Errors!NoError
    ELSE [error[a] EXCEPT !.ids = p.copies[a].ids \ {p.g}]]
New(p)  == [made |-> TRUE, ids |-> {p.g}, resolved |-> FALSE]

LEMMA OutIs ==
  ASSUME Typed, NEW h \in Workers, handler[h].pc = "remove", ~Gone(handler[h])
  PROVE  LET p == handler[h] IN
         /\ Out(p) \in [Attrs -> Errors!Error]
         /\ \A a \in Attrs \ p.from : Out(p)[a] = error[a]
         /\ \A a \in p.from :
               /\ Out(p)[a].ids = p.copies[a].ids \ {p.g}
               /\ Out(p)[a].made => error[a].made /\ Out(p)[a].resolved = error[a].resolved
<1>1. PICK p : p = handler[h] OBVIOUS
<1>2. /\ p.g \in Groups /\ p.copies \in [Attrs -> Errors!Error] /\ p.from \in SUBSET Attrs
      /\ error \in [Attrs -> Errors!Error]
  BY <1>1, Places DEF Typed, Errors!TypeOK
<1>3. ASSUME NEW a \in p.from
      PROVE  /\ Out(p)[a] \in Errors!Error /\ Out(p)[a].ids = p.copies[a].ids \ {p.g}
             /\ Out(p)[a].made => error[a].made /\ Out(p)[a].resolved = error[a].resolved
  <2>1. a \in Attrs /\ p.copies[a] \in Errors!Error /\ error[a] \in Errors!Error BY <1>2
  <2>2. CASE Errors!Without(p.copies[a], p.g) = Errors!NoError
    <3>1. Out(p)[a] = Errors!NoError BY <2>1, <2>2 DEF Out
    <3>2. p.copies[a].ids \ {p.g} = {} BY <2>1, <2>2, WithoutIs DEF Errors!NoError
    <3> QED BY <3>1, <3>2 DEF Errors!NoError, Errors!Error
  <2>3. CASE Errors!Without(p.copies[a], p.g) # Errors!NoError
    <3>1. PICK ids, e : ids = p.copies[a].ids \ {p.g} /\ e = error[a] OBVIOUS
    <3>2. Out(p)[a] = [e EXCEPT !.ids = ids] BY <2>1, <2>3, <3>1 DEF Out
    <3>3. ids # {} BY <2>1, <2>3, <3>1 DEF Errors!Without
    <3>4. e.made BY <1>1, <3>1, <3>3 DEF Gone
    <3>5. ids \in SUBSET Groups BY <2>1, <3>1, ErrorIs
    <3> QED BY <2>1, <3>1, <3>2, <3>3, <3>4, <3>5, IdsSet
  <2> QED BY <2>2, <2>3
<1>4. ASSUME NEW a \in Attrs \ p.from PROVE Out(p)[a] = error[a] BY DEF Out
<1>5. Out(p) \in [Attrs -> Errors!Error]
  <2>1. \A a \in Attrs : Out(p)[a] \in Errors!Error BY <1>2, <1>3, <1>4
  <2>2. Out(p) = [a \in Attrs |-> Out(p)[a]] BY DEF Out
  <2> QED BY <2>1, <2>2
<1> QED BY <1>1, <1>3, <1>4, <1>5

\* The ways a category change ends.
LEMMA WriteIs ==
  ASSUME Typed, NEW h \in Workers, Errors!ChangeWrite(h)
  PROVE  LET p == handler[h]
             e == Out(p)[p.new]
         IN
         /\ \/ Gone(p) /\ error' = error
            \/ ~Gone(p) /\ e.made /\ ~e.resolved
                 /\ error' = [Out(p) EXCEPT ![p.new] = [e EXCEPT !.ids = e.ids \cup {p.g}]]
            \/ ~Gone(p) /\ ~(e.made /\ ~e.resolved) /\ p.new \in mapped /\ error' = Out(p)
            \/ ~Gone(p) /\ p.new \notin mapped /\ e.made /\ e.resolved /\ error' = error
            \/ ~Gone(p) /\ p.new \notin mapped /\ ~e.made
                 /\ error' = [Out(p) EXCEPT ![p.new] = New(p)]
         /\ error' \in [Attrs -> Errors!Error]
<1>1. PICK p, out : p = handler[h] /\ out = Out(p) OBVIOUS
<1>2. p.pc = "remove" /\ p.new \in Attrs /\ p.g \in Groups /\ error \in [Attrs -> Errors!Error]
  BY <1>1, Places DEF Errors!ChangeWrite, Typed, Errors!TypeOK
<1> DEFINE e == out[p.new]
<1>3. \/ Gone(p) /\ error' = error
      \/ ~Gone(p) /\ e.made /\ ~e.resolved
           /\ error' = [out EXCEPT ![p.new].ids = @ \cup {p.g}]
      \/ ~Gone(p) /\ ~(e.made /\ ~e.resolved) /\ p.new \in mapped /\ error' = out
      \/ ~Gone(p) /\ p.new \notin mapped /\ e.made /\ e.resolved /\ error' = error
      \/ ~Gone(p) /\ p.new \notin mapped /\ ~e.made /\ error' = [out EXCEPT ![p.new] = New(p)]
  BY <1>1 DEF Errors!ChangeWrite, Gone, Out, New
<1>4. ~Gone(p) => out \in [Attrs -> Errors!Error] BY <1>1, <1>2, OutIs
<1>5. [out EXCEPT ![p.new].ids = @ \cup {p.g}]
        = [out EXCEPT ![p.new] = [e EXCEPT !.ids = e.ids \cup {p.g}]]
  OBVIOUS
<1>6. ASSUME ~Gone(p), e.made PROVE [e EXCEPT !.ids = e.ids \cup {p.g}] \in Errors!Error
  <2>1. PICK ids, o : ids = e.ids \cup {p.g} /\ o = e OBVIOUS
  <2>2. o \in Errors!Error /\ o.made BY <1>2, <1>4, <1>6, <2>1
  <2>3. ids \in SUBSET Groups /\ ids # {} BY <1>2, <2>1, <2>2, ErrorIs
  <2> QED BY <2>1, <2>2, <2>3, IdsSet
<1>7. New(p) \in Errors!Error BY <1>2 DEF New, Errors!Error
<1> QED BY <1>1, <1>2, <1>3, <1>4, <1>5, <1>6, <1>7
-----------------------------------------------------------------------------
(* Typing.                                                                 *)

LooksAt == [pc: {"look"}, g: Groups, todo: SUBSET Attrs, found: SUBSET Attrs]
Copying == [pc: {"append", "save"}, g: Groups, todo: SUBSET Attrs, found: SUBSET Attrs,
            a: Attrs, copy: Errors!Error]

LEMMA PlaceOf ==
  ASSUME NEW p \in Errors!Proc
  PROVE  /\ p.pc = "look" => p \in LooksAt
         /\ p.pc \in {"append", "save"} => p \in Copying
  BY DEF Errors!Proc, Errors!Idle, LooksAt, Copying

LEMMA SetIs ==
  ASSUME Typed, NEW h \in Workers, NEW r \in Errors!Proc, Errors!Set(h, r),
         r.pc \in {"append", "save"} => r.copy.made
  PROVE  /\ handler' \in [Workers -> Errors!Proc] /\ handler'[h] = r
         /\ \A k \in Workers \ {h} : handler'[k] = handler[k]
         /\ Fits'
  BY DEF Errors!Set, Typed, Errors!TypeOK, Fits

LEMMA IdleIs == Errors!Idle \in Errors!Proc /\ Errors!Idle.pc = "idle"
  BY DEF Errors!Idle, Errors!Proc

\* The attribute of a process that has found its error is among what it found.
LEMMA FoundIs ==
  ASSUME Typed, NEW h \in Workers, handler[h].pc \in {"get", "append", "save"}, Errors!Found(h)
  PROVE  /\ handler' \in [Workers -> Errors!Proc] /\ Fits' /\ handler'[h].pc = "look"
         /\ handler'[h] = [pc |-> "look", g |-> handler[h].g, todo |-> handler[h].todo,
                        found |-> handler[h].found \cup {handler[h].a}]
         /\ \A k \in Workers \ {h} : handler'[k] = handler[k]
<1>1. PICK p : p = handler[h] OBVIOUS
<1>2. p.g \in Groups /\ p.todo \in SUBSET Attrs /\ p.found \in SUBSET Attrs /\ p.a \in Attrs
  BY <1>1, Places DEF Typed, Errors!TypeOK
<1>3. PICK r : r = [pc |-> "look", g |-> p.g, todo |-> p.todo, found |-> p.found \cup {p.a}]
  OBVIOUS
<1>4. r \in Errors!Proc /\ r.pc = "look" BY <1>2, <1>3 DEF Errors!Proc
<1> QED BY <1>1, <1>3, <1>4, SetIs DEF Errors!Found

\* An append adds the group to the list of its copy, and writes the list over the row's.
LEMMA AppendIs ==
  ASSUME Typed, NEW h \in Workers, Errors!Append(h)
  PROVE  LET p == handler[h]
             r == handler'[h]
         IN
         /\ error' \in [Attrs -> Errors!Error] /\ p.a \in Attrs
         /\ \A a \in Attrs : a # p.a => error'[a] = error[a]
         /\ \/ /\ error[p.a].made /\ error'[p.a].made
               /\ error'[p.a].ids = p.copy.ids \cup {p.g} /\ error'[p.a].resolved = error[p.a].resolved
               /\ r.pc = "save" /\ r.g = p.g /\ r.todo = p.todo /\ r.found = p.found /\ r.a = p.a
               /\ r.copy.ids = p.copy.ids \cup {p.g} /\ r.copy.resolved = p.copy.resolved
               /\ r.copy.made /\ r \in Errors!Proc
            \/ ~error[p.a].made /\ error' = error /\ r = Errors!Idle
<1>1. PICK p, r : p = handler[h] /\ r = handler'[h] OBVIOUS
<1>2. p \in Errors!Proc /\ error \in [Attrs -> Errors!Error] BY <1>1 DEF Typed, Errors!TypeOK
<1>3. p.pc = "append" BY <1>1 DEF Errors!Append
<1>4. p \in Copying /\ p.copy.made BY <1>1, <1>2, <1>3, PlaceOf DEF Typed, Fits
<1>5. p.g \in Groups /\ p.a \in Attrs /\ p.copy \in Errors!Error BY <1>4 DEF Copying
<1>6. PICK ids, e : ids = Errors!ListWith(p.copy.ids, p.g) /\ e = error[p.a] OBVIOUS
<1>7. ids \in SUBSET Groups /\ ids # {} /\ e \in Errors!Error /\ ids = p.copy.ids \cup {p.g}
  BY <1>2, <1>5, <1>6, ErrorIs DEF Errors!ListWith
<1>8. CASE e.made
  <2>1. PICK c : c = [p.copy EXCEPT !.ids = ids] OBVIOUS
  <2>2. c \in Errors!Error /\ c.made /\ c.ids = ids /\ c.resolved = p.copy.resolved
    BY <1>4, <1>5, <1>7, <2>1, IdsSet
  <2>3. PICK o : o = [e EXCEPT !.ids = ids] OBVIOUS
  <2>4. o \in Errors!Error /\ o.made /\ o.ids = ids /\ o.resolved = e.resolved
    BY <1>7, <1>8, <2>3, IdsSet
  <2>5. error' = [error EXCEPT ![p.a] = o] BY <1>1, <1>6, <1>8, <2>3 DEF Errors!Append
  <2>6. r = [p EXCEPT !.pc = "save", !.copy.ids = ids]
    BY <1>1, <1>6, <1>8 DEF Errors!Append, Errors!Set, Typed, Errors!TypeOK
  <2>7. r = [p EXCEPT !.pc = "save", !.copy = c] BY <1>4, <2>1, <2>6 DEF Copying
  <2>8. /\ r \in Copying /\ r.pc = "save" /\ r.copy = c /\ r.g = p.g /\ r.todo = p.todo
        /\ r.found = p.found /\ r.a = p.a
    BY <1>4, <2>2, <2>7 DEF Copying
  <2>9. r \in Errors!Proc BY <2>8 DEF Copying, Errors!Proc
  <2>10. error' \in [Attrs -> Errors!Error] /\ error'[p.a] = o /\ \A a \in Attrs : a # p.a => error'[a] = error[a]
    BY <1>2, <1>5, <2>4, <2>5
  <2> QED BY <1>1, <1>5, <1>6, <1>7, <1>8, <2>2, <2>4, <2>8, <2>9, <2>10
<1>9. CASE ~e.made
  <2>1. r = Errors!Idle /\ error' = error
    BY <1>1, <1>6, <1>9 DEF Errors!Append, Errors!Set, Typed, Errors!TypeOK
  <2> QED BY <1>1, <1>2, <1>5, <1>6, <1>9, <2>1
<1> QED BY <1>8, <1>9

LEMMA ValidationTyped == ASSUME Typed, NEW h \in Workers, Errors!Validation(h) PROVE Typed'
<1>1. PICK p : p = handler[h] OBVIOUS
<1>2. p \in Errors!Proc /\ error \in [Attrs -> Errors!Error] BY <1>1 DEF Typed, Errors!TypeOK
<1>3. ASSUME NEW a \in Attrs, Errors!Look(h, a) PROVE Typed'
  <2>1. p.pc = "look" /\ p \in LooksAt BY <1>1, <1>2, <1>3, PlaceOf DEF Errors!Look
  <2>2. PICK r : r = IF a \in mapped THEN [p EXCEPT !.todo = @ \ {a}]
                     ELSE [pc |-> "get", g |-> p.g, todo |-> p.todo \ {a}, found |-> p.found, a |-> a]
    OBVIOUS
  <2>3. r \in Errors!Proc /\ r.pc \in {"look", "get"}
    <3>1. CASE a \in mapped
      <4>1. r \in LooksAt BY <2>1, <2>2, <3>1 DEF LooksAt
      <4> QED BY <4>1 DEF LooksAt, Errors!Proc
    <3>2. CASE a \notin mapped BY <2>1, <2>2, <3>2 DEF LooksAt, Errors!Proc
    <3> QED BY <3>1, <3>2
  <2>4. Errors!Set(h, r) /\ UNCHANGED <<uses, mapped, error, failed>>
    BY <1>1, <1>3, <2>2 DEF Errors!Look
  <2> QED BY <2>3, <2>4, SetIs DEF Typed, Errors!TypeOK
<1>4. CASE Errors!Get(h)
  <2>1. p.pc = "get" /\ UNCHANGED <<uses, mapped, failed>> BY <1>1, <1>4 DEF Errors!Get
  <2>2. p.g \in Groups /\ p.todo \in SUBSET Attrs /\ p.found \in SUBSET Attrs /\ p.a \in Attrs
    BY <1>2, <2>1, Places
  <2>3. CASE error[p.a].made
    <3>1. PICK r : r = [pc |-> IF p.g \in error[p.a].ids THEN "save" ELSE "append", g |-> p.g,
                        todo |-> p.todo, found |-> p.found, a |-> p.a, copy |-> error[p.a]]
      OBVIOUS
    <3>2. Errors!Set(h, r) /\ error' = error BY <1>1, <1>4, <2>3, <3>1 DEF Errors!Get
    <3>3. r \in Copying /\ r.copy.made BY <1>2, <2>2, <2>3, <3>1 DEF Copying
    <3>4. r \in Errors!Proc BY <3>3 DEF Copying, Errors!Proc
    <3> QED BY <2>1, <3>2, <3>3, <3>4, SetIs DEF Typed, Errors!TypeOK
  <2>4. CASE ~error[p.a].made
    <3>1. Errors!Found(h) /\ error' = [error EXCEPT ![p.a] = [made |-> TRUE, ids |-> {p.g}, resolved |-> FALSE]]
      BY <1>1, <1>4, <2>4 DEF Errors!Get
    <3>2. error' \in [Attrs -> Errors!Error] BY <1>2, <2>2, <3>1, MadeIs
    <3> QED BY <1>1, <2>1, <3>1, <3>2, FoundIs DEF Typed, Errors!TypeOK
  <2> QED BY <2>3, <2>4
<1>5. CASE Errors!Append(h)
  <2>1. UNCHANGED <<uses, mapped, failed>> /\ \E r : Errors!Set(h, r) BY <1>5 DEF Errors!Append
  <2>2. PICK r : Errors!Set(h, r) BY <2>1
  <2>3. handler'[h] = r BY <2>2 DEF Errors!Set, Typed, Errors!TypeOK
  <2>4. r \in Errors!Proc /\ (r.pc \in {"append", "save"} => r.copy.made)
    BY <1>5, <2>3, AppendIs, IdleIs
  <2> QED BY <1>5, <2>1, <2>2, <2>4, AppendIs, SetIs DEF Typed, Errors!TypeOK
<1>6. CASE Errors!SaveRow(h)
  <2>1. p.pc = "save" /\ Errors!Found(h) /\ UNCHANGED <<uses, mapped, failed>>
        /\ error' = [error EXCEPT ![p.a] = p.copy]
    BY <1>1, <1>6 DEF Errors!SaveRow
  <2>2. p.copy \in Errors!Error BY <1>2, <2>1, Places
  <2>3. error' \in [Attrs -> Errors!Error] BY <1>2, <2>1, <2>2
  <2> QED BY <1>1, <2>1, <2>3, FoundIs DEF Typed, Errors!TypeOK
<1>7. CASE Errors!Validated(h)
  <2>1. p.g \in Groups /\ p.found \in SUBSET Attrs
    BY <1>1, <1>2, <1>7, Places DEF Errors!Validated
  <2>2. failed' \subseteq Groups \X Attrs
    BY <1>1, <1>7, <2>1 DEF Errors!Validated, Typed, Errors!TypeOK
  <2> QED BY <1>7, <2>2, IdleIs, SetIs DEF Errors!Validated, Typed, Errors!TypeOK
<1> QED BY <1>3, <1>4, <1>5, <1>6, <1>7 DEF Errors!Validation

\* Resolving errors leaves the lists alone.
LEMMA ResolvedRows ==
  ASSUME error \in [Attrs -> Errors!Error], NEW as
  PROVE  /\ Errors!Resolved(as) \in [Attrs -> Errors!Error]
         /\ \A a \in Attrs :
               /\ Errors!Resolved(as)[a].ids = error[a].ids /\ Errors!Resolved(as)[a].made = error[a].made
               /\ a \notin as => Errors!Resolved(as)[a] = error[a]
               /\ a \in as /\ error[a].made => Errors!Resolved(as)[a].resolved
<1>1. ASSUME NEW a \in Attrs
      PROVE  /\ Errors!Resolved(as)[a] \in Errors!Error
             /\ Errors!Resolved(as)[a].ids = error[a].ids /\ Errors!Resolved(as)[a].made = error[a].made
             /\ a \notin as => Errors!Resolved(as)[a] = error[a]
             /\ a \in as /\ error[a].made => Errors!Resolved(as)[a].resolved
  <2>1. error[a] \in Errors!Error OBVIOUS
  <2>2. CASE a \in as /\ error[a].made
    <3>1. Errors!Resolved(as)[a] = [error[a] EXCEPT !.resolved = TRUE] BY <2>2 DEF Errors!Resolved
    <3> QED BY <2>1, <2>2, <3>1, ResolvedIs, ErrorIs
  <2>3. CASE ~(a \in as /\ error[a].made)
    <3>1. Errors!Resolved(as)[a] = error[a] BY <2>3 DEF Errors!Resolved
    <3> QED BY <2>1, <2>3, <3>1
  <2> QED BY <2>2, <2>3
<1>2. Errors!Resolved(as) = [a \in Attrs |-> Errors!Resolved(as)[a]] BY DEF Errors!Resolved
<1> QED BY <1>1, <1>2

\* A group that is deleted leaves all lists.
LEMMA DeletedRows ==
  ASSUME error \in [Attrs -> Errors!Error], NEW g, Errors!DeleteGroup(g)
  PROVE  /\ error' \in [Attrs -> Errors!Error]
         /\ \A a \in Attrs :
               /\ error'[a].ids = error[a].ids \ {g}
               /\ error'[a].made => error[a].made /\ error'[a].resolved = error[a].resolved
<1>1. error' = [a \in Attrs |-> IF g \in error[a].ids THEN Errors!Without(error[a], g) ELSE error[a]]
  BY DEF Errors!DeleteGroup
<1>2. ASSUME NEW a \in Attrs
      PROVE  /\ error'[a] \in Errors!Error /\ error'[a].ids = error[a].ids \ {g}
             /\ error'[a].made => error[a].made /\ error'[a].resolved = error[a].resolved
  <2>1. error[a] \in Errors!Error OBVIOUS
  <2>2. CASE g \in error[a].ids BY <1>1, <2>1, <2>2, WithoutIs
  <2>3. CASE g \notin error[a].ids BY <1>1, <2>1, <2>3
  <2> QED BY <2>2, <2>3
<1> QED BY <1>1, <1>2

\* New settings take the affected groups out of the errors that are open.
LEMMA ClearedRows ==
  ASSUME error \in [Attrs -> Errors!Error], NEW affected, NEW usable, Errors!NewSettings(affected, usable)
  PROVE  /\ error' \in [Attrs -> Errors!Error]
         /\ \A a \in Attrs :
               /\ error'[a].ids \in {error[a].ids, error[a].ids \ affected}
               /\ error'[a].made => error[a].made /\ error'[a].resolved = error[a].resolved
<1>1. error' = [a \in Attrs |->
         LET e == error[a] IN
         IF a \notin Errors!Unresolved \/ e.ids \cap affected = {} THEN e
         ELSE IF e.ids \subseteq affected THEN Errors!NoError
         ELSE [e EXCEPT !.ids = @ \ affected]]
  BY DEF Errors!NewSettings
<1>2. ASSUME NEW a \in Attrs
      PROVE  /\ error'[a] \in Errors!Error
             /\ error'[a].ids \in {error[a].ids, error[a].ids \ affected}
             /\ error'[a].made => error[a].made /\ error'[a].resolved = error[a].resolved
  <2>1. PICK e, ids : e = error[a] /\ ids = e.ids \ affected OBVIOUS
  <2>2. e \in Errors!Error /\ ids \in SUBSET Groups BY <2>1, ErrorIs
  <2>3. CASE a \notin Errors!Unresolved \/ e.ids \cap affected = {} BY <1>1, <2>1, <2>2, <2>3
  <2>4. CASE a \in Errors!Unresolved /\ e.ids \cap affected # {} /\ e.ids \subseteq affected
    <3>1. error'[a] = Errors!NoError BY <1>1, <2>1, <2>4
    <3> QED BY <2>1, <2>4, <3>1 DEF Errors!NoError, Errors!Error
  <2>5. CASE a \in Errors!Unresolved /\ e.ids \cap affected # {} /\ ~(e.ids \subseteq affected)
    <3>1. error'[a] = [e EXCEPT !.ids = ids] BY <1>1, <2>1, <2>5
    <3>2. e.made /\ ids # {} BY <2>1, <2>5 DEF Errors!Unresolved
    <3> QED BY <2>1, <2>2, <3>1, <3>2, IdsSet
  <2> QED BY <2>3, <2>4, <2>5
<1> QED BY <1>1, <1>2

LEMMA HandlerTyped == ASSUME Typed, NEW h \in Workers, Errors!Handler(h) PROVE Typed'
<1>1. CASE Errors!ChangeRead(h)
  <2>1. PICK from \in Errors!Listed(handler[h].g) :
           Errors!Set(h, [pc |-> "remove", g |-> handler[h].g, new |-> handler[h].new,
                   copies |-> error, from |-> from])
    BY <1>1 DEF Errors!ChangeRead
  <2>2. from \subseteq Attrs BY DEF Errors!Listed, Errors!Unresolved
  <2>3. handler[h].g \in Groups /\ handler[h].new \in Attrs
    BY <1>1, Places DEF Errors!ChangeRead, Typed, Errors!TypeOK
  <2>4. [pc |-> "remove", g |-> handler[h].g, new |-> handler[h].new, copies |-> error, from |-> from]
          \in Errors!Proc
    BY <2>2, <2>3 DEF Typed, Errors!TypeOK, Errors!Proc
  <2> QED BY <1>1, <2>1, <2>4, SetIs DEF Errors!ChangeRead, Typed, Errors!TypeOK
<1>2. CASE Errors!ChangeWrite(h)
  BY <1>2, WriteIs, IdleIs, SetIs DEF Errors!ChangeWrite, Typed, Errors!TypeOK
<1> QED BY <1>1, <1>2 DEF Errors!Handler

LEMMA TypedStep == Typed /\ [Errors!Next]_Errors!vars => Typed'
<1> SUFFICES ASSUME Typed, [Errors!Next]_Errors!vars PROVE Typed'
  OBVIOUS
<1> USE DEF Typed, Errors!TypeOK
<1>1. ASSUME NEW h \in Workers, NEW g \in Groups, Errors!Validate(h, g) PROVE Typed'
  <2>1. [pc |-> "look", g |-> g, todo |-> uses[g], found |-> {}] \in Errors!Proc
    BY DEF Errors!Proc
  <2> QED BY <1>1, <2>1, SetIs DEF Errors!Validate
<1>2. ASSUME NEW h \in Workers, NEW g \in Groups, NEW old \in Attrs, NEW new \in Attrs,
             Errors!Change(h, g, old, new)
      PROVE  Typed'
  <2>1. [pc |-> "changed", g |-> g, new |-> new] \in Errors!Proc BY DEF Errors!Proc
  <2> QED BY <1>2, <2>1, SetIs DEF Errors!Change, Errors!Forget
<1>3. ASSUME NEW g \in Groups, Errors!DeleteGroup(g) PROVE Typed'
  BY <1>3, DeletedRows DEF Errors!DeleteGroup, Errors!Forget, Fits
<1>4. ASSUME NEW g \in Groups, Errors!RuleDelete(g) PROVE Typed'
  BY <1>4 DEF Errors!RuleDelete, Errors!Forget, Fits
<1>5. ASSUME NEW affected \in SUBSET Groups, NEW usable \in SUBSET Attrs,
             Errors!NewSettings(affected, usable)
      PROVE  Typed'
  <2>1. error' \in [Attrs -> Errors!Error] BY <1>5, ClearedRows
  <2> QED BY <1>5, <2>1 DEF Errors!NewSettings, Fits
<1>6. ASSUME NEW a \in Attrs, Errors!Map(a) PROVE Typed'
  <2>1. error' \in [Attrs -> Errors!Error] BY <1>6, ResolvedRows DEF Errors!Map
  <2> QED BY <1>6, <2>1 DEF Errors!Map, Fits
<1>7. CASE Errors!ResolveJob
  <2>1. error' \in [Attrs -> Errors!Error] BY <1>7, ResolvedRows DEF Errors!ResolveJob
  <2> QED BY <1>7, <2>1 DEF Errors!ResolveJob, Fits
<1>8. CASE UNCHANGED Errors!vars BY <1>8 DEF Errors!vars, Fits
<1> QED BY <1>1, <1>2, <1>3, <1>4, <1>5, <1>6, <1>7, <1>8, ValidationTyped, HandlerTyped
        DEF Errors!Next, Errors!Act

LEMMA TypedInit == Errors!Init => Typed
<1> SUFFICES ASSUME Errors!Init PROVE Typed
  OBVIOUS
<1>1. Errors!Usable \subseteq SUBSET Attrs BY DEF Errors!Usable
<1> QED BY <1>1, IdleIs DEF Errors!Init, Typed, Errors!TypeOK, Fits, Errors!Error

\* Every variable keeps its type, for any number of groups, attributes and workers: no
\* write leaves an error with an empty list, nor a list without an error.
THEOREM ErrorsTyped == Errors!Spec => []Errors!TypeOK
  BY TypedInit, TypedStep, PTL DEF Errors!Spec, Typed
-----------------------------------------------------------------------------
(* What failed is listed.                                                  *)

OneWorker == \A h, k \in Workers : h = k

\* The groups that are known to miss a mapping are in the list of its error, also those
\* that a validation has found so far; its copies have the list of the row.
Heard ==
    /\ \A f \in failed : f[1] \in error[f[2]].ids
    /\ \A h \in Workers : LET p == handler[h] IN
          /\ p.pc \in {"look", "get", "append", "save"} => \A a \in p.found : p.g \in error[a].ids
          /\ p.pc \in {"append", "save"} => p.copy.ids = error[p.a].ids
          /\ p.pc = "save" => p.g \in p.copy.ids
          /\ p.pc \in {"changed", "remove"} => \A f \in failed : f[1] # p.g
          /\ p.pc = "remove" => \A a \in Attrs : p.copies[a].ids = error[a].ids


\* What Heard asks of one process.
HeardBy(p) ==
    /\ p.pc \in {"look", "get", "append", "save"} => \A a \in p.found : p.g \in error[a].ids
    /\ p.pc \in {"append", "save"} => p.copy.ids = error[p.a].ids
    /\ p.pc = "save" => p.g \in p.copy.ids
    /\ p.pc \in {"changed", "remove"} => \A f \in failed : f[1] # p.g
    /\ p.pc = "remove" => \A a \in Attrs : p.copies[a].ids = error[a].ids

LEMMA ValidationHeard ==
  ASSUME Typed, OneWorker, Heard, NEW h \in Workers, Errors!Validation(h)
  PROVE  Heard'
<1> USE DEF Typed, Errors!TypeOK
<1>1. PICK p : p = handler[h] OBVIOUS
<1>2. p \in Errors!Proc /\ HeardBy(p) /\ \A f \in failed : f[1] \in error[f[2]].ids /\ f[2] \in Attrs
  BY <1>1 DEF Heard, HeardBy
<1>3. \A k \in Workers : k = h BY DEF OneWorker
<1>4. ASSUME NEW a \in Attrs, Errors!Look(h, a) PROVE Heard'
  <2>1. p.pc = "look" /\ p \in LooksAt /\ failed' = failed /\ error' = error
    BY <1>1, <1>2, <1>4, PlaceOf DEF Errors!Look
  <2>2. PICK r : r = IF a \in mapped THEN [p EXCEPT !.todo = @ \ {a}]
                     ELSE [pc |-> "get", g |-> p.g, todo |-> p.todo \ {a}, found |-> p.found, a |-> a]
    OBVIOUS
  <2>3. handler'[h] = r BY <1>1, <1>4, <2>2 DEF Errors!Look, Errors!Set
  <2>4. r.pc \in {"look", "get"} /\ r.g = p.g /\ r.found = p.found BY <2>1, <2>2 DEF LooksAt
  <2> QED BY <1>2, <1>3, <2>1, <2>3, <2>4 DEF Heard, HeardBy
\* after a step that ends with Found
<1>5. ASSUME p.pc \in {"get", "append", "save"}, Errors!Found(h), failed' = failed, error' \in [Attrs -> Errors!Error],
             p.g \in error'[p.a].ids, \A a \in Attrs : error[a].ids \subseteq error'[a].ids
      PROVE  Heard'
  <2>1. handler'[h] = [pc |-> "look", g |-> p.g, todo |-> p.todo, found |-> p.found \cup {p.a}]
    BY <1>1, <1>5, FoundIs
  <2>2. p.found \subseteq Attrs /\ \A a \in p.found : p.g \in error[a].ids
    BY <1>2, <1>5, Places DEF HeardBy
  <2> QED BY <1>2, <1>3, <1>5, <2>1, <2>2 DEF Heard
<1>6. CASE Errors!Get(h)
  <2>1. p.pc = "get" /\ failed' = failed BY <1>1, <1>6 DEF Errors!Get
  <2>2. p.g \in Groups /\ p.a \in Attrs /\ p.found \subseteq Attrs BY <1>2, <2>1, Places
  <2>3. CASE error[p.a].made
    <3>1. error' = error /\ handler'[h] = [pc |-> IF p.g \in error[p.a].ids THEN "save" ELSE "append",
             g |-> p.g, todo |-> p.todo, found |-> p.found, a |-> p.a, copy |-> error[p.a]]
      BY <1>1, <1>6, <2>3 DEF Errors!Get, Errors!Set
    <3> QED BY <1>2, <1>3, <2>1, <3>1 DEF Heard, HeardBy
  <2>4. CASE ~error[p.a].made
    <3>1. Errors!Found(h) /\ error' = [error EXCEPT ![p.a] = [made |-> TRUE, ids |-> {p.g}, resolved |-> FALSE]]
      BY <1>1, <1>6, <2>4 DEF Errors!Get
    <3>2. error[p.a].ids = {} BY <2>2, <2>4, ErrorIs
    <3>3. error' \in [Attrs -> Errors!Error] BY <2>2, <3>1, MadeIs
    <3>4. p.g \in error'[p.a].ids /\ \A a \in Attrs : error[a].ids \subseteq error'[a].ids
      BY <2>2, <3>1, <3>2
    <3> QED BY <1>5, <2>1, <3>1, <3>3, <3>4
  <2> QED BY <2>3, <2>4
<1>7. CASE Errors!Append(h)
  <2>1. p.pc = "append" /\ failed' = failed BY <1>1, <1>7 DEF Errors!Append
  <2>2. p \in Copying /\ p.copy.ids = error[p.a].ids /\ p.copy.made
    BY <1>1, <1>2, <2>1, PlaceOf DEF HeardBy, Fits
  <2>3. p.a \in Attrs /\ p.found \subseteq Attrs /\ error[p.a].made BY <2>2, ErrorIs DEF Copying
  <2>4. PICK r : r = handler'[h] OBVIOUS
  <2>5. /\ error'[p.a].ids = error[p.a].ids \cup {p.g} /\ r.pc = "save" /\ r.g = p.g /\ r.found = p.found
        /\ r.a = p.a /\ r.copy.ids = error[p.a].ids \cup {p.g}
        /\ \A a \in Attrs : a # p.a => error'[a] = error[a]
    BY <1>1, <1>7, <2>2, <2>3, <2>4, AppendIs
  <2>6. \A a \in Attrs : error[a].ids \subseteq error'[a].ids BY <2>5
  <2>7. \A f \in failed' : f[1] \in error'[f[2]].ids BY <1>2, <2>1, <2>6
  <2>8. HeardBy(r)' BY <1>2, <2>1, <2>3, <2>5, <2>6 DEF HeardBy
  <2> QED BY <1>3, <2>4, <2>7, <2>8 DEF Heard, HeardBy
<1>8. CASE Errors!SaveRow(h)
  <2>1. p.pc = "save" /\ Errors!Found(h) /\ failed' = failed /\ error' = [error EXCEPT ![p.a] = p.copy]
    BY <1>1, <1>8 DEF Errors!SaveRow
  <2>2. p.a \in Attrs /\ p.copy \in Errors!Error /\ p.copy.ids = error[p.a].ids /\ p.g \in p.copy.ids
    BY <1>2, <2>1, Places DEF HeardBy
  <2>3. error' \in [Attrs -> Errors!Error] /\ \A a \in Attrs : error'[a].ids = error[a].ids
    BY <2>1, <2>2
  <2>4. p.g \in error'[p.a].ids BY <2>2, <2>3
  <2> QED BY <1>5, <2>1, <2>3, <2>4
<1>9. CASE Errors!Validated(h)
  <2>1. p.pc = "look" /\ p.found \subseteq Attrs BY <1>1, <1>2, <1>9, Places DEF Errors!Validated
  <2>2. failed' \subseteq failed \cup ({p.g} \X p.found) /\ error' = error /\ handler'[h] = Errors!Idle
    BY <1>1, <1>9 DEF Errors!Validated, Errors!Set
  <2>3. \A f \in failed' : f[1] \in error'[f[2]].ids
    BY <1>2, <2>1, <2>2 DEF HeardBy
  <2> QED BY <1>3, <2>2, <2>3, IdleIs DEF Heard
<1> QED BY <1>4, <1>6, <1>7, <1>8, <1>9 DEF Errors!Validation

\* The lists that a category change takes its group out of have not failed it since.
LEMMA HandlerHeard ==
  ASSUME Typed, OneWorker, Heard, NEW h \in Workers, Errors!Handler(h)
  PROVE  Heard'
<1> USE DEF Typed, Errors!TypeOK
<1>1. PICK p : p = handler[h] OBVIOUS
<1>2. p \in Errors!Proc /\ HeardBy(p) /\ \A f \in failed : f[1] \in error[f[2]].ids /\ f[2] \in Attrs
  BY <1>1 DEF Heard, HeardBy
<1>3. \A k \in Workers : k = h BY DEF OneWorker
<1>4. CASE Errors!ChangeRead(h)
  <2>1. PICK from \in Errors!Listed(p.g) :
           handler'[h] = [pc |-> "remove", g |-> p.g, new |-> p.new, copies |-> error, from |-> from]
    BY <1>1, <1>4 DEF Errors!ChangeRead, Errors!Set
  <2>2. p.pc = "changed" /\ error' = error /\ failed' = failed BY <1>1, <1>4 DEF Errors!ChangeRead
  <2> QED BY <1>2, <1>3, <2>1, <2>2 DEF Heard, HeardBy
<1>5. CASE Errors!ChangeWrite(h)
  <2>1. p.pc = "remove" /\ failed' = failed /\ handler'[h] = Errors!Idle
    BY <1>1, <1>5 DEF Errors!ChangeWrite, Errors!Set
  <2>2. \A f \in failed : f[1] # p.g BY <1>2, <2>1 DEF HeardBy
  <2>3. \A a \in Attrs : p.copies[a].ids = error[a].ids BY <1>2, <2>1 DEF HeardBy
  <2>4. p.new \in Attrs /\ p.g \in Groups /\ error \in [Attrs -> Errors!Error]
    BY <1>2, <2>1, Places
  <2>5. ~Gone(p) => /\ Out(p) \in [Attrs -> Errors!Error]
                    /\ \A a \in Attrs : error[a].ids \ {p.g} \subseteq Out(p)[a].ids
    BY <1>1, <2>1, <2>3, OutIs
  <2>6. ~Gone(p) /\ Out(p)[p.new].made =>
          [Out(p)[p.new] EXCEPT !.ids = Out(p)[p.new].ids \cup {p.g}].ids = Out(p)[p.new].ids \cup {p.g}
    <3>1. PICK o, ids : o = Out(p)[p.new] /\ ids = o.ids \cup {p.g} OBVIOUS
    <3>2. ~Gone(p) => o \in Errors!Error BY <2>4, <2>5, <3>1
    <3>3. o \in Errors!Error => ids \in SUBSET Groups /\ ids # {} BY <2>4, <3>1, ErrorIs
    <3> QED BY <3>1, <3>2, <3>3, IdsSet
  <2>7. ~Gone(p) /\ ~Out(p)[p.new].made => Out(p)[p.new].ids = {} BY <2>4, <2>5, ErrorIs
  <2>8. \A a \in Attrs : error[a].ids \ {p.g} \subseteq error'[a].ids
    <3>1. CASE error' = error BY <3>1
    <3>2. CASE ~Gone(p) /\ error' = Out(p) BY <2>5, <3>2
    <3>3. CASE /\ ~Gone(p) /\ Out(p)[p.new].made
               /\ error' = [Out(p) EXCEPT ![p.new] =
                              [Out(p)[p.new] EXCEPT !.ids = Out(p)[p.new].ids \cup {p.g}]]
      BY <2>4, <2>5, <2>6, <3>3
    <3>4. CASE ~Gone(p) /\ ~Out(p)[p.new].made /\ error' = [Out(p) EXCEPT ![p.new] = New(p)]
      BY <2>4, <2>5, <2>7, <3>4 DEF New
    <3> QED BY <1>1, <1>5, <3>1, <3>2, <3>3, <3>4, WriteIs
  <2>9. \A f \in failed' : f[1] \in error'[f[2]].ids BY <1>2, <2>1, <2>2, <2>8
  <2> QED BY <1>3, <2>1, <2>9, IdleIs DEF Heard
<1> QED BY <1>4, <1>5 DEF Errors!Handler

LEMMA HeardStep == ASSUME OneWorker PROVE Typed /\ Heard /\ [Errors!Next]_Errors!vars => Heard'
<1> SUFFICES ASSUME Typed, Heard, [Errors!Next]_Errors!vars PROVE Heard'
  OBVIOUS
<1> USE DEF Typed, Errors!TypeOK
<1>0. \A f \in failed : f[1] \in error[f[2]].ids /\ f[2] \in Attrs BY DEF Heard
<1>1. ASSUME NEW h \in Workers, NEW g \in Groups, Errors!Validate(h, g) PROVE Heard'
  <2>1. handler'[h] = [pc |-> "look", g |-> g, todo |-> uses[g], found |-> {}]
    BY <1>1 DEF Errors!Validate, Errors!Set
  <2>2. \A k \in Workers : k = h BY DEF OneWorker
  <2> QED BY <1>1, <2>1, <2>2 DEF Errors!Validate, Heard
<1>2. ASSUME NEW h \in Workers, NEW g \in Groups, NEW old \in Attrs, NEW new \in Attrs,
             Errors!Change(h, g, old, new)
      PROVE  Heard'
  <2>1. handler'[h] = [pc |-> "changed", g |-> g, new |-> new]
    BY <1>2 DEF Errors!Change, Errors!Set
  <2>2. \A k \in Workers : k = h BY DEF OneWorker
  <2> QED BY <1>2, <2>1, <2>2 DEF Errors!Change, Errors!Forget, Heard
\* nobody is at work
<1>3. ASSUME Errors!AllIdle, UNCHANGED handler, \A f \in failed' : f \in failed /\ f[1] \in error'[f[2]].ids
      PROVE  Heard'
  BY <1>3 DEF Errors!AllIdle, Heard
<1>4. ASSUME NEW g \in Groups, Errors!DeleteGroup(g) PROVE Heard'
  <2>1. \A a \in Attrs : error'[a].ids = error[a].ids \ {g} BY <1>4, DeletedRows
  <2>2. failed' = {f \in failed : f[1] # g} /\ Errors!AllIdle /\ UNCHANGED handler
    BY <1>4 DEF Errors!DeleteGroup, Errors!Forget
  <2> QED BY <1>0, <1>3, <2>1, <2>2
<1>5. ASSUME NEW g \in Groups, Errors!RuleDelete(g) PROVE Heard'
  BY <1>0, <1>3, <1>5 DEF Errors!RuleDelete, Errors!Forget
<1>6. ASSUME NEW affected \in SUBSET Groups, NEW usable \in SUBSET Attrs,
             Errors!NewSettings(affected, usable)
      PROVE  Heard'
  <2>1. \A a \in Attrs : error'[a].ids \in {error[a].ids, error[a].ids \ affected}
    BY <1>6, ClearedRows
  <2>2. failed' = {f \in failed : f[1] \notin affected} BY <1>6 DEF Errors!NewSettings
  <2>3. Errors!AllIdle /\ UNCHANGED handler BY <1>6 DEF Errors!NewSettings
  <2> QED BY <1>0, <1>3, <2>1, <2>2, <2>3
\* the lists stay as they are
<1>7. ASSUME UNCHANGED <<handler, failed>>, \A a \in Attrs : error'[a].ids = error[a].ids PROVE Heard'
  <2>1. \A h \in Workers : handler[h].pc \in {"append", "save"} => handler[h].a \in Attrs
    BY Places
  <2>2. \A h \in Workers : handler[h].pc \in {"look", "get", "append", "save"} => handler[h].found \subseteq Attrs
    BY Places
  <2> QED BY <1>0, <1>7, <2>1, <2>2 DEF Heard
<1>8. ASSUME NEW a \in Attrs, Errors!Map(a) PROVE Heard'
  BY <1>7, <1>8, ResolvedRows DEF Errors!Map
<1>9. CASE Errors!ResolveJob BY <1>7, <1>9, ResolvedRows DEF Errors!ResolveJob
<1>10. CASE UNCHANGED Errors!vars BY <1>7, <1>10 DEF Errors!vars
<1> QED BY <1>1, <1>2, <1>4, <1>5, <1>6, <1>8, <1>9, <1>10, ValidationHeard, HandlerHeard
        DEF Errors!Next, Errors!Act

LEMMA HeardInit == Errors!Init => Heard
<1> SUFFICES ASSUME Errors!Init PROVE Heard
  OBVIOUS
<1>1. failed = {} /\ \A h \in Workers : handler[h].pc = "idle" BY IdleIs DEF Errors!Init
<1> QED BY <1>1 DEF Heard

\* With one process at a time every missing mapping that failed an export is in the list of
\* its error until the group is exported, changed or deleted, whatever people map, skip,
\* delete or set up meanwhile.
THEOREM AllReported == ASSUME OneWorker PROVE Errors!Spec => []Errors!Reported
<1>1. Typed /\ Heard /\ [Errors!Next]_Errors!vars => Typed' /\ Heard' BY TypedStep, HeardStep
<1>2. Errors!Init => Typed /\ Heard BY TypedInit, HeardInit
<1>3. Heard => Errors!Reported BY DEF Heard, Errors!Reported
<1> QED BY <1>1, <1>2, <1>3, PTL DEF Errors!Spec
-----------------------------------------------------------------------------
(* Mapped attributes have no open error.                                   *)

\* While nobody adds a mapping beside a handler, what a process is about to write as
\* missing is missing.
Current ==
    /\ Errors!Unresolved \cap mapped = {}
    /\ \A h \in Workers : handler[h].pc \in {"get", "append", "save"} => handler[h].a \notin mapped

\* No step but a new mapping needs more than this of an error it opens.
LEMMA CurrentMove ==
  ASSUME Typed, Current, mapped' = mapped, error' \in [Attrs -> Errors!Error],
         NEW h \in Workers, \A k \in Workers \ {h} : handler'[k] = handler[k],
         handler'[h].pc \in {"get", "append", "save"} => handler'[h].a \notin mapped,
         \A a \in mapped : error'[a].made => error'[a].resolved
  PROVE  Current'
  BY DEF Current, Errors!Unresolved, Typed, Errors!TypeOK

LEMMA CurrentRows ==
  ASSUME Typed, Current
  PROVE  \A a \in mapped : a \in Attrs /\ (error[a].made => error[a].resolved)
  BY DEF Current, Errors!Unresolved, Typed, Errors!TypeOK

LEMMA ValidationCurrent == ASSUME Typed, Current, NEW h \in Workers, Errors!Validation(h) PROVE Current'
<1> USE DEF Typed, Errors!TypeOK
<1>1. PICK p : p = handler[h] OBVIOUS
<1>2. p \in Errors!Proc /\ (p.pc \in {"get", "append", "save"} => p.a \in Attrs \ mapped)
  BY <1>1, Places DEF Current
<1>3. ASSUME NEW a \in Attrs, Errors!Look(h, a) PROVE Current'
  <2>1. p.pc = "look" /\ p \in LooksAt /\ mapped' = mapped /\ error' = error
    BY <1>1, <1>2, <1>3, PlaceOf DEF Errors!Look
  <2>2. PICK r : r = IF a \in mapped THEN [p EXCEPT !.todo = @ \ {a}]
                     ELSE [pc |-> "get", g |-> p.g, todo |-> p.todo \ {a}, found |-> p.found, a |-> a]
    OBVIOUS
  <2>3. handler' = [handler EXCEPT ![h] = r] BY <1>1, <1>3, <2>2 DEF Errors!Look, Errors!Set
  <2>4. r.pc = "get" => r.a \notin mapped BY <2>1, <2>2 DEF LooksAt
  <2>5. r.pc \in {"look", "get"} BY <2>1, <2>2 DEF LooksAt
  <2> QED BY <2>1, <2>3, <2>4, <2>5, CurrentRows, CurrentMove
<1>4. CASE Errors!Get(h)
  <2>1. p.pc = "get" /\ mapped' = mapped BY <1>1, <1>4 DEF Errors!Get
  <2>2. p.g \in Groups /\ p.a \in Attrs \ mapped BY <1>2, <2>1, Places
  <2>3. CASE error[p.a].made
    <3>1. PICK r : r = [pc |-> IF p.g \in error[p.a].ids THEN "save" ELSE "append", g |-> p.g,
                        todo |-> p.todo, found |-> p.found, a |-> p.a, copy |-> error[p.a]]
      OBVIOUS
    <3>2. handler' = [handler EXCEPT ![h] = r] /\ error' = error
      BY <1>1, <1>4, <2>3, <3>1 DEF Errors!Get, Errors!Set
    <3>3. r.a = p.a BY <3>1
    <3> QED BY <2>1, <2>2, <3>2, <3>3, CurrentRows, CurrentMove
  <2>4. CASE ~error[p.a].made
    <3>1. Errors!Found(h) /\ error' = [error EXCEPT ![p.a] = [made |-> TRUE, ids |-> {p.g}, resolved |-> FALSE]]
      BY <1>1, <1>4, <2>4 DEF Errors!Get
    <3>2. error' \in [Attrs -> Errors!Error] BY <2>2, <3>1, MadeIs
    <3>3. handler'[h].pc = "look" /\ \A k \in Workers \ {h} : handler'[k] = handler[k]
      BY <1>1, <2>1, <3>1, FoundIs
    <3>4. \A a \in mapped : error'[a] = error[a] BY <2>2, <3>1
    <3> QED BY <2>1, <3>2, <3>3, <3>4, CurrentRows, CurrentMove
  <2> QED BY <2>3, <2>4
<1>5. CASE Errors!Append(h)
  <2>1. p.pc = "append" /\ mapped' = mapped BY <1>1, <1>5 DEF Errors!Append
  <2>2. p.a \in Attrs \ mapped BY <1>2, <2>1
  <2>3. /\ error' \in [Attrs -> Errors!Error] /\ \A a \in mapped : error'[a] = error[a]
        /\ \/ handler'[h] = Errors!Idle
           \/ handler'[h].pc = "save" /\ handler'[h].a = p.a
    <3>1. error' \in [Attrs -> Errors!Error] /\ \A a \in Attrs \ {p.a} : error'[a] = error[a]
      BY <1>1, <1>5, AppendIs
    <3>2. \/ handler'[h] = Errors!Idle
          \/ handler'[h].pc = "save" /\ handler'[h].a = p.a
      BY <1>1, <1>5, AppendIs
    <3> QED BY <2>2, <3>1, <3>2
  <2>4. \A k \in Workers \ {h} : handler'[k] = handler[k] BY <1>5 DEF Errors!Append, Errors!Set
  <2> QED BY <2>1, <2>2, <2>3, <2>4, IdleIs, CurrentRows, CurrentMove
<1>6. CASE Errors!SaveRow(h)
  <2>1. p.pc = "save" /\ Errors!Found(h) /\ mapped' = mapped /\ error' = [error EXCEPT ![p.a] = p.copy]
    BY <1>1, <1>6 DEF Errors!SaveRow
  <2>2. p.a \in Attrs \ mapped /\ p.copy \in Errors!Error BY <1>2, <2>1, Places
  <2>3. error' \in [Attrs -> Errors!Error] /\ \A a \in mapped : error'[a] = error[a] BY <2>1, <2>2
  <2>4. handler'[h].pc = "look" /\ \A k \in Workers \ {h} : handler'[k] = handler[k]
    BY <1>1, <2>1, FoundIs
  <2> QED BY <2>1, <2>3, <2>4, CurrentRows, CurrentMove
<1>7. CASE Errors!Validated(h)
  <2>1. handler' = [handler EXCEPT ![h] = Errors!Idle] /\ mapped' = mapped /\ error' = error
    BY <1>7 DEF Errors!Validated, Errors!Set
  <2> QED BY <2>1, IdleIs, CurrentRows, CurrentMove
<1> QED BY <1>3, <1>4, <1>5, <1>6, <1>7 DEF Errors!Validation

LEMMA HandlerCurrent == ASSUME Typed, Current, NEW h \in Workers, Errors!Handler(h) PROVE Current'
<1> USE DEF Typed, Errors!TypeOK
<1>1. PICK p : p = handler[h] OBVIOUS
<1>2. CASE Errors!ChangeRead(h)
  <2>1. PICK from \in Errors!Listed(p.g) : handler' = [handler EXCEPT ![h] =
           [pc |-> "remove", g |-> p.g, new |-> p.new, copies |-> error, from |-> from]]
    BY <1>1, <1>2 DEF Errors!ChangeRead, Errors!Set
  <2>2. handler'[h].pc = "remove" BY <2>1
  <2>3. mapped' = mapped /\ error' = error BY <1>2 DEF Errors!ChangeRead
  <2> QED BY <2>1, <2>2, <2>3, CurrentRows, CurrentMove
<1>3. CASE Errors!ChangeWrite(h)
  <2>1. p.pc = "remove" /\ mapped' = mapped /\ handler' = [handler EXCEPT ![h] = Errors!Idle]
    BY <1>1, <1>3 DEF Errors!ChangeWrite, Errors!Set
  <2>2. error' \in [Attrs -> Errors!Error] BY <1>3, WriteIs
  <2>3. p.new \in Attrs BY <1>1, <2>1, Places
  <2>4. ~Gone(p) => Out(p) \in [Attrs -> Errors!Error] /\ \A a \in mapped : Out(p)[a].made => Out(p)[a].resolved
    BY <1>1, <2>1, CurrentRows, OutIs
  <2>5. \A a \in mapped : error'[a].made => error'[a].resolved
    <3>1. CASE error' = error BY <3>1, CurrentRows
    <3>2. CASE ~Gone(p) /\ error' = Out(p) BY <2>4, <3>2
    <3>3. ASSUME NEW e, ~Gone(p), p.new \notin mapped, error' = [Out(p) EXCEPT ![p.new] = e]
          PROVE  \A a \in mapped : error'[a].made => error'[a].resolved
      BY <2>3, <2>4, <3>3
    <3>4. p.new \in mapped /\ ~Gone(p) => ~(Out(p)[p.new].made /\ ~Out(p)[p.new].resolved)
      BY <2>4
    <3> QED BY <1>1, <1>3, <3>1, <3>2, <3>3, <3>4, WriteIs
  <2> QED BY <2>1, <2>2, <2>5, IdleIs, CurrentMove
<1> QED BY <1>2, <1>3 DEF Errors!Handler

LEMMA CurrentStep == ASSUME ~Beside PROVE Typed /\ Current /\ [Errors!Next]_Errors!vars => Current'
<1> SUFFICES ASSUME Typed, Current, [Errors!Next]_Errors!vars PROVE Current'
  OBVIOUS
<1> USE DEF Typed, Errors!TypeOK
<1>1. ASSUME NEW h \in Workers, NEW g \in Groups, Errors!Validate(h, g) PROVE Current'
  <2>1. PICK r : r = [pc |-> "look", g |-> g, todo |-> uses[g], found |-> {}] OBVIOUS
  <2>2. handler' = [handler EXCEPT ![h] = r] /\ mapped' = mapped /\ error' = error
    BY <1>1, <2>1 DEF Errors!Validate, Errors!Set
  <2> QED BY <2>1, <2>2, CurrentRows, CurrentMove
<1>2. ASSUME NEW h \in Workers, NEW g \in Groups, NEW old \in Attrs, NEW new \in Attrs,
             Errors!Change(h, g, old, new)
      PROVE  Current'
  <2>1. PICK r : r = [pc |-> "changed", g |-> g, new |-> new] OBVIOUS
  <2>2. handler' = [handler EXCEPT ![h] = r] /\ mapped' = mapped /\ error' = error
    BY <1>2, <2>1 DEF Errors!Change, Errors!Set
  <2> QED BY <2>1, <2>2, CurrentRows, CurrentMove
\* nobody is at work
<1>3. ASSUME Errors!AllIdle, UNCHANGED handler, \A a \in mapped' : error'[a].made => error'[a].resolved
      PROVE  Current'
  BY <1>3 DEF Errors!AllIdle, Current, Errors!Unresolved
<1>4. ASSUME NEW g \in Groups, Errors!DeleteGroup(g) PROVE Current'
  <2>1. Errors!AllIdle /\ UNCHANGED <<handler, mapped>> BY <1>4 DEF Errors!DeleteGroup
  <2> QED BY <1>3, <1>4, <2>1, CurrentRows, DeletedRows
<1>5. ASSUME NEW g \in Groups, Errors!RuleDelete(g) PROVE Current'
  <2>1. Errors!AllIdle /\ UNCHANGED <<handler, mapped, error>> BY <1>5 DEF Errors!RuleDelete
  <2> QED BY <1>3, <2>1, CurrentRows
<1>6. ASSUME NEW affected \in SUBSET Groups, NEW usable \in SUBSET Attrs,
             Errors!NewSettings(affected, usable)
      PROVE  Current'
  <2>1. Errors!AllIdle /\ UNCHANGED handler /\ mapped' \subseteq mapped
    BY <1>6 DEF Errors!NewSettings
  <2>2. \A a \in Attrs : error'[a].made => error[a].made /\ error'[a].resolved = error[a].resolved
    BY <1>6, ClearedRows
  <2> QED BY <1>3, <2>1, <2>2, CurrentRows
<1>7. ASSUME NEW a \in Attrs, Errors!Map(a) PROVE Current'
  <2>1. Errors!AllIdle /\ UNCHANGED handler /\ mapped' = mapped \cup {a} /\ error' = Errors!Resolved({a})
    BY <1>7 DEF Errors!Map
  <2> QED BY <1>3, <2>1, CurrentRows, ResolvedRows
<1>8. CASE Errors!ResolveJob BY <1>8 DEF Errors!ResolveJob, Errors!Resolvable, Current
<1>9. CASE UNCHANGED Errors!vars BY <1>9 DEF Errors!vars, Current, Errors!Unresolved
<1> QED BY <1>1, <1>2, <1>4, <1>5, <1>6, <1>7, <1>8, <1>9, ValidationCurrent, HandlerCurrent
        DEF Errors!Next, Errors!Act

LEMMA CurrentInit == Errors!Init => Current
  BY IdleIs DEF Errors!Init, Current, Errors!Unresolved, Errors!NoError

\* Unless somebody adds a mapping while a handler is at work, no mapped attribute has an
\* open error, whatever handlers overlap and whatever mappings new settings take away: so
\* no group waits for a mapping that is there, also without the daily job.
THEOREM AllResolved == ASSUME ~Beside PROVE Errors!Spec => []Errors!MappedIsResolved
<1>1. Typed /\ Current /\ [Errors!Next]_Errors!vars => Typed' /\ Current'
  BY TypedStep, CurrentStep
<1>2. Errors!Init => Typed /\ Current BY TypedInit, CurrentInit
<1>3. Current => Errors!MappedIsResolved BY DEF Current, Errors!MappedIsResolved
<1> QED BY <1>1, <1>2, <1>3, PTL DEF Errors!Spec
-----------------------------------------------------------------------------
(* Errors speak of groups that exist.                                      *)

\* All lists, also those of copies, have only groups that exist.
Exist      == {g \in Groups : uses[g] # {}}
AliveBy(p) ==
    /\ p.pc # "idle" => p.g \in Exist
    /\ p.pc \in {"append", "save"} => p.copy.ids \subseteq Exist
    /\ p.pc = "remove" => \A a \in Attrs : p.copies[a].ids \subseteq Exist
Alive ==
    /\ \A a \in Attrs : error[a].ids \subseteq Exist
    /\ \A h \in Workers : AliveBy(handler[h])

\* A step of a process that deletes no group.
LEMMA AliveMove ==
  ASSUME Alive, NEW h \in Workers, \A k \in Workers \ {h} : handler'[k] = handler[k],
         Exist \subseteq Exist', \A a \in Attrs : error'[a].ids \subseteq Exist,
         AliveBy(handler'[h])
  PROVE  Alive'
  BY DEF Alive, AliveBy

LEMMA ValidationAlive == ASSUME Typed, Alive, NEW h \in Workers, Errors!Validation(h) PROVE Alive'
<1> USE DEF Typed, Errors!TypeOK
<1>1. PICK p : p = handler[h] OBVIOUS
<1>2. p \in Errors!Proc /\ AliveBy(p) /\ \A a \in Attrs : error[a].ids \subseteq Exist
  BY <1>1 DEF Alive
<1>3. uses' = uses /\ Exist' = Exist
  BY DEF Errors!Validation, Errors!Look, Errors!Get, Errors!Append, Errors!SaveRow,
      Errors!Validated, Exist
<1>4. ASSUME NEW a \in Attrs, Errors!Look(h, a) PROVE Alive'
  <2>1. p.pc = "look" /\ p \in LooksAt /\ error' = error
    BY <1>1, <1>2, <1>4, PlaceOf DEF Errors!Look
  <2>2. PICK r : r = IF a \in mapped THEN [p EXCEPT !.todo = @ \ {a}]
                     ELSE [pc |-> "get", g |-> p.g, todo |-> p.todo \ {a}, found |-> p.found, a |-> a]
    OBVIOUS
  <2>3. handler' = [handler EXCEPT ![h] = r] BY <1>1, <1>4, <2>2 DEF Errors!Look, Errors!Set
  <2>4. r.pc \in {"look", "get"} /\ r.g = p.g BY <2>1, <2>2 DEF LooksAt
  <2>5. AliveBy(r) BY <1>2, <2>1, <2>4 DEF AliveBy
  <2> QED BY <1>2, <1>3, <2>1, <2>3, <2>5, AliveMove
\* the process goes on with its group
<1>5. ASSUME p.pc # "idle", Errors!Found(h), p.pc \in {"get", "append", "save"},
             \A a \in Attrs : error'[a].ids \subseteq Exist
      PROVE  Alive'
  <2>1. PICK r : r = handler'[h] OBVIOUS
  <2>2. r.pc = "look" /\ r.g = p.g /\ \A k \in Workers \ {h} : handler'[k] = handler[k]
    <3>1. r = [pc |-> "look", g |-> p.g, todo |-> p.todo, found |-> p.found \cup {p.a}]
      BY <1>1, <1>5, <2>1, FoundIs
    <3>2. \A k \in Workers \ {h} : handler'[k] = handler[k] BY <1>1, <1>5, FoundIs
    <3> QED BY <3>1, <3>2
  <2>3. AliveBy(r) BY <1>2, <1>5, <2>2 DEF AliveBy
  <2> QED BY <1>3, <1>5, <2>1, <2>2, <2>3, AliveMove
<1>6. CASE Errors!Get(h)
  <2>1. p.pc = "get" BY <1>1, <1>6 DEF Errors!Get
  <2>2. p.g \in Exist /\ p.g \in Groups /\ p.a \in Attrs BY <1>2, <2>1, Places DEF AliveBy
  <2>3. CASE error[p.a].made
    <3>1. PICK r : r = [pc |-> IF p.g \in error[p.a].ids THEN "save" ELSE "append", g |-> p.g,
                        todo |-> p.todo, found |-> p.found, a |-> p.a, copy |-> error[p.a]]
      OBVIOUS
    <3>2. handler' = [handler EXCEPT ![h] = r] /\ error' = error
      BY <1>1, <1>6, <2>3, <3>1 DEF Errors!Get, Errors!Set
    <3>3. AliveBy(r) BY <1>2, <2>2, <3>1 DEF AliveBy
    <3> QED BY <1>2, <1>3, <3>2, <3>3, AliveMove
  <2>4. CASE ~error[p.a].made
    <3>1. Errors!Found(h) /\ error' = [error EXCEPT ![p.a] = [made |-> TRUE, ids |-> {p.g}, resolved |-> FALSE]]
      BY <1>1, <1>6, <2>4 DEF Errors!Get
    <3>2. \A a \in Attrs : error'[a].ids \subseteq Exist BY <1>2, <2>2, <3>1
    <3> QED BY <1>5, <2>1, <3>1, <3>2
  <2> QED BY <2>3, <2>4
<1>7. CASE Errors!Append(h)
  <2>1. p.pc = "append" BY <1>1, <1>7 DEF Errors!Append
  <2>2. p.g \in Exist /\ p.copy.ids \subseteq Exist BY <1>2, <2>1 DEF AliveBy
  <2>3. PICK r : r = handler'[h] OBVIOUS
  <2>4. \A k \in Workers \ {h} : handler'[k] = handler[k] BY <1>7 DEF Errors!Append, Errors!Set
  <2>5. \A a \in Attrs : a # p.a => error'[a] = error[a] BY <1>1, <1>7, AppendIs
  <2>6. CASE /\ error'[p.a].ids = p.copy.ids \cup {p.g} /\ r.pc = "save" /\ r.g = p.g
             /\ r.copy.ids = p.copy.ids \cup {p.g}
    <3>1. \A a \in Attrs : error'[a].ids \subseteq Exist BY <1>2, <2>2, <2>5, <2>6
    <3>2. AliveBy(r) BY <2>2, <2>6 DEF AliveBy
    <3> QED BY <1>3, <2>3, <2>4, <3>1, <3>2, AliveMove
  <2>7. CASE error' = error /\ r = Errors!Idle
    <3>1. AliveBy(r) BY <2>7, IdleIs DEF AliveBy
    <3> QED BY <1>2, <1>3, <2>3, <2>4, <2>7, <3>1, AliveMove
  <2> QED BY <1>1, <1>7, <2>3, <2>6, <2>7, AppendIs
<1>8. CASE Errors!SaveRow(h)
  <2>1. p.pc = "save" /\ Errors!Found(h) /\ error' = [error EXCEPT ![p.a] = p.copy]
    BY <1>1, <1>8 DEF Errors!SaveRow
  <2>2. p.copy.ids \subseteq Exist BY <1>2, <2>1 DEF AliveBy
  <2>3. \A a \in Attrs : error'[a].ids \subseteq Exist BY <1>2, <2>1, <2>2
  <2> QED BY <1>5, <2>1, <2>3
<1>9. CASE Errors!Validated(h)
  <2>1. handler' = [handler EXCEPT ![h] = Errors!Idle] /\ error' = error
    BY <1>9 DEF Errors!Validated, Errors!Set
  <2>2. AliveBy(Errors!Idle) BY IdleIs DEF AliveBy
  <2> QED BY <1>2, <1>3, <2>1, <2>2, AliveMove
<1> QED BY <1>4, <1>6, <1>7, <1>8, <1>9 DEF Errors!Validation

LEMMA HandlerAlive == ASSUME Typed, Alive, NEW h \in Workers, Errors!Handler(h) PROVE Alive'
<1> USE DEF Typed, Errors!TypeOK
<1>1. PICK p : p = handler[h] OBVIOUS
<1>2. p \in Errors!Proc /\ AliveBy(p) /\ \A a \in Attrs : error[a].ids \subseteq Exist
  BY <1>1 DEF Alive
<1>3. uses' = uses /\ Exist' = Exist
  BY DEF Errors!Handler, Errors!ChangeRead, Errors!ChangeWrite, Exist
<1>4. CASE Errors!ChangeRead(h)
  <2>1. PICK from \in Errors!Listed(p.g) : handler' = [handler EXCEPT ![h] =
           [pc |-> "remove", g |-> p.g, new |-> p.new, copies |-> error, from |-> from]]
    BY <1>1, <1>4 DEF Errors!ChangeRead, Errors!Set
  <2>2. p.pc = "changed" /\ error' = error BY <1>1, <1>4 DEF Errors!ChangeRead
  <2>3. PICK r : r = handler'[h] OBVIOUS
  <2>4. r.pc = "remove" /\ r.g = p.g /\ r.copies = error BY <2>1, <2>3
  <2>5. AliveBy(r) BY <1>2, <2>2, <2>4 DEF AliveBy
  <2> QED BY <1>2, <1>3, <2>1, <2>2, <2>3, <2>5, AliveMove
<1>5. CASE Errors!ChangeWrite(h)
  <2>1. p.pc = "remove" /\ handler' = [handler EXCEPT ![h] = Errors!Idle]
    BY <1>1, <1>5 DEF Errors!ChangeWrite, Errors!Set
  <2>2. p.g \in Exist /\ \A a \in Attrs : p.copies[a].ids \subseteq Exist
    BY <1>2, <2>1 DEF AliveBy
  <2>3. p.new \in Attrs /\ p.g \in Groups BY <1>2, <2>1, Places
  <2>4. ~Gone(p) => Out(p) \in [Attrs -> Errors!Error] /\ \A a \in Attrs : Out(p)[a].ids \subseteq Exist
    BY <1>1, <1>2, <2>1, <2>2, OutIs
  <2>5. ~Gone(p) /\ Out(p)[p.new].made =>
          [Out(p)[p.new] EXCEPT !.ids = Out(p)[p.new].ids \cup {p.g}].ids = Out(p)[p.new].ids \cup {p.g}
    <3>1. PICK o, ids : o = Out(p)[p.new] /\ ids = o.ids \cup {p.g} OBVIOUS
    <3>2. ~Gone(p) => o \in Errors!Error BY <2>3, <2>4, <3>1
    <3>3. o \in Errors!Error => ids \in SUBSET Groups /\ ids # {} BY <2>3, <3>1, ErrorIs
    <3> QED BY <3>1, <3>2, <3>3, IdsSet
  <2>6. \A a \in Attrs : error'[a].ids \subseteq Exist
    <3>1. CASE error' = error BY <1>2, <3>1
    <3>2. CASE ~Gone(p) /\ error' = Out(p) BY <2>4, <3>2
    <3>3. ASSUME NEW e, ~Gone(p), e.ids \subseteq Exist, error' = [Out(p) EXCEPT ![p.new] = e]
          PROVE  \A a \in Attrs : error'[a].ids \subseteq Exist
      BY <2>3, <2>4, <3>3
    <3>4. New(p).ids \subseteq Exist BY <2>2 DEF New
    <3>5. ~Gone(p) => Out(p)[p.new].ids \cup {p.g} \subseteq Exist BY <2>2, <2>3, <2>4
    <3> QED BY <1>1, <1>5, <2>5, <3>1, <3>2, <3>3, <3>4, <3>5, WriteIs
  <2>7. AliveBy(Errors!Idle) BY IdleIs DEF AliveBy
  <2> QED BY <1>3, <2>1, <2>6, <2>7, AliveMove
<1> QED BY <1>4, <1>5 DEF Errors!Handler

LEMMA AliveStep == ASSUME ~Rules PROVE Typed /\ Alive /\ [Errors!Next]_Errors!vars => Alive'
<1> SUFFICES ASSUME Typed, Alive, [Errors!Next]_Errors!vars PROVE Alive'
  OBVIOUS
<1> USE DEF Typed, Errors!TypeOK
<1>0. \A a \in Attrs : error[a].ids \subseteq Exist BY DEF Alive
<1>1. ASSUME NEW h \in Workers, NEW g \in Groups, Errors!Validate(h, g) PROVE Alive'
  <2>1. PICK r : r = [pc |-> "look", g |-> g, todo |-> uses[g], found |-> {}] OBVIOUS
  <2>2. handler' = [handler EXCEPT ![h] = r] /\ uses' = uses /\ error' = error /\ g \in Exist
    BY <1>1, <2>1 DEF Errors!Validate, Errors!Set, Exist
  <2>3. AliveBy(r) /\ Exist' = Exist BY <2>1, <2>2 DEF AliveBy, Exist
  <2> QED BY <1>0, <2>2, <2>3, AliveMove
<1>2. ASSUME NEW h \in Workers, NEW g \in Groups, NEW old \in Attrs, NEW new \in Attrs,
             Errors!Change(h, g, old, new)
      PROVE  Alive'
  <2>1. PICK r : r = [pc |-> "changed", g |-> g, new |-> new] OBVIOUS
  <2>2. handler' = [handler EXCEPT ![h] = r] /\ error' = error /\ g \in Exist
        /\ uses' = [uses EXCEPT ![g] = (@ \ {old}) \cup {new}]
    BY <1>2, <2>1 DEF Errors!Change, Errors!Set, Exist
  <2>3. AliveBy(r) BY <2>1, <2>2 DEF AliveBy
  <2>4. Exist \subseteq Exist' BY <2>2 DEF Exist
  <2> QED BY <1>0, <2>2, <2>3, <2>4, AliveMove
\* nobody is at work
<1>3. ASSUME Errors!AllIdle, UNCHANGED handler, \A a \in Attrs : error'[a].ids \subseteq Exist' PROVE Alive'
  BY <1>3 DEF Errors!AllIdle, Alive, AliveBy
<1>4. ASSUME NEW g \in Groups, Errors!DeleteGroup(g) PROVE Alive'
  <2>1. Errors!AllIdle /\ UNCHANGED handler /\ uses' = [uses EXCEPT ![g] = {}]
    BY <1>4 DEF Errors!DeleteGroup
  <2>2. Exist' = Exist \ {g} BY <2>1 DEF Exist
  <2> QED BY <1>0, <1>3, <1>4, <2>1, <2>2, DeletedRows
<1>5. ASSUME NEW affected \in SUBSET Groups, NEW usable \in SUBSET Attrs,
             Errors!NewSettings(affected, usable)
      PROVE  Alive'
  <2>1. Errors!AllIdle /\ UNCHANGED handler /\ Exist' = Exist
    BY <1>5 DEF Errors!NewSettings, Exist
  <2>2. \A a \in Attrs : error'[a].ids \subseteq error[a].ids BY <1>5, ClearedRows
  <2> QED BY <1>0, <1>3, <2>1, <2>2
\* the lists stay as they are
<1>6. ASSUME UNCHANGED <<handler, uses>>, \A a \in Attrs : error'[a].ids = error[a].ids PROVE Alive'
  BY <1>6 DEF Alive, AliveBy, Exist
<1>7. ASSUME NEW a \in Attrs, Errors!Map(a) PROVE Alive'
  BY <1>6, <1>7, ResolvedRows DEF Errors!Map
<1>8. CASE Errors!ResolveJob BY <1>6, <1>8, ResolvedRows DEF Errors!ResolveJob
<1>9. CASE UNCHANGED Errors!vars BY <1>6, <1>9 DEF Errors!vars
<1> QED BY <1>1, <1>2, <1>4, <1>5, <1>7, <1>8, <1>9, ValidationAlive, HandlerAlive
        DEF Errors!Next, Errors!Act, Errors!RuleDelete

LEMMA AliveInit == Errors!Init => Alive
<1> SUFFICES ASSUME Errors!Init PROVE Alive
  OBVIOUS
<1>1. \A h \in Workers : AliveBy(handler[h]) BY IdleIs DEF Errors!Init, AliveBy
<1>2. \A a \in Attrs : error[a].ids = {} BY DEF Errors!Init, Errors!NoError
<1> QED BY <1>1, <1>2 DEF Alive

\* Without skip rules every error that is open has a group that still exists, whatever
\* handlers overlap: a user can do something about it.
THEOREM NoOrphans == ASSUME ~Rules PROVE Errors!Spec => []Errors!NoOrphanError
<1>1. Typed /\ Alive /\ [Errors!Next]_Errors!vars => Typed' /\ Alive' BY TypedStep, AliveStep
<1>2. Errors!Init => Typed /\ Alive BY TypedInit, AliveInit
<1>3. Typed /\ Alive => Errors!NoOrphanError
  <2> SUFFICES ASSUME Typed, Alive, NEW a \in Errors!Unresolved PROVE \E g \in error[a].ids : uses[g] # {}
    BY DEF Errors!NoOrphanError
  <2>1. error[a].ids # {} /\ error[a].ids \subseteq Exist
    BY ErrorIs DEF Errors!Unresolved, Typed, Errors!TypeOK, Alive
  <2> QED BY <2>1 DEF Exist
<1> QED BY <1>1, <1>2, <1>3, PTL DEF Errors!Spec
-----------------------------------------------------------------------------
(* Groups are blocked for mappings that they miss.                         *)

Lists(a, g) == a \in Errors!Unresolved /\ g \in error[a].ids

\* The category of the group was changed, and its errors have yet to be.
Moves(p) == p.pc \in {"changed", "remove"}

\* A group uses one attribute of a kind; but for a group on the move, the open error that
\* lists it is that of the attribute; and the mapping of a resolved error is there.
FitsBy(p) ==
    /\ p.pc \in {"look", "get", "append", "save"} => p.todo \subseteq uses[p.g]
    /\ p.pc \in {"get", "append", "save"} => p.a \in uses[p.g]
    /\ p.pc \in {"append", "save"} => p.copy.resolved = error[p.a].resolved
    /\ Moves(p) =>
          /\ uses[p.g] = {p.new}
          /\ \A a, b \in Attrs : Lists(a, p.g) /\ Lists(b, p.g) => a = b
          /\ ~Lists(p.new, p.g)
    /\ p.pc = "remove" => p.from = {a \in Attrs : Lists(a, p.g)}
Fitting ==
    /\ \A g \in Groups : \A a, b \in uses[g] : a = b
    /\ \A a \in Attrs : error[a].made /\ error[a].resolved => a \in mapped
    /\ \A a \in Attrs, g \in Groups : Lists(a, g) /\ uses[g] # {} =>
          a \in uses[g] \/ \E h \in Workers : Moves(handler[h]) /\ handler[h].g = g
    /\ \A h \in Workers : FitsBy(handler[h])

\* A step of a validation, which lists its group for an attribute of the group.
LEMMA FitMove ==
  ASSUME OneWorker, Fitting, NEW h \in Workers, ~Moves(handler[h]), ~Moves(handler'[h]),
         uses' = uses, mapped' = mapped,
         \A a \in Attrs, g \in Groups : Lists(a, g)' => Lists(a, g) \/ a \in uses[g],
         \A a \in Attrs : error'[a].made /\ error'[a].resolved => a \in mapped,
         FitsBy(handler[h])'
  PROVE  Fitting'
<1>1. \A k \in Workers : k = h BY DEF OneWorker
<1> QED BY <1>1 DEF Fitting

LEMMA ValidationFits ==
  ASSUME Typed, OneWorker, Heard, Fitting, NEW h \in Workers, Errors!Validation(h)
  PROVE  Fitting'
<1> USE DEF Typed, Errors!TypeOK
<1>1. PICK p : p = handler[h] OBVIOUS
<1>2. /\ p \in Errors!Proc /\ FitsBy(p) /\ HeardBy(p)
      /\ \A a \in Attrs : error[a].made /\ error[a].resolved => a \in mapped
  BY <1>1 DEF Fitting, Heard, HeardBy
<1>3. UNCHANGED <<uses, mapped>> /\ p.pc \in {"look", "get", "append", "save"}
  BY <1>1 DEF Errors!Validation, Errors!Look, Errors!Get, Errors!Append, Errors!SaveRow,
      Errors!Validated
<1>4. ASSUME NEW a \in Attrs, Errors!Look(h, a) PROVE Fitting'
  <2>1. p.pc = "look" /\ p \in LooksAt /\ error' = error /\ a \in p.todo
    BY <1>1, <1>2, <1>4, PlaceOf DEF Errors!Look
  <2>2. PICK r : r = IF a \in mapped THEN [p EXCEPT !.todo = @ \ {a}]
                     ELSE [pc |-> "get", g |-> p.g, todo |-> p.todo \ {a}, found |-> p.found, a |-> a]
    OBVIOUS
  <2>3. handler'[h] = r BY <1>1, <1>4, <2>2 DEF Errors!Look, Errors!Set
  <2>4. /\ r.pc \in {"look", "get"} /\ r.g = p.g /\ r.todo = p.todo \ {a}
        /\ r.pc = "get" => r.a = a
    BY <2>1, <2>2 DEF LooksAt
  <2>5. FitsBy(r)' BY <1>2, <1>3, <2>1, <2>4 DEF FitsBy, Moves
  <2> QED BY <1>1, <1>2, <1>3, <2>1, <2>3, <2>4, <2>5, FitMove DEF Moves, Lists, Errors!Unresolved
\* the attribute is found
<1>5. ASSUME p.pc \in {"get", "append", "save"}, Errors!Found(h),
             \A a \in Attrs, g \in Groups : Lists(a, g)' => Lists(a, g) \/ a \in uses[g],
             \A a \in Attrs : error'[a].made /\ error'[a].resolved => a \in mapped
      PROVE  Fitting'
  <2>1. PICK r : r = handler'[h] OBVIOUS
  <2>2. r = [pc |-> "look", g |-> p.g, todo |-> p.todo, found |-> p.found \cup {p.a}]
    BY <1>1, <1>5, <2>1, FoundIs
  <2>3. FitsBy(r)' /\ ~Moves(r) BY <1>2, <1>3, <1>5, <2>2 DEF FitsBy, Moves
  <2>4. ~Moves(p) BY <1>5 DEF Moves
  <2> QED BY <1>1, <1>3, <1>5, <2>1, <2>3, <2>4, FitMove
<1>6. CASE Errors!Get(h)
  <2>1. p.pc = "get" BY <1>1, <1>6 DEF Errors!Get
  <2>2. p.g \in Groups /\ p.a \in Attrs /\ p.a \in uses[p.g] BY <1>2, <2>1, Places DEF FitsBy
  <2>3. CASE error[p.a].made
    <3>1. PICK r : r = [pc |-> IF p.g \in error[p.a].ids THEN "save" ELSE "append", g |-> p.g,
                        todo |-> p.todo, found |-> p.found, a |-> p.a, copy |-> error[p.a]]
      OBVIOUS
    <3>2. handler'[h] = r /\ error' = error BY <1>1, <1>6, <2>3, <3>1 DEF Errors!Get, Errors!Set
    <3>3. FitsBy(r)' BY <1>2, <1>3, <2>1, <3>1, <3>2 DEF FitsBy, Moves
    <3> QED BY <1>1, <1>2, <1>3, <3>1, <3>2, <3>3, FitMove DEF Moves, Lists, Errors!Unresolved
  <2>4. CASE ~error[p.a].made
    <3>1. Errors!Found(h) /\ error' = [error EXCEPT ![p.a] = [made |-> TRUE, ids |-> {p.g}, resolved |-> FALSE]]
      BY <1>1, <1>6, <2>4 DEF Errors!Get
    <3>2. \A a \in Attrs, g \in Groups : Lists(a, g)' => Lists(a, g) \/ a \in uses[g]
      BY <2>2, <3>1 DEF Lists, Errors!Unresolved
    <3>3. \A a \in Attrs : error'[a].made /\ error'[a].resolved => a \in mapped
      BY <1>2, <2>2, <3>1
    <3> QED BY <1>5, <2>1, <3>1, <3>2, <3>3
  <2> QED BY <2>3, <2>4
<1>7. CASE Errors!Append(h)
  <2>1. p.pc = "append" BY <1>1, <1>7 DEF Errors!Append
  <2>2. /\ p.a \in Attrs /\ p.a \in uses[p.g] /\ p.copy.ids = error[p.a].ids /\ error[p.a] \in Errors!Error
        /\ p.copy.made /\ p.copy \in Errors!Error
    BY <1>1, <1>2, <2>1, Places DEF FitsBy, HeardBy, Fits
  <2>3. error[p.a].made BY <2>2, ErrorIs
  <2>4. PICK r : r = handler'[h] OBVIOUS
  <2>5. /\ \A a \in Attrs : a # p.a => error'[a] = error[a]
        /\ error'[p.a].made /\ error'[p.a].ids = p.copy.ids \cup {p.g}
        /\ error'[p.a].resolved = error[p.a].resolved
        /\ r.pc = "save" /\ r.g = p.g /\ r.todo = p.todo /\ r.a = p.a
        /\ r.copy.resolved = p.copy.resolved
    BY <1>1, <1>7, <2>3, <2>4, AppendIs
  <2>6. \A a \in Attrs, g \in Groups : Lists(a, g)' => Lists(a, g) \/ a \in uses[g]
    BY <2>2, <2>3, <2>5 DEF Lists, Errors!Unresolved
  <2>7. \A a \in Attrs : error'[a].made /\ error'[a].resolved => a \in mapped
    BY <1>2, <2>2, <2>3, <2>5
  <2>8. FitsBy(r)' BY <1>2, <1>3, <2>1, <2>2, <2>5 DEF FitsBy, Moves
  <2> QED BY <1>1, <1>3, <2>4, <2>5, <2>6, <2>7, <2>8, FitMove DEF Moves
<1>8. CASE Errors!SaveRow(h)
  <2>1. p.pc = "save" /\ Errors!Found(h) /\ error' = [error EXCEPT ![p.a] = p.copy]
    BY <1>1, <1>8 DEF Errors!SaveRow
  <2>2. /\ p.a \in Attrs /\ p.copy.ids = error[p.a].ids /\ error[p.a] \in Errors!Error
        /\ p.copy.made /\ p.copy \in Errors!Error /\ p.copy.resolved = error[p.a].resolved
    BY <1>1, <1>2, <2>1, Places DEF FitsBy, HeardBy, Fits
  <2>3. error[p.a].made BY <2>2, ErrorIs
  <2>4. /\ \A a \in Attrs : a # p.a => error'[a] = error[a]
        /\ error'[p.a] = p.copy
    BY <2>1, <2>2
  <2>5. \A a \in Attrs, g \in Groups : Lists(a, g)' => Lists(a, g)
    BY <2>2, <2>3, <2>4 DEF Lists, Errors!Unresolved
  <2>6. \A a \in Attrs : error'[a].made /\ error'[a].resolved => a \in mapped
    BY <1>2, <2>2, <2>3, <2>4
  <2> QED BY <1>5, <2>1, <2>5, <2>6
<1>9. CASE Errors!Validated(h)
  <2>1. handler'[h] = Errors!Idle /\ error' = error BY <1>9 DEF Errors!Validated, Errors!Set
  <2>2. FitsBy(Errors!Idle)' BY IdleIs DEF FitsBy, Moves
  <2> QED BY <1>1, <1>2, <1>3, <2>1, <2>2, IdleIs, FitMove DEF Moves, Lists, Errors!Unresolved
<1> QED BY <1>4, <1>6, <1>7, <1>8, <1>9 DEF Errors!Validation

LEMMA HandlerFits ==
  ASSUME Typed, OneWorker, Heard, Current, Fitting, ~Shrinks, NEW h \in Workers, Errors!Handler(h)
  PROVE  Fitting'
<1> USE DEF Typed, Errors!TypeOK
<1>1. PICK p : p = handler[h] OBVIOUS
<1>2. /\ p \in Errors!Proc /\ FitsBy(p) /\ HeardBy(p)
      /\ \A a \in Attrs : error[a].made /\ error[a].resolved => a \in mapped
  BY <1>1 DEF Fitting, Heard, HeardBy
<1>3. \A k \in Workers : k = h BY DEF OneWorker
<1>4. UNCHANGED <<uses, mapped>> BY DEF Errors!Handler, Errors!ChangeRead, Errors!ChangeWrite
<1>5. CASE Errors!ChangeRead(h)
  <2>1. PICK from \in Errors!Listed(p.g) : handler'[h] =
           [pc |-> "remove", g |-> p.g, new |-> p.new, copies |-> error, from |-> from]
    BY <1>1, <1>5 DEF Errors!ChangeRead, Errors!Set
  <2>2. p.pc = "changed" /\ error' = error BY <1>1, <1>5 DEF Errors!ChangeRead
  <2>3. \A a \in Attrs, g \in Groups : Lists(a, g)' = Lists(a, g)
    BY <2>2 DEF Lists, Errors!Unresolved
  <2>4. \A a, b \in Attrs : Lists(a, p.g) /\ Lists(b, p.g) => a = b
    BY <1>2, <2>2 DEF FitsBy, Moves
  <2>5. from = {a \in Attrs : Lists(a, p.g)}
    BY <2>4 DEF Errors!Listed, Lists, Errors!Unresolved
  <2>6. p.g \in Groups BY <1>2, <2>2, Places
  <2>7. PICK r : r = handler'[h] OBVIOUS
  <2>8. /\ r.pc = "remove" /\ r.g = p.g /\ r.new = p.new
        /\ r.from = {a \in Attrs : Lists(a, p.g)}
    BY <2>1, <2>5, <2>7
  <2>9. FitsBy(r)' BY <1>2, <1>4, <2>2, <2>3, <2>6, <2>8, Places DEF FitsBy, Moves
  <2>10. \E k \in Workers : Moves(handler[k])' /\ handler'[k].g = p.g BY <2>7, <2>8 DEF Moves
  <2>11. \A a \in Attrs, g \in Groups : Lists(a, g) /\ uses[g] # {} => a \in uses[g] \/ g = p.g
    BY <1>1, <1>3 DEF Fitting
  <2> QED BY <1>2, <1>3, <1>4, <2>2, <2>3, <2>7, <2>9, <2>10, <2>11 DEF Fitting
<1>6. CASE Errors!ChangeWrite(h)
  <2>1. p.pc = "remove" /\ handler'[h] = Errors!Idle
    BY <1>1, <1>6 DEF Errors!ChangeWrite, Errors!Set
  <2>2. /\ p.from = {a \in Attrs : Lists(a, p.g)} /\ ~Lists(p.new, p.g)
        /\ uses[p.g] = {p.new} /\ \A a \in Attrs : p.copies[a].ids = error[a].ids
    BY <1>2, <2>1 DEF FitsBy, HeardBy, Moves
  <2>3. p.new \in Attrs /\ p.g \in Groups BY <1>2, <2>1, Places
  <2>4. ~Gone(p) BY <2>2 DEF Gone, Lists, Errors!Unresolved
  \* the rows without the group
  <2>5. PICK out : out = Out(p) OBVIOUS
  <2>6. out \in [Attrs -> Errors!Error] /\ out[p.new] = error[p.new]
    BY <1>1, <2>1, <2>2, <2>3, <2>4, <2>5, OutIs
  <2>7. \A a \in Attrs : /\ out[a].made => error[a].made /\ out[a].resolved = error[a].resolved
                         /\ out[a].ids \subseteq error[a].ids
                         /\ a \in p.from => p.g \notin out[a].ids
    <3>1. \A a \in Attrs \ p.from : out[a] = error[a] BY <1>1, <2>1, <2>4, <2>5, OutIs
    <3>2. \A a \in p.from : /\ out[a].ids = error[a].ids \ {p.g}
                            /\ out[a].made => error[a].made /\ out[a].resolved = error[a].resolved
      BY <1>1, <2>1, <2>2, <2>4, <2>5, OutIs
    <3> QED BY <3>1, <3>2
  <2>8. \A a \in Attrs, g \in Groups :
          out[a].made /\ ~out[a].resolved /\ g \in out[a].ids => Lists(a, g) /\ g # p.g
    BY <2>2, <2>7 DEF Lists, Errors!Unresolved
  <2>9. \A a \in Attrs : out[a].made /\ out[a].resolved => a \in mapped BY <1>2, <2>7
  \* and with it in the error of its new category, if it has none yet
  <2>10. \/ error' = out
         \/ \E e : /\ error' = [out EXCEPT ![p.new] = e] /\ e.made /\ ~e.resolved
                   /\ out[p.new].made => ~out[p.new].resolved
                   /\ e.ids \subseteq out[p.new].ids \cup {p.g}
    <3>1. ~(p.new \notin mapped /\ out[p.new].made /\ out[p.new].resolved) BY <2>3, <2>9
    <3>2. CASE out[p.new].made /\ ~out[p.new].resolved
               /\ error' = [out EXCEPT ![p.new] =
                              [out[p.new] EXCEPT !.ids = out[p.new].ids \cup {p.g}]]
      <4>1. PICK o, ids : o = out[p.new] /\ ids = o.ids \cup {p.g} OBVIOUS
      <4>2. o \in Errors!Error /\ ids \in SUBSET Groups /\ ids # {} BY <2>3, <2>6, <4>1, ErrorIs
      <4>3. PICK e : e = [o EXCEPT !.ids = ids] OBVIOUS
      <4>4. e.made /\ ~e.resolved /\ e.ids = ids BY <3>2, <4>1, <4>2, <4>3, IdsSet
      <4> QED BY <3>2, <4>1, <4>3, <4>4
    <3>3. New(p).made /\ ~New(p).resolved /\ New(p).ids = {p.g} BY DEF New
    <3> QED BY <1>1, <1>6, <2>4, <2>5, <3>1, <3>2, <3>3, WriteIs
  <2>11. \A a \in Attrs, g \in Groups : Lists(a, g)' =>
           (Lists(a, g) /\ g # p.g) \/ (a = p.new /\ g = p.g)
    <3>1. CASE error' = out BY <2>8, <3>1 DEF Lists, Errors!Unresolved
    <3>2. ASSUME NEW e, error' = [out EXCEPT ![p.new] = e], e.made, ~e.resolved,
                 out[p.new].made => ~out[p.new].resolved,
                 e.ids \subseteq out[p.new].ids \cup {p.g},
                 NEW a \in Attrs, NEW g \in Groups, Lists(a, g)'
          PROVE  (Lists(a, g) /\ g # p.g) \/ (a = p.new /\ g = p.g)
      <4>1. CASE a # p.new BY <2>6, <2>8, <3>2, <4>1 DEF Lists, Errors!Unresolved
      <4>2. CASE a = p.new /\ g # p.g
        <5>1. g \in out[p.new].ids BY <2>3, <2>6, <3>2, <4>2 DEF Lists
        <5>2. out[p.new].made BY <2>3, <2>6, <5>1, ErrorIs
        <5> QED BY <2>3, <2>8, <3>2, <4>2, <5>1, <5>2
      <4> QED BY <4>1, <4>2
    <3> QED BY <2>10, <3>1, <3>2
  <2>12. \A a \in Attrs : error'[a].made /\ error'[a].resolved => a \in mapped
    BY <2>6, <2>9, <2>10
  <2>13. FitsBy(Errors!Idle)' BY IdleIs DEF FitsBy, Moves
  <2> QED BY <1>1, <1>3, <1>4, <2>1, <2>2, <2>3, <2>11, <2>12, <2>13 DEF Fitting
<1> QED BY <1>5, <1>6 DEF Errors!Handler

\* Nobody is at work: only lists and uses may shrink, and mappings appear.
LEMMA FitQuiet ==
  ASSUME Fitting, Errors!AllIdle, UNCHANGED handler, mapped \subseteq mapped',
         \A g \in Groups : uses'[g] \in {uses[g], {}},
         \A a \in Attrs, g \in Groups : Lists(a, g)' => Lists(a, g),
         \A a \in Attrs : error'[a].made /\ error'[a].resolved => a \in mapped'
  PROVE  Fitting'
<1>1. \A h \in Workers : FitsBy(handler[h])' /\ ~Moves(handler[h])
  BY DEF Errors!AllIdle, FitsBy, Moves
<1>2. \A g \in Groups : \A a, b \in uses'[g] : a = b BY DEF Fitting
<1>3. \A a \in Attrs, g \in Groups : Lists(a, g)' /\ uses'[g] # {} => a \in uses'[g]
  BY <1>1 DEF Fitting
<1> QED BY <1>1, <1>2, <1>3 DEF Fitting

LEMMA FittingStep ==
  ASSUME OneWorker, ~Beside, ~Shrinks
  PROVE  Typed /\ Heard /\ Current /\ Fitting /\ [Errors!Next]_Errors!vars => Fitting'
<1> SUFFICES ASSUME Typed, Heard, Current, Fitting, [Errors!Next]_Errors!vars PROVE Fitting'
  OBVIOUS
<1> USE DEF Typed, Errors!TypeOK
<1>0. \A a \in Attrs : error[a].made /\ error[a].resolved => a \in mapped BY DEF Fitting
<1>1. ASSUME NEW h \in Workers, NEW g \in Groups, Errors!Validate(h, g) PROVE Fitting'
  <2>1. PICK r : r = [pc |-> "look", g |-> g, todo |-> uses[g], found |-> {}] OBVIOUS
  <2>2. handler[h].pc = "idle" /\ handler'[h] = r /\ UNCHANGED <<uses, mapped, error>>
    BY <1>1, <2>1 DEF Errors!Validate, Errors!Set
  <2>3. FitsBy(r)' /\ ~Moves(r) BY <2>1, <2>2 DEF FitsBy, Moves
  <2> QED BY <1>0, <2>2, <2>3, FitMove DEF Moves, Lists, Errors!Unresolved
<1>2. ASSUME NEW h \in Workers, NEW g \in Groups, NEW old \in Attrs, NEW new \in Attrs,
             Errors!Change(h, g, old, new)
      PROVE  Fitting'
  <2>1. PICK r : r = [pc |-> "changed", g |-> g, new |-> new] OBVIOUS
  <2>2. /\ handler'[h] = r /\ UNCHANGED <<mapped, error>> /\ Errors!AllIdle
        /\ old \in uses[g] /\ new \notin uses[g]
        /\ uses' = [uses EXCEPT ![g] = (uses[g] \ {old}) \cup {new}]
    BY <1>2, <2>1 DEF Errors!Change, Errors!Set
  <2>3. uses[g] = {old} BY <2>2 DEF Fitting
  <2>4. uses'[g] = {new} /\ \A f \in Groups : f # g => uses'[f] = uses[f] BY <2>2, <2>3
  <2>5. \A a \in Attrs, f \in Groups : Lists(a, f)' = Lists(a, f)
    BY <2>2 DEF Lists, Errors!Unresolved
  <2>6. \A a \in Attrs, f \in Groups : Lists(a, f) /\ uses[f] # {} => a \in uses[f]
    BY <2>2 DEF Fitting, Errors!AllIdle, Moves
  <2>7. FitsBy(r)' BY <2>1, <2>2, <2>3, <2>4, <2>5, <2>6 DEF FitsBy, Moves
  <2>8. \A k \in Workers : k = h BY DEF OneWorker
  <2>9. \E k \in Workers : Moves(handler[k])' /\ handler'[k].g = g BY <2>1, <2>2 DEF Moves
  <2>10. \A f \in Groups : \A a, b \in uses'[f] : a = b BY <2>4 DEF Fitting
  <2>11. \A a \in Attrs, f \in Groups : Lists(a, f)' /\ uses'[f] # {} => a \in uses'[f] \/ f = g
    BY <2>4, <2>5, <2>6
  <2> QED BY <1>0, <2>2, <2>7, <2>8, <2>9, <2>10, <2>11 DEF Fitting
<1>3. ASSUME NEW g \in Groups, Errors!DeleteGroup(g) PROVE Fitting'
  <2>1. Errors!AllIdle /\ UNCHANGED <<handler, mapped>> /\ uses' = [uses EXCEPT ![g] = {}]
    BY <1>3 DEF Errors!DeleteGroup
  <2>2. \A a \in Attrs : /\ error'[a].ids \subseteq error[a].ids
                         /\ error'[a].made => error[a].made /\ error'[a].resolved = error[a].resolved
    BY <1>3, DeletedRows
  <2> QED BY <1>0, <2>1, <2>2, FitQuiet DEF Lists, Errors!Unresolved
<1>4. ASSUME NEW g \in Groups, Errors!RuleDelete(g) PROVE Fitting'
  <2>1. Errors!AllIdle /\ UNCHANGED <<handler, mapped, error>> /\ uses' = [uses EXCEPT ![g] = {}]
    BY <1>4 DEF Errors!RuleDelete
  <2> QED BY <1>0, <2>1, FitQuiet DEF Lists, Errors!Unresolved
<1>5. ASSUME NEW affected \in SUBSET Groups, NEW usable \in SUBSET Attrs,
             Errors!NewSettings(affected, usable)
      PROVE  Fitting'
  <2>1. Errors!AllIdle /\ UNCHANGED <<handler, mapped, uses>> BY <1>5 DEF Errors!NewSettings
  <2>2. \A a \in Attrs : /\ error'[a].ids \subseteq error[a].ids
                         /\ error'[a].made => error[a].made /\ error'[a].resolved = error[a].resolved
    BY <1>5, ClearedRows
  <2> QED BY <1>0, <2>1, <2>2, FitQuiet DEF Lists, Errors!Unresolved
<1>6. ASSUME NEW a \in Attrs, Errors!Map(a) PROVE Fitting'
  <2>1. Errors!AllIdle /\ UNCHANGED <<handler, uses>> /\ mapped' = mapped \cup {a} /\ error' = Errors!Resolved({a})
    BY <1>6 DEF Errors!Map
  <2>2. \A b \in Attrs : b # a => error'[b] = error[b] BY <2>1, ResolvedRows
  <2>3. error'[a].made => error'[a].resolved BY <2>1, ResolvedRows
  <2>4. \A b \in Attrs, g \in Groups : Lists(b, g)' => Lists(b, g)
    BY <2>2, <2>3 DEF Lists, Errors!Unresolved
  <2>5. \A b \in Attrs : error'[b].made /\ error'[b].resolved => b \in mapped' BY <1>0, <2>1, <2>2
  <2> QED BY <2>1, <2>4, <2>5, FitQuiet
<1>7. CASE Errors!ResolveJob BY <1>7 DEF Errors!ResolveJob, Errors!Resolvable, Current
<1>8. CASE UNCHANGED Errors!vars
  BY <1>8 DEF Errors!vars, Fitting, FitsBy, Lists, Errors!Unresolved, Moves
<1> QED BY <1>1, <1>2, <1>3, <1>4, <1>5, <1>6, <1>7, <1>8, ValidationFits, HandlerFits
        DEF Errors!Next, Errors!Act

LEMMA FittingInit == ASSUME ~Wide PROVE Errors!Init => Fitting
<1> SUFFICES ASSUME Errors!Init PROVE Fitting
  OBVIOUS
<1>1. \A g \in Groups : uses[g] \in {{a} : a \in Attrs} BY DEF Errors!Init, Errors!Usable
<1>2. \A h \in Workers : FitsBy(handler[h]) BY IdleIs DEF Errors!Init, FitsBy, Moves
<1>3. \A a \in Attrs : ~error[a].made /\ error[a].ids = {} BY DEF Errors!Init, Errors!NoError
<1> QED BY <1>1, <1>2, <1>3 DEF Fitting, Lists, Errors!Unresolved

\* With one process at a time, groups of one attribute of the kind, no mapping added beside
\* a handler and no settings that need mappings that are not there: a group is left out of
\* the exports only for a mapping that it needs and that is missing.  Each of the four is
\* needed; skip rules do no harm.
THEOREM BlockedRightly ==
  ASSUME OneWorker, ~Wide, ~Beside, ~Shrinks
  PROVE  Errors!Spec => []Errors!BlockedIsMissing
<1>1. Typed /\ Heard /\ Current /\ Fitting /\ [Errors!Next]_Errors!vars => Typed' /\ Heard' /\ Current' /\ Fitting'
  BY TypedStep, HeardStep, CurrentStep, FittingStep
<1>2. Errors!Init => Typed /\ Heard /\ Current /\ Fitting
  BY TypedInit, HeardInit, CurrentInit, FittingInit
<1>3. Typed /\ Current /\ Fitting => Errors!BlockedIsMissing
  <2> SUFFICES ASSUME Typed, Current, Fitting, Errors!AllIdle, NEW a \in Errors!Unresolved, NEW g \in Groups,
                      uses[g] # {}, g \in error[a].ids
               PROVE  a \in uses[g] \ mapped
    BY DEF Errors!BlockedIsMissing
  <2>1. a \in Attrs /\ a \notin mapped BY DEF Errors!Unresolved, Current
  <2>2. \A h \in Workers : ~Moves(handler[h]) BY DEF Errors!AllIdle, Moves
  <2> QED BY <2>1, <2>2 DEF Fitting, Lists
<1> QED BY <1>1, <1>2, <1>3, PTL DEF Errors!Spec

\* Together: where one process takes the messages of a workspace, a group uses one attribute
\* of the kind and people wait for the handlers, an open error has no mapping yet, lists a
\* group that exists, and keeps from the exports only groups that need the mapping.
THEOREM ErrorsTrue ==
  ASSUME OneWorker, ~Wide, ~Beside, ~Rules, ~Shrinks
  PROVE  Errors!Spec => []ErrorsTellMissing
<1> QED BY ErrorsTyped, AllReported, BlockedRightly, AllResolved, NoOrphans, PTL
        DEF ErrorsTellMissing, Errors!ErrorsTellMissing

\* Errors of categories have no daily job: they behave as the specification all the same.
THEOREM CategoriesToo == Errors!Categories => Errors!Spec
<1>1. [Errors!Act]_Errors!vars => [Errors!Next]_Errors!vars BY DEF Errors!Next
<1> QED BY <1>1, PTL DEF Errors!Categories, Errors!Spec
=============================================================================
