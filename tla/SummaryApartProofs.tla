------------------------- MODULE SummaryApartProofs -------------------------
(***************************************************************************)
(* Proofs about ExportSummary when no two jobs handle one expense at the   *)
(* same time (~Overlap).  What a worker has read is then still so when it  *)
(* writes or posts it: the proof is that of an exclusive lock which nobody *)
(* takes, the sets held by the workers being its history.                  *)
(***************************************************************************)
EXTENDS SummaryProofs

\* An operation of a job that handles the expenses H stays with them.
Whole(op) == \/ op.do = "post" /\ op.group = NoGroup /\ op.ids = {}
             \/ op.do = "outcome" /\ op.last
Within(op, H) ==
    /\ IF op.group = NoGroup THEN op.ids \subseteq H
       ELSE Members(op.group) # {} /\ Members(op.group) \subseteq H
    /\ Whole(op) => H = Expenses
Plain(H) == {op \in Op : op.do \notin {"skip", "ungroup"} /\ Within(op, H)}

Work(w) ==
    \/ script[w] \in Seq(Plain(held[w]))
    \/ \E E \in SUBSET held[w] :
          E # {} /\ script[w] \in {<<Skip(E)>>, <<Ungroup(E), PostIds(E)>>}

Payloads(H) == {p \in Partial(States) : DOMAIN p \subseteq H}

\* What a worker has, by the place where it is.
InPlace(w) ==
    /\ script[w] = << >> => at[w] = "next"
    /\ at[w] = "write" => Now(w).do \in {"update", "skip"}
    /\ at[w] \in {"page"} \cup Posting => Now(w).do = "post" /\ Now(w).group = NoGroup
    /\ at[w] \in {"next", "write"} => batches[w] = << >>
    /\ at[w] \notin {"write", "refused", "marking"} => DOMAIN copy[w] = {}
    /\ at[w] = "write" /\ Now(w).do = "skip" => DOMAIN copy[w] # {}
    /\ at[w] = "marking" => DOMAIN copy[w] = Batch(w)

Owns(w) ==
    /\ Work(w) /\ InPlace(w)
    /\ DOMAIN copy[w] \subseteq held[w]
    /\ batches[w] \in Seq(Payloads(held[w]))

Disjoint == \A w, v \in Workers : w # v => held[w] \cap held[v] = {}
Owned    == Typed /\ Disjoint /\ \A w \in Workers : Owns(w)

\* A step of a worker leaves the other workers alone, and what they hold.
Same(v) ==
    /\ script'[v] = script[v] /\ at'[v] = at[v] /\ copy'[v] = copy[v] /\ held'[v] = held[v]
    /\ count'[v] = count[v] /\ off'[v] = off[v] /\ batches'[v] = batches[v] /\ due'[v] = due[v]
Alone(w) == \A v \in Workers \ {w} : Same(v)
Untouched(e) ==
    /\ summary'[e] = summary[e] /\ isSkipped'[e] = isSkipped[e]
    /\ fyle'[e] = fyle[e] /\ prev'[e] = prev[e]
    /\ e \in member' <=> e \in member
Frame(w) ==
    /\ Alone(w)
    /\ \A v \in Workers \ {w} : held'[w] \cap held[v] = {}
    /\ member' \subseteq member
    /\ \A e \in Expenses \ held[w] : Untouched(e)

-----------------------------------------------------------------------------
(* Operations that stay with the expenses of their job.                    *)

LEMMA PlainOf ==
  ASSUME NEW H \in SUBSET Expenses, NEW g \in Groups, Members(g) # {}, Members(g) \subseteq H,
         NEW s \in States, NEW b \in BOOLEAN, b => H = Expenses
  PROVE  /\ PostGroup(g) \in Plain(H) /\ PostFailed(g) \in Plain(H)
         /\ Update(s, g) \in Plain(H) /\ Outcome(g, b) \in Plain(H)
<1> USE SummaryAssumption
<1>1. PostGroup(g) \in Op /\ PostFailed(g) \in Op /\ Update(s, g) \in Op /\ Outcome(g, b) \in Op
  BY OpTypes
<1>2. PostGroup(g) \in Plain(H) BY <1>1 DEF Plain, Within, Whole, PostGroup, PostAll
<1>3. PostFailed(g) \in Plain(H) BY <1>1 DEF Plain, Within, Whole, PostFailed, PostGroup, PostAll
<1>4. Update(s, g) \in Plain(H) BY <1>1 DEF Plain, Within, Whole, Update, PostAll
<1>5. Outcome(g, b) \in Plain(H) BY <1>1 DEF Plain, Within, Whole, Outcome, PostAll
<1> QED BY <1>2, <1>3, <1>4, <1>5

LEMMA PlainIds ==
  ASSUME NEW H \in SUBSET Expenses, NEW E \in SUBSET H, E # {}, NEW s \in States
  PROVE  PostIds(E) \in Plain(H) /\ PostFailedIds(E) \in Plain(H) /\ UpdateIds(s, E) \in Plain(H)
<1>1. E \in SUBSET Expenses OBVIOUS
<1>2. PostIds(E) \in Op /\ PostFailedIds(E) \in Op /\ UpdateIds(s, E) \in Op
  BY <1>1 DEF PostIds, PostFailedIds, UpdateIds, PostAll, Op, States
<1>3. PostIds(E) \in Plain(H) BY <1>2 DEF Plain, Within, Whole, PostIds, PostAll
<1>4. PostFailedIds(E) \in Plain(H) BY <1>2 DEF Plain, Within, Whole, PostFailedIds, PostIds, PostAll
<1>5. UpdateIds(s, E) \in Plain(H) BY <1>2 DEF Plain, Within, Whole, UpdateIds, PostAll
<1> QED BY <1>3, <1>4, <1>5

LEMMA PlainDetails ==
  ASSUME NEW H \in SUBSET Expenses, NEW b \in BOOLEAN, b => H = Expenses
  PROVE  Details(b) \in Seq(Plain(H))
<1>1. ASSUME b PROVE PostAll \in Plain(H)
  <2>1. PostAll \in Op BY DEF PostAll, Op, States
  <2> QED BY <1>1, <2>1 DEF Plain, Within, Whole, PostAll
<1> QED BY <1>1 DEF Details

\* What is left after an export.
LEMMA PlainExport ==
  ASSUME NEW H \in SUBSET Expenses, NEW g \in Groups, Members(g) # {}, Members(g) \subseteq H,
         NEW b \in BOOLEAN, b => H = Expenses
  PROVE  /\ Exported(g, b) \in Seq(Plain(H))
         /\ Failed(g, b) \in Seq(Plain(H))
         /\ Faulted(g, b) \in Seq(Plain(H))
<1>1. Details(b) \in Seq(Plain(H)) BY PlainDetails
<1>2. PostGroup(g) \in Plain(H) /\ PostFailed(g) \in Plain(H)
      /\ Update("COMPLETE", g) \in Plain(H) /\ Update("ERROR", g) \in Plain(H)
  BY PlainOf DEF States
<1>3. <<Update("COMPLETE", g), PostGroup(g), PostFailed(g)>> \in Seq(Plain(H)) BY <1>2, ScriptOf
<1>4. <<Update("ERROR", g), PostFailed(g)>> \in Seq(Plain(H)) BY <1>2, ScriptOf
<1>5. <<PostFailed(g)>> \in Seq(Plain(H)) BY <1>2, ScriptOf
<1> HIDE DEF Plain
<1>6. Exported(g, b) \in Seq(Plain(H)) BY <1>1, <1>3, JoinOf DEF Exported
<1>7. Failed(g, b) \in Seq(Plain(H)) BY <1>1, <1>4, JoinOf DEF Failed
<1>8. Faulted(g, b) \in Seq(Plain(H)) BY <1>1, <1>5, JoinOf DEF Faulted
<1> QED BY <1>6, <1>7, <1>8

\* The plain operations depend on the members of the groups only.
LEMMA PlainKept ==
  ASSUME NEW w \in Workers, held'[w] = held[w], member' = member
  PROVE  Plain(held[w])' = Plain(held[w])
  BY DEF Plain, Within, Whole, Members

-----------------------------------------------------------------------------
(* The workers that do not move.                                           *)

LEMMA OthersOwn ==
  ASSUME Owned, NEW w \in Workers, Frame(w), NEW v \in Workers \ {w}
  PROVE  Owns(v)'
<1>1. Same(v) /\ Owns(v) BY DEF Frame, Alone, Owned
<1>2. held[v] \in SUBSET Expenses /\ held[v] \cap held[w] = {}
  BY DEF Owned, Typed, TypeOK, LocalsOK, Disjoint
<1>3. \A e \in held[v] : e \in member' <=> e \in member BY <1>2 DEF Frame, Untouched
<1>4. ASSUME NEW op \in Plain(held[v]) PROVE op \in Plain(held[v])'
  <2>1. op \in Op /\ op.do \notin {"skip", "ungroup"} /\ Within(op, held[v]) BY DEF Plain
  <2>2. CASE op.group = NoGroup BY <1>1, <2>1, <2>2 DEF Plain, Within, Whole, Same
  <2>3. CASE op.group # NoGroup
    <3>1. Members(op.group)' = Members(op.group)
      <4>1. member' \subseteq member BY DEF Frame
      <4>2. Members(op.group) \subseteq held[v] BY <2>1, <2>3 DEF Within
      <4> QED BY <1>3, <4>1, <4>2 DEF Members
    <3> QED BY <1>1, <2>1, <2>3, <3>1 DEF Plain, Within, Whole, Same
  <2> QED BY <2>2, <2>3
<1>5. Work(v)'
  <2>1. CASE script[v] \in Seq(Plain(held[v]))
    <3>1. Plain(held[v]) \subseteq Plain(held[v])' BY <1>4
    <3>2. script[v] \in Seq(Plain(held[v])') BY <2>1, <3>1, Wider
    <3> QED BY <1>1, <3>2 DEF Work, Same
  <2>2. CASE script[v] \notin Seq(Plain(held[v])) BY <1>1, <2>2 DEF Owns, Work, Same
  <2> QED BY <2>1, <2>2
<1>6. InPlace(v)' BY <1>1 DEF Owns, InPlace, Same, Now, Batch
<1> QED BY <1>1, <1>5, <1>6 DEF Owns, Same, Payloads

LEMMA MoveOwns ==
  ASSUME Owned, Typed', NEW w \in Workers, Frame(w), Owns(w)' PROVE Owned'
<1>1. Disjoint' BY DEF Disjoint, Owned, Frame, Alone, Same
<1>2. \A v \in Workers : Owns(v)' BY OthersOwn
<1> QED BY <1>1, <1>2 DEF Owned

-----------------------------------------------------------------------------
(* The worker that moves.                                                  *)

LEMMA GoOnMoves ==
  ASSUME TypeOK, NEW w \in Workers, NEW ops, GoOn(w, ops)
  PROVE  /\ script'[w] = ops /\ at'[w] = "next" /\ copy'[w] = NoCopy
         /\ held'[w] = IF ops = << >> THEN {} ELSE held[w]
         /\ \A v \in Workers \ {w} : /\ script'[v] = script[v] /\ at'[v] = at[v]
                                     /\ copy'[v] = copy[v] /\ held'[v] = held[v]
  BY DEF GoOn, TypeOK, LocalsOK

LEMMA GoOnOwns ==
  ASSUME Owned, NEW w \in Workers, NEW ops, GoOn(w, ops), batches'[w] = << >>,
         ops # << >> => ops \in Seq(Plain(held[w])')
  PROVE  Owns(w)'
<1>1. /\ script'[w] = ops /\ at'[w] = "next" /\ copy'[w] = NoCopy
      /\ held'[w] = IF ops = << >> THEN {} ELSE held[w]
  BY GoOnMoves DEF Owned, Typed
<1>2. DOMAIN copy'[w] = {} BY <1>1, NoCopyTyped
<1>3. Work(w)'
  <2>1. CASE ops = << >> BY <1>1, <2>1 DEF Work
  <2>2. CASE ops # << >> BY <1>1, <2>2 DEF Work
  <2> QED BY <2>1, <2>2
<1>4. InPlace(w)' BY <1>1, <1>2 DEF InPlace, Posting
<1> QED BY <1>2, <1>3, <1>4 DEF Owns

\* Each worker has its job's expenses apart.
LEMMA HeldApart ==
  ASSUME Owned, NEW w \in Workers, held'[w] \subseteq held[w]
  PROVE  \A v \in Workers \ {w} : held'[w] \cap held[v] = {}
  BY DEF Owned, Disjoint

\* A job begins that writes.
LEMMA StartWritingOwns ==
  ASSUME Owned, NEW w \in Workers, Idle(w), NEW E, NEW ops, NEW all,
         StartWriting(w, E, ops, all), UNCHANGED postVars,
         E \subseteq all, ops \in Seq(Plain(all)'), ops # << >>, Head(ops).do = "update"
  PROVE  Owns(w)'
<1>1. script'[w] = ops /\ at'[w] = "write" /\ copy'[w] = [e \in E |-> summary[e]] /\ held'[w] = all
  BY DEF StartWriting, Owned, Typed, TypeOK, LocalsOK
<1>2. batches'[w] = << >>
  <2>1. at[w] = "next" /\ batches[w] = << >> BY DEF Owned, Owns, InPlace, Idle
  <2> QED BY <2>1 DEF postVars
<1>3. Work(w)' BY <1>1 DEF Work
<1>4. InPlace(w)' BY <1>1, <1>2 DEF InPlace, Posting, Now
<1> QED BY <1>1, <1>2, <1>3, <1>4 DEF Owns

\* A job begins with one operation.
LEMMA StartOneOwns ==
  ASSUME Owned, NEW w \in Workers, Idle(w), NEW op, NEW all,
         script' = [script EXCEPT ![w] = <<op>>], held' = [held EXCEPT ![w] = all],
         UNCHANGED <<at, copy, batches>>,
         \/ op \in Plain(all)'
         \/ \E E \in SUBSET all : E # {} /\ op = Skip(E)
  PROVE  Owns(w)'
<1>1. /\ script'[w] = <<op>> /\ held'[w] = all
      /\ at'[w] = "next" /\ batches'[w] = << >> /\ DOMAIN copy'[w] = {}
  BY DEF Owned, Typed, TypeOK, LocalsOK, Owns, InPlace, Idle
<1>2. Work(w)'
  <2>1. CASE op \in Plain(all)'
    <3>1. <<op>> \in Seq(Plain(all)') BY <2>1, ScriptOf
    <3> QED BY <1>1, <3>1 DEF Work
  <2>2. ASSUME NEW E \in SUBSET all, E # {}, op = Skip(E) PROVE Work(w)'
    BY <1>1, <2>2 DEF Work
  <2> QED BY <2>1, <2>2
<1>3. InPlace(w)' BY <1>1 DEF InPlace, Posting
<1> QED BY <1>1, <1>2, <1>3 DEF Owns

LEMMA StartFrame ==
  ASSUME Owned, ~Overlap, NEW w \in Workers, NEW all, Apart(all), held'[w] = all,
         \A v \in Workers \ {w} : /\ script'[v] = script[v] /\ at'[v] = at[v]
                                  /\ copy'[v] = copy[v] /\ held'[v] = held[v],
         UNCHANGED <<summary, isSkipped, fyle, prev, member, postVars>>
  PROVE  Frame(w)
<1>1. Alone(w) BY DEF Alone, Same, postVars
<1>2. \A v \in Workers \ {w} : held'[w] \cap held[v] = {} BY DEF Apart
<1> QED BY <1>1, <1>2 DEF Frame, Untouched

LEMMA StartWritingFrame ==
  ASSUME Owned, ~Overlap, NEW w \in Workers, NEW E, NEW ops, NEW all, Apart(all),
         StartWriting(w, E, ops, all),
         UNCHANGED <<summary, isSkipped, fyle, prev, member, postVars>>
  PROVE  Frame(w)
<1>1. /\ held'[w] = all
      /\ \A v \in Workers \ {w} : /\ script'[v] = script[v] /\ at'[v] = at[v]
                                  /\ copy'[v] = copy[v] /\ held'[v] = held[v]
  BY DEF StartWriting, Owned, Typed, TypeOK, LocalsOK
<1> QED BY <1>1, StartFrame

LEMMA StartOneFrame ==
  ASSUME Owned, ~Overlap, NEW w \in Workers, NEW op, NEW all, Apart(all),
         script' = [script EXCEPT ![w] = <<op>>], held' = [held EXCEPT ![w] = all],
         UNCHANGED <<at, copy>>,
         UNCHANGED <<summary, isSkipped, fyle, prev, member, postVars>>
  PROVE  Frame(w)
<1>1. /\ held'[w] = all
      /\ \A v \in Workers \ {w} : /\ script'[v] = script[v] /\ at'[v] = at[v]
                                  /\ copy'[v] = copy[v] /\ held'[v] = held[v]
  BY DEF Owned, Typed, TypeOK, LocalsOK
<1> QED BY <1>1, StartFrame

\* A job that begins takes only what nobody holds.
LEMMA StartOwns ==
  ASSUME Owned, ~Overlap, NEW w \in Workers, Start(w)
  PROVE  Frame(w) /\ Owns(w)'
<1> USE SummaryAssumption
<1>a. TypeOK BY DEF Owned, Typed
<1>1. ASSUME NEW g \in Groups, NEW auto \in BOOLEAN, NEW last \in Lasts, StartExport(w, g, auto, last)
      PROVE  Frame(w) /\ Owns(w)'
  <2>p. PICK E, all : E = Members(g) /\ all = IF last THEN Expenses ELSE E OBVIOUS
  <2>0. E \in SUBSET Expenses /\ E \subseteq all /\ all \in SUBSET Expenses /\ last \in BOOLEAN
        /\ E # {} /\ "IN_PROGRESS" \in States /\ (last => all = Expenses)
    BY <1>1, <1>a, <2>p DEF StartExport, Members, TypeOK, DbOK, States
  <2>1. Idle(w) /\ Apart(all) /\ UNCHANGED <<summary, isSkipped, fyle, prev, member, postVars>>
    BY <1>1, <2>p DEF StartExport, fyleVars
  <2>3. Outcome(g, last) \in Plain(all)'
    <3>1. Outcome(g, last) \in Plain(all) BY <2>0, <2>p, PlainOf
    <3> QED BY <2>1, <3>1 DEF Plain, Within, Whole, Members
  <2>4. UpdateIds("IN_PROGRESS", E) \in Plain(all)' /\ PostIds(E) \in Plain(all)'
    <3>1. UpdateIds("IN_PROGRESS", E) \in Plain(all) /\ PostIds(E) \in Plain(all)
      BY <2>0, PlainIds
    <3> QED BY <2>1, <3>1 DEF Plain, Within, Whole, Members
  <2>5. CASE auto /\ prev[First(g)] = "ERROR"
    <3>1. /\ script' = [script EXCEPT ![w] = <<Outcome(g, last)>>]
          /\ held' = [held EXCEPT ![w] = all] /\ UNCHANGED <<at, copy, batches>>
      BY <1>1, <2>5, <2>p DEF StartExport, postVars
    <3>2. Owns(w)' BY <2>1, <2>3, <3>1, StartOneOwns
    <3>3. Frame(w) BY <2>1, <3>1, StartOneFrame
    <3> QED BY <3>2, <3>3
  <2>6. CASE ~(auto /\ prev[First(g)] = "ERROR")
    <3> DEFINE ops == <<UpdateIds("IN_PROGRESS", E), PostIds(E), Outcome(g, last)>>
    <3>1. StartWriting(w, E, ops, all) BY <1>1, <2>6, <2>p DEF StartExport
    <3>2. ops \in Seq(Plain(all)') BY <2>3, <2>4, ScriptOf
    <3>3. ops # << >> /\ Head(ops).do = "update" BY OpParts
    <3> HIDE DEF ops
    <3>4. Owns(w)' BY <2>0, <2>1, <3>1, <3>2, <3>3, StartWritingOwns
    <3>5. Frame(w) BY <2>1, <3>1, StartWritingFrame
    <3> QED BY <3>4, <3>5
  <2> QED BY <2>5, <2>6
<1>2. ASSUME NEW g \in Groups, NEW last \in Lasts, StartSkippedExport(w, g, last)
      PROVE  Frame(w) /\ Owns(w)'
  <2>p. PICK E, all : E = {First(g)} /\ all = IF last THEN Expenses ELSE Members(g) OBVIOUS
  <2> DEFINE four == <<UpdateIds("IN_PROGRESS", E), PostIds(E), Update("ERROR", g), PostFailed(g)>>
  <2>0. /\ Members(g) \in SUBSET Expenses /\ Members(g) # {} /\ last \in BOOLEAN
        /\ Idle(w) /\ Apart(all) /\ UNCHANGED <<dbVars, fyle, postVars>>
        /\ StartWriting(w, E, four \o Details(last), all)
    BY <1>2, <1>a, <2>p DEF StartSkippedExport, Members, TypeOK, DbOK, fyleVars
  <2>1. First(g) \in Members(g) BY <1>a, <2>0, FirstMember DEF TypeOK
  <2>2. /\ E # {} /\ E \in SUBSET all /\ all \in SUBSET Expenses /\ Members(g) \subseteq all
        /\ (last => all = Expenses)
    BY <2>0, <2>1, <2>p
  <2>3. /\ UpdateIds("IN_PROGRESS", E) \in Plain(all)' /\ PostIds(E) \in Plain(all)'
        /\ Update("ERROR", g) \in Plain(all)' /\ PostFailed(g) \in Plain(all)'
        /\ Details(last) \in Seq(Plain(all)')
    <3>0. "IN_PROGRESS" \in States /\ "ERROR" \in States BY DEF States
    <3>1. /\ UpdateIds("IN_PROGRESS", E) \in Plain(all) /\ PostIds(E) \in Plain(all)
      BY <2>2, <3>0, PlainIds
    <3>2. Update("ERROR", g) \in Plain(all) /\ PostFailed(g) \in Plain(all)
      BY <2>0, <2>2, <3>0, PlainOf
    <3>3. Details(last) \in Seq(Plain(all)) BY <2>0, <2>2, PlainDetails
    <3>4. Plain(all)' = Plain(all) BY <2>0 DEF Plain, Within, Whole, Members, dbVars
    <3> QED BY <3>1, <3>2, <3>3, <3>4
  <2>4. four \in Seq(Plain(all)') BY <2>3, ScriptOf
  <2>5. four # << >> /\ Head(four) = UpdateIds("IN_PROGRESS", E) OBVIOUS
  <2> HIDE DEF four
  <2>6. four \o Details(last) \in Seq(Plain(all)') BY <2>3, <2>4, JoinOf
  <2>7. four \o Details(last) # << >> /\ Head(four \o Details(last)).do = "update"
    <3>1. Head(four \o Details(last)) = Head(four) /\ four \o Details(last) # << >>
      BY <2>3, <2>4, <2>5, ConcatProperties
    <3> QED BY <2>5, <3>1, OpParts
  <2>8. Owns(w)'
    <3>1. PICK ops : ops = four \o Details(last) OBVIOUS
    <3>2. StartWriting(w, E, ops, all) BY <2>0, <3>1 DEF four
    <3>3. ops \in Seq(Plain(all)') /\ ops # << >> /\ Head(ops).do = "update" BY <2>6, <2>7, <3>1
    <3> QED BY <2>0, <2>2, <3>2, <3>3, StartWritingOwns
  <2>9. Frame(w) BY <2>0, StartWritingFrame DEF dbVars
  <2> QED BY <2>8, <2>9
<1>3. ASSUME NEW E \in SUBSET Filtered, StartSkip(w, E) PROVE Frame(w) /\ Owns(w)'
  <2>1. /\ script' = [script EXCEPT ![w] = <<Skip(E)>>] /\ held' = [held EXCEPT ![w] = E]
        /\ UNCHANGED <<at, copy, batches>> /\ Idle(w) /\ E # {} /\ Apart(E)
        /\ UNCHANGED <<summary, isSkipped, fyle, prev, member, postVars>>
    BY <1>3 DEF StartSkip, dbVars, fyleVars, postVars
  <2>2. Owns(w)' BY <2>1, StartOneOwns
  <2>3. Frame(w) BY <2>1, StartOneFrame
  <2> QED BY <2>2, <2>3
<1>4. ASSUME NEW G \in SUBSET Groups, StartStuckCheck(w, G) PROVE Frame(w) /\ Owns(w)'
  <2>p. PICK E : E = UNION {Members(g) : g \in G} OBVIOUS
  <2> DEFINE ops == <<UpdateIds("ERROR", E), PostFailedIds(E)>>
  <2>1. /\ StartWriting(w, E, ops, E) /\ Idle(w) /\ E # {} /\ Apart(E)
        /\ UNCHANGED <<summary, isSkipped, fyle, prev, member, postVars>>
    BY <1>4, <2>p DEF StartStuckCheck, fyleVars
  <2>2. E \in SUBSET Expenses /\ "ERROR" \in States BY <1>a, <2>p DEF Members, TypeOK, DbOK, States
  <2>3. UpdateIds("ERROR", E) \in Plain(E)' /\ PostFailedIds(E) \in Plain(E)'
    <3>1. UpdateIds("ERROR", E) \in Plain(E) /\ PostFailedIds(E) \in Plain(E)
      BY <2>1, <2>2, PlainIds
    <3> QED BY <2>1, <3>1 DEF Plain, Within, Whole, Members
  <2>4. ops \in Seq(Plain(E)') BY <2>3, ScriptOf
  <2>5. ops # << >> /\ Head(ops).do = "update" BY OpParts
  <2> HIDE DEF ops
  <2>6. Owns(w)' BY <2>1, <2>4, <2>5, StartWritingOwns
  <2>7. Frame(w) BY <2>1, StartWritingFrame
  <2> QED BY <2>6, <2>7
<1>5. ASSUME StartPostAll(w) PROVE Frame(w) /\ Owns(w)'
  <2>1. /\ script' = [script EXCEPT ![w] = <<PostAll>>] /\ held' = [held EXCEPT ![w] = Expenses]
        /\ UNCHANGED <<at, copy, batches>> /\ Idle(w) /\ Apart(Expenses)
        /\ UNCHANGED <<summary, isSkipped, fyle, prev, member, postVars>>
    BY <1>5 DEF StartPostAll, dbVars, fyleVars, postVars
  <2>2. PostAll \in Plain(Expenses)'
    <3>1. PostAll \in Op BY DEF PostAll, Op, States
    <3> QED BY <3>1 DEF Plain, Within, Whole, PostAll
  <2>3. Owns(w)' BY <2>1, <2>2, StartOneOwns
  <2>4. Frame(w) BY <2>1, StartOneFrame
  <2> QED BY <2>3, <2>4
<1> QED BY <1>1, <1>2, <1>3, <1>4, <1>5 DEF Start

\* A worker goes on: the others and what they hold are left alone.
LEMMA GoOnFrame ==
  ASSUME Owned, NEW w \in Workers, NEW ops, GoOn(w, ops), member' \subseteq member,
         \A e \in Expenses \ held[w] : Untouched(e),
         \A v \in Workers \ {w} : /\ count'[v] = count[v] /\ off'[v] = off[v]
                                  /\ batches'[v] = batches[v] /\ due'[v] = due[v]
  PROVE  Frame(w)
<1>1. /\ held'[w] = IF ops = << >> THEN {} ELSE held[w]
      /\ \A v \in Workers \ {w} : /\ script'[v] = script[v] /\ at'[v] = at[v]
                                  /\ copy'[v] = copy[v] /\ held'[v] = held[v]
  BY GoOnMoves DEF Owned, Typed
<1>2. Alone(w) BY <1>1 DEF Alone, Same
<1>3. \A v \in Workers \ {w} : held'[w] \cap held[v] = {}
  BY <1>1, HeldApart
<1> QED BY <1>2, <1>3 DEF Frame

\* A worker stays in its operation.
LEMMA StayFrame ==
  ASSUME Owned, NEW w \in Workers, UNCHANGED <<held, script, member>>,
         \A e \in Expenses \ held[w] : Untouched(e),
         \A v \in Workers \ {w} :
            /\ at'[v] = at[v] /\ copy'[v] = copy[v] /\ count'[v] = count[v]
            /\ off'[v] = off[v] /\ batches'[v] = batches[v] /\ due'[v] = due[v]
  PROVE  Frame(w)
<1>1. Alone(w) BY DEF Alone, Same
<1>2. \A v \in Workers \ {w} : held'[w] \cap held[v] = {} BY HeldApart
<1> QED BY <1>1, <1>2 DEF Frame

\* The operation a worker is in, and the rest of its script.
LEMMA NowOwned ==
  ASSUME Owned, NEW w \in Workers, script[w] # << >>
  PROVE  /\ Now(w).do \notin {"skip", "ungroup"} =>
              Now(w) \in Plain(held[w]) /\ Tail(script[w]) \in Seq(Plain(held[w]))
         /\ Now(w).do = "skip" =>
              \E E \in SUBSET held[w] : E # {} /\ script[w] = <<Skip(E)>>
         /\ Now(w).do = "ungroup" =>
              \E E \in SUBSET held[w] : E # {} /\ script[w] = <<Ungroup(E), PostIds(E)>>
<1>1. CASE script[w] \in Seq(Plain(held[w]))
  <2>1. Now(w) \in Plain(held[w]) /\ Tail(script[w]) \in Seq(Plain(held[w]))
    BY <1>1, HeadTailProperties DEF Now
  <2> QED BY <2>1 DEF Plain
<1>2. ASSUME NEW E \in SUBSET held[w], E # {}, script[w] = <<Skip(E)>>
      PROVE  Now(w).do = "skip"
  BY <1>2, OpParts DEF Now
<1>3. ASSUME NEW E \in SUBSET held[w], E # {}, script[w] = <<Ungroup(E), PostIds(E)>>
      PROVE  Now(w).do = "ungroup"
  BY <1>3, OpParts DEF Now
<1> QED BY <1>1, <1>2, <1>3 DEF Owned, Owns, Work

\* The expenses of an operation are its job's.
LEMMA ScopeOwned ==
  ASSUME Owned, NEW w \in Workers, script[w] # << >>, Now(w).do \notin {"skip", "ungroup"}
  PROVE  Scope(Now(w)) \subseteq held[w]
  BY NowOwned DEF Plain, Within, Scope

\* What a worker writes is its job's.
LEMMA WritableOwned ==
  ASSUME Owned, NEW w \in Workers
  PROVE  Writable(w) \subseteq held[w] /\ DOMAIN copy[w] \subseteq held[w]
         /\ held[w] \in SUBSET Expenses
  BY DEF Owned, Owns, Writable, Typed, TypeOK, LocalsOK

LEMMA OpIds ==
  ASSUME NEW E PROVE Skip(E).ids = E /\ Ungroup(E).ids = E /\ PostIds(E).ids = E
  BY DEF Skip, Ungroup, PostIds, PostAll

LEMMA UpdateOwns ==
  ASSUME Owned, NEW w \in Workers,
         Read(w) \/ Write(w) \/ ReadSkipped(w) \/ WriteSkipped(w) \/ Leave(w)
  PROVE  Frame(w) /\ Owns(w)'
<1>a. TypeOK /\ Owns(w) BY DEF Owned, Typed
<1>b. held[w] \in SUBSET Expenses BY WritableOwned
<1>1. CASE Read(w)
  <2>1. /\ script[w] # << >> /\ Now(w).do = "update" /\ at[w] = "next"
        /\ copy' = [copy EXCEPT ![w] = [e \in Scope(Now(w)) |-> summary[e]]]
        /\ at' = [at EXCEPT ![w] = "write"]
        /\ UNCHANGED <<held, script, member, summary, isSkipped, fyle, prev>>
        /\ UNCHANGED <<count, off, batches, due>>
    BY <1>1 DEF Read, Doing, dbVars, fyleVars, postVars
  <2>2. at'[w] = "write" /\ DOMAIN copy'[w] \subseteq held[w] /\ Now(w)' = Now(w)
    BY <1>a, <2>1, ScopeOwned DEF TypeOK, LocalsOK, Now
  <2>3. Frame(w) BY <1>a, <2>1, StayFrame DEF Untouched, TypeOK, LocalsOK
  <2>4. Work(w)' BY <1>a, <2>1, PlainKept DEF Owns, Work
  <2>5. InPlace(w)' BY <1>a, <2>1, <2>2 DEF Owns, InPlace, Posting
  <2>6. batches'[w] \in Seq(Payloads(held[w])') BY <1>a, <2>1 DEF Owns, Payloads
  <2> QED BY <2>1, <2>2, <2>3, <2>4, <2>5, <2>6 DEF Owns
<1>2. CASE Write(w)
  <2>1. /\ script[w] # << >> /\ Now(w).do = "update" /\ batches[w] = << >>
        /\ GoOn(w, Tail(script[w])) /\ UNCHANGED <<member, fyle, prev>>
        /\ UNCHANGED <<count, off, batches, due>>
    BY <1>2, <1>a DEF Write, Doing, dbVars, fyleVars, postVars, Owns, InPlace
  <2>2. \A e \in Expenses \ held[w] : Untouched(e)
    BY <1>2, <1>a, WritableOwned DEF Write, Untouched, fyleVars, TypeOK, DbOK
  <2>3. Frame(w) BY <2>1, <2>2, GoOnFrame
  <2>4. Tail(script[w]) \in Seq(Plain(held[w])) BY <2>1, NowOwned
  <2>5. ASSUME held'[w] = held[w] PROVE Tail(script[w]) \in Seq(Plain(held[w])')
    BY <2>1, <2>4, <2>5, PlainKept
  <2>6. held'[w] = IF Tail(script[w]) = << >> THEN {} ELSE held[w]
    BY <1>a, <2>1, GoOnMoves
  <2>7. Owns(w)' BY <2>1, <2>5, <2>6, GoOnOwns
  <2> QED BY <2>3, <2>7
<1>3. CASE ReadSkipped(w)
  <2> DEFINE E == {e \in Now(w).ids : ~isSkipped[e]}
  <2>1. /\ script[w] # << >> /\ Now(w).do = "skip" /\ at[w] = "next"
        /\ UNCHANGED <<member, summary, isSkipped, fyle, prev>>
        /\ UNCHANGED <<count, off, batches, due>>
    BY <1>3 DEF ReadSkipped, Doing, dbVars, fyleVars, postVars
  <2>2. E \subseteq held[w]
    <3>1. PICK F \in SUBSET held[w] : script[w] = <<Skip(F)>> BY <2>1, NowOwned
    <3>2. Now(w).ids = F BY <3>1, OpIds DEF Now
    <3> QED BY <3>2
  <2>3. \A e \in Expenses \ held[w] : Untouched(e) BY <2>1 DEF Untouched
  <2>4. CASE E = {}
    <3>1. GoOn(w, << >>) BY <1>3, <2>4 DEF ReadSkipped
    <3>2. Frame(w) BY <2>1, <2>3, <3>1, GoOnFrame
    <3>3. batches'[w] = << >> BY <1>a, <2>1 DEF Owns, InPlace
    <3>4. Owns(w)' BY <3>1, <3>3, GoOnOwns
    <3> QED BY <3>2, <3>4
  <2>5. CASE E # {}
    <3>1. /\ copy' = [copy EXCEPT ![w] = [e \in E |-> summary[e]]]
          /\ at' = [at EXCEPT ![w] = "write"] /\ UNCHANGED <<script, held>>
      BY <1>3, <2>5 DEF ReadSkipped
    <3> HIDE DEF E
    <3>2. at'[w] = "write" /\ DOMAIN copy'[w] = E /\ Now(w)' = Now(w)
      BY <1>a, <3>1 DEF TypeOK, LocalsOK, Now
    <3>3. Frame(w) BY <1>a, <2>1, <2>3, <3>1, StayFrame DEF TypeOK, LocalsOK
    <3>4. Work(w)' BY <1>a, <2>1, <3>1, PlainKept DEF Owns, Work
    <3>5. InPlace(w)' BY <1>a, <2>1, <2>5, <3>1, <3>2 DEF Owns, InPlace, Posting
    <3>6. batches'[w] \in Seq(Payloads(held[w])') BY <1>a, <2>1, <3>1 DEF Owns, Payloads
    <3> QED BY <2>2, <3>1, <3>2, <3>3, <3>4, <3>5, <3>6 DEF Owns
  <2> QED BY <2>4, <2>5
<1>4. CASE WriteSkipped(w)
  <2> DEFINE E == DOMAIN copy[w]
  <2>1. /\ script[w] # << >> /\ Now(w).do = "skip" /\ at[w] = "write" /\ batches[w] = << >>
        /\ GoOn(w, SkipRest(E)) /\ UNCHANGED <<member, fyle, prev>>
        /\ UNCHANGED <<count, off, batches, due>>
    BY <1>4, <1>a DEF WriteSkipped, Doing, dbVars, fyleVars, postVars, Owns, InPlace
  <2>2. \A e \in Expenses \ held[w] : Untouched(e)
    BY <1>4, <1>a, WritableOwned DEF WriteSkipped, Untouched, fyleVars, TypeOK, DbOK
  <2>3. Frame(w) BY <2>1, <2>2, GoOnFrame
  <2>4. E # {} /\ E \subseteq held[w] BY <1>a, <2>1 DEF Owns, InPlace
  <2>5. /\ script'[w] = <<Ungroup(E), PostIds(E)>> /\ at'[w] = "next" /\ copy'[w] = NoCopy
        /\ held'[w] = held[w] /\ batches'[w] = << >>
    BY <1>a, <2>1, GoOnMoves DEF SkipRest
  <2> HIDE DEF E
  <2>6. Work(w)' BY <2>4, <2>5 DEF Work
  <2>7. InPlace(w)' BY <2>5, NoCopyTyped DEF InPlace, Posting
  <2>8. Owns(w)' BY <2>5, <2>6, <2>7, NoCopyTyped DEF Owns
  <2> QED BY <2>3, <2>8
<1>5. CASE Leave(w)
  <2>1. /\ script[w] # << >> /\ Now(w).do = "ungroup" /\ at[w] = "next" /\ batches[w] = << >>
        /\ GoOn(w, Tail(script[w])) /\ UNCHANGED <<summary, isSkipped, fyle, prev>>
        /\ UNCHANGED <<count, off, batches, due>>
    BY <1>5, <1>a DEF Leave, Doing, fyleVars, postVars, Owns, InPlace
  <2>2. PICK E \in SUBSET held[w] : E # {} /\ script[w] = <<Ungroup(E), PostIds(E)>>
    BY <2>1, NowOwned
  <2>3. Now(w).ids = E /\ Tail(script[w]) = <<PostIds(E)>> BY <2>2, OpIds DEF Now
  <2>4. member' \subseteq member /\ \A e \in Expenses \ held[w] : e \in member' <=> e \in member
    BY <1>5, <2>3 DEF Leave
  <2>5. \A e \in Expenses \ held[w] : Untouched(e) BY <2>1, <2>4 DEF Untouched
  <2>6. Frame(w) BY <2>1, <2>4, <2>5, GoOnFrame
  <2>7. held'[w] = held[w]
    <3>1. Tail(script[w]) # << >> BY <2>3
    <3> QED BY <1>a, <2>1, <3>1, GoOnMoves
  <2>8. PostIds(E) \in Plain(held[w])'
    <3>1. PostIds(E) \in Op
      <4>1. E \in SUBSET Expenses BY <1>b
      <4> QED BY <4>1 DEF PostIds, PostAll, Op, States
    <3> QED BY <2>2, <2>7, <3>1 DEF Plain, Within, Whole, PostIds, PostAll
  <2>9. Tail(script[w]) \in Seq(Plain(held[w])') BY <2>3, <2>8, ScriptOf
  <2>10. Owns(w)' BY <2>1, <2>9, GoOnOwns
  <2> QED BY <2>6, <2>10
<1> QED BY <1>1, <1>2, <1>3, <1>4, <1>5

\* The end of an export is saved: nobody else has changed the group.
LEMMA OutcomeOwns ==
  ASSUME Owned, NEW w \in Workers, Succeed(w) \/ Fail(w) \/ Fault(w) \/ CannotSave(w)
  PROVE  Frame(w) /\ Owns(w)'
<1> USE SummaryAssumption
<1>a. TypeOK /\ Owns(w) BY DEF Owned, Typed
<1>b. held[w] \in SUBSET Expenses BY WritableOwned
<1>1. /\ script[w] # << >> /\ Now(w).do = "outcome" /\ batches[w] = << >>
      /\ UNCHANGED <<member, summary, isSkipped, fyle, prev>>
      /\ UNCHANGED <<count, off, batches, due>>
  BY <1>a DEF Succeed, Fail, Fault, CannotSave, Doing, dbVars, fyleVars, postVars, Owns, InPlace
<1>2. \A e \in Expenses \ held[w] : Untouched(e) BY <1>1 DEF Untouched
<1>3. CASE CannotSave(w)
  <2>1. GoOn(w, << >>) BY <1>3 DEF CannotSave
  <2>2. Owns(w)' BY <1>1, <2>1, GoOnOwns
  <2>3. Frame(w) BY <1>1, <1>2, <2>1, GoOnFrame
  <2> QED BY <2>2, <2>3
<1>4. CASE Succeed(w) \/ Fail(w) \/ Fault(w)
  <2>p. PICK g, last : g = Now(w).group /\ last = Now(w).last OBVIOUS
  <2>1. Now(w) \in Plain(held[w]) BY <1>1, NowOwned
  <2>2. Members(g) # {} BY <1>4, <2>p DEF Succeed, Fail, Fault, CanSave
  <2>3. /\ g \in Groups /\ last \in BOOLEAN /\ Members(g) \subseteq held[w]
        /\ last => held[w] = Expenses
    <3>1. g \in Groups BY <2>2, <1>a DEF Members, TypeOK, DbOK
    <3> QED BY <1>1, <2>1, <2>p, <3>1 DEF Plain, Within, Whole, Op
  <2>4. PICK ops \in {Exported(g, last), Failed(g, last), Faulted(g, last)} : GoOn(w, ops)
    BY <1>4, <2>p DEF Succeed, Fail, Fault
  <2>5. ops \in Seq(Plain(held[w]))
    <3>p. PICK H : H = held[w] OBVIOUS
    <3>1. ops \in Seq(Plain(H)) BY <1>b, <2>2, <2>3, <2>4, <3>p, PlainExport
    <3> QED BY <3>1, <3>p
  <2>6. held'[w] = IF ops = << >> THEN {} ELSE held[w] BY <1>a, <2>4, GoOnMoves
  <2>7. ops # << >> => ops \in Seq(Plain(held[w])') BY <1>1, <2>5, <2>6, PlainKept
  <2>8. Owns(w)' BY <1>1, <2>4, <2>7, GoOnOwns
  <2>9. Frame(w) BY <1>1, <1>2, <2>4, GoOnFrame
  <2> QED BY <2>8, <2>9
<1> QED BY <1>3, <1>4

\* A post goes on.
LEMMA ContinueOwns ==
  ASSUME Owned, NEW w \in Workers, script[w] # << >>, Now(w).do = "post", Now(w).group = NoGroup,
         NEW o, NEW n, NEW left, left \in Seq(Payloads(held[w])), Continue(w, o, n, left),
         UNCHANGED member, \A e \in Expenses \ held[w] : Untouched(e),
         \A v \in Workers \ {w} : due'[v] = due[v]
  PROVE  Frame(w) /\ Owns(w)'
<1>a. TypeOK /\ Owns(w) BY DEF Owned, Typed
<1>1. batches'[w] = left /\ \A v \in Workers \ {w} : batches'[v] = batches[v]
  BY <1>a DEF Continue, TypeOK, PostOK
<1>2. CASE Onward(o, n, left) = "next"
  <2>1. /\ GoOn(w, Tail(script[w])) /\ left = << >>
        /\ \A v \in Workers \ {w} : count'[v] = count[v] /\ off'[v] = off[v]
    BY <1>a, <1>2 DEF Continue, Onward, TypeOK, PostOK
  <2>2. Frame(w) BY <1>1, <2>1, GoOnFrame
  <2>3. Tail(script[w]) \in Seq(Plain(held[w])) BY NowOwned
  <2>4. held'[w] = IF Tail(script[w]) = << >> THEN {} ELSE held[w] BY <1>a, <2>1, GoOnMoves
  <2>5. Tail(script[w]) # << >> => Tail(script[w]) \in Seq(Plain(held[w])')
    BY <2>3, <2>4, PlainKept
  <2>6. Owns(w)' BY <1>1, <2>1, <2>5, GoOnOwns
  <2> QED BY <2>2, <2>6
<1>3. CASE Onward(o, n, left) # "next"
  <2>1. /\ at'[w] \in {"page", "send"} /\ copy'[w] = NoCopy /\ UNCHANGED <<script, held>>
        /\ \A v \in Workers \ {w} : /\ at'[v] = at[v] /\ copy'[v] = copy[v]
                                    /\ count'[v] = count[v] /\ off'[v] = off[v]
    BY <1>a, <1>3 DEF Continue, Onward, TypeOK, LocalsOK, PostOK
  <2>2. Frame(w) BY <1>1, <2>1, StayFrame
  <2>3. Work(w)' BY <1>a, <2>1, PlainKept DEF Owns, Work
  <2>4. DOMAIN copy'[w] = {} /\ Now(w)' = Now(w) BY <2>1, NoCopyTyped DEF Now
  <2>5. InPlace(w)' BY <1>a, <2>1, <2>4 DEF InPlace, Posting
  <2>6. batches'[w] \in Seq(Payloads(held[w])') BY <1>1, <2>1 DEF Payloads
  <2> QED BY <2>2, <2>3, <2>4, <2>5, <2>6 DEF Owns
<1> QED BY <1>2, <1>3

\* The batches of a post hold its job's expenses.
LEMMA BatchOwned ==
  ASSUME Owned, NEW w \in Workers, batches[w] # << >>
  PROVE  Batch(w) \subseteq held[w] /\ Tail(batches[w]) \in Seq(Payloads(held[w]))
<1>1. batches[w] \in Seq(Payloads(held[w])) BY DEF Owned, Owns
<1>2. Head(batches[w]) \in Payloads(held[w]) /\ Tail(batches[w]) \in Seq(Payloads(held[w]))
  BY <1>1, HeadTailProperties
<1> QED BY <1>2 DEF Batch, Payloads

\* What a post matches is its job's: a list of ids that is empty is that of a
\* job which handles every expense.
LEMMA MatchingOwned ==
  ASSUME Owned, NEW w \in Workers, NEW op \in Plain(held[w]), op.do = "post", op.group = NoGroup
  PROVE  Matching(op) \subseteq held[w]
  BY DEF Plain, Within, Whole, Matching

\* The post that lists the expenses of a group.
LEMMA ListedOwned ==
  ASSUME NEW H \in SUBSET Expenses, NEW op \in Plain(H), op.do = "post", DbOK
  PROVE  [op EXCEPT !.ids = Scope(op), !.group = NoGroup] \in Plain(H)
<1> DEFINE listed == [op EXCEPT !.ids = Scope(op), !.group = NoGroup]
<1>1. op \in Op /\ Within(op, H) BY DEF Plain
<1>2. Scope(op) \in SUBSET Expenses BY <1>1, ScopeTyped
<1>3. listed \in Op /\ listed.ids = Scope(op) /\ listed.group = NoGroup /\ listed.do = "post"
  BY <1>1, <1>2 DEF Op
<1>4. Scope(op) \subseteq H /\ (Scope(op) = {} => H = Expenses)
  BY <1>1 DEF Within, Whole, Scope
<1> HIDE DEF listed
<1>5. listed \in Plain(H) BY <1>3, <1>4 DEF Plain, Within, Whole
<1> QED BY <1>5 DEF listed

LEMMA PostOwns ==
  ASSUME Owned, NEW w \in Workers,
         \/ Count(w) \/ ReadPage(w) \/ Accept(w) \/ Outage(w)
         \/ Refuse(w) \/ MarkDeleted(w) \/ ReadPosted(w) \/ MarkSynced(w)
  PROVE  Frame(w) /\ Owns(w)'
<1> USE SummaryAssumption
<1>a. TypeOK /\ Fit /\ Owns(w) BY DEF Owned, Typed
<1>b. held[w] \in SUBSET Expenses /\ DOMAIN copy[w] \subseteq held[w] BY WritableOwned
<1>c. script[w] # << >> /\ Now(w).do = "post" /\ UNCHANGED <<member, isSkipped>>
  BY DEF Count, ReadPage, Accept, Outage, Refuse, MarkDeleted, ReadPosted, MarkSynced, Doing, dbVars
<1>d. Now(w) \in Plain(held[w]) /\ Tail(script[w]) \in Seq(Plain(held[w])) BY <1>c, NowOwned
\* steps that neither change the script nor the batches
<1>e. ASSUME UNCHANGED <<script, held, batches, count, off, due>>, Now(w).group = NoGroup,
             \A e \in Expenses \ held[w] : Untouched(e),
             \A v \in Workers \ {w} : at'[v] = at[v] /\ copy'[v] = copy[v],
             at'[w] \in {"mark", "marking", "refused"},
             DOMAIN copy'[w] \subseteq held[w],
             at'[w] = "mark" => DOMAIN copy'[w] = {},
             at'[w] = "marking" => DOMAIN copy'[w] = Batch(w)
      PROVE  Frame(w) /\ Owns(w)'
  <2>1. Frame(w) BY <1>c, <1>e, StayFrame
  <2>2. Work(w)' BY <1>a, <1>c, <1>e, PlainKept DEF Owns, Work
  <2>3. Now(w)' = Now(w) /\ Batch(w)' = Batch(w) BY <1>e DEF Now, Batch
  <2>4. InPlace(w)' BY <1>c, <1>e, <2>3 DEF InPlace, Posting
  <2>5. batches'[w] \in Seq(Payloads(held[w])') BY <1>a, <1>e DEF Owns, Payloads
  <2> QED BY <1>e, <2>1, <2>2, <2>4, <2>5 DEF Owns
<1>1. CASE Count(w)
  <2>p. PICK op : op = [Now(w) EXCEPT !.ids = Scope(Now(w)), !.group = NoGroup] OBVIOUS
  <2>1. /\ UNCHANGED <<summary, fyle, prev, batches, off>> /\ at[w] = "next" /\ batches[w] = << >>
    BY <1>1, <1>a DEF Count, Doing, dbVars, fyleVars, Owns, InPlace
  <2>2. \A e \in Expenses \ held[w] : Untouched(e) BY <1>c, <2>1 DEF Untouched
  <2>3. CASE Cardinality(Matching(op)) = 0
    <3>1. GoOn(w, Tail(script[w])) /\ UNCHANGED <<count, due>> BY <1>1, <2>3, <2>p DEF Count
    <3>2. Frame(w) BY <1>c, <2>1, <2>2, <3>1, GoOnFrame
    <3>3. held'[w] = IF Tail(script[w]) = << >> THEN {} ELSE held[w] BY <1>a, <3>1, GoOnMoves
    <3>4. Tail(script[w]) # << >> => Tail(script[w]) \in Seq(Plain(held[w])')
      BY <1>c, <1>d, <3>3, PlainKept
    <3>5. Owns(w)' BY <2>1, <3>1, <3>4, GoOnOwns
    <3> QED BY <3>2, <3>5
  <2>4. CASE Cardinality(Matching(op)) # 0
    <3>1. /\ script' = [script EXCEPT ![w] = <<op>> \o Tail(@)]
          /\ at' = [at EXCEPT ![w] = "page"] /\ UNCHANGED <<copy, held>>
          /\ count' = [count EXCEPT ![w] = Cardinality(Matching(op))]
          /\ due' = [due EXCEPT ![w] = Matching(op)]
      BY <1>1, <2>4, <2>p DEF Count
    <3>2. op \in Plain(held[w]) /\ op.do = "post" /\ op.group = NoGroup
      <4>p. PICK H : H = held[w] OBVIOUS
      <4>1. op \in Plain(H)
        BY <1>a, <1>b, <1>c, <1>d, <2>p, <4>p, ListedOwned DEF TypeOK
      <4>2. Now(w) \in Op BY <1>d DEF Plain
      <4> QED BY <1>c, <2>p, <4>1, <4>2, <4>p DEF Op
    <3>3. /\ script'[w] = <<op>> \o Tail(script[w]) /\ at'[w] = "page"
          /\ \A v \in Workers \ {w} : /\ script'[v] = script[v] /\ at'[v] = at[v]
                                      /\ count'[v] = count[v] /\ due'[v] = due[v]
      BY <1>a, <3>1 DEF TypeOK, LocalsOK, PostOK
    <3>4. Frame(w)
      <4>1. Alone(w) BY <2>1, <3>1, <3>3 DEF Alone, Same
      <4>2. \A v \in Workers \ {w} : held'[w] \cap held[v] = {} BY <3>1, HeldApart
      <4> QED BY <1>c, <2>2, <4>1, <4>2 DEF Frame
    <3>5. Work(w)'
      <4>1. <<op>> \o Tail(script[w]) \in Seq(Plain(held[w]))
        <5>1. <<op>> \in Seq(Plain(held[w])) BY <3>2, ScriptOf
        <5> QED BY <1>d, <5>1, JoinOf
      <4> QED BY <1>c, <3>1, <3>3, <4>1, PlainKept DEF Work
    <3>6. Now(w)' = op
      <4>1. <<op>> \in Seq(Op) /\ <<op>> # << >> /\ Head(<<op>>) = op /\ Tail(script[w]) \in Seq(Op)
        <5>1. op \in Op BY <3>2 DEF Plain
        <5> QED BY <1>a, <1>c, <5>1, NowTyped, ScriptOf DEF TypeOK
      <4>2. Head(<<op>> \o Tail(script[w])) = op BY <4>1, ConcatProperties
      <4> QED BY <3>3, <4>2 DEF Now
    <3>7. InPlace(w)'
      <4>1. script'[w] # << >> BY <1>a, <1>c, <3>2, <3>3, NowTyped, ConcatProperties DEF TypeOK, Plain
      <4>2. DOMAIN copy'[w] = {} BY <1>a, <2>1, <3>1 DEF Owns, InPlace
      <4> QED BY <3>2, <3>3, <3>6, <4>1, <4>2 DEF InPlace, Posting
    <3>8. batches'[w] \in Seq(Payloads(held[w])') BY <1>a, <2>1, <3>1 DEF Owns, Payloads
    <3> QED BY <1>b, <3>1, <3>4, <3>5, <3>7, <3>8 DEF Owns
  <2> QED BY <2>3, <2>4
<1>f. ~Count(w) => Now(w).group = NoGroup
  BY <1>a DEF ReadPage, Accept, Outage, Refuse, MarkDeleted, ReadPosted, MarkSynced, Doing,
              Owns, InPlace, Posting
<1>2. CASE ReadPage(w)
  <2>p. PICK P, payload, left :
          /\ P = Page(Now(w), off[w])
          /\ payload = [e \in P |-> summary[e].state]
          /\ left = IF P = {} THEN batches[w] ELSE Append(batches[w], payload)
    OBVIOUS
  <2>1. Now(w).group = NoGroup /\ UNCHANGED <<summary, fyle, prev, due>>
        /\ Continue(w, off[w] + PageSize, count[w], left)
    BY <1>2, <1>a, <2>p DEF ReadPage, Doing, dbVars, fyleVars, Owns, InPlace
  <2>2. P \subseteq held[w] BY <1>c, <1>d, <2>1, <2>p, MatchingOwned DEF Page
  <2>3. payload \in Payloads(held[w])
    <3>1. P \in SUBSET Expenses BY <1>b, <2>2
    <3>2. payload \in Partial(States) BY <1>a, <2>p, <3>1, CopyTyped DEF TypeOK
    <3> QED BY <2>2, <2>p, <3>2 DEF Payloads
  <2>4. left \in Seq(Payloads(held[w]))
    <3>1. batches[w] \in Seq(Payloads(held[w])) BY <1>a DEF Owns
    <3> QED BY <2>3, <2>p, <3>1, AppendProperties
  <2>5. \A e \in Expenses \ held[w] : Untouched(e) BY <1>c, <2>1 DEF Untouched
  <2>q. PICK o, n : o = off[w] + PageSize /\ n = count[w] OBVIOUS
  <2> QED BY <1>c, <2>1, <2>4, <2>5, <2>q, ContinueOwns
<1>3. CASE Accept(w)
  <2>1. /\ batches[w] # << >> /\ Now(w).group = NoGroup /\ fyle' = Told(w) /\ at[w] = "send"
        /\ at' = [at EXCEPT ![w] = "mark"] /\ UNCHANGED <<summary, prev>>
        /\ UNCHANGED <<script, held, copy, batches, count, off, due>>
    BY <1>3, <1>a DEF Accept, Doing, dbVars, postVars, Fit, Posting, Owns, InPlace
  <2>2. Batch(w) \subseteq held[w] BY <2>1, BatchOwned
  <2>3. \A e \in Expenses \ held[w] : Untouched(e) BY <1>c, <2>1, <2>2 DEF Untouched, Told
  <2>4. DOMAIN copy[w] = {} BY <1>a, <2>1 DEF Owns, InPlace
  <2>5. at'[w] = "mark" /\ \A v \in Workers \ {w} : at'[v] = at[v]
    BY <1>a, <2>1 DEF TypeOK, LocalsOK
  <2> QED BY <1>e, <2>1, <2>3, <2>4, <2>5
<1>4. CASE Refuse(w)
  <2>1. /\ batches[w] # << >> /\ Now(w).group = NoGroup /\ UNCHANGED <<summary, prev, fyle>>
        /\ copy' = [copy EXCEPT ![w] = [e \in Batch(w) \cap gone |-> summary[e]]]
        /\ at' = [at EXCEPT ![w] = "refused"]
        /\ UNCHANGED <<script, held, batches, count, off, due>>
    BY <1>4, <1>a DEF Refuse, Doing, dbVars, fyleVars, postVars, Fit, Posting, Owns, InPlace
  <2>2. Batch(w) \subseteq held[w] BY <2>1, BatchOwned
  <2>3. \A e \in Expenses \ held[w] : Untouched(e) BY <1>c, <2>1 DEF Untouched
  <2>4. /\ at'[w] = "refused" /\ DOMAIN copy'[w] = Batch(w) \cap gone
        /\ \A v \in Workers \ {w} : at'[v] = at[v] /\ copy'[v] = copy[v]
    BY <1>a, <2>1 DEF TypeOK, LocalsOK
  <2> QED BY <1>e, <2>1, <2>2, <2>3, <2>4
<1>5. CASE ReadPosted(w)
  <2>1. /\ batches[w] # << >> /\ Now(w).group = NoGroup /\ UNCHANGED <<summary, prev, fyle>>
        /\ copy' = [copy EXCEPT ![w] = [e \in Batch(w) |-> summary[e]]]
        /\ at' = [at EXCEPT ![w] = "marking"]
        /\ UNCHANGED <<script, held, batches, count, off, due>>
    BY <1>5, <1>a DEF ReadPosted, Doing, dbVars, fyleVars, postVars, Fit, Posting, Owns, InPlace
  <2>2. Batch(w) \subseteq held[w] BY <2>1, BatchOwned
  <2>3. \A e \in Expenses \ held[w] : Untouched(e) BY <1>c, <2>1 DEF Untouched
  <2>4. /\ at'[w] = "marking" /\ DOMAIN copy'[w] = Batch(w)
        /\ \A v \in Workers \ {w} : at'[v] = at[v] /\ copy'[v] = copy[v]
    BY <1>a, <2>1 DEF TypeOK, LocalsOK
  <2> QED BY <1>e, <2>1, <2>2, <2>3, <2>4
<1>6. CASE Outage(w) \/ MarkDeleted(w) \/ MarkSynced(w)
  <2>1. /\ batches[w] # << >> /\ Now(w).group = NoGroup
        /\ Continue(w, off[w], count[w], Tail(batches[w]))
        /\ due' = [due EXCEPT ![w] = @ \ Batch(w)]
    BY <1>6, <1>a DEF Outage, MarkDeleted, MarkSynced, Doing, Fit, Posting, Owns, InPlace
  <2>2. Batch(w) \subseteq held[w] /\ Tail(batches[w]) \in Seq(Payloads(held[w]))
    BY <2>1, BatchOwned
  <2>3. \A e \in Expenses \ held[w] : Untouched(e)
    <3>1. CASE Outage(w)
      BY <1>c, <2>2, <3>1 DEF Outage, Untouched, Told, dbVars
    <3>2. CASE MarkDeleted(w) BY <1>b, <1>c, <3>2 DEF MarkDeleted, Untouched, fyleVars
    <3>3. CASE MarkSynced(w) BY <1>b, <1>c, <3>3 DEF MarkSynced, Untouched, fyleVars
    <3> QED BY <1>6, <3>1, <3>2, <3>3
  <2>4. \A v \in Workers \ {w} : due'[v] = due[v] BY <1>a, <2>1 DEF TypeOK, PostOK
  <2>q. PICK o, n, left : o = off[w] /\ n = count[w] /\ left = Tail(batches[w]) OBVIOUS
  <2> QED BY <1>c, <2>1, <2>2, <2>3, <2>4, <2>q, ContinueOwns
<1> QED BY <1>1, <1>2, <1>3, <1>4, <1>5, <1>6

LEMMA CrashOwns ==
  ASSUME Owned, NEW w \in Workers, Crash(w)
  PROVE  Frame(w) /\ Owns(w)'
<1>a. TypeOK BY DEF Owned, Typed
<1>1. /\ GoOn(w, << >>) /\ UNCHANGED <<member, summary, isSkipped, fyle, prev>>
      /\ batches'[w] = << >>
      /\ \A v \in Workers \ {w} : /\ count'[v] = count[v] /\ off'[v] = off[v]
                                  /\ batches'[v] = batches[v] /\ due'[v] = due[v]
  BY <1>a DEF Crash, dbVars, fyleVars, TypeOK, PostOK
<1>2. \A e \in Expenses \ held[w] : Untouched(e) BY <1>1 DEF Untouched
<1>3. Frame(w) BY <1>1, <1>2, GoOnFrame
<1> QED BY <1>1, <1>3, GoOnOwns

\* One worker moves, or an expense vanishes from Fyle, or nothing happens.
LEMMA WorkerOwns ==
  ASSUME Owned, ~Overlap, NEW w \in Workers, Start(w) \/ Step(w) \/ Crash(w)
  PROVE  Frame(w) /\ Owns(w)'
  BY StartOwns, UpdateOwns, OutcomeOwns, PostOwns, CrashOwns DEF Step

Quiet == UNCHANGED <<dbVars, fyle, abandoned, localVars, postVars>>

LEMMA NextMoves ==
  ASSUME [Next]_vars
  PROVE  (\E w \in Workers : Start(w) \/ Step(w) \/ Crash(w)) \/ Quiet
  BY DEF Next, Vanish, vars, fyleVars, Quiet

LEMMA OwnedStep == ASSUME ~Overlap PROVE Owned /\ [Next]_vars => Owned'
<1> SUFFICES ASSUME Owned, [Next]_vars PROVE Owned'
  OBVIOUS
<1>1. Typed' BY TypedStep DEF Owned
<1>2. ASSUME NEW w \in Workers, Start(w) \/ Step(w) \/ Crash(w) PROVE Owned'
  BY <1>1, <1>2, WorkerOwns, MoveOwns
<1>3. CASE Quiet
  <2>1. ASSUME NEW w \in Workers PROVE Owns(w)'
    <3>u. UNCHANGED <<script, at, copy, held, batches, member>>
      BY <1>3 DEF Quiet, dbVars, localVars, postVars
    <3>1. Owns(w) BY DEF Owned
    <3>2. Plain(held[w])' = Plain(held[w]) BY <3>u, PlainKept
    <3>3. Work(w)' BY <3>u, <3>1, <3>2 DEF Owns, Work
    <3>4. InPlace(w)' BY <3>u, <3>1 DEF Owns, InPlace, Now, Batch
    <3> QED BY <3>u, <3>1, <3>3, <3>4 DEF Owns, Payloads
  <2> QED BY <1>1, <1>3, <2>1 DEF Owned, Disjoint, Quiet, localVars
<1> QED BY <1>2, <1>3, NextMoves

LEMMA OwnedInit == Init => Owned
<1> SUFFICES ASSUME Init PROVE Owned
  OBVIOUS
<1>1. ASSUME NEW w \in Workers PROVE Owns(w)
  <2>1. /\ script[w] = << >> /\ at[w] = "next" /\ batches[w] = << >> /\ DOMAIN copy[w] = {}
    BY NoCopyTyped DEF Init
  <2> QED BY <2>1 DEF Owns, Work, InPlace, Posting
<1> QED BY <1>1, TypedInit DEF Owned, Disjoint, Init

LEMMA OwnedAlways == ASSUME ~Overlap PROVE Spec => []Owned
<1>1. Owned /\ [Next]_vars => Owned' BY OwnedStep
<1> QED BY <1>1, OwnedInit, PTL DEF Spec

-----------------------------------------------------------------------------
(* What a worker has read is still so when it writes or posts it.          *)

\* A payload tells the states of the summaries, those deleted meanwhile aside.
Currents == {p \in Partial(States) : \A e \in DOMAIN p : summary[e].state \in {p[e], "DELETED"}}

CopyCurrent(w) == \A e \in DOMAIN copy[w] : copy[w][e] = summary[e]

Current(w) ==
    /\ CopyCurrent(w)
    /\ batches[w] \in Seq(Currents)
    /\ at[w] \in {"mark", "marking"} => \A e \in Batch(w) : fyle[e] = Head(batches[w])[e]

AllCurrent == SyncedIsPosted /\ \A w \in Workers : Current(w)

LEMMA SeqOfBoth ==
  ASSUME NEW A, NEW B, NEW s \in Seq(A), s \in Seq(B) PROVE s \in Seq(A \cap B)
  OBVIOUS

\* Summaries that keep their state, or are deleted, leave payloads current.
LEMMA PayloadsCurrent ==
  ASSUME NEW H \in SUBSET Expenses, NEW s \in Seq(Payloads(H)), s \in Seq(Currents),
         \A e \in H : summary'[e].state \in {summary[e].state, "DELETED"}
  PROVE  s \in Seq(Currents')
<1>1. s \in Seq(Payloads(H) \cap Currents) BY SeqOfBoth
<1>2. Payloads(H) \cap Currents \subseteq Currents' BY DEF Payloads, Currents
<1> QED BY <1>1, <1>2, Wider

LEMMA OthersCurrent ==
  ASSUME Owned, AllCurrent, NEW w \in Workers, Frame(w), NEW v \in Workers \ {w}
  PROVE  Current(v)'
<1>1. Same(v) /\ Current(v) /\ Owns(v) BY DEF Frame, Alone, AllCurrent, Owned
<1>2. held[v] \in SUBSET Expenses /\ held[v] \cap held[w] = {}
  BY DEF Owned, Typed, TypeOK, LocalsOK, Disjoint
<1>3. \A e \in held[v] : summary'[e] = summary[e] /\ fyle'[e] = fyle[e]
  BY <1>2 DEF Frame, Untouched
<1>4. CopyCurrent(v)' BY <1>1, <1>3 DEF Current, CopyCurrent, Owns, Same
<1>5. batches'[v] \in Seq(Currents')
  <2>1. \A e \in held[v] : summary'[e].state \in {summary[e].state, "DELETED"} BY <1>3
  <2>p. PICK H, s : H = held[v] /\ s = batches[v] OBVIOUS
  <2>2. s \in Seq(Currents') BY <1>1, <1>2, <2>1, <2>p, PayloadsCurrent DEF Owns, Current
  <2> QED BY <1>1, <2>2, <2>p DEF Same
<1>6. ASSUME at[v] \in {"mark", "marking"}
      PROVE  \A e \in Batch(v) : fyle'[e] = Head(batches[v])[e]
  <2>1. batches[v] # << >> BY <1>6 DEF Owned, Typed, Fit, Posting
  <2>2. Batch(v) \subseteq held[v] BY <2>1, BatchOwned
  <2> QED BY <1>1, <1>3, <1>6, <2>2 DEF Current
<1> QED BY <1>1, <1>4, <1>5, <1>6 DEF Current, Same, Batch

\* Outside its post, a worker has only its copies.
LEMMA UnpostedCurrent ==
  ASSUME Owned', NEW w \in Workers, at'[w] \in {"next", "write"}, CopyCurrent(w)'
  PROVE  Current(w)'
<1>1. batches'[w] = << >> BY DEF Owned, Owns, InPlace
<1> QED BY <1>1 DEF Current

LEMMA NextHasNoCopy ==
  ASSUME Owned', NEW w \in Workers, at'[w] \in {"next", "page", "send", "mark"}
  PROVE  CopyCurrent(w)'
  BY DEF Owned, Owns, InPlace, CopyCurrent

LEMMA QuietSynced ==
  ASSUME SyncedIsPosted, UNCHANGED <<fyle, prev>>,
         \A e \in Expenses : summary'[e] = summary[e] \/ ~summary'[e].synced
                                                      \/ summary'[e].state = "DELETED"
  PROVE  SyncedIsPosted'
  BY DEF SyncedIsPosted

\* Summaries that were read and those that were written.
LEMMA StartCurrent ==
  ASSUME Owned, Owned', AllCurrent, NEW w \in Workers, Start(w)
  PROVE  SyncedIsPosted' /\ Current(w)'
<1>a. TypeOK BY DEF Owned, Typed
<1>1. UNCHANGED <<summary, fyle, prev>>
  BY DEF Start, StartExport, StartSkippedExport, StartSkip, StartStuckCheck, StartPostAll,
         dbVars, fyleVars
<1>2. SyncedIsPosted' BY <1>1, QuietSynced DEF AllCurrent
<1>3. at[w] = "next" /\ CopyCurrent(w)
  BY DEF Start, StartExport, StartSkippedExport, StartSkip, StartStuckCheck, StartPostAll,
         Idle, Owned, Owns, InPlace, AllCurrent, Current
<1>4. CASE \E E, ops, all : StartWriting(w, E, ops, all)
  <2>1. PICK E, ops, all : StartWriting(w, E, ops, all) BY <1>4
  <2>2. at'[w] = "write" /\ copy'[w] = [e \in E |-> summary[e]]
    BY <1>a, <2>1 DEF StartWriting, TypeOK, LocalsOK
  <2>3. CopyCurrent(w)' BY <1>1, <2>2 DEF CopyCurrent
  <2> QED BY <1>2, <2>2, <2>3, UnpostedCurrent
<1>5. CASE UNCHANGED <<at, copy>>
  <2>1. CopyCurrent(w)' BY <1>1, <1>3, <1>5 DEF CopyCurrent
  <2> QED BY <1>2, <1>3, <1>5, <2>1, UnpostedCurrent
<1>6. (\E E, ops, all : StartWriting(w, E, ops, all)) \/ UNCHANGED <<at, copy>>
  BY DEF Start, StartExport, StartSkippedExport, StartSkip, StartStuckCheck, StartPostAll
<1> QED BY <1>4, <1>5, <1>6

\* A deleted expense stays deleted in a step.
Final == \A e \in Expenses : summary[e].state = "DELETED" => summary'[e].state = "DELETED"

LEMMA UpdateCurrent ==
  ASSUME Owned, Owned', AllCurrent, NEW w \in Workers,
         Read(w) \/ Write(w) \/ ReadSkipped(w) \/ WriteSkipped(w) \/ Leave(w)
  PROVE  SyncedIsPosted' /\ Current(w)' /\ Final
<1>a. TypeOK BY DEF Owned, Typed
<1>b. \A e \in Writable(w) : summary[e].state # "DELETED"
  BY DEF AllCurrent, Current, CopyCurrent, Writable
<1>1. CASE Write(w) \/ WriteSkipped(w)
  <2>1. UNCHANGED <<fyle, prev>>
        /\ \A e \in Expenses : \/ summary'[e] = summary[e]
                               \/ e \in Writable(w) /\ ~summary'[e].synced
    BY <1>1 DEF Write, WriteSkipped, fyleVars, Unsynced
  <2>2. SyncedIsPosted' BY <2>1, QuietSynced DEF AllCurrent
  <2>3. Final BY <1>b, <2>1 DEF Final
  <2>4. PICK ops : GoOn(w, ops) BY <1>1 DEF Write, WriteSkipped
  <2>5. at'[w] = "next" BY <1>a, <2>4, GoOnMoves
  <2> QED BY <2>2, <2>3, <2>5, NextHasNoCopy, UnpostedCurrent
<1>2. CASE Read(w) \/ ReadSkipped(w) \/ Leave(w)
  <2>1. UNCHANGED <<summary, fyle, prev>> BY <1>2 DEF Read, ReadSkipped, Leave, dbVars, fyleVars
  <2>2. SyncedIsPosted' /\ Final BY <2>1, QuietSynced DEF AllCurrent, Final
  <2>3. CASE \E ops : GoOn(w, ops)
    <3>1. at'[w] = "next" BY <1>a, <2>3, GoOnMoves
    <3> QED BY <2>2, <3>1, NextHasNoCopy, UnpostedCurrent
  <2>4. CASE \E E : /\ copy' = [copy EXCEPT ![w] = [e \in E |-> summary[e]]]
                    /\ at' = [at EXCEPT ![w] = "write"]
    <3>1. PICK E : copy'[w] = [e \in E |-> summary[e]] /\ at'[w] = "write"
      BY <1>a, <2>4 DEF TypeOK, LocalsOK
    <3>2. CopyCurrent(w)' BY <2>1, <3>1 DEF CopyCurrent
    <3> QED BY <2>2, <3>1, <3>2, UnpostedCurrent
  <2>5. \/ \E ops : GoOn(w, ops)
        \/ \E E : /\ copy' = [copy EXCEPT ![w] = [e \in E |-> summary[e]]]
                  /\ at' = [at EXCEPT ![w] = "write"]
    BY <1>2 DEF Read, ReadSkipped, Leave
  <2> QED BY <2>3, <2>4, <2>5
<1> QED BY <1>1, <1>2

LEMMA OutcomeCurrent ==
  ASSUME Owned, Owned', AllCurrent, NEW w \in Workers,
         Succeed(w) \/ Fail(w) \/ Fault(w) \/ CannotSave(w) \/ Crash(w)
  PROVE  SyncedIsPosted' /\ Current(w)' /\ Final
<1>1. UNCHANGED <<summary, fyle, prev>>
  BY DEF Succeed, Fail, Fault, CannotSave, Crash, dbVars, fyleVars
<1>2. PICK ops : GoOn(w, ops) BY DEF Succeed, Fail, Fault, CannotSave, Crash
<1>3. at'[w] = "next" BY <1>2, GoOnMoves DEF Owned, Typed
<1>4. SyncedIsPosted' /\ Final BY <1>1, QuietSynced DEF AllCurrent, Final
<1> QED BY <1>3, <1>4, NextHasNoCopy, UnpostedCurrent

\* The post goes on with payloads that are current.
LEMMA ContinueCurrent ==
  ASSUME Owned, Owned', NEW w \in Workers, NEW o, NEW n, NEW left, Continue(w, o, n, left),
         left \in Seq(Currents')
  PROVE  Current(w)'
<1>a. TypeOK BY DEF Owned, Typed
<1>1. batches'[w] = left BY <1>a DEF Continue, TypeOK, PostOK
<1>2. at'[w] \in {"next", "page", "send"}
  BY <1>a DEF Continue, GoOn, Onward, TypeOK, LocalsOK
<1> QED BY <1>1, <1>2, NextHasNoCopy DEF Current

\* The first batch of a post tells what the summaries say.
LEMMA BatchCurrent ==
  ASSUME Owned, AllCurrent, NEW w \in Workers, batches[w] # << >>
  PROVE  /\ \A e \in Batch(w) : summary[e].state \in {Head(batches[w])[e], "DELETED"}
         /\ Tail(batches[w]) \in Seq(Currents)
<1>1. batches[w] \in Seq(Currents) BY DEF AllCurrent, Current
<1>2. Head(batches[w]) \in Currents /\ Tail(batches[w]) \in Seq(Currents)
  BY <1>1, HeadTailProperties
<1> QED BY <1>2 DEF Currents, Batch

\* What Fyle is told is what the summaries that are synced say.
LEMMA ToldSynced ==
  ASSUME Owned, AllCurrent, NEW w \in Workers, batches[w] # << >>, fyle' \in {fyle, Told(w)},
         UNCHANGED <<summary, prev>>
  PROVE  SyncedIsPosted'
<1>1. ASSUME NEW e \in Expenses, summary[e].synced, summary[e].state \notin {"NONE", "DELETED"}
      PROVE  fyle'[e] = summary[e].state
  <2>1. fyle[e] = summary[e].state BY <1>1 DEF AllCurrent, SyncedIsPosted
  <2>2. e \in Batch(w) => Head(batches[w])[e] = summary[e].state BY <1>1, BatchCurrent
  <2> QED BY <2>1, <2>2 DEF Told
<1> QED BY <1>1 DEF AllCurrent, SyncedIsPosted

LEMMA PostCurrent ==
  ASSUME Owned, Owned', AllCurrent, NEW w \in Workers,
         \/ Count(w) \/ ReadPage(w) \/ Accept(w) \/ Outage(w)
         \/ Refuse(w) \/ MarkDeleted(w) \/ ReadPosted(w) \/ MarkSynced(w)
  PROVE  SyncedIsPosted' /\ Current(w)' /\ Final
<1>a. TypeOK /\ Fit /\ Current(w) /\ Owns(w) /\ SyncedIsPosted
  BY DEF Owned, Typed, AllCurrent
<1>b. CopyCurrent(w) /\ batches[w] \in Seq(Currents) BY <1>a DEF Current
<1>c. held[w] \in SUBSET Expenses /\ DOMAIN copy[w] \subseteq held[w] BY WritableOwned
<1>1. CASE Count(w)
  <2>1. UNCHANGED <<summary, fyle, prev, batches>> BY <1>1 DEF Count, dbVars, fyleVars
  <2>2. SyncedIsPosted' /\ Final BY <1>a, <2>1, QuietSynced DEF Final
  <2>3. at'[w] \in {"next", "page"} BY <1>1, <1>a DEF Count, GoOn, TypeOK, LocalsOK
  <2>4. CopyCurrent(w)' BY <2>3, NextHasNoCopy
  <2> QED BY <1>b, <2>1, <2>2, <2>3, <2>4 DEF Current, Currents
<1>2. CASE ReadPage(w)
  <2>p. PICK P, payload, left :
          /\ P = Page(Now(w), off[w])
          /\ payload = [e \in P |-> summary[e].state]
          /\ left = IF P = {} THEN batches[w] ELSE Append(batches[w], payload)
    OBVIOUS
  <2>1. UNCHANGED <<summary, fyle, prev>> /\ Continue(w, off[w] + PageSize, count[w], left)
    BY <1>2, <2>p DEF ReadPage, dbVars, fyleVars
  <2>2. SyncedIsPosted' /\ Final BY <1>a, <2>1, QuietSynced DEF Final
  <2>3. payload \in Currents
    <3>1. P \in SUBSET Expenses BY <2>p DEF Page, Matching
    <3>2. payload \in Partial(States) BY <1>a, <2>p, <3>1, CopyTyped DEF TypeOK
    <3> QED BY <2>p, <3>2 DEF Currents
  <2>4. left \in Seq(Currents) BY <1>b, <2>3, <2>p, AppendProperties
  <2>5. left \in Seq(Currents') BY <2>1, <2>4 DEF Currents
  <2>q. PICK o, n : o = off[w] + PageSize /\ n = count[w] OBVIOUS
  <2> QED BY <2>1, <2>2, <2>5, <2>q, ContinueCurrent
<1>3. CASE Accept(w)
  <2>1. /\ batches[w] # << >> /\ fyle' = Told(w) /\ UNCHANGED <<summary, prev, batches>>
        /\ at'[w] = "mark"
    BY <1>3, <1>a DEF Accept, Doing, dbVars, postVars, Fit, Posting, TypeOK, LocalsOK
  <2>2. SyncedIsPosted' BY <2>1, ToldSynced
  <2>3. \A e \in Batch(w) : fyle'[e] = Head(batches[w])[e]
    <3>1. Batch(w) \subseteq Expenses BY <1>a, <2>1, BatchTyped DEF TypeOK
    <3> QED BY <2>1, <3>1 DEF Told
  <2>4. CopyCurrent(w)' BY <2>1, NextHasNoCopy
  <2>5. Final BY <2>1 DEF Final
  <2> QED BY <1>b, <2>1, <2>2, <2>3, <2>4, <2>5 DEF Current, Currents, Batch
<1>4. CASE Refuse(w) \/ ReadPosted(w)
  <2>1. PICK E : /\ copy' = [copy EXCEPT ![w] = [e \in E |-> summary[e]]]
                 /\ UNCHANGED <<summary, fyle, prev, batches>>
    BY <1>4 DEF Refuse, ReadPosted, dbVars, fyleVars, postVars
  <2>2. SyncedIsPosted' /\ Final BY <1>a, <2>1, QuietSynced DEF Final
  <2>3. CopyCurrent(w)' BY <1>a, <2>1 DEF CopyCurrent, TypeOK, LocalsOK
  <2>4. at'[w] = "refused" \/ (at'[w] = "marking" /\ at[w] = "mark")
    BY <1>4, <1>a DEF Refuse, ReadPosted, Doing, TypeOK, LocalsOK
  <2> QED BY <1>a, <2>1, <2>2, <2>3, <2>4 DEF Current, Currents, Batch
<1>5. CASE Outage(w) \/ MarkDeleted(w) \/ MarkSynced(w)
  <2>1. batches[w] # << >> /\ Continue(w, off[w], count[w], Tail(batches[w]))
    BY <1>5, <1>a DEF Outage, MarkDeleted, MarkSynced, Doing, Fit, Posting
  <2>2. \A e \in DOMAIN copy[w] : /\ [copy[w][e] EXCEPT !.synced = TRUE].state = copy[w][e].state
                                  /\ copy[w][e] = summary[e]
    <3>1. \A e \in DOMAIN copy[w] : copy[w][e] \in Summary BY <1>a DEF TypeOK, LocalsOK, Partial
    <3> QED BY <1>b, <3>1, SyncedTyped DEF CopyCurrent
  <2>3. \A e \in Expenses : summary'[e].state \in {summary[e].state, "DELETED"}
    <3>1. CASE Outage(w) BY <3>1 DEF Outage, dbVars
    <3>2. CASE MarkDeleted(w) BY <3>2 DEF MarkDeleted, Deleted
    <3>3. CASE MarkSynced(w) BY <2>2, <3>3 DEF MarkSynced
    <3> QED BY <1>5, <3>1, <3>2, <3>3
  <2>4. Final BY <2>3 DEF Final
  <2>p. PICK H, s, o, n : H = held[w] /\ s = Tail(batches[w]) /\ o = off[w] /\ n = count[w] OBVIOUS
  <2>5. s \in Seq(Payloads(H)) /\ s \in Seq(Currents) BY <2>1, <2>p, BatchOwned, BatchCurrent
  <2>6. s \in Seq(Currents') BY <1>c, <2>3, <2>5, <2>p, PayloadsCurrent
  <2>7. Current(w)' BY <2>1, <2>6, <2>p, ContinueCurrent
  <2>8. SyncedIsPosted'
    <3>1. CASE Outage(w)
      <4>1. fyle' \in {fyle, Told(w)} /\ UNCHANGED <<summary, prev>> BY <3>1 DEF Outage, dbVars
      <4> QED BY <2>1, <4>1, ToldSynced
    <3>2. CASE MarkDeleted(w)
      BY <1>a, <3>2, QuietSynced DEF MarkDeleted, Deleted, fyleVars
    <3>3. CASE MarkSynced(w)
      <4>1. /\ fyle' = fyle /\ DOMAIN copy[w] = Batch(w)
            /\ \A e \in Batch(w) : fyle[e] = Head(batches[w])[e]
        BY <1>a, <3>3 DEF MarkSynced, Doing, fyleVars, Owns, InPlace, Current
      <4>2. ASSUME NEW e \in Expenses, summary'[e].synced,
                   summary'[e].state \notin {"NONE", "DELETED"}
            PROVE  fyle'[e] = summary'[e].state /\ prev'[e] = summary'[e].state
        <5>1. CASE e \in DOMAIN copy[w]
          <6>1. summary'[e].state = summary[e].state /\ prev'[e] = summary[e].state
            BY <2>2, <3>3, <5>1 DEF MarkSynced
          <6>2. Head(batches[w])[e] = summary[e].state
            BY <2>1, <4>1, <4>2, <5>1, <6>1, BatchCurrent
          <6> QED BY <4>1, <5>1, <6>1, <6>2
        <5>2. CASE e \notin DOMAIN copy[w]
          <6>1. summary'[e] = summary[e] /\ prev'[e] = prev[e] BY <3>3, <5>2 DEF MarkSynced
          <6> QED BY <1>a, <4>1, <4>2, <6>1 DEF SyncedIsPosted
        <5> QED BY <5>1, <5>2
      <4> QED BY <4>2 DEF SyncedIsPosted
    <3> QED BY <1>5, <3>1, <3>2, <3>3
  <2> QED BY <2>4, <2>7, <2>8
<1> QED BY <1>1, <1>2, <1>3, <1>4, <1>5

LEMMA CurrentStep ==
  ASSUME ~Overlap
  PROVE  Owned /\ Owned' /\ AllCurrent /\ [Next]_vars => AllCurrent' /\ Final
<1> SUFFICES ASSUME Owned, Owned', AllCurrent, [Next]_vars PROVE AllCurrent' /\ Final
  OBVIOUS
<1>1. ASSUME NEW w \in Workers, Start(w) \/ Step(w) \/ Crash(w) PROVE AllCurrent' /\ Final
  <2>1. SyncedIsPosted' /\ Current(w)' /\ Final
    <3>1. CASE Start(w)
      <4>1. UNCHANGED summary
        BY <3>1 DEF Start, StartExport, StartSkippedExport, StartSkip, StartStuckCheck,
                    StartPostAll, dbVars
      <4> QED BY <3>1, <4>1, StartCurrent DEF Final
    <3> QED BY <1>1, <3>1, UpdateCurrent, OutcomeCurrent, PostCurrent DEF Step
  <2>2. Frame(w) BY <1>1, WorkerOwns
  <2>3. \A v \in Workers : Current(v)' BY <2>1, <2>2, OthersCurrent
  <2> QED BY <2>1, <2>3 DEF AllCurrent
<1>2. CASE Quiet
  <2>1. SyncedIsPosted' /\ Final
    BY <1>2 DEF Quiet, dbVars, AllCurrent, SyncedIsPosted, Final
  <2>2. \A w \in Workers : Current(w)'
    BY <1>2 DEF Quiet, dbVars, localVars, postVars, AllCurrent, Current, CopyCurrent, Currents, Batch
  <2> QED BY <2>1, <2>2 DEF AllCurrent
<1> QED BY <1>1, <1>2, NextMoves

LEMMA CurrentInit == Init => AllCurrent
<1> SUFFICES ASSUME Init PROVE AllCurrent
  OBVIOUS
<1>1. SyncedIsPosted BY DEF Init, SyncedIsPosted, Empty
<1>2. ASSUME NEW w \in Workers PROVE Current(w)
  <2>1. at[w] = "next" /\ batches[w] = << >> /\ DOMAIN copy[w] = {} BY NoCopyTyped DEF Init
  <2> QED BY <2>1 DEF Current, CopyCurrent
<1> QED BY <1>1, <1>2 DEF AllCurrent

LEMMA CurrentAlways == ASSUME ~Overlap PROVE Spec => [](Owned /\ AllCurrent)
<1>1. Owned /\ [Next]_vars => Owned' BY OwnedStep
<1>2. Owned /\ Owned' /\ AllCurrent /\ [Next]_vars => AllCurrent' BY CurrentStep
<1> QED BY <1>1, <1>2, OwnedInit, CurrentInit, PTL DEF Spec

\* Fyle and previous_export_state hold what a synced summary says, for any
\* number of workers that handle different expenses, whatever batches are
\* refused or lost and whichever workers die.
THEOREM SyncedIsTold == ASSUME ~Overlap PROVE Spec => []SyncedIsPosted
<1>1. AllCurrent => SyncedIsPosted BY DEF AllCurrent
<1> QED BY <1>1, CurrentAlways, PTL

\* No update, skip or post of a worker that handles the expense alone revives
\* a deleted one.
THEOREM DeletedStays == ASSUME ~Overlap PROVE Spec => DeletedIsFinal
<1>1. Owned /\ [Next]_vars => Owned' BY OwnedStep
<1>2. Owned /\ Owned' /\ AllCurrent /\ [Next]_vars =>
        [\A e \in Expenses : summary[e].state = "DELETED" => summary'[e].state = "DELETED"]_vars
  BY CurrentStep DEF Final
<1> QED BY <1>1, <1>2, CurrentAlways, PTL DEF Spec, DeletedIsFinal

-----------------------------------------------------------------------------
(* A post deals with every expense it counted.                             *)

Paged(w, e) == \E i \in DOMAIN batches[w] : e \in DOMAIN batches[w][i]

\* The expenses a post counted are those its query still matches while it
\* pages, and those before the offset are in its batches.
Counted(w) ==
    /\ at[w] \in {"next", "write"} => due[w] = {} /\ off[w] = 0
    /\ at[w] = "page" =>
          /\ due[w] = Matching(Now(w)) /\ count[w] = Cardinality(due[w])
          /\ \A e \in due[w] : Rank(e, due[w]) < off[w] => Paged(w, e)
    /\ at[w] \in Posting => off[w] >= count[w] /\ \A e \in due[w] : Paged(w, e)

AllCounted == \A w \in Workers : Counted(w)

\* Fewer expenses come before one of a set than the set has.
LEMMA RankBound ==
  ASSUME NEW S \in SUBSET Expenses, NEW e \in S
  PROVE  Rank(e, S) \in Nat /\ Rank(e, S) < Cardinality(S)
<1> DEFINE T == {x \in S : Id[x] < Id[e]}
<1>1. IsFiniteSet(S) BY SummaryAssumption, FS_Subset
<1>2. T \subseteq S /\ e \notin T
  <2>1. Id[e] \in Nat BY SummaryAssumption
  <2> QED BY <2>1
<1>3. Cardinality(T) \in Nat /\ Cardinality(S) \in Nat /\ Cardinality(T) <= Cardinality(S)
      /\ (Cardinality(T) = Cardinality(S) => T = S)
  BY <1>1, <1>2, FS_Subset, FS_CardinalityType
<1>4. Cardinality(T) # Cardinality(S) BY <1>2, <1>3
<1> HIDE DEF T
<1>5. Cardinality(T) < Cardinality(S) BY <1>3, <1>4
<1> QED BY <1>3, <1>5 DEF Rank, T

\* What an operation matches hangs on the summaries of its job's expenses.
LEMMA MatchingKept ==
  ASSUME NEW H \in SUBSET Expenses, NEW op \in Plain(H), op.do = "post", op.group = NoGroup,
         \A e \in H : summary'[e] = summary[e]
  PROVE  Matching(op)' = Matching(op)
  BY DEF Plain, Within, Whole, Matching

LEMMA OthersCounted ==
  ASSUME Owned, AllCounted, NEW w \in Workers, Frame(w), NEW v \in Workers \ {w}
  PROVE  Counted(v)'
<1>1. Same(v) /\ Counted(v) /\ Owns(v) BY DEF Frame, Alone, AllCounted, Owned
<1>2. held[v] \in SUBSET Expenses /\ held[v] \cap held[w] = {}
  BY DEF Owned, Typed, TypeOK, LocalsOK, Disjoint
<1>3. \A e \in held[v] : summary'[e] = summary[e] BY <1>2 DEF Frame, Untouched
<1>4. ASSUME at[v] = "page" PROVE Matching(Now(v))' = Matching(Now(v))
  <2>1. Now(v).do = "post" /\ Now(v).group = NoGroup /\ script[v] # << >>
    BY <1>1, <1>4 DEF Owns, InPlace
  <2>2. Now(v) \in Plain(held[v]) BY <2>1, NowOwned
  <2>p. PICK H, op : H = held[v] /\ op = Now(v) OBVIOUS
  <2>3. Matching(op)' = Matching(op) BY <1>2, <1>3, <2>1, <2>2, <2>p, MatchingKept
  <2>4. Now(v)' = op BY <1>1, <2>p DEF Same, Now
  <2> QED BY <2>3, <2>4, <2>p
<1> QED BY <1>1, <1>4 DEF Counted, Same, Paged

\* Outside its post, a worker has nothing to deal with.
LEMMA UnpostedCounted ==
  ASSUME Owned, AllCounted, NEW w \in Workers,
         \/ Start(w)
         \/ Read(w) \/ Write(w) \/ ReadSkipped(w) \/ WriteSkipped(w) \/ Leave(w)
         \/ Succeed(w) \/ Fail(w) \/ Fault(w) \/ CannotSave(w) \/ Crash(w)
  PROVE  Counted(w)'
<1>a. TypeOK /\ Owns(w) /\ Counted(w) BY DEF Owned, Typed, AllCounted
<1>1. CASE Crash(w)
  <2>1. at'[w] = "next" /\ due'[w] = {} /\ off'[w] = 0
    BY <1>1, <1>a DEF Crash, GoOn, TypeOK, LocalsOK, PostOK
  <2> QED BY <2>1 DEF Counted, Posting
<1>2. CASE ~Crash(w)
  <2>1. UNCHANGED <<due, off>>
    BY <1>2 DEF Start, StartExport, StartSkippedExport, StartSkip, StartStuckCheck, StartPostAll,
                Read, Write, ReadSkipped, WriteSkipped, Leave, Succeed, Fail, Fault, CannotSave,
                postVars
  <2>2. at[w] \in {"next", "write"}
    BY <1>2, <1>a DEF Start, StartExport, StartSkippedExport, StartSkip, StartStuckCheck,
                StartPostAll, Idle, Read, Write, ReadSkipped, WriteSkipped, Leave,
                Succeed, Fail, Fault, CannotSave, Doing, Owns, InPlace
  <2>3. at' = at \/ at' = [at EXCEPT ![w] = "next"] \/ at' = [at EXCEPT ![w] = "write"]
    BY <1>2 DEF Start, StartExport, StartSkippedExport, StartSkip, StartStuckCheck, StartPostAll,
                StartWriting, Read, Write, ReadSkipped, WriteSkipped, Leave,
                Succeed, Fail, Fault, CannotSave, GoOn
  <2>4. at'[w] \in {"next", "write"} BY <1>a, <2>2, <2>3 DEF TypeOK, LocalsOK
  <2> QED BY <1>a, <2>1, <2>2, <2>4 DEF Counted, Posting
<1> QED BY <1>1, <1>2

\* The rest of the batches has what the first has not.
LEMMA RestPaged ==
  ASSUME TypeOK, NEW w \in Workers, batches[w] # << >>, NEW e, Paged(w, e), e \notin Batch(w),
         batches'[w] = Tail(batches[w])
  PROVE  Paged(w, e)'
<1>p. PICK s : s = batches[w] OBVIOUS
<1>1. s \in Seq(Partial(States)) /\ s # << >> BY <1>p DEF TypeOK, PostOK
<1>2. PICK i \in DOMAIN s : e \in DOMAIN s[i] BY <1>p DEF Paged
<1>3. i # 1 BY <1>1, <1>2, <1>p DEF Batch
<1>4. i - 1 \in DOMAIN Tail(s) /\ Tail(s)[i - 1] = s[i] BY <1>1, <1>2, <1>3
<1> QED BY <1>2, <1>4, <1>p DEF Paged

LEMMA PostCounted ==
  ASSUME Owned, AllCounted, NEW w \in Workers,
         \/ Count(w) \/ ReadPage(w) \/ Accept(w) \/ Outage(w)
         \/ Refuse(w) \/ MarkDeleted(w) \/ ReadPosted(w) \/ MarkSynced(w)
  PROVE  Counted(w)'
<1> USE SummaryAssumption
<1>a. TypeOK /\ Fit /\ Owns(w) /\ Counted(w) BY DEF Owned, Typed, AllCounted
<1>1. CASE Count(w)
  <2>p. PICK op : op = [Now(w) EXCEPT !.ids = Scope(Now(w)), !.group = NoGroup] OBVIOUS
  <2>1. /\ UNCHANGED <<summary, off>> /\ due[w] = {} /\ off[w] = 0 /\ script[w] # << >>
    BY <1>1, <1>a DEF Count, Doing, dbVars, Counted
  <2>2. CASE Cardinality(Matching(op)) = 0
    <3>1. at'[w] = "next" /\ due'[w] = {}
      BY <1>1, <1>a, <2>1, <2>2, <2>p DEF Count, GoOn, TypeOK, LocalsOK
    <3> QED BY <2>1, <3>1 DEF Counted, Posting
  <2>3. CASE Cardinality(Matching(op)) # 0
    <3>1. /\ at'[w] = "page" /\ due'[w] = Matching(op)
          /\ count'[w] = Cardinality(Matching(op)) /\ script'[w] = <<op>> \o Tail(script[w])
      BY <1>1, <1>a, <2>3, <2>p DEF Count, TypeOK, LocalsOK, PostOK
    <3>2. Now(w)' = op
      <4>1. op \in Op /\ Tail(script[w]) \in Seq(Op)
        <5>1. Now(w) \in Op /\ Tail(script[w]) \in Seq(Op) BY <1>a, <2>1, NowTyped DEF TypeOK
        <5>2. Scope(Now(w)) \in SUBSET Expenses BY <1>a, <5>1, ScopeTyped DEF TypeOK
        <5> QED BY <2>p, <5>1, <5>2 DEF Op
      <4>2. <<op>> \in Seq(Op) /\ <<op>> # << >> /\ Head(<<op>>) = op BY <4>1
      <4>3. Head(<<op>> \o Tail(script[w])) = op BY <4>1, <4>2, ConcatProperties
      <4> QED BY <3>1, <4>3 DEF Now
    <3>3. Matching(op)' = Matching(op) BY <2>1 DEF Matching
    <3>4. due'[w] = Matching(Now(w))' BY <3>1, <3>2, <3>3
    <3>5. \A e \in due'[w] : ~(Rank(e, due'[w]) < off'[w])
      <4>p. PICK S : S = due'[w] OBVIOUS
      <4>1. S \in SUBSET Expenses BY <3>1, <4>p DEF Matching
      <4>2. \A e \in S : Rank(e, S) \in Nat BY <4>1, RankBound
      <4> QED BY <2>1, <4>2, <4>p
    <3> QED BY <3>1, <3>4, <3>5 DEF Counted, Posting
  <2> QED BY <2>2, <2>3
<1>2. CASE ReadPage(w)
  <2>s. PICK S, o, n : S = Matching(Now(w)) /\ o = off[w] /\ n = count[w] OBVIOUS
  <2>g. PICK P : P = {e \in S : Rank(e, S) \in o..(o + PageSize - 1)} OBVIOUS
  <2>d. PICK payload : payload = [e \in P |-> summary[e].state] OBVIOUS
  <2>l. PICK left : left = IF P = {} THEN batches[w] ELSE Append(batches[w], payload)
    OBVIOUS
  <2>p. /\ S = Matching(Now(w)) /\ o = off[w] /\ n = count[w]
        /\ P = {e \in S : Rank(e, S) \in o..(o + PageSize - 1)}
        /\ payload = [e \in P |-> summary[e].state]
        /\ left = IF P = {} THEN batches[w] ELSE Append(batches[w], payload)
    BY <2>s, <2>g, <2>d, <2>l
  <2>0. P = Page(Now(w), off[w]) BY <2>p DEF Page
  <2>1. /\ at[w] = "page" /\ UNCHANGED <<summary, due>> /\ Continue(w, o + PageSize, n, left)
        /\ o \in Nat /\ n \in Nat /\ PageSize \in Nat /\ S \in SUBSET Expenses
    BY <1>2, <1>a, <2>p, <2>0 DEF ReadPage, Doing, dbVars, TypeOK, PostOK, Matching
  <2>2. /\ due[w] = S /\ n = Cardinality(S)
        /\ \A e \in S : Rank(e, S) < o => Paged(w, e)
    BY <1>a, <2>p, <2>1 DEF Counted
  <2>3. batches'[w] = left BY <1>a, <2>1 DEF Continue, TypeOK, PostOK
  <2>4. ASSUME NEW e \in S, Rank(e, S) < o + PageSize PROVE Paged(w, e)'
    <3>p. PICK s : s = batches[w] OBVIOUS
    <3>0. s \in Seq(Partial(States)) BY <1>a, <3>p DEF TypeOK, PostOK
    <3>1. CASE Rank(e, S) < o
      <4>1. PICK i \in DOMAIN s : e \in DOMAIN s[i] BY <2>2, <3>1, <3>p DEF Paged
      <4>2. i \in DOMAIN left /\ left[i] = s[i] BY <2>p, <3>0, <3>p, <4>1
      <4> QED BY <2>3, <4>1, <4>2 DEF Paged
    <3>2. CASE ~(Rank(e, S) < o)
      <4>1. Rank(e, S) \in o..(o + PageSize - 1)
        <5>1. Rank(e, S) \in Nat BY <2>1, RankBound
        <5> QED BY <2>1, <2>4, <3>2, <5>1
      <4>2. e \in P BY <2>p, <4>1
      <4>3. left = Append(s, payload) /\ DOMAIN payload = P BY <2>p, <3>p, <4>2
      <4>4. Len(s) + 1 \in DOMAIN left /\ left[Len(s) + 1] = payload BY <3>0, <4>3
      <4> QED BY <2>3, <4>2, <4>3, <4>4 DEF Paged
    <3> QED BY <3>1, <3>2
  <2>5. CASE Onward(o + PageSize, n, left) = "page"
    <3>1. at'[w] = "page" /\ off'[w] = o + PageSize /\ count'[w] = n /\ UNCHANGED script
      BY <1>a, <2>1, <2>5 DEF Continue, TypeOK, LocalsOK, PostOK
    <3>2. Matching(Now(w))' = S BY <2>1, <2>p, <3>1 DEF Matching, Now
    <3> QED BY <2>1, <2>2, <2>4, <3>1, <3>2 DEF Counted, Posting
  <2>6. CASE Onward(o + PageSize, n, left) # "page"
    <3>1. o + PageSize >= n BY <2>1, <2>6 DEF Onward
    <3>2. \A e \in S : Paged(w, e)'
      <4>1. \A e \in S : Rank(e, S) \in Nat /\ Rank(e, S) < n BY <2>1, <2>2, RankBound
      <4>2. \A e \in S : Rank(e, S) < o + PageSize BY <2>1, <3>1, <4>1
      <4> QED BY <2>4, <4>2
    <3>3. CASE left = << >>
      <4>1. S = {} BY <2>3, <3>2, <3>3 DEF Paged
      <4>2. Onward(o + PageSize, n, left) = "next" BY <2>6, <3>3 DEF Onward
      <4>3. at'[w] = "next" /\ off'[w] = 0
        BY <1>a, <2>1, <4>2 DEF Continue, GoOn, TypeOK, LocalsOK, PostOK
      <4> QED BY <2>1, <2>2, <4>1, <4>3 DEF Counted, Posting
    <3>4. CASE left # << >>
      <4>1. Onward(o + PageSize, n, left) = "send" BY <2>6, <3>4 DEF Onward
      <4>2. at'[w] = "send" /\ off'[w] = o + PageSize /\ count'[w] = n
        BY <1>a, <2>1, <4>1 DEF Continue, TypeOK, LocalsOK, PostOK
      <4> QED BY <2>1, <2>2, <3>1, <3>2, <4>2 DEF Counted, Posting
    <3> QED BY <3>3, <3>4
  <2> QED BY <2>5, <2>6
<1>3. CASE Accept(w) \/ Refuse(w) \/ ReadPosted(w)
  <2>1. at[w] \in Posting /\ at'[w] \in Posting /\ UNCHANGED postVars
    BY <1>3, <1>a DEF Accept, Refuse, ReadPosted, Doing, Posting, TypeOK, LocalsOK
  <2> QED BY <1>a, <2>1 DEF Counted, Posting, Paged, postVars
<1>4. CASE Outage(w) \/ MarkDeleted(w) \/ MarkSynced(w)
  <2>p. PICK o, n, left : o = off[w] /\ n = count[w] /\ left = Tail(batches[w]) OBVIOUS
  <2>1. /\ at[w] \in Posting /\ batches[w] # << >> /\ Continue(w, o, n, left)
        /\ due'[w] = due[w] \ Batch(w) /\ o \in Nat /\ n \in Nat
    BY <1>4, <1>a, <2>p DEF Outage, MarkDeleted, MarkSynced, Doing, Posting, Fit, TypeOK, PostOK
  <2>2. o >= n /\ \A e \in due[w] : Paged(w, e) BY <1>a, <2>1, <2>p DEF Counted
  <2>3. batches'[w] = left BY <1>a, <2>1 DEF Continue, TypeOK, PostOK
  <2>4. \A e \in due'[w] : Paged(w, e)' BY <1>a, <2>1, <2>2, <2>3, <2>p, RestPaged
  <2>5. CASE left = << >>
    <3>1. due'[w] = {} BY <2>3, <2>4, <2>5 DEF Paged
    <3>2. Onward(o, n, left) = "next" BY <2>1, <2>2, <2>5 DEF Onward
    <3>3. at'[w] = "next" /\ off'[w] = 0
      BY <1>a, <2>1, <3>2 DEF Continue, GoOn, TypeOK, LocalsOK, PostOK
    <3> QED BY <3>1, <3>3 DEF Counted, Posting
  <2>6. CASE left # << >>
    <3>1. Onward(o, n, left) = "send" BY <2>1, <2>2, <2>6 DEF Onward
    <3>2. at'[w] = "send" /\ off'[w] = o /\ count'[w] = n
      BY <1>a, <2>1, <3>1 DEF Continue, TypeOK, LocalsOK, PostOK
    <3> QED BY <2>2, <2>4, <3>2 DEF Counted, Posting
  <2> QED BY <2>5, <2>6
<1> QED BY <1>1, <1>2, <1>3, <1>4

LEMMA CountedStep == ASSUME ~Overlap PROVE Owned /\ AllCounted /\ [Next]_vars => AllCounted'
<1> SUFFICES ASSUME Owned, AllCounted, [Next]_vars PROVE AllCounted'
  OBVIOUS
<1>1. ASSUME NEW w \in Workers, Start(w) \/ Step(w) \/ Crash(w) PROVE AllCounted'
  <2>1. Counted(w)' BY <1>1, UnpostedCounted, PostCounted DEF Step
  <2>2. Frame(w) BY <1>1, WorkerOwns
  <2>3. \A v \in Workers : Counted(v)' BY <2>1, <2>2, OthersCounted
  <2> QED BY <2>3 DEF AllCounted
<1>2. CASE Quiet
  BY <1>2 DEF Quiet, dbVars, localVars, postVars, AllCounted, Counted, Matching, Now, Paged
<1> QED BY <1>1, <1>2, NextMoves

LEMMA CountedInit == Init => AllCounted
  BY DEF Init, AllCounted, Counted, Posting

\* The pages of a post miss no expense that it counted, whatever the size of a
\* page, when nobody else handles its expenses meanwhile.
THEOREM PagesMissNothing == ASSUME ~Overlap PROVE Spec => []NothingMissed
<1>1. Owned /\ AllCounted /\ [Next]_vars => AllCounted' BY CountedStep
<1>2. AllCounted => NothingMissed BY DEF AllCounted, Counted, NothingMissed
<1> QED BY <1>1, <1>2, CountedInit, OwnedAlways, PTL DEF Spec
-----------------------------------------------------------------------------
(***************************************************************************)
(* How a summary comes to tell the outcome of its export, and why the      *)
(* updates, which write is_skipped = FALSE, un-skip nothing.               *)
(***************************************************************************)
\* The expense was left without its last update, or it is deleted.
Left(e)    == GroupOf[e] \in abandoned \/ summary[e].state = "DELETED"
\* State s tells how the export of the expense ended, if it did.
Ends(e, s) == /\ Done(e) => s = "COMPLETE"
              /\ status[GroupOf[e]] = "failed" => s = "ERROR"
Closing(op) == op.do \in {"update", "ungroup"}
\* The expense waits for an operation of the script after the i-th.
Waits(s, i, e) == \E j \in DOMAIN s : j > i /\ Closing(s[j]) /\ e \in Scope(s[j])
Leaves(s, e)   == \E j \in DOMAIN s : s[j].do = "ungroup" /\ e \in Scope(s[j])

\* What the updates of a script will write is true, or is followed by an
\* update that is; they un-skip no expense, and what is to leave its group is
\* not exported.
Honest(s) == \A i \in DOMAIN s :
    /\ s[i].do = "update" => \A e \in Scope(s[i]) :
          /\ e \in member
          /\ isSkipped[e] => Left(e)
          /\ Ends(e, s[i].state) \/ Waits(s, i, e)
    /\ s[i].do = "outcome" => i = Len(s)
    /\ s[i].do \in {"skip", "ungroup"} => \A e \in Scope(s[i]) \cap member : Left(e) \/ ~Done(e)

\* Before a write, the whole scope of an update has been read.
Ready(w) == at[w] = "write" =>
    /\ Now(w).do = "update" => DOMAIN copy[w] = Scope(Now(w))
    /\ Now(w).do = "skip" => DOMAIN copy[w] \subseteq Scope(Now(w))
Serious(w) == Ready(w) /\ Honest(script[w])

\* Its summary tells how the export of a member ended, and it is not skipped,
\* unless a worker is about to see to that.
Mine(w, e) ==
    /\ Left(e) \/ Ends(e, summary[e].state) \/ Waits(script[w], 0, e)
    /\ isSkipped[e] => Left(e) \/ Leaves(script[w], e)
Free(e) ==
    /\ Left(e) \/ Ends(e, summary[e].state)
    /\ isSkipped[e] => Left(e)
Heard(e) == Free(e) \/ \E w \in Workers : e \in held[w] /\ Mine(w, e)
AllHeard == (\A e \in member : Heard(e)) /\ \A w \in Workers : Serious(w)

\* The groups a step of worker w may change: its own.
Touches(w) == \A g \in Groups :
    /\ \/ status'[g] \in {status[g], "ready"}
       \/ Members(g) \subseteq held[w] \/ Members(g) \subseteq held'[w]
    /\ g \in abandoned => g \in abandoned' \/ Members(g) \subseteq held[w]
\* A step of w leaves its expenses and its script in order.
Clear(w) ==
    /\ Touches(w) /\ Serious(w)'
    /\ \A e \in member' : e \in held[w] \/ e \in held'[w] => Mine(w, e)'
-----------------------------------------------------------------------------
(* Scripts.                                                                *)

RestOf(t, s)   == t = Tail(s)
Cons(t, op, s) == t = <<op>> \o s

LEMMA TailParts ==
  ASSUME NEW S, NEW s \in Seq(S), s # << >>, NEW t, RestOf(t, s)
  PROVE  /\ t \in Seq(S) /\ Len(t) = Len(s) - 1 /\ 1 \in DOMAIN s /\ s[1] = Head(s)
         /\ \A i \in DOMAIN t : i \in Nat /\ i + 1 \in DOMAIN s /\ t[i] = s[i + 1]
         /\ \A j \in DOMAIN s : j \in Nat
         /\ \A j \in DOMAIN s : j # 1 => j - 1 \in DOMAIN t /\ t[j - 1] = s[j]
<1>1. /\ t \in Seq(S) /\ Len(s) \in Nat \ {0} /\ Len(t) = Len(s) - 1 /\ s[1] = Head(s)
      /\ DOMAIN s = 1..Len(s) /\ DOMAIN t = 1..Len(t)
  BY DEF RestOf
<1>2. \A i \in 1..Len(t) : t[i] = s[i + 1] BY DEF RestOf
<1>3. \A i \in DOMAIN t : i \in Nat /\ i + 1 \in DOMAIN s /\ t[i] = s[i + 1] BY <1>1, <1>2
<1>4. ASSUME NEW j \in DOMAIN s, j # 1 PROVE j - 1 \in DOMAIN t /\ t[j - 1] = s[j]
  <2>1. PICK k : k = j - 1 OBVIOUS
  <2>2. k \in 1..Len(t) /\ k + 1 = j BY <1>1, <1>4, <2>1
  <2>3. t[k] = s[j] BY <1>2, <2>2
  <2> QED BY <1>1, <2>1, <2>2, <2>3
<1>5. 1 \in DOMAIN s /\ \A j \in DOMAIN s : j \in Nat BY <1>1
<1>6. \A j \in DOMAIN s : j # 1 => j - 1 \in DOMAIN t /\ t[j - 1] = s[j] BY <1>4, Zenon
<1> QED BY <1>1, <1>3, <1>5, <1>6, Zenon

\* An operation before a script.
LEMMA ConsParts ==
  ASSUME NEW S, NEW s \in Seq(S), NEW op \in S, NEW t, Cons(t, op, s)
  PROVE  /\ t \in Seq(S) /\ Len(t) = Len(s) + 1 /\ 1 \in DOMAIN t /\ t[1] = op
         /\ \A i \in DOMAIN s : i + 1 \in DOMAIN t /\ t[i + 1] = s[i]
         /\ \A j \in DOMAIN t : j \in Nat
         /\ \A j \in DOMAIN t : j # 1 => j - 1 \in DOMAIN s /\ t[j] = s[j - 1]
<1>1. <<op>> \in Seq(S) /\ Len(<<op>>) = 1 /\ <<op>>[1] = op OBVIOUS
<1>2. /\ <<op>> \o s \in Seq(S) /\ Len(<<op>> \o s) = 1 + Len(s)
      /\ \A i \in 1..(1 + Len(s)) : (<<op>> \o s)[i] = IF i <= 1 THEN <<op>>[i] ELSE s[i - 1]
  BY <1>1, ConcatProperties
<1>4. t \in Seq(S) /\ Len(t) = 1 + Len(s) /\ \A i \in 1..(1 + Len(s)) : t[i] = IF i <= 1 THEN op ELSE s[i - 1]
  BY <1>1, <1>2 DEF Cons
<1>5. DOMAIN t = 1..(1 + Len(s)) /\ DOMAIN s = 1..Len(s) /\ Len(s) \in Nat BY <1>4
<1>6. 1 \in DOMAIN t /\ t[1] = op /\ Len(t) = Len(s) + 1 BY <1>4, <1>5
<1>7. \A i \in DOMAIN s : i + 1 \in DOMAIN t /\ t[i + 1] = s[i] BY <1>4, <1>5
<1>8. ASSUME NEW j \in DOMAIN t, j # 1 PROVE j - 1 \in DOMAIN s /\ t[j] = s[j - 1]
  <2>1. j \in 1..(1 + Len(s)) /\ j \in Nat /\ ~(j <= 1) BY <1>5, <1>8
  <2>2. t[j] = s[j - 1] BY <1>4, <2>1
  <2>3. j - 1 \in 1..Len(s) BY <1>5, <2>1
  <2> QED BY <1>5, <2>2, <2>3
<1>9. \A j \in DOMAIN t : j \in Nat BY <1>5
<1>10. \A j \in DOMAIN t : j # 1 => j - 1 \in DOMAIN s /\ t[j] = s[j - 1] BY <1>8, Zenon
<1> QED BY <1>4, <1>6, <1>7, <1>9, <1>10, Zenon

\* Who waits for the script waits for its first operation or for the rest.
LEMMA WaitsRest ==
  ASSUME NEW s \in Seq(Op), s # << >>, NEW t, RestOf(t, s), NEW e
  PROVE  /\ Waits(s, 0, e) => (Closing(Head(s)) /\ e \in Scope(Head(s))) \/ Waits(t, 0, e)
         /\ Waits(s, 1, e) => Waits(t, 0, e)
         /\ Leaves(s, e) => (Head(s).do = "ungroup" /\ e \in Scope(Head(s))) \/ Leaves(t, e)
<1>t. /\ s[1] = Head(s) /\ t \in Seq(Op)
      /\ \A j \in DOMAIN s : j \in Nat
      /\ \A j \in DOMAIN s : j # 1 => j - 1 \in DOMAIN t /\ t[j - 1] = s[j]
  BY TailParts
<1>0. \A i \in DOMAIN t : i > 0 BY <1>t
<1>1. Waits(s, 0, e) => (Closing(Head(s)) /\ e \in Scope(Head(s))) \/ Waits(t, 0, e)
  BY <1>t, <1>0 DEF Waits
<1>2. Waits(s, 1, e) => Waits(t, 0, e) BY <1>t, <1>0 DEF Waits
<1>3. Leaves(s, e) => (Head(s).do = "ungroup" /\ e \in Scope(Head(s))) \/ Leaves(t, e)
  BY <1>t DEF Leaves
<1> QED BY <1>1, <1>2, <1>3

LEMMA WaitsOn ==
  ASSUME NEW s \in Seq(Op), NEW op \in Op, NEW t, Cons(t, op, s), NEW e
  PROVE  /\ Waits(s, 0, e) => Waits(t, 1, e) /\ Waits(t, 0, e)
         /\ Leaves(s, e) => Leaves(t, e)
<1>0. \A i \in DOMAIN s : i \in Nat \ {0} OBVIOUS
<1>1. \A i \in DOMAIN s : i + 1 \in DOMAIN t /\ t[i + 1] = s[i] BY ConsParts
<1>2. Waits(s, 0, e) => Waits(t, 1, e) /\ Waits(t, 0, e) BY <1>0, <1>1 DEF Waits
<1>3. Leaves(s, e) => Leaves(t, e) BY <1>1 DEF Leaves
<1> QED BY <1>2, <1>3

LEMMA HonestTail ==
  ASSUME NEW s \in Seq(Op), s # << >>, Honest(s), NEW t, RestOf(t, s) PROVE Honest(t)
<1>t. /\ Len(t) = Len(s) - 1
      /\ \A i \in DOMAIN t : i \in Nat /\ i + 1 \in DOMAIN s /\ t[i] = s[i + 1]
      /\ \A j \in DOMAIN s : j \in Nat
      /\ \A j \in DOMAIN s : j # 1 => j - 1 \in DOMAIN t /\ t[j - 1] = s[j]
  BY TailParts
<1>u. Len(s) \in Nat OBVIOUS
<1>1. ASSUME NEW i \in DOMAIN t, NEW e, Waits(s, i + 1, e) PROVE Waits(t, i, e)
  <2>1. PICK j \in DOMAIN s : j > i + 1 /\ Closing(s[j]) /\ e \in Scope(s[j]) BY <1>1 DEF Waits
  <2>2. j - 1 \in DOMAIN t /\ t[j - 1] = s[j] /\ j - 1 > i BY <1>t, <2>1
  <2> QED BY <2>1, <2>2 DEF Waits
<1>2. ASSUME NEW i \in DOMAIN t
      PROVE  /\ t[i].do = "update" => \A e \in Scope(t[i]) :
                   e \in member /\ (isSkipped[e] => Left(e)) /\ (Ends(e, t[i].state) \/ Waits(t, i, e))
             /\ t[i].do = "outcome" => i = Len(t)
             /\ t[i].do \in {"skip", "ungroup"} =>
                   \A e \in Scope(t[i]) \cap member : Left(e) \/ ~Done(e)
  <2>1. i + 1 \in DOMAIN s /\ t[i] = s[i + 1] BY <1>t
  <2>2. t[i].do = "update" => \A e \in Scope(t[i]) :
             e \in member /\ (isSkipped[e] => Left(e)) /\ (Ends(e, t[i].state) \/ Waits(t, i, e))
    BY <1>1, <2>1 DEF Honest
  <2>3. t[i].do = "outcome" => i = Len(t) BY <1>t, <1>u, <2>1 DEF Honest
  <2> QED BY <2>1, <2>2, <2>3 DEF Honest
<1> QED BY <1>2 DEF Honest

\* A post may come first in any script.
LEMMA HonestPost ==
  ASSUME NEW s \in Seq(Op), Honest(s), NEW op \in Op, op.do = "post", NEW t, Cons(t, op, s)
  PROVE  Honest(t)
<1>t. /\ Len(t) = Len(s) + 1 /\ Len(s) \in Nat /\ t[1] = op
      /\ \A i \in DOMAIN s : i + 1 \in DOMAIN t /\ t[i + 1] = s[i]
      /\ \A j \in DOMAIN t : j # 1 => j - 1 \in DOMAIN s /\ t[j] = s[j - 1]
  BY ConsParts
<1>u. DOMAIN s \subseteq Nat /\ DOMAIN t \subseteq Nat
  <2>1. t \in Seq(Op) BY ConsParts
  <2> QED BY <2>1
<1>1. ASSUME NEW i \in DOMAIN t, i # 1, NEW e, Waits(s, i - 1, e) PROVE Waits(t, i, e)
  <2>1. PICK j \in DOMAIN s : j > i - 1 /\ Closing(s[j]) /\ e \in Scope(s[j]) BY <1>1 DEF Waits
  <2>2. j + 1 \in DOMAIN t /\ t[j + 1] = s[j] /\ j + 1 > i BY <1>t, <1>u, <2>1
  <2> QED BY <2>1, <2>2 DEF Waits
<1>2. ASSUME NEW i \in DOMAIN t
      PROVE  /\ t[i].do = "update" => \A e \in Scope(t[i]) :
                   e \in member /\ (isSkipped[e] => Left(e)) /\ (Ends(e, t[i].state) \/ Waits(t, i, e))
             /\ t[i].do = "outcome" => i = Len(t)
             /\ t[i].do \in {"skip", "ungroup"} =>
                   \A e \in Scope(t[i]) \cap member : Left(e) \/ ~Done(e)
  <2>1. CASE i = 1 BY <1>t, <2>1
  <2>2. CASE i # 1
    <3>1. i - 1 \in DOMAIN s /\ t[i] = s[i - 1] /\ i \in Nat BY <1>t, <1>u, <2>2
    <3>2. t[i].do = "update" => \A e \in Scope(t[i]) :
               e \in member /\ (isSkipped[e] => Left(e)) /\ (Ends(e, t[i].state) \/ Waits(t, i, e))
      BY <1>1, <2>2, <3>1 DEF Honest
    <3>3. t[i].do = "outcome" => i = Len(t) BY <1>t, <1>u, <3>1 DEF Honest
    <3> QED BY <3>1, <3>2, <3>3 DEF Honest
  <2> QED BY <2>1, <2>2
<1> QED BY <1>2 DEF Honest

\* What a step must leave to an operation for the script to stay honest.
Keeps(op, e) ==
    /\ op.do = "update" /\ e \in member =>
          /\ e \in member'
          /\ (isSkipped[e] => Left(e)) => (isSkipped'[e] => Left(e)')
          /\ status'[GroupOf[e]] \in {status[GroupOf[e]], "ready"}
    /\ op.do \in {"skip", "ungroup"} /\ e \in member' =>
          e \in member /\ (Left(e) \/ ~Done(e) => Left(e)' \/ ~Done(e)')
\* The expenses of the script stay those of its operations.
Steady(s) == \A i \in DOMAIN s : Scope(s[i])' = Scope(s[i])

LEMMA WaitsLater ==
  ASSUME NEW s, Steady(s), NEW i, NEW e
  PROVE  (Waits(s, i, e) => Waits(s, i, e)') /\ (Leaves(s, e) => Leaves(s, e)')
  BY DEF Waits, Leaves, Steady

LEMMA HonestLater ==
  ASSUME NEW s \in Seq(Op), Honest(s), Steady(s),
         \A i \in DOMAIN s : \A e \in Scope(s[i]) : Keeps(s[i], e)
  PROVE  Honest(s)'
<1>1. ASSUME NEW i \in DOMAIN s, s[i].do = "update", NEW e \in Scope(s[i])
      PROVE  /\ e \in member' /\ (isSkipped'[e] => Left(e)')
             /\ Ends(e, s[i].state)' \/ Waits(s, i, e)'
  <2>1. /\ e \in member /\ (isSkipped[e] => Left(e)) /\ (Ends(e, s[i].state) \/ Waits(s, i, e))
    BY <1>1 DEF Honest
  <2>2. /\ e \in member' /\ (isSkipped'[e] => Left(e)')
        /\ status'[GroupOf[e]] \in {status[GroupOf[e]], "ready"}
    BY <1>1, <2>1 DEF Keeps
  <2>3. Ends(e, s[i].state) => Ends(e, s[i].state)' BY <2>2 DEF Ends, Done
  <2> QED BY <2>1, <2>2, <2>3, WaitsLater
<1>2. ASSUME NEW i \in DOMAIN s, s[i].do \in {"skip", "ungroup"}, NEW e \in Scope(s[i]), e \in member'
      PROVE  Left(e)' \/ ~Done(e)'
  BY <1>2 DEF Honest, Keeps
<1>3. \A i \in DOMAIN s : s[i].do = "outcome" => i = Len(s) BY DEF Honest
<1>4. \A i \in DOMAIN s : Scope(s[i])' = Scope(s[i]) BY DEF Steady
<1> QED BY <1>1, <1>2, <1>3, <1>4 DEF Honest

LEMMA StillKeeps ==
  ASSUME NEW e, e \in member' <=> e \in member,
         e \in member => /\ isSkipped'[e] = isSkipped[e]
                         /\ Left(e) => Left(e)'
                         /\ status'[GroupOf[e]] \in {status[GroupOf[e]], "ready"},
         NEW op
  PROVE  Keeps(op, e)
  BY DEF Keeps, Done

-----------------------------------------------------------------------------
(* The workers that do not move.                                           *)

\* The operations of a script and their expenses.
LEMMA ScriptOwned ==
  ASSUME Owned, NEW v \in Workers
  PROVE  /\ script[v] \in Seq(Op)
         /\ \A i \in DOMAIN script[v] :
              /\ Scope(script[v][i]) \subseteq held[v]
              /\ script[v][i].group # NoGroup => Members(script[v][i].group) \subseteq held[v]
<1>0. script[v] \in Seq(Op) BY DEF Owned, Typed, TypeOK, LocalsOK
<1>1. CASE script[v] \in Seq(Plain(held[v]))
  <2>1. \A i \in DOMAIN script[v] : script[v][i] \in Plain(held[v]) BY <1>1
  <2> QED BY <1>0, <2>1 DEF Plain, Within, Scope
<1>2. ASSUME NEW E \in SUBSET held[v], script[v] \in {<<Skip(E)>>, <<Ungroup(E), PostIds(E)>>},
             NEW i \in DOMAIN script[v]
      PROVE  script[v][i].group = NoGroup /\ script[v][i].ids \subseteq held[v]
  <2>1. script[v][i] \in {Skip(E), Ungroup(E), PostIds(E)} BY <1>2
  <2> QED BY <1>2, <2>1 DEF Skip, Ungroup, PostIds, PostAll
<1>3. CASE \E E \in SUBSET held[v] : script[v] \in {<<Skip(E)>>, <<Ungroup(E), PostIds(E)>>}
  BY <1>0, <1>2, <1>3 DEF Scope
<1> QED BY <1>1, <1>3 DEF Owned, Owns, Work

\* Every expense of a script is held.
Scoped == \A v \in Workers : \A i \in DOMAIN script[v] : Scope(script[v][i]) \subseteq held[v]
LEMMA OwnedScoped == Owned => Scoped
  BY ScriptOwned DEF Scoped

LEMMA OthersSteady ==
  ASSUME Owned, NEW w \in Workers, Frame(w), NEW v \in Workers \ {w}
  PROVE  Steady(script[v])
<1>1. ASSUME NEW g, Members(g) \subseteq held[v] PROVE Members(g)' = Members(g)
  <2>1. \A e \in held[v] : e \in Expenses /\ e \notin held[w]
    BY DEF Owned, Disjoint, Typed, TypeOK, LocalsOK
  <2>2. \A e \in held[v] : e \in member' <=> e \in member BY <2>1 DEF Frame, Untouched
  <2>3. member' \subseteq member BY DEF Frame
  <2> QED BY <1>1, <2>2, <2>3 DEF Members
<1>p. PICK s : s = script[v] OBVIOUS
<1>2. \A i \in DOMAIN s : s[i].group # NoGroup => Members(s[i].group) \subseteq held[v]
  BY <1>p, ScriptOwned
<1>3. Steady(s) BY <1>1, <1>2 DEF Steady, Scope
<1>4. script'[v] = script[v] BY DEF Frame, Alone, Same
<1> QED BY <1>p, <1>3, <1>4 DEF Steady, Scope

\* A step of another worker leaves what was so of a held expense.
LEMMA OthersStill ==
  ASSUME Owned, NEW w \in Workers, Frame(w), Touches(w), NEW e \in Expenses, e \notin held[w],
         e \notin held'[w]
  PROVE  /\ e \in member' <=> e \in member
         /\ summary'[e] = summary[e] /\ isSkipped'[e] = isSkipped[e]
         /\ e \in member => /\ Left(e) => Left(e)'
                            /\ status'[GroupOf[e]] \in {status[GroupOf[e]], "ready"}
<1>1. /\ e \in member' <=> e \in member
      /\ summary'[e] = summary[e] /\ isSkipped'[e] = isSkipped[e]
  BY DEF Frame, Untouched
<1>2. ASSUME e \in member
      PROVE  /\ Left(e) => Left(e)'
             /\ status'[GroupOf[e]] \in {status[GroupOf[e]], "ready"}
  <2>1. e \in Members(GroupOf[e]) /\ GroupOf[e] \in Groups
    BY <1>2, SummaryAssumption DEF Members
  <2> QED BY <1>1, <2>1 DEF Touches, Left
<1> QED BY <1>1, <1>2

LEMMA OthersSerious ==
  ASSUME Owned, AllHeard, NEW w \in Workers, Frame(w), Touches(w), NEW v \in Workers \ {w}
  PROVE  Serious(v)'
<1>1. /\ script'[v] = script[v] /\ at'[v] = at[v] /\ copy'[v] = copy[v] BY DEF Frame, Alone, Same
<1>p. PICK s : s = script[v] OBVIOUS
<1>2. Steady(s) BY <1>1, <1>p, OthersSteady DEF Steady, Scope
<1>3. s \in Seq(Op) /\ \A i \in DOMAIN s : Scope(s[i]) \subseteq held[v] BY <1>p, ScriptOwned
<1>4. Honest(s) BY <1>p DEF AllHeard, Serious
<1>5. \A e \in held[v] : e \in Expenses /\ e \notin held[w] /\ e \notin held'[w]
  BY DEF Owned, Disjoint, Frame, Typed, TypeOK, LocalsOK
<1>6. ASSUME NEW i \in DOMAIN s, NEW e \in Scope(s[i]) PROVE Keeps(s[i], e)
  <2>1. e \in Expenses /\ e \notin held[w] /\ e \notin held'[w] BY <1>3, <1>5
  <2> QED BY <2>1, OthersStill, StillKeeps
<1>7. Honest(s)' BY <1>2, <1>3, <1>4, <1>6, HonestLater
<1>8. Ready(v)'
  <2>1. CASE at[v] # "write" BY <1>1, <2>1 DEF Ready
  <2>2. CASE at[v] = "write"
    <3>1. s # << >> BY <1>p, <2>2 DEF Owned, Owns, InPlace
    <3>2. 1 \in DOMAIN s /\ s[1] = Head(s) BY <1>3, <3>1
    <3>3. Scope(Head(s))' = Scope(Head(s)) BY <1>2, <3>2 DEF Steady
    <3>4. Ready(v) BY DEF AllHeard, Serious
    <3> QED BY <1>1, <1>p, <3>3, <3>4 DEF Ready, Now
  <2> QED BY <2>1, <2>2
<1> QED BY <1>1, <1>p, <1>7, <1>8 DEF Serious

\* Who waits for a worker is held by it.
LEMMA MineHeld ==
  ASSUME Owned', NEW w \in Workers, NEW e, Mine(w, e)'
  PROVE  Free(e)' \/ e \in held'[w]
<1>0. Scoped' BY OwnedScoped, PTL
<1>1. \A i \in DOMAIN script'[w] : Scope(script[w][i])' \subseteq held'[w]
  BY <1>0 DEF Scoped
<1>2. Waits(script[w], 0, e)' \/ Leaves(script[w], e)' => e \in held'[w]
  BY <1>1 DEF Waits, Leaves
<1> QED BY <1>2 DEF Mine, Free

LEMMA MoveHeard ==
  ASSUME Owned, Owned', AllHeard, NEW w \in Workers, Frame(w), Clear(w)
  PROVE  AllHeard'
<1>1. \A v \in Workers : Serious(v)' BY OthersSerious DEF Clear
<1>2. ASSUME NEW e \in member' PROVE Heard(e)'
  <2>0. e \in Expenses /\ e \in member BY <1>2 DEF Owned, Typed, TypeOK, DbOK, Frame
  <2>1. CASE e \in held[w] \/ e \in held'[w]
    <3>1. Mine(w, e)' BY <1>2, <2>1 DEF Clear
    <3> QED BY <3>1, MineHeld DEF Heard
  <2>2. CASE e \notin held[w] /\ e \notin held'[w]
    <3>1. /\ summary'[e] = summary[e] /\ isSkipped'[e] = isSkipped[e] /\ (Left(e) => Left(e)')
          /\ status'[GroupOf[e]] \in {status[GroupOf[e]], "ready"}
      BY <2>0, <2>2, OthersStill DEF Clear
    <3>2. CASE Free(e)
      <4>1. Free(e)' BY <3>1, <3>2 DEF Free, Ends, Done
      <4> QED BY <4>1 DEF Heard
    <3>3. ASSUME NEW v \in Workers, e \in held[v], Mine(v, e) PROVE Heard(e)'
      <4>1. v \in Workers \ {w} BY <2>2, <3>3
      <4>2. script'[v] = script[v] /\ held'[v] = held[v] BY <4>1 DEF Frame, Alone, Same
      <4>p. PICK s : s = script[v] OBVIOUS
      <4>3. Steady(s) BY <4>1, <4>2, <4>p, OthersSteady DEF Steady, Scope
      <4>4. (Waits(s, 0, e) => Waits(s, 0, e)') /\ (Leaves(s, e) => Leaves(s, e)')
        BY <4>3, WaitsLater
      <4>5. Mine(v, e)' BY <3>1, <3>3, <4>2, <4>4, <4>p DEF Mine, Ends, Done
      <4> QED BY <3>3, <4>2, <4>5 DEF Heard
    <3> QED BY <2>0, <3>2, <3>3 DEF AllHeard, Heard
  <2> QED BY <2>1, <2>2
<1> QED BY <1>1, <1>2 DEF AllHeard
-----------------------------------------------------------------------------
(* The worker that posts.                                                  *)

\* A held expense waits for nobody else.
LEMMA HeardMine ==
  ASSUME Owned, AllHeard, NEW w \in Workers, NEW e \in member, e \in held[w]
  PROVE  Mine(w, e)
<1>1. CASE Free(e) BY <1>1 DEF Free, Mine
<1>2. ASSUME NEW v \in Workers, e \in held[v], Mine(v, e) PROVE Mine(w, e)
  <2>1. v = w BY <1>2 DEF Owned, Disjoint
  <2> QED BY <1>2, <2>1
<1> QED BY <1>1, <1>2 DEF AllHeard, Heard

LEMMA AllSteady == ASSUME UNCHANGED member, NEW s PROVE Steady(s)
  BY DEF Steady, Scope, Members

\* A worker in a post stays in it, goes on to the next operation or lists the
\* expenses of the post; what it writes leaves the states or is DELETED.
LEMMA PostClear ==
  ASSUME Owned, AllHeard, NEW w \in Workers, script[w] # << >>, Now(w).do = "post",
         NEW t, script'[w] = t,
         \/ t = script[w]
         \/ RestOf(t, script[w])
         \/ \E op \in Op : \E r : op.do = "post" /\ RestOf(r, script[w]) /\ Cons(t, op, r),
         at'[w] # "write", held'[w] \subseteq held[w],
         UNCHANGED <<member, status, abandoned, isSkipped>>,
         \A e \in Expenses : summary'[e].state \in {summary[e].state, "DELETED"}
  PROVE  Clear(w)
<1>p. PICK s : s = script[w] OBVIOUS
<1>s. s \in Seq(Op) /\ s # << >> /\ Head(s).do = "post" /\ Honest(s)
  BY <1>p, ScriptOwned DEF Now, AllHeard, Serious
<1>1. /\ t \in Seq(Op) /\ Honest(t)
      /\ \A e : (Waits(s, 0, e) => Waits(t, 0, e)) /\ (Leaves(s, e) => Leaves(t, e))
  <2>1. ASSUME NEW r, RestOf(r, s)
        PROVE  /\ r \in Seq(Op) /\ Honest(r)
               /\ \A e : (Waits(s, 0, e) => Waits(r, 0, e)) /\ (Leaves(s, e) => Leaves(r, e))
    <3>1. r \in Seq(Op) BY <1>s, <2>1, TailParts
    <3>2. Honest(r) BY <1>s, <2>1, HonestTail
    <3>3. ASSUME NEW e PROVE (Waits(s, 0, e) => Waits(r, 0, e)) /\ (Leaves(s, e) => Leaves(r, e))
      BY <1>s, <2>1, WaitsRest DEF Closing
    <3> QED BY <3>1, <3>2, <3>3
  <2>2. ASSUME NEW op \in Op, NEW r, op.do = "post", RestOf(r, s), Cons(t, op, r)
        PROVE  /\ t \in Seq(Op) /\ Honest(t)
               /\ \A e : (Waits(s, 0, e) => Waits(t, 0, e)) /\ (Leaves(s, e) => Leaves(t, e))
    <3>0. /\ r \in Seq(Op) /\ Honest(r)
          /\ \A e : (Waits(s, 0, e) => Waits(r, 0, e)) /\ (Leaves(s, e) => Leaves(r, e))
      BY <2>1, <2>2
    <3>1. t \in Seq(Op) BY <2>2, <3>0, ConsParts
    <3>2. Honest(t) BY <2>2, <3>0, HonestPost
    <3>3. ASSUME NEW e PROVE (Waits(r, 0, e) => Waits(t, 0, e)) /\ (Leaves(r, e) => Leaves(t, e))
      BY <2>2, <3>0, WaitsOn
    <3> QED BY <3>0, <3>1, <3>2, <3>3
  <2>3. CASE t = s BY <1>s, <2>3
  <2> QED BY <1>p, <2>1, <2>2, <2>3
<1>2. Steady(t) BY AllSteady
<1>3. ASSUME NEW e \in Expenses PROVE Left(e) => Left(e)' BY DEF Left
<1>4. ASSUME NEW i \in DOMAIN t, NEW e \in Scope(t[i]) PROVE Keeps(t[i], e)
  <2>1. e \in member => e \in Expenses BY DEF Owned, Typed, TypeOK, DbOK
  <2> QED BY <1>3, <2>1, StillKeeps
<1>5. Honest(t)' BY <1>1, <1>2, <1>4, HonestLater
<1>6. Serious(w)' BY <1>5 DEF Serious, Ready
<1>7. ASSUME NEW e \in member', e \in held[w] \/ e \in held'[w] PROVE Mine(w, e)'
  <2>1. e \in Expenses /\ e \in member /\ e \in held[w]
    BY <1>7 DEF Owned, Typed, TypeOK, DbOK
  <2>2. Mine(w, e) BY <2>1, HeardMine
  <2>3. Left(e) \/ Ends(e, summary[e].state) => Left(e)' \/ Ends(e, summary[e].state)'
    <3>1. CASE summary'[e].state = "DELETED" BY <3>1 DEF Left
    <3>2. CASE summary'[e].state = summary[e].state BY <1>3, <2>1, <3>2 DEF Ends, Done
    <3> QED BY <2>1, <3>1, <3>2
  <2>4. (Waits(s, 0, e) => Waits(t, 0, e)') /\ (Leaves(s, e) => Leaves(t, e)')
    BY <1>1, <1>2, WaitsLater
  <2>5. isSkipped'[e] = isSkipped[e] /\ (Left(e) => Left(e)') BY <1>3, <2>1
  <2> QED BY <1>p, <2>2, <2>3, <2>4, <2>5 DEF Mine
<1>8. Touches(w) BY DEF Touches
<1> QED BY <1>6, <1>7, <1>8 DEF Clear

LEMMA ContinueMoves ==
  ASSUME TypeOK, NEW w \in Workers, NEW o, NEW n, NEW left, Continue(w, o, n, left)
  PROVE  /\ script'[w] = script[w] \/ RestOf(script'[w], script[w])
         /\ at'[w] # "write" /\ held'[w] \subseteq held[w]
<1>1. CASE Onward(o, n, left) = "next"
  <2>1. GoOn(w, Tail(script[w])) BY <1>1 DEF Continue
  <2> QED BY <2>1, GoOnMoves DEF RestOf
<1>2. CASE Onward(o, n, left) # "next"
  <2>1. UNCHANGED <<script, held>> /\ at' = [at EXCEPT ![w] = Onward(o, n, left)]
    BY <1>2 DEF Continue
  <2> QED BY <2>1 DEF TypeOK, LocalsOK, Onward
<1> QED BY <1>1, <1>2

LEMMA PostHeard ==
  ASSUME Owned, AllCurrent, AllHeard, NEW w \in Workers,
         \/ Count(w) \/ ReadPage(w) \/ Accept(w) \/ Outage(w)
         \/ Refuse(w) \/ MarkDeleted(w) \/ ReadPosted(w) \/ MarkSynced(w)
  PROVE  Clear(w)
<1>a. TypeOK BY DEF Owned, Typed
<1>b. script[w] # << >> /\ Now(w).do = "post" /\ UNCHANGED <<member, status, abandoned, isSkipped>>
  BY DEF Count, ReadPage, Accept, Outage, Refuse, MarkDeleted, ReadPosted, MarkSynced, Doing, dbVars
<1>c. \A e \in Expenses : summary'[e].state \in {summary[e].state, "DELETED"}
  <2>1. CASE MarkDeleted(w) BY <2>1 DEF MarkDeleted, Deleted
  <2>2. CASE MarkSynced(w)
    <3>1. ASSUME NEW e \in Expenses, e \in DOMAIN copy[w]
          PROVE  summary'[e].state = summary[e].state
      <4>1. copy[w][e] = summary[e] BY <3>1 DEF AllCurrent, Current, CopyCurrent
      <4>2. summary'[e] = [summary[e] EXCEPT !.synced = TRUE] BY <2>2, <3>1, <4>1 DEF MarkSynced
      <4> QED BY <1>a, <4>2, SyncedTyped DEF TypeOK, DbOK
    <3> QED BY <2>2, <3>1 DEF MarkSynced
  <2>3. CASE ~(MarkDeleted(w) \/ MarkSynced(w))
    <3>1. UNCHANGED summary
      BY <2>3 DEF Count, ReadPage, Accept, Outage, Refuse, ReadPosted, dbVars
    <3> QED BY <3>1
  <2> QED BY <2>1, <2>2, <2>3
<1>p. PICK t : t = script'[w] OBVIOUS
<1>1. CASE Count(w)
  <2>p. PICK op : op = [Now(w) EXCEPT !.ids = Scope(Now(w)), !.group = NoGroup] OBVIOUS
  <2>1. CASE Cardinality(Matching(op)) = 0
    <3>1. GoOn(w, Tail(script[w])) BY <1>1, <2>1, <2>p DEF Count
    <3>2. RestOf(t, script[w]) /\ at'[w] # "write" /\ held'[w] \subseteq held[w]
      BY <1>a, <1>p, <3>1, GoOnMoves DEF RestOf
    <3> QED BY <1>b, <1>c, <1>p, <3>2, PostClear
  <2>2. CASE Cardinality(Matching(op)) # 0
    <3>1. /\ script' = [script EXCEPT ![w] = <<op>> \o Tail(@)]
          /\ at' = [at EXCEPT ![w] = "page"] /\ UNCHANGED held
      BY <1>1, <2>2, <2>p DEF Count
    <3>2. t = <<op>> \o Tail(script[w]) /\ at'[w] # "write" BY <1>a, <1>p, <3>1 DEF TypeOK, LocalsOK
    <3>3. op \in Op /\ op.do = "post"
      <4>1. Now(w) \in Op BY <1>a, <1>b, NowTyped DEF TypeOK
      <4>2. Scope(Now(w)) \in SUBSET Expenses BY <1>a, <4>1, ScopeTyped DEF TypeOK
      <4> QED BY <1>b, <2>p, <4>1, <4>2 DEF Op
    <3>4. \E r : RestOf(r, script[w]) /\ Cons(t, op, r) BY <3>2 DEF RestOf, Cons
    <3> QED BY <1>b, <1>c, <1>p, <3>1, <3>2, <3>3, <3>4, PostClear
  <2> QED BY <2>1, <2>2
<1>2. CASE ReadPage(w) \/ Outage(w) \/ MarkDeleted(w) \/ MarkSynced(w)
  <2>1. PICK o, n, left : Continue(w, o, n, left)
    BY <1>2 DEF ReadPage, Outage, MarkDeleted, MarkSynced
  <2>2. (t = script[w] \/ RestOf(t, script[w])) /\ at'[w] # "write" /\ held'[w] \subseteq held[w]
    BY <1>a, <1>p, <2>1, ContinueMoves
  <2> QED BY <1>b, <1>c, <1>p, <2>2, PostClear
<1>3. CASE Accept(w) \/ Refuse(w) \/ ReadPosted(w)
  <2>1. t = script[w] /\ at'[w] # "write" /\ held' = held
    BY <1>3, <1>a, <1>p DEF Accept, Refuse, ReadPosted, TypeOK, LocalsOK
  <2> QED BY <1>b, <1>c, <1>p, <2>1, PostClear
<1> QED BY <1>1, <1>2, <1>3
-----------------------------------------------------------------------------
(* The worker that ends an export, or dies.                                *)

\* Posts, and updates whose states are true and un-skip nothing.
Sures == {op \in Op :
    /\ op.do \in {"update", "post"}
    /\ op.do = "update" => \A e \in Scope(op) :
          e \in member /\ (isSkipped[e] => Left(e)) /\ Ends(e, op.state)}

LEMMA SureHonest == ASSUME NEW s, s \in Seq(Sures') PROVE Honest(s)'
<1>1. \A i \in DOMAIN s : s[i] \in Sures' OBVIOUS
<1> QED BY <1>1 DEF Sures, Honest

\* A worker that removes expenses from their groups does that first.
LEMMA UngroupFirst ==
  ASSUME Owned, NEW w \in Workers, NEW e, Leaves(script[w], e)
  PROVE  script[w] # << >> /\ Now(w).do = "ungroup"
<1>0. PICK i \in DOMAIN script[w] : script[w][i].do = "ungroup" BY DEF Leaves
<1>1. CASE script[w] \in Seq(Plain(held[w]))
  <2>1. script[w][i] \in Plain(held[w]) BY <1>0, <1>1
  <2> QED BY <1>0, <2>1 DEF Plain
<1>2. ASSUME NEW E, script[w] = <<Skip(E)>> PROVE FALSE
  <2>1. script[w][i] = Skip(E) BY <1>0, <1>2
  <2> QED BY <1>0, <2>1, OpParts
<1>3. ASSUME NEW E, script[w] = <<Ungroup(E), PostIds(E)>>
      PROVE  script[w] # << >> /\ Now(w).do = "ungroup"
  BY <1>3, OpParts DEF Now
<1> QED BY <1>1, <1>2, <1>3 DEF Owned, Owns, Work

\* The end of an export is the last operation of its job.
LEMMA LastOutcome ==
  ASSUME Owned, AllHeard, NEW w \in Workers, script[w] # << >>, Now(w).do = "outcome", NEW e
  PROVE  ~Waits(script[w], 0, e) /\ ~Leaves(script[w], e)
<1>p. PICK s : s = script[w] OBVIOUS
<1>1. s \in Seq(Op) /\ s # << >> /\ Honest(s) /\ Head(s).do = "outcome"
  BY <1>p, ScriptOwned DEF AllHeard, Serious, Now
<1>2. 1 \in DOMAIN s /\ s[1] = Head(s) /\ DOMAIN s = 1..Len(s) BY <1>1
<1>3. Len(s) = 1 BY <1>1, <1>2 DEF Honest
<1>4. \A j \in DOMAIN s : s[j].do = "outcome" BY <1>1, <1>2, <1>3
<1> QED BY <1>p, <1>4 DEF Waits, Leaves, Closing

LEMMA OutcomeClear ==
  ASSUME Owned, AllHeard, NEW w \in Workers, script[w] # << >>, Now(w).do = "outcome",
         Touches(w), NEW t, t \in Seq(Sures'), script'[w] = t, at'[w] = "next",
         held'[w] \subseteq held[w], UNCHANGED <<member, summary, isSkipped>>,
         abandoned \subseteq abandoned',
         \A e \in member : \/ e \notin held[w] \/ status'[GroupOf[e]] = status[GroupOf[e]]
                           \/ Left(e)' \/ Waits(t, 0, e)'
  PROVE  Clear(w)
<1>1. Serious(w)' BY SureHonest DEF Serious, Ready
<1>2. ASSUME NEW e \in member', e \in held[w] \/ e \in held'[w] PROVE Mine(w, e)'
  <2>1. e \in member /\ e \in held[w] BY <1>2
  <2>2. Free(e) BY <2>1, HeardMine, LastOutcome DEF Mine, Free
  <2>3. Left(e) => Left(e)' BY DEF Left
  <2>4. isSkipped'[e] => Left(e)' BY <2>2, <2>3 DEF Free
  <2>5. Left(e)' \/ Ends(e, summary[e].state)' \/ Waits(t, 0, e)'
    BY <2>1, <2>2, <2>3 DEF Free, Ends, Done
  <2> QED BY <2>4, <2>5 DEF Mine
<1> QED BY <1>1, <1>2 DEF Clear

LEMMA InJoin ==
  ASSUME NEW S, NEW s \in Seq(S), NEW t \in Seq(S), NEW u \in Seq(S), t # << >>
  PROVE  \E i \in DOMAIN ((s \o t) \o u) : i > 0 /\ ((s \o t) \o u)[i] = Head(t)
<1>1. /\ s \o t \in Seq(S) /\ Len(s \o t) = Len(s) + Len(t)
      /\ \A i \in 1..Len(s) + Len(t) : (s \o t)[i] = IF i <= Len(s) THEN s[i] ELSE t[i - Len(s)]
  BY ConcatProperties
<1>p. PICK v : v = s \o t OBVIOUS
<1>2. /\ v \o u \in Seq(S) /\ Len(v \o u) = Len(v) + Len(u)
      /\ \A i \in 1..Len(v) + Len(u) : (v \o u)[i] = IF i <= Len(v) THEN v[i] ELSE u[i - Len(v)]
  BY <1>1, <1>p, ConcatProperties
<1>3. Len(s) \in Nat /\ Len(t) \in Nat \ {0} /\ Len(u) \in Nat /\ Head(t) = t[1] OBVIOUS
<1>q. PICK x : x = v \o u OBVIOUS
<1>4. /\ DOMAIN x = 1..Len(v) + Len(u) /\ Len(v) = Len(s) + Len(t)
      /\ \A i \in 1..Len(v) + Len(u) : x[i] = IF i <= Len(v) THEN v[i] ELSE u[i - Len(v)]
  BY <1>1, <1>2, <1>p, <1>q
<1>5. PICK k : k = Len(s) + 1 OBVIOUS
<1>6. k \in 1..Len(v) + Len(u) /\ k \in 1..Len(s) + Len(t) /\ k <= Len(v) /\ ~(k <= Len(s))
      /\ k - Len(s) = 1 /\ k > 0
  BY <1>3, <1>4, <1>5
<1>7. v[k] = t[1] BY <1>1, <1>p, <1>6
<1>8. x[k] = t[1] BY <1>4, <1>6, <1>7
<1> QED BY <1>3, <1>4, <1>6, <1>8, <1>p, <1>q

\* What is left after an export updates its group.
LEMMA ExportUpdates ==
  ASSUME NEW g, NEW b \in BOOLEAN
  PROVE  /\ \E i \in DOMAIN Exported(g, b) : i > 0 /\ Exported(g, b)[i] = Update("COMPLETE", g)
         /\ \E i \in DOMAIN Failed(g, b) : i > 0 /\ Failed(g, b)[i] = Update("ERROR", g)
<1>p. PICK S : S = {PostAll, Update("COMPLETE", g), Update("ERROR", g), PostGroup(g), PostFailed(g)}
  OBVIOUS
<1>1. Details(b) \in Seq(S) BY <1>p, DetailsOf
<1>2. PICK t : t = <<Update("COMPLETE", g), PostGroup(g), PostFailed(g)>> OBVIOUS
<1>3. t \in Seq(S) /\ t # << >> /\ Head(t) = Update("COMPLETE", g) BY <1>p, <1>2
<1>4. PICK u : u = <<Update("ERROR", g), PostFailed(g)>> OBVIOUS
<1>5. u \in Seq(S) /\ u # << >> /\ Head(u) = Update("ERROR", g) BY <1>p, <1>4
<1>6. \E i \in DOMAIN ((Details(b) \o t) \o Details(b)) :
         i > 0 /\ ((Details(b) \o t) \o Details(b))[i] = Update("COMPLETE", g)
  BY <1>1, <1>3, InJoin
<1>7. PICK n : n = << >> OBVIOUS
<1>8. n \o u = u BY <1>5, <1>7
<1>s. n \in Seq(S) BY <1>7
<1>e. \E i \in DOMAIN ((n \o u) \o Details(b)) :
         i > 0 /\ ((n \o u) \o Details(b))[i] = Update("ERROR", g)
  BY <1>1, <1>5, <1>s, InJoin
<1>9. Exported(g, b) = (Details(b) \o t) \o Details(b) BY <1>2 DEF Exported
<1>10. Failed(g, b) = (n \o u) \o Details(b) BY <1>4, <1>8 DEF Failed
<1> QED BY <1>6, <1>e, <1>9, <1>10, Zenon

\* Updates and posts of a group whose members are held, skipped ones apart.
LEMMA GroupSure ==
  ASSUME Typed', NEW g \in Groups, NEW s \in States,
         \A e \in Members(g)' : (isSkipped'[e] => Left(e)') /\ Ends(e, s)'
  PROVE  Update(s, g) \in Sures'
<1>1. Update(s, g) \in Op BY OpTypes
<1>2. Update(s, g).do = "update" /\ Update(s, g).state = s /\ Update(s, g).group = g BY OpParts
<1>3. g # NoGroup BY SummaryAssumption
<1>p. PICK op : op = Update(s, g) OBVIOUS
<1>4. Scope(op)' = Members(g)' BY <1>2, <1>3, <1>p DEF Scope
<1>5. \A e \in Members(g)' : e \in member' BY DEF Members
<1>6. op \in Sures' BY <1>1, <1>2, <1>4, <1>5, <1>p DEF Sures
<1> QED BY <1>6, <1>p

LEMMA PostsSure ==
  ASSUME NEW g \in Groups, NEW E \in SUBSET Expenses
  PROVE  /\ PostAll \in Sures' /\ PostGroup(g) \in Sures' /\ PostFailed(g) \in Sures'
         /\ PostIds(E) \in Sures' /\ PostFailedIds(E) \in Sures'
<1>0. "NONE" \in States /\ TRUE \in BOOLEAN BY DEF States
<1>1. /\ PostAll \in Op /\ PostGroup(g) \in Op /\ PostFailed(g) \in Op
      /\ PostIds(E) \in Op /\ PostFailedIds(E) \in Op
  BY <1>0, OpTypes
<1>2. \A op \in Op : op.do = "post" => op \in Sures' BY DEF Sures
<1> QED BY <1>1, <1>2, OpParts

\* The members of a group wait for its update.
LEMMA GroupWaits ==
  ASSUME NEW g \in Groups, NEW s, NEW t,
         \E i \in DOMAIN t : i > 0 /\ t[i] = Update(s, g), NEW e \in Members(g)'
  PROVE  Waits(t, 0, e)'
<1>1. PICK i \in DOMAIN t : i > 0 /\ t[i] = Update(s, g) OBVIOUS
<1>2. t[i].do = "update" /\ t[i].group = g BY <1>1, OpParts
<1>3. g # NoGroup BY SummaryAssumption
<1>4. Scope(t[i])' = Members(g)' BY <1>2, <1>3 DEF Scope
<1>5. e \in Scope(t[i])' BY <1>4
<1> QED BY <1>1, <1>2, <1>5 DEF Waits, Closing

LEMMA OutcomeHeard ==
  ASSUME Owned, Owned', AllHeard, NEW w \in Workers,
         Succeed(w) \/ Fail(w) \/ Fault(w) \/ CannotSave(w)
  PROVE  Clear(w)
<1> USE SummaryAssumption
<1>a. TypeOK /\ Typed' BY DEF Owned, Typed
<1>b. /\ script[w] # << >> /\ Now(w).do = "outcome" /\ at[w] = "next"
      /\ UNCHANGED <<member, summary, isSkipped>>
  BY DEF Succeed, Fail, Fault, CannotSave, Doing, dbVars
<1>p. PICK g, l : g = Now(w).group /\ l = Now(w).last OBVIOUS
<1>1. CASE CannotSave(w)
  <2>1. GoOn(w, << >>) /\ UNCHANGED <<status, abandoned>> BY <1>1 DEF CannotSave, dbVars
  <2>2. script'[w] = << >> /\ at'[w] = "next" /\ held'[w] \subseteq held[w]
    BY <1>a, <2>1, GoOnMoves
  <2>3. Touches(w) BY <2>1 DEF Touches
  <2>4. << >> \in Seq(Sures') OBVIOUS
  <2>5. \A e \in member : status'[GroupOf[e]] = status[GroupOf[e]] BY <2>1
  <2> QED BY <1>b, <2>1, <2>2, <2>3, <2>4, <2>5, OutcomeClear
<1>2. CASE Succeed(w) \/ Fail(w) \/ Fault(w)
  <2>1. Members(g) # {} /\ Now(w) \in Op /\ l \in BOOLEAN /\ g \in Groups
    <3>1. Members(g) # {} BY <1>2, <1>p DEF Succeed, Fail, Fault, CanSave
    <3>2. Now(w) \in Op BY <1>a, <1>b, NowTyped DEF TypeOK
    <3>3. \E e \in Expenses : GroupOf[e] = g BY <1>a, <3>1 DEF Members, TypeOK, DbOK
    <3> QED BY <1>p, <3>1, <3>2, <3>3 DEF Op
  <2>2. Members(g) \subseteq held[w]
    <3>1. Scope(Now(w)) \subseteq held[w] BY <1>b, ScopeOwned
    <3> QED BY <1>p, <2>1, <3>1 DEF Scope
  <2>3. Members(g)' = Members(g) BY <1>b DEF Members
  <2>4. abandoned \subseteq abandoned' BY <1>2 DEF Succeed, Fail, Fault
  <2>5. \A e \in Members(g)' : isSkipped'[e] => Left(e)'
    <3>1. ASSUME NEW e \in Members(g) PROVE isSkipped[e] => Left(e)
      <4>1. e \in member /\ e \in held[w] BY <2>2, <3>1 DEF Members
      <4> QED BY <1>b, <4>1, HeardMine, LastOutcome DEF Mine
    <3> QED BY <1>b, <2>3, <2>4, <3>1 DEF Left
  <2>6. ASSUME NEW s \in Status, status' = [status EXCEPT ![g] = s]
        PROVE  /\ Touches(w) /\ \A e \in Members(g)' : status'[GroupOf[e]] = s
               /\ \A e \in member : e \notin Members(g) => status'[GroupOf[e]] = status[GroupOf[e]]
    <3>1. status'[g] = s /\ \A h \in Groups \ {g} : status'[h] = status[h]
      BY <1>a, <2>1, <2>6 DEF TypeOK, DbOK
    <3>2. \A e \in member : GroupOf[e] \in Groups BY <1>a DEF TypeOK, DbOK
    <3>3. Touches(w) BY <2>2, <2>4, <3>1 DEF Touches
    <3> QED BY <2>3, <3>1, <3>2, <3>3 DEF Members
  <2>7. /\ PostAll \in Sures' /\ PostGroup(g) \in Sures' /\ PostFailed(g) \in Sures'
    BY <2>1, PostsSure
  <2>S. PICK S : S = Sures' OBVIOUS
  <2>8. ASSUME NEW t \in Seq(Sures'), GoOn(w, t), Touches(w),
               \A e \in member : \/ e \in Members(g) /\ (Left(e)' \/ Waits(t, 0, e)')
                                 \/ status'[GroupOf[e]] = status[GroupOf[e]]
        PROVE  Clear(w)
    <3>1. script'[w] = t /\ at'[w] = "next" /\ held'[w] \subseteq held[w] BY <1>a, <2>8, GoOnMoves
    <3> QED BY <1>b, <2>4, <2>8, <3>1, OutcomeClear
  <2>9. CASE Succeed(w)
    <3>p. PICK t : t = Exported(g, l) OBVIOUS
    <3>1. GoOn(w, t) /\ status' = [status EXCEPT ![g] = "complete"] BY <2>9, <1>p, <3>p DEF Succeed
    <3>2. "complete" \in Status /\ "COMPLETE" \in States BY DEF Status, States
    <3>3. \A e \in Members(g)' : Ends(e, "COMPLETE")' BY <2>6, <3>1, <3>2 DEF Ends, Done
    <3>4. Update("COMPLETE", g) \in Sures' BY <1>a, <2>1, <2>5, <3>2, <3>3, GroupSure
    <3>5. t \in Seq(S) BY <2>1, <2>7, <2>S, <3>4, <3>p, AfterExport
    <3>6. \A e \in Members(g) : Waits(t, 0, e)'
      <4>1. \E i \in DOMAIN t : i > 0 /\ t[i] = Update("COMPLETE", g) BY <2>1, <3>p, ExportUpdates
      <4> QED BY <2>1, <2>3, <4>1, GroupWaits
    <3> QED BY <2>6, <2>8, <2>S, <3>1, <3>2, <3>5, <3>6
  <2>10. CASE Fail(w)
    <3>p. PICK t : t = Failed(g, l) OBVIOUS
    <3>1. GoOn(w, t) /\ status' = [status EXCEPT ![g] = "failed"] BY <2>10, <1>p, <3>p DEF Fail
    <3>2. "failed" \in Status /\ "ERROR" \in States BY DEF Status, States
    <3>3. \A e \in Members(g)' : Ends(e, "ERROR")' BY <2>6, <3>1, <3>2 DEF Ends, Done
    <3>4. Update("ERROR", g) \in Sures' BY <1>a, <2>1, <2>5, <3>2, <3>3, GroupSure
    <3>5. t \in Seq(S) BY <2>1, <2>7, <2>S, <3>4, <3>p, AfterExport
    <3>6. \A e \in Members(g) : Waits(t, 0, e)'
      <4>1. \E i \in DOMAIN t : i > 0 /\ t[i] = Update("ERROR", g) BY <2>1, <3>p, ExportUpdates
      <4> QED BY <2>1, <2>3, <4>1, GroupWaits
    <3> QED BY <2>6, <2>8, <2>S, <3>1, <3>2, <3>5, <3>6
  <2>11. CASE Fault(w)
    <3>p. PICK t : t = Faulted(g, l) OBVIOUS
    <3>1. /\ GoOn(w, t) /\ status' = [status EXCEPT ![g] = "failed"]
          /\ abandoned' = abandoned \cup {g}
      BY <2>11, <1>p, <3>p DEF Fault
    <3>2. "failed" \in Status BY DEF Status
    <3>3. t \in Seq(S) BY <2>1, <2>7, <2>S, <3>p, AfterExport
    <3>4. \A e \in Members(g) : Left(e)' BY <3>1 DEF Left, Members
    <3> QED BY <2>6, <2>8, <2>S, <3>1, <3>2, <3>3, <3>4
  <2> QED BY <1>2, <2>9, <2>10, <2>11
<1> QED BY <1>1, <1>2

LEMMA CrashHeard ==
  ASSUME Owned, AllHeard, NEW w \in Workers, Crash(w) PROVE Clear(w)
<1>a. TypeOK BY DEF Owned, Typed
<1>1. /\ GoOn(w, << >>) /\ UNCHANGED <<member, status, summary, isSkipped>>
      /\ abandoned' = abandoned \cup
           {g \in Unfinished(w) : status[g] # "inflight" \/ Now(w).do = "ungroup"}
  BY DEF Crash, dbVars
<1>2. script'[w] = << >> /\ at'[w] = "next" /\ held'[w] \subseteq held[w] BY <1>a, <1>1, GoOnMoves
<1>3. Serious(w)' BY <1>2 DEF Serious, Ready, Honest
<1>4. Touches(w) BY <1>1 DEF Touches
<1>5. ASSUME NEW e, Waits(script[w], 0, e) PROVE GroupOf[e] \in Unfinished(w)
  BY <1>5 DEF Waits, Closing, Unfinished
<1>6. ASSUME NEW e \in member', e \in held[w] \/ e \in held'[w] PROVE Mine(w, e)'
  <2>1. e \in member /\ Mine(w, e) BY <1>1, <1>2, <1>6, HeardMine
  <2>2. Left(e) => Left(e)' BY <1>1 DEF Left
  <2>3. Left(e)' \/ Ends(e, summary[e].state)'
    <3>1. CASE Waits(script[w], 0, e)
      <4>1. CASE status[GroupOf[e]] = "inflight" BY <1>1, <4>1 DEF Ends, Done
      <4>2. CASE status[GroupOf[e]] # "inflight" BY <1>1, <1>5, <3>1, <4>2 DEF Left
      <4> QED BY <4>1, <4>2
    <3> QED BY <1>1, <2>1, <2>2, <3>1 DEF Mine, Ends, Done
  <2>4. isSkipped'[e] => Left(e)'
    <3>1. ASSUME Leaves(script[w], e) PROVE Left(e)'
      <4>1. Now(w).do = "ungroup" BY <3>1, UngroupFirst
      <4>2. script[w] \in Seq(Op) BY ScriptOwned
      <4>3. Waits(script[w], 0, e) BY <3>1, <4>2 DEF Leaves, Waits, Closing
      <4> QED BY <1>1, <1>5, <4>1, <4>3 DEF Left
    <3> QED BY <1>1, <2>1, <2>2, <3>1 DEF Mine
  <2> QED BY <2>3, <2>4 DEF Mine
<1> QED BY <1>3, <1>4, <1>6 DEF Clear
-----------------------------------------------------------------------------
(* The worker that writes.                                                 *)

\* The script of a worker that is in an update, in a skip or in a removal.
LEMMA SkipOnly ==
  ASSUME Owned, NEW w \in Workers, script[w] # << >>, Now(w).do = "skip", NEW e
  PROVE  ~Waits(script[w], 0, e) /\ ~Leaves(script[w], e)
<1>1. PICK E : script[w] = <<Skip(E)>> BY NowOwned
<1>2. \A j \in DOMAIN script[w] : script[w][j] = Skip(E) BY <1>1
<1> QED BY <1>2, OpParts DEF Waits, Leaves, Closing

LEMMA HonestNow ==
  ASSUME Owned, AllHeard, NEW w \in Workers, script[w] # << >>, NEW e \in Scope(Now(w))
  PROVE  /\ Now(w).do = "update" => /\ e \in member /\ (isSkipped[e] => Left(e))
                                    /\ Ends(e, Now(w).state) \/ Waits(script[w], 1, e)
         /\ Now(w).do \in {"skip", "ungroup"} /\ e \in member => Left(e) \/ ~Done(e)
<1>p. PICK s : s = script[w] OBVIOUS
<1>1. s \in Seq(Op) /\ s # << >> /\ Honest(s) /\ Head(s) = Now(w)
  BY <1>p, ScriptOwned DEF AllHeard, Serious, Now
<1>2. 1 \in DOMAIN s /\ s[1] = Now(w) BY <1>1
<1> QED BY <1>p, <1>1, <1>2 DEF Honest

LEMMA StayClear ==
  ASSUME Owned, AllHeard, NEW w \in Workers, Ready(w)',
         UNCHANGED <<script, held, member, status, abandoned, isSkipped, summary>>
  PROVE  Clear(w)
<1>p. PICK s : s = script[w] OBVIOUS
<1>1. s \in Seq(Op) /\ Honest(s) BY <1>p, ScriptOwned DEF AllHeard, Serious
<1>2. Steady(s) BY AllSteady
<1>3. \A e : Left(e) => Left(e)' BY DEF Left
<1>4. ASSUME NEW i \in DOMAIN s, NEW e \in Scope(s[i]) PROVE Keeps(s[i], e) BY <1>3, StillKeeps
<1>5. Honest(s)' BY <1>1, <1>2, <1>4, HonestLater
<1>6. ASSUME NEW e \in member', e \in held[w] \/ e \in held'[w] PROVE Mine(w, e)'
  <2>1. Mine(w, e) BY <1>6, HeardMine
  <2>2. (Waits(s, 0, e) => Waits(s, 0, e)') /\ (Leaves(s, e) => Leaves(s, e)') BY <1>2, WaitsLater
  <2> QED BY <1>3, <1>p, <2>1, <2>2 DEF Mine, Ends, Done
<1>7. Touches(w) BY DEF Touches
<1> QED BY <1>5, <1>6, <1>7, <1>p DEF Clear, Serious

LEMMA ReadHeard ==
  ASSUME Owned, AllHeard, NEW w \in Workers, Read(w) \/ ReadSkipped(w)
  PROVE  Clear(w)
<1>a. TypeOK BY DEF Owned, Typed
<1>1. UNCHANGED <<member, status, abandoned, isSkipped, summary>> /\ script[w] # << >>
  BY DEF Read, ReadSkipped, dbVars, Doing
<1>2. Scope(Now(w))' = Scope(Now(w)) \/ script' # script BY <1>1 DEF Scope, Members, Now
<1>3. CASE Read(w)
  <2>1. /\ UNCHANGED <<script, held>> /\ Now(w).do = "update"
        /\ DOMAIN copy'[w] = Scope(Now(w))
    BY <1>3, <1>a DEF Read, Doing, TypeOK, LocalsOK
  <2>2. Ready(w)' BY <1>2, <2>1 DEF Ready, Now
  <2> QED BY <1>1, <2>1, <2>2, StayClear
<1>4. CASE ReadSkipped(w)
  <2>p. PICK E : E = {e \in Now(w).ids : ~isSkipped[e]} OBVIOUS
  <2>0. Now(w).do = "skip" BY <1>4 DEF ReadSkipped, Doing
  <2>1. CASE E # {}
    <3>1. UNCHANGED <<script, held>> /\ DOMAIN copy'[w] = E
      BY <1>4, <1>a, <2>p, <2>1 DEF ReadSkipped, TypeOK, LocalsOK
    <3>2. E \subseteq Scope(Now(w))
      <4>1. PICK D : script[w] = <<Skip(D)>> BY <1>1, <2>0, NowOwned
      <4>2. Now(w) = Skip(D) BY <4>1 DEF Now
      <4> QED BY <2>p, <4>2 DEF Scope, Skip, PostAll
    <3>3. Ready(w)' BY <1>2, <2>0, <3>1, <3>2 DEF Ready, Now
    <3> QED BY <1>1, <3>1, <3>3, StayClear
  <2>2. CASE E = {}
    <3>1. GoOn(w, << >>) BY <1>4, <2>p, <2>2 DEF ReadSkipped
    <3>2. script'[w] = << >> /\ at'[w] = "next" /\ held'[w] \subseteq held[w]
      BY <1>a, <3>1, GoOnMoves
    <3>3. Serious(w)' BY <3>2 DEF Serious, Ready, Honest
    <3>4. ASSUME NEW e \in member', e \in held[w] \/ e \in held'[w] PROVE Mine(w, e)'
      <4>1. Mine(w, e) BY <1>1, <3>2, <3>4, HeardMine
      <4>2. Free(e) BY <1>1, <2>0, <4>1, SkipOnly DEF Mine, Free
      <4> QED BY <1>1, <4>2 DEF Free, Mine, Left, Ends, Done
    <3>5. Touches(w) BY <1>1 DEF Touches
    <3> QED BY <3>3, <3>4, <3>5 DEF Clear
  <2> QED BY <2>1, <2>2
<1> QED BY <1>3, <1>4

\* A copy that reads DELETED is of a deleted expense.
LEMMA Written ==
  ASSUME AllCurrent, NEW w \in Workers, NEW e \in DOMAIN copy[w]
  PROVE  /\ e \in Writable(w) => summary[e].state # "DELETED"
         /\ e \notin Writable(w) => summary[e].state = "DELETED"
  BY DEF AllCurrent, Current, CopyCurrent, Writable

LEMMA WriteHeard ==
  ASSUME Owned, AllCurrent, AllHeard, NEW w \in Workers, Write(w)
  PROVE  Clear(w)
<1>a. TypeOK BY DEF Owned, Typed
<1>b. /\ script[w] # << >> /\ Now(w).do = "update" /\ at[w] = "write"
      /\ UNCHANGED <<member, status>> /\ GoOn(w, Tail(script[w]))
      /\ abandoned' = abandoned \ {Now(w).group}
  BY DEF Write, Doing
<1>p. PICK s, t, op : s = script[w] /\ t = Tail(script[w]) /\ op = Now(w) OBVIOUS
<1>c. script'[w] = t /\ at'[w] = "next" /\ held'[w] \subseteq held[w] BY <1>a, <1>b, <1>p, GoOnMoves
<1>d. /\ s \in Seq(Op) /\ s # << >> /\ Head(s) = op /\ RestOf(t, s) /\ Honest(s)
  BY <1>b, <1>p, ScriptOwned DEF Now, RestOf, AllHeard, Serious
<1>e. t \in Seq(Op) /\ Honest(t) /\ Steady(t) BY <1>b, <1>d, TailParts, HonestTail, AllSteady
<1>f. DOMAIN copy[w] = Scope(op) BY <1>b, <1>p DEF AllHeard, Serious, Ready
\* what is written
<1>1. ASSUME NEW e \in Expenses, e \in Writable(w)
      PROVE  ~isSkipped'[e] /\ summary'[e].state = op.state
  BY <1>1, <1>p DEF Write, Unsynced
<1>2. ASSUME NEW e \in Expenses, e \notin Writable(w)
      PROVE  isSkipped'[e] = isSkipped[e] /\ summary'[e] = summary[e]
  BY <1>2, <1>a DEF Write, TypeOK, DbOK
<1>3. ASSUME NEW e \in Expenses, e \in Scope(op), e \notin Writable(w) PROVE Left(e)'
  BY <1>2, <1>3, <1>f, Written DEF Left
<1>4. ASSUME NEW e \in member, e \notin Scope(op), Left(e) PROVE Left(e)'
  <2>0. e \in Expenses /\ e \notin Writable(w) BY <1>4, <1>a, <1>f DEF Writable, TypeOK, DbOK
  <2>1. GroupOf[e] # NoGroup BY <2>0, SummaryAssumption
  <2>2. GroupOf[e] # op.group BY <1>4, <2>1 DEF Scope, Members
  <2> QED BY <1>2, <1>4, <1>b, <1>p, <2>0, <2>2 DEF Left
\* the rest of the script
<1>5. ASSUME NEW i \in DOMAIN t, NEW e \in Scope(t[i]) PROVE Keeps(t[i], e)
  <2>1. t[i].do \notin {"skip", "ungroup"}
    <3>1. t \in Seq(Plain(held[w])) BY <1>b, <1>p, NowOwned
    <3>2. t[i] \in Plain(held[w]) BY <3>1
    <3> QED BY <3>2 DEF Plain
  <2>2. ASSUME e \in member, isSkipped[e] => Left(e), isSkipped'[e] PROVE Left(e)'
    <3>0. e \in Expenses BY <1>a, <2>2 DEF TypeOK, DbOK
    <3>1. e \notin Writable(w) BY <1>1, <2>2, <3>0
    <3> QED BY <1>2, <1>3, <1>4, <2>2, <3>0, <3>1
  <2> QED BY <1>b, <2>1, <2>2 DEF Keeps
<1>6. Honest(t)' BY <1>e, <1>5, HonestLater
<1>7. Serious(w)' BY <1>c, <1>6 DEF Serious, Ready
<1>8. ASSUME NEW e \in member', e \in held[w] \/ e \in held'[w] PROVE Mine(w, e)'
  <2>0. e \in member /\ e \in held[w] /\ e \in Expenses BY <1>a, <1>b, <1>c, <1>8 DEF TypeOK, DbOK
  <2>1. Mine(w, e) BY <2>0, HeardMine
  <2>2. CASE e \in Scope(op) /\ e \notin Writable(w) BY <1>3, <2>0, <2>2 DEF Mine
  <2>3. CASE e \in Writable(w)
    <3>1. e \in Scope(op) BY <1>f, <2>3 DEF Writable
    <3>2. Ends(e, op.state) \/ Waits(s, 1, e) BY <1>b, <1>p, <3>1, HonestNow
    <3>3. Waits(s, 1, e) => Waits(t, 0, e)' BY <1>d, <1>e, WaitsRest, WaitsLater
    <3> QED BY <1>1, <1>b, <1>c, <2>0, <2>3, <3>2, <3>3 DEF Mine, Ends, Done
  <2>4. CASE e \notin Scope(op)
    <3>0. e \notin Writable(w) BY <1>f, <2>4 DEF Writable
    <3>1. Left(e) => Left(e)' BY <1>4, <2>0, <2>4
    <3>2. Waits(s, 0, e) => Waits(t, 0, e)' BY <1>d, <1>e, <2>4, WaitsRest, WaitsLater
    <3>3. ~Leaves(script[w], e) BY <1>b, UngroupFirst
    <3> QED BY <1>2, <1>b, <1>c, <1>p, <2>0, <2>1, <3>0, <3>1, <3>2, <3>3 DEF Mine, Ends, Done
  <2> QED BY <2>2, <2>3, <2>4
<1>9. Touches(w)
  <2>1. Scope(op) \subseteq held[w] BY <1>b, <1>p, ScopeOwned
  <2>2. \A g \in Groups : g = op.group => Members(g) \subseteq held[w]
    BY <2>1, SummaryAssumption DEF Scope
  <2> QED BY <1>b, <1>p, <2>2 DEF Touches
<1> QED BY <1>7, <1>8, <1>9 DEF Clear

LEMMA WriteSkippedHeard ==
  ASSUME Owned, AllCurrent, AllHeard, NEW w \in Workers, WriteSkipped(w)
  PROVE  Clear(w)
<1>a. TypeOK BY DEF Owned, Typed
<1>p. PICK D : D = DOMAIN copy[w] OBVIOUS
<1>b. /\ script[w] # << >> /\ Now(w).do = "skip" /\ at[w] = "write"
      /\ UNCHANGED <<member, status, abandoned>> /\ GoOn(w, <<Ungroup(D), PostIds(D)>>)
  BY <1>p DEF WriteSkipped, Doing, SkipRest
<1>q. PICK t : t = <<Ungroup(D), PostIds(D)>> OBVIOUS
<1>c. script'[w] = t /\ at'[w] = "next" /\ held'[w] \subseteq held[w]
  BY <1>a, <1>b, <1>q, GoOnMoves
<1>d. D \subseteq Scope(Now(w)) BY <1>b, <1>p DEF AllHeard, Serious, Ready
<1>1. ASSUME NEW e \in Expenses
      PROVE  /\ Left(e) => Left(e)'
             /\ e \notin D => summary'[e] = summary[e] /\ isSkipped'[e] = isSkipped[e]
  <2>1. CASE e \in Writable(w)
    <3>1. e \in D /\ summary[e].state # "DELETED" BY <1>p, <2>1, Written DEF Writable
    <3> QED BY <1>b, <3>1 DEF Left
  <2>2. CASE e \notin Writable(w)
    <3>1. summary'[e] = summary[e] /\ isSkipped'[e] = isSkipped[e]
      BY <1>a, <2>2 DEF WriteSkipped, TypeOK, DbOK
    <3> QED BY <1>b, <3>1 DEF Left
  <2> QED BY <2>1, <2>2
<1>2. /\ t \in Seq({Ungroup(D), PostIds(D)}) /\ 1 \in DOMAIN t /\ t[1] = Ungroup(D)
      /\ \A i \in DOMAIN t : t[i] \in {Ungroup(D), PostIds(D)}
  BY <1>q
<1>3. /\ Ungroup(D).do = "ungroup" /\ Ungroup(D).group = NoGroup /\ Ungroup(D).ids = D
      /\ PostIds(D).do = "post"
  BY DEF Ungroup, PostIds, PostAll
<1>4. Scope(Ungroup(D))' = D BY <1>3 DEF Scope
<1>5. ASSUME NEW e \in D, e \in member' PROVE Left(e)' \/ ~Done(e)'
  <2>1. e \in Expenses /\ e \in member BY <1>5, <1>a, <1>b DEF TypeOK, DbOK
  <2>2. Left(e) \/ ~Done(e) BY <1>b, <1>d, <1>5, <2>1, HonestNow
  <2> QED BY <1>1, <1>b, <2>1, <2>2 DEF Done
<1>6. Honest(t)' BY <1>2, <1>3, <1>4, <1>5 DEF Honest
<1>7. Serious(w)' BY <1>c, <1>6 DEF Serious, Ready
<1>8. ASSUME NEW e \in member', e \in held[w] \/ e \in held'[w] PROVE Mine(w, e)'
  <2>0. e \in member /\ e \in held[w] /\ e \in Expenses BY <1>a, <1>b, <1>c, <1>8 DEF TypeOK, DbOK
  <2>1. CASE e \in D
    <3>1. Waits(t, 0, e)' /\ Leaves(t, e)' BY <1>2, <1>3, <1>4, <2>1 DEF Waits, Leaves, Closing
    <3> QED BY <1>c, <3>1 DEF Mine
  <2>2. CASE e \notin D
    <3>1. Mine(w, e) BY <2>0, HeardMine
    <3>2. Free(e) BY <1>b, <3>1, SkipOnly DEF Mine, Free
    <3>3. summary'[e] = summary[e] /\ isSkipped'[e] = isSkipped[e] /\ (Left(e) => Left(e)')
      BY <1>1, <2>0, <2>2
    <3> QED BY <1>b, <3>2, <3>3 DEF Free, Mine, Ends, Done
  <2> QED BY <2>1, <2>2
<1>9. Touches(w) BY <1>b DEF Touches
<1> QED BY <1>7, <1>8, <1>9 DEF Clear

LEMMA LeaveHeard ==
  ASSUME Owned, AllHeard, NEW w \in Workers, Leave(w)
  PROVE  Clear(w)
<1>a. TypeOK BY DEF Owned, Typed
<1>b. /\ script[w] # << >> /\ Now(w).do = "ungroup"
      /\ UNCHANGED <<summary, isSkipped, abandoned>> /\ GoOn(w, Tail(script[w]))
  BY DEF Leave, Doing
<1>p. PICK D \in SUBSET held[w] : D # {} /\ script[w] = <<Ungroup(D), PostIds(D)>> BY <1>b, NowOwned
<1>1. /\ Now(w) = Ungroup(D) /\ Tail(script[w]) = <<PostIds(D)>>
      /\ DOMAIN script[w] = {1, 2} /\ script[w][1] = Ungroup(D) /\ script[w][2] = PostIds(D)
  BY <1>p DEF Now
<1>2. /\ Ungroup(D).do = "ungroup" /\ Ungroup(D).group = NoGroup /\ Ungroup(D).ids = D
      /\ PostIds(D).do = "post" /\ Scope(Ungroup(D)) = D
  BY DEF Ungroup, PostIds, PostAll, Scope
<1>q. PICK E, G : E = {e \in D : ~Done(e)} /\ G = {GroupOf[e] : e \in E \cap member} OBVIOUS
<1>3. /\ member' = member \ E
      /\ status' = [g \in Groups |-> IF g \in G THEN "ready" ELSE status[g]]
  BY <1>1, <1>2, <1>q DEF Leave, Done
<1>4. script'[w] = <<PostIds(D)>> /\ at'[w] = "next" /\ held'[w] \subseteq held[w]
  <2>1. PICK t : t = Tail(script[w]) OBVIOUS
  <2>2. script'[w] = t /\ at'[w] = "next" /\ held'[w] \subseteq held[w]
    BY <1>a, <1>b, <2>1, GoOnMoves
  <2> QED BY <1>1, <2>1, <2>2
<1>5. Serious(w)'
  <2>1. D \in SUBSET Expenses BY <1>a, <1>p DEF TypeOK, LocalsOK
  <2>2. PostIds(D) \in Sures'
    <3>1. PostIds(D) \in Op BY <2>1 DEF PostIds, PostAll, Op, States
    <3> QED BY <1>2, <3>1 DEF Sures
  <2>3. <<PostIds(D)>> \in Seq(Sures') BY <2>2
  <2>t. PICK t : t = <<PostIds(D)>> OBVIOUS
  <2>4. Honest(t)' BY <2>3, <2>t, SureHonest
  <2> QED BY <1>4, <2>4, <2>t DEF Serious, Ready
<1>6. \A g \in Groups : status'[g] \in {status[g], "ready"} BY <1>3
<1>7. ASSUME NEW e \in member', e \in held[w] \/ e \in held'[w] PROVE Mine(w, e)'
  <2>0. e \in member /\ e \in held[w] /\ e \notin E /\ GroupOf[e] \in Groups
    BY <1>3, <1>4, <1>7, <1>a, SummaryAssumption DEF TypeOK, DbOK
  <2>1. Mine(w, e) BY <2>0, HeardMine
  <2>2. CASE e \in D
    <3>1. Done(e) BY <1>q, <2>0, <2>2
    <3>2. Left(e) BY <1>1, <1>2, <1>b, <2>0, <2>2, <3>1, HonestNow
    <3> QED BY <1>b, <3>2 DEF Mine, Left
  <2>3. CASE e \notin D
    <3>1. ~Waits(script[w], 0, e) /\ ~Leaves(script[w], e)
      BY <1>1, <1>2, <2>3 DEF Waits, Leaves, Closing
    <3>2. Free(e) BY <2>1, <3>1 DEF Mine, Free
    <3>3. status'[GroupOf[e]] \in {status[GroupOf[e]], "ready"} BY <1>6, <2>0
    <3> QED BY <1>b, <3>2, <3>3 DEF Free, Mine, Left, Ends, Done
  <2> QED BY <2>2, <2>3
<1>8. Touches(w) BY <1>b, <1>6 DEF Touches
<1> QED BY <1>5, <1>7, <1>8 DEF Clear
-----------------------------------------------------------------------------
(* The worker that takes up a job.                                         *)

\* An expense that nobody holds waits for nobody.
LEMMA NobodyHolds ==
  ASSUME ~Overlap, AllHeard, NEW E, Apart(E), NEW e \in E, e \in member
  PROVE  Free(e)
  BY DEF AllHeard, Heard, Apart

LEMMA IdleFree ==
  ASSUME Owned, AllHeard, NEW w \in Workers, Idle(w), NEW e \in member, e \in held[w]
  PROVE  Free(e)
<1>1. Mine(w, e) BY HeardMine
<1>2. ~Waits(script[w], 0, e) /\ ~Leaves(script[w], e) BY DEF Idle, Waits, Leaves
<1> QED BY <1>1, <1>2 DEF Mine, Free

LEMMA StartClear ==
  ASSUME Owned, ~Overlap, AllHeard, NEW w \in Workers, Idle(w), NEW all, Apart(all),
         held'[w] = all, NEW t, script'[w] = t, Honest(t)', Ready(w)',
         UNCHANGED <<member, summary, isSkipped, abandoned>>,
         \A g \in Groups : status'[g] = status[g] \/ Members(g) \subseteq all,
         \A e \in member : e \in all => \/ status'[GroupOf[e]] \in {status[GroupOf[e]], "inflight"}
                                        \/ Waits(t, 0, e)'
  PROVE  Clear(w)
<1>1. ASSUME NEW e \in member', e \in held[w] \/ e \in held'[w] PROVE Mine(w, e)'
  <2>0. e \in member /\ e \in Members(GroupOf[e]) /\ GroupOf[e] \in Groups
    BY <1>1, SummaryAssumption DEF Owned, Typed, TypeOK, DbOK, Members
  <2>1. Free(e) BY <1>1, <2>0, NobodyHolds, IdleFree
  <2>2. \/ status'[GroupOf[e]] \in {status[GroupOf[e]], "inflight"}
        \/ Waits(t, 0, e)'
    BY <2>0
  <2> QED BY <2>1, <2>2 DEF Free, Mine, Left, Ends, Done
<1>2. Touches(w) BY DEF Touches
<1> QED BY <1>1, <1>2 DEF Clear, Serious

\* A job that begins by writing has read what it writes.
LEMMA StartWritingMoves ==
  ASSUME TypeOK, NEW w \in Workers, NEW E, NEW t, NEW all, StartWriting(w, E, t, all),
         NEW s, Head(t) = UpdateIds(s, E)
  PROVE  script'[w] = t /\ held'[w] = all /\ Ready(w)'
<1>1. /\ script'[w] = t /\ held'[w] = all /\ DOMAIN copy'[w] = E
  BY DEF StartWriting, TypeOK, LocalsOK
<1>2. /\ UpdateIds(s, E).do = "update" /\ UpdateIds(s, E).ids = E
      /\ UpdateIds(s, E).group = NoGroup
  BY DEF UpdateIds, PostAll
<1>3. Now(w)' = UpdateIds(s, E) BY <1>1 DEF Now
<1>4. Scope(Now(w))' = E BY <1>2, <1>3 DEF Scope
<1> QED BY <1>1, <1>2, <1>3, <1>4 DEF Ready

\* An update that is followed by the one its expenses wait for.
LEMMA FirstHonest ==
  ASSUME NEW t, t \in Seq(Sures'), NEW op \in Op, op.do = "update", NEW s, Cons(s, op, t),
         \A e \in Scope(op)' : e \in member' /\ (isSkipped'[e] => Left(e)') /\ Waits(t, 0, e)'
  PROVE  Honest(s)'
<1>p. PICK S : S = Sures' OBVIOUS
<1>0. t \in Seq(Op) BY DEF Sures
<1>1. /\ s[1] = op
      /\ \A i \in DOMAIN t : i + 1 \in DOMAIN s /\ s[i + 1] = t[i]
      /\ \A j \in DOMAIN s : j # 1 => j - 1 \in DOMAIN t /\ s[j] = t[j - 1]
  BY <1>0, ConsParts
<1>2. \A i \in DOMAIN t : t[i] \in S /\ i \in Nat BY <1>p
<1>3. \A j \in DOMAIN s : j # 1 => s[j] \in S BY <1>1, <1>2
<1>4. ASSUME NEW e \in Scope(op)' PROVE Waits(s, 1, e)'
  <2>1. PICK j \in DOMAIN t : j > 0 /\ Closing(t[j]) /\ e \in Scope(t[j])' BY DEF Waits, Closing
  <2>2. j + 1 \in DOMAIN s /\ s[j + 1] = t[j] /\ j + 1 > 1 BY <1>1, <1>2, <2>1
  <2> QED BY <2>1, <2>2 DEF Waits, Closing
<1>5. ASSUME NEW i \in DOMAIN s
      PROVE  /\ s[i].do = "update" => \A e \in Scope(s[i])' :
                   /\ e \in member' /\ (isSkipped'[e] => Left(e)')
                   /\ Ends(e, s[i].state)' \/ Waits(s, i, e)'
             /\ s[i].do \in {"update", "post"}
  <2>1. CASE i = 1 BY <1>1, <1>4, <2>1
  <2>2. CASE i # 1 BY <1>3, <1>p, <2>2 DEF Sures
  <2> QED BY <2>1, <2>2
<1> QED BY <1>5 DEF Honest

LEMMA ExportStarts ==
  ASSUME Owned, ~Overlap, AllHeard, NEW w \in Workers, NEW g \in Groups, NEW auto \in BOOLEAN,
         NEW last \in Lasts, StartExport(w, g, auto, last)
  PROVE  Clear(w)
<1>a. TypeOK BY DEF Owned, Typed
<1>p. PICK E, all : E = Members(g) /\ all = IF last THEN Expenses ELSE E OBVIOUS
<1>0. /\ Idle(w) /\ Apart(all) /\ UNCHANGED <<member, summary, isSkipped, abandoned>>
      /\ status' = [status EXCEPT ![g] = "inflight"]
  BY <1>p DEF StartExport
<1>1. E \subseteq all /\ E \subseteq member /\ \A e \in E : GroupOf[e] = g
  BY <1>a, <1>p DEF Members, TypeOK, DbOK
<1>2. status'[g] = "inflight" /\ \A h \in Groups : h # g => status'[h] = status[h]
  BY <1>a, <1>0 DEF TypeOK, DbOK
<1>3. \A h \in Groups : status'[h] = status[h] \/ Members(h) \subseteq all BY <1>1, <1>2, <1>p
<1>4. \A e \in member : status'[GroupOf[e]] \in {status[GroupOf[e]], "inflight"}
  BY <1>2, <1>a, SummaryAssumption DEF TypeOK, DbOK
<1>5. ASSUME NEW t, script'[w] = t, held'[w] = all, Honest(t)', Ready(w)' PROVE Clear(w)
  BY <1>0, <1>3, <1>4, <1>5, StartClear
<1>6. CASE auto /\ prev[First(g)] = "ERROR"
  <2>p. PICK t : t = <<Outcome(g, last)>> OBVIOUS
  <2>1. script'[w] = t /\ held'[w] = all /\ at' = at
    BY <1>6, <1>a, <1>p, <2>p DEF StartExport, TypeOK, LocalsOK
  <2>2. DOMAIN t = {1} /\ Len(t) = 1 /\ t[1].do = "outcome" BY <2>p, OpParts
  <2>3. Honest(t)' BY <2>2 DEF Honest
  <2>4. at[w] = "next" BY <1>0 DEF Idle, Owned, Owns, InPlace
  <2>5. Ready(w)' BY <2>1, <2>4 DEF Ready
  <2> QED BY <1>5, <2>1, <2>3, <2>5
<1>7. CASE ~(auto /\ prev[First(g)] = "ERROR")
  <2>p. PICK t : t = <<UpdateIds("IN_PROGRESS", E), PostIds(E), Outcome(g, last)>> OBVIOUS
  <2>1. StartWriting(w, E, t, all) BY <1>7, <1>p, <2>p DEF StartExport
  <2>2. Head(t) = UpdateIds("IN_PROGRESS", E) BY <2>p
  <2>3. script'[w] = t /\ held'[w] = all /\ Ready(w)' BY <1>a, <2>1, <2>2, StartWritingMoves
  <2>4. /\ DOMAIN t = {1, 2, 3} /\ Len(t) = 3 /\ t[1] = UpdateIds("IN_PROGRESS", E)
        /\ t[2].do = "post" /\ t[3].do = "outcome"
    BY <2>p, OpParts
  <2>5. /\ UpdateIds("IN_PROGRESS", E).do = "update" /\ UpdateIds("IN_PROGRESS", E).ids = E
        /\ UpdateIds("IN_PROGRESS", E).group = NoGroup
    BY DEF UpdateIds, PostAll
  <2>6. t[1].do = "update" /\ Scope(t[1])' = E BY <2>4, <2>5 DEF Scope
  <2>7. ASSUME NEW e \in E
        PROVE  e \in member' /\ (isSkipped'[e] => Left(e)') /\ Ends(e, t[1].state)'
    <3>1. Free(e) BY <1>0, <1>1, NobodyHolds
    <3> QED BY <1>0, <1>1, <1>2, <3>1 DEF Free, Left, Ends, Done
  <2>8. Honest(t)' BY <2>4, <2>6, <2>7 DEF Honest
  <2> QED BY <1>5, <2>3, <2>8
<1> QED BY <1>6, <1>7

LEMMA SkippedExportStarts ==
  ASSUME Owned, Owned', ~Overlap, AllHeard, NEW w \in Workers, NEW g \in Groups,
         NEW last \in Lasts, StartSkippedExport(w, g, last)
  PROVE  Clear(w)
<1> USE SummaryAssumption
<1>a. TypeOK /\ Typed' BY DEF Owned, Typed
<1>p. PICK E, all : E = {First(g)} /\ all = IF last THEN Expenses ELSE Members(g) OBVIOUS
<1>q. PICK a, b, c, d, r : /\ a = UpdateIds("IN_PROGRESS", E) /\ b = PostIds(E)
                           /\ c = Update("ERROR", g) /\ d = PostFailed(g) /\ r = Details(last)
  OBVIOUS
<1>0. /\ Idle(w) /\ Apart(all) /\ UNCHANGED <<member, summary, isSkipped, abandoned, status>>
      /\ Members(g) # {} /\ status[g] \in {"ready", "failed"}
      /\ StartWriting(w, E, <<a, b, c, d>> \o r, all)
  BY <1>p, <1>q DEF StartSkippedExport, dbVars
<1>1. First(g) \in Members(g) BY <1>a, <1>0, FirstMember DEF TypeOK
<1>2. /\ E \subseteq Members(g) /\ Members(g) \subseteq all /\ E \in SUBSET Expenses
      /\ Members(g) \subseteq member /\ Members(g)' = Members(g) /\ last \in BOOLEAN
  BY <1>a, <1>0, <1>1, <1>p DEF Members, TypeOK, DbOK
<1>3. ASSUME NEW e \in Members(g)
      PROVE  (isSkipped'[e] => Left(e)') /\ Ends(e, "ERROR")'
  <2>1. Free(e) BY <1>0, <1>2, NobodyHolds
  <2>2. status'[GroupOf[e]] # "complete" BY <1>0 DEF Members
  <2> QED BY <1>0, <2>1, <2>2 DEF Free, Left, Ends, Done
<1>4. "ERROR" \in States /\ "IN_PROGRESS" \in States BY DEF States
<1>5. c \in Sures' BY <1>a, <1>2, <1>3, <1>4, <1>q, GroupSure
<1>6. PostAll \in Sures' /\ b \in Sures' /\ d \in Sures' BY <1>2, <1>q, PostsSure
<1>S. PICK S : S = Sures' OBVIOUS
<1>u. PICK u : u = <<b, c, d>> OBVIOUS
<1>7. u \in Seq(S) /\ u # << >> /\ r \in Seq(S) /\ << >> \in Seq(S) /\ DOMAIN u = {1, 2, 3} /\ u[2] = c
  <2>1. r \in Seq(S) BY <1>2, <1>6, <1>S, <1>q, DetailsOf
  <2>2. u \in Seq(S) BY <1>5, <1>6, <1>S, <1>u, ScriptOf
  <2> QED BY <1>u, <2>1, <2>2
<1>t. PICK t : t = u \o r OBVIOUS
<1>8. /\ t \in Seq(S) /\ \E i \in DOMAIN t : i > 0 /\ t[i] = c
  <2>1. /\ u \o r \in Seq(S) /\ Len(u \o r) = Len(u) + Len(r)
        /\ \A i \in 1..Len(u) + Len(r) : (u \o r)[i] = IF i <= Len(u) THEN u[i] ELSE r[i - Len(u)]
    BY <1>7, ConcatProperties
  <2>2. Len(u) = 3 /\ Len(r) \in Nat BY <1>7, <1>u
  <2>3. /\ t \in Seq(S) /\ Len(t) = 3 + Len(r)
        /\ \A i \in 1..3 + Len(r) : t[i] = IF i <= 3 THEN u[i] ELSE r[i - 3]
    BY <2>1, <2>2, <1>t
  <2>4. 2 \in DOMAIN t /\ t[2] = c BY <1>7, <2>2, <2>3
  <2> QED BY <2>3, <2>4
<1>s. PICK s : s = <<a, b, c, d>> \o r OBVIOUS
<1>9. Cons(s, a, t)
  <2>1. a \in Op
    BY <1>2, <1>4, <1>q DEF UpdateIds, PostAll, Op, States
  <2>2. u \in Seq(Op) /\ r \in Seq(Op) BY <1>7, <1>S DEF Sures
  <2>3. <<a, b, c, d>> = <<a>> \o u BY <1>u, <2>1, <2>2
  <2>4. <<a>> \in Seq(Op) BY <2>1
  <2>5. (<<a>> \o u) \o r = <<a>> \o (u \o r) BY <2>2, <2>4, ConcatAssociative
  <2> QED BY <1>s, <1>t, <2>3, <2>5 DEF Cons
<1>10. /\ a \in Op /\ a.do = "update" /\ a.group = NoGroup /\ a.ids = E
  BY <1>2, <1>4, <1>q DEF UpdateIds, PostAll, Op, States
<1>11. \A e \in Members(g) : Waits(t, 0, e)' BY <1>2, <1>8, <1>q, GroupWaits
<1>12. \A e \in Scope(a)' : e \in member' /\ (isSkipped'[e] => Left(e)') /\ Waits(t, 0, e)'
  BY <1>0, <1>2, <1>3, <1>10, <1>11 DEF Scope
<1>13. Honest(s)' BY <1>8, <1>9, <1>10, <1>12, <1>S, FirstHonest
<1>14. Head(s) = UpdateIds("IN_PROGRESS", E)
  <2>1. t \in Seq(Op) BY <1>8, <1>S DEF Sures
  <2>2. 1 \in DOMAIN s /\ s[1] = a /\ s \in Seq(Op) BY <1>9, <1>10, <2>1, ConsParts
  <2> QED BY <1>q, <2>2
<1>15. StartWriting(w, E, s, all) BY <1>0, <1>s
<1>16. script'[w] = s /\ held'[w] = all /\ Ready(w)' BY <1>a, <1>14, <1>15, StartWritingMoves
<1>17. \A h \in Groups : status'[h] = status[h] BY <1>0
<1>18. \A e \in member : status'[GroupOf[e]] = status[GroupOf[e]] BY <1>0
<1> QED BY <1>0, <1>13, <1>16, <1>17, <1>18, StartClear

LEMMA SkipStarts ==
  ASSUME Owned, ~Overlap, AllHeard, NEW w \in Workers, NEW E \in SUBSET Filtered, StartSkip(w, E)
  PROVE  Clear(w)
<1>a. TypeOK BY DEF Owned, Typed
<1>p. PICK t : t = <<Skip(E)>> OBVIOUS
<1>0. /\ Idle(w) /\ Apart(E) /\ UNCHANGED <<member, summary, isSkipped, abandoned, status, at>>
      /\ script' = [script EXCEPT ![w] = t] /\ held' = [held EXCEPT ![w] = E]
      /\ \A e \in E : summary[e].state # "COMPLETE"
  BY <1>p DEF StartSkip, dbVars
<1>1. script'[w] = t /\ held'[w] = E BY <1>0, <1>a DEF TypeOK, LocalsOK
<1>2. Ready(w)'
  <2>1. at[w] = "next" BY <1>0 DEF Idle, Owned, Owns, InPlace
  <2> QED BY <1>0, <2>1 DEF Ready
<1>3. ASSUME NEW e \in E, e \in member' PROVE Left(e)' \/ ~Done(e)'
  <2>1. Free(e) BY <1>0, <1>3, NobodyHolds
  <2>2. Left(e) \/ ~Done(e) BY <1>0, <2>1 DEF Free, Ends
  <2> QED BY <1>0, <2>2 DEF Left, Done
<1>4. Honest(t)'
  <2>1. \A i \in DOMAIN t : t[i] = Skip(E) BY <1>p
  <2>q. PICK op : op = Skip(E) OBVIOUS
  <2>2. op.do = "skip" /\ Scope(op)' = E BY <2>q DEF Skip, PostAll, Scope
  <2>3. \A i \in DOMAIN t : t[i] = op BY <2>1, <2>q
  <2> QED BY <1>3, <2>2, <2>3 DEF Honest
<1>5. \A h \in Groups : status'[h] = status[h] BY <1>0
<1>6. \A e \in member : status'[GroupOf[e]] = status[GroupOf[e]] BY <1>0
<1> QED BY <1>0, <1>1, <1>2, <1>4, <1>5, <1>6, StartClear

LEMMA StuckStarts ==
  ASSUME Owned, ~Overlap, AllHeard, NEW w \in Workers, NEW G \in SUBSET Groups,
         StartStuckCheck(w, G)
  PROVE  Clear(w)
<1>a. TypeOK BY DEF Owned, Typed
<1>p. PICK E : E = UNION {Members(g) : g \in G} OBVIOUS
<1>t. PICK a, b, t : a = UpdateIds("ERROR", E) /\ b = PostFailedIds(E) /\ t = <<a, b>> OBVIOUS
<1>0. /\ Idle(w) /\ Apart(E) /\ UNCHANGED <<member, summary, isSkipped, abandoned>>
      /\ StartWriting(w, E, t, E) /\ G # {}
      /\ status' = [g \in Groups |-> IF g \in G THEN "failed" ELSE status[g]]
  BY <1>p, <1>t DEF StartStuckCheck
<1>1. /\ E \in SUBSET Expenses /\ E \subseteq member
      /\ \A e \in E : GroupOf[e] \in G /\ status'[GroupOf[e]] = "failed"
  BY <1>0, <1>a, <1>p DEF Members, TypeOK, DbOK
<1>2. \A h \in Groups : status'[h] = status[h] \/ Members(h) \subseteq E BY <1>0, <1>p
<1>3. a.do = "update" /\ a.group = NoGroup /\ a.ids = E /\ a.state = "ERROR" /\ a \in Op
  BY <1>1, <1>t DEF UpdateIds, PostAll, Op, States
<1>4. Scope(a)' = E BY <1>3 DEF Scope
<1>5. \A e \in E : e \in member' /\ (isSkipped'[e] => Left(e)') /\ Ends(e, "ERROR")'
  <2>1. ASSUME NEW e \in E PROVE (isSkipped'[e] => Left(e)') /\ Ends(e, "ERROR")'
    <3>1. Free(e) BY <1>0, <1>1, NobodyHolds
    <3> QED BY <1>0, <1>1, <3>1 DEF Free, Left, Ends, Done
  <2> QED BY <1>0, <1>1, <2>1
<1>6. a \in Sures' BY <1>3, <1>4, <1>5 DEF Sures
<1>7. b \in Sures' BY <1>0, <1>1, <1>t, PostsSure
<1>8. t \in Seq(Sures') /\ 1 \in DOMAIN t /\ t[1] = a /\ Head(t) = a BY <1>6, <1>7, <1>t
<1>9. Honest(t)' BY <1>8, SureHonest
<1>10. script'[w] = t /\ held'[w] = E /\ Ready(w)' BY <1>0, <1>8, <1>a, <1>t, StartWritingMoves
<1>11. \A e \in E : Waits(t, 0, e)' BY <1>3, <1>4, <1>8 DEF Waits, Closing
<1> QED BY <1>0, <1>2, <1>9, <1>10, <1>11, StartClear

LEMMA PostAllStarts ==
  ASSUME Owned, ~Overlap, AllHeard, NEW w \in Workers, StartPostAll(w)
  PROVE  Clear(w)
<1>a. TypeOK BY DEF Owned, Typed
<1>p. PICK t : t = <<PostAll>> OBVIOUS
<1>0. /\ Idle(w) /\ Apart(Expenses)
      /\ UNCHANGED <<member, summary, isSkipped, abandoned, status, at>>
      /\ script' = [script EXCEPT ![w] = t] /\ held' = [held EXCEPT ![w] = Expenses]
  BY <1>p DEF StartPostAll, dbVars
<1>1. script'[w] = t /\ held'[w] = Expenses BY <1>0, <1>a DEF TypeOK, LocalsOK
<1>2. Ready(w)'
  <2>1. at[w] = "next" BY <1>0 DEF Idle, Owned, Owns, InPlace
  <2> QED BY <1>0, <2>1 DEF Ready
<1>3. Honest(t)'
  <2>1. \A i \in DOMAIN t : t[i].do = "post" BY <1>p DEF PostAll
  <2> QED BY <2>1 DEF Honest
<1>4. \A h \in Groups : status'[h] = status[h] BY <1>0
<1>5. \A e \in member : status'[GroupOf[e]] = status[GroupOf[e]] BY <1>0
<1> QED BY <1>0, <1>1, <1>2, <1>3, <1>4, <1>5, StartClear
-----------------------------------------------------------------------------
(* The invariant and what follows.                                         *)

LEMMA StartHeard ==
  ASSUME Owned, Owned', ~Overlap, AllHeard, NEW w \in Workers, Start(w)
  PROVE  Clear(w)
<1>1. CASE \E g \in Groups, auto \in BOOLEAN, last \in Lasts : StartExport(w, g, auto, last)
  BY <1>1, ExportStarts
<1>2. CASE \E g \in Groups, last \in Lasts : StartSkippedExport(w, g, last)
  BY <1>2, SkippedExportStarts
<1>3. CASE \E E \in SUBSET Filtered : StartSkip(w, E) BY <1>3, SkipStarts
<1>4. CASE \E G \in SUBSET Groups : StartStuckCheck(w, G) BY <1>4, StuckStarts
<1>5. CASE StartPostAll(w) BY <1>5, PostAllStarts
<1> QED BY <1>1, <1>2, <1>3, <1>4, <1>5 DEF Start

LEMMA HeardStep ==
  ASSUME ~Overlap
  PROVE  Owned /\ Owned' /\ AllCurrent /\ AllHeard /\ [Next]_vars => AllHeard'
<1> SUFFICES ASSUME Owned, Owned', AllCurrent, AllHeard, [Next]_vars PROVE AllHeard'
  OBVIOUS
<1>1. ASSUME NEW w \in Workers, Start(w) \/ Step(w) \/ Crash(w) PROVE AllHeard'
  <2>1. ASSUME Start(w) PROVE Clear(w) BY <2>1, StartHeard
  <2>2. ASSUME Read(w) \/ ReadSkipped(w) PROVE Clear(w) BY <2>2, ReadHeard
  <2>3. ASSUME Write(w) PROVE Clear(w) BY <2>3, WriteHeard
  <2>4. ASSUME WriteSkipped(w) PROVE Clear(w) BY <2>4, WriteSkippedHeard
  <2>5. ASSUME Leave(w) PROVE Clear(w) BY <2>5, LeaveHeard
  <2>6. ASSUME Succeed(w) \/ Fail(w) \/ Fault(w) \/ CannotSave(w) PROVE Clear(w) BY <2>6, OutcomeHeard
  <2>7. ASSUME \/ Count(w) \/ ReadPage(w) \/ Accept(w) \/ Outage(w)
               \/ Refuse(w) \/ MarkDeleted(w) \/ ReadPosted(w) \/ MarkSynced(w)
        PROVE  Clear(w)
    BY <2>7, PostHeard
  <2>8. ASSUME Crash(w) PROVE Clear(w) BY <2>8, CrashHeard
  <2>9. Clear(w)
    BY <1>1, <2>1, <2>2, <2>3, <2>4, <2>5, <2>6, <2>7, <2>8 DEF Step
  <2>10. Frame(w) BY <1>1, WorkerOwns
  <2> QED BY <2>9, <2>10, MoveHeard
<1>2. CASE Quiet
  <2>1. UNCHANGED <<summary, isSkipped, member, status, abandoned, script, at, copy, held>>
    BY <1>2 DEF Quiet, dbVars, localVars
  <2>2. ASSUME NEW s PROVE Honest(s) => Honest(s)'
    BY <2>1 DEF Honest, Waits, Scope, Members, Left, Ends, Done, Closing
  <2>3. \A w \in Workers : Serious(w)'
    BY <2>1, <2>2 DEF AllHeard, Serious, Ready, Now, Scope, Members
  <2>4. ASSUME NEW e \in member' PROVE Heard(e)'
    <3>1. Heard(e) BY <2>1, <2>4 DEF AllHeard
    <3>2. Free(e) => Free(e)' BY <2>1 DEF Free, Left, Ends, Done
    <3>3. ASSUME NEW w \in Workers PROVE Mine(w, e) => Mine(w, e)'
      BY <2>1 DEF Mine, Waits, Leaves, Scope, Members, Left, Ends, Done
    <3> QED BY <2>1, <3>1, <3>2, <3>3 DEF Heard
  <2> QED BY <2>3, <2>4 DEF AllHeard
<1> QED BY <1>1, <1>2, NextMoves

LEMMA HeardInit == Init => AllHeard
<1> SUFFICES ASSUME Init PROVE AllHeard
  OBVIOUS
<1>1. ASSUME NEW w \in Workers PROVE Serious(w)
  <2>1. script[w] = << >> /\ at[w] = "next" BY DEF Init
  <2> QED BY <2>1 DEF Serious, Ready, Honest
<1>2. ASSUME NEW e \in member PROVE Free(e)
  <2>1. e \in Expenses /\ GroupOf[e] \in Groups BY SummaryAssumption DEF Init
  <2>2. status[GroupOf[e]] = "ready" /\ ~isSkipped[e] BY <2>1 DEF Init
  <2> QED BY <2>2 DEF Free, Ends, Done
<1> QED BY <1>1, <1>2 DEF AllHeard, Heard

LEMMA HeardAlways == ASSUME ~Overlap PROVE Spec => [](Owned /\ AllCurrent /\ AllHeard)
<1>1. Owned /\ [Next]_vars => Owned' BY OwnedStep
<1>2. Owned /\ Owned' /\ AllCurrent /\ AllHeard /\ [Next]_vars => AllHeard' BY HeardStep
<1> QED BY <1>1, <1>2, HeardInit, CurrentAlways, PTL DEF Spec

\* Whichever exports succeed, fail, are skipped or stuck, and whichever
\* workers die: once no job handles an expense, its summary tells how the
\* export of its group ended, unless its last update was cut off.
THEOREM SummaryTells == ASSUME ~Overlap PROVE Spec => []SummaryTellsStatus
<1>1. AllHeard => SummaryTellsStatus
  BY DEF AllHeard, Heard, Free, Left, Ends, Done, SummaryTellsStatus
<1> QED BY <1>1, HeardAlways, PTL

\* No update un-skips an expense, although each writes is_skipped = FALSE on
\* all it has read: no script updates a skipped expense, but one that a dead
\* worker left in its group.
THEOREM SkippedStays == ASSUME ~Overlap PROVE Spec => SkipIsFinal
<1>1. ASSUME Owned, AllCurrent, AllHeard, [Next]_vars, NEW e \in Expenses,
             isSkipped[e], GroupOf[e] \notin abandoned
      PROVE  isSkipped'[e]
  <2>1. ASSUME NEW w \in Workers, Write(w) PROVE isSkipped'[e]
    <3>0. script[w] # << >> /\ Now(w).do = "update" /\ at[w] = "write" BY <2>1 DEF Write, Doing
    <3>1. ASSUME e \in Writable(w) PROVE FALSE
      <4>1. e \in Scope(Now(w)) BY <1>1, <3>0, <3>1 DEF AllHeard, Serious, Ready, Writable
      <4>2. Left(e) BY <1>1, <3>0, <4>1, HonestNow
      <4>3. summary[e].state # "DELETED" BY <1>1, <3>1, Written DEF Writable
      <4> QED BY <1>1, <4>2, <4>3 DEF Left
    <3> QED BY <1>1, <2>1, <3>1 DEF Write
  <2>2. ASSUME NEW w \in Workers, WriteSkipped(w) PROVE isSkipped'[e]
    BY <1>1, <2>2 DEF WriteSkipped
  <2>3. ASSUME NEW w \in Workers, Start(w) \/ Step(w) \/ Crash(w), ~Write(w), ~WriteSkipped(w)
        PROVE  UNCHANGED isSkipped
    BY <2>3 DEF Start, StartExport, StartSkippedExport, StartSkip, StartStuckCheck, StartPostAll,
                Step, Read, ReadSkipped, Leave, Succeed, Fail, Fault, CannotSave, Count, ReadPage,
                Accept, Outage, Refuse, MarkDeleted, ReadPosted, MarkSynced, Crash, dbVars
  <2>4. Quiet => UNCHANGED isSkipped BY DEF Quiet, dbVars
  <2> QED BY <1>1, <2>1, <2>2, <2>3, <2>4, NextMoves
<1>2. Owned /\ AllCurrent /\ AllHeard /\ [Next]_vars =>
        [\A e \in Expenses : isSkipped[e] /\ GroupOf[e] \notin abandoned => isSkipped'[e]]_vars
  BY <1>1
<1> QED BY <1>2, HeardAlways, PTL DEF Spec, SkipIsFinal
=============================================================================
