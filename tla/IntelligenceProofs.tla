-------------------------- MODULE IntelligenceProofs --------------------------
(***************************************************************************)
(* Proofs about what the system knows and concludes.                       *)
(***************************************************************************)
EXTENDS MCIntelligence, FiniteSetTheorems, TLAPS
------------------------------------------------------------------------------
(* What is learned                                                         *)

Elements(s) == {s[i] : i \in 1..Len(s)}

\* What a request has read and not yet written.
Errand == [op: Operations \cup {"idle"}, by: Person, key: Key \cup {NoKey, "plan"}, of: Nat,
           value: {0, 1}, lessons: BOOLEAN, read: BOOLEAN]

\* The other row of S that a row e stands with.
Grounded(e, S) ==
    /\ e.kind = "key" =>
        \E o \in S : o.kind # "key" /\ o.what = e.what /\ o.by = e.by
                     /\ (e.what \in Events => o.of = e.of)
    /\ e.kind = "lesson" =>
        \E o \in S : o.kind = "event" /\ o.id = e.of /\ o.what = "evaluated" /\ o.lessons
    /\ e.kind = "event" /\ e.what = "evaluated" /\ e.lessons =>
        \E o \in S : o.kind = "lesson" /\ o.of = e.id
    /\ e.kind = "handoff" => \E o \in S : o.kind = "recommendation" /\ o.id = e.of
    /\ e.kind = "learned" => \E o \in S : o.kind = "outcome" /\ o.value = e.value

LearningTypes ==
    /\ log \in Seq(Row) /\ pending \in [Process -> Seq(Row)]
    /\ request \in [Process -> Errand] /\ metric \in {0, 1}
    /\ \A p \in Process : request[p].op = "idle" => ~request[p].read

\* One process at a time has inserted rows.
OneWriter == \A p, q \in Process : pending[p] # <<>> /\ pending[q] # <<>> => p = q

\* What is committed stands together, and so does what a commit would make of it.
Together ==
    /\ \A e \in Rows : Grounded(e, Rows)
    /\ \A p \in Process : \A e \in Elements(pending[p]) :
            Grounded(e, Rows \cup Elements(pending[p]))

\* The outcome of a plan is there before what was learned of it.
OutcomeFirst ==
    \A p \in Process :
        /\ request[p].op = "attributed" =>
            \E o \in Rows : o.kind = "outcome" /\ o.value = request[p].value
        /\ request[p].op = "attribute" /\ pending[p] # <<>> =>
            \E o \in Elements(pending[p]) : o.kind = "outcome" /\ o.value = request[p].value

\* A request that has not read has inserted nothing.
ReadsFirst ==
    \A p \in Process : request[p].op # "idle" /\ ~request[p].read => pending[p] = <<>>

LearningInv == LearningTypes /\ OneWriter /\ Together /\ OutcomeFirst /\ ReadsFirst

LEMMA GroundedIn ==
    ASSUME NEW S, NEW T, S \subseteq T, NEW e, Grounded(e, S)
    PROVE  Grounded(e, T)
BY DEF Grounded

LEMMA ElementsOf ==
    /\ \A a : Elements(<<a>>) = {a}
    /\ \A a, b : Elements(<<a, b>>) = {a, b}
    /\ Elements(<<>>) = {}
<1>1. ASSUME NEW a PROVE Elements(<<a>>) = {a}
    BY DEF Elements
<1>2. ASSUME NEW a, NEW b PROVE Elements(<<a, b>>) = {a, b}
  <2>1. Len(<<a, b>>) = 2 /\ 1..2 = {1, 2} /\ <<a, b>>[1] = a /\ <<a, b>>[2] = b
      OBVIOUS
  <2> QED
      BY <2>1 DEF Elements
<1>3. Elements(<<>>) = {}
    BY DEF Elements
<1> QED
    BY <1>1, <1>2, <1>3

LEMMA ElementsOfBoth ==
    ASSUME NEW S, NEW s \in Seq(S), NEW t \in Seq(S)
    PROVE  s \o t \in Seq(S) /\ Elements(s \o t) = Elements(s) \cup Elements(t)
<1>1. Len(s) \in Nat /\ Len(t) \in Nat /\ Len(s \o t) = Len(s) + Len(t) /\ s \o t \in Seq(S)
    OBVIOUS
<1>2. ASSUME NEW i \in 1..Len(s \o t) PROVE (s \o t)[i] \in Elements(s) \cup Elements(t)
  <2>1. CASE i <= Len(s)
      BY <1>1, <2>1 DEF Elements
  <2>2. CASE i > Len(s)
    <3>1. i - Len(s) \in 1..Len(t) /\ (s \o t)[i] = t[i - Len(s)]
        BY <1>1, <2>2
    <3> QED
        BY <3>1 DEF Elements
  <2> QED
      BY <1>1, <2>1, <2>2
<1>3. ASSUME NEW i \in 1..Len(s) PROVE s[i] \in Elements(s \o t)
  <2>1. i \in 1..Len(s \o t) /\ (s \o t)[i] = s[i]
      BY <1>1
  <2> QED
      BY <2>1 DEF Elements
<1>4. ASSUME NEW i \in 1..Len(t) PROVE t[i] \in Elements(s \o t)
  <2>1. i + Len(s) \in 1..Len(s \o t) /\ (s \o t)[i + Len(s)] = t[i]
      BY <1>1
  <2> QED
      BY <2>1 DEF Elements
<1> QED
    BY <1>1, <1>2, <1>3, <1>4 DEF Elements

LEMMA LearningInit == Init => LearningInv
<1> SUFFICES ASSUME Init PROVE LearningInv
    OBVIOUS
<1> DEFINE new == [id |-> 1, kind |-> "recommendation", what |-> "recorded", of |-> 0,
                   by |-> Author, value |-> 0, key |-> NoKey, lessons |-> FALSE]
           event == [new EXCEPT !.id = 2, !.kind = "event", !.what = "accepted", !.of = 1]
<1>1. new \in Row /\ event \in Row
    BY LearningAssumption DEF Row, Operations, Events
<1>2. log = <<new>> \/ log = <<new, event>>
    BY DEF Init
<1>a. /\ new.kind = "recommendation" /\ event.kind = "event" /\ event.what = "accepted"
    OBVIOUS
<1> HIDE DEF new, event
<1>3. log \in Seq(Row) /\ Rows \subseteq {new, event}
  <2>1. Rows = Elements(log)
      BY DEF Rows, Elements
  <2>2. CASE log = <<new>>
    <3>1. Elements(log) = {new}
        BY <2>2, ElementsOf
    <3> QED
        BY <1>1, <2>1, <2>2, <3>1
  <2>3. CASE log = <<new, event>>
    <3>1. Elements(log) = {new, event}
        BY <2>3, ElementsOf
    <3> QED
        BY <1>1, <2>1, <2>3, <3>1
  <2> QED
      BY <1>2, <2>2, <2>3
<1>4. \A e \in Rows : Grounded(e, Rows)
    BY <1>3, <1>a DEF Grounded
<1>5. Idle \in Errand /\ Idle.op = "idle" /\ ~Idle.read
    BY LearningAssumption DEF Idle, Errand
<1>6. /\ pending = [p \in Process |-> <<>>] /\ request = [p \in Process |-> Idle]
      /\ metric = 0
    BY DEF Init
<1>7. LearningTypes
    BY <1>3, <1>5, <1>6 DEF LearningTypes
<1>8. \A p \in Process : Elements(pending[p]) = {}
    BY <1>6, ElementsOf
<1>9. Together
    BY <1>4, <1>8 DEF Together
<1>10. OneWriter /\ OutcomeFirst /\ ReadsFirst
    BY <1>5, <1>6 DEF OneWriter, OutcomeFirst, ReadsFirst
<1> QED
    BY <1>7, <1>9, <1>10 DEF LearningInv

\* The second row of a pair is the first with other fields.
LessonOf(a, i, j) == [a EXCEPT !.id = i, !.kind = "lesson", !.of = j]
HandoffOf(a, i, j) == [a EXCEPT !.id = i, !.kind = "handoff", !.what = "handoff", !.of = j]

LEMMA Paired ==
    ASSUME NEW a \in Row, NEW i \in Nat, NEW j \in Nat
    PROVE  /\ LessonOf(a, i, j) \in Row
           /\ LessonOf(a, i, j).kind = "lesson" /\ LessonOf(a, i, j).of = j
<1> DEFINE b1 == [a EXCEPT !.id = i]
           b2 == [b1 EXCEPT !.kind = "lesson"]
           b3 == [b2 EXCEPT !.of = j]
<1>1. b1 \in Row
    BY DEF Row
<1>2. b2 \in Row /\ b2.kind = "lesson"
  <2> HIDE DEF b1
  <2> QED
      BY <1>1 DEF Row
<1>3. b3 \in Row /\ b3.kind = "lesson" /\ b3.of = j
  <2> HIDE DEF b2
  <2> QED
      BY <1>2 DEF Row
<1>4. LessonOf(a, i, j) = b3
    BY Zenon DEF LessonOf
<1> HIDE DEF b3
<1> QED
    BY <1>3, <1>4

LEMMA HandedOff ==
    ASSUME NEW a \in Row, NEW i \in Nat, NEW j \in Nat
    PROVE  /\ HandoffOf(a, i, j) \in Row
           /\ HandoffOf(a, i, j).kind = "handoff" /\ HandoffOf(a, i, j).what = "handoff"
           /\ HandoffOf(a, i, j).by = a.by /\ HandoffOf(a, i, j).of = j
<1> DEFINE b == [a EXCEPT !.id = i]
           c2 == [b EXCEPT !.kind = "handoff"]
           c3 == [c2 EXCEPT !.what = "handoff"]
           c4 == [c3 EXCEPT !.of = j]
<1>1. b \in Row /\ b.by = a.by
    BY DEF Row
<1>2. c2 \in Row /\ c2.kind = "handoff" /\ c2.by = a.by
  <2> HIDE DEF b
  <2> QED
      BY <1>1 DEF Row
<1>3. c3 \in Row /\ c3.kind = "handoff" /\ c3.what = "handoff" /\ c3.by = a.by
  <2> HIDE DEF c2
  <2> QED
      BY <1>2 DEF Row, Operations
<1>4. c4 \in Row /\ c4.kind = "handoff" /\ c4.what = "handoff" /\ c4.by = a.by /\ c4.of = j
  <2> HIDE DEF c3
  <2> QED
      BY <1>3 DEF Row
<1>5. HandoffOf(a, i, j) = c4
    BY Zenon DEF HandoffOf
<1> HIDE DEF c4
<1> QED
    BY <1>4, <1>5

\* The rows of a request stand together with what is committed, and one of them is what
\* the request is known by.
LEMMA RowsOfStand ==
    ASSUME LearningTypes, NEW r \in Errand, r.op # "idle",
           r.op = "attributed" => \E o \in Rows : o.kind = "outcome" /\ o.value = r.value
    PROVE  /\ RowsOf(r) \in Seq(Row) /\ RowsOf(r) # <<>>
           /\ \A e \in Elements(RowsOf(r)) : Grounded(e, Rows \cup Elements(RowsOf(r)))
           /\ \E o \in Elements(RowsOf(r)) :
                /\ o.kind # "key" /\ o.what = r.op /\ o.by = r.by
                /\ r.op \in Events => o.of = r.of
           /\ r.op = "attribute" =>
                \E o \in Elements(RowsOf(r)) : o.kind = "outcome" /\ o.value = r.value
<1> DEFINE row1(kind, what, of, lessons) ==
                [id |-> NextId, kind |-> kind, what |-> what, of |-> of, by |-> r.by,
                 value |-> r.value, key |-> NoKey, lessons |-> lessons]
<1>0. NextId \in Nat
    BY DEF NextId, LearningTypes
<1>1. /\ r.op \in Operations /\ r.by \in Person /\ r.of \in Nat /\ r.value \in {0, 1}
      /\ r.lessons \in BOOLEAN
    BY DEF Errand
<1>b. ASSUME NEW kind \in {"recommendation", "event", "lesson", "verdict", "handoff", "outcome",
                           "learned"},
             NEW what \in Operations \cup {"recorded"}, NEW of \in Nat, NEW lessons \in BOOLEAN
      PROVE  row1(kind, what, of, lessons) \in Row
    BY <1>0, <1>1 DEF Row
<1>2. CASE r.op \in Events /\ ~(r.op = "evaluated" /\ r.lessons)
  <2> DEFINE a == row1("event", r.op, r.of, r.lessons)
  <2>0. RowsOf(r) = EventRows(r)
    <3>1. r.op = "accepted" \/ r.op = "rejected" \/ r.op = "evaluated"
        BY <1>2 DEF Events
    <3>2. CASE r.op = "accepted"
        BY <3>2 DEF RowsOf, Events, Verdicts
    <3>3. CASE r.op = "rejected"
        BY <3>3 DEF RowsOf, Events, Verdicts
    <3>4. CASE r.op = "evaluated"
        BY <3>4 DEF RowsOf, Events, Verdicts
    <3> QED
        BY <3>1, <3>2, <3>3, <3>4
  <2>1. RowsOf(r) = <<a>>
      BY <1>2, <2>0 DEF EventRows
  <2>2. a \in Row
      BY <1>0, <1>1 DEF Row
  <2>3. Elements(RowsOf(r)) = {a}
      BY <2>1, ElementsOf
  <2>4. /\ a.kind = "event" /\ a.what = r.op /\ a.by = r.by /\ a.of = r.of
        /\ a.lessons = r.lessons
      OBVIOUS
  <2> HIDE DEF a
  <2> QED
      BY <1>2, <2>1, <2>2, <2>3, <2>4 DEF Grounded, Events
<1>3. CASE r.op = "evaluated" /\ r.lessons
  <2> DEFINE a == row1("event", r.op, r.of, r.lessons)
             b == [a EXCEPT !.id = NextId + 1, !.kind = "lesson", !.of = NextId]
  <2>0. RowsOf(r) = EventRows(r)
      BY <1>3 DEF RowsOf, Events, Verdicts
  <2>1. RowsOf(r) = <<a, b>>
      BY <1>3, <2>0 DEF EventRows
  <2>5. a \in Row
      BY <1>0, <1>1, <1>b
  <2>2. b \in Row /\ b.kind = "lesson" /\ b.of = NextId
    <3> HIDE DEF a
    <3>1. b = LessonOf(a, NextId + 1, NextId)
        BY DEF LessonOf
    <3> DEFINE i == NextId + 1
               j == NextId
    <3>3. i \in Nat /\ j \in Nat
        BY <1>0
    <3>4. b = LessonOf(a, i, j)
        BY <3>1
    <3> HIDE DEF b, i, j, row1
    <3>5. LessonOf(a, i, j) \in Row /\ LessonOf(a, i, j).kind = "lesson" /\ LessonOf(a, i, j).of = j
        BY <2>5, <3>3, Paired
    <3> QED
        BY <3>4, <3>5 DEF j
  <2>3. Elements(RowsOf(r)) = {a, b}
      BY <2>1, ElementsOf
  <2>4. /\ a.kind = "event" /\ a.what = r.op /\ a.by = r.by /\ a.of = r.of /\ a.id = NextId
        /\ a.lessons
      BY <1>3
  <2> HIDE DEF a, b
  <2>6. Grounded(a, {a, b}) /\ Grounded(b, {a, b})
      BY <1>3, <2>2, <2>4 DEF Grounded
  <2>7. {a, b} \subseteq Rows \cup Elements(RowsOf(r))
      BY <2>3
  <2>8. \A e \in Elements(RowsOf(r)) : Grounded(e, Rows \cup Elements(RowsOf(r)))
      BY <2>3, <2>6, <2>7, GroundedIn
  <2> QED
      BY <1>3, <2>1, <2>2, <2>3, <2>4, <2>5, <2>8 DEF Events
<1>4. CASE r.op = "handoff"
  <2> DEFINE a == [id |-> NextId, kind |-> "recommendation", what |-> "recorded", of |-> 0,
                   by |-> r.by, value |-> 0, key |-> NoKey, lessons |-> FALSE]
             b == [a EXCEPT !.id = NextId + 1, !.kind = "handoff", !.what = "handoff",
                            !.of = NextId]
  <2>1. RowsOf(r) = <<a, b>>
      BY <1>4 DEF RowsOf, HandoffRows, Events, Verdicts
  <2>5. a \in Row /\ a.by = r.by
      BY <1>0, <1>1 DEF Row
  <2>2. /\ b \in Row /\ b.kind = "handoff" /\ b.what = "handoff" /\ b.by = r.by
        /\ b.of = NextId
    <3> HIDE DEF a
    <3>1. b = HandoffOf(a, NextId + 1, NextId)
        BY DEF HandoffOf
    <3> DEFINE i == NextId + 1
               j == NextId
               h == HandoffOf(a, i, j)
    <3>2. i \in Nat /\ j \in Nat
        BY <1>0
    <3>3. b = h
        BY <3>1
    <3> HIDE DEF b, i, j, row1
    <3>4. h \in Row /\ h.kind = "handoff" /\ h.what = "handoff" /\ h.by = a.by /\ h.of = j
      <4>1. a \in Row
          BY <2>5
      <4> HIDE DEF h
      <4>2. h = HandoffOf(a, i, j)
          BY DEF h
      <4>3. /\ HandoffOf(a, i, j) \in Row
            /\ HandoffOf(a, i, j).kind = "handoff" /\ HandoffOf(a, i, j).what = "handoff"
            /\ HandoffOf(a, i, j).by = a.by /\ HandoffOf(a, i, j).of = j
          BY <3>2, <4>1, HandedOff
      <4> QED
          BY Zenon, <4>2, <4>3
    <3>5. j = NextId
        BY DEF j
    <3> HIDE DEF h
    <3>6. /\ h \in Row /\ h.kind = "handoff" /\ h.what = "handoff" /\ h.by = r.by
          /\ h.of = NextId
        BY <2>5, <3>4, <3>5
    <3> QED
        BY <3>3, <3>6
  <2>4. a.kind = "recommendation" /\ a.id = NextId
      OBVIOUS
  <2> HIDE DEF a, b
  <2>3. Elements(RowsOf(r)) = {a, b}
      BY <2>1, ElementsOf
  <2> QED
      BY <1>4, <2>1, <2>2, <2>3, <2>4, <2>5 DEF Grounded, Events
<1>5. CASE r.op \in Verdicts \cup {"recommend", "attribute", "attributed"}
  <2>0. PICK kind \in {"verdict", "recommendation", "outcome", "learned"} :
            /\ RowsOf(r) = One(r, kind)
            /\ r.op = "attribute" <=> kind = "outcome"
            /\ r.op = "attributed" <=> kind = "learned"
      BY <1>5 DEF RowsOf, Events, Verdicts
  <2> DEFINE a == row1(kind, r.op, r.of, FALSE)
  <2>1. RowsOf(r) = <<a>>
      BY <2>0 DEF One
  <2>2. a \in Row
      BY <1>0, <1>1 DEF Row
  <2>3. Elements(RowsOf(r)) = {a}
      BY <2>1, ElementsOf
  <2>4. a.kind = kind /\ a.what = r.op /\ a.by = r.by /\ a.of = r.of /\ a.value = r.value
      OBVIOUS
  <2> HIDE DEF a
  <2> QED
      BY <2>0, <2>1, <2>2, <2>3, <2>4 DEF Grounded
<1> QED
    BY <1>1, <1>2, <1>3, <1>4, <1>5 DEF Operations

\* The key of a request stands with its rows.
LEMMA WrittenStand ==
    ASSUME LearningTypes, NEW r \in Errand, r.op # "idle",
           r.op = "attributed" => \E o \in Rows : o.kind = "outcome" /\ o.value = r.value
    PROVE  LET new == RowsOf(r) \o KeyRow(r)
           IN  /\ new \in Seq(Row) /\ \A e \in Elements(new) : Grounded(e, Rows \cup Elements(new))
               /\ r.op = "attribute" =>
                    \E o \in Elements(new) : o.kind = "outcome" /\ o.value = r.value
<1> DEFINE a == [id |-> NextId, kind |-> "key", what |-> r.op, of |-> r.of, by |-> r.by,
                 value |-> r.value, key |-> r.key, lessons |-> FALSE]
<1>1. a \in Row /\ a.kind = "key" /\ a.what = r.op /\ a.of = r.of /\ a.by = r.by
    BY DEF LearningTypes, Errand, Row, NextId
<1>2. KeyRow(r) \in Seq(Row) /\ Elements(KeyRow(r)) \subseteq {a}
  <2>1. KeyRow(r) = <<>> \/ KeyRow(r) = <<a>>
      BY DEF KeyRow
  <2> HIDE DEF a
  <2>2. CASE KeyRow(r) = <<>>
    <3>1. Elements(<<>>) = {}
        BY ElementsOf
    <3> QED
        BY <2>2, <3>1
  <2>3. CASE KeyRow(r) = <<a>>
    <3>1. Elements(<<a>>) = {a}
        BY ElementsOf
    <3> QED
        BY <1>1, <2>3, <3>1
  <2> QED
      BY <2>1, <2>2, <2>3
<1>c. RowsOf(r) \in Seq(Row)
    BY RowsOfStand
<1>3. /\ RowsOf(r) \o KeyRow(r) \in Seq(Row)
      /\ Elements(RowsOf(r) \o KeyRow(r)) = Elements(RowsOf(r)) \cup Elements(KeyRow(r))
    BY <1>2, <1>c, ElementsOfBoth
<1> DEFINE all == Rows \cup Elements(RowsOf(r) \o KeyRow(r))
<1> HIDE DEF a
<1>4. ASSUME NEW e \in Elements(RowsOf(r)) PROVE Grounded(e, all)
  <2>1. Grounded(e, Rows \cup Elements(RowsOf(r)))
      BY RowsOfStand
  <2>2. Rows \cup Elements(RowsOf(r)) \subseteq all
      BY <1>3
  <2> HIDE DEF all
  <2> QED
      BY <2>1, <2>2, GroundedIn
<1>5. Grounded(a, all)
  <2>1. \E o \in all : /\ o.kind # "key" /\ o.what = r.op /\ o.by = r.by
                       /\ r.op \in Events => o.of = r.of
      BY <1>3, RowsOfStand
  <2> HIDE DEF all
  <2> QED
      BY <1>1, <2>1 DEF Grounded
<1>6. ASSUME NEW e \in Elements(RowsOf(r) \o KeyRow(r)) PROVE Grounded(e, all)
    BY <1>2, <1>3, <1>4, <1>5
<1>7. r.op = "attribute" => \E o \in Elements(RowsOf(r) \o KeyRow(r)) :
            o.kind = "outcome" /\ o.value = r.value
    BY <1>3, RowsOfStand
<1> QED
    BY <1>3, <1>6, <1>7

LEMMA RowsAreElements == Rows = Elements(log)
BY DEF Rows, Elements

LEMMA QuietRows == log' = log => Rows' = Rows
BY DEF Rows

\* A transaction that commits, whoever commits it.
LEMMA CommitKeeps ==
    ASSUME LearningInv, NEW p \in Process, pending[p] # <<>>, log' = log \o pending[p],
           pending' = [pending EXCEPT ![p] = <<>>]
    PROVE  /\ log' \in Seq(Row) /\ pending' \in [Process -> Seq(Row)]
           /\ Rows' = Rows \cup Elements(pending[p])
           /\ \A q \in Process : pending'[q] = <<>>
           /\ OneWriter' /\ Together'
<1>1. log \in Seq(Row) /\ pending \in [Process -> Seq(Row)] /\ pending[p] \in Seq(Row)
    BY DEF LearningInv, LearningTypes
<1>2. log' \in Seq(Row) /\ Elements(log \o pending[p]) = Elements(log) \cup Elements(pending[p])
    BY <1>1, ElementsOfBoth
<1>3. Rows' = Elements(log')
    BY DEF Rows, Elements
<1>4. Rows' = Rows \cup Elements(pending[p])
    BY <1>2, <1>3, RowsAreElements
<1>5. \A q \in Process : pending'[q] = <<>>
    BY <1>1 DEF LearningInv, OneWriter
<1>6. pending' \in [Process -> Seq(Row)]
  <2>1. <<>> \in Seq(Row)
      OBVIOUS
  <2> QED
      BY <1>1, <2>1
<1>7. OneWriter'
    BY <1>5 DEF OneWriter
<1>8. ASSUME NEW e \in Rows' PROVE Grounded(e, Rows')
  <2>1. CASE e \in Rows
    <3>1. Grounded(e, Rows)
        BY <2>1 DEF LearningInv, Together
    <3> QED
        BY <1>4, <3>1, GroundedIn
  <2>2. CASE e \in Elements(pending[p])
      BY <1>4, <2>2 DEF LearningInv, Together
  <2> QED
      BY <1>4, <2>1, <2>2
<1>9. ASSUME NEW q \in Process PROVE Elements(pending'[q]) = {}
    BY <1>5, ElementsOf
<1>10. Together'
    BY <1>8, <1>9 DEF Together
<1> QED
    BY <1>2, <1>4, <1>5, <1>6, <1>7, <1>10

\* Rows that are inserted by the only process that has any.
LEMMA InsertKeeps ==
    ASSUME LearningInv, NEW p \in Process, NEW new \in Seq(Row), log' = log,
           pending' = [pending EXCEPT ![p] = new],
           new = <<>> \/ \A q \in Process : pending[q] = <<>>,
           \A e \in Elements(new) : Grounded(e, Rows \cup Elements(new))
    PROVE  /\ log' \in Seq(Row) /\ pending' \in [Process -> Seq(Row)] /\ Rows' = Rows
           /\ OneWriter' /\ Together'
<1>1. log \in Seq(Row) /\ pending \in [Process -> Seq(Row)]
    BY DEF LearningInv, LearningTypes
<1>2. Rows' = Rows
    BY QuietRows
<1>3. \A q \in Process : pending'[q] = IF q = p THEN new ELSE pending[q]
    BY <1>1
<1>4. OneWriter'
    BY <1>3 DEF LearningInv, OneWriter
<1>5. ASSUME NEW q \in Process, NEW e \in Elements(pending'[q])
      PROVE  Grounded(e, Rows \cup Elements(pending'[q]))
    BY <1>3 DEF LearningInv, Together
<1>6. Together'
    BY <1>2, <1>5 DEF LearningInv, Together
<1> QED
    BY <1>1, <1>2, <1>4, <1>6

\* A request of p that is replaced.
LEMMA RequestKeeps ==
    ASSUME LearningInv, NEW p \in Process, NEW r \in Errand, r.op = "idle" => ~r.read,
           log' = log, pending' = pending, metric' \in {0, 1},
           request' = [request EXCEPT ![p] = r],
           r.op # "idle" /\ ~r.read => pending[p] = <<>>,
           r.op = "attribute" => pending[p] = <<>>,
           r.op = "attributed" => \E o \in Rows : o.kind = "outcome" /\ o.value = r.value
    PROVE  LearningInv'
<1>1. Rows' = Rows
    BY QuietRows
<1>2. \A q \in Process : request'[q] = IF q = p THEN r ELSE request[q]
    BY DEF LearningInv, LearningTypes
<1>3. LearningTypes'
    BY <1>2 DEF LearningInv, LearningTypes
<1>4. OneWriter'
    BY DEF LearningInv, OneWriter
<1>5. Together'
    BY <1>1 DEF LearningInv, Together
<1>6. OutcomeFirst'
    BY <1>1, <1>2 DEF LearningInv, OutcomeFirst
<1>7. ReadsFirst'
    BY <1>2 DEF LearningInv, ReadsFirst
<1> QED
    BY <1>3, <1>4, <1>5, <1>6, <1>7 DEF LearningInv

LEMMA IdleErrand == Idle \in Errand /\ Idle.op = "idle" /\ ~Idle.read
BY LearningAssumption DEF Idle, Errand

LEMMA BeginKeeps ==
    ASSUME LearningInv, NEW p \in Process, NEW op \in Operations \ {"attributed"},
           NEW person \in Person, NEW key \in Key \cup {NoKey}, NEW of \in Nat,
           NEW lessons \in BOOLEAN, Begin(p, op, person, key, of, lessons)
    PROVE  LearningInv'
<1> DEFINE r == [op |-> op, by |-> person, key |-> key, of |-> of, value |-> 0,
                 lessons |-> lessons, read |-> FALSE]
<1>1. r \in Errand /\ r.op = op /\ op # "idle"
    BY DEF Errand, Operations, Events, Verdicts
<1>2. /\ log' = log /\ pending' = pending /\ metric' = metric /\ pending[p] = <<>>
      /\ request' = [request EXCEPT ![p] = r]
    BY DEF Begin
<1>3. metric' \in {0, 1}
    BY <1>2 DEF LearningInv, LearningTypes
<1> HIDE DEF r
<1> QED
    BY <1>1, <1>2, <1>3, RequestKeeps

LEMMA RequestStepKeeps ==
    ASSUME LearningInv, NEW p \in Process, Request(p)
    PROVE  LearningInv'
<1>1. \A o \in Rows : o \in Row /\ o.id \in Nat
  <2>1. log \in Seq(Row)
      BY DEF LearningInv, LearningTypes
  <2>2. \A o \in Rows : o \in Row
      BY <2>1 DEF Rows
  <2> QED
      BY <2>2 DEF Row
<1>2. \A o \in Recommendations \cup Lessons : o \in Nat
    BY <1>1 DEF Recommendations, Lessons, Of
<1>3. PICK op \in Operations \ {"attributed"}, person \in Person, key \in Key \cup {NoKey},
           of \in Nat, lessons \in BOOLEAN : Begin(p, op, person, key, of, lessons)
  <2>1. CASE \E op \in Events, person \in Person, key \in Key \cup {NoKey},
                 of \in Recommendations, lessons \in BOOLEAN :
                     Begin(p, op, person, key, of, lessons)
      BY <1>2, <2>1 DEF Operations, Events
  <2>2. CASE \E op \in Verdicts, of \in Lessons : Begin(p, op, Author, NoKey, of, FALSE)
      BY <1>2, <2>2, LearningAssumption DEF Operations, Verdicts
  <2>3. CASE \E op \in {"recommend", "handoff"}, key \in Key \cup {NoKey} :
                 Begin(p, op, Author, key, 0, FALSE)
      BY <2>3, LearningAssumption DEF Operations
  <2>4. CASE Begin(p, "attribute", Author, NoKey, 0, FALSE)
      BY <2>4, LearningAssumption DEF Operations
  <2> QED
      BY <2>1, <2>2, <2>3, <2>4 DEF Request
<1> QED
    BY <1>3, BeginKeeps

LEMMA ReadKeeps ==
    ASSUME LearningInv, NEW p \in Process, request[p].op # "attributed", Read(p)
    PROVE  LearningInv'
<1> DEFINE old == request[p]
           v == CASE old.op = "evaluated" -> Canonical [] old.op = "attribute" -> Captured
                  [] OTHER -> 0
           r == [old EXCEPT !.read = TRUE, !.value = v]
<1>1. old \in Errand /\ metric \in {0, 1}
    BY DEF LearningInv, LearningTypes
<1>2. v \in {0, 1}
    BY <1>1 DEF Canonical, Captured
<1>3. r \in Errand /\ r.op = old.op /\ r.read
  <2> HIDE DEF old, v
  <2> DEFINE r1 == [old EXCEPT !.read = TRUE]
  <2>1. r1 \in Errand /\ r1.op = old.op /\ r1.read
      BY <1>1 DEF Errand
  <2> HIDE DEF r1
  <2>2. [r1 EXCEPT !.value = v] \in Errand /\ [r1 EXCEPT !.value = v].op = old.op
        /\ [r1 EXCEPT !.value = v].read
      BY <1>2, <2>1 DEF Errand
  <2>3. r = [r1 EXCEPT !.value = v]
      BY Zenon DEF r1
  <2> QED
      BY <2>2, <2>3
<1>4. /\ old.op # "idle" /\ ~old.read
      /\ request' = [request EXCEPT ![p] = r] \/ request' = [request EXCEPT ![p] = Idle]
      /\ log' = log /\ pending' = pending /\ metric' = metric
  <2> HIDE DEF v
  <2>1. /\ r.op # "idle" /\ ~old.read
        /\ request' = [request EXCEPT ![p] = r] \/ request' = [request EXCEPT ![p] = Idle]
        /\ log' = log /\ pending' = pending /\ metric' = metric
      BY Zenon DEF Read, v
  <2> QED
      BY <1>3, <2>1
<1>5. pending[p] = <<>>
    BY <1>4 DEF LearningInv, ReadsFirst
<1> HIDE DEF r, old
<1>6. old.op # "attributed"
    BY DEF old
<1>7. CASE request' = [request EXCEPT ![p] = r]
    BY <1>1, <1>3, <1>4, <1>5, <1>6, <1>7, RequestKeeps
<1>8. CASE request' = [request EXCEPT ![p] = Idle]
    BY <1>1, <1>4, <1>5, <1>8, IdleErrand, RequestKeeps
<1> QED
    BY <1>4, <1>7, <1>8

LEMMA ReadAttributedKeeps ==
    ASSUME LearningInv, NEW p \in Process, ReadAttributed(p)
    PROVE  LearningInv'
<1> DEFINE old == request[p]
           r == [old EXCEPT !.read = TRUE]
<1>1. old \in Errand /\ metric \in {0, 1}
    BY DEF LearningInv, LearningTypes
<1>3. r \in Errand /\ r.op = old.op /\ r.value = old.value /\ r.read
  <2> HIDE DEF old
  <2> QED
      BY <1>1 DEF Errand
<1>4. /\ r.op = "attributed" /\ ~old.read
      /\ request' = [request EXCEPT ![p] = r] \/ request' = [request EXCEPT ![p] = Idle]
      /\ log' = log /\ pending' = pending /\ metric' = metric
    BY DEF ReadAttributed
<1>5. \E o \in Rows : o.kind = "outcome" /\ o.value = old.value
    BY <1>3, <1>4 DEF LearningInv, OutcomeFirst
<1> HIDE DEF r, old
<1>7. CASE request' = [request EXCEPT ![p] = r]
    BY <1>1, <1>3, <1>4, <1>5, <1>7, RequestKeeps
<1>8. CASE request' = [request EXCEPT ![p] = Idle]
    BY <1>1, <1>4, <1>8, IdleErrand, RequestKeeps
<1> QED
    BY <1>4, <1>7, <1>8

LEMMA WriteKeeps ==
    ASSUME LearningInv, NEW p \in Process, Write(p)
    PROVE  LearningInv'
<1> DEFINE r == request[p]
           new == RowsOf(r) \o KeyRow(r)
<1>1. /\ r \in Errand /\ r.read /\ r.op # "idle" /\ LearningTypes
      /\ r.op = "attributed" => \E o \in Rows : o.kind = "outcome" /\ o.value = r.value
    BY DEF LearningInv, LearningTypes, OutcomeFirst, Write, MayWrite
<1>2. /\ log' = log /\ request' = request /\ metric' = metric
      /\ pending' = [pending EXCEPT ![p] = new] /\ \A q \in Process : pending[q] = <<>>
    BY DEF Write, MayWrite
<1> HIDE DEF r
<1>3. /\ new \in Seq(Row) /\ \A e \in Elements(new) : Grounded(e, Rows \cup Elements(new))
      /\ r.op = "attribute" =>
            \E o \in Elements(new) : o.kind = "outcome" /\ o.value = r.value
    BY <1>1, WrittenStand
<1> HIDE DEF new
<1>4. /\ log' \in Seq(Row) /\ pending' \in [Process -> Seq(Row)] /\ Rows' = Rows
      /\ OneWriter' /\ Together'
    BY <1>2, <1>3, InsertKeeps
<1>5. LearningTypes'
    BY <1>2, <1>4 DEF LearningInv, LearningTypes
<1>6. \A q \in Process : pending'[q] = IF q = p THEN new ELSE pending[q]
    BY <1>2 DEF LearningInv, LearningTypes
<1>7. OutcomeFirst'
  <2> SUFFICES ASSUME NEW q \in Process
               PROVE  /\ request[q].op = "attributed" =>
                            \E o \in Rows : o.kind = "outcome" /\ o.value = request[q].value
                      /\ request[q].op = "attribute" /\ pending'[q] # <<>> =>
                            \E o \in Elements(pending'[q]) :
                                o.kind = "outcome" /\ o.value = request[q].value
      BY <1>2, <1>4 DEF OutcomeFirst
  <2>1. CASE q = p
      BY <1>3, <1>6, <2>1 DEF r, LearningInv, OutcomeFirst
  <2>2. CASE q # p
      BY <1>6, <2>2 DEF LearningInv, OutcomeFirst
  <2> QED
      BY <2>1, <2>2
<1>8. ReadsFirst'
    BY <1>1, <1>2, <1>6 DEF r, LearningInv, ReadsFirst
<1> QED
    BY <1>4, <1>5, <1>7, <1>8 DEF LearningInv

\* A step that replaces what p has inserted and leaves it without a request.
LEMMA LeaveKeeps ==
    ASSUME LearningInv, NEW p \in Process, NEW new \in Seq(Row), log' = log,
           pending' = [pending EXCEPT ![p] = new], request' = [request EXCEPT ![p] = Idle],
           metric' = metric,
           new = <<>> \/ \A q \in Process : pending[q] = <<>>,
           \A e \in Elements(new) : Grounded(e, Rows \cup Elements(new))
    PROVE  LearningInv'
<1>1. /\ log' \in Seq(Row) /\ pending' \in [Process -> Seq(Row)] /\ Rows' = Rows
      /\ OneWriter' /\ Together'
    BY InsertKeeps
<1>2. \A q \in Process : /\ request'[q] = IF q = p THEN Idle ELSE request[q]
                         /\ pending'[q] = IF q = p THEN new ELSE pending[q]
  <2>1. request \in [Process -> Errand] /\ pending \in [Process -> Seq(Row)]
      BY DEF LearningInv, LearningTypes
  <2>2. \A q \in Process : request'[q] = IF q = p THEN Idle ELSE request[q]
      BY <2>1
  <2>3. \A q \in Process : pending'[q] = IF q = p THEN new ELSE pending[q]
      BY <2>1
  <2> QED
      BY <2>2, <2>3
<1>3. LearningTypes'
    BY <1>1, <1>2, IdleErrand DEF LearningInv, LearningTypes
<1>4. OutcomeFirst'
    BY <1>1, <1>2, IdleErrand DEF LearningInv, OutcomeFirst
<1>5. ReadsFirst'
    BY <1>2, IdleErrand DEF LearningInv, ReadsFirst
<1> QED
    BY <1>1, <1>3, <1>4, <1>5 DEF LearningInv

LEMMA WriteMeetsKeyKeeps ==
    ASSUME LearningInv, NEW p \in Process, WriteMeetsKey(p)
    PROVE  LearningInv'
<1> DEFINE r == request[p]
           new == IF r.op = "handoff" THEN <<>> ELSE RowsOf(r)
<1>1. /\ r \in Errand /\ r.read /\ r.op # "idle" /\ LearningTypes
      /\ r.op = "attributed" => \E o \in Rows : o.kind = "outcome" /\ o.value = r.value
    BY DEF LearningInv, LearningTypes, OutcomeFirst, WriteMeetsKey, MayWrite
<1>2. /\ log' = log /\ request' = [request EXCEPT ![p] = Idle] /\ metric' = metric
      /\ pending' = [pending EXCEPT ![p] = new] /\ \A q \in Process : pending[q] = <<>>
    BY DEF WriteMeetsKey, MayWrite
<1> HIDE DEF r
<1>3. RowsOf(r) \in Seq(Row) /\ \A e \in Elements(RowsOf(r)) :
                                    Grounded(e, Rows \cup Elements(RowsOf(r)))
    BY <1>1, RowsOfStand
<1>4. new \in Seq(Row) /\ \A e \in Elements(new) : Grounded(e, Rows \cup Elements(new))
  <2>1. CASE r.op = "handoff"
      BY <2>1, ElementsOf
  <2>2. CASE r.op # "handoff"
      BY <1>3, <2>2
  <2> QED
      BY <2>1, <2>2
<1> HIDE DEF new
<1> QED
    BY <1>2, <1>4, LeaveKeeps

LEMMA CrashKeeps ==
    ASSUME LearningInv, NEW p \in Process, Crash(p)
    PROVE  LearningInv'
<1>1. /\ log' = log /\ request' = [request EXCEPT ![p] = Idle] /\ metric' = metric
      /\ pending' = [pending EXCEPT ![p] = <<>>]
    BY DEF Crash
<1>2. <<>> \in Seq(Row) /\ \A e \in Elements(<<>>) : Grounded(e, Rows \cup Elements(<<>>))
    BY ElementsOf
<1> QED
    BY <1>1, <1>2, LeaveKeeps

LEMMA CommitLeftoverKeeps ==
    ASSUME LearningInv, NEW p \in Process, CommitLeftover(p)
    PROVE  LearningInv'
<1>1. /\ log' = log \o pending[p] /\ pending' = [pending EXCEPT ![p] = <<>>]
      /\ pending[p] # <<>> /\ request' = request /\ metric' = metric
    BY DEF CommitLeftover
<1>2. /\ log' \in Seq(Row) /\ pending' \in [Process -> Seq(Row)]
      /\ Rows' = Rows \cup Elements(pending[p])
      /\ \A q \in Process : pending'[q] = <<>>
      /\ OneWriter' /\ Together'
    BY <1>1, CommitKeeps
<1>3. LearningTypes'
    BY <1>1, <1>2 DEF LearningInv, LearningTypes
<1>4. OutcomeFirst'
    BY <1>1, <1>2 DEF LearningInv, OutcomeFirst
<1>5. ReadsFirst'
    BY <1>2 DEF ReadsFirst
<1> QED
    BY <1>2, <1>3, <1>4, <1>5 DEF LearningInv

LEMMA CommitStepKeeps ==
    ASSUME LearningInv, NEW p \in Process, Commit(p)
    PROVE  LearningInv'
<1> DEFINE old == request[p]
           a1 == [old EXCEPT !.op = "attributed"]
           a2 == [a1 EXCEPT !.key = "plan"]
           a3 == [a2 EXCEPT !.read = FALSE]
           r == IF old.op = "attribute" THEN a3 ELSE Idle
<1>1. /\ log' = log \o pending[p] /\ pending' = [pending EXCEPT ![p] = <<>>]
      /\ pending[p] # <<>> /\ metric' = metric
      /\ request' = [request EXCEPT ![p] = r]
    BY Zenon DEF Commit
<1>2. /\ log' \in Seq(Row) /\ pending' \in [Process -> Seq(Row)]
      /\ Rows' = Rows \cup Elements(pending[p])
      /\ \A q \in Process : pending'[q] = <<>>
      /\ OneWriter' /\ Together'
    BY <1>1, CommitKeeps
<1>3. old \in Errand
    BY DEF LearningInv, LearningTypes
<1> HIDE DEF old
<1>4. a1 \in Errand /\ a1.op = "attributed" /\ a1.value = old.value
    BY <1>3 DEF Errand, Operations
<1> HIDE DEF a1
<1>5. a2 \in Errand /\ a2.op = "attributed" /\ a2.value = old.value
    BY <1>4 DEF Errand
<1> HIDE DEF a2
<1>6. a3 \in Errand /\ a3.op = "attributed" /\ a3.value = old.value /\ ~a3.read
    BY <1>5 DEF Errand
<1> HIDE DEF a3
<1>7. /\ r \in Errand /\ ~r.read /\ r.op \in {"idle", "attributed"}
      /\ r.op = "attributed" => old.op = "attribute" /\ r.value = old.value
    BY <1>6, IdleErrand
<1> HIDE DEF r
<1>8. \A q \in Process : request'[q] = IF q = p THEN r ELSE request[q]
    BY <1>1 DEF LearningInv, LearningTypes
<1>9. LearningTypes'
    BY <1>1, <1>2, <1>7, <1>8 DEF LearningInv, LearningTypes
<1>10. old.op = "attribute" =>
            \E o \in Elements(pending[p]) : o.kind = "outcome" /\ o.value = old.value
    BY <1>1 DEF old, LearningInv, OutcomeFirst
<1>11. OutcomeFirst'
  <2> SUFFICES ASSUME NEW q \in Process, request'[q].op = "attributed"
               PROVE  \E o \in Rows' : o.kind = "outcome" /\ o.value = request'[q].value
      BY <1>2 DEF OutcomeFirst
  <2>1. CASE q = p
      BY <1>2, <1>7, <1>8, <1>10, <2>1
  <2>2. CASE q # p
      BY <1>2, <1>8, <2>2 DEF LearningInv, OutcomeFirst
  <2> QED
      BY <2>1, <2>2
<1>12. ReadsFirst'
    BY <1>2 DEF ReadsFirst
<1> QED
    BY <1>2, <1>9, <1>11, <1>12 DEF LearningInv

LEMMA LearningStep == LearningInv /\ [Next]_vars => LearningInv'
<1> SUFFICES ASSUME LearningInv, [Next]_vars PROVE LearningInv'
    OBVIOUS
<1>1. CASE UNCHANGED vars
  <2>1. log' = log /\ pending' = pending /\ request' = request /\ metric' = metric /\ Rows' = Rows
      BY <1>1, QuietRows DEF vars
  <2>2. (LearningTypes /\ OneWriter)'
      BY <2>1 DEF LearningInv, LearningTypes, OneWriter
  <2>3. Together'
      BY <2>1 DEF LearningInv, Together
  <2>4. (OutcomeFirst /\ ReadsFirst)'
      BY <2>1 DEF LearningInv, OutcomeFirst, ReadsFirst
  <2> QED
      BY <2>2, <2>3, <2>4 DEF LearningInv
<1>2. CASE Change
  <2>1. /\ log' = log /\ pending' = pending /\ request' = request /\ metric' \in {0, 1}
      BY <1>2 DEF Change, LearningInv, LearningTypes
  <2> QED
      BY <2>1 DEF LearningInv, LearningTypes, OneWriter, Together, OutcomeFirst, ReadsFirst, Rows
<1>3. ASSUME NEW p \in Process,
             \/ Request(p) \/ CommitLeftover(p)
             \/ request[p].op # "attributed" /\ Read(p)
             \/ ReadAttributed(p) \/ Write(p) \/ WriteMeetsKey(p) \/ Commit(p) \/ Crash(p)
      PROVE  LearningInv'
    BY <1>3, RequestStepKeeps, CommitLeftoverKeeps, ReadKeeps, ReadAttributedKeeps, WriteKeeps,
       WriteMeetsKeyKeeps, CommitStepKeeps, CrashKeeps
<1> QED
    BY <1>1, <1>2, <1>3 DEF Next

\* What is committed together is there together, in a run of this part and of any other.
THEOREM LearningInvariance == SideBySide => [](LearningInv /\ AppendedTogether)
<1>1. StartAll => LearningInv
    BY LearningInit DEF StartAll
<1>2. LearningInv /\ [StepOne]_allVars => LearningInv'
  <2> SUFFICES ASSUME LearningInv, [StepOne]_allVars PROVE LearningInv'
      OBVIOUS
  <2>1. [Next]_vars
      BY DEF StepOne, allVars
  <2> QED
      BY <2>1, LearningStep
<1>3. LearningInv => AppendedTogether
    BY DEF LearningInv, Together, Grounded, AppendedTogether, Of
<1> QED
    BY <1>1, <1>2, <1>3, PTL DEF SideBySide
------------------------------------------------------------------------------
(* Facts                                                                    *)

FactRow == [object: Object, grouped: BOOLEAN, shown: BOOLEAN, proposal: Proposal \cup {"extracted"}]
StateEvent == [state: Facts!States, from: 0..MaxTime]

\* What a process has read of facts and not yet used.
Reading == [op: {"none", "promote", "resolve", "derive"}, facts: SUBSET Nat, winner: Nat,
            proposal: Proposal \cup {Facts!NoTask.proposal}, action: {"approve", "reject"},
            moment: 0..MaxTime]

FactsTypes ==
    /\ now \in 0..MaxTime
    /\ fact \in Seq(FactRow) /\ events \in Seq(Seq(StateEvent)) /\ Len(events) = Len(fact)
    /\ decision \in [Proposal -> {"none", "approve", "reject"}]
    /\ task \in [Process -> Reading]
    /\ \A p \in Process : task[p].op = "promote" => task[p].proposal \in Proposal

\* The facts of an approved proposal are one, of any other none.
OneFactEach ==
    \A p \in Proposal :
        /\ decision[p] = "approve" =>
                \E f \in Facts!Facts : {g \in Facts!Facts : fact[g].proposal = p} = {f}
        /\ decision[p] # "approve" => \A f \in Facts!Facts : fact[f].proposal # p

FactsInv == FactsTypes /\ OneFactEach /\ Facts!PromotedIsCompared

LEMMA ListIsSeq ==
    ASSUME NEW S, NEW n \in Nat, NEW h \in [1..n -> S]
    PROVE  h \in Seq(S) /\ Len(h) = n
OBVIOUS

LEMMA AppendedSeq ==
    ASSUME NEW S, NEW s \in Seq(S), NEW e \in S
    PROVE  /\ Append(s, e) \in Seq(S) /\ Len(Append(s, e)) = Len(s) + 1
           /\ \A i \in 1..Len(s) : Append(s, e)[i] = s[i]
           /\ Append(s, e)[Len(s) + 1] = e
OBVIOUS

LEMMA FactsInit == Facts!Init => FactsInv
<1> SUFFICES ASSUME Facts!Init PROVE FactsInv
    OBVIOUS
<1>1. MaxTime \in Nat
    BY KnowledgeAssumption DEF Facts!KnowledgeAssumption
<1>2. fact = <<>> /\ events = <<>> /\ now = 0
    BY DEF Facts!Init
<1>3. Facts!NoTask \in Reading /\ Facts!NoTask.op = "none"
    BY <1>1 DEF Facts!NoTask, Reading
<1>4. task \in [Process -> Reading] /\ \A p \in Process : task[p].op = "none"
    BY <1>3 DEF Facts!Init
<1>5. decision \in [Proposal -> {"none", "approve", "reject"}]
      /\ \A p \in Proposal : decision[p] = "none"
    BY DEF Facts!Init
<1>6. Facts!Facts = {}
    BY <1>2 DEF Facts!Facts
<1>7. FactsTypes
    BY <1>1, <1>2, <1>4, <1>5 DEF FactsTypes
<1>8. OneFactEach
    BY <1>5, <1>6 DEF OneFactEach
<1>9. Facts!PromotedIsCompared
    BY <1>6 DEF Facts!PromotedIsCompared
<1> QED
    BY <1>7, <1>8, <1>9 DEF FactsInv

\* A new fact, and the facts it is compared with.
LEMMA JoinedRows ==
    ASSUME FactsTypes, NEW marked \in SUBSET Facts!Facts,
           NEW new \in FactRow, NEW first \in Facts!States, NEW from \in 0..MaxTime,
           Facts!Joined(marked, new, first, from)
    PROVE  /\ fact' \in Seq(FactRow) /\ events' \in Seq(Seq(StateEvent))
           /\ Len(events') = Len(fact') /\ Len(fact') = Len(fact) + 1
           /\ \A f \in Facts!Facts :
                /\ fact'[f].proposal = fact[f].proposal /\ fact'[f].object = fact[f].object
                /\ fact[f].grouped => fact'[f].grouped
                /\ f \in marked => fact'[f].grouped /\ fact'[Len(fact) + 1].grouped
           /\ fact'[Len(fact) + 1].proposal = new.proposal
           /\ fact'[Len(fact) + 1].object = new.object
<1> DEFINE n == Len(fact)
           conflict == marked # {}
           rows == [f \in Facts!Facts |-> [fact[f] EXCEPT !.grouped = @ \/ f \in marked]]
           added == [new EXCEPT !.grouped = conflict]
           histories == [f \in Facts!Facts |->
                            IF f \in marked THEN Facts!WithEvent(events[f], "conflicted", now)
                            ELSE events[f]]
           begun == <<[state |-> IF conflict THEN "conflicted" ELSE first, from |-> from]>>
<1>1. /\ n \in Nat /\ Facts!Facts = 1..n /\ Len(events) = n /\ now \in 0..MaxTime
      /\ \A f \in 1..n : fact[f] \in FactRow /\ events[f] \in Seq(StateEvent)
    BY DEF FactsTypes, Facts!Facts
<1>2. fact' = Append(rows, added) /\ events' = Append(histories, begun)
    BY Zenon DEF Facts!Joined
<1>3. ASSUME NEW f \in 1..n
      PROVE  /\ rows[f] \in FactRow /\ rows[f].proposal = fact[f].proposal
             /\ rows[f].object = fact[f].object
             /\ fact[f].grouped => rows[f].grouped
             /\ f \in marked => rows[f].grouped
  <2>1. fact[f] \in FactRow
      BY <1>1
  <2>2. rows[f] = [fact[f] EXCEPT !.grouped = @ \/ f \in marked]
      BY <1>1
  <2> DEFINE r == fact[f]
             b == r.grouped \/ f \in marked
  <2>3. rows[f] = [r EXCEPT !.grouped = b]
      BY <2>2
  <2>4. b \in BOOLEAN /\ (r.grouped => b) /\ (f \in marked => b)
      OBVIOUS
  <2> HIDE DEF r, b, rows
  <2>5. [r EXCEPT !.grouped = b] \in FactRow /\ [r EXCEPT !.grouped = b].grouped = b
        /\ [r EXCEPT !.grouped = b].proposal = r.proposal
        /\ [r EXCEPT !.grouped = b].object = r.object
      BY <2>1, <2>4 DEF FactRow, r
  <2> QED
      BY <2>3, <2>4, <2>5 DEF r
<1>4. rows \in Seq(FactRow) /\ Len(rows) = n
  <2>1. rows \in [1..n -> FactRow]
      BY <1>1, <1>3
  <2> HIDE DEF rows, n
  <2> QED
      BY <1>1, <2>1, ListIsSeq
<1>5. added \in FactRow /\ added.proposal = new.proposal /\ added.object = new.object
      /\ added.grouped = conflict
  <2> conflict \in BOOLEAN
      OBVIOUS
  <2> HIDE DEF conflict
  <2> QED
      BY DEF FactRow
<1>6. histories \in Seq(Seq(StateEvent)) /\ Len(histories) = n
  <2>1. ASSUME NEW f \in 1..n PROVE histories[f] \in Seq(StateEvent)
    <3>1. [state |-> "conflicted", from |-> now] \in StateEvent
        BY <1>1 DEF StateEvent, Facts!States
    <3>2. Append(events[f], [state |-> "conflicted", from |-> now]) \in Seq(StateEvent)
        BY <1>1, <3>1, AppendedSeq
    <3> QED
        BY <1>1, <3>2 DEF Facts!WithEvent
  <2>2. histories \in [1..n -> Seq(StateEvent)]
      BY <1>1, <2>1
  <2> HIDE DEF histories, n
  <2> QED
      BY <1>1, <2>2, ListIsSeq
<1>7. begun \in Seq(StateEvent)
  <2>1. [state |-> IF conflict THEN "conflicted" ELSE first, from |-> from] \in StateEvent
      BY DEF StateEvent, Facts!States
  <2> QED
      BY <2>1
<1> HIDE DEF rows, added, histories, begun, conflict
<1>8. /\ Append(rows, added) \in Seq(FactRow) /\ Len(Append(rows, added)) = n + 1
      /\ \A i \in 1..n : Append(rows, added)[i] = rows[i]
      /\ Append(rows, added)[n + 1] = added
    BY <1>4, <1>5, AppendedSeq
<1>9. /\ Append(histories, begun) \in Seq(Seq(StateEvent))
      /\ Len(Append(histories, begun)) = n + 1
    BY <1>6, <1>7, AppendedSeq
<1>10. ASSUME NEW f \in marked PROVE conflict
    BY DEF conflict
<1> HIDE DEF n
<1>11. ASSUME NEW f \in Facts!Facts
       PROVE  /\ fact'[f].proposal = fact[f].proposal /\ fact'[f].object = fact[f].object
              /\ fact[f].grouped => fact'[f].grouped
              /\ f \in marked => fact'[f].grouped /\ fact'[n + 1].grouped
  <2>1. f \in 1..n /\ fact'[f] = rows[f] /\ fact'[n + 1] = added
      BY <1>1, <1>2, <1>8
  <2> QED
      BY <1>3, <1>5, <1>10, <2>1
<1> QED
    BY <1>2, <1>5, <1>8, <1>9, <1>11 DEF n

\* A step that keeps the facts, their proposals and the decisions.
LEMMA FactsKept ==
    ASSUME FactsInv, Len(fact') = Len(fact), FactsTypes', decision' = decision,
           \A f \in Facts!Facts : /\ fact'[f].proposal = fact[f].proposal
                                  /\ fact'[f].object = fact[f].object
                                  /\ fact'[f].grouped = fact[f].grouped
    PROVE  FactsInv'
<1>1. Facts!Facts' = Facts!Facts
    BY DEF Facts!Facts
<1>2. OneFactEach'
  <2> SUFFICES ASSUME NEW p \in Proposal
               PROVE  /\ decision[p] = "approve" => \E f \in Facts!Facts :
                                {g \in Facts!Facts : fact'[g].proposal = p} = {f}
                      /\ decision[p] # "approve" => \A f \in Facts!Facts : fact'[f].proposal # p
      BY <1>1 DEF OneFactEach
  <2>1. {g \in Facts!Facts : fact'[g].proposal = p} = {g \in Facts!Facts : fact[g].proposal = p}
      OBVIOUS
  <2> QED
      BY <2>1 DEF FactsInv, OneFactEach
<1>3. Facts!PromotedIsCompared'
    BY <1>1 DEF FactsInv, Facts!PromotedIsCompared
<1> QED
    BY <1>2, <1>3 DEF FactsInv

LEMMA NothingRead == Facts!NoTask \in Reading /\ Facts!NoTask.op = "none"
<1>1. MaxTime \in Nat
    BY KnowledgeAssumption DEF Facts!KnowledgeAssumption
<1> QED
    BY <1>1 DEF Facts!NoTask, Reading

\* A new fact, extracted or promoted by the first decision of its proposal.
LEMMA JoinKeeps ==
    ASSUME FactsInv, NEW marked \in SUBSET Facts!Facts,
           NEW new \in FactRow, NEW first \in Facts!States, NEW from \in 0..MaxTime,
           Facts!Joined(marked, new, first, from),
           now' = now, task' \in [Process -> Reading],
           \A p \in Process : task'[p].op = "promote" => task'[p].proposal \in Proposal,
           \/ new.proposal = "extracted" /\ decision' = decision
           \/ /\ \A f \in Facts!Facts : fact[f].object # new.object => f \in marked
              /\ new.proposal \in Proposal
              /\ decision[new.proposal] = "none"
              /\ decision' = [decision EXCEPT ![new.proposal] = "approve"]
    PROVE  FactsInv'
<1> DEFINE n == Len(fact)
<1>0. FactsTypes
    BY DEF FactsInv
<1>1. /\ fact' \in Seq(FactRow) /\ events' \in Seq(Seq(StateEvent))
      /\ Len(events') = Len(fact') /\ Len(fact') = n + 1
    BY <1>0, JoinedRows
<1>2. \A f \in Facts!Facts :
            /\ fact'[f].proposal = fact[f].proposal /\ fact'[f].object = fact[f].object
            /\ fact[f].grouped => fact'[f].grouped
            /\ f \in marked => fact'[f].grouped /\ fact'[n + 1].grouped
    BY <1>0, JoinedRows
<1>3. fact'[n + 1].proposal = new.proposal /\ fact'[n + 1].object = new.object
    BY <1>0, JoinedRows
<1>4. n \in Nat /\ Facts!Facts = 1..n /\ Facts!Facts' = 1..(n + 1)
    BY <1>0, <1>1 DEF FactsTypes, Facts!Facts
<1>5. "extracted" \notin Proposal
    BY KnowledgeAssumption DEF Facts!KnowledgeAssumption, Facts!Extracted
<1>6. decision' \in [Proposal -> {"none", "approve", "reject"}]
    BY <1>0 DEF FactsTypes
<1>7. FactsTypes'
    BY <1>0, <1>1, <1>6 DEF FactsTypes
<1> HIDE DEF n
<1>8. \A f \in Facts!Facts' : f \in Facts!Facts \/ f = n + 1
    BY <1>4
<1>9. Facts!Facts \subseteq Facts!Facts' /\ n + 1 \in Facts!Facts' /\ n + 1 \notin Facts!Facts
    BY <1>4
<1>10. OneFactEach'
  <2> DEFINE Now(p) == {g \in Facts!Facts' : fact'[g].proposal = p}
             Before(p) == {g \in Facts!Facts : fact[g].proposal = p}
  <2> SUFFICES ASSUME NEW p \in Proposal
               PROVE  /\ decision'[p] = "approve" => \E f \in Facts!Facts' : Now(p) = {f}
                      /\ decision'[p] # "approve" =>
                            \A f \in Facts!Facts' : fact'[f].proposal # p
      BY DEF OneFactEach
  <2>1. CASE new.proposal # p
    <3>1. decision'[p] = decision[p]
        BY <1>0, <2>1 DEF FactsTypes
    <3>2. Now(p) = Before(p)
        BY <1>2, <1>3, <1>8, <1>9, <2>1
    <3> QED
        BY <1>8, <1>9, <3>1, <3>2 DEF FactsInv, OneFactEach
  <2>2. CASE new.proposal = p
    <3>1. decision[p] = "none" /\ decision'[p] = "approve"
        BY <1>0, <1>5, <2>2 DEF FactsTypes
    <3>2. \A f \in Facts!Facts : fact[f].proposal # p
        BY <3>1 DEF FactsInv, OneFactEach
    <3>3. Now(p) = {n + 1}
        BY <1>2, <1>3, <1>8, <1>9, <2>2, <3>2
    <3> QED
        BY <1>9, <3>1, <3>3
  <2> QED
      BY <2>1, <2>2
<1>11. Facts!PromotedIsCompared'
  <2> SUFFICES ASSUME NEW f \in Facts!Facts', NEW g \in Facts!Facts', f < g,
                      fact'[g].proposal # "extracted", fact'[f].object # fact'[g].object
               PROVE  fact'[f].grouped /\ fact'[g].grouped
      BY DEF Facts!PromotedIsCompared, Facts!Extracted
  <2>1. f \in Facts!Facts
      BY <1>4
  <2>2. CASE g \in Facts!Facts
      BY <1>2, <2>1, <2>2 DEF FactsInv, Facts!PromotedIsCompared, Facts!Extracted
  <2>3. CASE g = n + 1
    <3>1. f \in marked
        BY <1>2, <1>3, <2>1, <2>3
    <3> QED
        BY <1>2, <2>1, <2>3, <3>1
  <2> QED
      BY <1>8, <2>2, <2>3
<1> QED
    BY <1>7, <1>10, <1>11 DEF FactsInv

LEMMA ExtractKeeps ==
    ASSUME FactsInv, NEW object \in Object, NEW first \in FirstStates, NEW from \in 0..MaxTime,
           Facts!Extract(object, first, from)
    PROVE  FactsInv'
<1> DEFINE new == [object |-> object, grouped |-> FALSE, shown |-> TRUE, proposal |-> "extracted"]
           marked == Facts!Against(object, {f \in Facts!Facts : fact[f].shown})
<1>1. /\ new \in FactRow /\ new.proposal = "extracted"
      /\ first \in Facts!States /\ marked \in SUBSET Facts!Facts
    BY KnowledgeAssumption DEF FactRow, Facts!KnowledgeAssumption, Facts!Against
<1>2. /\ Facts!Joined(marked, new, first, from)
      /\ now' = now /\ decision' = decision /\ task' = task
    BY DEF Facts!Extract, Facts!Extracted
<1> HIDE DEF new, marked
<1>3. task' \in [Process -> Reading]
      /\ \A p \in Process : task'[p].op = "promote" => task'[p].proposal \in Proposal
    BY <1>2 DEF FactsInv, FactsTypes
<1> QED
    BY <1>1, <1>2, <1>3, JoinKeeps

LEMMA DoneTypes ==
    ASSUME FactsTypes, NEW p \in Process, Facts!Done(p)
    PROVE  /\ task' \in [Process -> Reading]
           /\ \A q \in Process : task'[q].op = "promote" => task'[q].proposal \in Proposal
<1>1. \A q \in Process : task'[q] = IF q = p THEN Facts!NoTask ELSE task[q]
    BY DEF FactsTypes, Facts!Done
<1>2. task' \in [Process -> Reading]
    BY NothingRead DEF FactsTypes, Facts!Done
<1> QED
    BY <1>1, <1>2, NothingRead DEF FactsTypes

LEMMA PromoteKeeps ==
    ASSUME FactsInv, NEW p \in Process, Facts!Promote(p)
    PROVE  FactsInv'
<1> DEFINE t == task[p]
           new == [object |-> Says[t.proposal], grouped |-> FALSE, shown |-> TRUE,
                   proposal |-> t.proposal]
           marked == IF Facts!Against(Says[t.proposal], Facts!Facts) = {} THEN {} ELSE Facts!Facts
<1>0. FactsTypes
    BY DEF FactsInv
<1>1. /\ t.op = "promote" /\ decision[t.proposal] = "none" /\ Facts!Done(p) /\ now' = now
      /\ decision' = [decision EXCEPT ![t.proposal] = t.action]
      /\ IF t.action = "approve"
         THEN Facts!Joined(marked, new, "verified", now)
         ELSE UNCHANGED <<fact, events>>
    BY DEF Facts!Promote, Facts!Undecided
<1>2. t.proposal \in Proposal /\ t.action \in {"approve", "reject"}
    BY <1>0, <1>1 DEF FactsTypes, Reading
<1>3. /\ task' \in [Process -> Reading]
      /\ \A q \in Process : task'[q].op = "promote" => task'[q].proposal \in Proposal
    BY <1>0, <1>1, DoneTypes
<1> HIDE DEF t
<1>4. CASE t.action = "approve"
  <2>1. /\ Says[t.proposal] \in Object /\ new \in FactRow /\ new.proposal = t.proposal
        /\ new.object = Says[t.proposal] /\ "verified" \in Facts!States
        /\ now \in 0..MaxTime
      BY <1>0, <1>2, KnowledgeAssumption
      DEF FactRow, Facts!KnowledgeAssumption, Facts!States, FactsTypes
  <2>2. /\ marked \in SUBSET Facts!Facts
        /\ \A f \in Facts!Facts : fact[f].object # Says[t.proposal] => f \in marked
      BY DEF Facts!Against
  <2> HIDE DEF new, marked
  <2> QED
      BY <1>1, <1>2, <1>3, <1>4, <2>1, <2>2, JoinKeeps
<1>5. CASE t.action = "reject"
  <2>1. /\ fact' = fact /\ events' = events
        /\ decision' = [decision EXCEPT ![t.proposal] = "reject"]
      BY <1>1, <1>5
  <2>2. Facts!Facts' = Facts!Facts
      BY <2>1 DEF Facts!Facts
  <2>3. FactsTypes'
      BY <1>0, <1>1, <1>3, <2>1 DEF FactsTypes
  <2>4. \A q \in Proposal : decision'[q] = "approve" <=> decision[q] = "approve"
      BY <1>0, <1>1, <1>2, <2>1 DEF FactsTypes
  <2>5. OneFactEach'
      BY <2>1, <2>2, <2>4 DEF FactsInv, OneFactEach
  <2>6. Facts!PromotedIsCompared'
      BY <2>1, <2>2 DEF FactsInv, Facts!PromotedIsCompared
  <2> QED
      BY <2>3, <2>5, <2>6 DEF FactsInv
<1> QED
    BY <1>2, <1>4, <1>5

\* More states of facts.
LEMMA HistoriesGrow ==
    ASSUME FactsTypes, NEW from \in 0..MaxTime, NEW h, h = [f \in Facts!Facts |-> h[f]],
           \A f \in Facts!Facts :
                \/ h[f] = events[f]
                \/ \E s \in Facts!States : h[f] = Facts!WithEvent(events[f], s, from)
    PROVE  h \in Seq(Seq(StateEvent)) /\ Len(h) = Len(events)
<1>1. /\ Len(fact) \in Nat /\ Facts!Facts = 1..Len(fact) /\ Len(events) = Len(fact)
      /\ \A f \in 1..Len(fact) : events[f] \in Seq(StateEvent)
    BY DEF FactsTypes, Facts!Facts
<1>2. ASSUME NEW f \in Facts!Facts PROVE h[f] \in Seq(StateEvent)
  <2>1. CASE h[f] = events[f]
      BY <1>1, <2>1
  <2>2. ASSUME NEW s \in Facts!States, h[f] = Facts!WithEvent(events[f], s, from)
        PROVE  h[f] \in Seq(StateEvent)
    <3>1. [state |-> s, from |-> from] \in StateEvent
        BY DEF StateEvent
    <3>2. Append(events[f], [state |-> s, from |-> from]) \in Seq(StateEvent)
        BY <1>1, <3>1, AppendedSeq
    <3> QED
        BY <2>2, <3>2 DEF Facts!WithEvent
  <2> QED
      BY <2>1, <2>2
<1>3. h \in [1..Len(fact) -> Seq(StateEvent)]
    BY <1>1, <1>2
<1> QED
    BY <1>1, <1>3, ListIsSeq

LEMMA SameFactsKeep ==
    ASSUME FactsInv, fact' = fact, decision' = decision, now' \in 0..MaxTime,
           events' \in Seq(Seq(StateEvent)), Len(events') = Len(events),
           task' \in [Process -> Reading],
           \A q \in Process : task'[q].op = "promote" => task'[q].proposal \in Proposal
    PROVE  FactsInv'
<1>1. FactsTypes'
    BY DEF FactsInv, FactsTypes
<1> QED
    BY <1>1, FactsKept

LEMMA ReadsKeeps ==
    ASSUME FactsInv, NEW p \in Process, NEW new \in Reading, Facts!Reads(p, new),
           new.op = "promote" => new.proposal \in Proposal
    PROVE  FactsInv'
<1>1. /\ fact' = fact /\ decision' = decision /\ now' = now /\ events' = events
      /\ task' = [task EXCEPT ![p] = new]
    BY DEF Facts!Reads
<1>2. FactsTypes
    BY DEF FactsInv
<1>3. task' \in [Process -> Reading]
      /\ \A q \in Process : task'[q].op = "promote" => task'[q].proposal \in Proposal
    BY <1>1, <1>2 DEF FactsTypes
<1> QED
    BY <1>1, <1>2, <1>3, SameFactsKeep DEF FactsTypes

LEMMA ReadProposalKeeps ==
    ASSUME FactsInv, NEW p \in Process, NEW q \in Proposal, NEW action \in {"approve", "reject"},
           Facts!ReadProposal(p, q, action)
    PROVE  FactsInv'
<1> DEFINE new == [Facts!NoTask EXCEPT !.op = "promote", !.proposal = q, !.action = action]
           a1 == [Facts!NoTask EXCEPT !.op = "promote"]
           a2 == [a1 EXCEPT !.proposal = q]
           a3 == [a2 EXCEPT !.action = action]
<1>1. a1 \in Reading
    BY NothingRead DEF Reading
<1>2. a2 \in Reading /\ a2.proposal = q
  <2> HIDE DEF a1
  <2> QED
      BY <1>1 DEF Reading
<1>3. a3 \in Reading /\ a3.proposal = q
  <2> HIDE DEF a2
  <2> QED
      BY <1>2 DEF Reading
<1>4. Facts!Reads(p, new)
    BY DEF Facts!ReadProposal
<1>5. new = a3
    OBVIOUS
<1> HIDE DEF new, a3
<1> QED
    BY <1>3, <1>4, <1>5, ReadsKeeps

LEMMA ReadConflictKeeps ==
    ASSUME FactsInv, NEW p \in Process, NEW w \in Facts!Facts, Facts!ReadConflict(p, w)
    PROVE  FactsInv'
<1> DEFINE new == [Facts!NoTask EXCEPT !.op = "resolve", !.winner = w, !.facts = Facts!Group]
           a1 == [Facts!NoTask EXCEPT !.op = "resolve"]
           a2 == [a1 EXCEPT !.winner = w]
           a3 == [a2 EXCEPT !.facts = Facts!Group]
<1>1. w \in Nat /\ Facts!Group \in SUBSET Nat
    BY DEF Facts!Group, Facts!Facts
<1>2. a1 \in Reading /\ a1.op = "resolve"
    BY NothingRead DEF Reading
<1>3. a2 \in Reading /\ a2.op = "resolve"
  <2> HIDE DEF a1
  <2> QED
      BY <1>1, <1>2 DEF Reading
<1>4. a3 \in Reading /\ a3.op = "resolve"
  <2> HIDE DEF a2
  <2> QED
      BY <1>1, <1>3 DEF Reading
<1>5. Facts!Reads(p, new)
    BY DEF Facts!ReadConflict
<1>6. new = a3
    OBVIOUS
<1> HIDE DEF new, a3
<1> QED
    BY <1>4, <1>5, <1>6, ReadsKeeps

LEMMA ReadOldKeeps ==
    ASSUME FactsInv, NEW p \in Process, NEW moment \in 0..MaxTime, Facts!ReadOld(p, moment)
    PROVE  FactsInv'
<1> DEFINE old == {f \in Facts!Facts : Facts!Old(f, moment)}
           new == [Facts!NoTask EXCEPT !.op = "derive", !.facts = old, !.moment = moment]
           a1 == [Facts!NoTask EXCEPT !.op = "derive"]
           a2 == [a1 EXCEPT !.facts = old]
           a3 == [a2 EXCEPT !.moment = moment]
<1>0. old \in SUBSET Nat
    BY DEF Facts!Facts
<1>1. a1 \in Reading /\ a1.op = "derive"
    BY NothingRead DEF Reading
<1>2. a2 \in Reading /\ a2.op = "derive"
  <2> HIDE DEF a1, old
  <2> QED
      BY <1>0, <1>1 DEF Reading
<1>3. a3 \in Reading /\ a3.op = "derive"
  <2> HIDE DEF a2
  <2> QED
      BY <1>2 DEF Reading
<1>4. Facts!Reads(p, new)
    BY DEF Facts!ReadOld
<1>5. new = a3
    OBVIOUS
<1> HIDE DEF new, a3
<1> QED
    BY <1>3, <1>4, <1>5, ReadsKeeps

LEMMA RecordKeeps ==
    ASSUME FactsInv, NEW f \in Facts!Facts, NEW s \in Facts!States, NEW from \in 0..MaxTime,
           Facts!Record(f, s, from)
    PROVE  FactsInv'
<1>1. /\ fact' = fact /\ decision' = decision /\ now' = now /\ task' = task
      /\ events' = [events EXCEPT ![f] = Facts!WithEvent(events[f], s, from)]
    BY DEF Facts!Record
<1>2. FactsTypes /\ DOMAIN events = Facts!Facts
    BY DEF FactsInv, FactsTypes, Facts!Facts
<1>3. events' = [g \in Facts!Facts |-> events'[g]]
    BY <1>1, <1>2
<1>4. \A g \in Facts!Facts : \/ events'[g] = events[g]
                           \/ \E v \in Facts!States :
                                    events'[g] = Facts!WithEvent(events[g], v, from)
    BY <1>1, <1>2
<1>5. events' \in Seq(Seq(StateEvent)) /\ Len(events') = Len(events)
    BY <1>2, <1>3, <1>4, HistoriesGrow
<1> QED
    BY <1>1, <1>2, <1>5, SameFactsKeep DEF FactsTypes

LEMMA ResolveKeeps ==
    ASSUME FactsInv, NEW p \in Process, Facts!Resolve(p)
    PROVE  FactsInv'
<1> DEFINE t == task[p]
           outcome(f) == IF f = t.winner THEN "verified" ELSE "stale"
<1>1. /\ fact' = fact /\ decision' = decision /\ now' = now /\ Facts!Done(p)
      /\ events' = [f \in Facts!Facts |->
                        IF f \in t.facts THEN Facts!WithEvent(events[f], outcome(f), now)
                        ELSE events[f]]
    BY DEF Facts!Resolve
<1>2. FactsTypes /\ now \in 0..MaxTime
    BY DEF FactsInv, FactsTypes
<1>3. \A f : outcome(f) \in Facts!States
    BY DEF Facts!States
<1> HIDE DEF outcome, t
<1>4. /\ events' = [f \in Facts!Facts |-> events'[f]]
      /\ \A f \in Facts!Facts : \/ events'[f] = events[f]
                             \/ \E s \in Facts!States :
                                    events'[f] = Facts!WithEvent(events[f], s, now)
    BY <1>1, <1>3
<1>5. events' \in Seq(Seq(StateEvent)) /\ Len(events') = Len(events)
    BY <1>2, <1>4, HistoriesGrow
<1>6. /\ task' \in [Process -> Reading]
      /\ \A q \in Process : task'[q].op = "promote" => task'[q].proposal \in Proposal
    BY <1>1, <1>2, DoneTypes
<1> QED
    BY <1>1, <1>2, <1>5, <1>6, SameFactsKeep

LEMMA DeriveKeeps ==
    ASSUME FactsInv, NEW p \in Process, Facts!Derive(p)
    PROVE  FactsInv'
<1> DEFINE t == task[p]
<1>1. /\ fact' = fact /\ decision' = decision /\ now' = now /\ Facts!Done(p)
      /\ events' = [f \in Facts!Facts |->
                        IF f \in t.facts THEN Facts!WithEvent(events[f], "stale", t.moment)
                        ELSE events[f]]
    BY DEF Facts!Derive
<1>2. FactsTypes /\ now \in 0..MaxTime /\ t.moment \in 0..MaxTime
    BY DEF FactsInv, FactsTypes, Reading
<1>3. "stale" \in Facts!States
    BY DEF Facts!States
<1> HIDE DEF t
<1>4. /\ events' = [f \in Facts!Facts |-> events'[f]]
      /\ \A f \in Facts!Facts : \/ events'[f] = events[f]
                             \/ \E s \in Facts!States :
                                    events'[f] = Facts!WithEvent(events[f], s, t.moment)
    BY <1>1, <1>3
<1>5. events' \in Seq(Seq(StateEvent)) /\ Len(events') = Len(events)
    BY <1>2, <1>4, HistoriesGrow
<1>6. /\ task' \in [Process -> Reading]
      /\ \A q \in Process : task'[q].op = "promote" => task'[q].proposal \in Proposal
    BY <1>1, <1>2, DoneTypes
<1> QED
    BY <1>1, <1>2, <1>5, <1>6, SameFactsKeep

LEMMA ShowOrHideKeeps ==
    ASSUME FactsInv, NEW f \in Facts!Facts, Facts!ShowOrHide(f)
    PROVE  FactsInv'
<1> DEFINE r == fact[f]
           b == ~r.shown
           s == [r EXCEPT !.shown = b]
<1>1. /\ fact' = [fact EXCEPT ![f] = s] /\ decision' = decision /\ now' = now /\ task' = task
      /\ events' = events
    BY Zenon DEF Facts!ShowOrHide
<1>2. FactsTypes /\ fact \in Seq(FactRow) /\ Facts!Facts = 1..Len(fact) /\ r \in FactRow
    BY DEF FactsInv, FactsTypes, Facts!Facts
<1>3. s \in FactRow /\ s.proposal = r.proposal /\ s.object = r.object /\ s.grouped = r.grouped
  <2>1. b \in BOOLEAN
      OBVIOUS
  <2> HIDE DEF b, r
  <2> QED
      BY <1>2, <2>1 DEF FactRow
<1> HIDE DEF s
<1>4. /\ fact' \in Seq(FactRow) /\ Len(fact') = Len(fact)
      /\ \A g \in 1..Len(fact) : fact'[g] = IF g = f THEN s ELSE fact[g]
    BY <1>1, <1>2, <1>3
<1>5. FactsTypes'
    BY <1>1, <1>2, <1>4 DEF FactsTypes
<1>6. \A g \in Facts!Facts : /\ fact'[g].proposal = fact[g].proposal
                           /\ fact'[g].object = fact[g].object
                           /\ fact'[g].grouped = fact[g].grouped
    BY <1>2, <1>3, <1>4
<1> QED
    BY <1>1, <1>4, <1>5, <1>6, FactsKept

LEMMA FactsStep == FactsInv /\ [Facts!Next]_FactsVars => FactsInv'
<1> SUFFICES ASSUME FactsInv, [Facts!Next]_FactsVars PROVE FactsInv'
    OBVIOUS
<1>0. FactsTypes
    BY DEF FactsInv
<1>1. CASE UNCHANGED FactsVars
    BY <1>0, <1>1, SameFactsKeep DEF FactsVars, FactsTypes
<1>2. CASE Facts!Tick
  <2>1. /\ fact' = fact /\ events' = events /\ decision' = decision /\ task' = task
        /\ now < MaxTime /\ now' = now + 1
      BY <1>2 DEF Facts!Tick
  <2>2. now' \in 0..MaxTime
      BY <1>0, <2>1, KnowledgeAssumption DEF FactsTypes, Facts!KnowledgeAssumption
  <2> QED
      BY <1>0, <2>1, <2>2, SameFactsKeep DEF FactsTypes
<1>3. ASSUME NEW p \in Process, Facts!GiveUp(p) PROVE FactsInv'
  <2>1. /\ fact' = fact /\ events' = events /\ decision' = decision /\ now' = now
        /\ Facts!Done(p)
      BY <1>3 DEF Facts!GiveUp
  <2>2. /\ task' \in [Process -> Reading]
        /\ \A q \in Process : task'[q].op = "promote" => task'[q].proposal \in Proposal
      BY <1>0, <2>1, DoneTypes
  <2> QED
      BY <1>0, <2>1, <2>2, SameFactsKeep DEF FactsTypes
<1>4. ASSUME NEW p \in Process,
             \/ \E q \in Proposal, action \in {"approve", "reject"} :
                    Facts!ReadProposal(p, q, action)
             \/ \E w \in Facts!Facts : Facts!ReadConflict(p, w)
             \/ \E moment \in 0..MaxTime : Facts!ReadOld(p, moment)
             \/ Facts!Promote(p) \/ Facts!Resolve(p) \/ Facts!Derive(p)
      PROVE  FactsInv'
    BY <1>4, ReadProposalKeeps, ReadConflictKeeps, ReadOldKeeps, PromoteKeeps, ResolveKeeps,
       DeriveKeeps
<1>5. ASSUME NEW f \in Facts!Facts,
             \/ Facts!ShowOrHide(f)
             \/ \E s \in Facts!States, from \in 0..MaxTime : Facts!Record(f, s, from)
      PROVE  FactsInv'
    BY <1>5, ShowOrHideKeeps, RecordKeeps
<1>6. ASSUME NEW object \in Object, NEW first \in FirstStates, NEW from \in 0..MaxTime,
             Facts!Extract(object, first, from)
      PROVE  FactsInv'
    BY <1>6, ExtractKeeps
<1> QED
    BY <1>1, <1>2, <1>3, <1>4, <1>5, <1>6 DEF Facts!Next

\* What the part says, of the invariant.
LEMMA FactsConclude == FactsInv => Facts!TypeOK /\ Facts!PromotedOnce
<1> SUFFICES ASSUME FactsInv PROVE Facts!TypeOK /\ Facts!PromotedOnce
    OBVIOUS
<1>1. Facts!TypeOK
  <2>1. FactsTypes /\ Facts!Facts = 1..Len(fact)
      BY DEF FactsInv, FactsTypes, Facts!Facts
  <2>2. \A f \in Facts!Facts : fact[f] \in FactRow /\ events[f] \in Seq(StateEvent)
      BY <2>1 DEF FactsTypes
  <2>3. \A f \in Facts!Facts : \A i \in 1..Len(events[f]) : events[f][i] \in StateEvent
      BY <2>2
  <2> QED
      BY <2>1, <2>2, <2>3 DEF FactsTypes, Facts!TypeOK, FactRow, StateEvent, Facts!Extracted
<1>2. ASSUME NEW p \in Proposal
      PROVE  Facts!Cardinality({f \in Facts!Facts : fact[f].proposal = p}) =
                IF decision[p] = "approve" THEN 1 ELSE 0
  <2> DEFINE S == {g \in Facts!Facts : fact[g].proposal = p}
  <2>1. CASE decision[p] = "approve"
    <3>1. PICK f : S = {f}
        BY <2>1 DEF FactsInv, OneFactEach
    <3>2. Cardinality({f}) = 1
        BY FS_Singleton
    <3>3. Facts!Cardinality(S) = Cardinality(S)
        BY DEF Facts!Cardinality, Cardinality
    <3>4. Facts!Cardinality(S) = 1
      <4> HIDE DEF S
      <4> QED
          BY <3>1, <3>2, <3>3
    <3> QED
        BY <2>1, <3>4
  <2>2. CASE decision[p] # "approve"
    <3>1. S = {}
        BY <2>2 DEF FactsInv, OneFactEach
    <3>2. Facts!Cardinality(S) = 0
        BY <3>1, FS_EmptySet DEF Facts!Cardinality, Cardinality
    <3> QED
        BY <2>2, <3>2
  <2> QED
      BY <2>1, <2>2
<1> QED
    BY <1>1, <1>2 DEF Facts!PromotedOnce

\* A proposal that was approved has one fact and any other none, whichever reviewers decided
\* it at the same time, and what was promoted is compared with every fact.
THEOREM PromotedOnceHolds == SideBySide => []PromotedOnce
<1> DEFINE Inv == part = "facts" => FactsInv
<1>1. StartAll => Inv
    BY FactsInit DEF StartAll
<1>2. Inv /\ [StepOne]_allVars => Inv'
  <2> SUFFICES ASSUME Inv, [StepOne]_allVars, part' = "facts" PROVE FactsInv'
      OBVIOUS
  <2>1. part = "facts" /\ [Facts!Next]_FactsVars
      BY DEF StepOne, allVars
  <2> QED
      BY <2>1, FactsStep
<1>3. Inv => PromotedOnce
    BY FactsConclude DEF PromotedOnce, FactsInv
<1> QED
    BY <1>1, <1>2, <1>3, PTL DEF SideBySide
------------------------------------------------------------------------------
(* Entities                                                                 *)

LEMMA HasLeast ==
    ASSUME NEW S \in SUBSET Nat, IsFiniteSet(S), S # {}
    PROVE  \E a \in S : \A b \in S : a <= b
<1> DEFINE Below(a) == {b \in S : b < a}
           Family == {Below(a) : a \in S}
<1>1. IsWellFoundedOn(StrictSubsetOrdering(S), SUBSET S)
    BY FS_StrictSubsetOrderingWellFounded, FS_FiniteSubsetsOfFinite
<1>2. Family \subseteq SUBSET S /\ Family # {}
    OBVIOUS
<1>3. PICK F \in Family : \A G \in Family : ~(<<G, F>> \in StrictSubsetOrdering(S))
  <2> HIDE DEF Family
  <2> QED
      BY <1>1, <1>2, WFMin
<1>4. PICK a \in S : F = Below(a)
    BY <1>3
<1>5. ASSUME NEW b \in S, b < a PROVE FALSE
  <2>1. Below(b) \in Family
      OBVIOUS
  <2>2. Below(b) \subseteq Below(a)
    <3>1. ASSUME NEW c \in S, c < b PROVE c < a
      <4>1. a \in Nat /\ b \in Nat /\ c \in Nat
          OBVIOUS
      <4> QED
          BY <1>5, <3>1, <4>1
    <3> QED
        BY <3>1
  <2>3. b \in Below(a) /\ b \notin Below(b)
      BY <1>5
  <2>4. <<Below(b), Below(a)>> \in StrictSubsetOrdering(S)
    <3>1. Below(a) \in SUBSET S /\ Below(b) \in SUBSET S
        OBVIOUS
    <3> QED
        BY <2>2, <2>3, <3>1 DEF StrictSubsetOrdering
  <2> QED
      BY <1>3, <1>4, <2>1, <2>4
<1>6. \A b \in S : a <= b
    BY <1>5
<1> QED
    BY <1>6

\* What holds at 0 and at a number when it holds at the one before, holds up to n: the numbers
\* where it holds are the set T.
LEMMA UpTo ==
    ASSUME NEW n \in Nat, NEW T, 0 \in T, \A k \in 1..n : k - 1 \in T => k \in T
    PROVE  \A k \in 0..n : k \in T
<1> DEFINE S == (0..n) \ T
<1> SUFFICES ASSUME S # {} PROVE FALSE
    OBVIOUS
<1>1. IsFiniteSet(0..n)
    BY FS_Interval
<1>2. S \in SUBSET (0..n) /\ S \in SUBSET Nat
    OBVIOUS
<1>3. IsFiniteSet(S)
  <2> HIDE DEF S
  <2> QED
      BY <1>1, <1>2, FS_Subset
<1>4. PICK a \in S : \A b \in S : a <= b
  <2> HIDE DEF S
  <2> QED
      BY <1>2, <1>3, HasLeast
<1>5. a \in 1..n /\ a - 1 \in 0..n /\ a - 1 \notin S
    BY <1>4
<1> QED
    BY <1>4, <1>5

\* Where the merges of an entity lead, of any merges.
Onward(into, at, t, a) == IF at[a] <= t THEN into[a] ELSE NoOne
NextOf(into, at, t, a) ==
    IF Onward(into, at, t, a) = NoOne THEN a ELSE Onward(into, at, t, a)
Size == Entities!Cardinality(Entity)
LastOf(into, at, e, t) ==
    LET step[n \in 0..Size] == IF n = 0 THEN e ELSE NextOf(into, at, t, step[n - 1])
    IN  step[Size]

IsWalk(f, into, at, e, t) ==
    /\ f \in [0..Size -> Entity] /\ f[0] = e
    /\ \A n \in 1..Size : f[n] = NextOf(into, at, t, f[n - 1])

LEMMA SizeType == Size \in Nat /\ Size = Cardinality(Entity) /\ IsFiniteSet(Entity) /\ NoOne \notin Entity
<1>1. Size = Cardinality(Entity)
    BY DEF Size, Entities!Cardinality, Cardinality
<1>2. IsFiniteSet(Entity) /\ NoOne \notin Entity
    BY EntitiesAssumption DEF Entities!EntitiesAssumption, Entities!IsFiniteSet, IsFiniteSet
<1> QED
    BY <1>1, <1>2, FS_CardinalityType

LEMMA EndIsLast == \A e, t : Entities!End(e, t) = LastOf(mergedInto, mergedAt, e, t)
BY Zenon DEF Entities!End, LastOf, NextOf, Onward, Entities!Redirect, Size

LEMMA EndIsLastAfter == \A e, t : Entities!End(e, t)' = LastOf(mergedInto', mergedAt', e, t)
BY Zenon DEF Entities!End, LastOf, NextOf, Onward, Entities!Redirect, Size

LEMMA WalkExists ==
    ASSUME NEW into \in [Entity -> Entity \cup {NoOne}], NEW at, NEW e \in Entity, NEW t
    PROVE  \E f : IsWalk(f, into, at, e, t)
<1> DEFINE P(k, f) == /\ f \in [0..k -> Entity] /\ f[0] = e
                      /\ \A n \in 1..k : f[n] = NextOf(into, at, t, f[n - 1])
           T == {k \in Nat : \E f : P(k, f)}
<1>1. \A a \in Entity : NextOf(into, at, t, a) \in Entity
    BY DEF NextOf, Onward
<1>2. 0 \in T
  <2>1. P(0, [n \in 0..0 |-> e])
      OBVIOUS
  <2> QED
      BY <2>1
<1>3. ASSUME NEW k \in 1..Size, k - 1 \in T PROVE k \in T
  <2>0. k \in Nat /\ k >= 1
      BY SizeType
  <2>1. PICK f : P(k - 1, f)
      BY <1>3
  <2> DEFINE g == [n \in 0..k |-> IF n = k THEN NextOf(into, at, t, f[k - 1]) ELSE f[n]]
  <2>2. \A n \in 0..(k - 1) : g[n] = f[n] /\ f[n] \in Entity
      BY <2>0, <2>1
  <2>3. g[k] = NextOf(into, at, t, f[k - 1]) /\ f[k - 1] \in Entity
    <3>1. k - 1 \in 0..(k - 1) /\ k \in 0..k
        BY <2>0
    <3>2. g[k] = NextOf(into, at, t, f[k - 1])
        BY <3>1
    <3> QED
        BY <2>2, <3>1, <3>2
  <2>4. g \in [0..k -> Entity]
    <3>1. ASSUME NEW n \in 0..k PROVE g[n] \in Entity
      <4>1. CASE n = k
          BY <1>1, <2>3, <4>1
      <4>2. CASE n # k
        <5>1. n \in 0..(k - 1)
            BY <2>0, <4>2
        <5> QED
            BY <2>2, <5>1
      <4> QED
          BY <4>1, <4>2
    <3>2. g = [n \in 0..k |-> g[n]]
        OBVIOUS
    <3> HIDE DEF g
    <3> QED
        BY <3>1, <3>2
  <2>5. g[0] = e
      BY <2>0, <2>1, <2>2
  <2>6. ASSUME NEW n \in 1..k PROVE g[n] = NextOf(into, at, t, g[n - 1])
    <3>1. n - 1 \in 0..(k - 1) /\ g[n - 1] = f[n - 1]
        BY <2>0, <2>2
    <3>2. CASE n = k
        BY <2>3, <3>1, <3>2
    <3>3. CASE n # k
      <4>1. n \in 1..(k - 1) /\ n \in 0..(k - 1)
          BY <2>0, <3>3
      <4> HIDE DEF g
      <4> QED
          BY <2>1, <2>2, <3>1, <4>1
    <3> QED
        BY <3>2, <3>3
  <2> HIDE DEF g
  <2>7. P(k, g)
      BY <2>4, <2>5, <2>6
  <2> QED
      BY <2>0, <2>7
<1> HIDE DEF T
<1>4. Size \in T
    BY <1>2, <1>3, SizeType, UpTo
<1> QED
    BY <1>4 DEF T, IsWalk

LEMMA WalkUnique ==
    ASSUME NEW into, NEW at, NEW e, NEW t, NEW f, NEW g, IsWalk(f, into, at, e, t),
           g[0] = e, \A n \in 1..Size : g[n] = NextOf(into, at, t, g[n - 1])
    PROVE  f[Size] = g[Size]
<1> DEFINE T == {k \in Nat : f[k] = g[k]}
<1>1. 0 \in T
    BY DEF IsWalk
<1>2. \A k \in 1..Size : k - 1 \in T => k \in T
    BY SizeType DEF IsWalk
<1> HIDE DEF T
<1>3. Size \in T
    BY <1>1, <1>2, SizeType, UpTo
<1> QED
    BY <1>3 DEF T

LEMMA LastOfWalk ==
    ASSUME NEW into \in [Entity -> Entity \cup {NoOne}], NEW at, NEW e \in Entity, NEW t
    PROVE  \E f : IsWalk(f, into, at, e, t) /\ LastOf(into, at, e, t) = f[Size]
<1> DEFINE P(f) == f = [n \in 0..Size |-> IF n = 0 THEN e ELSE NextOf(into, at, t, f[n - 1])]
<1>1. PICK f : IsWalk(f, into, at, e, t)
    BY WalkExists
<1>2. P(f)
  <2>1. f = [n \in 0..Size |-> f[n]]
      BY <1>1 DEF IsWalk
  <2>2. \A n \in 0..Size : f[n] = IF n = 0 THEN e ELSE NextOf(into, at, t, f[n - 1])
      BY <1>1, SizeType DEF IsWalk
  <2> QED
      BY <2>1, <2>2
<1>3. P(CHOOSE g : P(g))
  <2> HIDE DEF P
  <2> QED
      BY <1>2
<1>4. LastOf(into, at, e, t) = (CHOOSE g : P(g))[Size]
    BY DEF LastOf
<1> DEFINE g == CHOOSE h : P(h)
<1>5. /\ g[0] = e /\ \A n \in 1..Size : g[n] = NextOf(into, at, t, g[n - 1])
      /\ LastOf(into, at, e, t) = g[Size]
  <2>1. g = [n \in 0..Size |-> IF n = 0 THEN e ELSE NextOf(into, at, t, g[n - 1])]
      BY <1>3
  <2>2. LastOf(into, at, e, t) = g[Size]
      BY <1>4
  <2> HIDE DEF g, P
  <2>3. \A n \in 0..Size : g[n] = IF n = 0 THEN e ELSE NextOf(into, at, t, g[n - 1])
      BY <2>1
  <2> QED
      BY <2>2, <2>3, SizeType
<1> HIDE DEF g
<1> QED
    BY <1>1, <1>5, WalkUnique

LEMMA LastOfSame ==
    ASSUME NEW i1 \in [Entity -> Entity \cup {NoOne}], NEW i2 \in [Entity -> Entity \cup {NoOne}],
           NEW a1, NEW a2, NEW e \in Entity, NEW t,
           \A a \in Entity : Onward(i1, a1, t, a) = Onward(i2, a2, t, a)
    PROVE  LastOf(i1, a1, e, t) = LastOf(i2, a2, e, t)
<1>1. PICK f : IsWalk(f, i1, a1, e, t) /\ LastOf(i1, a1, e, t) = f[Size]
    BY LastOfWalk
<1>2. PICK g : IsWalk(g, i2, a2, e, t) /\ LastOf(i2, a2, e, t) = g[Size]
    BY LastOfWalk
<1>3. ASSUME NEW n \in 1..Size PROVE f[n] = NextOf(i2, a2, t, f[n - 1])
  <2>1. n - 1 \in 0..Size /\ f[n - 1] \in Entity
      BY <1>1, SizeType DEF IsWalk
  <2>2. f[n] = NextOf(i1, a1, t, f[n - 1])
      BY <1>1 DEF IsWalk
  <2> QED
      BY <2>1, <2>2 DEF NextOf
<1>4. f[0] = e
    BY <1>1 DEF IsWalk
<1>5. g[Size] = f[Size]
    BY <1>2, <1>3, <1>4, WalkUnique
<1> QED
    BY <1>1, <1>2, <1>5

Merged == {e \in Entity : mergedInto[e] # NoOne}

\* A merge of two active entities leads to a higher rank.
IsRank(rank) ==
    /\ rank \in [Entity -> Nat]
    /\ \A e \in Entity :
        IF mergedInto[e] = NoOne THEN rank[e] = Cardinality(Merged)
        ELSE rank[e] < Cardinality(Merged) /\ rank[e] < rank[mergedInto[e]]
Ranked == \E rank : IsRank(rank)

MergesMade ==
    \A e \in Entity :
        /\ mergedInto[e] = NoOne => mergedAt[e] = MaxTime + 1
        /\ mergedInto[e] # NoOne => /\ mergedAt[e] \in 0..entitiesNow
                                   /\ created[e] <= entitiesNow
                                   /\ created[mergedInto[e]] <= entitiesNow

EntitiesInv ==
    /\ Entities!TypeOK /\ proposals \in Nat
    /\ \A p \in proposal : p.kind = "alias" => p.name \in Name
    /\ MergesMade /\ Ranked

LEMMA EntitiesInit == Entities!Init => EntitiesInv
<1> SUFFICES ASSUME Entities!Init PROVE EntitiesInv
    OBVIOUS
<1>1. MaxTime \in Nat
    BY EntitiesAssumption DEF Entities!EntitiesAssumption
<1>2. Entities!TypeOK /\ proposals \in Nat /\ proposal = {}
    BY <1>1 DEF Entities!Init, Entities!TypeOK, Entities!Time, Entities!NotYet
<1>3. MergesMade
    BY DEF Entities!Init, MergesMade, Entities!NotYet
<1>4. Ranked
  <2>1. \A e \in Entity : mergedInto[e] = NoOne
      BY DEF Entities!Init
  <2>2. Cardinality(Merged) = 0
    <3>1. Merged = {}
        BY <2>1 DEF Merged
    <3> QED
        BY <3>1, FS_EmptySet
  <2>3. IsRank([e \in Entity |-> 0])
      BY <2>1, <2>2 DEF IsRank
  <2> QED
      BY <2>3 DEF Ranked
<1> QED
    BY <1>2, <1>3, <1>4 DEF EntitiesInv

\* What any step does: it adds rows of this moment, makes entities at this moment, and merges
\* what was not merged.
EntitiesAct ==
    /\ entitiesNow' \in 0..MaxTime /\ entitiesNow <= entitiesNow'
    /\ alias \subseteq alias' /\ \A b \in alias' : b \in alias \/ b.at = entitiesNow
    /\ \A e \in Entity :
        /\ created'[e] = created[e] \/ (created[e] > entitiesNow /\ created'[e] = entitiesNow)
        /\ \/ mergedInto'[e] = mergedInto[e] /\ mergedAt'[e] = mergedAt[e]
           \/ /\ mergedInto[e] = NoOne /\ mergedInto'[e] \in Entity
              /\ mergedAt'[e] = entitiesNow

LEMMA MergeRanks ==
    ASSUME EntitiesInv, NEW s \in Entity, NEW g \in Entity, s # g,
           mergedInto[s] = NoOne, mergedInto[g] = NoOne,
           mergedInto' = [mergedInto EXCEPT ![s] = g]
    PROVE  Ranked'
<1>1. PICK rank : IsRank(rank)
    BY DEF EntitiesInv, Ranked
<1>2. mergedInto \in [Entity -> Entity \cup {NoOne}] /\ NoOne \notin Entity
    BY SizeType DEF EntitiesInv, Entities!TypeOK
<1>3. \A e \in Entity : mergedInto'[e] = IF e = s THEN g ELSE mergedInto[e]
    BY <1>2
<1>4. IsFiniteSet(Merged)
    BY SizeType, FS_Subset DEF Merged
<1>5. Merged' = Merged \cup {s} /\ s \notin Merged
    BY <1>2, <1>3 DEF Merged
<1>6. Cardinality(Merged') = Cardinality(Merged) + 1 /\ Cardinality(Merged) \in Nat
    BY <1>4, <1>5, FS_AddElement, FS_CardinalityType
<1> DEFINE m == Cardinality(Merged)
           above == [e \in Entity |-> IF mergedInto'[e] = NoOne THEN m + 1 ELSE rank[e]]
<1> HIDE DEF m
<1>7. m \in Nat /\ Cardinality(Merged') = m + 1
    BY <1>6 DEF m
<1>8. /\ rank \in [Entity -> Nat]
      /\ \A e \in Entity : IF mergedInto[e] = NoOne THEN rank[e] = m
                           ELSE rank[e] < m /\ rank[e] < rank[mergedInto[e]]
    BY <1>1 DEF IsRank, m
<1>9. above \in [Entity -> Nat]
    BY <1>7, <1>8
<1>10. \A e \in Entity : above[e] = IF mergedInto'[e] = NoOne THEN m + 1 ELSE rank[e]
    OBVIOUS
<1> HIDE DEF above
<1>11. ASSUME NEW e \in Entity
       PROVE  IF mergedInto'[e] = NoOne THEN above[e] = m + 1
              ELSE above[e] < m + 1 /\ above[e] < above[mergedInto'[e]]
  <2>1. CASE mergedInto'[e] = NoOne
      BY <1>10, <2>1
  <2>2. CASE e = s
    <3>1. above[e] = m /\ mergedInto'[e] = g /\ above[g] = m + 1
        BY <1>2, <1>3, <1>8, <1>10, <2>2
    <3> QED
        BY <1>2, <1>7, <3>1
  <2>3. CASE mergedInto'[e] # NoOne /\ e # s
    <3> DEFINE o == mergedInto[e]
    <3>1. o \in Entity /\ mergedInto'[e] = o /\ mergedInto[e] # NoOne
        BY <1>2, <1>3, <2>3
    <3>2. above[e] = rank[e] /\ rank[e] < m /\ rank[e] < rank[o] /\ rank[e] \in Nat
        BY <1>8, <1>10, <2>3, <3>1
    <3>3. above[o] = m + 1 \/ above[o] = rank[o]
        BY <1>10, <3>1
    <3> HIDE DEF o
    <3> QED
        BY <1>7, <2>3, <3>1, <3>2, <3>3
  <2> QED
      BY <2>1, <2>2, <2>3
<1>12. \E r \in [Entity -> Nat] : \A e \in Entity :
            IF mergedInto'[e] = NoOne THEN r[e] = m + 1
            ELSE r[e] < m + 1 /\ r[e] < r[mergedInto'[e]]
    BY <1>9, <1>11
<1> QED
    BY <1>7, <1>12 DEF Ranked, IsRank

\* A step that merges nothing.
LEMMA NoMergeKeeps ==
    ASSUME EntitiesInv, EntitiesAct, Entities!TypeOK', proposals' \in Nat,
           \A p \in proposal' : p.kind = "alias" => p.name \in Name,
           mergedInto' = mergedInto, mergedAt' = mergedAt
    PROVE  EntitiesInv'
<1>1. Ranked'
    BY DEF EntitiesInv, Ranked, IsRank, Merged
<1>2. MergesMade'
  <2> SUFFICES ASSUME NEW e \in Entity
               PROVE  /\ mergedInto[e] = NoOne => mergedAt[e] = MaxTime + 1
                      /\ mergedInto[e] # NoOne => /\ mergedAt[e] \in 0..entitiesNow'
                                                 /\ created'[e] <= entitiesNow'
                                                 /\ created'[mergedInto[e]] <= entitiesNow'
      BY DEF MergesMade
  <2>1. /\ entitiesNow \in Nat /\ entitiesNow' \in Nat /\ entitiesNow <= entitiesNow'
        /\ MaxTime \in Nat
      BY EntitiesAssumption
      DEF EntitiesAct, EntitiesInv, Entities!TypeOK, Entities!Time, Entities!EntitiesAssumption
  <2>2. \A a \in Entity : created[a] \in Nat /\ created'[a] \in Nat
      BY <2>1 DEF EntitiesInv, Entities!TypeOK, Entities!Time, Entities!NotYet
  <2>3. \A a \in Entity : created[a] <= entitiesNow => created'[a] <= entitiesNow'
      BY <2>1, <2>2 DEF EntitiesAct
  <2>4. mergedInto[e] # NoOne => mergedInto[e] \in Entity
      BY DEF EntitiesInv, Entities!TypeOK
  <2> QED
      BY <2>1, <2>3, <2>4 DEF EntitiesInv, MergesMade
<1> QED
    BY <1>1, <1>2 DEF EntitiesInv

\* The types as numbers.
LEMMA EntitiesTypes ==
    Entities!TypeOK <=>
        /\ entitiesNow \in 0..MaxTime /\ created \in [Entity -> 0..(MaxTime + 1)]
        /\ alias \subseteq [entity: Entity, name: Name, approved: BOOLEAN, at: 0..MaxTime]
        /\ mergedInto \in [Entity -> Entity \cup {NoOne}]
        /\ mergedAt \in [Entity -> 0..(MaxTime + 1)]
        /\ proposal \subseteq [kind: {"alias", "merge"}, source: Entity, target: Entity,
                               name: Name \cup {NoOne}, id: 1..MaxProposals]
<1>1. MaxTime \in Nat
    BY EntitiesAssumption DEF Entities!EntitiesAssumption
<1>2. (0..MaxTime) \cup {MaxTime + 1} = 0..(MaxTime + 1)
    BY <1>1
<1> QED
    BY <1>2 DEF Entities!TypeOK, Entities!Time, Entities!NotYet

LEMMA EntitiesTypesAfter ==
    /\ entitiesNow' \in 0..MaxTime /\ created' \in [Entity -> 0..(MaxTime + 1)]
    /\ alias' \subseteq [entity: Entity, name: Name, approved: BOOLEAN, at: 0..MaxTime]
    /\ mergedInto' \in [Entity -> Entity \cup {NoOne}]
    /\ mergedAt' \in [Entity -> 0..(MaxTime + 1)]
    /\ proposal' \subseteq [kind: {"alias", "merge"}, source: Entity, target: Entity,
                            name: Name \cup {NoOne}, id: 1..MaxProposals]
    => Entities!TypeOK'
<1>1. MaxTime \in Nat
    BY EntitiesAssumption DEF Entities!EntitiesAssumption
<1>2. (0..MaxTime) \cup {MaxTime + 1} = 0..(MaxTime + 1)
    BY <1>1
<1> QED
    BY <1>2 DEF Entities!TypeOK, Entities!Time, Entities!NotYet

LEMMA CreateKeeps ==
    ASSUME EntitiesInv, NEW e \in Entity, NEW n \in Name, NEW others \in SUBSET Name,
           Entities!Create(e, n, others)
    PROVE  EntitiesAct /\ EntitiesInv'
<1> DEFINE NewRow(o, b) == [entity |-> e, name |-> o, approved |-> b, at |-> entitiesNow]
<1>0. /\ entitiesNow \in 0..MaxTime /\ created \in [Entity -> 0..(MaxTime + 1)]
      /\ alias \subseteq [entity: Entity, name: Name, approved: BOOLEAN, at: 0..MaxTime]
      /\ MaxTime \in Nat
    BY EntitiesTypes, EntitiesAssumption DEF EntitiesInv, Entities!EntitiesAssumption
<1>1. /\ created[e] > entitiesNow /\ created' = [created EXCEPT ![e] = entitiesNow]
      /\ alias' = alias \cup {NewRow(n, TRUE)} \cup {NewRow(o, FALSE) : o \in others}
      /\ UNCHANGED <<entitiesNow, mergedInto, mergedAt, proposal, proposals>>
    BY <1>0 DEF Entities!Create, Entities!Exists, Entities!NewAlias
<1>2. \A o \in Name, b \in BOOLEAN :
        /\ NewRow(o, b) \in [entity: Entity, name: Name, approved: BOOLEAN, at: 0..MaxTime]
        /\ NewRow(o, b).at = entitiesNow
    BY <1>0
<1>5. \A b \in alias' : \/ b \in alias
                        \/ /\ b \in [entity: Entity, name: Name, approved: BOOLEAN, at: 0..MaxTime]
                           /\ b.at = entitiesNow
  <2> HIDE DEF NewRow
  <2>1. ASSUME NEW b \in alias', b \notin alias PROVE \E o \in Name, d \in BOOLEAN : b = NewRow(o, d)
      BY <1>1, <2>1
  <2> QED
      BY <1>2, <2>1
<1>6. alias \subseteq alias'
    BY <1>1
<1>7. created' \in [Entity -> 0..(MaxTime + 1)]
    BY <1>0, <1>1
<1> HIDE DEF NewRow
<1>3. EntitiesAct
  <2>1. \A o \in Entity : created'[o] = IF o = e THEN entitiesNow ELSE created[o]
      BY <1>0, <1>1
  <2>2. \A o \in Entity : mergedInto'[o] = mergedInto[o] /\ mergedAt'[o] = mergedAt[o]
      BY <1>1
  <2>3. \A o \in Entity :
            created'[o] = created[o] \/ (created[o] > entitiesNow /\ created'[o] = entitiesNow)
      BY <1>1, <2>1
  <2>4. entitiesNow' \in 0..MaxTime /\ entitiesNow <= entitiesNow'
      BY <1>0, <1>1
  <2>5. \A b \in alias' : b \in alias \/ b.at = entitiesNow
      BY <1>5
  <2> QED
      BY <1>6, <2>2, <2>3, <2>4, <2>5 DEF EntitiesAct
<1>4. Entities!TypeOK'
  <2>1. alias' \subseteq [entity: Entity, name: Name, approved: BOOLEAN, at: 0..MaxTime]
      BY <1>0, <1>5
  <2> QED
      BY <1>0, <1>1, <1>7, <2>1, EntitiesTypes, EntitiesTypesAfter DEF EntitiesInv
<1> QED
    BY <1>1, <1>3, <1>4, NoMergeKeeps DEF EntitiesInv

LEMMA ProposeAliasKeeps ==
    ASSUME EntitiesInv, NEW e \in Entity, NEW n \in Name, Entities!ProposeAlias(e, n)
    PROVE  EntitiesAct /\ EntitiesInv'
<1> DEFINE added == [entity |-> e, name |-> n, approved |-> FALSE, at |-> entitiesNow]
<1>0. /\ entitiesNow \in 0..MaxTime /\ proposals \in Nat
      /\ alias \subseteq [entity: Entity, name: Name, approved: BOOLEAN, at: 0..MaxTime]
    BY EntitiesTypes DEF EntitiesInv
<1>1. /\ alias' = alias \cup {added} /\ proposals' = proposals + 1
      /\ UNCHANGED <<entitiesNow, created, mergedInto, mergedAt, proposal>>
    BY DEF Entities!ProposeAlias, Entities!NewAlias
<1>2. /\ added \in [entity: Entity, name: Name, approved: BOOLEAN, at: 0..MaxTime]
      /\ added.at = entitiesNow
    BY <1>0
<1> HIDE DEF added
<1>3. EntitiesAct
    BY <1>0, <1>1, <1>2 DEF EntitiesAct
<1>4. Entities!TypeOK'
    BY <1>0, <1>1, <1>2, EntitiesTypes, EntitiesTypesAfter DEF EntitiesInv
<1> QED
    BY <1>0, <1>1, <1>3, <1>4, NoMergeKeeps DEF EntitiesInv

LEMMA ProposeKeeps ==
    ASSUME EntitiesInv, NEW kind \in {"alias", "merge"}, NEW e \in Entity, NEW o \in Entity,
           NEW n \in Name \cup {NoOne}, kind = "alias" => n \in Name,
           Entities!Propose(kind, e, o, n)
    PROVE  EntitiesAct /\ EntitiesInv'
<1> DEFINE added == [kind |-> kind, source |-> e, target |-> o, name |-> n, id |-> proposals + 1]
<1>0. /\ entitiesNow \in 0..MaxTime /\ proposals \in Nat /\ MaxProposals \in Nat
      /\ proposal \subseteq [kind: {"alias", "merge"}, source: Entity, target: Entity,
                             name: Name \cup {NoOne}, id: 1..MaxProposals]
    BY EntitiesTypes, EntitiesAssumption DEF EntitiesInv, Entities!EntitiesAssumption
<1>1. /\ proposals < MaxProposals /\ proposals' = proposals + 1
      /\ proposal' = proposal \cup {added}
      /\ UNCHANGED <<entitiesNow, created, alias, mergedInto, mergedAt>>
    BY DEF Entities!Propose
<1>2. /\ added \in [kind: {"alias", "merge"}, source: Entity, target: Entity,
                    name: Name \cup {NoOne}, id: 1..MaxProposals]
      /\ added.kind = kind /\ added.name = n
  <2>1. proposals + 1 \in 1..MaxProposals
      BY <1>0, <1>1
  <2> QED
      BY <2>1
<1> HIDE DEF added
<1>3. EntitiesAct
    BY <1>0, <1>1 DEF EntitiesAct
<1>4. Entities!TypeOK'
    BY <1>0, <1>1, <1>2, EntitiesTypes, EntitiesTypesAfter DEF EntitiesInv
<1>5. \A p \in proposal' : p.kind = "alias" => p.name \in Name
    BY <1>1, <1>2 DEF EntitiesInv
<1>6. proposals' \in Nat
    BY <1>0, <1>1
<1> QED
    BY <1>1, <1>3, <1>4, <1>5, <1>6, NoMergeKeeps

LEMMA AddNameKeeps ==
    ASSUME EntitiesInv, NEW p \in proposal, Entities!AddName(p), proposal' = proposal \ {p},
           UNCHANGED <<entitiesNow, created, proposals>>
    PROVE  EntitiesAct /\ EntitiesInv'
<1> DEFINE added == [entity |-> p.target, name |-> p.name, approved |-> TRUE, at |-> entitiesNow]
<1>0. /\ entitiesNow \in 0..MaxTime /\ proposals \in Nat /\ p.target \in Entity
      /\ alias \subseteq [entity: Entity, name: Name, approved: BOOLEAN, at: 0..MaxTime]
      /\ p.kind = "alias" => p.name \in Name
    BY EntitiesTypes DEF EntitiesInv
<1>1. p.kind = "alias" /\ alias' = alias \cup {added} /\ UNCHANGED <<mergedInto, mergedAt>>
    BY DEF Entities!AddName, Entities!NewAlias
<1>2. /\ added \in [entity: Entity, name: Name, approved: BOOLEAN, at: 0..MaxTime]
      /\ added.at = entitiesNow
    BY <1>0, <1>1
<1> HIDE DEF added
<1>3. EntitiesAct
    BY <1>0, <1>1, <1>2 DEF EntitiesAct
<1>4. Entities!TypeOK'
    BY <1>0, <1>1, <1>2, EntitiesTypes, EntitiesTypesAfter DEF EntitiesInv
<1> QED
    BY <1>0, <1>1, <1>3, <1>4, NoMergeKeeps DEF EntitiesInv

LEMMA MergeKeeps ==
    ASSUME EntitiesInv, NEW p \in proposal, Entities!Merge(p), proposal' = proposal \ {p},
           UNCHANGED <<entitiesNow, created, proposals>>
    PROVE  EntitiesAct /\ EntitiesInv'
<1> DEFINE s == p.source
           g == p.target
<1>0. /\ entitiesNow \in 0..MaxTime /\ created \in [Entity -> 0..(MaxTime + 1)]
      /\ s \in Entity /\ g \in Entity /\ MaxTime \in Nat
      /\ mergedInto \in [Entity -> Entity \cup {NoOne}] /\ mergedAt \in [Entity -> 0..(MaxTime + 1)]
    BY EntitiesTypes, EntitiesAssumption DEF EntitiesInv, Entities!EntitiesAssumption
<1>1. /\ s # g /\ mergedInto[s] = NoOne /\ mergedInto[g] = NoOne
      /\ created[s] <= entitiesNow /\ created[g] <= entitiesNow
      /\ mergedInto' = [mergedInto EXCEPT ![s] = g]
      /\ mergedAt' = [mergedAt EXCEPT ![s] = entitiesNow] /\ alias' = alias
    BY DEF Entities!Merge, Entities!MayMerge, Entities!Active, Entities!Exists
<1> HIDE DEF s, g
<1>2. Ranked'
    BY <1>0, <1>1, MergeRanks
<1>3. \A e \in Entity : /\ mergedInto'[e] = IF e = s THEN g ELSE mergedInto[e]
                        /\ mergedAt'[e] = IF e = s THEN entitiesNow ELSE mergedAt[e]
    BY <1>0, <1>1
<1>4. EntitiesAct
    BY <1>0, <1>1, <1>3 DEF EntitiesAct
<1>5. Entities!TypeOK'
  <2>1. mergedInto' \in [Entity -> Entity \cup {NoOne}] /\ mergedAt' \in [Entity -> 0..(MaxTime + 1)]
    <3>1. entitiesNow \in 0..(MaxTime + 1)
        BY <1>0
    <3> QED
        BY <1>0, <1>1, <3>1
  <2> QED
      BY <1>0, <1>1, <2>1, EntitiesTypes, EntitiesTypesAfter DEF EntitiesInv
<1>6. MergesMade'
  <2> SUFFICES ASSUME NEW e \in Entity
               PROVE  /\ mergedInto'[e] = NoOne => mergedAt'[e] = MaxTime + 1
                      /\ mergedInto'[e] # NoOne => /\ mergedAt'[e] \in 0..entitiesNow
                                                  /\ created[e] <= entitiesNow
                                                  /\ created[mergedInto'[e]] <= entitiesNow
      BY DEF MergesMade
  <2>1. CASE e = s
      BY <1>0, <1>1, <1>3, <2>1, SizeType
  <2>2. CASE e # s
      BY <1>3, <2>2 DEF EntitiesInv, MergesMade
  <2> QED
      BY <2>1, <2>2
<1> QED
    BY <1>1, <1>2, <1>4, <1>5, <1>6 DEF EntitiesInv

LEMMA EntitiesStep == EntitiesInv /\ [Entities!Next]_EntitiesVars => EntitiesAct /\ EntitiesInv'
<1> SUFFICES ASSUME EntitiesInv, [Entities!Next]_EntitiesVars PROVE EntitiesAct /\ EntitiesInv'
    OBVIOUS
<1>0. entitiesNow \in 0..MaxTime /\ MaxTime \in Nat
    BY EntitiesTypes, EntitiesAssumption DEF EntitiesInv, Entities!EntitiesAssumption
<1>1. CASE UNCHANGED EntitiesVars
  <2>1. EntitiesAct
      BY <1>0, <1>1 DEF EntitiesVars, EntitiesAct
  <2> QED
      BY <1>1, <2>1, EntitiesTypes, EntitiesTypesAfter, NoMergeKeeps DEF EntitiesVars, EntitiesInv
<1>2. CASE Entities!Tick
  <2>1. /\ entitiesNow' = entitiesNow + 1 /\ entitiesNow < MaxTime
        /\ UNCHANGED <<created, alias, mergedInto, mergedAt, proposal, proposals>>
      BY <1>2 DEF Entities!Tick
  <2>2. EntitiesAct
      BY <1>0, <2>1 DEF EntitiesAct
  <2>3. Entities!TypeOK'
      BY <2>1, <2>2, EntitiesTypes, EntitiesTypesAfter DEF EntitiesInv, EntitiesAct
  <2> QED
      BY <2>1, <2>2, <2>3, NoMergeKeeps DEF EntitiesInv
<1>3. ASSUME NEW e \in Entity, NEW n \in Name,
             \/ Entities!ProposeAlias(e, n)
             \/ \E others \in SUBSET Name : Entities!Create(e, n, others)
             \/ Entities!Propose("alias", e, e, n)
      PROVE  EntitiesAct /\ EntitiesInv'
    BY <1>3, ProposeAliasKeeps, CreateKeeps, ProposeKeeps
<1>4. ASSUME NEW e \in Entity, NEW o \in Entity, Entities!Propose("merge", e, o, NoOne)
      PROVE  EntitiesAct /\ EntitiesInv'
    BY <1>4, ProposeKeeps
<1>5. ASSUME NEW p \in proposal, Entities!Decide(p) PROVE EntitiesAct /\ EntitiesInv'
  <2>1. /\ proposal' = proposal \ {p} /\ UNCHANGED <<entitiesNow, created, proposals>>
        /\ Entities!Merge(p) \/ Entities!AddName(p) \/ UNCHANGED <<alias, mergedInto, mergedAt>>
      BY <1>5 DEF Entities!Decide
  <2>2. CASE UNCHANGED <<alias, mergedInto, mergedAt>>
    <3>1. EntitiesAct
        BY <1>0, <2>1, <2>2 DEF EntitiesAct
    <3>2. Entities!TypeOK'
        BY <2>1, <2>2, EntitiesTypes, EntitiesTypesAfter DEF EntitiesInv
    <3> QED
        BY <2>1, <2>2, <3>1, <3>2, NoMergeKeeps DEF EntitiesInv
  <2> QED
      BY <2>1, <2>2, MergeKeeps, AddNameKeeps
<1> QED
    BY <1>1, <1>2, <1>3, <1>4, <1>5 DEF Entities!Next

LEMMA EntitiesConclude == EntitiesInv => Entities!MergesEnd
<1> SUFFICES ASSUME EntitiesInv, NEW e \in Entity, Entities!Exists(e)
             PROVE  Entities!Active(Entities!End(e, entitiesNow))
    BY DEF Entities!MergesEnd
<1>1. /\ mergedInto \in [Entity -> Entity \cup {NoOne}] /\ MaxTime \in Nat
      /\ entitiesNow \in 0..MaxTime /\ Size \in Nat /\ NoOne \notin Entity
    BY EntitiesTypes, EntitiesAssumption, SizeType DEF EntitiesInv, Entities!EntitiesAssumption
<1>2. PICK rank : IsRank(rank)
    BY DEF EntitiesInv, Ranked
<1>3. PICK f : /\ IsWalk(f, mergedInto, mergedAt, e, entitiesNow)
               /\ Entities!End(e, entitiesNow) = f[Size]
  <2>1. \E f : /\ IsWalk(f, mergedInto, mergedAt, e, entitiesNow)
              /\ LastOf(mergedInto, mergedAt, e, entitiesNow) = f[Size]
      BY <1>1, LastOfWalk
  <2> QED
      BY <2>1, EndIsLast
<1>4. \A a \in Entity : Onward(mergedInto, mergedAt, entitiesNow, a) = mergedInto[a]
  <2> SUFFICES ASSUME NEW a \in Entity
               PROVE  Onward(mergedInto, mergedAt, entitiesNow, a) = mergedInto[a]
      OBVIOUS
  <2>1. \/ mergedInto[a] = NoOne
        \/ mergedAt[a] \in 0..entitiesNow
      BY DEF EntitiesInv, MergesMade
  <2>2. mergedAt[a] \in 0..entitiesNow => mergedAt[a] <= entitiesNow
      BY <1>1
  <2> QED
      BY <2>1, <2>2 DEF Onward
<1>5. ASSUME NEW n \in 1..Size
      PROVE  /\ f[n - 1] \in Entity /\ f[n] \in Entity
             /\ f[n] = IF mergedInto[f[n - 1]] = NoOne THEN f[n - 1] ELSE mergedInto[f[n - 1]]
  <2>1. n - 1 \in 0..Size /\ n \in 0..Size
      BY <1>1
  <2>2. /\ f[n - 1] \in Entity /\ f[n] \in Entity
        /\ f[n] = NextOf(mergedInto, mergedAt, entitiesNow, f[n - 1])
      BY <1>3, <2>1 DEF IsWalk
  <2> QED
      BY <1>4, <2>2 DEF NextOf
<1> DEFINE T == {n \in Nat : /\ created[f[n]] <= entitiesNow
                             /\ mergedInto[f[n]] = NoOne \/ rank[f[n]] >= n}
<1>6. 0 \in T
  <2>1. f[0] = e /\ rank[e] \in Nat /\ created[e] <= entitiesNow
      BY <1>2, <1>3 DEF IsWalk, IsRank, Entities!Exists
  <2> QED
      BY <2>1
<1>7. ASSUME NEW n \in 1..Size, n - 1 \in T PROVE n \in T
  <2> DEFINE a == f[n - 1]
             b == f[n]
  <2>1. a \in Entity /\ b \in Entity /\ n \in Nat /\ n - 1 \in Nat
        /\ b = IF mergedInto[a] = NoOne THEN a ELSE mergedInto[a]
      BY <1>1, <1>5
  <2>2. created[a] <= entitiesNow /\ (mergedInto[a] = NoOne \/ rank[a] >= n - 1)
      BY <1>7
  <2>3. rank[a] \in Nat /\ rank[b] \in Nat
        /\ (mergedInto[a] # NoOne => rank[a] < rank[mergedInto[a]])
      BY <1>2, <2>1 DEF IsRank
  <2>4. created[b] <= entitiesNow
      BY <2>1, <2>2 DEF EntitiesInv, MergesMade
  <2>5. mergedInto[b] = NoOne \/ rank[b] >= n
    <3> HIDE DEF a, b
    <3> QED
        BY <2>1, <2>2, <2>3
  <2> QED
      BY <2>1, <2>4, <2>5
<1>8. Size \in T
  <2> HIDE DEF T
  <2> QED
      BY <1>1, <1>6, <1>7, UpTo
<1>9. f[Size] \in Entity
    BY <1>1, <1>3 DEF IsWalk
<1>10. mergedInto[f[Size]] = NoOne
  <2> SUFFICES ASSUME mergedInto[f[Size]] # NoOne PROVE FALSE
      OBVIOUS
  <2>1. rank[f[Size]] < Cardinality(Merged) /\ rank[f[Size]] \in Nat /\ rank[f[Size]] >= Size
      BY <1>2, <1>8, <1>9 DEF IsRank
  <2>2. Cardinality(Merged) <= Size /\ Cardinality(Merged) \in Nat
    <3>1. Merged \in SUBSET Entity
        BY DEF Merged
    <3>2. IsFiniteSet(Merged)
        BY <3>1, SizeType, FS_Subset
    <3> QED
        BY <3>1, <3>2, SizeType, FS_Subset, FS_CardinalityType
  <2> QED
      BY <1>1, <2>1, <2>2
<1> QED
    BY <1>3, <1>8, <1>10 DEF Entities!Active, Entities!Exists

LEMMA EntitiesConcludeTyped == EntitiesInv => Entities!TypeOK /\ Entities!MergesEnd
BY EntitiesConclude DEF EntitiesInv

LEMMA EntitiesTogether ==
    /\ StartAll => (part = "entities" => EntitiesInv)
    /\ (part = "entities" => EntitiesInv) /\ [StepOne]_allVars
            => (part' = "entities" => EntitiesInv' /\ EntitiesAct /\ part = "entities")
<1>1. StartAll => (part = "entities" => EntitiesInv)
    BY EntitiesInit DEF StartAll
<1>2. ASSUME part = "entities" => EntitiesInv, [StepOne]_allVars, part' = "entities"
      PROVE  EntitiesInv' /\ EntitiesAct /\ part = "entities"
  <2>1. part = "entities" /\ [Entities!Next]_EntitiesVars
      BY <1>2 DEF StepOne, allVars
  <2> QED
      BY <1>2, <2>1, EntitiesStep
<1> QED
    BY <1>1, <1>2

\* Wherever merges lead, they end at an active entity.
THEOREM MergesEndHolds == SideBySide => []MergesEnd
<1> DEFINE Inv == part = "entities" => EntitiesInv
<1>1. StartAll => Inv
    BY EntitiesTogether
<1>2. Inv /\ [StepOne]_allVars => Inv'
    BY EntitiesTogether
<1>3. Inv => MergesEnd
    BY EntitiesConcludeTyped DEF MergesEnd
<1> QED
    BY <1>1, <1>2, <1>3, PTL DEF SideBySide

\* What keeps a name known, and what keeps the past.
LEMMA NamesKept ==
    ASSUME EntitiesInv, EntitiesInv', EntitiesAct
    PROVE  Entities!NameKept /\ Entities!PastKept
<1>0. /\ entitiesNow \in 0..MaxTime /\ entitiesNow' \in 0..MaxTime /\ entitiesNow <= entitiesNow'
      /\ MaxTime \in Nat
      /\ mergedInto \in [Entity -> Entity \cup {NoOne}] /\ mergedInto' \in [Entity -> Entity \cup {NoOne}]
      /\ \A b \in alias : b.entity \in Entity /\ b.at \in 0..MaxTime
  <2>1. mergedInto' \in [Entity -> Entity \cup {NoOne}]
      BY DEF EntitiesInv, Entities!TypeOK
  <2> QED
      BY <2>1, EntitiesTypes, EntitiesAssumption DEF EntitiesInv, EntitiesAct, Entities!EntitiesAssumption
<1>1. \A e \in Entity : created[e] \in 0..(MaxTime + 1) /\ mergedAt[e] \in 0..(MaxTime + 1)
    BY EntitiesTypes DEF EntitiesInv
<1>2. \A b \in alias' : b.entity \in Entity /\ (b \in alias \/ b.at = entitiesNow)
  <2>1. \A b \in alias' : b.entity \in Entity
      BY DEF EntitiesInv, Entities!TypeOK
  <2> QED
      BY <2>1 DEF EntitiesAct
<1>3. ASSUME NEW n \in Name, Entities!Resolve(n, entitiesNow) # {}
      PROVE  Entities!Resolve(n, entitiesNow)' # {}
  <2>1. PICK b \in alias : b.name = n /\ b.approved /\ b.at <= entitiesNow
                           /\ created[b.entity] <= entitiesNow
      BY <1>3 DEF Entities!Resolve
  <2>2. b \in alias' /\ b.entity \in Entity /\ b.at <= entitiesNow'
      BY <1>0, <2>1 DEF EntitiesAct
  <2>3. created'[b.entity] <= entitiesNow'
      BY <1>0, <1>1, <2>1, <2>2 DEF EntitiesAct
  <2>4. /\ mergedInto'[b.entity] = NoOne => mergedAt'[b.entity] > entitiesNow'
        /\ mergedInto'[b.entity] # NoOne => mergedAt'[b.entity] <= entitiesNow'
      BY <1>0, <2>2 DEF EntitiesInv, MergesMade
  <2>5. Entities!Kept(b.entity, entitiesNow)'
      BY <2>4 DEF Entities!Kept, Entities!Redirect
  <2> QED
      BY <2>1, <2>2, <2>3, <2>5 DEF Entities!Resolve
<1>4. ASSUME NEW n \in Name, NEW t \in 0..(entitiesNow - 1)
      PROVE  Entities!Resolve(n, t)' = Entities!Resolve(n, t)
  <2>0. t \in Nat /\ t < entitiesNow
      BY <1>0
  <2>1. ASSUME NEW e \in Entity
        PROVE  /\ created'[e] <= t <=> created[e] <= t
               /\ mergedAt'[e] <= t <=> mergedAt[e] <= t
               /\ mergedAt'[e] > t <=> mergedAt[e] > t
               /\ mergedAt[e] <= t => mergedInto'[e] = mergedInto[e]
    <3>1. created'[e] <= t <=> created[e] <= t
        BY <1>0, <1>1, <2>0 DEF EntitiesAct
    <3>2. CASE mergedInto'[e] = mergedInto[e] /\ mergedAt'[e] = mergedAt[e]
        BY <3>1, <3>2
    <3>3. CASE mergedInto[e] = NoOne /\ mergedAt'[e] = entitiesNow
      <4>1. mergedAt[e] = MaxTime + 1
          BY <3>3 DEF EntitiesInv, MergesMade
      <4> QED
          BY <1>0, <2>0, <3>1, <3>3, <4>1
    <3> QED
        BY <3>2, <3>3 DEF EntitiesAct
  <2>2. ASSUME NEW e \in Entity
        PROVE  Onward(mergedInto', mergedAt', t, e) = Onward(mergedInto, mergedAt, t, e)
      BY <2>1 DEF Onward
  <2>3. ASSUME NEW e \in Entity PROVE Entities!End(e, t)' = Entities!End(e, t)
    <3>1. LastOf(mergedInto', mergedAt', e, t) = LastOf(mergedInto, mergedAt, e, t)
        BY <1>0, <2>2, LastOfSame
    <3> QED
        BY <3>1, EndIsLast, EndIsLastAfter
  <2> DEFINE Meant == {b \in alias : b.name = n /\ b.approved /\ b.at <= t
                                    /\ created[b.entity] <= t /\ Entities!Kept(b.entity, t)}
             MeantAfter == {b \in alias' : b.name = n /\ b.approved /\ b.at <= t
                                    /\ created'[b.entity] <= t /\ Entities!Kept(b.entity, t)'}
  <2>4. ASSUME NEW e \in Entity PROVE Entities!Kept(e, t)' <=> Entities!Kept(e, t)
      BY <2>1 DEF Entities!Kept, Entities!Redirect
  <2>5. MeantAfter = Meant
    <3>1. ASSUME NEW b \in alias', b.at <= t PROVE b \in alias
        BY <1>0, <1>2, <2>0, <3>1
    <3>2. alias \subseteq alias'
        BY DEF EntitiesAct
    <3> QED
        BY <1>2, <2>1, <2>4, <3>1, <3>2
  <2>6. /\ Entities!Resolve(n, t) = {Entities!End(b.entity, t) : b \in Meant}
        /\ Entities!Resolve(n, t)' = {Entities!End(b.entity, t)' : b \in MeantAfter}
      BY Zenon DEF Entities!Resolve
  <2>7. \A b \in Meant : b.entity \in Entity
      BY <1>0
  <2> HIDE DEF Meant, MeantAfter
  <2> QED
      BY <2>3, <2>5, <2>6, <2>7
<1> QED
    BY <1>3, <1>4 DEF Entities!NameKept, Entities!PastKept

\* A name that was known stays known, and what it meant at a moment that has passed does not
\* change, whatever was merged since.
THEOREM NamesStayKnownHolds == SideBySide => NamesStayKnown
<1> DEFINE Inv == part = "entities" => EntitiesInv
<1>1. StartAll => Inv
    BY EntitiesTogether
<1>2. Inv /\ [StepOne]_allVars => Inv'
    BY EntitiesTogether
<1>3. Inv /\ [StepOne]_allVars => [part = "entities" => Entities!NameKept /\ Entities!PastKept]_allVars
  <2> SUFFICES ASSUME Inv, [StepOne]_allVars, part = "entities"
               PROVE  Entities!NameKept /\ Entities!PastKept
      OBVIOUS
  <2>1. part' = "entities"
      BY DEF StepOne, allVars
  <2> QED
      BY <2>1, EntitiesTogether, NamesKept
<1> QED
    BY <1>1, <1>2, <1>3, PTL DEF SideBySide, NamesStayKnown
------------------------------------------------------------------------------
(* Attention                                                                *)

Snapshot == [at: 0..MaxTime, content: SUBSET Attention!Finding, trace: 0..MaxRefreshes]
LifeRow == [status: {"none", "new", "resurfaced"} \cup Attention!Statuses, snapshot: Nat,
            approval: BOOLEAN]
Refresh == [at: {"idle", "projected", "differs", "numbered"}, scope: Attention!Scope,
            since: 0..MaxTime, content: SUBSET Attention!Finding, trace: 0..MaxRefreshes,
            version: Nat]

AttentionTypes ==
    /\ attentionNow \in 0..MaxTime /\ open \subseteq Attention!Finding /\ refreshes \in Nat
    /\ snapshots \in [Attention!Scope -> Seq(Snapshot)]
    /\ row \in [Attention!Scope -> [Attention!Finding -> LifeRow]]
    /\ refresh \in [Process -> Refresh]

\* The versions of a scope that show a finding.
Showing(s, f) ==
    {v \in 1..Len(snapshots[s]) : f \in Attention!Items(snapshots[s][v].content)}

\* A row is there exactly when a version shows its finding, and names the last that does.
RowFollows(r, showing) ==
    IF r = Attention!NoRow THEN showing = {}
    ELSE r.snapshot \in showing /\ \A v \in showing : v <= r.snapshot

AttentionInv ==
    /\ AttentionTypes
    /\ \A s \in Attention!Scope, f \in Attention!Finding : RowFollows(row[s][f], Showing(s, f))

LEMMA AttentionConclude == AttentionInv => Attention!TypeOK /\ Attention!RowsFollowSnapshots
<1> SUFFICES ASSUME AttentionInv PROVE Attention!TypeOK /\ Attention!RowsFollowSnapshots
    OBVIOUS
<1>1. Attention!RowsFollowSnapshots
    BY DEF AttentionInv, RowFollows, Showing, Attention!RowsFollowSnapshots
<1>2. ASSUME NEW s \in Attention!Scope, NEW v \in 1..Len(snapshots[s])
      PROVE  snapshots[s][v] \in Snapshot
  <2>1. snapshots[s] \in Seq(Snapshot)
      BY DEF AttentionInv, AttentionTypes
  <2> QED
      BY <2>1
<1>3. Attention!TypeOK
    BY <1>2 DEF AttentionInv, AttentionTypes, Attention!TypeOK, Snapshot, LifeRow, Refresh
<1> QED
    BY <1>1, <1>3

LEMMA IdleRefresh == Attention!Idle \in Refresh
BY AttentionAssumption DEF Attention!Idle, Refresh, Attention!Scope, Attention!AttentionAssumption

LEMMA AttentionInit == Attention!Init => AttentionInv
<1> SUFFICES ASSUME Attention!Init PROVE AttentionInv
    OBVIOUS
<1>1. /\ attentionNow = 0 /\ open \in SUBSET Attention!Finding /\ refreshes = 0
      /\ snapshots = [s \in Attention!Scope |-> <<>>]
      /\ row = [s \in Attention!Scope |-> [f \in Attention!Finding |-> Attention!NoRow]]
      /\ refresh = [p \in Process |-> Attention!Idle]
    BY DEF Attention!Init
<1>2. Attention!NoRow \in LifeRow
    BY DEF Attention!NoRow, LifeRow
<1>3. AttentionTypes
  <2>1. 0 \in 0..MaxTime /\ <<>> \in Seq(Snapshot)
      BY AttentionAssumption DEF Attention!AttentionAssumption
  <2> QED
      BY <1>1, <1>2, <2>1, IdleRefresh DEF AttentionTypes
<1>4. ASSUME NEW s \in Attention!Scope, NEW f \in Attention!Finding
      PROVE  RowFollows(row[s][f], Showing(s, f))
  <2>1. row[s][f] = Attention!NoRow /\ snapshots[s] = <<>>
      BY <1>1
  <2>2. Showing(s, f) = {}
      BY <2>1 DEF Showing
  <2> QED
      BY <2>1, <2>2 DEF RowFollows
<1> QED
    BY <1>3, <1>4 DEF AttentionInv

\* A step that stores no snapshot and changes no row.
LEMMA NothingStored ==
    ASSUME AttentionInv, AttentionTypes', snapshots' = snapshots, row' = row
    PROVE  AttentionInv'
BY DEF AttentionInv, Showing

LEMMA SaveKeeps ==
    ASSUME AttentionInv, NEW p \in Process, Attention!Save(p)
    PROVE  AttentionInv'
<1> DEFINE r == refresh[p]
           sc == r.scope
           stored == [at |-> r.since, content |-> r.content, trace |-> r.trace]
           rows == [f \in Attention!Finding |->
                        IF f \in Attention!Items(r.content)
                        THEN Attention!Seen(row[sc][f], r.version) ELSE row[sc][f]]
           n == Len(snapshots[sc])
<1>0. AttentionTypes
    BY DEF AttentionInv
<1>1. /\ r \in Refresh /\ sc \in Attention!Scope /\ snapshots[sc] \in Seq(Snapshot)
      /\ n \in Nat /\ r.version = n + 1
      /\ snapshots' = [snapshots EXCEPT ![sc] = Append(snapshots[sc], stored)]
      /\ row' = [row EXCEPT ![sc] = rows]
      /\ refresh' = [refresh EXCEPT ![p] = Attention!Idle]
      /\ UNCHANGED <<attentionNow, open, refreshes>>
  <2>1. r \in Refresh /\ sc \in Attention!Scope
      BY <1>0 DEF AttentionTypes, Refresh
  <2>2. snapshots[sc] \in Seq(Snapshot) /\ n \in Nat
      BY <1>0, <2>1 DEF AttentionTypes
  <2> QED
      BY <2>1, <2>2 DEF Attention!Save, Attention!VersionFree
<1>2. stored \in Snapshot /\ stored.content = r.content
    BY <1>1 DEF Refresh, Snapshot
<1> HIDE DEF stored, rows
<1>3. /\ Append(snapshots[sc], stored) \in Seq(Snapshot)
      /\ Len(Append(snapshots[sc], stored)) = n + 1
      /\ \A v \in 1..n : Append(snapshots[sc], stored)[v] = snapshots[sc][v]
      /\ Append(snapshots[sc], stored)[n + 1] = stored
    BY <1>1, <1>2, AppendedSeq
<1>4. ASSUME NEW old \in LifeRow
      PROVE  /\ Attention!Seen(old, n + 1) \in LifeRow
             /\ Attention!Seen(old, n + 1).snapshot = n + 1
             /\ Attention!Seen(old, n + 1) # Attention!NoRow
  <2> DEFINE st == IF old.status \in Attention!Closed THEN "resurfaced"
                   ELSE IF old.status = "none" THEN "new" ELSE old.status
             o1 == [old EXCEPT !.status = st]
             o2 == [o1 EXCEPT !.snapshot = n + 1]
  <2>1. st \in {"none", "new", "resurfaced"} \cup Attention!Statuses
      BY DEF LifeRow
  <2> HIDE DEF st
  <2>2. o1 \in LifeRow
      BY <2>1 DEF LifeRow
  <2> HIDE DEF o1
  <2>3. o2 \in LifeRow /\ o2.snapshot = n + 1
      BY <1>1, <2>2 DEF LifeRow
  <2>4. Attention!Seen(old, n + 1) = o2
      BY Zenon DEF Attention!Seen, o1, st
  <2> HIDE DEF o2, n
  <2> QED
      BY <1>1, <2>3, <2>4 DEF Attention!NoRow
<1>5. \A f \in Attention!Finding :
            /\ row[sc][f] \in LifeRow
            /\ rows[f] = IF f \in Attention!Items(r.content)
                         THEN Attention!Seen(row[sc][f], n + 1) ELSE row[sc][f]
    BY <1>0, <1>1 DEF AttentionTypes, rows
<1>6. rows \in [Attention!Finding -> LifeRow]
  <2>1. ASSUME NEW f \in Attention!Finding PROVE rows[f] \in LifeRow
      BY <1>4, <1>5
  <2>2. rows = [f \in Attention!Finding |-> rows[f]]
      BY DEF rows
  <2> QED
      BY <2>1, <2>2
<1> HIDE DEF r, sc, n
<1>7. /\ \A s \in Attention!Scope :
            /\ snapshots'[s] = IF s = sc THEN Append(snapshots[sc], stored) ELSE snapshots[s]
            /\ row'[s] = IF s = sc THEN rows ELSE row[s]
    BY <1>0, <1>1 DEF AttentionTypes
<1>8. AttentionTypes'
    BY <1>0, <1>1, <1>3, <1>6, IdleRefresh DEF AttentionTypes
<1>9. ASSUME NEW s \in Attention!Scope, NEW f \in Attention!Finding
      PROVE  RowFollows(row'[s][f], Showing(s, f)')
  <2>1. CASE s # sc
    <3>1. Showing(s, f)' = Showing(s, f) /\ row'[s][f] = row[s][f]
        BY <1>7, <2>1 DEF Showing
    <3> QED
        BY <3>1 DEF AttentionInv
  <2>2. CASE s = sc
    <3>0. /\ Showing(s, f) = {v \in 1..n : f \in Attention!Items(snapshots[sc][v].content)}
          /\ row'[s][f] = rows[f]
        BY <1>7, <2>2 DEF Showing, n
    <3>1. Showing(s, f)' = {v \in 1..(n + 1) : f \in Attention!Items(
                                    Append(snapshots[sc], stored)[v].content)}
        BY <1>3, <1>7, <2>2 DEF Showing
    <3>2. Showing(s, f)' = IF f \in Attention!Items(r.content) THEN Showing(s, f) \cup {n + 1}
                           ELSE Showing(s, f)
      <4>1. \A v \in 1..(n + 1) : v \in 1..n \/ v = n + 1
          BY <1>1
      <4>2. n + 1 \notin 1..n /\ n + 1 \in 1..(n + 1) /\ 1..n \subseteq 1..(n + 1)
          BY <1>1
      <4> QED
          BY <1>2, <1>3, <3>0, <3>1, <4>1, <4>2
    <3>3. RowFollows(row[sc][f], Showing(s, f))
        BY <2>2 DEF AttentionInv
    <3>4. CASE f \in Attention!Items(r.content)
      <4>1. rows[f].snapshot = n + 1 /\ rows[f] # Attention!NoRow
          BY <1>4, <1>5, <3>4
      <4>2. \A v \in Showing(s, f) : v <= n + 1
          BY <1>1, <3>0
      <4> QED
          BY <1>1, <3>0, <3>2, <3>4, <4>1, <4>2 DEF RowFollows
    <3>5. CASE f \notin Attention!Items(r.content)
        BY <1>5, <3>0, <3>2, <3>3, <3>5
    <3> QED
        BY <3>4, <3>5
  <2> QED
      BY <2>1, <2>2
<1> QED
    BY <1>8, <1>9 DEF AttentionInv

\* A row that is there gets another status.
LEMMA UpdateKeeps ==
    ASSUME AttentionInv, NEW s \in Attention!Scope, NEW f \in Attention!Finding, NEW new \in LifeRow,
           Attention!Update(s, f, new), new.status # "none", new.snapshot = row[s][f].snapshot
    PROVE  AttentionInv'
<1>1. /\ row[s][f] # Attention!NoRow /\ row' = [row EXCEPT ![s][f] = new]
      /\ UNCHANGED <<attentionNow, open, snapshots, refresh, refreshes>>
    BY DEF Attention!Update
<1>2. AttentionTypes
    BY DEF AttentionInv
<1>3. \A s2 \in Attention!Scope, g \in Attention!Finding :
            row'[s2][g] = IF s2 = s /\ g = f THEN new ELSE row[s2][g]
    BY <1>1, <1>2 DEF AttentionTypes
<1>4. AttentionTypes'
  <2>1. [row[s] EXCEPT ![f] = new] \in [Attention!Finding -> LifeRow]
      BY <1>2 DEF AttentionTypes
  <2>2. row' \in [Attention!Scope -> [Attention!Finding -> LifeRow]]
      BY <1>1, <1>2, <2>1 DEF AttentionTypes
  <2> QED
      BY <1>1, <1>2, <2>2 DEF AttentionTypes
<1>5. new # Attention!NoRow
    BY DEF Attention!NoRow
<1>6. ASSUME NEW s2 \in Attention!Scope, NEW g \in Attention!Finding
      PROVE  RowFollows(row'[s2][g], Showing(s2, g)')
  <2>1. Showing(s2, g)' = Showing(s2, g) /\ RowFollows(row[s2][g], Showing(s2, g))
      BY <1>1 DEF Showing, AttentionInv
  <2> QED
      BY <1>1, <1>3, <1>5, <2>1 DEF RowFollows
<1> QED
    BY <1>4, <1>6 DEF AttentionInv

LEMMA StatusUpdateKeeps ==
    ASSUME AttentionInv, NEW s \in Attention!Scope, NEW f \in Attention!Finding,
           NEW status \in Attention!Statuses, NEW new,
           \/ new = [row[s][f] EXCEPT !.status = status]
           \/ new = [row[s][f] EXCEPT !.status = status, !.approval = TRUE],
           Attention!Update(s, f, new)
    PROVE  AttentionInv'
<1> DEFINE old == row[s][f]
           o1 == [old EXCEPT !.status = status]
           o2 == [o1 EXCEPT !.approval = TRUE]
<1>1. old \in LifeRow
    BY DEF AttentionInv, AttentionTypes
<1> HIDE DEF old
<1>2. o1 \in LifeRow /\ o1.status = status /\ o1.snapshot = old.snapshot
    BY <1>1 DEF LifeRow
<1>3. new = o1 \/ new = o2
    BY Zenon DEF old
<1> HIDE DEF o1
<1>4. o2 \in LifeRow /\ o2.status = status /\ o2.snapshot = old.snapshot
    BY <1>2 DEF LifeRow
<1> HIDE DEF o2
<1>5. status # "none"
    BY DEF Attention!Statuses, Attention!Closed
<1>6. new \in LifeRow /\ new.status # "none" /\ new.snapshot = row[s][f].snapshot
    BY <1>2, <1>3, <1>4, <1>5 DEF old
<1> QED
    BY <1>6, UpdateKeeps

LEMMA AttentionStep == AttentionInv /\ [Attention!Next]_AttentionVars => AttentionInv'
<1> SUFFICES ASSUME AttentionInv, [Attention!Next]_AttentionVars PROVE AttentionInv'
    OBVIOUS
<1>0. AttentionTypes
    BY DEF AttentionInv
<1>1. CASE UNCHANGED AttentionVars
  <2>1. AttentionTypes'
      BY <1>0, <1>1 DEF AttentionVars, AttentionTypes
  <2> QED
      BY <1>1, <2>1, NothingStored DEF AttentionVars
<1>2. CASE Attention!Tick
  <2>1. attentionNow' \in 0..MaxTime /\ UNCHANGED <<open, snapshots, row, refresh, refreshes>>
      BY <1>0, <1>2, AttentionAssumption
      DEF Attention!Tick, AttentionTypes, Attention!AttentionAssumption
  <2>2. AttentionTypes'
      BY <1>0, <2>1 DEF AttentionTypes
  <2> QED
      BY <2>1, <2>2, NothingStored
<1>3. ASSUME NEW f \in Attention!Finding, Attention!Change(f) PROVE AttentionInv'
  <2>1. open' \subseteq Attention!Finding /\ UNCHANGED <<attentionNow, snapshots, row, refresh, refreshes>>
      BY <1>0, <1>3 DEF Attention!Change, AttentionTypes
  <2>2. AttentionTypes'
      BY <1>0, <2>1 DEF AttentionTypes
  <2> QED
      BY <2>1, <2>2, NothingStored
<1>4. ASSUME NEW f \in Attention!Finding, NEW status \in Attention!Statuses,
             Attention!UpdateStatus(f, status)
      PROVE  AttentionInv'
  <2>1. Attention!Picked(f) \in Attention!Scope
      BY DEF Attention!Picked, Attention!Scope
  <2> QED
      BY <1>4, <2>1, StatusUpdateKeeps DEF Attention!UpdateStatus
<1>5. ASSUME NEW f \in Attention!Finding, Attention!Acknowledge(f) PROVE AttentionInv'
  <2>1. "workspace" \in Attention!Scope /\ "acknowledged" \in Attention!Statuses
      BY DEF Attention!Scope, Attention!Statuses
  <2> QED
      BY <1>5, <2>1, StatusUpdateKeeps DEF Attention!Acknowledge
<1>6. ASSUME NEW f \in Attention!Finding, Attention!ActOn(f) PROVE AttentionInv'
  <2>1. Attention!Picked(f) \in Attention!Scope /\ "acted_on" \in Attention!Statuses
      BY DEF Attention!Picked, Attention!Scope, Attention!Statuses
  <2> QED
      BY <1>6, <2>1, StatusUpdateKeeps DEF Attention!ActOn
\* The steps of a refresh before it saves.
<1>7. ASSUME NEW p \in Process, NEW r \in Refresh, refresh' = [refresh EXCEPT ![p] = r],
             UNCHANGED <<attentionNow, open, snapshots, row>>, refreshes' \in Nat
      PROVE  AttentionInv'
  <2>1. AttentionTypes'
      BY <1>0, <1>7 DEF AttentionTypes
  <2> QED
      BY <1>7, <2>1, NothingStored
<1>8. ASSUME NEW p \in Process, NEW scope \in Attention!Scope, NEW runbook \in BOOLEAN,
             Attention!Project(p, scope, runbook)
      PROVE  AttentionInv'
  <2> DEFINE r == [at |-> "projected", scope |-> scope, since |-> attentionNow, content |-> open,
                   trace |-> IF runbook THEN refreshes + 1 ELSE 0, version |-> 0]
  <2>1. /\ refreshes < MaxRefreshes /\ refreshes' = refreshes + 1
        /\ refresh' = [refresh EXCEPT ![p] = r] /\ UNCHANGED <<attentionNow, open, snapshots, row>>
      BY <1>8 DEF Attention!Project
  <2>2. r \in Refresh
    <3>1. (IF runbook THEN refreshes + 1 ELSE 0) \in 0..MaxRefreshes
        BY <1>0, <2>1, AttentionAssumption DEF AttentionTypes, Attention!AttentionAssumption
    <3> QED
        BY <1>0, <3>1 DEF AttentionTypes, Refresh
  <2>3. refreshes' \in Nat
      BY <1>0, <2>1 DEF AttentionTypes
  <2> HIDE DEF r
  <2> QED
      BY <1>7, <2>1, <2>2, <2>3
<1>9. ASSUME NEW p \in Process, Attention!Compare(p) PROVE AttentionInv'
  <2> DEFINE old == refresh[p]
             r == [old EXCEPT !.at = "differs"]
  <2>1. old \in Refresh
      BY <1>0 DEF AttentionTypes
  <2>2. r \in Refresh
    <3> HIDE DEF old
    <3> QED
        BY <2>1 DEF Refresh
  <2>3. /\ refresh' = [refresh EXCEPT ![p] = Attention!Idle] \/ refresh' = [refresh EXCEPT ![p] = r]
        /\ UNCHANGED <<attentionNow, open, snapshots, row, refreshes>>
    <3>1. CASE Attention!Unchanged(old)
        BY <1>9, <3>1 DEF Attention!Compare
    <3>2. CASE ~Attention!Unchanged(old)
        BY <1>9, <3>2 DEF Attention!Compare
    <3> QED
        BY <3>1, <3>2
  <2> HIDE DEF r
  <2> QED
      BY <1>0, <1>7, <2>2, <2>3, IdleRefresh DEF AttentionTypes
<1>10. ASSUME NEW p \in Process, Attention!Number(p) PROVE AttentionInv'
  <2> DEFINE old == refresh[p]
             v == Len(snapshots[old.scope]) + 1
             r1 == [old EXCEPT !.at = "numbered"]
             r == [r1 EXCEPT !.version = v]
  <2>1. old \in Refresh /\ v \in Nat
    <3>1. old \in Refresh
        BY <1>0 DEF AttentionTypes
    <3>2. old.scope \in Attention!Scope
        BY <3>1 DEF Refresh
    <3>3. snapshots[old.scope] \in Seq(Snapshot)
        BY <1>0, <3>2 DEF AttentionTypes
    <3> HIDE DEF old
    <3> QED
        BY <3>1, <3>3
  <2>2. r1 \in Refresh
    <3> HIDE DEF old
    <3> QED
        BY <2>1 DEF Refresh
  <2>3. r \in Refresh
    <3> HIDE DEF r1, v
    <3> QED
        BY <2>1, <2>2 DEF Refresh
  <2>4. refresh' = [refresh EXCEPT ![p] = r] /\ UNCHANGED <<attentionNow, open, snapshots, row, refreshes>>
    <3>1. /\ refresh' = [refresh EXCEPT ![p].at = "numbered", ![p].version = v]
          /\ UNCHANGED <<attentionNow, open, snapshots, row, refreshes>>
        BY <1>10 DEF Attention!Number
    <3>2. refresh \in [Process -> Refresh]
        BY <1>0 DEF AttentionTypes
    <3> HIDE DEF v
    <3>3. [refresh EXCEPT ![p].at = "numbered"] = [refresh EXCEPT ![p] = r1]
        BY <3>2
    <3>4. [refresh EXCEPT ![p].at = "numbered", ![p].version = v] =
                [[refresh EXCEPT ![p] = r1] EXCEPT ![p].version = v]
        BY <3>3
    <3> HIDE DEF r1
    <3>5. [[refresh EXCEPT ![p] = r1] EXCEPT ![p].version = v] = [refresh EXCEPT ![p] = r]
        BY <3>2
    <3> QED
        BY <3>1, <3>4, <3>5
  <2> HIDE DEF r
  <2> QED
      BY <1>0, <1>7, <2>3, <2>4 DEF AttentionTypes
<1>11. ASSUME NEW p \in Process, Attention!Abandon(p) PROVE AttentionInv'
  <2>1. refresh' = [refresh EXCEPT ![p] = Attention!Idle]
        /\ UNCHANGED <<attentionNow, open, snapshots, row, refreshes>>
      BY <1>11 DEF Attention!Abandon
  <2> QED
      BY <1>0, <1>7, <2>1, IdleRefresh DEF AttentionTypes
<1> QED
    BY <1>1, <1>2, <1>3, <1>4, <1>5, <1>6, <1>8, <1>9, <1>10, <1>11, SaveKeeps DEF Attention!Next
------------------------------------------------------------------------------
(* Alerts                                                                   *)

Kinds == {"health", "overdue_commitment", "scope", "margin", "stalled_review", "capacity",
          "campaign_anomaly", "feedback", "renewal", "expansion"}

AlertsTypes ==
    /\ detector \in Kinds
    /\ \A w \in Alerts!Workspace : alertsRecords[w] \subseteq Alerts!RecordsOf(detector)

AlertsInv ==
    AlertsTypes
    /\ item \in [status: {"open", "ready", "insufficient", "not_asked"}, workspace: 0..Workspaces]
    /\ Alerts!AlertsAreDeserved

LEMMA KindsAreDetectors == Alerts!Detector = Kinds
BY DEF Alerts!Detector, Alerts!Levels, Kinds

\* What an answer a tells of the records there are.
Tells(a) ==
    /\ a \in [status: {"open", "ready", "insufficient", "not_asked"}, workspace: 0..Workspaces]
    /\ a.status = "open" =>
        \E r \in IF detector = "capacity" THEN Alerts!All ELSE alertsRecords[a.workspace] :
            Alerts!Deserved(r)
    /\ a.status = "ready" /\ detector # "health" => \A r \in Alerts!All : ~Alerts!Deserved(r)
    /\ a.status = "insufficient" <=> Alerts!All = {}
    /\ a.status = "open" =>
        /\ detector = "scope" => Alerts!Highest(Alerts!All) \in alertsRecords[a.workspace]
        /\ detector = "margin" => Alerts!Lowest(Alerts!All) \in alertsRecords[a.workspace]

Naming(ws) == Alerts!Open(Alerts!First(ws))

LEMMA FirstIs ==
    ASSUME NEW ws \in SUBSET Alerts!Workspace, ws # {}
    PROVE  Alerts!First(ws) \in ws
<1>1. ws \in SUBSET Nat /\ ws \in SUBSET (1..Workspaces)
    BY DetectorsAssumption DEF Alerts!Workspace, Alerts!DetectorsAssumption
<1>2. IsFiniteSet(1..Workspaces)
    BY FS_Interval, DetectorsAssumption DEF Alerts!DetectorsAssumption
<1>3. IsFiniteSet(ws)
    BY <1>1, <1>2, FS_Subset
<1>4. \E w \in ws : \A other \in ws : w <= other
    BY <1>1, <1>3, HasLeast
<1> QED
    BY <1>4 DEF Alerts!First

LEMMA NamingIs ==
    ASSUME NEW ws \in SUBSET Alerts!Workspace, ws # {}
    PROVE  /\ Naming(ws) \in [status: {"open", "ready", "insufficient", "not_asked"},
                              workspace: 0..Workspaces]
           /\ Naming(ws).status = "open" /\ Naming(ws).workspace \in ws
<1>1. Alerts!First(ws) \in ws /\ Alerts!First(ws) \in 0..Workspaces
  <2>1. Alerts!First(ws) \in ws
      BY FirstIs
  <2>2. Alerts!First(ws) \in 1..Workspaces
      BY <2>1 DEF Alerts!Workspace
  <2> QED
      BY <2>1, <2>2
<1> QED
    BY <1>1 DEF Naming, Alerts!Open

\* No record, or none that deserves an alert.
LEMMA QuietAnswers ==
    /\ Alerts!All = {} => Tells(Alerts!Insufficient)
    /\ Alerts!All # {} /\ (\A r \in Alerts!All : ~Alerts!Deserved(r)) => Tells(Alerts!Ready)
    /\ Alerts!All # {} /\ detector = "health" => Tells(Alerts!Ready)
<1>1. 0 \in 0..Workspaces
    BY DetectorsAssumption DEF Alerts!DetectorsAssumption
<1> QED
    BY <1>1 DEF Tells, Alerts!Insufficient, Alerts!Ready

\* An alert about the first of some workspaces that all deserve it.
LEMMA NamedAnswers ==
    ASSUME NEW ws \in SUBSET Alerts!Workspace, ws # {},
           \A w \in ws : \E r \in alertsRecords[w] : Alerts!Deserved(r),
           detector = "scope" => \A w \in ws : Alerts!Highest(Alerts!All) \in alertsRecords[w],
           detector = "margin" => \A w \in ws : Alerts!Lowest(Alerts!All) \in alertsRecords[w]
    PROVE  Tells(Naming(ws))
<1>1. /\ Naming(ws) \in [status: {"open", "ready", "insufficient", "not_asked"},
                         workspace: 0..Workspaces]
      /\ Naming(ws).status = "open" /\ Naming(ws).workspace \in ws
    BY NamingIs
<1>2. Alerts!All # {}
  <2>1. Naming(ws).workspace \in Alerts!Workspace
        /\ \E r \in alertsRecords[Naming(ws).workspace] : Alerts!Deserved(r)
      BY <1>1
  <2> QED
      BY <2>1 DEF Alerts!All
<1>3. \E r \in IF detector = "capacity" THEN Alerts!All ELSE alertsRecords[Naming(ws).workspace] :
        Alerts!Deserved(r)
  <2>1. PICK r \in alertsRecords[Naming(ws).workspace] : Alerts!Deserved(r)
      BY <1>1
  <2>2. r \in Alerts!All
      BY <1>1, <2>1 DEF Alerts!All
  <2> QED
      BY <2>1, <2>2
<1> QED
    BY <1>1, <1>2, <1>3 DEF Tells

LEMMA RecordsThere ==
    /\ Alerts!All = {} <=> Alerts!Sources = {}
    /\ \A r \in Alerts!All : \E w \in Alerts!Workspace : r \in alertsRecords[w]
    /\ AlertsTypes => Alerts!All \subseteq Alerts!RecordsOf(detector)
BY DEF Alerts!All, Alerts!Sources, AlertsTypes

\* The workspaces with a record that deserves an alert.
Deserving == {w \in Alerts!Workspace : \E r \in alertsRecords[w] : Alerts!Deserved(r)}

\* The detectors that take the first workspace with a record beyond their threshold.
LEMMA FirstBeyondTells ==
    ASSUME detector \notin {"scope", "margin"},
           NEW a, a = IF Alerts!Sources = {} THEN Alerts!Insufficient
                      ELSE IF Deserving = {} THEN Alerts!Ready ELSE Naming(Deserving)
    PROVE  Tells(a)
<1>1. CASE Alerts!Sources = {}
    BY <1>1, RecordsThere, QuietAnswers
<1>2. CASE Alerts!Sources # {} /\ Deserving = {}
  <2>1. \A r \in Alerts!All : ~Alerts!Deserved(r)
      BY <1>2, RecordsThere DEF Deserving
  <2> QED
      BY <1>2, <2>1, RecordsThere, QuietAnswers
<1>3. CASE Alerts!Sources # {} /\ Deserving # {}
  <2>1. Deserving \in SUBSET Alerts!Workspace
        /\ \A w \in Deserving : \E r \in alertsRecords[w] : Alerts!Deserved(r)
      BY DEF Deserving
  <2> QED
      BY <1>3, <2>1, NamedAnswers
<1> QED
    BY <1>1, <1>2, <1>3

\* The detectors that look at the extreme value v: it decides for all.
LEMMA ExtremeTells ==
    ASSUME NEW v, NEW a, Alerts!All # {} => v \in Alerts!All,
           detector = "scope" => v = Alerts!Highest(Alerts!All),
           detector = "margin" => v = Alerts!Lowest(Alerts!All),
           ~Alerts!Deserved(v) => \A r \in Alerts!All : ~Alerts!Deserved(r),
           a = IF Alerts!All = {} THEN Alerts!Insufficient
               ELSE IF Alerts!Deserved(v) THEN Alerts!Open(Alerts!From(v)) ELSE Alerts!Ready
    PROVE  Tells(a)
<1>1. CASE Alerts!All = {}
    BY <1>1, QuietAnswers
<1>2. CASE Alerts!All # {} /\ ~Alerts!Deserved(v)
    BY <1>2, QuietAnswers
<1>3. CASE Alerts!All # {} /\ Alerts!Deserved(v)
  <2> DEFINE ws == {w \in Alerts!Workspace : v \in alertsRecords[w]}
  <2>1. a = Naming(ws)
      BY <1>3 DEF Naming, Alerts!From
  <2>2. ws \in SUBSET Alerts!Workspace /\ ws # {} /\ \A w \in ws : v \in alertsRecords[w]
      BY <1>3, RecordsThere
  <2> HIDE DEF ws
  <2>3. \A w \in ws : \E r \in alertsRecords[w] : Alerts!Deserved(r)
      BY <1>3, <2>2
  <2> QED
      BY <2>1, <2>2, <2>3, NamedAnswers
<1> QED
    BY <1>1, <1>2, <1>3

LEMMA HealthTells == AlertsTypes /\ detector = "health" => Tells(Alerts!DetectHealth)
<1> SUFFICES ASSUME AlertsTypes, detector = "health" PROVE Tells(Alerts!DetectHealth)
    OBVIOUS
<1> DEFINE scores == {r.overall : r \in Alerts!All}
           lowest == Alerts!Lowest(scores)
           ws == {v \in Alerts!Sources : \E r \in alertsRecords[v] : r.overall = lowest}
           w == Alerts!First(ws)
           worst == CHOOSE r \in alertsRecords[w] : r.overall = lowest
<1>1. CASE Alerts!All = {}
    BY <1>1, QuietAnswers DEF Alerts!DetectHealth
<1>2. CASE Alerts!All # {}
  <2>1. \A r \in Alerts!All : r.overall \in {60, 79, 80, 90}
      BY RecordsThere DEF Alerts!RecordsOf, Alerts!Health
  <2>2. scores \subseteq {60, 79, 80, 90} /\ scores # {}
      BY <1>2, <2>1
  <2>3. \E v \in scores : \A other \in scores : v <= other
    <3> HIDE DEF scores
    <3>1. CASE 60 \in scores
        BY <2>2, <3>1
    <3>2. CASE 60 \notin scores /\ 79 \in scores
        BY <2>2, <3>2
    <3>3. CASE 60 \notin scores /\ 79 \notin scores /\ 80 \in scores
        BY <2>2, <3>3
    <3>4. CASE 60 \notin scores /\ 79 \notin scores /\ 80 \notin scores
      <4>0. \E b : b \in scores
          BY <2>2
      <4>1. \A b \in scores : b = 90
          BY <2>2, <3>4
      <4>2. 90 \in scores
        <5>1. PICK b : b \in scores
            BY <4>0
        <5> QED
            BY <4>1, <5>1
      <4> QED
          BY <4>1, <4>2
    <3> QED
        BY <3>1, <3>2, <3>3, <3>4
  <2>4. lowest \in scores
      BY <2>3 DEF Alerts!Lowest
  <2>5. PICK r \in Alerts!All : r.overall = lowest
      BY <2>4
  <2>6. ws \in SUBSET Alerts!Workspace /\ ws # {}
    <3>1. PICK v \in Alerts!Workspace : r \in alertsRecords[v]
        BY RecordsThere
    <3> QED
        BY <2>5, <3>1 DEF Alerts!Sources
  <2>7. w \in ws
    <3> HIDE DEF ws
    <3> QED
        BY <2>6, FirstIs
  <2>8. worst \in alertsRecords[w]
      BY <2>7
  <2>9. Alerts!DetectHealth =
            IF worst.overall < 80 \/ worst.drop >= 5 \/ worst.down THEN Naming(ws) ELSE Alerts!Ready
      BY <1>2 DEF Alerts!DetectHealth, Naming
  <2> HIDE DEF worst, w, ws
  <2>10. CASE worst.overall < 80 \/ worst.drop >= 5 \/ worst.down
    <3>1. Alerts!Deserved(worst)
        BY <2>10 DEF Alerts!Deserved
    <3>2. {w} \in SUBSET Alerts!Workspace
        BY <2>6, <2>7
    <3>3. /\ Naming(ws) \in [status: {"open", "ready", "insufficient", "not_asked"},
                             workspace: 0..Workspaces]
          /\ Naming(ws).status = "open" /\ Naming(ws).workspace = w
        BY <2>6, <2>7, NamingIs DEF Naming, Alerts!Open, w
    <3> QED
        BY <1>2, <2>8, <2>9, <2>10, <3>1, <3>3 DEF Tells
  <2>11. CASE ~(worst.overall < 80 \/ worst.drop >= 5 \/ worst.down)
      BY <1>2, <2>9, <2>11, QuietAnswers
  <2> QED
      BY <2>10, <2>11
<1> QED
    BY <1>1, <1>2

LEMMA ScopeTells == AlertsTypes /\ detector = "scope" => Tells(Alerts!DetectScope)
<1> SUFFICES ASSUME AlertsTypes, detector = "scope" PROVE Tells(Alerts!DetectScope)
    OBVIOUS
<1> DEFINE S == Alerts!All
           v == Alerts!Highest(S)
<1>1. S \subseteq {50, 90, 91, 120}
    BY RecordsThere DEF Alerts!RecordsOf, Alerts!Levels
<1>2. S # {} => \E a \in S : \A b \in S : a >= b
  <2> HIDE DEF S
  <2>1. CASE 120 \in S
      BY <1>1, <2>1
  <2>2. CASE 120 \notin S /\ 91 \in S
      BY <1>1, <2>2
  <2>3. CASE 120 \notin S /\ 91 \notin S /\ 90 \in S
      BY <1>1, <2>3
  <2>4. CASE 120 \notin S /\ 91 \notin S /\ 90 \notin S
    <3> SUFFICES ASSUME S # {} PROVE \E a \in S : \A b \in S : a >= b
        OBVIOUS
    <3>0. \E b : b \in S
        OBVIOUS
    <3>1. \A b \in S : b = 50
        BY <1>1, <2>4
    <3>2. 50 \in S
        BY <3>0, <3>1
    <3> QED
        BY <3>1, <3>2
  <2> QED
      BY <2>1, <2>2, <2>3, <2>4
<1>3. S # {} => v \in S /\ \A b \in S : v >= b
  <2> HIDE DEF S
  <2> QED
      BY <1>2 DEF Alerts!Highest
<1>4. Alerts!Deserved(v) <=> v > 90
    BY DEF Alerts!Deserved
<1>5. \A b : Alerts!Deserved(b) <=> b > 90
    BY DEF Alerts!Deserved
<1>6. Alerts!DetectScope = IF S = {} THEN Alerts!Insufficient
                           ELSE IF Alerts!Deserved(v) THEN Alerts!Open(Alerts!From(v))
                           ELSE Alerts!Ready
    BY <1>4 DEF Alerts!DetectScope
<1>7. ~Alerts!Deserved(v) => \A r \in S : ~Alerts!Deserved(r)
  <2> SUFFICES ASSUME NEW r \in S, ~Alerts!Deserved(v) PROVE ~Alerts!Deserved(r)
      OBVIOUS
  <2>1. v \in S /\ v >= r
    <3>1. S # {}
        OBVIOUS
    <3> HIDE DEF S, v
    <3> QED
        BY <1>3, <3>1
  <2> HIDE DEF S, v
  <2>2. v \in Int /\ r \in Int
      BY <1>1, <2>1
  <2> QED
      BY <1>5, <2>1, <2>2
<1>8. v = Alerts!Highest(Alerts!All)
    OBVIOUS
<1> HIDE DEF v
<1> QED
    BY <1>3, <1>6, <1>7, <1>8, ExtremeTells

LEMMA LowestOf ==
    ASSUME NEW S, S # {},
           \/ S \subseteq {-10, 24, 25, 40} \/ S \subseteq {-1, 0, 5} \/ S \subseteq {0, 60}
    PROVE  Alerts!Lowest(S) \in S /\ \A b \in S : Alerts!Lowest(S) <= b
<1>1. \E a \in S : \A b \in S : a <= b
  <2>1. CASE S \subseteq {-10, 24, 25, 40}
    <3>1. CASE -10 \in S
        BY <2>1, <3>1
    <3>2. CASE -10 \notin S /\ 24 \in S
        BY <2>1, <3>2
    <3>3. CASE -10 \notin S /\ 24 \notin S /\ 25 \in S
        BY <2>1, <3>3
    <3>4. CASE -10 \notin S /\ 24 \notin S /\ 25 \notin S
      <4>0. \E b : b \in S
          OBVIOUS
      <4>1. \A b \in S : b = 40
          BY <2>1, <3>4
      <4>2. 40 \in S
        <5>1. PICK b : b \in S
            BY <4>0
        <5> QED
            BY <4>1, <5>1
      <4> QED
          BY <4>1, <4>2
    <3> QED
        BY <3>1, <3>2, <3>3, <3>4
  <2>2. CASE S \subseteq {-1, 0, 5}
    <3>1. CASE -1 \in S
        BY <2>2, <3>1
    <3>2. CASE -1 \notin S /\ 0 \in S
        BY <2>2, <3>2
    <3>3. CASE -1 \notin S /\ 0 \notin S
      <4>0. \E b : b \in S
          OBVIOUS
      <4>1. \A b \in S : b = 5
          BY <2>2, <3>3
      <4>2. 5 \in S
        <5>1. PICK b : b \in S
            BY <4>0
        <5> QED
            BY <4>1, <5>1
      <4> QED
          BY <4>1, <4>2
    <3> QED
        BY <3>1, <3>2, <3>3
  <2>3. CASE S \subseteq {0, 60}
    <3>1. CASE 0 \in S
        BY <2>3, <3>1
    <3>2. CASE 0 \notin S
      <4>0. \E b : b \in S
          OBVIOUS
      <4>1. \A b \in S : b = 60
          BY <2>3, <3>2
      <4>2. 60 \in S
        <5>1. PICK b : b \in S
            BY <4>0
        <5> QED
            BY <4>1, <5>1
      <4> QED
          BY <4>1, <4>2
    <3> QED
        BY <3>1, <3>2
  <2> QED
      BY <2>1, <2>2, <2>3
<1> QED
    BY <1>1 DEF Alerts!Lowest

LEMMA MarginTells == AlertsTypes /\ detector = "margin" => Tells(Alerts!DetectMargin)
<1> SUFFICES ASSUME AlertsTypes, detector = "margin" PROVE Tells(Alerts!DetectMargin)
    OBVIOUS
<1> DEFINE S == Alerts!All
           v == Alerts!Lowest(S)
<1>1. S \subseteq {-10, 24, 25, 40}
    BY RecordsThere DEF Alerts!RecordsOf, Alerts!Levels
<1>2. S # {} => v \in S /\ \A b \in S : v <= b
    BY <1>1, LowestOf
<1>3. \A b : Alerts!Deserved(b) <=> b < 25
    BY DEF Alerts!Deserved
<1>4. Alerts!DetectMargin = IF S = {} THEN Alerts!Insufficient
                            ELSE IF Alerts!Deserved(v) THEN Alerts!Open(Alerts!From(v))
                            ELSE Alerts!Ready
    BY <1>3 DEF Alerts!DetectMargin
<1>5. ~Alerts!Deserved(v) => \A r \in S : ~Alerts!Deserved(r)
  <2> SUFFICES ASSUME NEW r \in S, ~Alerts!Deserved(v) PROVE ~Alerts!Deserved(r)
      OBVIOUS
  <2>1. v \in S /\ v <= r
    <3>1. S # {}
        OBVIOUS
    <3> HIDE DEF S, v
    <3> QED
        BY <1>2, <3>1
  <2> HIDE DEF S, v
  <2>2. v \in Int /\ r \in Int
      BY <1>1, <2>1
  <2> QED
      BY <1>3, <2>1, <2>2
<1>6. v = Alerts!Lowest(Alerts!All)
    OBVIOUS
<1> HIDE DEF v
<1> QED
    BY <1>2, <1>4, <1>5, <1>6, ExtremeTells

LEMMA CapacityTells == AlertsTypes /\ detector = "capacity" => Tells(Alerts!DetectCapacity)
<1> SUFFICES ASSUME AlertsTypes, detector = "capacity" PROVE Tells(Alerts!DetectCapacity)
    OBVIOUS
<1> DEFINE S == Alerts!All
           v == Alerts!Lowest(S)
<1>1. S \subseteq {-1, 0, 5}
    BY RecordsThere DEF Alerts!RecordsOf, Alerts!Levels
<1>2. S # {} => v \in S /\ \A b \in S : v <= b
    BY <1>1, LowestOf
<1>3. \A b : Alerts!Deserved(b) <=> b < 0
    BY DEF Alerts!Deserved
<1>4. Alerts!DetectCapacity = IF S = {} THEN Alerts!Insufficient
                              ELSE IF Alerts!Deserved(v) THEN Alerts!Open(0) ELSE Alerts!Ready
    BY <1>3 DEF Alerts!DetectCapacity
<1>5. ~Alerts!Deserved(v) => \A r \in S : ~Alerts!Deserved(r)
  <2> SUFFICES ASSUME NEW r \in S, ~Alerts!Deserved(v) PROVE ~Alerts!Deserved(r)
      OBVIOUS
  <2>1. v \in S /\ v <= r
    <3>1. S # {}
        OBVIOUS
    <3> HIDE DEF S, v
    <3> QED
        BY <1>2, <3>1
  <2> HIDE DEF S, v
  <2>2. v \in Int /\ r \in Int
      BY <1>1, <2>1
  <2> QED
      BY <1>3, <2>1, <2>2
<1> HIDE DEF v
<1>6. CASE S = {}
    BY <1>4, <1>6, QuietAnswers
<1>7. CASE S # {} /\ ~Alerts!Deserved(v)
    BY <1>4, <1>5, <1>7, QuietAnswers
<1>8. CASE S # {} /\ Alerts!Deserved(v)
  <2>1. Alerts!DetectCapacity = Alerts!Open(0) /\ v \in S /\ S # {}
      BY <1>2, <1>4, <1>8
  <2>2. \E r \in S : Alerts!Deserved(r)
      BY <1>8, <2>1
  <2>3. 0 \in 0..Workspaces
      BY DetectorsAssumption DEF Alerts!DetectorsAssumption
  <2>4. Alerts!Open(0) = [status |-> "open", workspace |-> 0]
      BY DEF Alerts!Open
  <2>5. Tells(Alerts!Open(0))
      BY <2>1, <2>2, <2>3, <2>4 DEF Tells
  <2> QED
      BY <2>1, <2>5
<1> QED
    BY <1>6, <1>7, <1>8

LEMMA RenewalTells == AlertsTypes /\ detector = "renewal" => Tells(Alerts!DetectRenewal)
<1> SUFFICES ASSUME AlertsTypes, detector = "renewal" PROVE Tells(Alerts!DetectRenewal)
    OBVIOUS
<1> DEFINE S == Alerts!All
           due == {days \in S : days \in 0..60}
           v == IF due = {} THEN CHOOSE r \in S : TRUE ELSE Alerts!Lowest(due)
<1>1. S \subseteq {-1, 0, 60, 61}
    BY RecordsThere DEF Alerts!RecordsOf, Alerts!Levels
<1>2. due \subseteq {0, 60} /\ due \subseteq S
    BY <1>1
<1>3. \A b : Alerts!Deserved(b) <=> b \in 0..60
    BY DEF Alerts!Deserved
<1>4. due # {} => Alerts!Lowest(due) \in due
  <2> HIDE DEF due
  <2> QED
      BY <1>2, LowestOf
<1>5. S # {} => v \in S
    BY <1>2, <1>4
<1>6. \A b \in due : Alerts!Deserved(b)
    BY <1>3
<1>7. \A b \in S : Alerts!Deserved(b) => b \in due
    BY <1>3
<1>8. Alerts!DetectRenewal = IF S = {} THEN Alerts!Insufficient ELSE IF due = {} THEN Alerts!Ready
                             ELSE Alerts!Open(Alerts!From(Alerts!Lowest(due)))
    BY DEF Alerts!DetectRenewal
<1> HIDE DEF due
<1>9. S # {} => (Alerts!Deserved(v) <=> due # {})
    BY <1>4, <1>5, <1>6, <1>7
<1>10. Alerts!DetectRenewal = IF S = {} THEN Alerts!Insufficient
                              ELSE IF Alerts!Deserved(v) THEN Alerts!Open(Alerts!From(v))
                              ELSE Alerts!Ready
    BY <1>8, <1>9
<1>11. ~Alerts!Deserved(v) => \A r \in S : ~Alerts!Deserved(r)
    BY <1>7, <1>9
<1> HIDE DEF v
<1> QED
    BY <1>5, <1>10, <1>11, ExtremeTells

LEMMA AnswerTells == AlertsTypes => Tells(Alerts!Answer)
<1> SUFFICES ASSUME AlertsTypes PROVE Tells(Alerts!Answer)
    OBVIOUS
<1> DEFINE named == IF Alerts!Sources = {} THEN Alerts!Insufficient
                    ELSE IF Deserving = {} THEN Alerts!Ready ELSE Naming(Deserving)
<1>1. CASE detector = "health"
    BY <1>1, HealthTells DEF Alerts!Answer
<1>2. CASE detector = "scope"
    BY <1>2, ScopeTells DEF Alerts!Answer
<1>3. CASE detector = "margin"
    BY <1>3, MarginTells DEF Alerts!Answer
<1>4. CASE detector = "capacity"
    BY <1>4, CapacityTells DEF Alerts!Answer
<1>5. CASE detector = "renewal"
    BY <1>5, RenewalTells DEF Alerts!Answer
<1>6. CASE detector = "overdue_commitment"
  <2>1. Deserving = {w \in Alerts!Workspace : \E days \in alertsRecords[w] : days > 0}
      BY <1>6 DEF Deserving, Alerts!Deserved
  <2>2. Alerts!Answer = named
      BY <1>6, <2>1 DEF Alerts!Answer, Alerts!DetectOverdue, Alerts!FirstBeyond, Naming
  <2> QED
      BY <1>6, <2>2, FirstBeyondTells
<1>7. CASE detector = "stalled_review"
  <2>1. Deserving = {w \in Alerts!Workspace : \E hours \in alertsRecords[w] : hours > 48}
      BY <1>7 DEF Deserving, Alerts!Deserved
  <2>2. Alerts!Answer = named
      BY <1>7, <2>1 DEF Alerts!Answer, Alerts!DetectReview, Alerts!FirstBeyond, Naming
  <2> QED
      BY <1>7, <2>2, FirstBeyondTells
<1>8. CASE detector = "campaign_anomaly"
  <2>1. Deserving = {w \in Alerts!Workspace : \E severity \in alertsRecords[w] : severity > 0}
      BY <1>8 DEF Deserving, Alerts!Deserved
  <2>2. Alerts!Answer = named
      BY <1>8, <2>1 DEF Alerts!Answer, Alerts!DetectAnomaly, Alerts!FirstBeyond, Naming
  <2> QED
      BY <1>8, <2>2, FirstBeyondTells
<1>9. CASE detector = "feedback"
  <2>1. Deserving = {w \in Alerts!Workspace : \E times \in alertsRecords[w] : times >= 2}
      BY <1>9 DEF Deserving, Alerts!Deserved
  <2>2. Alerts!Answer = named
      BY <1>9, <2>1 DEF Alerts!Answer, Alerts!DetectFeedback, Alerts!FirstBeyond, Naming
  <2> QED
      BY <1>9, <2>2, FirstBeyondTells
<1>10. CASE detector = "expansion"
  <2>1. Deserving = {w \in Alerts!Workspace : \E value \in alertsRecords[w] : value > 0}
      BY <1>10 DEF Deserving, Alerts!Deserved
  <2>2. Alerts!Answer = named
      BY <1>10, <2>1 DEF Alerts!Answer, Alerts!DetectExpansion, Alerts!FirstBeyond, Naming
  <2> QED
      BY <1>10, <2>2, FirstBeyondTells
<1> QED
    BY <1>1, <1>2, <1>3, <1>4, <1>5, <1>6, <1>7, <1>8, <1>9, <1>10 DEF AlertsTypes, Kinds

LEMMA AlertsInit == Alerts!Init => AlertsInv
<1> SUFFICES ASSUME Alerts!Init PROVE AlertsInv
    OBVIOUS
<1>1. detector \in Kinds /\ item = Alerts!NotAsked
    BY KindsAreDetectors DEF Alerts!Init
<1>2. \A w \in Alerts!Workspace : alertsRecords[w] \subseteq Alerts!RecordsOf(detector)
    BY DEF Alerts!Init
<1>3. item \in [status: {"open", "ready", "insufficient", "not_asked"}, workspace: 0..Workspaces]
    BY <1>1, DetectorsAssumption DEF Alerts!NotAsked, Alerts!DetectorsAssumption
<1> QED
    BY <1>1, <1>2, <1>3 DEF AlertsInv, AlertsTypes, Alerts!AlertsAreDeserved

LEMMA AlertsStep == AlertsInv /\ [Alerts!Next]_AlertsVars => AlertsInv'
<1> SUFFICES ASSUME AlertsInv, [Alerts!Next]_AlertsVars PROVE AlertsInv'
    OBVIOUS
<1>1. CASE UNCHANGED AlertsVars
  <2>1. detector' = detector /\ alertsRecords' = alertsRecords /\ item' = item
      BY <1>1 DEF AlertsVars
  <2>2. Alerts!All' = Alerts!All /\ \A r : Alerts!Deserved(r)' <=> Alerts!Deserved(r)
      BY <2>1 DEF Alerts!All, Alerts!Deserved
  <2>3. AlertsTypes'
      BY <2>1 DEF AlertsInv, AlertsTypes
  <2>4. Alerts!AlertsAreDeserved'
      BY <2>1, <2>2 DEF AlertsInv, Alerts!AlertsAreDeserved
  <2> QED
      BY <2>1, <2>3, <2>4 DEF AlertsInv
<1>2. CASE Alerts!Next
  <2>1. item' = Alerts!Answer /\ UNCHANGED <<detector, alertsRecords>> /\ AlertsTypes
      BY <1>2 DEF Alerts!Next, Alerts!Detect, AlertsInv
  <2>2. Tells(item')
      BY <2>1, AnswerTells
  <2>3. AlertsTypes' /\ Alerts!All' = Alerts!All
      BY <2>1 DEF AlertsTypes, Alerts!All
  <2>4. \A r : Alerts!Deserved(r)' <=> Alerts!Deserved(r)
      BY <2>1 DEF Alerts!Deserved
  <2> QED
      BY <2>1, <2>2, <2>3, <2>4 DEF AlertsInv, Tells, Alerts!AlertsAreDeserved
<1> QED
    BY <1>1, <1>2

\* An open alert names a workspace with a record that deserves it, and no workspace is worse
\* off than the one that scope and margin name; a finding has an attention row in a scope
\* exactly when a snapshot of the scope shows it, and the row refers to the last of these.
THEOREM AlertsHoldAlways == SideBySide => []AlertsHold
<1> DEFINE Inv == /\ part = "alerts" => AlertsInv
                  /\ part = "attention" => AttentionInv
<1>1. StartAll => Inv
    BY AlertsInit, AttentionInit DEF StartAll
<1>2. Inv /\ [StepOne]_allVars => Inv'
  <2> SUFFICES ASSUME Inv, [StepOne]_allVars PROVE Inv'
      OBVIOUS
  <2>1. ASSUME part' = "alerts" PROVE AlertsInv'
    <3>1. part = "alerts" /\ [Alerts!Next]_AlertsVars
        BY <2>1 DEF StepOne, allVars
    <3> QED
        BY <3>1, AlertsStep
  <2>2. ASSUME part' = "attention" PROVE AttentionInv'
    <3>1. part = "attention" /\ [Attention!Next]_AttentionVars
        BY <2>2 DEF StepOne, allVars
    <3> QED
        BY <3>1, AttentionStep
  <2> QED
      BY <2>1, <2>2
<1>3. Inv => AlertsHold
  <2> SUFFICES ASSUME Inv PROVE AlertsHold
      OBVIOUS
  <2>1. CASE part = "alerts"
      BY <2>1, KindsAreDetectors DEF AlertsHold, AlertsInv, AlertsTypes, Alerts!TypeOK
  <2>2. CASE part = "attention"
      BY <2>2, AttentionConclude DEF AlertsHold
  <2> QED
      BY <2>1, <2>2 DEF AlertsHold
<1> QED
    BY <1>1, <1>2, <1>3, PTL DEF SideBySide
=============================================================================
