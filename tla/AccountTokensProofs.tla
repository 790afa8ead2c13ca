------------------------ MODULE AccountTokensProofs ------------------------
(***************************************************************************)
(* Theorems about AccountTokens, for every set of tokens and listings and  *)
(* any number of goroutines: the types, that the defaults never outnumber  *)
(* the goroutines, that calls which do not overlap leave one default and   *)
(* no token twice, and that an undisturbed call saves its token.           *)
(***************************************************************************)
EXTENDS AccountTokens, FiniteSetTheorems, SequenceTheorems, TLAPS

WriterState == [pc : {"idle", "find", "renew", "count", "insert", "copy"},
                todo : Seq(Token), found : 0..MaxId, first : BOOLEAN]

\* Ids are given in order.
IdsBelow == \A r \in rows : r.id < nextId

\* A call at work has a token to create.
HasToken == \A w \in Writer : Busy(w) => writer[w].todo # <<>>

\* What an undisturbed call knows of the table is still so: the row it found
\* is there, its token is not there, no row is there.
FoundStored ==
    \A w \in Writer \ disturbed : writer[w].pc = "renew" => Same(w) # {}
NotFoundMissing ==
    ~raced /\ ~failed =>
        \A w \in Writer \ disturbed :
            /\ writer[w].pc \in {"count", "insert"} => Same(w) = {}
            /\ writer[w].pc = "insert" /\ writer[w].first => rows = {}

Inv == TypeOK /\ IsFiniteSet(rows) /\ IdsBelow /\ HasToken /\ FoundStored /\ NotFoundMissing
       /\ SerialTokens /\ DefaultsBounded
-----------------------------------------------------------------------------
LEMMA WriterTyped ==
    ASSUME TypeOK, NEW w \in Writer
    PROVE  /\ writer \in [Writer -> WriterState]
           /\ writer[w] \in WriterState
           /\ raced \in BOOLEAN /\ failed \in BOOLEAN
  BY DEF TypeOK, WriterState

\* The token at work, and what is left when it is done.
LEMMA TodoTyped ==
    ASSUME NEW s \in Seq(Token), s # <<>>
    PROVE  /\ Head(s) \in Token
           /\ Len(s) # 1 => Tail(s) \in Seq(Token) /\ Tail(s) # <<>>
<1>1. Head(s) \in Token /\ Tail(s) \in Seq(Token) /\ Len(Tail(s)) = Len(s) - 1
  BY HeadTailProperties
<1>2. Len(s) \in Nat
  BY LenProperties
<1>3. Len(s) # 1 => Tail(s) # <<>>
  <2>1. Len(<<>>) = 0
    BY EmptySeq
  <2>2. ASSUME Tail(s) = <<>>
        PROVE  Len(s) - 1 = 0
    BY <1>1, <2>1, <2>2
  <2>3. QED
    BY <1>2, <2>2
<1>4. QED
  BY <1>1, <1>3

\* preferredApiToken returns a listed token or the one fetched before.
LEMMA PreferredTyped ==
    ASSUME NEW list \in Listing, NEW t \in Token \cup {Nil}
    PROVE  PreferredApiToken(t, list) \subseteq Token \cup {Nil}
<1>1. list \in Seq(Upstream)
  BY ListingTyped
<1>2. \A i \in DOMAIN list : list[i] \in Upstream
  BY <1>1, LenProperties, ElementOfSeq
<1>3. QED
  BY <1>2 DEF PreferredApiToken, Upstream

\* A call for the tokens s begins.
LEMMA FreshTyped ==
    ASSUME NEW s \in Seq(Token)
    PROVE  /\ Idle \in WriterState /\ Idle.pc = "idle"
           /\ [Idle EXCEPT !.pc = "find", !.todo = s] \in WriterState
           /\ [Idle EXCEPT !.pc = "find", !.todo = s].pc = "find"
           /\ [Idle EXCEPT !.pc = "find", !.todo = s].todo = s
<1>1. Idle \in WriterState /\ Idle.pc = "idle"
  BY BoundTyped, EmptySeq DEF Idle, WriterState
<1>2. QED
  BY <1>1 DEF WriterState

LEMMA DefaultFinite ==
    ASSUME IsFiniteSet(rows)
    PROVE  IsFiniteSet(Default) /\ Cardinality(Default) \in Nat
  BY FS_Subset, FS_CardinalityType DEF Default

LEMMA InsertingFinite ==
    /\ Inserting \subseteq Writer
    /\ IsFiniteSet(Inserting) /\ Cardinality(Inserting) \in Nat
    /\ Cardinality(Inserting) <= Cardinality(Writer) /\ Cardinality(Writer) \in Nat
  BY WriterFinite, FS_Subset, FS_CardinalityType DEF Inserting
-----------------------------------------------------------------------------
\* A step of one writer that leaves the table alone: its next state n is typed,
\* keeps its hold on the table, and is a first insert only of an empty table;
\* no disturbance of another writer is forgotten.
LEMMA MoveKeeps ==
    ASSUME Inv, NEW w \in Writer, NEW n \in WriterState,
           writer' = [writer EXCEPT ![w] = n],
           UNCHANGED <<rows, nextId>>,
           apiToken' \in Token \cup {Nil},
           disturbed' \subseteq Writer,
           \A v \in Writer \ {w} : Busy(v) /\ v \in disturbed => v \in disturbed',
           raced' \in BOOLEAN, failed' \in BOOLEAN, raced => raced', failed => failed',
           n.pc # "idle" => n.todo # <<>>,
           n.pc = "renew" /\ w \notin disturbed' => \E r \in rows : r.token = Head(n.todo),
           ~raced' /\ ~failed' /\ w \notin disturbed' /\ n.pc \in {"count", "insert"}
              => \A r \in rows : r.token # Head(n.todo),
           ~failed' /\ n.pc = "insert" /\ n.first => rows = {}
    PROVE  Inv'
<1>1. writer \in [Writer -> WriterState]
  BY WriterTyped DEF Inv
<1>2. /\ writer'[w] = n
      /\ \A v \in Writer \ {w} : writer'[v] = writer[v]
      /\ writer' \in [Writer -> WriterState]
  BY <1>1
<1>3. TypeOK'
  BY <1>2 DEF Inv, TypeOK, WriterState
<1>4. IsFiniteSet(rows)' /\ IdsBelow'
  BY DEF Inv, IdsBelow
<1>5. HasToken'
  BY <1>2 DEF Inv, HasToken, Busy
<1>6. FoundStored'
  <2> SUFFICES ASSUME NEW v \in Writer, v \notin disturbed', writer'[v].pc = "renew"
               PROVE  \E r \in rows : r.token = Head(writer'[v].todo)
    BY DEF FoundStored, Same, Now
  <2>1. CASE v = w
    BY <1>2, <2>1
  <2>2. CASE v # w
    BY <1>2, <2>2 DEF Inv, FoundStored, Same, Now, Busy
  <2>3. QED
    BY <2>1, <2>2
<1>7. NotFoundMissing'
  <2> SUFFICES ASSUME ~raced', ~failed', NEW v \in Writer, v \notin disturbed'
               PROVE  /\ writer'[v].pc \in {"count", "insert"} =>
                            \A r \in rows : r.token # Head(writer'[v].todo)
                      /\ writer'[v].pc = "insert" /\ writer'[v].first => rows = {}
    BY DEF NotFoundMissing, Same, Now
  <2>1. CASE v = w
    BY <1>2, <2>1
  <2>2. CASE v # w
    BY <1>2, <2>2 DEF Inv, NotFoundMissing, Same, Now, Busy
  <2>3. QED
    BY <2>1, <2>2
<1>8. SerialTokens'
  BY DEF Inv, SerialTokens, Default
<1>9. DefaultsBounded'
  <2> SUFFICES ASSUME ~failed'
               PROVE  Cardinality(Default) + Cardinality(Inserting') <= Cardinality(Writer)
    BY DEF DefaultsBounded, Default
  <2>1. Cardinality(Default) + Cardinality(Inserting) <= Cardinality(Writer)
    BY DEF Inv, DefaultsBounded
  <2>2. Inserting' \subseteq Writer
    BY DEF Inserting
  <2>3. CASE n.pc = "insert" /\ n.first
    <3>1. Default = {}
      BY <2>3 DEF Default
    <3>2. Cardinality(Inserting') <= Cardinality(Writer) /\ Cardinality(Inserting') \in Nat
      BY <2>2, WriterFinite, FS_Subset, FS_CardinalityType
    <3>3. QED
      BY <3>1, <3>2, FS_EmptySet
  <2>4. CASE ~(n.pc = "insert" /\ n.first)
    <3>1. Inserting' \subseteq Inserting
      BY <1>2, <2>4 DEF Inserting
    <3>2. Cardinality(Inserting') <= Cardinality(Inserting) /\ Cardinality(Inserting') \in Nat
      BY <3>1, InsertingFinite, FS_Subset, FS_CardinalityType
    <3>3. QED
      BY <2>1, <3>2, InsertingFinite, DefaultFinite DEF Inv
  <2>5. QED
    BY <2>3, <2>4
<1>10. QED
  BY <1>3, <1>4, <1>5, <1>6, <1>7, <1>8, <1>9 DEF Inv

\* After the call for one token: the next call, or the writer is idle.
After(w) == IF Len(writer[w].todo) = 1 THEN Idle
            ELSE [Idle EXCEPT !.pc = "find", !.todo = Tail(writer[w].todo)]

LEMMA AfterTyped ==
    ASSUME Inv, NEW w \in Writer, Busy(w)
    PROVE  /\ After(w) \in WriterState
           /\ After(w).pc \in {"idle", "find"}
           /\ After(w).pc # "idle" => After(w).todo # <<>>
           /\ Advance(w) => writer' = [writer EXCEPT ![w] = After(w)]
<1>1. writer \in [Writer -> WriterState] /\ writer[w].todo \in Seq(Token)
      /\ writer[w].todo # <<>>
  BY WriterTyped DEF Inv, WriterState, HasToken
<1>2. Idle \in WriterState /\ Idle.pc = "idle"
  BY <1>1, FreshTyped
<1>3. CASE Len(writer[w].todo) = 1
  BY <1>1, <1>2, <1>3 DEF After, Advance
<1>4. CASE Len(writer[w].todo) # 1
  <2>1. Tail(writer[w].todo) \in Seq(Token) /\ Tail(writer[w].todo) # <<>>
    BY <1>1, <1>4, TodoTyped
  <2>2. After(w) = [Idle EXCEPT !.pc = "find", !.todo = Tail(writer[w].todo)]
    BY <1>4 DEF After
  <2>3. Advance(w) => writer' = [writer EXCEPT ![w] = After(w)]
    BY <1>1, <1>4, <2>2 DEF Advance
  <2>4. QED
    BY <2>1, <2>2, <2>3, FreshTyped
<1>5. QED
  BY <1>3, <1>4

\* A call begins: the first token is looked up next.
LEMMA BeginKeeps ==
    ASSUME Inv, NEW w \in Writer, NEW s \in Seq(Token), s # <<>>,
           writer' = [writer EXCEPT ![w] = [Idle EXCEPT !.pc = "find", !.todo = s]],
           apiToken' \in Token \cup {Nil}, Begins(w), UNCHANGED <<rows, nextId, failed>>
    PROVE  Inv'
<1> DEFINE n == [Idle EXCEPT !.pc = "find", !.todo = s]
<1>1. n \in WriterState /\ n.pc = "find" /\ n.todo = s
  BY FreshTyped
<1>2. writer' = [writer EXCEPT ![w] = n]
  OBVIOUS
<1>3. /\ raced' \in BOOLEAN /\ failed' \in BOOLEAN /\ disturbed' \subseteq Writer
      /\ \A v \in Writer \ {w} : Busy(v) /\ v \in disturbed => v \in disturbed'
      /\ (raced => raced') /\ (failed => failed')
  BY WriterTyped DEF Begins, Inv, TypeOK
<1> HIDE DEF n
<1>4. QED
  BY <1>1, <1>2, <1>3, MoveKeeps

\* A call ends without a row of its own.
LEMMA EndKeeps ==
    ASSUME Inv, NEW w \in Writer, Busy(w), Advance(w),
           Begins(w) \/ Writes(w, "next"),
           apiToken' \in Token \cup {Nil}, UNCHANGED <<rows, nextId, failed>>
    PROVE  Inv'
<1>1. disturbed \subseteq Writer /\ raced \in BOOLEAN /\ failed \in BOOLEAN
  BY WriterTyped DEF Inv, TypeOK
<1>2. /\ disturbed' \subseteq Writer
      /\ \A v \in Writer \ {w} : Busy(v) /\ v \in disturbed => v \in disturbed'
      /\ raced' \in BOOLEAN /\ (raced => raced')
  BY <1>1 DEF Begins, Writes
<1>3. QED
  BY <1>1, <1>2, AfterTyped, MoveKeeps

LEMMA FindKeeps ==
    ASSUME Inv, NEW w \in Writer, FindToken(w) \/ FindFails(w)
    PROVE  Inv'
<1>1. /\ writer \in [Writer -> WriterState] /\ writer[w] \in WriterState
      /\ raced \in BOOLEAN /\ failed \in BOOLEAN /\ disturbed \subseteq Writer
      /\ apiToken \in Token \cup {Nil}
  BY WriterTyped DEF Inv, TypeOK
<1>2. writer[w].pc = "find" /\ writer[w].todo # <<>>
  BY DEF FindToken, FindFails, Inv, HasToken, Busy
<1>3. CASE writer' = [writer EXCEPT ![w].pc = "count"]
  <2> DEFINE n == [writer[w] EXCEPT !.pc = "count"]
  <2>1. n \in WriterState /\ n.pc = "count" /\ n.todo = writer[w].todo
    BY <1>1 DEF WriterState
  <2>2. writer' = [writer EXCEPT ![w] = n]
    BY <1>1, <1>3
  <2>3. failed' \/ \A r \in rows : r.token # Head(n.todo)
    <3>1. FindFails(w) => failed'
      BY DEF FindFails
    <3>2. FindToken(w) => Same(w) = {}
      <4>1. ASSUME NEW i, writer' = [writer EXCEPT ![w].pc = "renew", ![w].found = i]
            PROVE  FALSE
        <5>1. writer'[w].pc = "renew"
          BY <1>1, <4>1 DEF WriterState
        <5>2. writer'[w].pc = "count"
          BY <1>1, <1>3 DEF WriterState
        <5>3. QED
          BY <5>1, <5>2
      <4>2. QED
        BY <4>1 DEF FindToken
    <3>3. QED
      BY <2>1, <3>1, <3>2 DEF Same, Now
  <2>4. UNCHANGED <<rows, nextId, apiToken, disturbed, raced>> /\ failed' \in BOOLEAN
        /\ (failed => failed')
    BY <1>1 DEF FindToken, FindFails
  <2> HIDE DEF n
  <2>5. QED
    BY <1>1, <1>2, <2>1, <2>2, <2>3, <2>4, MoveKeeps
<1>4. CASE ~(writer' = [writer EXCEPT ![w].pc = "count"])
  <2>1. PICK r \in Same(w) :
          /\ writer' = [writer EXCEPT ![w].pc = "renew", ![w].found = r.id]
          /\ UNCHANGED <<rows, nextId, apiToken, disturbed, raced, failed>>
    BY <1>4 DEF FindToken, FindFails
  <2> DEFINE n == [writer[w] EXCEPT !.pc = "renew", !.found = r.id]
  <2>2. r \in rows /\ r.token = Head(writer[w].todo) /\ r.id \in 0..MaxId
    BY <2>1, BoundTyped DEF Same, Now, Inv, TypeOK, Row
  <2>3. n \in WriterState /\ n.pc = "renew" /\ n.todo = writer[w].todo
    BY <1>1, <2>2 DEF WriterState
  <2>4. writer' = [writer EXCEPT ![w] = n]
    BY <1>1, <2>1
  <2>5. /\ apiToken' \in Token \cup {Nil} /\ disturbed' = disturbed
        /\ raced' \in BOOLEAN /\ failed' \in BOOLEAN /\ (raced => raced') /\ (failed => failed')
    BY <1>1, <2>1
  <2> HIDE DEF n
  <2>6. n.pc = "renew" => \E q \in rows : q.token = Head(n.todo)
    BY <2>2, <2>3
  <2>7. QED
    BY <1>1, <1>2, <2>1, <2>3, <2>4, <2>5, <2>6, MoveKeeps
<1>5. QED
  BY <1>3, <1>4

\* A COUNT that does not fail makes a first row only of an empty table.
LEMMA CountKeeps ==
    ASSUME Inv, NEW w \in Writer, CountTokens(w) \/ CountFails(w)
    PROVE  Inv'
<1>1. /\ writer \in [Writer -> WriterState] /\ writer[w] \in WriterState
      /\ raced \in BOOLEAN /\ failed \in BOOLEAN /\ disturbed \subseteq Writer
      /\ apiToken \in Token \cup {Nil}
  BY WriterTyped DEF Inv, TypeOK
<1>2. writer[w].pc = "count" /\ writer[w].todo # <<>>
  BY DEF CountTokens, CountFails, Inv, HasToken, Busy
<1>3. PICK b \in BOOLEAN :
        /\ writer' = [writer EXCEPT ![w].pc = "insert", ![w].first = b]
        /\ ~failed' => (b <=> rows = {})
  BY DEF CountTokens, CountFails, IsFirst
<1>4. UNCHANGED <<rows, nextId, apiToken, disturbed, raced>> /\ failed' \in BOOLEAN
      /\ (failed => failed')
  BY <1>1 DEF CountTokens, CountFails
<1> DEFINE n == [writer[w] EXCEPT !.pc = "insert", !.first = b]
<1>5. n \in WriterState /\ n.pc = "insert" /\ n.todo = writer[w].todo /\ (n.first <=> b)
  BY <1>1 DEF WriterState
<1>6. writer' = [writer EXCEPT ![w] = n]
  BY <1>1, <1>3
<1>7. ~raced' /\ ~failed' /\ w \notin disturbed' => \A r \in rows : r.token # Head(n.todo)
  BY <1>2, <1>4, <1>5 DEF Inv, NotFoundMissing, Same, Now
<1> HIDE DEF n
<1>8. ~failed' /\ n.pc = "insert" /\ n.first => rows = {}
  BY <1>3, <1>5
<1>9. (raced => raced') /\ raced' \in BOOLEAN /\ disturbed' = disturbed
      /\ apiToken' \in Token \cup {Nil}
  BY <1>1, <1>4
<1>10. QED
  BY <1>1, <1>2, <1>4, <1>5, <1>6, <1>7, <1>8, <1>9, MoveKeeps
-----------------------------------------------------------------------------
(* The steps that change the table.                                        *)

\* Every other call at work is disturbed; the caller's row is the youngest, and
\* the default only if the table was empty when it counted.
LEMMA InsertKeeps ==
    ASSUME Inv, NEW w \in Writer, InsertToken(w)
    PROVE  Inv'
<1> DEFINE new == [id |-> nextId, token |-> Now(w), default |-> writer[w].first]
           n == IF writer[w].first THEN [writer[w] EXCEPT !.pc = "copy"] ELSE After(w)
<1>1. /\ writer \in [Writer -> WriterState] /\ writer[w] \in WriterState
      /\ raced \in BOOLEAN /\ failed \in BOOLEAN /\ disturbed \subseteq Writer
      /\ apiToken \in Token \cup {Nil} /\ rows \subseteq Row /\ nextId \in 1..MaxId + 1
      /\ MaxId \in Nat /\ nextId \in Nat
  BY WriterTyped, BoundTyped DEF Inv, TypeOK
<1>2. /\ writer[w].pc = "insert" /\ Busy(w) /\ writer[w].todo # <<>>
      /\ nextId <= MaxId /\ rows' = rows \cup {new} /\ nextId' = nextId + 1
      /\ UNCHANGED <<apiToken, failed>>
      /\ Writes(w, "same") \/ Writes(w, "next")
  BY DEF InsertToken, Inv, HasToken, Busy
<1>3. /\ n \in WriterState /\ n.pc \in {"idle", "find", "copy"}
      /\ n.pc # "idle" => n.todo # <<>>
      /\ writer' = [writer EXCEPT ![w] = n]
  <2>1. CASE writer[w].first
    BY <1>1, <1>2, <2>1 DEF WriterState, InsertToken
  <2>2. CASE ~writer[w].first
    BY <1>1, <1>2, <2>2, AfterTyped DEF InsertToken
  <2>3. QED
    BY <2>1, <2>2
<1>4. new.id = nextId /\ new.token = Now(w) /\ new.default = writer[w].first
  OBVIOUS
<1>5. new \in Row /\ (\A r \in rows : r.id < new.id /\ r.id \in Nat) /\ new \notin rows
  <2>1. Now(w) \in Token
    BY <1>1, <1>2, TodoTyped DEF Now, WriterState
  <2>2. new \in Row
    BY <1>1, <1>2, <2>1 DEF Row, WriterState
  <2>3. \A r \in rows : r.id < new.id /\ r.id \in Nat
    BY <1>1, <1>4 DEF Inv, IdsBelow, Row
  <2>4. QED
    BY <1>1, <1>4, <2>2, <2>3
<1>6. /\ writer'[w] = n
      /\ \A v \in Writer \ {w} : writer'[v] = writer[v]
      /\ writer' \in [Writer -> WriterState]
  BY <1>1, <1>3
<1>7. /\ disturbed' \subseteq Writer
      /\ \A v \in Writer \ {w} : Busy(v) => v \in disturbed'
      /\ raced' \in BOOLEAN
      /\ ~raced' => ~raced /\ w \notin disturbed
  BY <1>1, <1>2 DEF Writes
<1> HIDE DEF n, new
<1>8. TypeOK'
  <2>1. rows' \subseteq Row /\ nextId' \in 1..MaxId + 1
    BY <1>1, <1>2, <1>5
  <2>2. \A r, q \in rows' : r.id = q.id => r = q
    BY <1>2, <1>5 DEF Inv, TypeOK
  <2>3. QED
    BY <1>1, <1>2, <1>6, <1>7, <2>1, <2>2 DEF TypeOK, WriterState
<1>9. IsFiniteSet(rows)'
  BY <1>2, FS_AddElement DEF Inv
<1>10. IdsBelow'
  BY <1>1, <1>2, <1>4, <1>5 DEF Inv, IdsBelow
<1>11. HasToken'
  BY <1>3, <1>6 DEF Inv, HasToken, Busy
<1>12. \A v \in Writer \ disturbed' : writer'[v].pc \in {"idle", "find", "copy"}
  BY <1>3, <1>6, <1>7 DEF Busy
<1>13. FoundStored' /\ NotFoundMissing'
  BY <1>12 DEF FoundStored, NotFoundMissing
<1>14. SerialTokens'
  <2> SUFFICES ASSUME ~raced', ~failed'
               PROVE  /\ \A r \in Default', q \in rows' : r.id <= q.id
                      /\ \A r, q \in rows' : r.token = q.token => r = q
    BY DEF SerialTokens
  <2>1. /\ \A r \in Default, q \in rows : r.id <= q.id
        /\ \A r, q \in rows : r.token = q.token => r = q
    BY <1>2, <1>7 DEF Inv, SerialTokens
  <2>2. /\ \A r \in rows : r.token # new.token
        /\ writer[w].first => rows = {}
    BY <1>2, <1>4, <1>7 DEF Inv, NotFoundMissing, Same
  <2>3. Default' \subseteq Default \cup {new} /\ (new \in Default' => writer[w].first)
    BY <1>2, <1>4 DEF Default
  <2>4. ASSUME NEW r \in Default', NEW q \in rows'
        PROVE  r.id <= q.id
    <3>1. CASE r = new
      BY <1>1, <1>2, <1>4, <2>2, <2>3, <3>1
    <3>2. CASE r # new
      BY <1>1, <1>2, <1>4, <1>5, <2>1, <2>3, <3>2 DEF Default
    <3>3. QED
      BY <3>1, <3>2
  <2>5. QED
    BY <1>2, <2>1, <2>2, <2>4
<1>15. DefaultsBounded'
  <2> SUFFICES ASSUME ~failed'
               PROVE  Cardinality(Default') + Cardinality(Inserting') <= Cardinality(Writer)
    BY DEF DefaultsBounded
  <2>1. Cardinality(Default) + Cardinality(Inserting) <= Cardinality(Writer)
    BY <1>2 DEF Inv, DefaultsBounded
  <2>2. CASE writer[w].first
    <3>1. Default' = Default \cup {new} /\ new \notin Default
      BY <1>2, <1>4, <1>5, <2>2 DEF Default
    <3>2. Cardinality(Default') = Cardinality(Default) + 1
      BY <3>1, DefaultFinite, FS_AddElement DEF Inv
    <3>3. w \in Inserting /\ Inserting' = Inserting \ {w}
      BY <1>2, <1>3, <1>6, <2>2 DEF Inserting
    <3>4. Cardinality(Inserting') = Cardinality(Inserting) - 1
      BY <3>3, InsertingFinite, FS_RemoveElement
    <3>5. QED
      BY <2>1, <3>2, <3>4, InsertingFinite, DefaultFinite DEF Inv
  <2>3. CASE ~writer[w].first
    <3>1. Default' = Default
      BY <1>2, <1>4, <2>3 DEF Default
    <3>2. Inserting' = Inserting
      BY <1>2, <1>3, <1>6, <2>3 DEF Inserting
    <3>3. QED
      BY <2>1, <3>1, <3>2
  <2>4. QED
    BY <2>2, <2>3
<1>16. QED
  BY <1>8, <1>9, <1>10, <1>11, <1>13, <1>14, <1>15 DEF Inv

LEMMA DeleteKeeps ==
    ASSUME Inv, NEW d \in rows, DeleteToken(d)
    PROVE  Inv'
<1>1. /\ rows' \subseteq rows /\ disturbed' = disturbed \cup {w \in Writer : Busy(w)}
      /\ UNCHANGED <<apiToken, nextId, writer, raced, failed>>
  BY DEF DeleteToken
<1>2. TypeOK' /\ IdsBelow' /\ HasToken'
  BY <1>1 DEF Inv, TypeOK, IdsBelow, HasToken, Busy
<1>3. IsFiniteSet(rows)'
  BY <1>1, FS_Subset DEF Inv
<1>4. FoundStored' /\ NotFoundMissing'
  BY <1>1 DEF FoundStored, NotFoundMissing, Busy
<1>5. SerialTokens'
  BY <1>1 DEF Inv, SerialTokens, Default
<1>6. DefaultsBounded'
  <2>1. Default' \subseteq Default /\ Inserting' = Inserting /\ failed' = failed
    BY <1>1 DEF Default, Inserting
  <2>2. Cardinality(Default') <= Cardinality(Default) /\ Cardinality(Default') \in Nat
    BY <2>1, DefaultFinite, FS_Subset, FS_CardinalityType DEF Inv
  <2>3. QED
    BY <2>1, <2>2, DefaultFinite, InsertingFinite DEF Inv, DefaultsBounded
<1>7. QED
  BY <1>2, <1>3, <1>4, <1>5, <1>6 DEF Inv

LEMMA EditKeeps ==
    ASSUME Inv, NEW t \in Token \cup {Nil}, EditApiToken(t) \/ UNCHANGED vars
    PROVE  Inv'
<1>1. apiToken' \in Token \cup {Nil}
      /\ UNCHANGED <<rows, nextId, writer, disturbed, raced, failed>>
  BY DEF EditApiToken, vars, Inv, TypeOK
<1>2. Default' = Default /\ Inserting' = Inserting
  BY <1>1 DEF Default, Inserting
<1>3. \A w : Same(w)' = Same(w) /\ Busy(w)' = Busy(w)
  BY <1>1 DEF Same, Now, Busy
<1>4. QED
  BY <1>1, <1>2, <1>3 DEF Inv, TypeOK, IdsBelow, HasToken, FoundStored, NotFoundMissing,
                          SerialTokens, DefaultsBounded
-----------------------------------------------------------------------------
LEMMA InitInv == Init => Inv
<1> SUFFICES ASSUME Init
             PROVE  Inv
  OBVIOUS
<1>1. \A w \in Writer : writer[w] = Idle
  BY DEF Init
<1>2. Idle \in WriterState /\ Idle.pc = "idle"
  BY EmptySeq, FreshTyped
<1>3. TypeOK
  <2>1. writer \in [Writer -> WriterState]
    BY <1>2 DEF Init
  <2>2. nextId \in 1..MaxId + 1
    BY BoundTyped DEF Init
  <2>3. QED
    BY <2>1, <2>2 DEF Init, TypeOK, WriterState
<1>4. Default = {} /\ Inserting = {}
  BY <1>1, <1>2 DEF Init, Default, Inserting
<1>5. DefaultsBounded
  BY <1>4, FS_EmptySet, InsertingFinite DEF DefaultsBounded
<1>6. IsFiniteSet(rows)
  BY FS_EmptySet DEF Init
<1>7. HasToken /\ FoundStored /\ NotFoundMissing
  BY <1>1, <1>2 DEF HasToken, FoundStored, NotFoundMissing, Busy
<1>8. IdsBelow /\ SerialTokens
  BY DEF Init, IdsBelow, SerialTokens, Default
<1>9. QED
  BY <1>3, <1>5, <1>6, <1>7, <1>8 DEF Inv

LEMMA StepInv == Inv /\ [Next]_vars => Inv'
<1> SUFFICES ASSUME Inv, [Next]_vars
             PROVE  Inv'
  OBVIOUS
<1>1. apiToken \in Token \cup {Nil}
  BY DEF Inv, TypeOK
<1>2. ASSUME NEW w \in Writer, NEW t \in Token, CreateToken(w, t)
      PROVE  Inv'
  <2>1. <<t>> \in Seq(Token) /\ <<t>> # <<>>
    OBVIOUS
  <2>2. QED
    BY <1>1, <1>2, <2>1, BeginKeeps DEF CreateToken
<1>3. ASSUME NEW w \in Writer, NEW list \in Listing, NEW t \in Token \cup {Nil},
             SyncTokens(w, list, t)
      PROVE  Inv'
  <2> DEFINE s == [i \in 1..Len(list) |-> list[i].token]
  <2>1. list \in Seq(Upstream) /\ list # <<>>
    BY <1>3, ListingTyped DEF SyncTokens
  <2>2. s \in Seq(Token) /\ s # <<>>
    <3>1. Len(list) \in Nat /\ Len(list) # 0 /\ \A i \in 1..Len(list) : list[i].token \in Token
      <4>1. Len(list) \in Nat \ {0}
        BY <2>1, EmptySeq
      <4>2. \A i \in 1..Len(list) : list[i] \in Upstream
        BY <2>1, ElementOfSeq
      <4>3. QED
        BY <4>1, <4>2 DEF Upstream
    <3>2. s \in Seq(Token) /\ Len(s) = Len(list)
      BY <3>1
    <3>3. QED
      BY <3>1, <3>2
  <2>3. apiToken' \in Token \cup {Nil}
    BY <1>1, <1>3, PreferredTyped DEF SyncTokens
  <2>4. writer' = [writer EXCEPT ![w] = [Idle EXCEPT !.pc = "find", !.todo = s]]
        /\ Begins(w) /\ UNCHANGED <<rows, nextId, failed>>
    BY <1>3 DEF SyncTokens
  <2> HIDE DEF s
  <2>5. QED
    BY <2>2, <2>3, <2>4, BeginKeeps
<1>4. ASSUME NEW w \in Writer, NEW t \in Token, LoginToken(w, t)
      PROVE  Inv'
  <2>1. <<t>> \in Seq(Token) /\ <<t>> # <<>>
    OBVIOUS
  <2>2. QED
    BY <1>4, <2>1, BeginKeeps DEF LoginToken
<1>5. ASSUME NEW w \in Writer, RenewToken(w) \/ WriteFails(w)
      PROVE  Inv'
  BY <1>1, <1>5, EndKeeps DEF RenewToken, WriteFails, Busy
<1>6. ASSUME NEW w \in Writer, CopyToken(w)
      PROVE  Inv'
  <2>1. writer[w] \in WriterState /\ Busy(w) /\ writer[w].todo # <<>>
    BY <1>6, WriterTyped DEF CopyToken, Busy, Inv, HasToken
  <2>2. Copied(w) \in Token
    BY <2>1, TodoTyped DEF Copied, Now, WriterState
  <2>3. QED
    BY <1>1, <1>6, <2>1, <2>2, EndKeeps DEF CopyToken
<1>7. CASE Next
  BY <1>2, <1>3, <1>4, <1>5, <1>6, <1>7, FindKeeps, CountKeeps, InsertKeeps, DeleteKeeps,
     EditKeeps DEF Next
<1>8. CASE UNCHANGED vars
  BY <1>1, <1>8, EditKeeps
<1>9. QED
  BY <1>7, <1>8

LEMMA Invariant == Spec => []Inv
  BY InitInv, StepInv, PTL DEF Spec

\* Every reachable state has the declared types, for every set of writers,
\* tokens and listings.
THEOREM TypeCorrect == Spec => []TypeOK
<1>1. Inv => TypeOK
  BY DEF Inv
<1>2. QED
  BY <1>1, Invariant, PTL

\* Racing calls never make more defaults than there are writers, unless a SELECT or COUNT
\* failed, whatever is deleted in between (models.go:631).
THEOREM DefaultsAreBounded == Spec => []DefaultsBounded
<1>1. Inv => DefaultsBounded
  BY DEF Inv
<1>2. QED
  BY <1>1, Invariant, PTL

\* Without overlapping writes and failed SELECTs the oldest row is the only
\* default and no token is there twice (models.go:618 to 656).
THEOREM TokensSerial == Spec => []SerialTokens
<1>1. Inv => SerialTokens
  BY DEF Inv
<1>2. QED
  BY <1>1, Invariant, PTL

\* An undisturbed call that ends without an error leaves its token in the table
\* (models.go:618, the ignored result of UpdateAccountToken).
THEOREM SavedStored == Spec => SavedIsStored
<1>1. ASSUME Inv, NEW w \in Writer \ disturbed, RenewToken(w) \/ InsertToken(w)
      PROVE  \E r \in rows' : r.token = Now(w)
  <2>1. CASE RenewToken(w)
    BY <1>1, <2>1 DEF RenewToken, Inv, FoundStored, Same
  <2>2. CASE InsertToken(w)
    <3>1. [id |-> nextId, token |-> Now(w), default |-> writer[w].first] \in rows'
      BY <2>2 DEF InsertToken
    <3>2. QED
      BY <3>1
  <2>3. QED
    BY <1>1, <2>1, <2>2
<1>2. Inv /\ [Next]_vars =>
        [\A w \in Writer \ disturbed :
           (RenewToken(w) \/ InsertToken(w)) => \E r \in rows' : r.token = Now(w)]_vars
  BY <1>1
<1>3. QED
  BY <1>2, Invariant, PTL DEF Spec, SavedIsStored
=============================================================================
