------------------------ MODULE CaptchaCheckinProofs ------------------------
(***************************************************************************)
(* Proofs about CaptchaCheckin and the two modules it is made of:          *)
(* what a check-in at a new-api panel reports, which user ids it tries,    *)
(* the time each solver instance is given, and the types of it all.        *)
(* The sections: sequences; the requests; one flow's step (Asked); what a  *)
(* flow knows (TellsDone); what it has asked (Asks); the solver; the whole.*)
(***************************************************************************)
EXTENDS CaptchaCheckin, WellFoundedInduction, TLAPS

(* Sequences, by induction: FlattenSeq keeps what it is given. *)

\* Induction over the naturals, of a set of them.
LEMMA SetInduction ==
    ASSUME NEW S, 0 \in S, \A n \in Nat : n \in S => n + 1 \in S
    PROVE  Nat \subseteq S
<1> DEFINE R == OpToRel(<, Nat)
<1>1. IsWellFoundedOn(R, Nat)
  BY NatLessThanWellFounded
<1>2. \A x, y \in Nat : x < y => <<x, y>> \in R
  BY DEF OpToRel
<1> HIDE DEF R
<1>3. SUFFICES ASSUME Nat \ S # {} PROVE FALSE
  OBVIOUS
<1>4. PICK x \in Nat \ S : \A y \in Nat \ S : ~(<<y, x>> \in R)
  BY <1>1, <1>3, WFMin
<1>5. x # 0 /\ x - 1 \in Nat /\ x - 1 < x
  BY <1>4
<1>6. x - 1 \in S
  BY <1>2, <1>4, <1>5
<1>7. x \in S
  BY <1>5, <1>6
<1>8. QED
  BY <1>4, <1>7

\* g are the partial results of FlattenSeq(seqs), up to the n-th.
Flattens(seqs, g, n) ==
    g = [i \in 1 .. n |-> IF i = 1 THEN seqs[i] ELSE g[i-1] \o seqs[i]]

\* The function FlattenSeq chooses exists: it is built element by element.
LEMMA FlattenExists ==
    ASSUME NEW seqs, NEW N \in Nat
    PROVE  \E g : Flattens(seqs, g, N)
<1> DEFINE S == {n \in Nat : \E g : Flattens(seqs, g, n)}
<1>1. 0 \in S
  <2>1. Flattens(seqs, [i \in 1 .. 0 |-> {}], 0)
    BY DEF Flattens
  <2>2. QED
    BY <2>1
<1>2. ASSUME NEW n \in Nat, n \in S PROVE n + 1 \in S
  <2>1. PICK g : Flattens(seqs, g, n)
    BY <1>2
  <2> DEFINE h == [i \in 1 .. n + 1 |-> IF i \in 1 .. n THEN g[i]
                                        ELSE IF i = 1 THEN seqs[i] ELSE g[i-1] \o seqs[i]]
             e == [i \in 1 .. n + 1 |-> IF i = 1 THEN seqs[i] ELSE h[i-1] \o seqs[i]]
  <2>2. \A i \in 1 .. n : g[i] = IF i = 1 THEN seqs[i] ELSE g[i-1] \o seqs[i]
    BY <2>1 DEF Flattens
  <2>3. \A i \in 1 .. n : h[i] = g[i]
    OBVIOUS
  <2>4. ASSUME NEW i \in 1 .. n + 1 PROVE h[i] = e[i]
    <3>1. CASE i = 1
      BY <2>2, <3>1
    <3>2. CASE i # 1
      <4>1. i - 1 \in 1 .. n
        BY <3>2
      <4>2. h[i-1] = g[i-1]
        BY <2>3, <4>1
      <4>3. h[i] = g[i-1] \o seqs[i]
        BY <2>2, <3>2
      <4>4. QED
        BY <3>2, <4>2, <4>3
    <3>3. QED
      BY <3>1, <3>2
  <2>5. h = e
    BY <2>4
  <2>6. Flattens(seqs, h, n + 1)
    BY <2>5 DEF Flattens
  <2>7. QED
    BY <2>6
<1> HIDE DEF S
<1>3. Nat \subseteq S
  BY <1>1, <1>2, SetInduction
<1>4. QED
  BY <1>3 DEF S

\* s holds every element of the first n sequences of seqs, and only members of T.
Gathers(s, seqs, n, T) ==
    /\ s \in Seq(T)
    /\ \A i \in 1 .. n : \A m \in 1 .. Len(seqs[i]) : \E k \in 1 .. Len(s) : s[k] = seqs[i][m]

\* One more sequence adds its elements to what was gathered.
LEMMA GathersMore ==
    ASSUME NEW T, NEW seqs \in Seq(Seq(T)), NEW n \in Nat, n + 1 <= Len(seqs),
           NEW s, Gathers(s, seqs, n, T)
    PROVE  Gathers(s \o seqs[n + 1], seqs, n + 1, T)
<1> DEFINE t == seqs[n + 1]
<1>1. s \in Seq(T) /\ t \in Seq(T)
  BY DEF Gathers
<1>2. /\ s \o t \in Seq(T) /\ Len(s \o t) = Len(s) + Len(t)
      /\ \A k \in 1 .. Len(s) : (s \o t)[k] = s[k]
      /\ \A k \in 1 .. Len(t) : (s \o t)[Len(s) + k] = t[k]
  BY <1>1
<1>3. ASSUME NEW i \in 1 .. n + 1, NEW m \in 1 .. Len(seqs[i])
      PROVE  \E k \in 1 .. Len(s \o t) : (s \o t)[k] = seqs[i][m]
  <2>1. Len(s) \in Nat /\ Len(t) \in Nat
    BY <1>1
  <2>2. CASE i \in 1 .. n
    <3>1. PICK k \in 1 .. Len(s) : s[k] = seqs[i][m]
      BY <2>2 DEF Gathers
    <3>2. k \in 1 .. Len(s \o t) /\ (s \o t)[k] = s[k]
      BY <1>2, <2>1, <3>1
    <3>3. QED
      BY <3>1, <3>2
  <2>3. CASE i = n + 1
    <3>1. Len(s) + m \in 1 .. Len(s \o t) /\ (s \o t)[Len(s) + m] = t[m]
      BY <1>2, <2>1, <2>3
    <3>2. QED
      BY <2>3, <3>1
  <2>4. QED
    BY <2>2, <2>3
<1>4. QED
  BY <1>2, <1>3 DEF Gathers

\* FlattenSeq keeps every element of its sequences and adds none.
LEMMA FlattenGathers ==
    ASSUME NEW T, NEW seqs \in Seq(Seq(T))
    PROVE  Gathers(FlattenSeq(seqs), seqs, Len(seqs), T)
<1> DEFINE N == Len(seqs)
<1>0. N \in Nat
  OBVIOUS
<1>1. CASE N = 0
  <2>1. FlattenSeq(seqs) = <<>>
    BY <1>1 DEF FlattenSeq
  <2>2. QED
    BY <1>1, <2>1 DEF Gathers
<1>2. CASE N # 0
  <2> DEFINE G == CHOOSE g : Flattens(seqs, g, N)
             S == {n \in Nat : n + 1 <= N => Gathers(G[n + 1], seqs, n + 1, T)}
  <2>1. Flattens(seqs, G, N)
    BY <1>0, FlattenExists
  <2>2. FlattenSeq(seqs) = G[N]
    BY <1>2 DEF FlattenSeq, Flattens
  <2> HIDE DEF G
  <2>3. \A i \in 1 .. N : G[i] = IF i = 1 THEN seqs[i] ELSE G[i-1] \o seqs[i]
    BY <2>1 DEF Flattens
  <2>4. 0 \in S
    <3>1. G[1] = seqs[1] /\ seqs[1] \in Seq(T)
      BY <1>0, <1>2, <2>3
    <3>2. Gathers(G[1], seqs, 1, T)
      BY <3>1 DEF Gathers
    <3>3. QED
      BY <3>2
  <2>5. ASSUME NEW n \in Nat, n \in S PROVE n + 1 \in S
    <3>1. SUFFICES ASSUME (n + 1) + 1 <= N PROVE Gathers(G[(n + 1) + 1], seqs, (n + 1) + 1, T)
      OBVIOUS
    <3>2. Gathers(G[n + 1], seqs, n + 1, T)
      BY <1>0, <2>5, <3>1
    <3>3. G[(n + 1) + 1] = G[n + 1] \o seqs[(n + 1) + 1]
      <4>1. (n + 1) + 1 \in 1 .. N /\ (n + 1) + 1 # 1 /\ ((n + 1) + 1) - 1 = n + 1
        BY <1>0, <3>1
      <4>2. QED
        BY <2>3, <4>1
    <3>4. QED
      BY <3>1, <3>2, <3>3, GathersMore
  <2> HIDE DEF S
  <2>6. Nat \subseteq S
    BY <2>4, <2>5, SetInduction
  <2>7. N - 1 \in S
    BY <1>0, <1>2, <2>6
  <2>8. QED
    BY <1>0, <2>2, <2>7 DEF S
<1>3. QED
  BY <1>1, <1>2

-----------------------------------------------------------------------------
(* The requests: who is asked with which cookie and id. *)

\* What is asked with a cookie: by is the cookie's number.
AnyAsk == [path : {"self", "sign_in", "checkin", "challenge"}, by : 0 .. Cookies, id : Nat]
IdAsk == [path : {"self"}, by : 1 .. Cookies, id : Id]

LEMMA ExtraCookiesBound ==
    ASSUME NEW n \in Nat
    PROVE  ExtraCookies(n) \in Nat /\ ExtraCookies(n) <= Cookies - 1
<1> DEFINE a == Cookies - 1
           b == ExtraBudget - (n - 1) * (Cookies - 1)
           x == Min({a, b})
<1>1. a \in Nat /\ b \in Int
  BY CheckinAssumption
<1> HIDE DEF a, b
<1>2. x \in {a, b} /\ x <= a
  <2>1. \E e \in {a, b} : \A y \in {a, b} : e <= y
    BY <1>1
  <2>2. x \in {a, b} /\ \A y \in {a, b} : x <= y
    BY <2>1 DEF Min
  <2>3. QED
    BY <2>2
<1> HIDE DEF x
<1> DEFINE z == Max({0, x})
<1>3. z \in {0, x} /\ z >= 0
  <2>1. \E e \in {0, x} : \A y \in {0, x} : e >= y
    BY <1>1, <1>2
  <2>2. z \in {0, x} /\ \A y \in {0, x} : z >= y
    BY <2>1 DEF Max
  <2>3. QED
    BY <2>2
<1>4. ExtraCookies(n) = z
  <2>1. {0} \cup {x} = {0, x}
    OBVIOUS
  <2>2. QED
    BY <2>1, Zenon DEF ExtraCookies, a, b, x
<1> HIDE DEF z
<1>5. z \in Nat /\ z <= a
  BY <1>1, <1>2, <1>3
<1>6. QED
  BY <1>4, <1>5 DEF a

\* The candidates are asked with cookies only, every one of them with the first.
LEMMA IdProbesAre ==
    ASSUME NEW ids \in Seq(Id)
    PROVE  /\ IdProbes(ids) \in Seq(IdAsk)
           /\ \A n \in DOMAIN ids : \E k \in DOMAIN IdProbes(ids) :
                 IdProbes(ids)[k] = Request("self", 1, ids[n])
<1> DEFINE row(n) == [c \in 1 .. 1 + ExtraCookies(n) |-> Request("self", c, ids[n])]
           rows == [n \in DOMAIN ids |-> row(n)]
<1>1. \A n \in DOMAIN ids : row(n) \in Seq(IdAsk) /\ Len(row(n)) = 1 + ExtraCookies(n)
  <2> TAKE n \in DOMAIN ids
  <2>1. n \in Nat /\ ids[n] \in Id
    OBVIOUS
  <2>2. ExtraCookies(n) \in Nat /\ ExtraCookies(n) <= Cookies - 1
    BY <2>1, ExtraCookiesBound
  <2>3. \A c \in 1 .. 1 + ExtraCookies(n) : Request("self", c, ids[n]) \in IdAsk
    BY <2>1, <2>2, CheckinAssumption DEF Request, IdAsk
  <2>4. QED
    BY <2>2, <2>3
<1>2. rows \in Seq(Seq(IdAsk)) /\ Len(rows) = Len(ids)
  <2>1. DOMAIN ids = 1 .. Len(ids) /\ Len(ids) \in Nat
    OBVIOUS
  <2> HIDE DEF row
  <2>2. QED
    BY <1>1, <2>1
<1>3. IdProbes(ids) = FlattenSeq(rows)
  BY DEF IdProbes
<1>4. Gathers(IdProbes(ids), rows, Len(rows), IdAsk)
  BY <1>2, <1>3, FlattenGathers
<1>5. ASSUME NEW n \in DOMAIN ids
      PROVE  \E k \in DOMAIN IdProbes(ids) : IdProbes(ids)[k] = Request("self", 1, ids[n])
  <2>1. n \in 1 .. Len(rows) /\ rows[n] = row(n) /\ n \in Nat
    BY <1>2
  <2>2. ExtraCookies(n) \in Nat
    BY <2>1, ExtraCookiesBound
  <2>3. 1 \in 1 .. Len(row(n)) /\ row(n)[1] = Request("self", 1, ids[n])
    BY <1>1, <2>2
  <2> HIDE DEF rows, row
  <2>4. \E k \in 1 .. Len(IdProbes(ids)) : IdProbes(ids)[k] = rows[n][1]
    BY <1>4, <2>1, <2>3 DEF Gathers
  <2>5. DOMAIN IdProbes(ids) = 1 .. Len(IdProbes(ids))
    BY <1>4 DEF Gathers
  <2>6. QED
    BY <2>1, <2>3, <2>4, <2>5
<1>6. QED
  BY <1>4, <1>5 DEF Gathers

LEMMA LeastIsMember ==
    ASSUME NEW I \in SUBSET Nat, I # {}
    PROVE  Min(I) \in I
<1> DEFINE S == {n \in Nat : (\E i \in I : i <= n) => \E i \in I : \A j \in I : i <= j}
<1>1. 0 \in S
  OBVIOUS
<1>2. ASSUME NEW n \in Nat, n \in S PROVE n + 1 \in S
  <2>1. CASE \E i \in I : i <= n
    BY <1>2, <2>1
  <2>2. CASE ~ \E i \in I : i <= n
    <3>1. \A j \in I : j \in Nat /\ n + 1 <= j
      BY <2>2
    <3>2. ASSUME NEW i \in I, i <= n + 1 PROVE n + 1 \in I
      <4>1. i = n + 1
        BY <3>1, <3>2
      <4>2. QED
        BY <3>2, <4>1
    <3>3. (\E i \in I : i <= n + 1) => \E i \in I : \A j \in I : i <= j
      BY <3>1, <3>2
    <3>4. QED
      BY <3>3
  <2>3. QED
    BY <2>1, <2>2
<1> HIDE DEF S
<1>3. Nat \subseteq S
  BY <1>1, <1>2, SetInduction
<1>4. PICK i \in I : i \in Nat
  OBVIOUS
<1>5. i \in S /\ i <= i
  BY <1>3, <1>4
<1>6. \E e \in I : \A j \in I : e <= j
  BY <1>4, <1>5 DEF S
<1>7. QED
  BY <1>6 DEF Min

\* The candidates without the current id: the others, all of them.
LEMMA Removed ==
    ASSUME NEW ids \in Seq(Id), NEW id
    PROVE  /\ RemoveFirst(ids, id) \in Seq(Id)
           /\ \A n \in DOMAIN ids : ids[n] # id =>
                 \E m \in DOMAIN RemoveFirst(ids, id) : RemoveFirst(ids, id)[m] = ids[n]
<1>1. CASE ~ \E i \in 1 .. Len(ids) : ids[i] = id
  BY <1>1 DEF RemoveFirst
<1>2. CASE \E i \in 1 .. Len(ids) : ids[i] = id
  <2> DEFINE I == {i \in 1 .. Len(ids) : ids[i] = id}
             p == Min(I)
             a == SubSeq(ids, 1, p - 1)
             b == SubSeq(ids, p + 1, Len(ids))
  <2>1. RemoveFirst(ids, id) = a \o b
    BY <1>2 DEF RemoveFirst, RemoveAt, SelectInSeq
  <2>2. p \in I
    <3>1. I \in SUBSET Nat /\ I # {}
      BY <1>2
    <3>2. QED
      BY <3>1, LeastIsMember
  <2>3. p \in 1 .. Len(ids) /\ ids[p] = id
    BY <2>2
  <2> HIDE DEF p
  <2>4. /\ a \in Seq(Id) /\ Len(a) = p - 1
        /\ \A i \in 1 .. p - 1 : a[i] = ids[i]
    BY <2>3
  <2>5. /\ b \in Seq(Id) /\ Len(b) = Len(ids) - p
        /\ \A i \in 1 .. Len(ids) - p : b[i] = ids[p + i]
    BY <2>3
  <2> HIDE DEF a, b
  <2>6. /\ a \o b \in Seq(Id) /\ Len(a \o b) = Len(ids) - 1
        /\ \A i \in 1 .. p - 1 : (a \o b)[i] = ids[i]
        /\ \A i \in 1 .. Len(ids) - p : (a \o b)[p - 1 + i] = ids[p + i]
    <3>0. a \in Seq(Id) /\ b \in Seq(Id)
      BY <2>4, <2>5
    <3>1. /\ a \o b \in Seq(Id) /\ Len(a \o b) = Len(a) + Len(b)
          /\ \A i \in 1 .. Len(a) : (a \o b)[i] = a[i]
          /\ \A i \in 1 .. Len(b) : (a \o b)[Len(a) + i] = b[i]
      BY <3>0
    <3>2. Len(a) + Len(b) = Len(ids) - 1
      BY <2>3, <2>4, <2>5
    <3>3. ASSUME NEW i \in 1 .. Len(ids) - p PROVE (a \o b)[p - 1 + i] = ids[p + i]
      BY <2>4, <2>5, <3>1
    <3>4. ASSUME NEW i \in 1 .. p - 1 PROVE (a \o b)[i] = ids[i]
      BY <2>4, <3>1
    <3>5. QED
      BY <3>1, <3>2, <3>3, <3>4
  <2>7. ASSUME NEW n \in DOMAIN ids, ids[n] # id
        PROVE  \E m \in DOMAIN (a \o b) : (a \o b)[m] = ids[n]
    <3>1. n \in 1 .. Len(ids) /\ n # p /\ DOMAIN (a \o b) = 1 .. Len(ids) - 1
      BY <2>3, <2>6, <2>7
    <3>2. CASE n < p
      <4>1. n \in 1 .. p - 1 /\ n \in 1 .. Len(ids) - 1
        BY <2>3, <3>1, <3>2
      <4>2. QED
        BY <2>6, <3>1, <4>1, Zenon
    <3>3. CASE n > p
      <4>0. p \in Nat /\ n \in Nat
        BY <2>3, <3>1
      <4>1. n - p \in 1 .. Len(ids) - p /\ p - 1 + (n - p) = n - 1 /\ p + (n - p) = n
        BY <3>1, <3>3, <4>0
      <4>2. n - 1 \in 1 .. Len(ids) - 1
        BY <2>3, <3>1, <3>3
      <4>3. (a \o b)[p - 1 + (n - p)] = ids[p + (n - p)]
        <5>1. n - p \in 1 .. Len(ids) - p
          BY <4>1
        <5>2. \A i \in 1 .. Len(ids) - p : (a \o b)[p - 1 + i] = ids[p + i]
          BY <2>6
        <5>3. QED
          BY <5>1, <5>2, Zenon
      <4>4. (a \o b)[n - 1] = ids[n]
        BY <4>1, <4>3
      <4>5. QED
        BY <3>1, <4>2, <4>4
    <3>4. QED
      BY <2>3, <3>1, <3>2, <3>3
  <2>8. QED
    BY <2>1, <2>6, <2>7
<1>3. QED
  BY <1>1, <1>2

\* The probe for another id asks with every other candidate and the first cookie.
LEMMA AlternatePlanIs ==
    ASSUME NEW u
    PROVE  /\ AlternatePlan(u) \in Seq(IdAsk)
           /\ \A n \in DOMAIN IdCandidates : IdCandidates[n] # u =>
                 \E k \in DOMAIN AlternatePlan(u) :
                    AlternatePlan(u)[k] = Request("self", 1, IdCandidates[n])
<1>0. IdCandidates \in Seq(Id)
  BY CheckinAssumption
<1>1. CASE u \in Range(IdCandidates)
  <2> DEFINE others == RemoveFirst(IdCandidates, u)
  <2>1. AlternatePlan(u) = IdProbes(others)
    BY <1>1 DEF AlternatePlan, AlternateProbes
  <2>2. /\ others \in Seq(Id)
        /\ \A n \in DOMAIN IdCandidates : IdCandidates[n] # u =>
              \E m \in DOMAIN others : others[m] = IdCandidates[n]
    BY <1>0, Removed
  <2> HIDE DEF others
  <2>3. /\ IdProbes(others) \in Seq(IdAsk)
        /\ \A n \in DOMAIN others : \E k \in DOMAIN IdProbes(others) :
              IdProbes(others)[k] = Request("self", 1, others[n])
    BY <2>2, IdProbesAre
  <2>4. QED
    BY <2>1, <2>2, <2>3
<1>2. CASE u \notin Range(IdCandidates)
  BY <1>0, <1>2, IdProbesAre DEF AlternatePlan, CandidateProbes
<1>3. QED
  BY <1>1, <1>2

\* What the plan of each phase asks: the path, cookie and id of every request.
LEMMA ProbePlanIs ==
    ASSUME setup \in Setup
    PROVE  ProbePlan \in Seq([path : {"self"}, by : 0 .. Cookies, id : Nat])
<1> DEFINE A == [path : {"self"}, by : 0 .. Cookies, id : Nat]
           cs == [c \in 1 .. Cookies |-> Request("self", c, 0)]
<1>1. HeaderProbes \in Seq(A)
  <2>1. setup.jwt \in Nat
    BY DEF Setup
  <2>2. Request("self", 0, setup.jwt) \in A /\ Request("self", 0, 0) \in A
    BY <2>1, CheckinAssumption DEF Request
  <2> HIDE DEF A
  <2>3. QED
    BY <2>2 DEF HeaderProbes
<1>2. cs \in Seq(A)
  <2>1. \A c \in 1 .. Cookies : Request("self", c, 0) \in A
    BY CheckinAssumption DEF Request
  <2> HIDE DEF A
  <2>2. QED
    BY <2>1, CheckinAssumption
<1>3. CandidateProbes \in Seq(A)
  <2>1. CandidateProbes \in Seq(IdAsk)
    BY CheckinAssumption, IdProbesAre DEF CandidateProbes
  <2>2. IdAsk \subseteq A
    BY CheckinAssumption DEF IdAsk, Id
  <2> HIDE DEF A
  <2>3. QED
    BY <2>1, <2>2
<1> HIDE DEF A, cs
<1>4. <<>> \in Seq(A)
  OBVIOUS
<1>5. ProbePlan = (IF setup.cookie THEN <<>> ELSE HeaderProbes) \o cs \o CandidateProbes
  BY DEF ProbePlan, cs
<1>6. (IF setup.cookie THEN <<>> ELSE HeaderProbes) \in Seq(A)
  BY <1>1, <1>4
<1>7. ProbePlan \in Seq(A)
  BY <1>2, <1>3, <1>5, <1>6
<1>8. QED
  BY <1>7 DEF A

\* Step 2 asks twice with each cookie.
First(l) == IF setup.pow THEN "challenge" ELSE "sign_in"
LEMMA CookiePlanIs ==
    ASSUME NEW l, l.kind # "balance"
    PROVE  /\ DOMAIN CookiePlan(l) = 1 .. 2 * Cookies
           /\ \A c \in 1 .. Cookies :
                 /\ CookiePlan(l)[2 * c - 1] = Request(First(l), c, l.user)
                 /\ CookiePlan(l)[2 * c] = Request("checkin", c, l.user)
<1>0. Cookies \in Nat
  BY CheckinAssumption
<1>1. ASSUME NEW c \in Nat \ {0}
      PROVE  Tries(l, c) = <<Request(First(l), c, l.user), Request("checkin", c, l.user)>>
  BY <1>1 DEF Tries, First
<1>2. Len(Tries(l, 1)) = 2
  BY <1>1
<1>3. CookiePlan(l) = [n \in 1 .. Cookies * 2 |-> Tries(l, ((n - 1) \div 2) + 1)[((n - 1) % 2) + 1]]
  BY <1>2 DEF CookiePlan
<1>4. Cookies * 2 = 2 * Cookies
  BY <1>0
<1>5. ASSUME NEW c \in 1 .. Cookies
      PROVE  /\ CookiePlan(l)[2 * c - 1] = Request(First(l), c, l.user)
             /\ CookiePlan(l)[2 * c] = Request("checkin", c, l.user)
  <2>1. /\ 2 * c - 1 \in 1 .. Cookies * 2 /\ 2 * c \in 1 .. Cookies * 2
        /\ ((2 * c - 1 - 1) \div 2) + 1 = c /\ ((2 * c - 1) \div 2) + 1 = c
        /\ ((2 * c - 1 - 1) % 2) + 1 = 1 /\ ((2 * c - 1) % 2) + 1 = 2
    BY <1>0
  <2>2. c \in Nat \ {0}
    BY <1>0
  <2>3. QED
    BY <1>1, <1>3, <2>1, <2>2
<1>6. QED
  BY <1>3, <1>4, <1>5

LEMMA BalancePlanIs ==
    ASSUME NEW l, l.kind = "balance"
    PROVE  /\ DOMAIN CookiePlan(l) = 1 .. Cookies
           /\ \A c \in 1 .. Cookies : CookiePlan(l)[c] = Request("self", c, l.user)
<1>0. Cookies \in Nat
  BY CheckinAssumption
<1>1. \A c : Tries(l, c) = <<Request("self", c, l.user)>>
  BY DEF Tries
<1>2. Len(Tries(l, 1)) = 1
  BY <1>1
<1>3. CookiePlan(l) = [n \in 1 .. Cookies * 1 |-> Tries(l, ((n - 1) \div 1) + 1)[((n - 1) % 1) + 1]]
  BY <1>2 DEF CookiePlan
<1>4. ASSUME NEW c \in 1 .. Cookies
      PROVE  CookiePlan(l)[c] = Request("self", c, l.user)
  <2>1. ((c - 1) \div 1) + 1 = c /\ ((c - 1) % 1) + 1 = 1 /\ c \in 1 .. Cookies * 1
    BY <1>0
  <2>2. QED
    BY <1>1, <1>3, <2>1
<1>5. Cookies * 1 = Cookies
  BY <1>0
<1>6. DOMAIN CookiePlan(l) = 1 .. Cookies
  BY <1>3, <1>5
<1>7. QED
  BY <1>4, <1>6

-----------------------------------------------------------------------------
(* A request, what is seen of its answer, and the step. *)

Seen == Message \cup {"ok"}

\* A step that asks: what is seen of the answer, and what the flow makes of it.
Asked(f, seen, after) ==
    LET l == flow[f]
        r == Plan(l)[l.k]
    IN /\ l.k \in DOMAIN Plan(l)
       /\ seen \in {Answer(l, r), "lost"}
       /\ setup' = setup
       /\ done' \in BOOLEAN
       /\ done \/ seen = "granted" => done'
       /\ cache' \in {cache, Entry(after.user)}
       /\ \E captcha \in {after.captcha, "used"} :
             flow' = [flow EXCEPT ![f] =
                         [after EXCEPT !.captcha = captcha,
                                       !.told = @ \/ seen \in {"granted", "already"},
                                       !.lost = @ \/ seen = "lost"]]

\* What the panel's answer says of the request, of the panel and of the check-in.
LEMMA AnswerIs ==
    ASSUME NEW l, NEW r
    PROVE  /\ Answer(l, r) \in Seen \ {"lost", "none"}
           /\ Answer(l, r) \in {"granted", "already", "captcha"} =>
                 r.path \in Endpoint /\ r.path \in setup.offers /\ Authorised(r)
           /\ Answer(l, r) = "ok" => r.path \notin Endpoint /\ Authorised(r)
           /\ Answer(l, r) = "already" => done
           /\ Answer(l, r) = "missing" => r.path \in Endpoint \ setup.offers
           /\ Answer(l, r) \in {"session", "expired"} => ~Authorised(r) /\ Answer(l, r) = Refusal
BY DEF Answer, Refusal, Seen, Message

\* A request of each phase, seen from the flow: what was seen, and what is made of it.
LEMMA ProbeAsked ==
    ASSUME NEW f \in Flow, TypeOK, Ask(f, "probe", AfterProbe)
    PROVE  /\ flow[f].pc = "probe"
           /\ \E seen \in Seen :
                 Asked(f, seen, AfterProbe(flow[f], Plan(flow[f])[flow[f].k], seen))
<1> DEFINE l == flow[f]
           r == Plan(l)[l.k]
<1>1. Answer(l, r) \in Seen \ {"lost"} /\ "lost" \in Seen
  BY AnswerIs DEF Seen, Message
<1>2. PICK arrived \in BOOLEAN, answered \in BOOLEAN :
         LET seen == IF answered THEN Answer(l, r) ELSE "lost"
             after == AfterProbe(l, r, seen)
         IN /\ done' = (done \/ (arrived /\ Answer(l, r) = "granted"))
            /\ answered => arrived
            /\ flow' = [flow EXCEPT ![f] =
                  [after EXCEPT
                      !.captcha = IF arrived /\ Spends(l, r) THEN "used" ELSE @,
                      !.told = @ \/ seen \in {"granted", "already"},
                      !.lost = @ \/ ~answered]]
            /\ cache' = IF Remembers(l, after) THEN Entry(after.user) ELSE cache
  BY DEF Ask
<1>3. l.pc = "probe" /\ l.k \in DOMAIN Plan(l) /\ setup' = setup
  BY DEF Ask
<1> DEFINE seen == IF answered THEN Answer(l, r) ELSE "lost"
<1> HIDE DEF r
<1>4. seen \in Seen /\ (~answered <=> seen = "lost")
  BY <1>1
<1>5. Asked(f, seen, AfterProbe(l, r, seen))
  BY <1>1, <1>2, <1>3, <1>4 DEF Asked, TypeOK, r
<1>6. QED
  BY <1>3, <1>4, <1>5 DEF r

LEMMA PostAsked ==
    ASSUME NEW f \in Flow, TypeOK, Ask(f, "post", AfterPost)
    PROVE  /\ flow[f].pc = "post"
           /\ \E seen \in Seen :
                 Asked(f, seen, AfterPost(flow[f], Plan(flow[f])[flow[f].k], seen))
<1> DEFINE l == flow[f]
           r == Plan(l)[l.k]
<1>1. Answer(l, r) \in Seen \ {"lost"} /\ "lost" \in Seen
  BY AnswerIs DEF Seen, Message
<1>2. PICK arrived \in BOOLEAN, answered \in BOOLEAN :
         LET seen == IF answered THEN Answer(l, r) ELSE "lost"
             after == AfterPost(l, r, seen)
         IN /\ done' = (done \/ (arrived /\ Answer(l, r) = "granted"))
            /\ answered => arrived
            /\ flow' = [flow EXCEPT ![f] =
                  [after EXCEPT
                      !.captcha = IF arrived /\ Spends(l, r) THEN "used" ELSE @,
                      !.told = @ \/ seen \in {"granted", "already"},
                      !.lost = @ \/ ~answered]]
            /\ cache' = IF Remembers(l, after) THEN Entry(after.user) ELSE cache
  BY DEF Ask
<1>3. l.pc = "post" /\ l.k \in DOMAIN Plan(l) /\ setup' = setup
  BY DEF Ask
<1> DEFINE seen == IF answered THEN Answer(l, r) ELSE "lost"
<1> HIDE DEF r
<1>4. seen \in Seen /\ (~answered <=> seen = "lost")
  BY <1>1
<1>5. Asked(f, seen, AfterPost(l, r, seen))
  BY <1>1, <1>2, <1>3, <1>4 DEF Asked, TypeOK, r
<1>6. QED
  BY <1>3, <1>4, <1>5 DEF r

LEMMA CookiesAsked ==
    ASSUME NEW f \in Flow, TypeOK, Ask(f, "cookies", AfterCookieRequest)
    PROVE  /\ flow[f].pc = "cookies"
           /\ \E seen \in Seen :
                 Asked(f, seen, AfterCookieRequest(flow[f], Plan(flow[f])[flow[f].k], seen))
<1> DEFINE l == flow[f]
           r == Plan(l)[l.k]
<1>1. Answer(l, r) \in Seen \ {"lost"} /\ "lost" \in Seen
  BY AnswerIs DEF Seen, Message
<1>2. PICK arrived \in BOOLEAN, answered \in BOOLEAN :
         LET seen == IF answered THEN Answer(l, r) ELSE "lost"
             after == AfterCookieRequest(l, r, seen)
         IN /\ done' = (done \/ (arrived /\ Answer(l, r) = "granted"))
            /\ answered => arrived
            /\ flow' = [flow EXCEPT ![f] =
                  [after EXCEPT
                      !.captcha = IF arrived /\ Spends(l, r) THEN "used" ELSE @,
                      !.told = @ \/ seen \in {"granted", "already"},
                      !.lost = @ \/ ~answered]]
            /\ cache' = IF Remembers(l, after) THEN Entry(after.user) ELSE cache
  BY DEF Ask
<1>3. l.pc = "cookies" /\ l.k \in DOMAIN Plan(l) /\ setup' = setup
  BY DEF Ask
<1> DEFINE seen == IF answered THEN Answer(l, r) ELSE "lost"
<1> HIDE DEF r
<1>4. seen \in Seen /\ (~answered <=> seen = "lost")
  BY <1>1
<1>5. Asked(f, seen, AfterCookieRequest(l, r, seen))
  BY <1>1, <1>2, <1>3, <1>4 DEF Asked, TypeOK, r
<1>6. QED
  BY <1>3, <1>4, <1>5 DEF r

LEMMA AlternateAsked ==
    ASSUME NEW f \in Flow, TypeOK, Ask(f, "alternate", AfterAlternate)
    PROVE  /\ flow[f].pc = "alternate"
           /\ \E seen \in Seen :
                 Asked(f, seen, AfterAlternate(flow[f], Plan(flow[f])[flow[f].k], seen))
<1> DEFINE l == flow[f]
           r == Plan(l)[l.k]
<1>1. Answer(l, r) \in Seen \ {"lost"} /\ "lost" \in Seen
  BY AnswerIs DEF Seen, Message
<1>2. PICK arrived \in BOOLEAN, answered \in BOOLEAN :
         LET seen == IF answered THEN Answer(l, r) ELSE "lost"
             after == AfterAlternate(l, r, seen)
         IN /\ done' = (done \/ (arrived /\ Answer(l, r) = "granted"))
            /\ answered => arrived
            /\ flow' = [flow EXCEPT ![f] =
                  [after EXCEPT
                      !.captcha = IF arrived /\ Spends(l, r) THEN "used" ELSE @,
                      !.told = @ \/ seen \in {"granted", "already"},
                      !.lost = @ \/ ~answered]]
            /\ cache' = IF Remembers(l, after) THEN Entry(after.user) ELSE cache
  BY DEF Ask
<1>3. l.pc = "alternate" /\ l.k \in DOMAIN Plan(l) /\ setup' = setup
  BY DEF Ask
<1> DEFINE seen == IF answered THEN Answer(l, r) ELSE "lost"
<1> HIDE DEF r
<1>4. seen \in Seen /\ (~answered <=> seen = "lost")
  BY <1>1
<1>5. Asked(f, seen, AfterAlternate(l, r, seen))
  BY <1>1, <1>2, <1>3, <1>4 DEF Asked, TypeOK, r
<1>6. QED
  BY <1>3, <1>4, <1>5 DEF r

\* Step 2 of a check-in: the number of a request tells cookie and endpoint.
LEMMA CookieRequestIs ==
    ASSUME NEW l \in Local, l.pc = "cookies", l.kind # "balance", l.k \in DOMAIN Plan(l)
    PROVE  \E c \in 1 .. Cookies :
              \/ l.k = 2 * c - 1 /\ Plan(l)[l.k] = Request(First(l), c, l.user)
              \/ l.k = 2 * c /\ Plan(l)[l.k] = Request("checkin", c, l.user)
<1>0. Cookies \in Nat \ {0} /\ l.k \in Nat
  BY CheckinAssumption DEF Local
<1>1. Plan(l) = CookiePlan(l)
  BY DEF Plan
<1>2. l.k \in 1 .. 2 * Cookies
  BY <1>1, CookiePlanIs
<1>3. \/ (l.k + 1) \div 2 \in 1 .. Cookies /\ l.k = 2 * ((l.k + 1) \div 2) - 1
      \/ (l.k + 1) \div 2 \in 1 .. Cookies /\ l.k = 2 * ((l.k + 1) \div 2)
  BY <1>0, <1>2
<1>4. PICK c \in 1 .. Cookies : l.k = 2 * c - 1 \/ l.k = 2 * c
  BY <1>3
<1>5. QED
  BY <1>1, <1>4, CookiePlanIs

\* The request of a phase, and who is asked for.
LEMMA RequestIs ==
    ASSUME NEW l \in Local, setup \in Setup, l.k \in DOMAIN Plan(l)
    PROVE  LET r == Plan(l)[l.k] IN
           /\ r \in AnyAsk
           /\ l.pc = "probe" => r.path = "self"
           /\ l.pc = "alternate" => r \in IdAsk
           /\ l.pc \in {"post", "cookies"} => r.id = l.user
           /\ l.kind = "balance" => r.path = "self"
<1>0. Cookies \in Nat \ {0} /\ l.user \in Nat /\ l.k \in Nat
  BY CheckinAssumption DEF Local
<1>1. CASE l.pc = "probe"
  <2>1. Plan(l) = ProbePlan
    BY <1>1 DEF Plan
  <2> DEFINE A == [path : {"self"}, by : 0 .. Cookies, id : Nat]
  <2>2. ProbePlan[l.k] \in A
    <3>1. ProbePlan \in Seq(A) /\ l.k \in DOMAIN ProbePlan
      BY <2>1, ProbePlanIs
    <3> HIDE DEF A
    <3>2. QED
      BY <3>1
  <2>3. QED
    BY <1>1, <2>1, <2>2 DEF AnyAsk
<1>2. CASE l.pc = "alternate"
  <2>1. Plan(l) = AlternatePlan(l.user)
    BY <1>2 DEF Plan
  <2>2. AlternatePlan(l.user)[l.k] \in IdAsk
    BY <2>1, AlternatePlanIs
  <2>3. QED
    BY <1>0, <1>2, <2>1, <2>2 DEF AnyAsk, IdAsk, Id
<1>3. CASE l.pc = "post"
  <2>1. Plan(l) = Tries(l, 0)
    BY <1>3 DEF Plan
  <2>2. QED
    BY <1>0, <1>3, <2>1 DEF Tries, Request, AnyAsk
<1>4. CASE l.pc = "cookies" /\ l.kind = "balance"
  <2>1. Plan(l) = CookiePlan(l)
    BY <1>4 DEF Plan
  <2>2. l.k \in 1 .. Cookies /\ CookiePlan(l)[l.k] = Request("self", l.k, l.user)
    BY <1>4, <2>1, BalancePlanIs
  <2>3. QED
    BY <1>0, <1>4, <2>1, <2>2 DEF Request, AnyAsk
<1>5. CASE l.pc = "cookies" /\ l.kind # "balance"
  <2>1. PICK c \in 1 .. Cookies :
            Plan(l)[l.k] \in {Request(First(l), c, l.user), Request("checkin", c, l.user)}
    BY <1>5, CookieRequestIs
  <2>2. QED
    BY <1>0, <1>5, <2>1 DEF Request, AnyAsk, First
<1>6. CASE l.pc \notin {"probe", "alternate", "post", "cookies"}
  BY <1>6 DEF Plan
<1>7. QED
  BY <1>1, <1>2, <1>3, <1>4, <1>5, <1>6

-----------------------------------------------------------------------------
(* Types. *)

\* A flow that does nothing has nothing; requests are counted from 1; only the
\* last phase has an alternate id; only a token is tried in the header.
Tidy(l) ==
    /\ l.k # 0
    /\ l.pc = "idle" => l = NoFlow
    /\ l.pc \in {"lookup", "probe", "post"} => ~l.alt
    /\ l.pc = "post" => ~setup.cookie

FlowInv == TypeOK /\ \A f \in Flow : Tidy(flow[f])

LEMMA NoFlowTyped == NoFlow \in Local /\ Tidy(NoFlow)
BY DEF NoFlow, Local, Tidy, Phase, Message, Captcha

\* What one step makes of one flow, and the rest it may change.
LEMMA OneFlow ==
    ASSUME FlowInv, NEW f \in Flow, NEW l \in Local, Tidy(l),
           setup' = setup, done' \in BOOLEAN,
           cache' \in [user : Nat, expired : BOOLEAN],
           flow' = [flow EXCEPT ![f] = l]
    PROVE  FlowInv'
<1>1. TypeOK'
  BY DEF FlowInv, TypeOK
<1>2. \A g \in Flow : Tidy(flow[g])'
  <2>1. \A g \in Flow : flow'[g] = IF g = f THEN l ELSE flow[g]
    BY DEF FlowInv, TypeOK
  <2>2. QED
    BY <2>1 DEF FlowInv, Tidy
<1>3. QED
  BY <1>1, <1>2 DEF FlowInv

LEMMA EnterTyped ==
    ASSUME NEW l \in Local, NEW pc \in Phase \ {"idle"},
           pc \in {"lookup", "probe", "post"} => ~l.alt, pc = "post" => ~setup.cookie
    PROVE  /\ Enter(l, pc) \in Local /\ Tidy(Enter(l, pc))
           /\ Enter(l, pc).pc = pc /\ Enter(l, pc).k = 1 /\ Enter(l, pc).alt = l.alt
           /\ Enter(l, pc).kind = l.kind /\ Enter(l, pc).user = l.user
           /\ Enter(l, pc).first = l.first /\ Enter(l, pc).last = l.last
           /\ Enter(l, pc).captcha = l.captcha
           /\ Enter(l, pc).told = l.told /\ Enter(l, pc).lost = l.lost
<1> DEFINE m == [l EXCEPT !.pc = pc]
           n == [m EXCEPT !.k = 1]
<1>1. Enter(l, pc) = n
  BY DEF Enter
<1>2. /\ m \in Local
      /\ m.pc = pc /\ m.alt = l.alt /\ m.kind = l.kind /\ m.user = l.user
      /\ m.first = l.first /\ m.last = l.last /\ m.captcha = l.captcha
      /\ m.told = l.told /\ m.lost = l.lost
  BY DEF Local
<1> HIDE DEF m
<1>3. /\ n \in Local /\ n.k = 1
      /\ n.pc = pc /\ n.alt = l.alt /\ n.kind = l.kind /\ n.user = l.user
      /\ n.first = l.first /\ n.last = l.last /\ n.captcha = l.captcha
      /\ n.told = l.told /\ n.lost = l.lost
  BY <1>2 DEF Local
<1>4. Tidy(n)
  BY <1>3 DEF Tidy
<1> HIDE DEF n
<1>5. QED
  BY <1>1, <1>3, <1>4

LEMMA ResolvedTyped ==
    ASSUME NEW l \in Local, ~l.alt, NEW id \in Nat
    PROVE  /\ Resolved(l, id) \in Local /\ Tidy(Resolved(l, id))
           /\ Resolved(l, id).pc \in {"cookies", "post"} /\ Resolved(l, id).k = 1
           /\ ~Resolved(l, id).alt /\ Resolved(l, id).told = l.told
<1> DEFINE m == [l EXCEPT !.user = id]
           pc == IF setup.cookie THEN "cookies" ELSE "post"
<1>1. m \in Local /\ ~m.alt /\ m.told = l.told
  BY DEF Local
<1>2. pc \in Phase \ {"idle"} /\ pc \in {"cookies", "post"} /\ (pc = "post" => ~setup.cookie)
  BY DEF Phase
<1>3. Resolved(l, id) = Enter(m, pc)
  BY DEF Resolved
<1> HIDE DEF m, pc
<1>4. QED
  BY <1>1, <1>2, <1>3, EnterTyped

\* What Asked changes of what the flow makes of the answer.
LEMMA AskedTyped ==
    ASSUME FlowInv, NEW f \in Flow, NEW seen, NEW after \in Local, Tidy(after),
           after.pc # "idle", Asked(f, seen, after)
    PROVE  FlowInv'
<1>1. PICK captcha \in {after.captcha, "used"} :
         flow' = [flow EXCEPT ![f] =
                     [after EXCEPT !.captcha = captcha,
                                   !.told = @ \/ seen \in {"granted", "already"},
                                   !.lost = @ \/ seen = "lost"]]
  BY DEF Asked
<1> DEFINE l == [after EXCEPT !.captcha = captcha,
                              !.told = @ \/ seen \in {"granted", "already"},
                              !.lost = @ \/ seen = "lost"]
<1>2. after.captcha \in Captcha /\ after.told \in BOOLEAN /\ after.lost \in BOOLEAN
  BY DEF Local
<1>3. captcha \in Captcha
  BY <1>1, <1>2 DEF Captcha
<1>4. l \in Local
  BY <1>2, <1>3 DEF Local
<1>5. l.k = after.k /\ l.pc = after.pc /\ l.alt = after.alt
  BY DEF Local
<1>6. Tidy(l) /\ l.pc # "idle"
  BY <1>5 DEF Tidy
<1>7. flow' = [flow EXCEPT ![f] = l]
  BY <1>1
<1> HIDE DEF l
<1>8. after.user \in Nat
  BY DEF Local
<1>9. cache' \in [user : Nat, expired : BOOLEAN] /\ setup' = setup /\ done' \in BOOLEAN
  <2>1. cache' \in {cache, Entry(after.user)} /\ setup' = setup /\ done' \in BOOLEAN
    BY Zenon DEF Asked
  <2>2. cache \in [user : Nat, expired : BOOLEAN]
    BY DEF FlowInv, TypeOK
  <2>3. Entry(after.user) \in [user : Nat, expired : BOOLEAN]
    BY <1>8 DEF Entry
  <2>4. QED
    BY <2>1, <2>2, <2>3
<1>10. QED
  BY <1>4, <1>6, <1>7, <1>9, OneFlow

LEMMA EndsTyped ==
    ASSUME NEW l \in Local, Tidy(l), NEW message \in Message
    PROVE  Ends(l, message) \in Local /\ Tidy(Ends(l, message)) /\ Ends(l, message).pc = "end"
BY DEF Ends, Local, Phase, Tidy

LEMMA AgainTyped ==
    ASSUME NEW l \in Local, Tidy(l), l.pc # "idle"
    PROVE  Again(l) \in Local /\ Tidy(Again(l)) /\ Again(l).pc = l.pc
BY DEF Again, Local, Tidy

LEMMA SetLast ==
    ASSUME NEW l \in Local, Tidy(l), l.pc # "idle", NEW message \in Message
    PROVE  /\ [l EXCEPT !.last = message] \in Local /\ Tidy([l EXCEPT !.last = message])
           /\ [l EXCEPT !.last = message].pc = l.pc
           /\ [l EXCEPT !.first = message] \in Local /\ Tidy([l EXCEPT !.first = message])
           /\ [l EXCEPT !.first = message].pc = l.pc
BY DEF Local, Tidy

LEMMA OrIs == \A a, b \in Message : Or(a, b) \in Message
BY DEF Or

\* What a cookie request leaves in the flow has its type and keeps the flow tidy.
LEMMA CookieTyped ==
    ASSUME NEW l \in Local, Tidy(l), l.pc = "cookies", l.k \in DOMAIN Plan(l), setup \in Setup,
           NEW seen \in Seen, seen \in {Answer(l, Plan(l)[l.k]), "lost"}
    PROVE  LET after == AfterCookieRequest(l, Plan(l)[l.k], seen)
           IN after \in Local /\ Tidy(after) /\ after.pc # "idle"
<1> DEFINE r == Plan(l)[l.k]
<1>0. l.first \in Message /\ l.last \in Message /\ l.k \in Nat
  BY DEF Local
<1>1. r.path \in Endpoint => seen # "ok"
  BY AnswerIs
<1>2. l.kind # "balance" => r.path \in Endpoint \/ (setup.pow /\ r.path = "challenge")
  <2> SUFFICES ASSUME l.kind # "balance"
               PROVE  r.path \in Endpoint \/ (setup.pow /\ r.path = "challenge")
    OBVIOUS
  <2>1. PICK c \in 1 .. Cookies :
           r \in {Request(First(l), c, l.user), Request("checkin", c, l.user)}
    BY CookieRequestIs
  <2>2. QED
    BY <2>1 DEF Request, First, Endpoint
<1>3. seen \in Message \/ seen = "ok"
  BY DEF Seen
<1>4. seen \in Message => Or(l.last, seen) \in Message /\ Or(l.first, seen) \in Message
  BY <1>0, OrIs
<1> SUFFICES AfterCookieRequest(l, r, seen) \in Local /\ Tidy(AfterCookieRequest(l, r, seen))
             /\ AfterCookieRequest(l, r, seen).pc # "idle"
  OBVIOUS
<1> HIDE DEF r
<1>5. QED
  <2>1. CASE l.kind = "balance"
    <3>1. "granted" \in Message
      BY DEF Message
    <3>2. seen \in Message =>
             /\ [l EXCEPT !.first = seen] \in Local /\ Tidy([l EXCEPT !.first = seen])
             /\ [l EXCEPT !.first = seen].pc = "cookies"
      BY <1>0, SetLast
    <3>3. QED
      BY <1>0, <1>3, <2>1, <3>1, <3>2, EndsTyped, AgainTyped DEF AfterCookieRequest, AfterBalanceCookie
  <2>2. CASE l.kind # "balance" /\ ~setup.pow
    <3>1. seen \in Message
      BY <1>1, <1>2, <1>3, <2>2
    <3>2. AfterCookieRequest(l, r, seen) \in {Ends(l, seen), Again([l EXCEPT !.last = seen]), Again([l EXCEPT !.last = Or(l.last, seen)])}
      BY <1>0, <2>2 DEF AfterCookieRequest, AfterCookie, Local
    <3>3. \A m \in {seen, Or(l.last, seen)} :
             /\ [l EXCEPT !.last = m] \in Local /\ Tidy([l EXCEPT !.last = m])
             /\ [l EXCEPT !.last = m].pc = "cookies"
      BY <1>0, <1>4, <3>1, SetLast
    <3>4. QED
      BY <1>0, <3>1, <3>2, <3>3, EndsTyped, AgainTyped
  <2>3. CASE l.kind # "balance" /\ setup.pow
    <3>1. AfterCookieRequest(l, r, seen) = AfterPowCookie(l, r, seen)
      BY <2>3 DEF AfterCookieRequest
    <3>2. CASE r.path = "challenge" /\ seen # "granted"
      <4>1. CASE seen = "ok"
        BY <1>0, <3>1, <3>2, <4>1, AgainTyped DEF AfterPowCookie
      <4>2. CASE seen # "ok"
        <5> DEFINE new == [l EXCEPT !.k = l.k + 2, !.first = Or(l.first, seen)]
        <5>1. AfterPowCookie(l, r, seen) = new
          BY <1>0, <3>2, <4>2 DEF AfterPowCookie, Local
        <5>2. Or(l.first, seen) \in Message
          BY <1>3, <1>4, <4>2
        <5>3. new \in Local /\ Tidy(new) /\ new.pc = l.pc
          <6> DEFINE m == [l EXCEPT !.first = Or(l.first, seen)]
          <6>1. m \in Local /\ Tidy(m) /\ m.pc = l.pc /\ m.k = l.k
            BY <1>0, <5>2, SetLast DEF Local
          <6>2. new = [m EXCEPT !.k = m.k + 2]
            BY <1>0, <6>1 DEF Local
          <6> HIDE DEF m, new
          <6>3. m.k + 2 \in Nat \ {0}
            BY <6>1 DEF Local
          <6>4. QED
            BY <6>1, <6>2, <6>3 DEF Local, Tidy
        <5>4. QED
          BY <3>1, <5>1, <5>3
      <4>3. QED
        BY <4>1, <4>2
    <3>3. CASE r.path # "challenge" \/ seen = "granted"
      <4>1. seen \in Message
        <5>1. CASE seen = "granted"
          BY <5>1 DEF Message
        <5>2. CASE r.path # "challenge"
          BY <1>1, <1>2, <1>3, <2>3, <5>2
        <5>3. QED
          BY <3>3, <5>1, <5>2
      <4> DEFINE m == [l EXCEPT !.first = Or(l.first, seen)]
      <4>2. AfterPowCookie(l, r, seen) \in {Ends(l, seen), Again(m)}
        BY <1>0, <3>3 DEF AfterPowCookie, Local
      <4>3. m \in Local /\ Tidy(m) /\ m.pc = "cookies"
        BY <1>0, <1>4, <4>1, SetLast
      <4> HIDE DEF m
      <4>4. QED
        BY <1>0, <3>1, <4>1, <4>2, <4>3, EndsTyped, AgainTyped
    <3>4. QED
      BY <3>2, <3>3
  <2>4. QED
    BY <2>1, <2>2, <2>3

\* A step keeps the types, and the flows tidy.
LEMMA StepTyped ==
    ASSUME FlowInv, NEW f \in Flow, Step(f)
    PROVE  FlowInv'
<1> DEFINE l == flow[f]
           r == Plan(l)[l.k]
<1>0. /\ l \in Local /\ Tidy(l) /\ setup \in Setup /\ setup' = setup
      /\ l.first \in Message /\ l.last \in Message /\ l.k \in Nat /\ l.user \in Nat
  <2>1. l \in Local /\ Tidy(l) /\ setup \in Setup
    BY CheckinAssumption DEF FlowInv, TypeOK
  <2>2. setup' = setup
    BY DEF Step, Lookup, Ask, Unresolved, NoCookieTook, NoAlternate
  <2>3. QED
    BY <2>1, <2>2 DEF Local
<1>00. cache \in [user : Nat, expired : BOOLEAN] /\ done \in BOOLEAN /\ TypeOK
       /\ setup.configured \in Nat /\ setup.owner \in Nat /\ cache.user \in Nat
  BY <1>0 DEF FlowInv, TypeOK, Setup, Id
<1>1. CASE Lookup(f)
  <2> DEFINE known == IF setup.configured > 0 THEN setup.configured
                      ELSE IF cache.expired THEN 0 ELSE cache.user
             new == IF known > 0 THEN Resolved(l, known) ELSE Enter(l, "probe")
  <2>1. l.pc = "lookup" /\ ~l.alt
    BY <1>0, <1>1 DEF Lookup, At, Tidy
  <2>2. known \in Nat
    BY <1>00
  <2>3. new \in Local /\ Tidy(new)
    <3> HIDE DEF known
    <3>1. CASE known > 0
      BY <1>0, <2>1, <2>2, <3>1, ResolvedTyped
    <3>2. CASE ~(known > 0)
      BY <1>0, <2>1, <3>2, EnterTyped DEF Phase
    <3>3. QED
      BY <3>1, <3>2
  <2>4. flow' = [flow EXCEPT ![f] = new] /\ done' = done
    BY <1>1 DEF Lookup
  <2>5. cache' \in [user : Nat, expired : BOOLEAN]
    BY <1>1, <1>00 DEF Lookup, NoEntry
  <2> HIDE DEF new, known
  <2>6. QED
    BY <1>0, <1>00, <2>3, <2>4, <2>5, OneFlow
<1>2. CASE Ask(f, "probe", AfterProbe)
  <2>1. PICK seen \in Seen : Asked(f, seen, AfterProbe(l, r, seen))
    BY <1>2, <1>00, ProbeAsked
  <2>2. l.pc = "probe" /\ ~l.alt
    BY <1>2, <1>0 DEF Ask, Tidy
  <2>3. r.id \in Nat
    BY <1>0, <2>1, RequestIs DEF Asked, AnyAsk
  <2> HIDE DEF r
  <2>4. AfterProbe(l, r, seen) \in Local /\ Tidy(AfterProbe(l, r, seen)) /\ AfterProbe(l, r, seen).pc # "idle"
    <3>1. CASE seen # "ok"
      BY <1>0, <2>2, <3>1, AgainTyped DEF AfterProbe
    <3>2. CASE seen = "ok"
      <4> DEFINE id == IF r.id = 0 THEN setup.owner ELSE r.id
      <4>1. id \in Nat
        BY <1>00, <2>3
      <4>2. AfterProbe(l, r, seen) = Resolved(l, id)
        BY <3>2 DEF AfterProbe
      <4> HIDE DEF id
      <4>3. Resolved(l, id).pc # "idle"
        BY <1>0 DEF Resolved, Enter, Local
      <4>4. QED
        BY <1>0, <2>2, <4>1, <4>2, <4>3, ResolvedTyped
    <3>3. QED
      BY <3>1, <3>2
  <2>5. QED
    BY <2>1, <2>4, AskedTyped
<1>3. CASE Unresolved(f)
  <2>1. l.pc = "probe" /\ ~l.alt
    BY <1>3, <1>0 DEF Unresolved, UsedUp, At, Tidy
  <2>2. Resolved(l, 0) \in Local /\ Tidy(Resolved(l, 0))
    BY <1>0, <2>1, ResolvedTyped
  <2>3. QED
    BY <1>0, <1>00, <1>3, <2>2, OneFlow DEF Unresolved
<1>4. CASE Ask(f, "post", AfterPost)
  <2>1. PICK seen \in Seen : Asked(f, seen, AfterPost(l, r, seen))
    BY <1>4, <1>00, PostAsked
  <2>2. l.pc = "post"
    BY <1>4 DEF Ask
  <2> HIDE DEF r
  <2>3. AfterPost(l, r, seen) \in Local /\ Tidy(AfterPost(l, r, seen)) /\ AfterPost(l, r, seen).pc # "idle"
    <3>1. CASE seen \in {"granted", "ok"}
      BY <1>0, <2>2, <3>1, AgainTyped, EndsTyped DEF AfterPost, Message
    <3>2. CASE seen \notin {"granted", "ok"}
      <4>1. seen \in Message
        BY <2>1, <3>2 DEF Seen
      <4> DEFINE m == [l EXCEPT !.first = seen]
      <4>2. m \in Local
        BY <1>0, <4>1 DEF Local
      <4>3. Enter(m, "cookies") \in Local /\ Tidy(Enter(m, "cookies")) /\ Enter(m, "cookies").pc = "cookies"
        BY <4>2, EnterTyped DEF Phase
      <4>4. AfterPost(l, r, seen) \in {Enter(m, "cookies"), Ends(l, seen)}
        BY <3>2 DEF AfterPost
      <4> HIDE DEF m
      <4>5. QED
        BY <1>0, <4>1, <4>3, <4>4, EndsTyped
    <3>3. QED
      BY <3>1, <3>2
  <2>4. QED
    BY <2>1, <2>3, AskedTyped
<1>5. CASE Ask(f, "cookies", AfterCookieRequest)
  <2>1. PICK seen \in Seen : Asked(f, seen, AfterCookieRequest(l, r, seen))
    BY <1>5, <1>00, CookiesAsked
  <2>2. l.pc = "cookies"
    BY <1>5 DEF Ask
  <2>3. /\ AfterCookieRequest(l, r, seen) \in Local /\ Tidy(AfterCookieRequest(l, r, seen))
        /\ AfterCookieRequest(l, r, seen).pc # "idle"
    <3>1. l.k \in DOMAIN Plan(l) /\ seen \in {Answer(l, r), "lost"}
      BY <2>1 DEF Asked
    <3>2. QED
      BY <1>0, <2>1, <2>2, <3>1, CookieTyped
  <2>4. QED
    BY <2>1, <2>3, AskedTyped
<1>6. CASE NoCookieTook(f)
  <2> DEFINE m == [l EXCEPT !.first = Or(l.last, l.first)]
             new == Enter(m, IF m.alt \/ m.kind = "balance" THEN "end" ELSE "alternate")
  <2>1. flow' = [flow EXCEPT ![f] = new] /\ cache' = cache /\ done' = done
    BY <1>0, <1>6 DEF NoCookieTook, Local
  <2>2. m \in Local
    BY <1>0, OrIs DEF Local
  <2>3. new \in Local /\ Tidy(new)
    <3> HIDE DEF m
    <3>1. QED
      BY <2>2, EnterTyped DEF Phase
  <2> HIDE DEF new
  <2>4. QED
    BY <1>0, <1>00, <2>1, <2>3, OneFlow
<1>7. CASE Ask(f, "alternate", AfterAlternate)
  <2>1. PICK seen \in Seen : Asked(f, seen, AfterAlternate(l, r, seen))
    BY <1>7, <1>00, AlternateAsked
  <2>2. l.pc = "alternate"
    BY <1>7 DEF Ask
  <2>3. r.id \in Nat
    BY <1>0, <2>1, RequestIs DEF Asked, AnyAsk
  <2> HIDE DEF r
  <2>4. AfterAlternate(l, r, seen) \in Local /\ Tidy(AfterAlternate(l, r, seen)) /\ AfterAlternate(l, r, seen).pc # "idle"
    <3>1. CASE seen # "ok"
      BY <1>0, <2>2, <3>1, AgainTyped DEF AfterAlternate
    <3>2. CASE seen = "ok"
      <4> DEFINE m == [l EXCEPT !.user = r.id, !.alt = TRUE, !.last = "none"]
      <4>1. m \in Local
        BY <1>0, <2>3 DEF Local, Message
      <4>2. AfterAlternate(l, r, seen) = Enter(m, "cookies")
        BY <3>2 DEF AfterAlternate
      <4> HIDE DEF m
      <4>3. Enter(m, "cookies") \in Local /\ Tidy(Enter(m, "cookies")) /\ Enter(m, "cookies").pc = "cookies"
        BY <4>1, EnterTyped DEF Phase
      <4>4. QED
        BY <4>2, <4>3
    <3>3. QED
      BY <3>1, <3>2
  <2>5. QED
    BY <2>1, <2>4, AskedTyped
<1>8. CASE NoAlternate(f)
  <2>1. Enter(l, "end") \in Local /\ Tidy(Enter(l, "end"))
    BY <1>0, EnterTyped DEF Phase
  <2>2. QED
    BY <1>0, <1>00, <1>8, <2>1, OneFlow DEF NoAlternate
<1>9. QED
  BY <1>1, <1>2, <1>3, <1>4, <1>5, <1>6, <1>7, <1>8 DEF Step

-----------------------------------------------------------------------------
(* A check-in that is made is reported so. *)

\* n is what the flow is after a step that asks.
Becomes(n, seen, after) ==
    /\ n.kind = after.kind /\ n.pc = after.pc /\ n.k = after.k /\ n.user = after.user
    /\ n.alt = after.alt /\ n.first = after.first /\ n.last = after.last
    /\ n.captcha \in {after.captcha, "used"}
    /\ n.told = (after.told \/ seen \in {"granted", "already"})
    /\ n.lost = (after.lost \/ seen = "lost")

LEMMA AskedBecomes ==
    ASSUME TypeOK, NEW f \in Flow, NEW seen, NEW after \in Local, Asked(f, seen, after)
    PROVE  /\ Becomes(flow'[f], seen, after)
           /\ \A g \in Flow \ {f} : flow'[g] = flow[g]
           /\ setup' = setup /\ (done \/ seen = "granted" => done')
           /\ seen \in {Answer(flow[f], Plan(flow[f])[flow[f].k]), "lost"}
           /\ flow[f].k \in DOMAIN Plan(flow[f])
<1>1. PICK captcha \in {after.captcha, "used"} :
         flow' = [flow EXCEPT ![f] =
                     [after EXCEPT !.captcha = captcha,
                                   !.told = @ \/ seen \in {"granted", "already"},
                                   !.lost = @ \/ seen = "lost"]]
  BY DEF Asked
<1> DEFINE n == [after EXCEPT !.captcha = captcha,
                              !.told = @ \/ seen \in {"granted", "already"},
                              !.lost = @ \/ seen = "lost"]
<1>2. Becomes(n, seen, after)
  BY <1>1 DEF Becomes, Local
<1>3. flow'[f] = n /\ \A g \in Flow \ {f} : flow'[g] = flow[g]
  BY <1>1 DEF TypeOK
<1> HIDE DEF n
<1>4. /\ setup' = setup /\ (done \/ seen = "granted" => done')
      /\ seen \in {Answer(flow[f], Plan(flow[f])[flow[f].k]), "lost"}
      /\ flow[f].k \in DOMAIN Plan(flow[f])
  BY Zenon DEF Asked
<1>5. QED
  BY <1>2, <1>3, <1>4

-----------------------------------------------------------------------------
\* Where a flow is that was told the check-in is made, and what it then knows:
\* d is done.  Only sign_in, the endpoint that is not final, lets it go on.
Knows(l) ==
    \/ l.pc = "end" /\ l.first \in {"granted", "already"}
    \/ AsksSignIn /\ l.pc = "cookies" /\ ~l.alt /\ l.last = "already"
    \/ AsksSignIn /\ l.pc = "alternate" /\ l.first = "already"
    \/ /\ AsksSignIn /\ l.pc = "cookies" /\ l.alt
       /\ \E c \in 1 .. Cookies : Authorised(Request("sign_in", c, l.user))
       /\ \/ l.last = "already"
          \/ \A c \in 1 .. Cookies :
                Authorised(Request("sign_in", c, l.user)) => l.k <= 2 * c - 1

TellsDone(l, d) == l.told /\ ~l.lost => l.kind # "balance" /\ d /\ Knows(l)

\* The panels whose sign_in does not lead to another message.
Plain == setup.refuses = "status" /\ ~CaptchaOnEach

\* After a cookie request the kept message still tells of a check-in made.
LEMMA CookieTells ==
    ASSUME NEW l \in Local, setup \in Setup, Plain, l.pc = "cookies",
           l.k \in DOMAIN Plan(l), TellsDone(l, done),
           NEW seen \in {Answer(l, Plan(l)[l.k]), "lost"},
           NEW d, done \/ seen = "granted" => d,
           NEW n, Becomes(n, seen, AfterCookieRequest(l, Plan(l)[l.k], seen))
    PROVE  TellsDone(n, d)
<1> DEFINE r == Plan(l)[l.k]
           after == AfterCookieRequest(l, r, seen)
<1>00. Becomes(n, seen, after)
  OBVIOUS
<1>0. l.k \in Nat /\ Cookies \in Nat /\ l.first \in Message /\ l.last \in Message
  BY CheckinAssumption DEF Local
<1>1. after.told = l.told /\ after.lost = l.lost /\ after.kind = l.kind
  BY DEF AfterCookieRequest, AfterBalanceCookie, AfterPowCookie, AfterCookie, Ends, Again, Local
<1> SUFFICES ASSUME n.told, ~n.lost PROVE n.kind # "balance" /\ d /\ Knows(n)
  BY DEF TellsDone
<1>2. /\ ~l.lost /\ seen # "lost" /\ seen = Answer(l, r)
      /\ l.told \/ seen \in {"granted", "already"}
  BY <1>1 DEF Becomes
<1>3. /\ seen \in {"granted", "already", "captcha"} => r.path \in setup.offers /\ Authorised(r)
      /\ seen \in {"granted", "already"} => r.path \in Endpoint
      /\ seen = "already" => done
  BY <1>2, AnswerIs
<1>4. l.kind # "balance"
  <2>1. CASE l.told
    BY <1>2, <2>1 DEF TellsDone
  <2>2. CASE seen \in {"granted", "already"}
    <3>1. r.path # "self"
      BY <1>3, <2>2 DEF Endpoint
    <3>2. QED
      BY <3>1, RequestIs
  <2>3. QED
    BY <1>2, <2>1, <2>2
<1>5. d
  <2>1. l.told => done
    BY <1>2 DEF TellsDone
  <2>2. QED
    BY <1>2, <1>3, <2>1
<1>6. PICK c \in 1 .. Cookies :
         \/ l.k = 2 * c - 1 /\ r = Request(First(l), c, l.user)
         \/ l.k = 2 * c /\ r = Request("checkin", c, l.user)
  BY <1>4, CookieRequestIs
<1> HIDE DEF r
<1>7. CASE seen = "granted"
  <2>1. setup.pow \/ ~setup.pow
    OBVIOUS
  <2>2. after = Ends(l, "granted")
    BY <1>4, <1>7 DEF AfterCookieRequest, AfterPowCookie, AfterCookie
  <2>3. after.pc = "end" /\ after.first = "granted"
    BY <2>2 DEF Ends, Local
  <2>4. QED
    BY <1>1, <1>4, <1>5, <1>00, <2>3 DEF Becomes, Knows
<1>8. CASE seen # "granted" /\ setup.pow
  <2>1. ~l.told
    BY <1>2, <1>8 DEF TellsDone, Knows, AsksSignIn
  <2>2. seen = "already" /\ r.path \in Endpoint
    BY <1>2, <1>3, <1>8, <2>1
  <2>3. r.path # "challenge"
    BY <2>2 DEF Endpoint
  <2>4. ~IsError(seen) /\ ~SessionFailure(seen)
    BY <2>2 DEF IsError, SessionFailure, Refusal
  <2>5. after = Ends(l, "already")
    BY <1>4, <1>8, <2>2, <2>3, <2>4 DEF AfterCookieRequest, AfterPowCookie
  <2>6. after.pc = "end" /\ after.first = "already"
    BY <2>5 DEF Ends, Local
  <2>7. QED
    BY <1>1, <1>4, <1>5, <1>00, <2>6 DEF Becomes, Knows
<1>9. CASE seen # "granted" /\ ~setup.pow /\ l.k = 2 * c
  <2>1. r.path = "checkin"
    BY <1>6, <1>9, <1>0 DEF Request
  <2>2. CASE seen = "already"
    <3>1. ~IsError(seen) /\ ~SessionFailure(seen)
      BY <2>2 DEF IsError, SessionFailure, Refusal
    <3>2. after = Ends(l, "already")
      BY <1>4, <1>9, <2>1, <2>2, <3>1 DEF AfterCookieRequest, AfterCookie
    <3>3. after.pc = "end" /\ after.first = "already"
      BY <3>2 DEF Ends, Local
    <3>4. QED
      BY <1>1, <1>4, <1>5, <1>00, <3>3 DEF Becomes, Knows
  <2>3. CASE seen # "already"
    <3>1. l.told /\ Knows(l) /\ AsksSignIn /\ ~setup.captcha /\ done
      <4>1. l.told /\ Knows(l) /\ done
        BY <1>2, <1>9, <2>3 DEF TellsDone
      <4>2. AsksSignIn
        BY <4>1 DEF Knows
      <4>3. QED
        BY <4>1, <4>2 DEF Plain, CaptchaOnEach, AsksSignIn
    <3>2. IsError(seen)
      BY <1>2, <1>9, <2>1, <2>3, <3>1 DEF Answer, IsError, Endpoint, Plain
    <3>3. after = Again([l EXCEPT !.last = Or(l.last, seen)])
      BY <1>4, <1>9, <3>2 DEF AfterCookieRequest, AfterCookie, Local
    <3>4. /\ after.pc = "cookies" /\ after.k = l.k + 1 /\ after.alt = l.alt
          /\ after.user = l.user /\ after.last = Or(l.last, seen)
      BY <3>3, <1>0 DEF Again, Local
    <3>5. l.last = "already" => after.last = "already"
      BY <3>4 DEF Or
    <3>6. ASSUME NEW e \in 1 .. Cookies, l.k <= 2 * e - 1 PROVE l.k + 1 <= 2 * e - 1
      BY <1>0, <1>9, <3>6
    <3>7. Knows(n)
      <4>1. n.pc = "cookies" /\ n.k = l.k + 1 /\ n.alt = l.alt /\ n.user = l.user
            /\ (l.last = "already" => n.last = "already")
        BY <1>00, <3>4, <3>5 DEF Becomes
      <4>2. CASE l.last = "already"
        BY <3>1, <4>1, <4>2 DEF Knows
      <4>3. CASE l.last # "already"
        <5>1. /\ AsksSignIn /\ l.alt
              /\ \E e \in 1 .. Cookies : Authorised(Request("sign_in", e, l.user))
              /\ \A e \in 1 .. Cookies :
                    Authorised(Request("sign_in", e, l.user)) => l.k <= 2 * e - 1
          BY <3>1, <4>3 DEF Knows
        <5>2. \A e \in 1 .. Cookies :
                    Authorised(Request("sign_in", e, n.user)) => n.k <= 2 * e - 1
          BY <3>6, <4>1, <5>1
        <5>3. QED
          BY <4>1, <5>1, <5>2 DEF Knows
      <4>4. QED
        BY <4>2, <4>3
    <3>8. QED
      BY <1>1, <1>4, <1>5, <1>00, <3>7 DEF Becomes
  <2>4. QED
    BY <2>2, <2>3
<1>10. CASE seen # "granted" /\ ~setup.pow /\ l.k = 2 * c - 1
  <2>1. r = Request("sign_in", c, l.user) /\ r.path = "sign_in"
    BY <1>6, <1>10, <1>0 DEF Request, First
  <2>2. CASE seen = "already"
    <3>1. ~IsError(seen) /\ AsksSignIn /\ Authorised(r)
      BY <1>3, <1>10, <2>1, <2>2 DEF IsError, Refusal, AsksSignIn
    <3>2. after = Again([l EXCEPT !.last = "already"])
      BY <1>4, <1>10, <2>1, <2>2, <3>1 DEF AfterCookieRequest, AfterCookie
    <3>3. after.pc = "cookies" /\ after.user = l.user /\ after.last = "already"
      BY <3>2 DEF Again, Local
    <3>4. n.pc = "cookies" /\ n.user = l.user /\ n.last = "already"
      BY <1>00, <3>3 DEF Becomes
    <3>5. Knows(n)
      BY <2>1, <3>1, <3>4 DEF Knows
    <3>6. QED
      BY <1>1, <1>4, <1>5, <1>00, <3>5 DEF Becomes
  <2>3. CASE seen # "already"
    <3>1. l.told /\ Knows(l) /\ AsksSignIn /\ ~setup.captcha /\ done
      <4>1. l.told /\ Knows(l) /\ done
        BY <1>2, <1>10, <2>3 DEF TellsDone
      <4>2. AsksSignIn
        BY <4>1 DEF Knows
      <4>3. QED
        BY <4>1, <4>2 DEF Plain, CaptchaOnEach, AsksSignIn
    <3>2. IsError(seen) /\ ~Authorised(r)
      BY <1>2, <1>10, <2>1, <2>3, <3>1 DEF Answer, IsError, Endpoint, Plain, AsksSignIn
    <3>3. after = Again([l EXCEPT !.last = Or(l.last, seen)])
      BY <1>4, <1>10, <3>2 DEF AfterCookieRequest, AfterCookie, Local
    <3>4. /\ after.pc = "cookies" /\ after.k = l.k + 1 /\ after.alt = l.alt
          /\ after.user = l.user /\ after.last = Or(l.last, seen)
      BY <3>3, <1>0 DEF Again, Local
    <3>5. l.last = "already" => after.last = "already"
      BY <3>4 DEF Or
    <3>6. ASSUME NEW e \in 1 .. Cookies, l.k <= 2 * e - 1, e # c PROVE l.k + 1 <= 2 * e - 1
      BY <1>0, <1>10, <3>6
    <3>7. Knows(n)
      <4>1. n.pc = "cookies" /\ n.k = l.k + 1 /\ n.alt = l.alt /\ n.user = l.user
            /\ (l.last = "already" => n.last = "already")
        BY <1>00, <3>4, <3>5 DEF Becomes
      <4>2. CASE l.last = "already"
        BY <3>1, <4>1, <4>2 DEF Knows
      <4>3. CASE l.last # "already"
        <5>1. /\ AsksSignIn /\ l.alt
              /\ \E e \in 1 .. Cookies : Authorised(Request("sign_in", e, l.user))
              /\ \A e \in 1 .. Cookies :
                    Authorised(Request("sign_in", e, l.user)) => l.k <= 2 * e - 1
          BY <3>1, <4>3 DEF Knows
        <5>2. ~Authorised(Request("sign_in", c, l.user))
          BY <2>1, <3>2
        <5>3. \A e \in 1 .. Cookies :
                    Authorised(Request("sign_in", e, n.user)) => n.k <= 2 * e - 1
          BY <3>6, <4>1, <5>1, <5>2
        <5>4. QED
          BY <4>1, <5>1, <5>3 DEF Knows
      <4>4. QED
        BY <4>2, <4>3
    <3>8. QED
      BY <1>1, <1>4, <1>5, <1>00, <3>7 DEF Becomes
  <2>4. QED
    BY <2>2, <2>3
<1>11. QED
  BY <1>6, <1>7, <1>8, <1>9, <1>10

\* No step of a flow makes a check-in that was made and told go unreported.
LEMMA StepTells ==
    ASSUME FlowInv, NEW f \in Flow, Step(f), Plain,
           \A g \in Flow : TellsDone(flow[g], done)
    PROVE  \A g \in Flow : TellsDone(flow'[g], done')
<1> DEFINE l == flow[f]
           r == Plan(l)[l.k]
           n == flow'[f]
<1>0. /\ l \in Local /\ Tidy(l) /\ setup \in Setup /\ TypeOK
      /\ TellsDone(l, done) /\ l.k \in Nat
  <2>1. l \in Local /\ Tidy(l) /\ setup \in Setup /\ TypeOK
    BY CheckinAssumption DEF FlowInv, TypeOK
  <2>2. QED
    BY <2>1 DEF Local
\* It is enough to look at the flow that steps.
<1>1. ASSUME \A g \in Flow \ {f} : flow'[g] = flow[g], done => done', TellsDone(n, done')
      PROVE  \A g \in Flow : TellsDone(flow'[g], done')
  <2>1. \A g \in Flow \ {f} : TellsDone(flow[g], done) => TellsDone(flow[g], done')
    BY <1>1 DEF TellsDone
  <2>2. QED
    BY <1>1, <2>1
<1>2. ASSUME NEW m, flow' = [flow EXCEPT ![f] = m], done' = done, TellsDone(m, done)
      PROVE  \A g \in Flow : TellsDone(flow'[g], done')
  <2>1. n = m /\ \A g \in Flow \ {f} : flow'[g] = flow[g]
    BY <1>0, <1>2 DEF TypeOK
  <2>2. QED
    BY <1>1, <1>2, <2>1
\* Where nothing was told yet.
<1>3. l.pc \in {"lookup", "probe", "post"} => ~(l.told /\ ~l.lost)
  BY <1>0 DEF TellsDone, Knows
<1>4. CASE Lookup(f)
  <2> DEFINE known == IF setup.configured > 0 THEN setup.configured
                      ELSE IF cache.expired THEN 0 ELSE cache.user
             m == IF known > 0 THEN Resolved(l, known) ELSE Enter(l, "probe")
  <2>1. flow' = [flow EXCEPT ![f] = m] /\ done' = done /\ l.pc = "lookup"
    BY <1>4 DEF Lookup, At
  <2>2. \A id : Resolved(l, id).told = l.told /\ Resolved(l, id).lost = l.lost
    BY <1>0 DEF Resolved, Enter, Local
  <2>3. Enter(l, "probe").told = l.told /\ Enter(l, "probe").lost = l.lost
    BY <1>0 DEF Enter, Local
  <2> HIDE DEF known
  <2>4. TellsDone(m, done)
    BY <1>3, <2>1, <2>2, <2>3 DEF TellsDone
  <2> HIDE DEF m
  <2>5. QED
    BY <1>2, <2>1, <2>4
<1>5. CASE Ask(f, "probe", AfterProbe)
  <2>1. PICK seen \in Seen : Asked(f, seen, AfterProbe(l, r, seen))
    BY <1>0, <1>5, ProbeAsked
  <2>2. l.pc = "probe"
    BY <1>5 DEF Ask
  <2>3. r.path = "self" /\ r.id \in Nat /\ seen \in {Answer(l, r), "lost"}
    BY <1>0, <2>1, <2>2, RequestIs DEF Asked, AnyAsk
  <2>4. seen \notin {"granted", "already"}
    BY <2>3, AnswerIs DEF Endpoint
  <2> HIDE DEF r
  <2>5. /\ AfterProbe(l, r, seen) \in Local
        /\ AfterProbe(l, r, seen).told = l.told /\ AfterProbe(l, r, seen).lost = l.lost
    <3>1. /\ Again(l) \in Local /\ Again(l).told = l.told /\ Again(l).lost = l.lost
      BY <1>0 DEF Again, Local
    <3>2. ASSUME NEW id \in Nat
          PROVE  /\ Resolved(l, id) \in Local
                 /\ Resolved(l, id).told = l.told /\ Resolved(l, id).lost = l.lost
      <4>1. Resolved(l, id).lost = l.lost
        BY <1>0 DEF Resolved, Enter, Local
      <4>2. QED
        BY <1>0, <2>2, <4>1, ResolvedTyped DEF Tidy
    <3>3. setup.owner \in Nat
      BY <1>0 DEF Setup, Id
    <3>4. QED
      BY <2>3, <3>1, <3>2, <3>3 DEF AfterProbe
  <2>6. n.told = l.told /\ n.lost = (l.lost \/ seen = "lost")
    <3>1. Becomes(n, seen, AfterProbe(l, r, seen))
      BY <1>0, <2>1, <2>5, AskedBecomes
    <3>2. l.told \in BOOLEAN
      BY <1>0 DEF Local
    <3>3. QED
      BY <2>4, <2>5, <3>1, <3>2 DEF Becomes
  <2>7. TellsDone(n, done')
    BY <1>3, <2>2, <2>6 DEF TellsDone
  <2>8. QED
    BY <1>0, <1>1, <2>1, <2>5, <2>7, AskedBecomes
<1>6. CASE Unresolved(f)
  <2>1. l.pc = "probe" /\ flow' = [flow EXCEPT ![f] = Resolved(l, 0)] /\ done' = done
    BY <1>6 DEF Unresolved, UsedUp, At
  <2>2. Resolved(l, 0).told = l.told /\ Resolved(l, 0).lost = l.lost
    BY <1>0 DEF Resolved, Enter, Local
  <2>3. TellsDone(Resolved(l, 0), done)
    BY <1>3, <2>1, <2>2 DEF TellsDone
  <2>4. QED
    BY <1>2, <2>1, <2>3
<1>7. CASE Ask(f, "post", AfterPost)
  <2>1. PICK seen \in Seen : Asked(f, seen, AfterPost(l, r, seen))
    BY <1>0, <1>7, PostAsked
  <2>2. l.pc = "post"
    BY <1>7 DEF Ask
  <2>3. /\ seen \in {Answer(l, r), "lost"} /\ l.k \in DOMAIN Plan(l)
        /\ l.kind = "balance" => r.path = "self"
    BY <1>0, <2>1, RequestIs DEF Asked
  <2>4. seen \in {"granted", "already"} => r.path \in Endpoint
    BY <2>3, AnswerIs
  <2>5. seen = "already" => done
    BY <2>3, AnswerIs
  <2> HIDE DEF r
  <2>6. /\ AfterPost(l, r, seen) \in Local
        /\ AfterPost(l, r, seen).told = l.told /\ AfterPost(l, r, seen).lost = l.lost
        /\ AfterPost(l, r, seen).kind = l.kind
    <3>1. Again(l) \in Local /\ Again(l).told = l.told /\ Again(l).lost = l.lost
          /\ Again(l).kind = l.kind
      BY <1>0 DEF Again, Local
    <3>2. ASSUME NEW x \in Message
          PROVE  Ends(l, x) \in Local /\ Ends(l, x).told = l.told /\ Ends(l, x).lost = l.lost
                 /\ Ends(l, x).kind = l.kind
      BY <1>0 DEF Ends, Local, Phase
    <3>3. ASSUME NEW x \in Message
          PROVE  LET m == Enter([l EXCEPT !.first = x], "cookies")
                 IN m \in Local /\ m.told = l.told /\ m.lost = l.lost /\ m.kind = l.kind
      <4> DEFINE y == [l EXCEPT !.first = x]
      <4>1. y \in Local /\ y.told = l.told /\ y.lost = l.lost /\ y.kind = l.kind
        BY <1>0 DEF Local
      <4> HIDE DEF y
      <4>2. Enter(y, "cookies") \in Local /\ Enter(y, "cookies").told = l.told
            /\ Enter(y, "cookies").lost = l.lost /\ Enter(y, "cookies").kind = l.kind
        BY <4>1, EnterTyped DEF Phase
      <4>3. QED
        BY <4>2 DEF y
    <3>4. "granted" \in Message /\ (seen # "ok" => seen \in Message)
      BY <2>1 DEF Seen, Message
    <3>5. QED
      BY <3>1, <3>2, <3>3, <3>4 DEF AfterPost
  <2>7. /\ Becomes(n, seen, AfterPost(l, r, seen)) /\ (done \/ seen = "granted" => done')
        /\ \A g \in Flow \ {f} : flow'[g] = flow[g]
    BY <1>0, <2>1, <2>6, AskedBecomes DEF r
  <2>8. TellsDone(n, done')
    <3> SUFFICES ASSUME n.told, ~n.lost PROVE n.kind # "balance" /\ done' /\ Knows(n)
      BY DEF TellsDone
    <3>1. seen \in {"granted", "already"} /\ r.path \in Endpoint
      BY <1>3, <2>2, <2>4, <2>6, <2>7 DEF Becomes
    <3>2. l.kind # "balance" /\ r.path # "challenge"
      BY <2>3, <3>1 DEF Endpoint, r
    <3>3. AfterPost(l, r, seen) = Ends(l, seen)
      BY <3>1, <3>2 DEF AfterPost, ShouldFallback
    <3>4. AfterPost(l, r, seen).pc = "end" /\ AfterPost(l, r, seen).first = seen
      BY <1>0, <3>3 DEF Ends, Local
    <3>5. QED
      BY <2>5, <2>6, <2>7, <3>1, <3>2, <3>4 DEF Becomes, Knows
  <2>9. QED
    BY <1>1, <2>7, <2>8
<1>8. CASE Ask(f, "cookies", AfterCookieRequest)
  <2>1. PICK seen \in Seen : Asked(f, seen, AfterCookieRequest(l, r, seen))
    BY <1>0, <1>8, CookiesAsked
  <2>2. l.pc = "cookies" /\ l.k \in DOMAIN Plan(l)
    BY <1>8 DEF Ask
  <2>3. AfterCookieRequest(l, r, seen) \in Local
    BY <1>0, <2>1, <2>2, CookieTyped DEF Asked
  <2>4. /\ Becomes(n, seen, AfterCookieRequest(l, r, seen)) /\ (done \/ seen = "granted" => done')
        /\ \A g \in Flow \ {f} : flow'[g] = flow[g]
        /\ seen \in {Answer(l, r), "lost"}
    BY <1>0, <2>1, <2>3, AskedBecomes
  <2>5. TellsDone(n, done')
    BY <1>0, <2>2, <2>4, CookieTells
  <2>6. QED
    BY <1>1, <2>4, <2>5
<1>9. CASE NoCookieTook(f)
  <2> DEFINE m == [l EXCEPT !.first = Or(l.last, l.first)]
             pc == IF m.alt \/ m.kind = "balance" THEN "end" ELSE "alternate"
             new == Enter(m, pc)
  <2>1. flow' = [flow EXCEPT ![f] = new] /\ done' = done
    BY <1>0, <1>9 DEF NoCookieTook, Local
  <2>2. l.pc = "cookies" /\ l.k \notin DOMAIN Plan(l)
    BY <1>9 DEF NoCookieTook, UsedUp, At
  <2>3. /\ m \in Local /\ m.alt = l.alt /\ m.kind = l.kind /\ m.told = l.told
        /\ m.lost = l.lost /\ m.first = Or(l.last, l.first)
    <3>1. l.last \in Message /\ l.first \in Message
      BY <1>0 DEF Local
    <3>2. Or(l.last, l.first) \in Message
      BY <3>1, OrIs
    <3>3. QED
      BY <1>0, <3>2 DEF Local
  <2> HIDE DEF m
  <2>4. /\ new \in Local /\ new.pc = pc /\ new.kind = l.kind /\ new.told = l.told
        /\ new.lost = l.lost /\ new.first = Or(l.last, l.first)
    BY <2>3, EnterTyped DEF Phase
  <2> HIDE DEF new
  <2>5. TellsDone(new, done)
    <3> SUFFICES ASSUME l.told, ~l.lost PROVE Knows(new) /\ l.kind # "balance" /\ done
      BY <2>4 DEF TellsDone
    <3>1. Knows(l) /\ l.kind # "balance" /\ done
      BY <1>0 DEF TellsDone
    <3>2. l.last = "already"
      <4>1. CASE ~l.alt
        BY <2>2, <3>1, <4>1 DEF Knows
      <4>2. CASE l.alt
        <5>1. Plan(l) = CookiePlan(l)
          BY <2>2 DEF Plan
        <5>2. l.k > 2 * Cookies
          <6>1. l.k \notin 1 .. 2 * Cookies /\ l.k # 0
            BY <1>0, <2>2, <3>1, <5>1, CookiePlanIs DEF Tidy
          <6>2. QED
            BY <1>0, <6>1, CheckinAssumption
        <5>3. \A c \in 1 .. Cookies : ~(l.k <= 2 * c - 1)
          BY <1>0, <5>2, CheckinAssumption
        <5>4. QED
          BY <2>2, <3>1, <4>2, <5>3 DEF Knows
      <4>3. QED
        BY <4>1, <4>2
    <3>3. new.first = "already"
      BY <2>4, <3>2 DEF Or
    <3>4. AsksSignIn
      BY <2>2, <3>1 DEF Knows
    <3>5. new.pc \in {"end", "alternate"}
      BY <2>4
    <3>6. QED
      BY <3>1, <3>3, <3>4, <3>5 DEF Knows
  <2>6. QED
    BY <1>2, <2>1, <2>5
<1>10. CASE Ask(f, "alternate", AfterAlternate)
  <2>1. PICK seen \in Seen : Asked(f, seen, AfterAlternate(l, r, seen))
    BY <1>0, <1>10, AlternateAsked
  <2>2. l.pc = "alternate" /\ l.k \in DOMAIN Plan(l)
    BY <1>10 DEF Ask
  <2>3. r \in IdAsk /\ seen \in {Answer(l, r), "lost"}
    BY <1>0, <2>1, <2>2, RequestIs DEF Asked
  <2>4. seen \notin {"granted", "already"} /\ (seen = "ok" => Authorised(r))
    BY <2>3, AnswerIs DEF Endpoint, IdAsk
  <2>5. Asked(f, seen, AfterAlternate(l, r, seen)) /\ r.by \in 1 .. Cookies /\ r.id \in Nat
    BY <2>1, <2>3 DEF IdAsk, Id
  <2>6. ASSUME seen # "ok"
        PROVE  LET a == AfterAlternate(l, r, seen)
               IN a \in Local /\ a.pc = "alternate" /\ a.kind = l.kind /\ a.told = l.told
                  /\ a.lost = l.lost /\ a.first = l.first
    BY <1>0, <2>2, <2>6 DEF AfterAlternate, Again, Local
  <2>7. ASSUME seen = "ok"
        PROVE  LET a == AfterAlternate(l, r, seen)
               IN a \in Local /\ a.pc = "cookies" /\ a.kind = l.kind /\ a.told = l.told
                  /\ a.lost = l.lost /\ a.k = 1 /\ a.alt /\ a.user = r.id
    <3> DEFINE m == [l EXCEPT !.user = r.id, !.alt = TRUE, !.last = "none"]
    <3>1. m \in Local /\ m.alt /\ m.user = r.id /\ m.kind = l.kind /\ m.told = l.told
          /\ m.lost = l.lost
      BY <1>0, <2>5 DEF Local, Message
    <3>2. AfterAlternate(l, r, seen) = Enter(m, "cookies")
      BY <2>7 DEF AfterAlternate
    <3> HIDE DEF m
    <3>3. QED
      BY <3>1, <3>2, EnterTyped DEF Phase
  <2>8. AfterAlternate(l, r, seen) \in Local
    BY <2>6, <2>7
  <2>9. /\ Becomes(n, seen, AfterAlternate(l, r, seen)) /\ (done \/ seen = "granted" => done')
        /\ \A g \in Flow \ {f} : flow'[g] = flow[g]
    BY <1>0, <2>5, <2>8, AskedBecomes
  <2> HIDE DEF r
  <2>10. TellsDone(n, done')
    <3> SUFFICES ASSUME n.told, ~n.lost PROVE n.kind # "balance" /\ done' /\ Knows(n)
      BY DEF TellsDone
    <3>1. l.told /\ ~l.lost
      BY <2>4, <2>6, <2>7, <2>9 DEF Becomes
    <3>2. l.kind # "balance" /\ done /\ AsksSignIn /\ l.first = "already"
      BY <1>0, <2>2, <3>1 DEF TellsDone, Knows
    <3>3. CASE seen # "ok"
      BY <2>6, <2>9, <3>2, <3>3 DEF Becomes, Knows
    <3>4. CASE seen = "ok"
      <4>1. n.pc = "cookies" /\ n.k = 1 /\ n.alt /\ n.user = r.id /\ n.kind = l.kind
        BY <2>7, <2>9, <3>4 DEF Becomes
      <4>2. Authorised(Request("sign_in", r.by, r.id))
        BY <2>4, <3>4 DEF Authorised, Request
      <4>3. \A c \in 1 .. Cookies : n.k <= 2 * c - 1
        BY <4>1, CheckinAssumption
      <4>4. QED
        BY <2>5, <2>9, <3>2, <4>1, <4>2, <4>3 DEF Knows
    <3>5. QED
      BY <3>3, <3>4
  <2>11. QED
    BY <1>1, <2>9, <2>10
<1>11. CASE NoAlternate(f)
  <2>1. l.pc = "alternate" /\ flow' = [flow EXCEPT ![f] = Enter(l, "end")] /\ done' = done
    BY <1>11 DEF NoAlternate, UsedUp, At
  <2>2. /\ Enter(l, "end").pc = "end" /\ Enter(l, "end").first = l.first
        /\ Enter(l, "end").told = l.told /\ Enter(l, "end").lost = l.lost
        /\ Enter(l, "end").kind = l.kind
    BY <1>0, EnterTyped DEF Phase
  <2>3. TellsDone(Enter(l, "end"), done)
    BY <1>0, <2>1, <2>2 DEF TellsDone, Knows
  <2>4. QED
    BY <1>2, <2>1, <2>3
<1>12. QED
  BY <1>4, <1>5, <1>6, <1>7, <1>8, <1>9, <1>10, <1>11 DEF Step

\* Everywhere else the answer that tells of the check-in is the last one.
Ended(l) == l.told => l.pc = "end" /\ l.first \in {"granted", "already"}

LEMMA AskEnds ==
    ASSUME TypeOK, NEW f \in Flow, flow[f].pc # "end", \A g \in Flow : Ended(flow[g]),
           NEW seen, NEW after \in Local, Asked(f, seen, after), after.told = flow[f].told,
           seen \in {"granted", "already"} =>
               after.pc = "end" /\ after.first \in {"granted", "already"}
    PROVE  \A g \in Flow : Ended(flow'[g])
<1>1. /\ Becomes(flow'[f], seen, after)
      /\ \A g \in Flow \ {f} : flow'[g] = flow[g]
  BY AskedBecomes
<1>2. ~flow[f].told
  BY DEF Ended
<1>3. Ended(flow'[f])
  BY <1>1, <1>2 DEF Becomes, Ended
<1>4. QED
  BY <1>1, <1>3 DEF Ended

LEMMA StepEnds ==
    ASSUME FlowInv, NEW f \in Flow, Step(f), ~AsksSignIn, \A g \in Flow : Ended(flow[g])
    PROVE  \A g \in Flow : Ended(flow'[g])
<1> DEFINE l == flow[f]
           r == Plan(l)[l.k]
<1>0. l \in Local /\ Tidy(l) /\ setup \in Setup /\ TypeOK
  BY CheckinAssumption DEF FlowInv, TypeOK
\* A step that asks nothing tells nothing.
<1>1. ASSUME NEW m, flow' = [flow EXCEPT ![f] = m], m.told = l.told, l.pc # "end"
      PROVE  \A g \in Flow : Ended(flow'[g])
  <2>1. flow'[f] = m /\ \A g \in Flow \ {f} : flow'[g] = flow[g]
    BY <1>0, <1>1 DEF TypeOK
  <2>2. QED
    BY <1>1, <2>1 DEF Ended
<1>2. \A id, x : /\ Resolved(l, id).told = l.told
                 /\ Enter(l, x).told = l.told
  BY <1>0 DEF Resolved, Enter, Local
<1>3. CASE Lookup(f)
  <2> DEFINE known == IF setup.configured > 0 THEN setup.configured
                      ELSE IF cache.expired THEN 0 ELSE cache.user
             m == IF known > 0 THEN Resolved(l, known) ELSE Enter(l, "probe")
  <2>1. flow' = [flow EXCEPT ![f] = m] /\ l.pc = "lookup"
    BY <1>3 DEF Lookup, At
  <2> HIDE DEF known
  <2>2. m.told = l.told
    BY <1>2
  <2> HIDE DEF m
  <2>3. QED
    BY <1>1, <2>1, <2>2
<1>4. CASE Ask(f, "probe", AfterProbe)
  <2>1. PICK seen \in Seen : Asked(f, seen, AfterProbe(l, r, seen))
    BY <1>0, <1>4, ProbeAsked
  <2>2. l.pc = "probe"
    BY <1>4 DEF Ask
  <2>3. r.path = "self" /\ r.id \in Nat /\ seen \in {Answer(l, r), "lost"}
    BY <1>0, <2>1, <2>2, RequestIs DEF Asked, AnyAsk
  <2>4. seen \notin {"granted", "already"}
    BY <2>3, AnswerIs DEF Endpoint
  <2> HIDE DEF r
  <2>5. AfterProbe(l, r, seen) \in Local /\ AfterProbe(l, r, seen).told = l.told
    <3>1. Again(l) \in Local /\ Again(l).told = l.told
      BY <1>0 DEF Again, Local
    <3>2. \A id \in Nat : Resolved(l, id) \in Local /\ Resolved(l, id).told = l.told
      BY <1>0, <1>2, <2>2, ResolvedTyped DEF Tidy
    <3>3. setup.owner \in Nat
      BY <1>0 DEF Setup, Id
    <3>4. QED
      BY <2>3, <3>1, <3>2, <3>3 DEF AfterProbe
  <2>6. QED
    BY <1>0, <2>1, <2>2, <2>4, <2>5, AskEnds
<1>5. CASE Unresolved(f)
  BY <1>1, <1>2, <1>5 DEF Unresolved, UsedUp, At
<1>6. CASE Ask(f, "post", AfterPost)
  <2>1. PICK seen \in Seen : Asked(f, seen, AfterPost(l, r, seen))
    BY <1>0, <1>6, PostAsked
  <2>2. l.pc = "post"
    BY <1>6 DEF Ask
  <2>3. /\ seen \in {Answer(l, r), "lost"} /\ l.k \in DOMAIN Plan(l)
        /\ l.kind = "balance" => r.path = "self"
    BY <1>0, <2>1, RequestIs DEF Asked
  <2>4. seen \in {"granted", "already"} => r.path \in Endpoint /\ l.kind # "balance"
    BY <2>3, AnswerIs DEF Endpoint
  <2> HIDE DEF r
  <2>5. AfterPost(l, r, seen) \in Local /\ AfterPost(l, r, seen).told = l.told
    <3>1. Again(l) \in Local /\ Again(l).told = l.told
      BY <1>0 DEF Again, Local
    <3>2. \A x \in Message : Ends(l, x) \in Local /\ Ends(l, x).told = l.told
      BY <1>0 DEF Ends, Local, Phase
    <3>3. ASSUME NEW x \in Message
          PROVE  LET m == Enter([l EXCEPT !.first = x], "cookies")
                 IN m \in Local /\ m.told = l.told
      <4> DEFINE y == [l EXCEPT !.first = x]
      <4>1. y \in Local /\ y.told = l.told
        BY <1>0 DEF Local
      <4> HIDE DEF y
      <4>2. Enter(y, "cookies") \in Local /\ Enter(y, "cookies").told = l.told
        BY <4>1, EnterTyped DEF Phase
      <4>3. QED
        BY <4>2 DEF y
    <3>4. "granted" \in Message /\ (seen # "ok" => seen \in Message)
      BY <2>1 DEF Seen, Message
    <3>5. QED
      BY <3>1, <3>2, <3>3, <3>4 DEF AfterPost
  <2>6. ASSUME seen \in {"granted", "already"}
        PROVE  AfterPost(l, r, seen).pc = "end" /\ AfterPost(l, r, seen).first = seen
    <3>1. AfterPost(l, r, seen) = Ends(l, seen)
      BY <2>4, <2>6 DEF AfterPost, ShouldFallback, Endpoint
    <3>2. QED
      BY <1>0, <3>1 DEF Ends, Local
  <2>7. QED
    BY <1>0, <2>1, <2>2, <2>5, <2>6, AskEnds
<1>7. CASE Ask(f, "cookies", AfterCookieRequest)
  <2>1. PICK seen \in Seen : Asked(f, seen, AfterCookieRequest(l, r, seen))
    BY <1>0, <1>7, CookiesAsked
  <2>2. l.pc = "cookies" /\ l.k \in DOMAIN Plan(l)
    BY <1>7 DEF Ask
  <2>3. AfterCookieRequest(l, r, seen) \in Local
    BY <1>0, <2>1, <2>2, CookieTyped DEF Asked
  <2>4. /\ seen \in {Answer(l, r), "lost"}
        /\ l.kind = "balance" => r.path = "self"
    BY <1>0, <2>1, <2>2, RequestIs DEF Asked
  <2>5. AfterCookieRequest(l, r, seen).told = l.told
    BY <1>0 DEF AfterCookieRequest, AfterBalanceCookie, AfterPowCookie, AfterCookie, Ends, Again,
       Local
  <2>6. seen \in {"granted", "already"} => r.path \in setup.offers \cap Endpoint
    BY <2>4, AnswerIs
  <2> HIDE DEF r
  <2>7. ASSUME seen \in {"granted", "already"}
        PROVE  LET a == AfterCookieRequest(l, r, seen)
               IN a.pc = "end" /\ a.first = seen
    <3>1. l.kind # "balance" /\ r.path # "challenge" /\ (~setup.pow => r.path = "checkin")
      BY <2>4, <2>6, <2>7 DEF AsksSignIn, Endpoint
    <3>2. ~IsError(seen) /\ ~SessionFailure(seen)
      BY <2>7 DEF IsError, Refusal, SessionFailure
    <3>3. AfterCookieRequest(l, r, seen) = Ends(l, seen)
      BY <3>1, <3>2 DEF AfterCookieRequest, AfterPowCookie, AfterCookie
    <3>4. QED
      BY <1>0, <3>3 DEF Ends, Local
  <2>8. QED
    BY <1>0, <2>1, <2>2, <2>3, <2>5, <2>7, AskEnds
<1>8. CASE NoCookieTook(f)
  <2> DEFINE m == [l EXCEPT !.first = Or(l.last, l.first)]
             pc == IF m.alt \/ m.kind = "balance" THEN "end" ELSE "alternate"
             new == Enter(m, pc)
  <2>1. flow' = [flow EXCEPT ![f] = new] /\ l.pc = "cookies"
    BY <1>0, <1>8 DEF NoCookieTook, Local, UsedUp, At
  <2>2. m \in [DOMAIN l -> {m[x] : x \in DOMAIN m}] /\ m.told = l.told
    BY <1>0 DEF Local
  <2>3. new.told = l.told
    BY <1>0 DEF Enter, Local
  <2> HIDE DEF new
  <2>4. QED
    BY <1>1, <2>1, <2>3
<1>9. CASE Ask(f, "alternate", AfterAlternate)
  <2>1. PICK seen \in Seen : Asked(f, seen, AfterAlternate(l, r, seen))
    BY <1>0, <1>9, AlternateAsked
  <2>2. l.pc = "alternate" /\ l.k \in DOMAIN Plan(l)
    BY <1>9 DEF Ask
  <2>3. r \in IdAsk /\ seen \in {Answer(l, r), "lost"}
    BY <1>0, <2>1, <2>2, RequestIs DEF Asked
  <2>4. seen \notin {"granted", "already"} /\ r.id \in Nat
    BY <2>3, AnswerIs DEF Endpoint, IdAsk, Id
  <2> HIDE DEF r
  <2>5. AfterAlternate(l, r, seen) \in Local /\ AfterAlternate(l, r, seen).told = l.told
    <3>1. Again(l) \in Local /\ Again(l).told = l.told
      BY <1>0 DEF Again, Local
    <3> DEFINE m == [l EXCEPT !.user = r.id, !.alt = TRUE, !.last = "none"]
    <3>2. m \in Local /\ m.told = l.told
      BY <1>0, <2>4 DEF Local, Message
    <3> HIDE DEF m
    <3>3. Enter(m, "cookies") \in Local /\ Enter(m, "cookies").told = l.told
      BY <3>2, EnterTyped DEF Phase
    <3>4. QED
      BY <3>1, <3>3 DEF AfterAlternate, m
  <2>6. QED
    BY <1>0, <2>1, <2>2, <2>4, <2>5, AskEnds
<1>10. CASE NoAlternate(f)
  BY <1>1, <1>2, <1>10 DEF NoAlternate, UsedUp, At
<1>11. QED
  BY <1>3, <1>4, <1>5, <1>6, <1>7, <1>8, <1>9, <1>10 DEF Step

-----------------------------------------------------------------------------
(* No id is starved. *)

\* The ids the panel takes with its token's cookie, and the panels with a
\* candidate among them that RealIdNotStarved is about.
RightId(u) == setup.strict => u = setup.owner
RealId == 1 \in setup.takes /\ \E n \in DOMAIN IdCandidates : RightId(IdCandidates[n])
Answering ==
    /\ IF setup.pow THEN "checkin" \in setup.offers ELSE setup.offers # {}
    /\ setup.cookie \/ setup.refuses # "expired"
    /\ CaptchaOnEach => setup.refuses = "status"

\* A check-in with a right id is past its first cookie only when that cookie
\* brought the wish for a captcha, and the probe for another id has only asked
\* with ids that are not right.
CaptchaSaid(l) == CaptchaOnEach /\ l.captcha # "fresh" /\ l.last = "captcha"
Asks(l) ==
    l.kind = "checkin" /\ ~l.lost /\ ~l.told =>
        /\ l.alt => RightId(l.user)
        /\ l.pc = "cookies" /\ RightId(l.user) /\ l.k > 1 =>
              CaptchaSaid(l) \/ (l.k = 2 /\ ~AsksSignIn)
        /\ l.pc = "alternate" =>
              \/ l.first = "captcha"
              \/ /\ ~RightId(l.user)
                 /\ \A m \in 1 .. l.k - 1 : ~Authorised(AlternatePlan(l.user)[m])
        /\ l.pc = "end" => ~SessionFailure(l.first)

\* A cookie request keeps a check-in with a right id from getting past its first cookie.
LEMMA CookieAsks ==
    ASSUME NEW l \in Local, setup \in Setup, RealId, Answering, l.pc = "cookies",
           l.k \in DOMAIN Plan(l), Asks(l), Tidy(l),
           NEW seen \in Seen, seen \in {Answer(l, Plan(l)[l.k]), "lost"},
           NEW n, Becomes(n, seen, AfterCookieRequest(l, Plan(l)[l.k], seen))
    PROVE  Asks(n)
<1> DEFINE r == Plan(l)[l.k]
           after == AfterCookieRequest(l, r, seen)
<1>0. l.k \in Nat /\ Cookies \in Nat /\ l.first \in Message /\ l.last \in Message
  BY CheckinAssumption DEF Local
<1>00. Becomes(n, seen, after)
  OBVIOUS
<1>1. after.told = l.told /\ after.lost = l.lost /\ after.kind = l.kind
      /\ after.user = l.user /\ after.alt = l.alt /\ after.captcha = l.captcha
  BY DEF AfterCookieRequest, AfterBalanceCookie, AfterPowCookie, AfterCookie, Ends, Again, Local
<1> SUFFICES ASSUME n.kind = "checkin", ~n.lost, ~n.told
             PROVE  /\ n.alt => RightId(n.user)
                    /\ n.pc = "cookies" /\ RightId(n.user) /\ n.k > 1 =>
                          CaptchaSaid(n) \/ (n.k = 2 /\ ~AsksSignIn)
                    /\ n.pc # "alternate"
                    /\ n.pc = "end" => ~SessionFailure(n.first)
  BY DEF Asks
<1>2. /\ l.kind = "checkin" /\ ~l.lost /\ ~l.told
      /\ seen = Answer(l, r) /\ seen # "lost" /\ seen \notin {"granted", "already"}
  BY <1>1 DEF Becomes
<1>3. PICK c \in 1 .. Cookies :
         \/ l.k = 2 * c - 1 /\ r = Request(First(l), c, l.user)
         \/ l.k = 2 * c /\ r = Request("checkin", c, l.user)
  BY <1>2, CookieRequestIs
<1>4. n.user = l.user /\ n.alt = l.alt /\ (n.alt => RightId(n.user))
  BY <1>1, <1>2 DEF Becomes, Asks
<1> HIDE DEF r
\* No answer but the wish for a captcha ends it.
<1>5. after.pc \in {"cookies", "end"} /\ (after.pc = "end" => ~SessionFailure(after.first))
  <2>1. CASE setup.pow
    BY <1>2, <2>1 DEF AfterCookieRequest, AfterPowCookie, Ends, Again, Local
  <2>2. CASE ~setup.pow
    BY <1>2, <2>2 DEF AfterCookieRequest, AfterCookie, Ends, Again, Local
  <2>3. QED
    BY <2>1, <2>2
<1>6. n.pc # "alternate" /\ (n.pc = "end" => ~SessionFailure(n.first))
  BY <1>00, <1>5 DEF Becomes
<1>7. ASSUME n.pc = "cookies", RightId(l.user), n.k > 1
      PROVE  CaptchaSaid(n) \/ (n.k = 2 /\ ~AsksSignIn)
  <2>1. after.pc = "cookies" /\ after.k > 1 /\ n.k = after.k /\ n.last = after.last
        /\ n.captcha \in {l.captcha, "used"}
    BY <1>00, <1>1, <1>7 DEF Becomes
  <2>2. l.k > 1 => CaptchaSaid(l) \/ (l.k = 2 /\ ~AsksSignIn)
    BY <1>2, <1>7 DEF Asks
  <2>3. c = 1 => Authorised(r)
    <3>1. r.by = c /\ r.id = l.user
      BY <1>3 DEF Request
    <3>2. QED
      BY <1>7, <3>1 DEF Authorised, RealId, RightId
  <2>4. CASE setup.pow
    <3>1. l.k = 1 \/ l.k = 2
      BY <1>0, <2>2, <2>4 DEF CaptchaSaid, CaptchaOnEach, AsksSignIn, Tidy
    <3>2. c = 1
      BY <1>0, <1>3, <3>1
    <3>3. CASE l.k = 1
      <4>1. r.path = "challenge"
        BY <1>3, <2>4, <3>2, <3>3 DEF Request, First
      <4>2. seen = "ok"
        BY <1>2, <2>3, <3>2, <4>1 DEF Answer, Endpoint
      <4>3. after = Again(l)
        BY <1>2, <2>4, <4>1, <4>2 DEF AfterCookieRequest, AfterPowCookie
      <4>4. after.k = 2
        BY <3>3, <4>3 DEF Again, Local
      <4>5. QED
        BY <2>1, <2>4, <4>4 DEF AsksSignIn
    <3>4. CASE l.k = 2
      <4>1. r.path = "checkin" /\ "checkin" \in setup.offers
        BY <1>3, <2>4, <3>2, <3>4 DEF Request, Answering
      <4>2. seen = "captcha"
        BY <1>2, <2>3, <3>2, <4>1 DEF Answer, Endpoint
      <4>3. ~IsError(seen) /\ ~SessionFailure(seen)
        BY <4>2 DEF IsError, SessionFailure, Refusal
      <4>4. after = Ends(l, seen)
        BY <1>2, <2>4, <4>1, <4>2, <4>3 DEF AfterCookieRequest, AfterPowCookie
      <4>5. after.pc = "end"
        BY <4>4 DEF Ends, Local
      <4>6. QED
        BY <2>1, <4>5
    <3>5. QED
      BY <3>1, <3>3, <3>4
  <2>5. CASE ~setup.pow /\ ~("sign_in" \in setup.offers)
    <3>1. l.k = 1 \/ l.k = 2
      BY <1>0, <2>2, <2>5 DEF CaptchaSaid, CaptchaOnEach, AsksSignIn, Tidy
    <3>2. c = 1
      BY <1>0, <1>3, <3>1
    <3>3. CASE l.k = 1
      <4>1. after \in {Again([l EXCEPT !.last = seen]), Again([l EXCEPT !.last = Or(l.last, seen)])}
        <5>1. r.path = "sign_in"
          BY <1>3, <2>5, <3>2, <3>3 DEF Request, First
        <5>2. QED
          BY <1>2, <2>5, <5>1 DEF AfterCookieRequest, AfterCookie, Local
      <4>2. after.k = 2
        <5>1. \A x : Again([l EXCEPT !.last = x]).k = l.k + 1
          BY DEF Again, Local
        <5>2. QED
          BY <1>0, <3>3, <4>1, <5>1
      <4>3. QED
        BY <2>1, <2>5, <4>2 DEF AsksSignIn
    <3>4. CASE l.k = 2
      <4>1. r.path = "checkin"
        BY <1>3, <3>2, <3>4 DEF Request
      <4>2. "checkin" \in setup.offers
        <5>1. setup.offers \in SUBSET Endpoint /\ setup.offers # {}
          BY <2>5 DEF Setup, Answering
        <5>2. QED
          BY <2>5, <5>1 DEF Endpoint
      <4>3. seen = "captcha"
        BY <1>2, <2>3, <3>2, <4>1, <4>2 DEF Answer, Endpoint
      <4>4. ~IsError(seen) /\ ~SessionFailure(seen)
        BY <4>3 DEF IsError, SessionFailure, Refusal
      <4>5. after = Ends(l, seen)
        BY <1>2, <2>5, <4>1, <4>3, <4>4 DEF AfterCookieRequest, AfterCookie
      <4>6. after.pc = "end"
        BY <4>5 DEF Ends, Local
      <4>7. QED
        BY <2>1, <4>6
    <3>5. QED
      BY <3>1, <3>3, <3>4
  <2>6. CASE AsksSignIn
    <3>0. ~setup.pow /\ "sign_in" \in setup.offers /\ (setup.captcha <=> CaptchaOnEach)
      BY <2>6 DEF AsksSignIn, CaptchaOnEach, Setup
    <3>1. CASE l.k = 2 * c - 1 /\ Authorised(r)
      <4>1. r.path = "sign_in"
        BY <1>0, <1>3, <3>0, <3>1 DEF Request, First
      <4>2. seen = "captcha" /\ setup.captcha /\ l.captcha # "fresh"
        BY <1>2, <3>0, <3>1, <4>1 DEF Answer, Endpoint
      <4>3. ~IsError(seen)
        BY <4>2 DEF IsError, Refusal
      <4>4. after = Again([l EXCEPT !.last = "captcha"])
        BY <1>2, <3>0, <4>1, <4>2, <4>3 DEF AfterCookieRequest, AfterCookie
      <4>5. after.last = "captcha"
        BY <4>4 DEF Again, Local
      <4>6. QED
        BY <2>1, <3>0, <4>2, <4>5 DEF CaptchaSaid
    <3>2. CASE CaptchaSaid(l) /\ IsError(seen)
      <4>1. after = Again([l EXCEPT !.last = Or(l.last, seen)])
        BY <1>2, <3>0, <3>2 DEF AfterCookieRequest, AfterCookie, Local
      <4>2. after.last = Or(l.last, seen)
        BY <4>1 DEF Again, Local
      <4>3. after.last = "captcha"
        BY <3>2, <4>2 DEF Or, CaptchaSaid
      <4>4. QED
        BY <2>1, <3>2, <4>3 DEF CaptchaSaid
    <3>3. CASE ~IsError(seen) /\ l.k = 2 * c
      <4>1. r.path = "checkin"
        BY <1>0, <1>3, <3>3 DEF Request
      <4>2. after.pc = "end" \/ SessionFailure(seen)
        BY <1>2, <3>0, <3>3, <4>1 DEF AfterCookieRequest, AfterCookie, Ends, Local
      <4>3. CASE SessionFailure(seen)
        <5>1. ~Authorised(r)
          BY <1>2, <3>3, <4>3, AnswerIs DEF SessionFailure, IsError
        <5>2. l.k > 1
          BY <1>0, <3>3
        <5>3. CaptchaSaid(l)
          BY <2>2, <2>6, <5>2
        <5>4. setup.refuses = "status"
          BY <5>3 DEF CaptchaSaid, Answering
        <5>5. seen = Refusal
          BY <1>2, <3>3, <4>3, AnswerIs DEF SessionFailure, IsError
        <5>6. QED
          BY <3>3, <5>4, <5>5 DEF IsError
      <4>4. QED
        BY <2>1, <4>2, <4>3
    <3>4. CASE ~Authorised(r) /\ l.k = 2 * c - 1
      <4>1. l.k > 1
        BY <1>0, <2>3, <3>4
      <4>2. CaptchaSaid(l)
        BY <2>2, <2>6, <4>1
      <4>3. setup.refuses = "status"
        BY <4>2 DEF CaptchaSaid, Answering
      <4>4. IsError(seen)
        <5>1. r.path = "sign_in"
          BY <1>0, <1>3, <3>0, <3>4 DEF Request, First
        <5>2. QED
          BY <1>2, <3>0, <3>4, <4>3, <5>1 DEF Answer, IsError, Endpoint
      <4>5. QED
        BY <3>2, <4>2, <4>4
    <3>5. CASE IsError(seen) /\ l.k = 2 * c
      <4>1. l.k > 1
        BY <1>0, <3>5
      <4>2. QED
        BY <2>2, <2>6, <3>2, <3>5, <4>1
    <3>6. QED
      BY <1>3, <3>1, <3>3, <3>4, <3>5
  <2>7. QED
    BY <2>4, <2>5, <2>6 DEF AsksSignIn
<1>8. QED
  BY <1>4, <1>6, <1>7

\* No step leads a check-in past the right id's first cookie to a failed session.
LEMMA StepAsks ==
    ASSUME FlowInv, NEW f \in Flow, Step(f), RealId, Answering,
           \A g \in Flow : Asks(flow[g])
    PROVE  \A g \in Flow : Asks(flow'[g])
<1> DEFINE l == flow[f]
           r == Plan(l)[l.k]
           n == flow'[f]
<1>0. /\ l \in Local /\ Tidy(l) /\ setup \in Setup /\ TypeOK /\ Asks(l) /\ l.k \in Nat
  <2>1. l \in Local /\ Tidy(l) /\ setup \in Setup /\ TypeOK
    BY CheckinAssumption DEF FlowInv, TypeOK
  <2>2. QED
    BY <2>1 DEF Local
\* It is enough to look at the flow that steps.
<1>1. ASSUME \A g \in Flow \ {f} : flow'[g] = flow[g], Asks(n)
      PROVE  \A g \in Flow : Asks(flow'[g])
  BY <1>1
<1>2. ASSUME NEW m, flow' = [flow EXCEPT ![f] = m], Asks(m)
      PROVE  \A g \in Flow : Asks(flow'[g])
  <2>1. n = m /\ \A g \in Flow \ {f} : flow'[g] = flow[g]
    BY <1>0, <1>2 DEF TypeOK
  <2>2. QED
    BY <1>1, <1>2, <2>1
\* Where there is nothing to show yet.
<1>3. ASSUME NEW m, ~m.alt, m.k = 1, m.pc \notin {"alternate", "end"} PROVE Asks(m)
  BY <1>3 DEF Asks
<1>4. ASSUME NEW x \in Local, ~x.alt, NEW id \in Nat
      PROVE  Asks(Resolved(x, id)) /\ Resolved(x, id) \in Local
  BY <1>3, <1>4, ResolvedTyped
<1>5. CASE Lookup(f)
  <2> DEFINE known == IF setup.configured > 0 THEN setup.configured
                      ELSE IF cache.expired THEN 0 ELSE cache.user
             m == IF known > 0 THEN Resolved(l, known) ELSE Enter(l, "probe")
  <2>1. flow' = [flow EXCEPT ![f] = m] /\ ~l.alt
    BY <1>0, <1>5 DEF Lookup, At, Tidy
  <2>2. known \in Nat
    BY <1>0 DEF TypeOK, Setup
  <2>3. Asks(Enter(l, "probe"))
    BY <1>0, <1>3, <2>1, EnterTyped DEF Phase
  <2> HIDE DEF known
  <2>4. Asks(m)
    BY <1>0, <1>4, <2>1, <2>2, <2>3
  <2> HIDE DEF m
  <2>5. QED
    BY <1>2, <2>1, <2>4
<1>6. CASE Ask(f, "probe", AfterProbe)
  <2>1. PICK seen \in Seen : Asked(f, seen, AfterProbe(l, r, seen))
    BY <1>0, <1>6, ProbeAsked
  <2>2. l.pc = "probe" /\ ~l.alt
    BY <1>0, <1>6 DEF Ask, Tidy
  <2>3. r.id \in Nat
    BY <1>0, <2>1, <2>2, RequestIs DEF Asked, AnyAsk
  <2> DEFINE after == AfterProbe(l, r, seen)
  <2>4. after \in Local /\ ~after.alt /\ after.pc \in {"probe", "cookies", "post"}
        /\ (after.pc # "probe" => after.k = 1)
    <3> HIDE DEF r
    <3>1. CASE seen # "ok"
      BY <1>0, <2>2, <3>1 DEF AfterProbe, Again, Local
    <3>2. CASE seen = "ok"
      <4>1. setup.owner \in Nat
        BY <1>0 DEF Setup, Id
      <4>2. \A id \in Nat : Resolved(l, id) \in Local /\ ~Resolved(l, id).alt
               /\ Resolved(l, id).pc \in {"cookies", "post"} /\ Resolved(l, id).k = 1
        BY <1>0, <2>2, ResolvedTyped
      <4>3. QED
        BY <2>3, <3>2, <4>1, <4>2 DEF AfterProbe
    <3>3. QED
      BY <3>1, <3>2
  <2>5. Becomes(n, seen, after) /\ \A g \in Flow \ {f} : flow'[g] = flow[g]
    BY <1>0, <2>1, <2>4, AskedBecomes
  <2> HIDE DEF after
  <2>6. Asks(n)
    BY <2>4, <2>5 DEF Becomes, Asks
  <2>7. QED
    BY <1>1, <2>5, <2>6
<1>7. CASE Unresolved(f)
  <2>1. flow' = [flow EXCEPT ![f] = Resolved(l, 0)] /\ ~l.alt
    BY <1>0, <1>7 DEF Unresolved, UsedUp, At, Tidy
  <2>2. QED
    BY <1>0, <1>2, <1>4, <2>1
<1>8. CASE Ask(f, "post", AfterPost)
  <2>1. PICK seen \in Seen : Asked(f, seen, AfterPost(l, r, seen))
    BY <1>0, <1>8, PostAsked
  <2>2. l.pc = "post" /\ ~l.alt /\ ~setup.cookie
    BY <1>0, <1>8 DEF Ask, Tidy
  <2>3. seen \in {Answer(l, r), "lost"} /\ (seen # "ok" => seen \in Message)
    BY <2>1 DEF Asked, Seen
  <2>4. seen # "expired"
    <3>1. setup.refuses # "expired"
      BY <2>2 DEF Answering
    <3>2. QED
      BY <2>3, <3>1, AnswerIs DEF Refusal
  <2> DEFINE after == AfterPost(l, r, seen)
  <2>5. /\ after \in Local /\ ~after.alt /\ after.pc \in {"post", "cookies", "end"}
        /\ after.pc = "cookies" => after.k = 1
        /\ after.pc = "end" /\ after.kind = "checkin" => ~SessionFailure(after.first)
    <3> HIDE DEF r
    <3>1. CASE seen \in {"granted", "ok"}
      <4>1. Again(l) \in Local /\ ~Again(l).alt /\ Again(l).pc = "post"
        BY <1>0, <2>2 DEF Again, Local
      <4>2. /\ Ends(l, "granted") \in Local /\ ~Ends(l, "granted").alt
            /\ Ends(l, "granted").pc = "end" /\ Ends(l, "granted").first = "granted"
        BY <1>0, <2>2 DEF Ends, Local, Phase, Message
      <4>3. after \in {Again(l), Ends(l, "granted")}
        BY <3>1 DEF AfterPost
      <4> HIDE DEF after
      <4>4. QED
        BY <4>1, <4>2, <4>3 DEF SessionFailure
    <3>2. CASE seen \notin {"granted", "ok"}
      <4> DEFINE m == [l EXCEPT !.first = seen]
      <4>1. m \in Local /\ ~m.alt
        BY <1>0, <2>2, <2>3, <3>2 DEF Local
      <4>2. Enter(m, "cookies") \in Local /\ ~Enter(m, "cookies").alt
            /\ Enter(m, "cookies").pc = "cookies" /\ Enter(m, "cookies").k = 1
        BY <4>1, EnterTyped DEF Phase
      <4>3. /\ Ends(l, seen) \in Local /\ ~Ends(l, seen).alt /\ Ends(l, seen).pc = "end"
            /\ Ends(l, seen).first = seen /\ Ends(l, seen).kind = l.kind
        BY <1>0, <2>2, <2>3, <3>2 DEF Ends, Local, Phase
      <4>4. after = IF IF l.kind = "balance" THEN SessionFailure(seen) ELSE ShouldFallback(seen)
                    THEN Enter(m, "cookies") ELSE Ends(l, seen)
        BY <3>2 DEF AfterPost
      <4>5. l.kind = "checkin" /\ ~ShouldFallback(seen) => ~SessionFailure(seen)
        BY <2>4 DEF ShouldFallback, SessionFailure
      <4> HIDE DEF m, after
      <4>6. QED
        BY <4>2, <4>3, <4>4, <4>5
    <3>3. QED
      BY <3>1, <3>2
  <2>6. Becomes(n, seen, after) /\ \A g \in Flow \ {f} : flow'[g] = flow[g]
    BY <1>0, <2>1, <2>5, AskedBecomes
  <2> HIDE DEF after
  <2>7. Asks(n)
    BY <2>5, <2>6 DEF Becomes, Asks
  <2>8. QED
    BY <1>1, <2>6, <2>7
<1>9. CASE Ask(f, "cookies", AfterCookieRequest)
  <2>1. PICK seen \in Seen : Asked(f, seen, AfterCookieRequest(l, r, seen))
    BY <1>0, <1>9, CookiesAsked
  <2>2. l.pc = "cookies" /\ l.k \in DOMAIN Plan(l)
    BY <1>9 DEF Ask
  <2>3. seen \in {Answer(l, r), "lost"}
    BY <2>1 DEF Asked
  <2>4. AfterCookieRequest(l, r, seen) \in Local
    BY <1>0, <2>1, <2>2, <2>3, CookieTyped
  <2>5. /\ Becomes(n, seen, AfterCookieRequest(l, r, seen))
        /\ \A g \in Flow \ {f} : flow'[g] = flow[g]
    BY <1>0, <2>1, <2>4, AskedBecomes
  <2>6. Asks(n)
    BY <1>0, <2>1, <2>2, <2>3, <2>5, CookieAsks
  <2>7. QED
    BY <1>1, <2>5, <2>6
<1>10. CASE NoCookieTook(f)
  <2> DEFINE m == [l EXCEPT !.first = Or(l.last, l.first)]
             pc == IF m.alt \/ m.kind = "balance" THEN "end" ELSE "alternate"
             new == Enter(m, pc)
  <2>1. flow' = [flow EXCEPT ![f] = new]
    BY <1>0, <1>10 DEF NoCookieTook, Local
  <2>2. l.pc = "cookies" /\ l.k \notin DOMAIN Plan(l)
    BY <1>10 DEF NoCookieTook, UsedUp, At
  <2>3. /\ m \in Local /\ m.alt = l.alt /\ m.kind = l.kind /\ m.told = l.told
        /\ m.lost = l.lost /\ m.first = Or(l.last, l.first) /\ m.user = l.user
    <3>1. l.last \in Message /\ l.first \in Message
      BY <1>0 DEF Local
    <3>2. Or(l.last, l.first) \in Message
      BY <3>1, OrIs
    <3>3. QED
      BY <1>0, <3>2 DEF Local
  <2> HIDE DEF m
  <2>4. /\ new.pc = pc /\ new.kind = l.kind /\ new.told = l.told /\ new.k = 1
        /\ new.lost = l.lost /\ new.first = Or(l.last, l.first)
        /\ new.user = l.user /\ new.alt = l.alt
    BY <2>3, EnterTyped DEF Phase
  <2> HIDE DEF new
  <2>5. Asks(new)
    <3>1. SUFFICES ASSUME l.kind = "checkin", ~l.lost, ~l.told
                   PROVE  /\ new.alt => RightId(new.user)
                          /\ new.pc = "alternate" /\ RightId(new.user) => new.first = "captcha"
                          /\ new.pc = "end" => ~SessionFailure(new.first)
      BY <2>4 DEF Asks
    <3>2. l.alt => RightId(l.user)
      BY <1>0, <3>1 DEF Asks
    <3>3. RightId(l.user) => new.first = "captcha"
      <4>1. Plan(l) = CookiePlan(l)
        BY <2>2 DEF Plan
      <4>2. l.k \notin 1 .. 2 * Cookies /\ l.k # 0
        BY <1>0, <2>2, <3>1, <4>1, CookiePlanIs DEF Tidy
      <4>3. l.k > 2
        BY <1>0, <4>2, CheckinAssumption
      <4>4. RightId(l.user) => CaptchaSaid(l)
        BY <1>0, <2>2, <3>1, <4>3 DEF Asks
      <4>5. QED
        BY <2>4, <4>4 DEF CaptchaSaid, Or
    <3>4. new.pc = "end" => l.alt
      BY <2>3, <2>4, <3>1
    <3>5. QED
      BY <2>4, <3>2, <3>3, <3>4 DEF SessionFailure
  <2>6. QED
    BY <1>2, <2>1, <2>5
<1>11. CASE Ask(f, "alternate", AfterAlternate)
  <2>1. PICK seen \in Seen : Asked(f, seen, AfterAlternate(l, r, seen))
    BY <1>0, <1>11, AlternateAsked
  <2>2. l.pc = "alternate" /\ l.k \in DOMAIN Plan(l)
    BY <1>11 DEF Ask
  <2>3. r \in IdAsk /\ seen \in {Answer(l, r), "lost"}
    BY <1>0, <2>1, <2>2, RequestIs DEF Asked
  <2>4. seen = "ok" => Authorised(r)
    BY <2>3, AnswerIs
  <2>5. r.id \in Nat /\ r.path = "self" /\ r.by # 0
    BY <2>3, CheckinAssumption DEF IdAsk, Id
  <2>6. r = AlternatePlan(l.user)[l.k]
    BY <2>2 DEF Plan
  <2> DEFINE after == AfterAlternate(l, r, seen)
  <2>7. ASSUME seen # "ok"
        PROVE  after \in Local /\ after.pc = "alternate" /\ after.kind = l.kind
               /\ after.told = l.told /\ after.lost = l.lost /\ after.first = l.first
               /\ after.k = l.k + 1 /\ after.user = l.user /\ after.alt = l.alt
    BY <1>0, <2>2, <2>7 DEF AfterAlternate, Again, Local
  <2>8. ASSUME seen = "ok"
        PROVE  after \in Local /\ after.pc = "cookies" /\ after.k = 1 /\ after.user = r.id
    <3> DEFINE m == [l EXCEPT !.user = r.id, !.alt = TRUE, !.last = "none"]
    <3>1. m \in Local /\ m.user = r.id
      BY <1>0, <2>5 DEF Local, Message
    <3>2. AfterAlternate(l, r, seen) = Enter(m, "cookies")
      BY <2>8 DEF AfterAlternate
    <3> HIDE DEF m
    <3>3. QED
      BY <3>1, <3>2, EnterTyped DEF Phase
  <2>9. after \in Local
    BY <2>7, <2>8
  <2>10. Becomes(n, seen, after) /\ \A g \in Flow \ {f} : flow'[g] = flow[g]
    BY <1>0, <2>1, <2>9, AskedBecomes
  <2> HIDE DEF r, after
  <2>11. CASE seen = "ok"
    <3>1. RightId(r.id)
      BY <2>4, <2>11 DEF Authorised, RightId
    <3>2. Asks(n)
      BY <2>8, <2>10, <2>11, <3>1 DEF Becomes, Asks
    <3>3. QED
      BY <1>1, <2>10, <3>2
  <2>12. CASE seen # "ok"
    <3>1. /\ n.pc = "alternate" /\ n.kind = l.kind /\ n.first = l.first /\ n.alt = l.alt
          /\ n.k = l.k + 1 /\ n.user = l.user
          /\ (~n.lost => ~l.lost /\ seen # "lost") /\ (~n.told => ~l.told)
      BY <2>7, <2>10, <2>12 DEF Becomes
    <3>2. Asks(n)
      <4>1. SUFFICES ASSUME l.kind = "checkin", ~l.lost, ~l.told, seen # "lost"
                     PROVE  /\ l.alt => RightId(l.user)
                            /\ \/ l.first = "captcha"
                               \/ /\ ~RightId(l.user)
                                  /\ \A m \in 1 .. l.k : ~Authorised(AlternatePlan(l.user)[m])
        <5>1. \A m \in 1 .. n.k - 1 : m \in 1 .. l.k
          BY <1>0, <3>1
        <5>2. QED
          BY <3>1, <5>1 DEF Asks
      <4>2. ~Authorised(r)
        BY <2>3, <2>5, <2>12, <4>1 DEF Answer, Endpoint
      <4>3. \A m \in 1 .. l.k : m = l.k \/ m \in 1 .. l.k - 1
        BY <1>0
      <4>4. QED
        BY <1>0, <2>2, <2>6, <4>1, <4>2, <4>3 DEF Asks
    <3>3. QED
      BY <1>1, <2>10, <3>2
  <2>13. QED
    BY <2>11, <2>12
<1>12. CASE NoAlternate(f)
  <2>1. /\ l.pc = "alternate" /\ l.k \notin DOMAIN Plan(l)
        /\ flow' = [flow EXCEPT ![f] = Enter(l, "end")]
    BY <1>12 DEF NoAlternate, UsedUp, At
  <2>2. /\ Enter(l, "end").pc = "end" /\ Enter(l, "end").first = l.first
        /\ Enter(l, "end").told = l.told /\ Enter(l, "end").lost = l.lost
        /\ Enter(l, "end").kind = l.kind /\ Enter(l, "end").alt = l.alt
        /\ Enter(l, "end").user = l.user
    BY <1>0, EnterTyped DEF Phase
  <2>3. ASSUME l.kind = "checkin", ~l.lost, ~l.told PROVE l.first = "captcha"
    <3>1. SUFFICES ASSUME ~RightId(l.user),
                          \A m \in 1 .. l.k - 1 : ~Authorised(AlternatePlan(l.user)[m])
                   PROVE  FALSE
      BY <1>0, <2>1, <2>3 DEF Asks
    <3>2. PICK i \in DOMAIN IdCandidates : RightId(IdCandidates[i])
      BY DEF RealId
    <3>3. IdCandidates[i] # l.user
      BY <3>1, <3>2
    <3>4. PICK k \in DOMAIN AlternatePlan(l.user) :
             AlternatePlan(l.user)[k] = Request("self", 1, IdCandidates[i])
      BY <3>3, AlternatePlanIs
    <3>5. Authorised(AlternatePlan(l.user)[k])
      BY <3>2, <3>4 DEF Authorised, Request, RealId, RightId
    <3>6. k \in 1 .. l.k - 1
      <4>1. Plan(l) = AlternatePlan(l.user) /\ AlternatePlan(l.user) \in Seq(IdAsk)
        BY <2>1, AlternatePlanIs DEF Plan
      <4>2. DOMAIN AlternatePlan(l.user) = 1 .. Len(AlternatePlan(l.user))
            /\ Len(AlternatePlan(l.user)) \in Nat
        BY <4>1
      <4>3. l.k \notin 1 .. Len(AlternatePlan(l.user)) /\ l.k # 0
        BY <1>0, <2>1, <4>1, <4>2 DEF Tidy
      <4>4. QED
        BY <1>0, <3>4, <4>2, <4>3
    <3>7. QED
      BY <3>1, <3>5, <3>6
  <2>4. Asks(Enter(l, "end"))
    BY <1>0, <2>2, <2>3 DEF Asks, SessionFailure
  <2>5. QED
    BY <1>2, <2>1, <2>4
<1>13. QED
  BY <1>5, <1>6, <1>7, <1>8, <1>9, <1>10, <1>11, <1>12 DEF Step

-----------------------------------------------------------------------------
(* The solver: how late each instance can leave the next one. *)

\* n instances, each of which used its attempt up and slept past its deadline.
Late(n) == n * (Attempt + Pause)

\* Within an attempt the clock stays before its end, asleep one pause behind.
OnTime ==
    /\ Solver!At({"off"}) => solver.at = 0 /\ now = 0
    /\ Solver!At({"next"}) => now <= Late(solver.at)
    /\ Solver!At({"create", "wait", "poll"}) => now <= solver.until /\ solver.until <= solver.ends
    /\ Solver!At({"sleep"}) => now <= solver.until /\ solver.until <= solver.ends + Pause
    /\ Solver!At({"create", "wait", "poll", "sleep"}) =>
          /\ solver.at >= 1
          /\ solver.ends + Pause <= Late(solver.at)

SolverInv == Solver!TypeOK /\ OnTime

\* One more instance is late by one more attempt and sleep.
LEMMA LateGrows ==
    ASSUME Solver!Parameters, NEW n \in Nat
    PROVE  /\ Late(n) \in Nat
           /\ Late(n + 1) = Late(n) + Attempt + Pause
BY DEF Solver!Parameters, Late

LEMMA CallEndsNat ==
    ASSUME Solver!Parameters
    PROVE  Solver!CallEnds \in Nat
BY DEF Solver!Parameters, Solver!CallEnds

\* The deadline of an attempt.
LEMMA Deadline ==
    ASSUME Solver!Parameters, now \in Nat, now < Solver!CallEnds
    PROVE  /\ Solver!AttemptEnds \in 0 .. Solver!CallEnds
           /\ now <= Solver!AttemptEnds
           /\ Solver!AttemptEnds <= now + Attempt
<1>1. Solver!CallEnds \in Nat
  BY CallEndsNat
<1>2. Attempt \in Nat
  BY DEF Solver!Parameters
<1>3. QED
  BY <1>1, <1>2 DEF Solver!AttemptEnds, Solver!Earlier

\* The limit of a request or of a wait within an attempt.
LEMMA Limit ==
    ASSUME NEW t \in Nat, NEW d \in Nat, NEW e \in Nat, t <= e
    PROVE  /\ Solver!Earlier(t + d, e) \in Nat
           /\ t <= Solver!Earlier(t + d, e)
           /\ Solver!Earlier(t + d, e) <= e
BY DEF Solver!Earlier

LEMMA SolverInit ==
    ASSUME Solver!Parameters, Solver!Init
    PROVE  SolverInv
<1>1. Solver!CallEnds \in Nat /\ Pause \in Nat /\ Instances \in Nat
  BY CallEndsNat DEF Solver!Parameters
<1>2. Solver!TypeOK
  BY <1>1 DEF Solver!Init, Solver!TypeOK, Solver!Off, Solver!Local
<1>3. OnTime
  BY DEF Solver!Init, OnTime, Solver!Off, Solver!At
<1>4. QED
  BY <1>2, <1>3 DEF SolverInv

\* Every step keeps the types and the time.
LEMMA SolverStepInv ==
    ASSUME Solver!Parameters, SolverInv, [Solver!Next]_Solver!vars
    PROVE  SolverInv'
<1> USE DEF SolverInv
<1>0. Solver!CallEnds' = Solver!CallEnds
  BY DEF Solver!CallEnds
<1>1. /\ Solver!CallEnds \in Nat /\ Pause \in Nat /\ Instances \in Nat
      /\ Client \in Nat /\ Attempt \in Nat
  BY CallEndsNat DEF Solver!Parameters
<1>2. /\ now \in Nat /\ now <= Solver!CallEnds + Pause
      /\ solver \in Solver!Local
      /\ solver.at \in Nat /\ solver.at <= Instances
      /\ solver.ends \in Nat /\ solver.ends <= Solver!CallEnds
      /\ solver.until \in Nat /\ solver.until <= Solver!CallEnds + Pause
  BY <1>1 DEF Solver!TypeOK, Solver!Local
<1>3. CASE Solver!Call
  <2>1. now' = 0 /\ solver' = [solver EXCEPT !.pc = "next"] /\ solver.at = 0
    BY <1>3 DEF Solver!Call, Solver!At, OnTime
  <2>2. Solver!TypeOK'
    BY <1>1, <1>0, <1>2, <2>1 DEF Solver!TypeOK, Solver!Local
  <2>3. Late(0) \in Nat
    BY <1>1, LateGrows
  <2>4. OnTime'
    BY <1>2, <2>1, <2>3 DEF OnTime, Solver!At, Solver!Local
  <2>5. QED
    BY <2>2, <2>4
<1>4. CASE Solver!AskNext
  <2> DEFINE e == Solver!AttemptEnds
             u == Solver!RequestEnds(now, Solver!AttemptEnds)
  <2>1. /\ solver.pc = "next" /\ now < Solver!CallEnds /\ solver.at < Instances
        /\ solver' = [solver EXCEPT !.pc = "create", !.at = @ + 1, !.ends = e, !.until = u]
        /\ now' = now
    BY <1>4 DEF Solver!AskNext, Solver!At
  <2>2. e \in 0 .. Solver!CallEnds /\ now <= e /\ e <= now + Attempt
    BY <1>1, <1>2, <2>1, Deadline
  <2>3. u \in Nat /\ now <= u /\ u <= e
    <3>1. u = Solver!Earlier(now + Client, e)
      BY DEF Solver!RequestEnds
    <3>2. e \in Nat
      BY <1>1, <2>2
    <3> HIDE DEF e, u
    <3>3. QED
      BY <1>1, <1>2, <2>2, <3>1, <3>2, Limit
  <2> HIDE DEF e, u
  <2>4. Solver!TypeOK'
    <3>1. u \in 0 .. Solver!CallEnds + Pause /\ solver.at + 1 \in 0 .. Instances
      BY <1>1, <1>2, <2>1, <2>2, <2>3
    <3>2. QED
      BY <1>0, <1>2, <2>1, <2>2, <3>1 DEF Solver!TypeOK, Solver!Local, SolverInv
  <2>5. now <= Late(solver.at)
    BY <2>1 DEF OnTime, Solver!At
  <2>6. Late(solver.at) \in Nat /\ Late(solver.at + 1) = Late(solver.at) + Attempt + Pause
    BY <1>2, LateGrows
  <2>7. e + Pause <= Late(solver.at + 1)
    BY <1>1, <1>2, <2>2, <2>5, <2>6
  <2>8. /\ solver'.pc = "create" /\ solver'.at = solver.at + 1
        /\ solver'.ends = e /\ solver'.until = u
    BY <1>2, <2>1 DEF Solver!Local
  <2>9. OnTime'
    BY <1>2, <2>1, <2>3, <2>7, <2>8 DEF OnTime, Solver!At
  <2>10. QED
    BY <2>4, <2>9
<1>5. CASE Solver!Elapse
  <2>1. /\ Solver!At({"create", "poll", "wait", "sleep"}) /\ now < solver.until
        /\ now' = now + 1 /\ solver' = solver
    BY <1>5 DEF Solver!Elapse
  <2>2. Solver!TypeOK'
    BY <1>1, <1>0, <1>2, <2>1 DEF Solver!TypeOK
  <2>3. OnTime'
    BY <1>2, <2>1 DEF OnTime, Solver!At
  <2>4. QED
    BY <2>2, <2>3
<1>6. CASE Solver!PollFails
  <2>1. /\ solver.pc = "poll" /\ now' = now
        /\ solver' = [solver EXCEPT !.pc = "sleep", !.until = now + Pause]
    BY <1>6 DEF Solver!PollFails, Solver!SleepEnds, Solver!At
  <2>2. now <= solver.ends
    BY <1>2, <2>1 DEF OnTime, Solver!At
  <2>3. Solver!TypeOK'
    <3>1. now + Pause \in 0 .. Solver!CallEnds + Pause
      BY <1>1, <1>2, <2>2
    <3>2. QED
      BY <1>0, <1>2, <2>1, <3>1 DEF Solver!TypeOK, Solver!Local, SolverInv
  <2>4. OnTime'
    BY <1>1, <1>2, <2>1, <2>2 DEF OnTime, Solver!At, Solver!Local
  <2>5. QED
    BY <2>3, <2>4
<1>7. ASSUME Solver!At({"create", "poll"}), Solver!InTime, now' = now,
             NEW task \in {"task", "async"}, NEW n \in Nat,
             solver' = [solver EXCEPT !.pc = "wait", !.task = task, !.polls = n,
                                      !.until = Solver!Earlier(now + Pause, solver.ends)]
      PROVE  SolverInv'
  <2>1. now <= solver.ends
    BY <1>2, <1>7 DEF Solver!InTime
  <2>2. /\ Solver!Earlier(now + Pause, solver.ends) \in Nat
        /\ now <= Solver!Earlier(now + Pause, solver.ends)
        /\ Solver!Earlier(now + Pause, solver.ends) <= solver.ends
    BY <1>1, <1>2, <2>1, Limit
  <2>3. Solver!TypeOK'
    <3>1. Solver!Earlier(now + Pause, solver.ends) \in 0 .. Solver!CallEnds + Pause
      BY <1>1, <1>2, <2>2
    <3>2. QED
      BY <1>0, <1>2, <1>7, <3>1 DEF Solver!TypeOK, Solver!Local, SolverInv
  <2>4. OnTime'
    BY <1>1, <1>2, <1>7, <2>2 DEF OnTime, Solver!At, Solver!Local
  <2>5. QED
    BY <2>3, <2>4
<1>8. CASE \E task \in {"task", "async"} : Solver!TaskCreated(task)
  BY <1>7, <1>8 DEF Solver!TaskCreated, Solver!At
<1>9. CASE Solver!Pending
  <2>1. solver' = [solver EXCEPT !.pc = "wait", !.task = solver.task, !.polls = solver.polls,
                                 !.until = Solver!Earlier(now + Pause, solver.ends)]
    BY <1>2, <1>9 DEF Solver!Pending, Solver!Local
  <2>2. solver.task \in {"task", "async"} /\ solver.polls \in Nat
    BY <1>2 DEF Solver!Local
  <2>3. QED
    BY <1>7, <1>9, <2>1, <2>2 DEF Solver!Pending, Solver!At
<1>10. ASSUME Solver!At({"create", "poll", "wait", "sleep"}), now' = now,
              NEW pc \in {"next", "solved", "failed"},
              solver' = [solver EXCEPT !.pc = pc]
       PROVE  SolverInv'
  <2>1. Solver!TypeOK'
    BY <1>2, <1>10 DEF Solver!TypeOK, Solver!Local
  <2>2. now <= Late(solver.at)
    <3>1. now <= solver.ends + Pause /\ solver.ends + Pause <= Late(solver.at)
      BY <1>1, <1>2, <1>10 DEF OnTime, Solver!At
    <3>2. Late(solver.at) \in Nat
      BY <1>2, LateGrows
    <3>3. QED
      BY <1>1, <1>2, <3>1, <3>2
  <2>3. OnTime'
    BY <1>2, <1>10, <2>2 DEF OnTime, Solver!At, Solver!Local
  <2>4. QED
    BY <2>1, <2>3
<1>11. CASE Solver!Succeed \/ Solver!Refuse \/ Solver!CreateFails
  BY <1>10, <1>11 DEF Solver!Succeed, Solver!Refuse, Solver!CreateFails, Solver!Goto, Solver!At
<1>12. CASE Solver!Poll
  <2> DEFINE u == Solver!RequestEnds(now, solver.ends)
  <2>1. CASE ~(Solver!InTime /\ solver.polls < Polls[solver.task])
    BY <1>10, <1>12, <2>1 DEF Solver!Poll, Solver!At
  <2>2. CASE Solver!InTime /\ solver.polls < Polls[solver.task]
    <3>1. /\ Solver!At({"wait", "sleep"}) /\ now' = now
          /\ solver' = [solver EXCEPT !.pc = "poll", !.polls = @ + 1, !.until = u]
      BY <1>12, <2>2 DEF Solver!Poll
    <3>2. now <= solver.ends
      BY <1>2, <2>2 DEF Solver!InTime
    <3>3. u \in Nat /\ now <= u /\ u <= solver.ends
      BY <1>1, <1>2, <3>2, Limit DEF Solver!RequestEnds
    <3> HIDE DEF u
    <3>4. Solver!TypeOK'
      <4>1. u \in 0 .. Solver!CallEnds + Pause
        BY <1>1, <1>2, <3>3
      <4>2. solver.polls + 1 \in Nat
        BY <1>2 DEF Solver!Local
      <4>3. solver' \in Solver!Local
        BY <1>2, <3>1, <4>1, <4>2 DEF Solver!Local
      <4>4. QED
        BY <1>0, <1>2, <3>1, <4>3 DEF Solver!TypeOK, Solver!Local, SolverInv
    <3>5. OnTime'
      BY <1>1, <1>2, <3>1, <3>3 DEF OnTime, Solver!At, Solver!Local
    <3>6. QED
      BY <3>4, <3>5
  <2>3. QED
    BY <2>1, <2>2
<1>13. CASE Solver!GiveUp
  <2>1. Solver!TypeOK' /\ OnTime'
    BY <1>2, <1>13 DEF Solver!GiveUp, Solver!TypeOK, OnTime, Solver!At, Solver!Local
  <2>2. QED
    BY <2>1
<1>14. CASE Solver!Return
  <2>1. now' = 0 /\ solver' = Solver!Off
    BY <1>14 DEF Solver!Return
  <2>2. Solver!TypeOK' /\ OnTime'
    BY <1>1, <2>1 DEF Solver!TypeOK, OnTime, Solver!Off, Solver!At, Solver!Local
  <2>3. QED
    BY <2>2
<1>15. CASE UNCHANGED Solver!vars
  BY <1>15 DEF Solver!vars, Solver!TypeOK, OnTime, Solver!At
<1>16. QED
  BY <1>3, <1>4, <1>5, <1>6, <1>8, <1>9, <1>11, <1>12, <1>13, <1>14, <1>15 DEF Solver!Next, Solver!Step

\* The state of the solver call has its declared type, for every number of
\* instances, every timeout and every number of polls.
THEOREM SolverTypeCorrect == Solver!Parameters => (Solver!Spec => []Solver!TypeOK)
<1> SUFFICES ASSUME Solver!Parameters PROVE Solver!Spec => []Solver!TypeOK
  OBVIOUS
<1>1. Solver!Init => SolverInv
  BY SolverInit
<1>2. SolverInv /\ [Solver!Next]_Solver!vars => SolverInv'
  BY SolverStepInv
<1>3. SolverInv => Solver!TypeOK
  BY DEF SolverInv
<1>4. QED
  BY <1>1, <1>2, <1>3, PTL DEF Solver!Spec

-----------------------------------------------------------------------------
\* What is left of the call when an instance is asked.
LEMMA TimeLeft ==
    ASSUME Solver!Parameters, (Instances - 1) * Pause <= Attempt, SolverInv, [Solver!Next]_Solver!vars,
           solver'.at > solver.at
    PROVE  solver'.ends - now >= IF solver'.at < Instances THEN Attempt
                                 ELSE Attempt - (Instances - 1) * Pause
<1> DEFINE n == solver.at
           slack == (Instances - 1) * Pause
<1>1. /\ Solver!CallEnds \in Nat /\ Pause \in Nat /\ Instances \in Nat /\ Instances >= 1
      /\ Attempt \in Nat /\ slack \in Nat
  BY CallEndsNat DEF Solver!Parameters
<1>2. /\ now \in Nat /\ solver \in Solver!Local /\ n \in Nat /\ n <= Instances
  BY <1>1 DEF SolverInv, Solver!TypeOK, Solver!Local
<1>3. Solver!AskNext
  <2>1. Solver!Call \/ Solver!GiveUp => n = solver'.at
    BY <1>2 DEF Solver!Call, Solver!GiveUp, Solver!Local
  <2>2. Solver!Succeed \/ Solver!Refuse \/ Solver!CreateFails => n = solver'.at
    BY <1>2 DEF Solver!Succeed, Solver!Refuse, Solver!CreateFails, Solver!Goto, Solver!Local
  <2>3. Solver!Pending \/ Solver!PollFails \/ Solver!Poll => n = solver'.at
    BY <1>2 DEF Solver!Pending, Solver!PollFails, Solver!Poll, Solver!Local
  <2>4. (\E task \in {"task", "async"} : Solver!TaskCreated(task)) => n = solver'.at
    BY <1>2 DEF Solver!TaskCreated, Solver!Local
  <2>5. Solver!Elapse \/ UNCHANGED Solver!vars => n = solver'.at
    BY DEF Solver!Elapse, Solver!vars
  <2>6. Solver!Return => solver'.at = 0
    BY DEF Solver!Return, Solver!Off
  <2>7. QED
    BY <1>2, <2>1, <2>2, <2>3, <2>4, <2>5, <2>6 DEF Solver!Next, Solver!Step
<1>4. /\ solver.pc = "next" /\ n < Instances
      /\ solver'.at = n + 1 /\ solver'.ends = Solver!AttemptEnds
  BY <1>2, <1>3 DEF Solver!AskNext, Solver!At, Solver!Local
<1>5. now <= n * Attempt + n * Pause
  BY <1>1, <1>2, <1>4 DEF SolverInv, OnTime, Solver!At, Late
<1>6. n * Pause <= slack
  BY <1>1, <1>2, <1>4
<1>7. Solver!CallEnds = Instances * Attempt
  BY <1>1 DEF Solver!CallEnds
<1>8. CASE n + 1 < Instances
  <2>1. n * Attempt + Attempt + Attempt <= Instances * Attempt
    BY <1>1, <1>2, <1>8
  <2>2. now + Attempt <= Solver!CallEnds
    BY <1>1, <1>2, <1>5, <1>6, <1>7, <2>1
  <2>3. Solver!AttemptEnds = now + Attempt
    BY <1>1, <1>2, <2>2 DEF Solver!AttemptEnds, Solver!Earlier
  <2>4. QED
    BY <1>1, <1>2, <1>4, <1>8, <2>3
<1>9. CASE n + 1 = Instances
  <2>1. n * Attempt + Attempt = Solver!CallEnds
    BY <1>1, <1>2, <1>7, <1>9
  <2>2. Solver!CallEnds - now >= Attempt - slack
    BY <1>1, <1>2, <1>5, <1>6, <2>1
  <2>3. Solver!AttemptEnds - now >= Attempt - slack
    BY <1>1, <1>2, <2>2 DEF Solver!AttemptEnds, Solver!Earlier
  <2>4. QED
    BY <1>1, <1>2, <1>4, <1>9, <2>3
<1>10. QED
  BY <1>1, <1>2, <1>4, <1>8, <1>9

\* As long as all the sleeps of a call fit into one attempt, no instance takes
\* another's time: each but the last has its full attempt.
THEOREM SolverHasTime ==
    Solver!Parameters /\ (Instances - 1) * Pause <= Attempt => (Solver!Spec => Solver!LaterInstancesHaveTime)
<1> SUFFICES ASSUME Solver!Parameters, (Instances - 1) * Pause <= Attempt
             PROVE  Solver!Spec => Solver!LaterInstancesHaveTime
  OBVIOUS
<1> DEFINE Given == solver'.at > solver.at =>
                       solver'.ends - now >= IF solver'.at < Instances THEN Attempt
                                             ELSE Attempt - (Instances - 1) * Pause
<1>1. Solver!Init => SolverInv
  BY SolverInit
<1>2. SolverInv /\ [Solver!Next]_Solver!vars => SolverInv'
  BY SolverStepInv
<1>3. SolverInv /\ [Solver!Next]_Solver!vars => [Given]_Solver!vars
  BY TimeLeft
<1>4. QED
  BY <1>1, <1>2, <1>3, PTL DEF Solver!Spec, Solver!LaterInstancesHaveTime

-----------------------------------------------------------------------------
\* A check-in asks the solver by its own rules: every step of the whole is a
\* step of the solver call or leaves it alone.
LEMMA SolverSteps == [CaptchaNext]_allVars => [Solver!Next]_Solver!vars
<1> SUFFICES ASSUME [CaptchaNext]_allVars PROVE [Solver!Next]_Solver!vars
  OBVIOUS
<1>1. CASE UNCHANGED allVars
  BY <1>1 DEF allVars, Solver!vars
<1>2. ASSUME NEW f \in Flow, Start(f) \/ Work(f) \/ RefreshBalance(f)
      PROVE  UNCHANGED Solver!vars
  BY <1>2 DEF Start, Work, RefreshBalance, solverVars, Solver!vars
<1>3. ASSUME NEW f \in Flow, Solve(f) \/ CheckInAgain(f)
      PROVE  Solver!Call \/ Solver!Return
  BY <1>3 DEF Solve, CheckInAgain
<1>4. ASSUME NEW f \in Flow, Finish(f)
      PROVE  Solver!Return \/ UNCHANGED Solver!vars
  BY <1>4 DEF Finish, solverVars, Solver!vars
<1>5. CASE SolverStep
  BY <1>5 DEF SolverStep, Solver!Next
<1>6. CASE (Expire \/ Cleanup) /\ UNCHANGED <<now, solver, stage>>
  BY <1>6 DEF Solver!vars
<1>7. QED
  BY <1>1, <1>2, <1>3, <1>4, <1>5, <1>6, Zenon DEF CaptchaNext, Proceed, Solver!Next

\* The composition keeps to TurnstileSolver: what is shown of a solver call
\* holds of the calls that check-ins make.
THEOREM AsksTheSolver == CaptchaSpec => Solver!Spec
<1>1. CaptchaInit => Solver!Init
  BY DEF CaptchaInit
<1>2. [CaptchaNext]_allVars => [Solver!Next]_Solver!vars
  BY SolverSteps
<1>3. QED
  BY <1>1, <1>2, PTL DEF CaptchaSpec, Solver!Spec

\* As long as all the sleeps of a call fit into one attempt, no solver instance
\* takes another's time (failoverTurnstileSolver.SolveTurnstile): each but the
\* last has its full attempt, the last all but those sleeps.
THEOREM InstancesHaveTime ==
    (Instances - 1) * Pause <= Attempt => (CaptchaSpec => LaterInstancesHaveTime)
BY SolverHasTime, SolverAssumption, AsksTheSolver, PTL DEF LaterInstancesHaveTime

-----------------------------------------------------------------------------
\* The invariant: types, tidy flows, and what each flow's history says of it.
CheckinInv ==
    /\ FlowInv
    /\ Plain => \A f \in Flow : TellsDone(flow[f], done)
    /\ ~AsksSignIn => \A f \in Flow : Ended(flow[f])
    /\ RealId /\ Answering => \A f \in Flow : Asks(flow[f])

\* A flow that starts afresh has no history.
Fresh(l) == ~l.told /\ ~l.alt /\ l.k = 1 /\ l.pc \in {"idle", "lookup"} /\ l \in Local

LEMMA FreshFits ==
    ASSUME NEW l, Fresh(l), l.pc = "idle" => l = NoFlow
    PROVE  Tidy(l) /\ TellsDone(l, done) /\ Ended(l) /\ Asks(l)
BY DEF Fresh, Tidy, TellsDone, Ended, Asks

LEMMA FreshFlow ==
    ASSUME CheckinInv, NEW f \in Flow, NEW l, Fresh(l), l.pc = "idle" => l = NoFlow,
           flow' = [flow EXCEPT ![f] = l], UNCHANGED <<setup, cache, done>>
    PROVE  CheckinInv'
<1>1. l \in Local /\ Tidy(l) /\ TellsDone(l, done) /\ Ended(l) /\ Asks(l)
  BY FreshFits DEF Fresh
<1>2. \A g \in Flow : flow'[g] = IF g = f THEN l ELSE flow[g]
  BY DEF CheckinInv, FlowInv, TypeOK
<1>3. FlowInv'
  BY <1>1, OneFlow DEF CheckinInv, FlowInv, TypeOK
<1>4. Plain => \A g \in Flow : TellsDone(flow'[g], done)
  BY <1>1, <1>2 DEF CheckinInv
<1>5. RealId /\ Answering => \A g \in Flow : Asks(flow'[g])
  BY <1>1, <1>2 DEF CheckinInv
<1>6. ~AsksSignIn => \A g \in Flow : Ended(flow'[g])
  BY <1>1, <1>2 DEF CheckinInv
<1>7. QED
  BY <1>3, <1>4, <1>5, <1>6 DEF CheckinInv, Plain, Ended, TellsDone, Knows, AsksSignIn, RealId, Answering, Asks,
     CaptchaSaid, CaptchaOnEach, RightId, Authorised

StageTyped == stage \in [Flow -> Stage]

\* The invariant holds at the start, when no flow has begun.
LEMMA CheckinInit == CaptchaInit => CheckinInv /\ StageTyped
<1> SUFFICES ASSUME CaptchaInit PROVE CheckinInv /\ StageTyped
  OBVIOUS
<1>1. NoFlow \in Local /\ Tidy(NoFlow) /\ NoFlow.pc = "idle" /\ ~NoFlow.told /\ NoFlow.kind = "none"
  BY NoFlowTyped DEF NoFlow
<1>2. FlowInv
  BY <1>1 DEF CaptchaInit, Init, FlowInv, TypeOK, NoEntry
<1>3. \A f \in Flow : TellsDone(flow[f], done) /\ Ended(flow[f]) /\ Asks(flow[f])
  BY <1>1 DEF CaptchaInit, Init, TellsDone, Ended, Asks
<1>4. StageTyped
  BY DEF CaptchaInit, StageTyped, Stage
<1>5. QED
  BY <1>2, <1>3, <1>4 DEF CheckinInv

\* Nothing a flow does changes the panel's ways.
LEMMA SetupStays ==
    ASSUME setup' = setup, \A f \in Flow : TellsDone(flow'[f], done') \/ ~Plain,
           \A f \in Flow : Ended(flow'[f]) \/ AsksSignIn,
           \A f \in Flow : Asks(flow'[f]) \/ ~(RealId /\ Answering), FlowInv'
    PROVE  CheckinInv'
BY DEF CheckinInv, Plain, Ended, TellsDone, Knows, AsksSignIn, RealId, Answering, Asks,
       CaptchaSaid, CaptchaOnEach, RightId, Authorised, AlternatePlan, AlternateProbes

\* Every step of the composition keeps the invariant.
LEMMA CheckinStep == CheckinInv /\ StageTyped /\ [CaptchaNext]_allVars => CheckinInv' /\ StageTyped'
<1> SUFFICES ASSUME CheckinInv, StageTyped, [CaptchaNext]_allVars PROVE CheckinInv' /\ StageTyped'
  OBVIOUS
<1>0. flow \in [Flow -> Local] /\ FlowInv /\ TypeOK
  BY DEF CheckinInv, FlowInv, TypeOK
<1>1. CASE UNCHANGED <<setup, cache, done, flow>> /\ StageTyped'
  <2>1. FlowInv'
    BY <1>0, <1>1 DEF FlowInv, TypeOK, Tidy
  <2>2. QED
    BY <1>1, <2>1, SetupStays DEF CheckinInv
<1>2. ASSUME NEW f \in Flow, NEW s \in Stage, To(f, s) PROVE StageTyped'
  BY <1>2 DEF To, StageTyped
<1>3. CASE UNCHANGED allVars
  BY <1>1, <1>3 DEF allVars, StageTyped
<1>4. ASSUME NEW f \in Flow, Start(f) PROVE CheckinInv' /\ StageTyped'
  <2>1. PICK kind \in {"checkin", "balance"} :
           flow' = [flow EXCEPT ![f] = [flow[f] EXCEPT !.kind = kind, !.pc = "lookup"]]
    BY <1>0, <1>4 DEF Start, Begin
  <2>2. flow[f] = NoFlow /\ UNCHANGED <<setup, cache, done>>
    BY <1>0, <1>4 DEF Start, Begin, At, FlowInv, Tidy
  <2> DEFINE l == [flow[f] EXCEPT !.kind = kind, !.pc = "lookup"]
  <2>3. Fresh(l) /\ l.pc # "idle"
    <3>1. l = [NoFlow EXCEPT !.kind = kind, !.pc = "lookup"]
      BY <2>2
    <3>2. kind \in {"none", "checkin", "balance"}
      BY <2>1
    <3> HIDE DEF l
    <3>3. QED
      BY <3>1, <3>2, NoFlowTyped DEF Fresh, NoFlow, Local, Phase
  <2> HIDE DEF l
  <2>4. CheckinInv'
    BY <2>1, <2>2, <2>3, FreshFlow DEF l
  <2>5. StageTyped'
    BY <1>2, <1>4 DEF Start, Stage
  <2>6. QED
    BY <2>4, <2>5
<1>5. ASSUME NEW f \in Flow, Work(f) PROVE CheckinInv' /\ StageTyped'
  <2>1. Step(f) /\ StageTyped'
    BY <1>5 DEF Work, StageTyped
  <2>2. FlowInv' /\ setup' = setup
    <3>1. setup' = setup
      BY <2>1 DEF Step, Lookup, Ask, Unresolved, NoCookieTook, NoAlternate
    <3>2. QED
      BY <1>0, <2>1, <3>1, StepTyped
  <2>3. Plain => \A g \in Flow : TellsDone(flow'[g], done')
    BY <1>0, <2>1, StepTells DEF CheckinInv
  <2>4. RealId /\ Answering => \A g \in Flow : Asks(flow'[g])
    BY <1>0, <2>1, StepAsks DEF CheckinInv
  <2>5. ~AsksSignIn => \A g \in Flow : Ended(flow'[g])
    BY <1>0, <2>1, StepEnds DEF CheckinInv
  <2>6. QED
    BY <2>1, <2>2, <2>3, <2>4, <2>5, SetupStays
<1>6. ASSUME NEW f \in Flow, Solve(f) PROVE CheckinInv' /\ StageTyped'
  BY <1>1, <1>2, <1>6 DEF Solve, vars, Stage
<1>7. ASSUME NEW f \in Flow, CheckInAgain(f) PROVE CheckinInv' /\ StageTyped'
  <2>1. Fresh(CaptchaFlow) /\ CaptchaFlow.pc # "idle"
    BY NoFlowTyped DEF Fresh, CaptchaFlow, NoFlow, Local, Phase, Captcha
  <2>2. CheckinInv'
    BY <1>7, <2>1, FreshFlow DEF CheckInAgain
  <2>3. StageTyped'
    BY <1>2, <1>7 DEF CheckInAgain, Stage
  <2>4. QED
    BY <2>2, <2>3
<1>8. ASSUME NEW f \in Flow, RefreshBalance(f) PROVE CheckinInv' /\ StageTyped'
  <2> DEFINE l == [NoFlow EXCEPT !.kind = "balance", !.pc = "lookup"]
  <2>1. Fresh(l) /\ l.pc # "idle"
    BY NoFlowTyped DEF Fresh, NoFlow, Local, Phase, Captcha
  <2> HIDE DEF l
  <2>2. CheckinInv'
    BY <1>8, <2>1, FreshFlow DEF RefreshBalance, l
  <2>3. StageTyped'
    BY <1>2, <1>8 DEF RefreshBalance, Stage
  <2>4. QED
    BY <2>2, <2>3
<1>9. ASSUME NEW f \in Flow, Finish(f) PROVE CheckinInv' /\ StageTyped'
  <2>1. Fresh(NoFlow)
    BY NoFlowTyped DEF Fresh, NoFlow
  <2>2. CheckinInv'
    BY <1>9, <2>1, FreshFlow DEF Finish, Return
  <2>3. StageTyped'
    BY <1>2, <1>9 DEF Finish, Stage
  <2>4. QED
    BY <2>2, <2>3
<1>10. CASE SolverStep
  BY <1>1, <1>10 DEF SolverStep, StageTyped
<1>11. CASE (Expire \/ Cleanup) /\ UNCHANGED <<now, solver, stage>>
  <2>1. UNCHANGED <<setup, done, flow>> /\ StageTyped'
    BY <1>11 DEF Expire, Cleanup, StageTyped
  <2>2. cache' \in [user : Nat, expired : BOOLEAN]
    <3>1. cache \in [user : Nat, expired : BOOLEAN]
      BY <1>0 DEF TypeOK
    <3>2. CASE Expire
      BY <3>1, <3>2 DEF Expire
    <3>3. CASE Cleanup
      BY <3>3 DEF Cleanup, NoEntry
    <3>4. QED
      BY <1>11, <3>2, <3>3
  <2>3. FlowInv'
    BY <1>0, <2>1, <2>2 DEF FlowInv, TypeOK, Tidy
  <2>4. QED
    BY <2>1, <2>3, SetupStays DEF CheckinInv
<1>12. QED
  BY <1>3, <1>4, <1>5, <1>6, <1>7, <1>8, <1>9, <1>10, <1>11, Zenon DEF CaptchaNext, Proceed

\* The invariant holds of the whole.
LEMMA CheckinInvariant == CaptchaSpec => [](CheckinInv /\ StageTyped)
<1>1. CaptchaInit => CheckinInv /\ StageTyped
  BY CheckinInit
<1>2. (CheckinInv /\ StageTyped) /\ [CaptchaNext]_allVars => (CheckinInv /\ StageTyped)'
  BY CheckinStep
<1>3. QED
  BY <1>1, <1>2, PTL DEF CaptchaSpec

\* Check-ins, balance reads, the cache they share and the solver call have their
\* declared types, for every kind of account and panel, every list of candidate
\* ids and any number of cookies, flows and solver instances.
THEOREM TypeCorrect == CaptchaSpec => []CaptchaTypeOK
<1>1. CheckinInv /\ StageTyped /\ Solver!TypeOK => CaptchaTypeOK
  BY DEF CheckinInv, FlowInv, StageTyped, CaptchaTypeOK
<1>2. Solver!Spec => []Solver!TypeOK
  BY SolverTypeCorrect, SolverAssumption
<1>3. QED
  BY <1>1, <1>2, CheckinInvariant, AsksTheSolver, PTL

\* NewApiAdapter.Checkin and executePowCheckin report the check-in the panel
\* has granted or called made.  The proof of work, the Authorization header and
\* a panel without sign_in end at that answer, however it refuses, whatever is
\* lost.  Step 2 goes on after sign_in, and then keeps its message of a
\* check-in made as long as no answer is lost, the panel refuses with an HTTP
\* status and wants no captcha.
THEOREM ReportsDone == CaptchaSpec => []DoneIsReported
<1>1. CheckinInv => DoneIsReported
  BY DEF CheckinInv, Plain, CaptchaOnEach, TellsDone, Knows, Ended, DoneIsReported, At
<1>2. QED
  BY <1>1, CheckinInvariant, PTL

\* "A real id is never starved by the budget" (probeUserId), whatever the
\* budget, the number of cookies and the candidates.
THEOREM TriesEveryId == CaptchaSpec => []RealIdNotStarved
<1>1. CheckinInv => RealIdNotStarved
  <2> SUFFICES ASSUME CheckinInv, NEW f \in Flow,
                      At(f, "end"), flow[f].kind = "checkin", ~flow[f].lost, ~flow[f].told,
                      Answering, SessionFailure(flow[f].first),
                      NEW n \in DOMAIN IdCandidates,
                      Authorised(Request("self", 1, IdCandidates[n]))
               PROVE  FALSE
    BY DEF RealIdNotStarved, Answering
  <2>1. RealId
    BY DEF RealId, RightId, Authorised, Request
  <2>2. Asks(flow[f])
    BY <2>1 DEF CheckinInv
  <2>3. QED
    BY <2>2 DEF Asks, At
<1>2. QED
  BY <1>1, CheckinInvariant, PTL
=============================================================================
