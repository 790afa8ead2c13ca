-------------------------- MODULE SiteArchiveProofs --------------------------
(***************************************************************************)
(* Proofs about SiteArchive.                                               *)
(* TypeCorrect needs to know what each request carries besides its types:  *)
(* a cascade only rows its loop will write, the others the row they work   *)
(* on.  CascadesLossless then shows that archive and restore keep what was *)
(* asked for, and the last part what a cascade that ends leaves behind.    *)
(***************************************************************************)
EXTENDS SiteArchive, TLAPS

TaskOK(t) ==
    /\ t.op \in Cascade =>
          /\ t.want \in SiteStatus
          /\ t.pc = "archive" => t.want = "disabled"
          /\ t.pc = "restore" => t.want = "active"
          /\ t.pc = "work" /\ t.want = "disabled" =>
                \A a \in DOMAIN t.saw : Archivable(t.saw[a])
    /\ t.op \notin Cascade => t.account \in Account
    /\ t.op \notin Cascade \cup {"create"} => t.account \in DOMAIN t.saw
    /\ t.op = "create" => t.want \in AccountStatus

TypeInv ==
    /\ TypeOK
    /\ \A p \in Request : request[p] # Nil => TaskOK(request[p])

\* A snapshot is a function from some accounts to rows.
LEMMA SnapshotIs ==
    ASSUME NEW s \in Snapshot
    PROVE  /\ DOMAIN s \subseteq Account
           /\ \A a \in DOMAIN s : s[a] \in Row
           /\ s = [a \in DOMAIN s |-> s[a]]
BY DEF Snapshot

\* What a request reads of rows that exist is a snapshot.
LEMMA SeenTyped ==
    ASSUME TypeOK, NEW S \in SUBSET Present
    PROVE  /\ Seen(S) \in Snapshot
           /\ DOMAIN Seen(S) = S
           /\ \A a \in S : Seen(S)[a] = row[a] /\ row[a] \in Row
<1>1. S \subseteq Account
  BY DEF Present
<1>2. \A a \in S : row[a] \in Row
  BY <1>1 DEF TypeOK, Present
<1>3. [a \in S |-> row[a]] \in Snapshot
  BY <1>1, <1>2 DEF Snapshot
<1> QED
  BY <1>2, <1>3 DEF Seen

\* Writing a well-typed task keeps the requests well typed.
LEMMA RequestTyped ==
    ASSUME TypeInv, NEW p \in Request, NEW t \in Task, TaskOK(t),
           request' = [request EXCEPT ![p] = t]
    PROVE  /\ request' \in [Request -> Task \cup {Nil}]
           /\ \A q \in Request : request'[q] # Nil => TaskOK(request'[q])
BY DEF TypeInv, TypeOK

LEMMA ReturnTyped ==
    ASSUME TypeInv, NEW p \in Request, Return(p)
    PROVE  /\ request' \in [Request -> Task \cup {Nil}]
           /\ \A q \in Request : request'[q] # Nil => TaskOK(request'[q])
BY DEF TypeInv, TypeOK, Return

LEMMA AtIs ==
    ASSUME TypeInv, NEW p \in Request, NEW ops, NEW pc, At(p, ops, pc)
    PROVE  /\ request[p] \in Task
           /\ request[p].op \in ops
           /\ request[p].pc = pc
           /\ TaskOK(request[p])
BY DEF TypeInv, TypeOK, At

LEMMA UpdateTyped ==
    ASSUME TypeOK, NEW a \in Account, NEW r,
           row[a] # Nil => r \in Row, Update(a, r)
    PROVE  row' \in [Account -> Row \cup {Nil}]
BY DEF TypeOK, Update

LEMMA IntentTyped ==
    ASSUME NEW r \in Row
    PROVE  Intent(r) \in AccountStatus
BY DEF Intent, Row, Marker, AccountStatus

LEMMA ArchivedTyped ==
    ASSUME NEW r \in Row, Archivable(r)
    PROVE  Archived(r) \in Row
BY DEF Archived, Archivable, Row, Marker, AccountStatus

LEMMA RestoredTyped ==
    ASSUME NEW r \in Row
    PROVE  Restored(r) \in Row
BY IntentTyped DEF Restored, Unmarked, Row, Marker
-----------------------------------------------------------------------------
LEMMA InitTyped == Init => TypeInv
<1> SUFFICES ASSUME Init PROVE TypeInv
  OBVIOUS
<1>1. Unmarked \in Marker
  BY DEF Unmarked, Marker
<1>2. [status : AccountStatus, extra : {Unmarked}] \subseteq Row
  BY <1>1 DEF Row
<1>3. row \in [Account -> Row \cup {Nil}]
  BY <1>2 DEF Init
<1>4. choice \in [Account -> AccountStatus \cup {Nil}]
  BY <1>3 DEF Init, Row
<1> QED
  BY <1>3, <1>4 DEF Init, TypeInv, TypeOK, SiteStatus

\* A request begins with what it was given and what it read.
LEMMA BeginTyped ==
    ASSUME TypeInv, NEW p \in Request, NEW op \in OpKind, NEW pc \in Phase,
           NEW a \in Account \cup {Nil}, NEW want \in AccountStatus \cup {Nil},
           NEW saw \in Snapshot, Begin(p, op, pc, a, want, saw),
           op \in Cascade => pc = "read",
           op \in Cascade => want \in SiteStatus,
           op \notin Cascade => a \in Account,
           op \notin Cascade \cup {"create"} => a \in DOMAIN saw,
           op = "create" => want \in AccountStatus
    PROVE  /\ request' \in [Request -> Task \cup {Nil}]
           /\ \A q \in Request : request'[q] # Nil => TaskOK(request'[q])
<1> DEFINE t == [op |-> op, pc |-> pc, account |-> a, want |-> want,
                 old |-> site, saw |-> saw]
<1>1. t \in Task
  BY DEF TypeInv, TypeOK, Task
<1>2. TaskOK(t)
  BY DEF TaskOK
<1>3. request' = [request EXCEPT ![p] = t]
  BY DEF Begin
<1> HIDE DEF t
<1> QED
  BY <1>1, <1>2, <1>3, RequestTyped

LEMMA ReadSiteTyped ==
    ASSUME TypeInv, NEW p \in Request, NEW op \in Cascade, NEW st \in SiteStatus,
           ReadSite(p, op, st)
    PROVE  TypeInv'
<1>1. Seen({}) \in Snapshot
  BY SeenTyped DEF TypeInv
<1>2. /\ request' \in [Request -> Task \cup {Nil}]
      /\ \A q \in Request : request'[q] # Nil => TaskOK(request'[q])
  BY <1>1, BeginTyped DEF ReadSite, Cascade, OpKind, Phase, SiteStatus, AccountStatus
<1> QED
  BY <1>2 DEF ReadSite, TypeInv, TypeOK

LEMMA StoreSiteTyped ==
    ASSUME TypeInv, NEW p \in Request, StoreSite(p)
    PROVE  TypeInv'
<1> DEFINE next == CascadeFor(request[p])
           t == [request[p] EXCEPT !.pc = next]
<1>1. /\ request[p] \in Task
      /\ TaskOK(request[p])
      /\ request[p].op \in Cascade
  BY AtIs DEF StoreSite
<1>2. site' \in SiteStatus
  BY <1>1 DEF StoreSite, TaskOK
<1>3. /\ next \in {"none", "archive", "restore"}
      /\ next = "archive" => request[p].want = "disabled"
      /\ next = "restore" => request[p].want = "active"
  BY DEF CascadeFor
<1>4. CASE next = "none"
  <2>1. Return(p)
    BY <1>4 DEF StoreSite
  <2> QED
    BY <1>2, <2>1, ReturnTyped DEF StoreSite, TypeInv, TypeOK
<1>5. CASE next # "none"
  <2>0. next \in {"archive", "restore"}
    BY <1>3, <1>5
  <2>1. t \in Task
    <3> HIDE DEF next
    <3> QED
      BY <1>1, <2>0 DEF Task, Phase
  <2>a. TaskOK(t)
    <3> HIDE DEF next
    <3>1. /\ t.op = request[p].op /\ t.want = request[p].want
          /\ t.pc = next
      BY <1>1 DEF Task
    <3> QED
      BY <1>1, <1>3, <2>0, <3>1 DEF TaskOK, Cascade
  <2>2. request' = [request EXCEPT ![p] = t]
    BY <1>1, <1>5 DEF StoreSite, Go, TypeInv, TypeOK
  <2>3. /\ request' \in [Request -> Task \cup {Nil}]
        /\ \A q \in Request : request'[q] # Nil => TaskOK(request'[q])
    BY <2>1, <2>a, <2>2, RequestTyped
  <2> QED
    BY <1>2, <2>3 DEF StoreSite, TypeInv, TypeOK
<1> QED
  BY <1>4, <1>5

LEMMA SelectTyped ==
    ASSUME TypeInv, NEW p \in Request, SelectToArchive(p) \/ SelectToRestore(p)
    PROVE  TypeInv'
<1> DEFINE S == IF SelectToArchive(p) THEN {a \in Present : Archivable(row[a])}
                                      ELSE {a \in Present : row[a].extra.marked}
           t == [request[p] EXCEPT !.pc = "work", !.saw = Seen(S)]
<1>1. /\ request[p] \in Task
      /\ TaskOK(request[p])
      /\ request[p].op \in Cascade
  BY AtIs DEF SelectToArchive, SelectToRestore
<1>2. S \subseteq Present
  OBVIOUS
<1>3. /\ Seen(S) \in Snapshot
      /\ DOMAIN Seen(S) = S
      /\ \A a \in S : Seen(S)[a] = row[a]
  BY <1>2, SeenTyped DEF TypeInv
<1>4. t \in Task
  BY <1>1, <1>3 DEF Task, Phase
<1>5. TaskOK(t)
  <2>1. t.op \in Cascade /\ t.op # "create" /\ t.pc = "work"
    BY <1>1 DEF Task, Cascade
  <2>2. t.want \in SiteStatus /\ t.want = request[p].want /\ t.saw = Seen(S)
    BY <1>1 DEF Task, TaskOK
  <2>3. CASE SelectToArchive(p)
    <3>1. \A a \in S : Archivable(Seen(S)[a])
      BY <1>3, <2>3
    <3> QED
      BY <1>3, <2>1, <2>2, <3>1 DEF TaskOK
  <2>4. CASE ~SelectToArchive(p)
    <3>1. request[p].want = "active"
      BY <1>1, <2>4 DEF SelectToRestore, At, TaskOK
    <3> QED
      BY <2>1, <2>2, <3>1 DEF TaskOK
  <2> QED
    BY <2>3, <2>4
<1>6. request' = [request EXCEPT ![p] = t]
  BY <1>1 DEF SelectToArchive, SelectToRestore, TypeInv, TypeOK
<1>7. /\ request' \in [Request -> Task \cup {Nil}]
      /\ \A q \in Request : request'[q] # Nil => TaskOK(request'[q])
  BY <1>4, <1>5, <1>6, RequestTyped
<1> QED
  BY <1>7 DEF SelectToArchive, SelectToRestore, TypeInv, TypeOK

\* One UPDATE of a cascade writes a row of the snapshot, archived or restored.
LEMMA CascadeStepTyped ==
    ASSUME TypeInv, NEW p \in Request, CascadeStep(p)
    PROVE  TypeInv'
<1> DEFINE saw == request[p].saw
<1>1. /\ request[p] \in Task
      /\ TaskOK(request[p])
      /\ request[p].op \in Cascade
      /\ request[p].pc = "work"
  BY AtIs DEF CascadeStep
<1>2. PICK a \in DOMAIN saw :
         /\ Update(a, IF request[p].want = "disabled" THEN Archived(saw[a])
                                                     ELSE Restored(saw[a]))
         /\ request' = [request EXCEPT ![p].saw =
                          [b \in DOMAIN saw \ {a} |-> saw[b]]]
  BY DEF CascadeStep
<1>3. /\ saw \in Snapshot
      /\ DOMAIN saw \subseteq Account
      /\ \A b \in DOMAIN saw : saw[b] \in Row
  BY <1>1, SnapshotIs DEF Task
<1> DEFINE rest == [b \in DOMAIN saw \ {a} |-> saw[b]]
           t == [request[p] EXCEPT !.saw = rest]
<1>4. row' \in [Account -> Row \cup {Nil}]
  <2>1. request[p].want = "disabled" => Archivable(saw[a])
    BY <1>1, <1>2 DEF TaskOK
  <2>2. (IF request[p].want = "disabled" THEN Archived(saw[a])
                                         ELSE Restored(saw[a])) \in Row
    BY <1>2, <1>3, <2>1, ArchivedTyped, RestoredTyped
  <2> QED
    BY <1>2, <1>3, <2>2, UpdateTyped DEF TypeInv
<1>5. /\ rest \in Snapshot
      /\ DOMAIN rest = DOMAIN saw \ {a}
      /\ \A b \in DOMAIN rest : rest[b] = saw[b]
  <2>1. DOMAIN saw \ {a} \in SUBSET Account
    BY <1>3
  <2>2. rest \in [DOMAIN saw \ {a} -> Row]
    BY <1>3
  <2> QED
    BY <2>1, <2>2 DEF Snapshot
<1>6. t \in Task
  <2> HIDE DEF rest
  <2> QED
    BY <1>1, <1>5 DEF Task
<1>7. TaskOK(t)
  <2> HIDE DEF rest
  <2>1. /\ t.op = request[p].op /\ t.want = request[p].want
        /\ t.pc = request[p].pc /\ t.saw = rest
    BY <1>1 DEF Task
  <2>2. t.op \notin {"create"}
    BY <1>1, <2>1 DEF Cascade
  <2> QED
    BY <1>1, <1>5, <2>1, <2>2 DEF TaskOK
<1>8. request' = [request EXCEPT ![p] = t]
  BY <1>1, <1>2 DEF TypeInv, TypeOK
<1>9. /\ request' \in [Request -> Task \cup {Nil}]
      /\ \A q \in Request : request'[q] # Nil => TaskOK(request'[q])
  <2> HIDE DEF t
  <2> QED
    BY <1>6, <1>7, <1>8, RequestTyped
<1> QED
  BY <1>4, <1>9 DEF CascadeStep, TypeInv, TypeOK

\* Requests that end and leave the rows alone.
LEMMA ReturnsTyped ==
    ASSUME TypeInv, NEW p \in Request, Return(p), UNCHANGED <<site, row, choice>>,
           leftover' \subseteq Account
    PROVE  TypeInv'
BY ReturnTyped DEF TypeInv, TypeOK

LEMMA ReadAccountTyped ==
    ASSUME TypeInv, NEW p \in Request, NEW op \in OpKind, NEW a \in Account,
           NEW st \in AccountStatus \cup {Nil}, ReadAccount(p, op, a, st)
    PROVE  TypeInv'
<1>1. /\ op \in {"choose", "form", "login", "rebind"}
      /\ {a} \subseteq Present
      /\ Begin(p, op, "save", a, st, Seen({a}))
      /\ UNCHANGED <<site, row, choice, leftover>>
  BY DEF ReadAccount
<1>2. Seen({a}) \in Snapshot /\ DOMAIN Seen({a}) = {a}
  BY <1>1, SeenTyped DEF TypeInv
<1>3. /\ op \notin Cascade /\ op # "create"
      /\ "save" \in Phase
  BY <1>1 DEF Cascade, Phase
<1>4. /\ request' \in [Request -> Task \cup {Nil}]
      /\ \A q \in Request : request'[q] # Nil => TaskOK(request'[q])
  BY <1>1, <1>2, <1>3, BeginTyped
<1> QED
  BY <1>1, <1>4 DEF TypeInv, TypeOK

LEMMA StartCheckinTyped ==
    ASSUME TypeInv, NEW p \in Request, NEW op \in OpKind, NEW a \in Account,
           StartCheckin(p, op, a)
    PROVE  TypeInv'
<1>1. /\ op \in {"checkin", "refresh"}
      /\ {a} \subseteq Present
      /\ Begin(p, op, "work", a, Nil, Seen({a}))
      /\ UNCHANGED <<site, row, choice, leftover>>
  BY DEF StartCheckin
<1>2. Seen({a}) \in Snapshot /\ DOMAIN Seen({a}) = {a}
  BY <1>1, SeenTyped DEF TypeInv
<1>3. /\ op \notin Cascade /\ op # "create"
      /\ "work" \in Phase
  BY <1>1 DEF Cascade, Phase
<1>4. /\ request' \in [Request -> Task \cup {Nil}]
      /\ \A q \in Request : request'[q] # Nil => TaskOK(request'[q])
  BY <1>1, <1>2, <1>3, BeginTyped
<1> QED
  BY <1>1, <1>4 DEF TypeInv, TypeOK

LEMMA StartCreateTyped ==
    ASSUME TypeInv, NEW p \in Request, NEW a \in Account,
           NEW st \in AccountStatus, StartCreate(p, a, st)
    PROVE  TypeInv'
<1>1. /\ Begin(p, "create", "insert", a, st, Seen({}))
      /\ UNCHANGED <<site, row, choice, leftover>>
  BY DEF StartCreate
<1>2. Seen({}) \in Snapshot
  BY SeenTyped DEF TypeInv
<1>3. /\ "create" \notin Cascade
      /\ "create" \in OpKind
      /\ "insert" \in Phase
  BY DEF Cascade, OpKind, Phase
<1>4. /\ request' \in [Request -> Task \cup {Nil}]
      /\ \A q \in Request : request'[q] # Nil => TaskOK(request'[q])
  BY <1>1, <1>2, <1>3, BeginTyped
<1> QED
  BY <1>1, <1>4 DEF TypeInv, TypeOK

LEMMA SaveAccountTyped ==
    ASSUME TypeInv, NEW p \in Request, SaveAccount(p)
    PROVE  TypeInv'
<1> DEFINE t == request[p]
           a == t.account
           new == [status |-> IF t.want = Nil THEN row[a].status ELSE t.want,
                   extra |-> MarkerWritten(t, t.saw[a], row[a])]
<1>1. /\ t \in Task /\ TaskOK(t)
      /\ t.op \in {"choose", "form", "login", "rebind"}
  BY AtIs DEF SaveAccount
<1>2. /\ a \in Account /\ a \in DOMAIN t.saw
      /\ t.want \in AccountStatus \cup {Nil}
      /\ t.saw \in Snapshot
  BY <1>1 DEF TaskOK, Cascade, Task
<1>3. t.saw[a] \in Row
  BY <1>2, SnapshotIs
<1>4. row[a] # Nil => new \in Row
  <2> SUFFICES ASSUME row[a] # Nil PROVE new \in Row
    OBVIOUS
  <2>1. row[a] \in Row
    BY <1>2 DEF TypeInv, TypeOK
  <2>2. Unmarked \in Marker
    BY DEF Unmarked, Marker
  <2>3. MarkerWritten(t, t.saw[a], row[a]) \in Marker
    BY <1>3, <2>1, <2>2 DEF MarkerWritten, Row
  <2>4. row[a].status \in AccountStatus
    BY <2>1 DEF Row
  <2> QED
    BY <1>2, <2>3, <2>4 DEF Row
<1>5. /\ Update(a, new)
      /\ choice' = IF \/ t.op = "rebind"
                      \/ t.op = "form" /\ t.want = t.saw[a].status
                  THEN choice ELSE [choice EXCEPT ![a] = t.want]
      /\ Return(p)
      /\ site' = site
      /\ leftover' \in {leftover, leftover \cup {a}}
  BY DEF SaveAccount
<1>6. row' \in [Account -> Row \cup {Nil}]
  <2> HIDE DEF new, a
  <2> QED
    BY <1>2, <1>4, <1>5, UpdateTyped DEF TypeInv
<1>7. choice' \in [Account -> AccountStatus \cup {Nil}]
  BY <1>2, <1>5 DEF TypeInv, TypeOK
<1>8. leftover' \subseteq Account
  <2> HIDE DEF a
  <2> QED
    BY <1>2, <1>5 DEF TypeInv, TypeOK
<1> QED
  BY <1>5, <1>6, <1>7, <1>8, ReturnTyped DEF TypeInv, TypeOK

LEMMA FinishCheckinTyped ==
    ASSUME TypeInv, NEW p \in Request, NEW st \in AccountStatus \cup {Nil},
           FinishCheckin(p, st)
    PROVE  TypeInv'
<1> DEFINE old == request[p]
           saw == IF old.op = "checkin" /\ row[old.account] # Nil
                  THEN Seen({old.account}) ELSE old.saw
           t == [old EXCEPT !.pc = "save", !.want = st, !.saw = saw]
<1>1. /\ old \in Task /\ TaskOK(old)
      /\ old.op \in {"checkin", "refresh"}
  BY AtIs DEF FinishCheckin
<1>2. /\ old.account \in Account /\ old.account \in DOMAIN old.saw
      /\ old.saw \in Snapshot
  BY <1>1 DEF TaskOK, Cascade, Task
<1>3. /\ saw \in Snapshot
      /\ old.account \in DOMAIN saw
  <2>1. row[old.account] # Nil => {old.account} \subseteq Present
    BY <1>2 DEF Present
  <2>2. row[old.account] # Nil =>
           Seen({old.account}) \in Snapshot /\ old.account \in DOMAIN Seen({old.account})
    BY <2>1, SeenTyped DEF TypeInv
  <2> QED
    BY <1>2, <2>2
<1>4. t \in Task /\ TaskOK(t)
  <2> HIDE DEF saw
  <2>1. t \in Task
    BY <1>1, <1>3 DEF Task, Phase
  <2>2. /\ t.op = old.op /\ t.account = old.account /\ t.saw = saw
    BY <1>1 DEF Task
  <2> QED
    BY <1>1, <1>2, <1>3, <2>1, <2>2 DEF TaskOK, Cascade
<1>5. /\ request' = [request EXCEPT ![p] = t]
      /\ UNCHANGED <<site, row, choice, leftover>>
  BY <1>1 DEF FinishCheckin, TypeInv, TypeOK
<1>6. /\ request' \in [Request -> Task \cup {Nil}]
      /\ \A q \in Request : request'[q] # Nil => TaskOK(request'[q])
  <2> HIDE DEF t
  <2> QED
    BY <1>4, <1>5, RequestTyped
<1> QED
  BY <1>5, <1>6 DEF TypeInv, TypeOK

LEMMA SaveHealthTyped ==
    ASSUME TypeInv, NEW p \in Request, SaveHealth(p)
    PROVE  TypeInv'
<1> DEFINE t == request[p]
           a == t.account
           new == [status |-> IF t.want = Nil THEN row[a].status ELSE t.want,
                   extra |-> t.saw[a].extra]
<1>1. /\ t \in Task /\ TaskOK(t)
      /\ t.op \in {"checkin", "refresh"}
  BY AtIs DEF SaveHealth
<1>2. /\ a \in Account /\ a \in DOMAIN t.saw
      /\ t.want \in AccountStatus \cup {Nil}
      /\ t.saw \in Snapshot
  BY <1>1 DEF TaskOK, Cascade, Task
<1>3. t.saw[a] \in Row
  BY <1>2, SnapshotIs
<1>4. row[a] # Nil => new \in Row
  <2> SUFFICES ASSUME row[a] # Nil PROVE new \in Row
    OBVIOUS
  <2>1. row[a] \in Row
    BY <1>2 DEF TypeInv, TypeOK
  <2>2. row[a].status \in AccountStatus /\ t.saw[a].extra \in Marker
    BY <1>3, <2>1 DEF Row
  <2> QED
    BY <1>2, <2>2 DEF Row
<1>5. /\ Update(a, new)
      /\ choice' = IF t.want = Nil \/ choice[a] = "disabled" THEN choice
                  ELSE [choice EXCEPT ![a] = t.want]
      /\ Return(p)
      /\ UNCHANGED <<site, leftover>>
  BY DEF SaveHealth
<1>6. row' \in [Account -> Row \cup {Nil}]
  <2> HIDE DEF new, a
  <2> QED
    BY <1>2, <1>4, <1>5, UpdateTyped DEF TypeInv
<1>7. choice' \in [Account -> AccountStatus \cup {Nil}]
  BY <1>2, <1>5 DEF TypeInv, TypeOK
<1> QED
  BY <1>5, <1>6, <1>7, ReturnTyped DEF TypeInv, TypeOK

LEMMA DeleteTyped ==
    ASSUME TypeInv, NEW p \in Request, NEW a \in Account, DeleteAccount(p, a)
    PROVE  TypeInv'
BY DEF DeleteAccount, TypeInv, TypeOK

LEMMA InsertTyped ==
    ASSUME TypeInv, NEW p \in Request, InsertAccount(p)
    PROVE  TypeInv'
<1> DEFINE old == request[p]
           t == [old EXCEPT !.pc = "mark"]
           new == [status |-> IF old.old = "disabled" THEN "disabled" ELSE old.want,
                   extra |-> Unmarked]
<1>1. /\ old \in Task /\ TaskOK(old)
      /\ old.op = "create"
  BY AtIs DEF InsertAccount
<1>2. old.account \in Account /\ old.want \in AccountStatus
  BY <1>1 DEF TaskOK, Cascade
<1>3. new \in Row
  BY <1>2 DEF Row, Unmarked, Marker, AccountStatus
<1>4. t \in Task /\ TaskOK(t)
  <2>1. t \in Task
    BY <1>1 DEF Task, Phase
  <2>2. t.op = "create" /\ t.account = old.account /\ t.want = old.want
    BY <1>1 DEF Task
  <2> QED
    BY <1>2, <2>1, <2>2 DEF TaskOK, Cascade
<1>5. /\ row' = [row EXCEPT ![old.account] = new]
      /\ choice' = [choice EXCEPT ![old.account] = old.want]
      /\ request' = [request EXCEPT ![p] = t]
      /\ UNCHANGED <<site, leftover>>
  BY <1>1 DEF InsertAccount, Go, TypeInv, TypeOK
<1>6. /\ request' \in [Request -> Task \cup {Nil}]
      /\ \A q \in Request : request'[q] # Nil => TaskOK(request'[q])
  <2> HIDE DEF t
  <2> QED
    BY <1>4, <1>5, RequestTyped
<1>7. row' \in [Account -> Row \cup {Nil}]
  <2> HIDE DEF new
  <2> QED
    BY <1>2, <1>3, <1>5 DEF TypeInv, TypeOK
<1> QED
  BY <1>2, <1>5, <1>6, <1>7 DEF TypeInv, TypeOK

LEMMA MarkTyped ==
    ASSUME TypeInv, NEW p \in Request, MarkCreated(p)
    PROVE  TypeInv'
<1> DEFINE a == request[p].account
           new == [status |-> row[a].status, extra |-> CreatedMarker(request[p])]
<1>1. a \in Account
  BY AtIs DEF MarkCreated, TaskOK, Cascade
<1>2. CreatedMarker(request[p]) \in Marker
  BY DEF CreatedMarker, Unmarked, Marker
<1>3. row[a] # Nil => new \in Row
  <2> SUFFICES ASSUME row[a] # Nil PROVE new \in Row
    OBVIOUS
  <2>1. row[a].status \in AccountStatus
    BY <1>1 DEF TypeInv, TypeOK, Row
  <2> QED
    BY <1>2, <2>1 DEF Row
<1>4. Update(a, new) /\ Return(p) /\ UNCHANGED <<site, choice, leftover>>
  BY DEF MarkCreated
<1>5. row' \in [Account -> Row \cup {Nil}]
  <2> HIDE DEF new, a
  <2> QED
    BY <1>1, <1>3, <1>4, UpdateTyped DEF TypeInv
<1> QED
  BY <1>4, <1>5, ReturnTyped DEF TypeInv, TypeOK

LEMMA RestartTyped ==
    ASSUME TypeInv, Restart
    PROVE  TypeInv'
BY DEF Restart, Enabled, Present, TypeInv, TypeOK

LEMMA StepTyped == TypeInv /\ [Next]_vars => TypeInv'
<1> SUFFICES ASSUME TypeInv, [Next]_vars PROVE TypeInv'
  OBVIOUS
<1>1. CASE UNCHANGED vars
  BY <1>1 DEF vars, TypeInv, TypeOK, TaskOK, Present
<1>2. CASE Restart
  BY <1>2, RestartTyped
<1>3. ASSUME NEW p \in Request,
             CascadeDone(p) \/ CascadeFails(p) \/ RefreshGivesUp(p) \/ CreateFails(p)
      PROVE  TypeInv'
  <2>1. leftover' \subseteq Account
    BY <1>3 DEF CascadeDone, CascadeFails, RefreshGivesUp, CreateFails, Enabled, Present,
                TypeInv, TypeOK
  <2> QED
    BY <1>3, <2>1, ReturnsTyped DEF CascadeDone, CascadeFails, RefreshGivesUp, CreateFails
<1>4. ASSUME NEW p \in Request,
             \/ \E op \in Cascade, status \in SiteStatus : ReadSite(p, op, status)
             \/ StoreSite(p) \/ SelectToArchive(p) \/ SelectToRestore(p)
             \/ CascadeStep(p)
      PROVE  TypeInv'
  BY <1>4, ReadSiteTyped, StoreSiteTyped, SelectTyped, CascadeStepTyped
<1>5. ASSUME NEW p \in Request,
             \/ \E op \in OpKind, a \in Account, status \in AccountStatus \cup {Nil} :
                   ReadAccount(p, op, a, status)
             \/ SaveAccount(p)
             \/ \E a \in Account : DeleteAccount(p, a)
             \/ \E op \in OpKind, a \in Account : StartCheckin(p, op, a)
             \/ \E status \in AccountStatus \cup {Nil} : FinishCheckin(p, status)
             \/ SaveHealth(p)
      PROVE  TypeInv'
  BY <1>5, ReadAccountTyped, SaveAccountTyped, DeleteTyped, StartCheckinTyped,
     FinishCheckinTyped, SaveHealthTyped
<1>6. ASSUME NEW p \in Request,
             \/ \E a \in Account, status \in AccountStatus : StartCreate(p, a, status)
             \/ InsertAccount(p) \/ MarkCreated(p)
      PROVE  TypeInv'
  BY <1>6, StartCreateTyped, InsertTyped, MarkTyped
<1> QED
  BY <1>1, <1>2, <1>3, <1>4, <1>5, <1>6 DEF Next

\* Every reachable state has the declared types, whatever runs at the same
\* time and whatever fails; in particular a cascade never snapshots a status
\* that archivedPrevStatus would not restore.
THEOREM TypeCorrect == Spec => []TypeOK
<1>1. Init => TypeInv
  BY InitTyped
<1>2. TypeInv /\ [Next]_vars => TypeInv'
  BY StepTyped
<1>3. TypeInv => TypeOK
  BY DEF TypeInv
<1> QED
  BY <1>1, <1>2, <1>3, PTL DEF Spec
-----------------------------------------------------------------------------
(* The round trip of archive and restore is lossless: where cascades       *)
(* overlap only with cascades, the status last asked for an account is     *)
(* what it has or gets back with its site.  Any number of cascades run     *)
(* at the same time, statements fail and the process restarts between any  *)
(* two steps; the exception is a creation, whose two writes are then cut   *)
(* apart.                                                                  *)

CascadesApart ==
    /\ Overlap \subseteq Cascade
    /\ Asked \subseteq {"active", "expired"}
    /\ "create" \in Ops => Faults \subseteq {"store"}

Inv == TypeInv /\ LosslessInv

\* While a cascade runs nothing else does, and every account has its Intent.
LEMMA CascadesTogether ==
    ASSUME LosslessInv, NEW p \in Request, request[p] # Nil, request[p].op \in Cascade
    PROVE  /\ \A q \in Request : request[q] # Nil => request[q].op \in Cascade
           /\ \A a \in Present : Intent(row[a]) = choice[a]
<1>1. \A q \in Request : request[q] # Nil => request[q].op \in Cascade
  BY DEF LosslessInv, OthersAlone
<1>2. \A q \in Request : ~At(q, {"create"}, "mark")
  BY <1>1 DEF At, Cascade
<1> QED
  BY <1>1, <1>2 DEF LosslessInv, ChoiceStands

LEMMA IdleStands ==
    ASSUME LosslessInv, Idle
    PROVE  \A a \in Present : Intent(row[a]) = choice[a]
BY DEF LosslessInv, ChoiceStands, Idle, At

\* A request of another kind is the only one.
LEMMA OtherAlone ==
    ASSUME LosslessInv, NEW p \in Request, request[p] # Nil, request[p].op \notin Cascade
    PROVE  /\ \A q \in Request \ {p} : request[q] = Nil
           /\ request[p].op \in Ops
           /\ request[p].op = "create" => CreatesAlone(request[p])
           /\ request[p].op # "create" => WorksOnRow(request[p])
BY DEF LosslessInv, OthersAlone

\* When nothing is running afterwards only the rows matter.
LEMMA IdleAfter ==
    ASSUME \A q \in Request : request'[q] = Nil,
           \A a \in Present' : Intent(row'[a]) = choice'[a],
           MarkedDisabled'
    PROVE  LosslessInv'
<1>1. ChoiceStands'
  BY DEF ChoiceStands
<1>2. CascadeFaithful' /\ OthersAlone'
  BY DEF CascadeFaithful, OthersAlone, At
<1> QED
  BY <1>1, <1>2 DEF LosslessInv

\* When only cascades are running afterwards, rows and snapshots matter.
LEMMA CascadesAfter ==
    ASSUME \A q \in Request : request'[q] # Nil => request'[q].op \in Cascade,
           \A a \in Present' : Intent(row'[a]) = choice'[a],
           MarkedDisabled', CascadeFaithful'
    PROVE  LosslessInv'
BY DEF LosslessInv, ChoiceStands, OthersAlone

LEMMA InitLossless == Init => LosslessInv
<1> SUFFICES ASSUME Init PROVE LosslessInv
  OBVIOUS
<1>1. \A a \in Present : row[a] \in [status : AccountStatus, extra : {Unmarked}]
  <2> DEFINE R == [status : AccountStatus, extra : {Unmarked}]
             N == IF "create" \in Ops THEN {Nil} ELSE {}
  <2>1. row \in [Account -> R \cup N]
    BY DEF Init
  <2>2. \A x \in N : x = Nil
    OBVIOUS
  <2> HIDE DEF R, N
  <2>3. \A a \in Present : row[a] \in R
    BY <2>1, <2>2 DEF Present
  <2> QED
    BY <2>3 DEF R
<1>2. \A a \in Present : ~row[a].extra.marked /\ choice[a] = row[a].status
  <2>1. \A a \in Present : ~row[a].extra.marked
    BY <1>1 DEF Unmarked
  <2>2. choice = [a \in Account |-> IF row[a] = Nil THEN Nil ELSE row[a].status]
    BY DEF Init
  <2> QED
    BY <2>1, <2>2 DEF Present
<1>3. ChoiceStands /\ MarkedDisabled
  BY <1>2 DEF ChoiceStands, MarkedDisabled, Intent
<1>4. CascadeFaithful /\ OthersAlone
  BY DEF Init, CascadeFaithful, OthersAlone, At
<1> QED
  BY <1>3, <1>4 DEF LosslessInv
-----------------------------------------------------------------------------
(* Steps of a cascade *)

LEMMA ReadSiteLossless ==
    ASSUME Inv, CascadesApart, NEW p \in Request, NEW op \in Cascade,
           NEW st \in SiteStatus, ReadSite(p, op, st)
    PROVE  LosslessInv'
<1>1. /\ request[p] = Nil
      /\ Idle \/ \A q \in Request : request[q] # Nil => request[q].op \in Cascade
      /\ UNCHANGED <<site, row, choice>>
      /\ Begin(p, op, "read", Nil, st, Seen({}))
  BY DEF ReadSite, MayStart, CascadesApart
<1>2. /\ request'[p].op = op /\ request'[p].pc = "read"
      /\ \A q \in Request \ {p} : request'[q] = request[q]
  BY <1>1 DEF Begin, Inv, TypeInv, TypeOK
<1>3. \A q \in Request : request[q] # Nil => request[q].op \in Cascade
  BY <1>1 DEF Idle
<1>4. \A a \in Present : Intent(row[a]) = choice[a]
  <2>1. CASE Idle
    BY <2>1, IdleStands DEF Inv
  <2>2. CASE ~Idle
    BY <2>2, <1>3, CascadesTogether DEF Inv, Idle
  <2> QED
    BY <2>1, <2>2
<1>5. CascadeFaithful'
  BY <1>1, <1>2 DEF CascadeFaithful, At, Inv, LosslessInv
<1>6. MarkedDisabled'
  BY <1>1 DEF MarkedDisabled, Present, Inv, LosslessInv
<1>7. \A a \in Present' : Intent(row'[a]) = choice'[a]
  BY <1>1, <1>4 DEF Present
<1> QED
  BY <1>2, <1>3, <1>5, <1>6, <1>7, CascadesAfter

\* A cascade step that writes no row: StoreSite, the queries, the end.
LEMMA CascadeQuiet ==
    ASSUME Inv, NEW p \in Request, request[p] # Nil, request[p].op \in Cascade,
           UNCHANGED <<row, choice>>,
           \A q \in Request \ {p} : request'[q] = request[q],
           request'[p] # Nil => /\ request'[p].op \in Cascade
                                /\ request'[p].pc # "work"
    PROVE  LosslessInv'
<1>1. /\ \A q \in Request : request[q] # Nil => request[q].op \in Cascade
      /\ \A a \in Present : Intent(row[a]) = choice[a]
  BY CascadesTogether DEF Inv
<1>2. CascadeFaithful'
  BY DEF CascadeFaithful, At, Inv, LosslessInv
<1>3. MarkedDisabled'
  BY DEF MarkedDisabled, Present, Inv, LosslessInv
<1>4. \A a \in Present' : Intent(row'[a]) = choice'[a]
  BY <1>1 DEF Present
<1> QED
  BY <1>1, <1>2, <1>3, <1>4, CascadesAfter

LEMMA StoreSiteLossless ==
    ASSUME Inv, NEW p \in Request, StoreSite(p)
    PROVE  LosslessInv'
<1>1. /\ request[p] # Nil /\ request[p].op \in Cascade
      /\ request[p] \in Task
      /\ UNCHANGED <<row, choice>>
  BY AtIs DEF StoreSite, At, Inv
<1>2. CascadeFor(request[p]) # "work"
  BY DEF CascadeFor
<1>3. /\ \A q \in Request \ {p} : request'[q] = request[q]
      /\ request'[p] # Nil => /\ request'[p].op \in Cascade
                              /\ request'[p].pc # "work"
  <2>1. CASE CascadeFor(request[p]) = "none"
    BY <2>1 DEF StoreSite, Return, Inv, TypeInv, TypeOK
  <2>2. CASE CascadeFor(request[p]) # "none"
    <3>1. request' = [request EXCEPT ![p].pc = CascadeFor(request[p])]
      BY <2>2 DEF StoreSite, Go
    <3> QED
      BY <1>1, <1>2, <3>1 DEF Inv, TypeInv, TypeOK, Task
  <2> QED
    BY <2>1, <2>2
<1> QED
  BY <1>1, <1>3, CascadeQuiet

LEMMA CascadeEndLossless ==
    ASSUME Inv, NEW p \in Request, CascadeDone(p) \/ CascadeFails(p)
    PROVE  LosslessInv'
<1>1. /\ request[p] # Nil /\ request[p].op \in Cascade
      /\ Return(p)
      /\ UNCHANGED <<row, choice>>
  BY DEF CascadeDone, CascadeFails, At
<1>2. /\ \A q \in Request \ {p} : request'[q] = request[q]
      /\ request'[p] = Nil
  BY <1>1 DEF Return, Inv, TypeInv, TypeOK
<1> QED
  BY <1>1, <1>2, CascadeQuiet

LEMMA SelectLossless ==
    ASSUME Inv, NEW p \in Request, SelectToArchive(p) \/ SelectToRestore(p)
    PROVE  LosslessInv'
<1> DEFINE S == IF SelectToArchive(p) THEN {a \in Present : Archivable(row[a])}
                                      ELSE {a \in Present : row[a].extra.marked}
<1>1. /\ request[p] # Nil /\ request[p].op \in Cascade
      /\ request[p] \in Task /\ TaskOK(request[p])
      /\ UNCHANGED <<site, row, choice>>
  BY AtIs DEF SelectToArchive, SelectToRestore, At, Inv
<1>2. /\ \A q \in Request : request[q] # Nil => request[q].op \in Cascade
      /\ \A a \in Present : Intent(row[a]) = choice[a]
  BY <1>1, CascadesTogether DEF Inv
<1>3. /\ DOMAIN Seen(S) = S /\ S \subseteq Present
      /\ \A a \in S : Seen(S)[a] = row[a]
  BY SeenTyped DEF Inv, TypeInv
<1>4. request' = [request EXCEPT ![p].pc = "work", ![p].saw = Seen(S)]
  BY DEF SelectToArchive, SelectToRestore
<1>5. /\ \A q \in Request \ {p} : request'[q] = request[q]
      /\ request'[p].op = request[p].op /\ request'[p].want = request[p].want
      /\ request'[p].saw = Seen(S)
  <2> HIDE DEF S
  <2> QED
    BY <1>1, <1>4 DEF Inv, TypeInv, TypeOK, Task
<1>6. request[p].want = "disabled" => SelectToArchive(p)
  BY <1>1 DEF SelectToRestore, At, TaskOK
<1>7. \A a \in DOMAIN request'[p].saw :
         /\ request'[p].want = "disabled" => Archivable(request'[p].saw[a])
         /\ row'[a] # Nil => Intent(request'[p].saw[a]) = choice'[a]
  BY <1>1, <1>2, <1>3, <1>5, <1>6
<1>8. CascadeFaithful'
  BY <1>1, <1>5, <1>7 DEF CascadeFaithful, At, Inv, LosslessInv
<1>9. MarkedDisabled'
  BY <1>1 DEF MarkedDisabled, Present, Inv, LosslessInv
<1>10. \A a \in Present' : Intent(row'[a]) = choice'[a]
  BY <1>1, <1>2 DEF Present
<1> QED
  BY <1>1, <1>2, <1>5, <1>8, <1>9, <1>10, CascadesAfter

\* Archiving and restoring keep the Intent of the row in the snapshot.
LEMMA ArchiveKeeps ==
    ASSUME NEW r \in Row, Archivable(r)
    PROVE  /\ Intent(Archived(r)) = Intent(r)
           /\ Archived(r).status = "disabled"
BY DEF Intent, Archived, Archivable, Row, Marker, AccountStatus

LEMMA RestoreKeeps ==
    ASSUME NEW r \in Row
    PROVE  /\ Intent(Restored(r)) = Intent(r)
           /\ ~Restored(r).extra.marked
BY DEF Intent, Restored, Unmarked

LEMMA CascadeStepLossless ==
    ASSUME Inv, NEW p \in Request, CascadeStep(p)
    PROVE  LosslessInv'
<1> DEFINE saw == request[p].saw
           new(a) == IF request[p].want = "disabled" THEN Archived(saw[a])
                                                     ELSE Restored(saw[a])
<1>1. /\ request[p] # Nil /\ request[p].op \in Cascade
      /\ request[p].pc = "work"
      /\ request[p] \in Task
      /\ UNCHANGED <<site, choice>>
  BY AtIs DEF CascadeStep, At, Inv
<1>2. PICK a \in DOMAIN saw :
         /\ Update(a, new(a))
         /\ request' = [request EXCEPT ![p].saw =
                          [b \in DOMAIN saw \ {a} |-> saw[b]]]
  BY DEF CascadeStep
<1>3. /\ a \in Account
      /\ saw[a] \in Row
  BY <1>1, <1>2, SnapshotIs DEF Task
<1>4. \A b \in DOMAIN saw :
         /\ request[p].want = "disabled" => Archivable(saw[b])
         /\ row[b] # Nil => Intent(saw[b]) = choice[b]
  BY <1>1 DEF Inv, LosslessInv, CascadeFaithful, At
<1>5. /\ Intent(new(a)) = Intent(saw[a])
      /\ new(a).extra.marked => new(a).status = "disabled"
  BY <1>2, <1>3, <1>4, ArchiveKeeps, RestoreKeeps
<1>6. /\ \A q \in Request : request[q] # Nil => request[q].op \in Cascade
      /\ \A b \in Present : Intent(row[b]) = choice[b]
  BY <1>1, CascadesTogether DEF Inv
<1>7. /\ Present' = Present
      /\ \A b \in Account : b # a => row'[b] = row[b]
      /\ row[a] # Nil => row'[a] = new(a)
  <2>1. new(a) # Nil
    BY <1>2, <1>3, <1>4, ArchivedTyped, RestoredTyped, NilFresh
  <2> HIDE DEF new
  <2> QED
    BY <1>2, <1>3, <2>1 DEF Update, Present, Inv, TypeInv, TypeOK
<1>8. \A b \in Present' : Intent(row'[b]) = choice'[b]
  <2> HIDE DEF new
  <2>1. \A b \in Present : b # a => Intent(row'[b]) = choice'[b]
    BY <1>1, <1>6, <1>7 DEF Present
  <2>2. a \in Present => Intent(row'[a]) = choice'[a]
    BY <1>1, <1>2, <1>4, <1>5, <1>7 DEF Present
  <2> QED
    BY <1>7, <2>1, <2>2
<1>9. MarkedDisabled'
  <2> HIDE DEF new
  <2> QED
    BY <1>5, <1>7 DEF MarkedDisabled, Inv, LosslessInv, Present
<1>10. /\ \A q \in Request \ {p} : request'[q] = request[q]
       /\ request'[p].op = request[p].op /\ request'[p].want = request[p].want
       /\ DOMAIN request'[p].saw = DOMAIN saw \ {a}
       /\ \A b \in DOMAIN saw \ {a} : request'[p].saw[b] = saw[b]
  <2> DEFINE rest == [b \in DOMAIN saw \ {a} |-> saw[b]]
  <2>1. DOMAIN rest = DOMAIN saw \ {a} /\ \A b \in DOMAIN saw \ {a} : rest[b] = saw[b]
    OBVIOUS
  <2>2. request' = [request EXCEPT ![p].saw = rest]
    BY <1>2
  <2> HIDE DEF rest
  <2>3. /\ \A q \in Request \ {p} : request'[q] = request[q]
        /\ request'[p].op = request[p].op /\ request'[p].want = request[p].want
        /\ request'[p].saw = rest
    BY <1>1, <2>2 DEF Inv, TypeInv, TypeOK, Task
  <2> QED
    BY <2>1, <2>3
<1>11. \A b \in Account : row'[b] # Nil => row[b] # Nil
  BY <1>7 DEF Present
<1>12. CascadeFaithful'
  <2>1. \A q \in Request \ {p} : At(q, Cascade, "work")' =>
           \A b \in DOMAIN request'[q].saw :
              /\ request'[q].want = "disabled" => Archivable(request'[q].saw[b])
              /\ row'[b] # Nil => Intent(request'[q].saw[b]) = choice'[b]
    <3> SUFFICES ASSUME NEW q \in Request \ {p}, At(q, Cascade, "work"),
                        NEW b \in DOMAIN request[q].saw
                 PROVE  /\ request[q].want = "disabled" => Archivable(request[q].saw[b])
                        /\ row'[b] # Nil => Intent(request[q].saw[b]) = choice[b]
      BY <1>1, <1>10 DEF At
    <3>1. b \in Account
      BY AtIs, SnapshotIs DEF Inv, Task
    <3> QED
      BY <1>11, <3>1 DEF Inv, LosslessInv, CascadeFaithful
  <2>2. \A b \in DOMAIN request'[p].saw :
              /\ request'[p].want = "disabled" => Archivable(request'[p].saw[b])
              /\ row'[b] # Nil => Intent(request'[p].saw[b]) = choice'[b]
    <3>1. DOMAIN saw \subseteq Account
      BY <1>1, SnapshotIs DEF Task
    <3> QED
      BY <1>1, <1>4, <1>10, <1>11, <3>1
  <2> QED
    BY <2>1, <2>2 DEF CascadeFaithful
<1> QED
  BY <1>1, <1>6, <1>8, <1>9, <1>10, <1>12, CascadesAfter
-----------------------------------------------------------------------------
(* Steps of the other requests *)

\* A request outside Overlap begins when nothing is running.
LEMMA BeginsAlone ==
    ASSUME Inv, CascadesApart, NEW p \in Request, NEW op, op \notin Cascade,
           MayStart(p, op)
    PROVE  /\ Idle
           /\ \A a \in Present : Intent(row[a]) = choice[a]
BY IdleStands DEF MayStart, CascadesApart, Inv

\* The state after a request began or moved on alone, with the rows as before.
LEMMA AloneAfter ==
    ASSUME Inv, NEW p \in Request, UNCHANGED <<row, choice>>,
           \A a \in Present : Intent(row[a]) = choice[a],
           \A q \in Request \ {p} : request'[q] = Nil,
           request'[p].op \notin Cascade, request'[p].op \in Ops,
           request'[p].op = "create" => CreatesAlone(request'[p]),
           request'[p].op # "create" => WorksOnRow(request'[p])
    PROVE  LosslessInv'
<1>1. ChoiceStands'
  BY DEF ChoiceStands, Present
<1>2. MarkedDisabled'
  BY DEF MarkedDisabled, Present, Inv, LosslessInv
<1>3. CascadeFaithful'
  BY DEF CascadeFaithful, At
<1>4. request'[p].op = "create" => CreatesAlone(request[p])'
  BY DEF CreatesAlone
<1>5. request'[p].op # "create" => WorksOnRow(request[p])'
  BY DEF WorksOnRow, Seen
<1>6. OthersAlone'
  BY <1>4, <1>5 DEF OthersAlone
<1> QED
  BY <1>1, <1>2, <1>3, <1>6 DEF LosslessInv

LEMMA ReadAccountLossless ==
    ASSUME Inv, CascadesApart, NEW p \in Request, NEW op \in OpKind,
           NEW a \in Account, NEW st \in AccountStatus \cup {Nil},
           ReadAccount(p, op, a, st) \/ (st = Nil /\ StartCheckin(p, op, a))
    PROVE  LosslessInv'
<1> DEFINE pc == IF ReadAccount(p, op, a, st) THEN "save" ELSE "work"
           t == [op |-> op, pc |-> pc, account |-> a, want |-> st, old |-> site,
                 saw |-> Seen({a})]
<1>1. /\ op \in {"choose", "form", "login", "rebind", "checkin", "refresh"}
      /\ MayStart(p, op)
      /\ a \in Present
      /\ request' = [request EXCEPT ![p] = t]
      /\ UNCHANGED <<site, row, choice>>
      /\ op \in {"checkin", "refresh"} => pc = "work"
      /\ op \in {"choose", "form", "login"} => st \in AccountStatus
      /\ op = "rebind" => st = Nil
  BY DEF ReadAccount, StartCheckin, Begin, StatusesOf, AccountStatus
<1>2. op \notin Cascade /\ op # "create" /\ op \in Ops
  BY <1>1 DEF Cascade, MayStart
<1>3. /\ Idle
      /\ \A b \in Present : Intent(row[b]) = choice[b]
  BY <1>1, <1>2, BeginsAlone
<1>4. /\ request'[p] = t
      /\ \A q \in Request \ {p} : request'[q] = Nil
  <2> HIDE DEF t
  <2> QED
    BY <1>1, <1>3 DEF Idle, Inv, TypeInv, TypeOK
<1>5. WorksOnRow(t)
  BY <1>1 DEF WorksOnRow, Present
<1>6. t.op = op
  OBVIOUS
<1> HIDE DEF t
<1> QED
  BY <1>1, <1>2, <1>3, <1>4, <1>5, <1>6, AloneAfter

LEMMA StartCreateLossless ==
    ASSUME Inv, CascadesApart, NEW p \in Request, NEW a \in Account,
           NEW st \in AccountStatus, StartCreate(p, a, st)
    PROVE  LosslessInv'
<1> DEFINE t == [op |-> "create", pc |-> "insert", account |-> a, want |-> st,
                 old |-> site, saw |-> Seen({})]
<1>1. /\ MayStart(p, "create")
      /\ "create" \notin Cascade /\ "create" \in Ops
      /\ st \in Asked
      /\ request' = [request EXCEPT ![p] = t]
      /\ UNCHANGED <<site, row, choice>>
  BY DEF StartCreate, Begin, Cascade, MayStart
<1>2. /\ Idle
      /\ \A b \in Present : Intent(row[b]) = choice[b]
  BY <1>1, BeginsAlone
<1>3. /\ request'[p] = t
      /\ \A q \in Request \ {p} : request'[q] = Nil
  <2> HIDE DEF t
  <2> QED
    BY <1>1, <1>2 DEF Idle, Inv, TypeInv, TypeOK
<1>4. CreatesAlone(t) /\ t.op = "create"
  BY <1>1 DEF CreatesAlone
<1> HIDE DEF t
<1> QED
  BY <1>1, <1>2, <1>3, <1>4, AloneAfter

\* A request that is not a creation has every account as asked for.
LEMMA WorkingStands ==
    ASSUME Inv, NEW p \in Request, request[p] # Nil, request[p].op \notin Cascade,
           ~At(p, {"create"}, "mark")
    PROVE  \A a \in Present : Intent(row[a]) = choice[a]
<1>1. \A q \in Request \ {p} : request[q] = Nil
  BY OtherAlone DEF Inv
<1>2. \A q \in Request : ~At(q, {"create"}, "mark")
  BY <1>1 DEF At
<1> QED
  BY <1>2 DEF Inv, LosslessInv, ChoiceStands

LEMMA FinishCheckinLossless ==
    ASSUME Inv, NEW p \in Request, NEW st \in AccountStatus \cup {Nil},
           FinishCheckin(p, st)
    PROVE  LosslessInv'
<1> DEFINE t == request[p]
<1>1. /\ t # Nil /\ t \in Task /\ TaskOK(t)
      /\ t.op \in {"checkin", "refresh"}
      /\ UNCHANGED <<site, row, choice>>
      /\ st \in StatusAfter(t)
  BY AtIs DEF FinishCheckin, At, Inv
<1>2. t.op \notin Cascade /\ t.op # "create"
  BY <1>1 DEF Cascade
<1>3. /\ \A q \in Request \ {p} : request[q] = Nil
      /\ WorksOnRow(t) /\ t.op \in Ops
  BY <1>1, <1>2, OtherAlone DEF Inv
<1>4. /\ row[t.account] # Nil
      /\ t.saw = Seen({t.account})
  BY <1>3 DEF WorksOnRow
<1>5. /\ t.account \in Account
      /\ t.saw[t.account] = row[t.account]
  BY <1>1, <1>2, <1>4 DEF TaskOK, Seen
<1>6. st # Nil => row[t.account].status # "disabled"
  BY <1>1, <1>5 DEF StatusAfter, Skipped
<1>7. request' = [request EXCEPT ![p].pc = "save", ![p].want = st,
                                 ![p].saw = Seen({t.account})]
  BY <1>4 DEF FinishCheckin
<1>8. /\ \A q \in Request \ {p} : request'[q] = Nil
      /\ request'[p].op = t.op /\ request'[p].pc = "save" /\ request'[p].want = st
      /\ request'[p].account = t.account /\ request'[p].saw = Seen({t.account})
  BY <1>1, <1>3, <1>7 DEF Inv, TypeInv, TypeOK, Task
<1>9. WorksOnRow(request'[p])
  BY <1>1, <1>4, <1>6, <1>8 DEF WorksOnRow
<1>10. \A a \in Present : Intent(row[a]) = choice[a]
  BY <1>1, <1>2, WorkingStands DEF At
<1> QED
  BY <1>1, <1>2, <1>3, <1>8, <1>9, <1>10, AloneAfter

\* A request that returns and leaves the rows alone.
LEMMA GivesUpLossless ==
    ASSUME Inv, NEW p \in Request, RefreshGivesUp(p)
    PROVE  LosslessInv'
<1>1. /\ request[p] # Nil /\ request[p].op \notin Cascade
      /\ ~At(p, {"create"}, "mark")
      /\ Return(p) /\ UNCHANGED <<site, row, choice>>
  BY DEF RefreshGivesUp, At, Cascade
<1>2. \A q \in Request : request'[q] = Nil
  BY <1>1, OtherAlone DEF Inv, Return, TypeInv, TypeOK
<1>3. \A a \in Present' : Intent(row'[a]) = choice'[a]
  BY <1>1, WorkingStands DEF Present
<1>4. MarkedDisabled'
  BY <1>1 DEF MarkedDisabled, Present, Inv, LosslessInv
<1> QED
  BY <1>2, <1>3, <1>4, IdleAfter

\* A request alone writes one row, as asked for, and returns.
LEMMA WritesAlone ==
    ASSUME Inv, NEW p \in Request, request[p] # Nil, request[p].op \notin Cascade,
           NEW a \in Account, NEW r \in Row, row[a] # Nil, Update(a, r), Return(p),
           Intent(r) = choice'[a], r.extra.marked => r.status = "disabled",
           \A b \in Account : b # a => choice'[b] = choice[b],
           \A b \in Present : b # a => Intent(row[b]) = choice[b]
    PROVE  LosslessInv'
<1>1. row' = [row EXCEPT ![a] = r]
  BY DEF Update
<1>2. /\ row'[a] = r
      /\ \A b \in Account : b # a => row'[b] = row[b]
  BY <1>1 DEF Inv, TypeInv, TypeOK
<1>3. \A q \in Request : request'[q] = Nil
  BY OtherAlone DEF Inv, Return, TypeInv, TypeOK
<1>4. \A b \in Present' : Intent(row'[b]) = choice'[b]
  BY <1>2 DEF Present
<1>5. MarkedDisabled'
  BY <1>2 DEF MarkedDisabled, Present, Inv, LosslessInv
<1> QED
  BY <1>3, <1>4, <1>5, IdleAfter

LEMMA SaveAccountLossless ==
    ASSUME Inv, NEW p \in Request, SaveAccount(p)
    PROVE  LosslessInv'
<1> DEFINE t == request[p]
           a == t.account
           new == [status |-> IF t.want = Nil THEN row[a].status ELSE t.want,
                   extra |-> MarkerWritten(t, t.saw[a], row[a])]
<1>1. /\ t # Nil /\ t \in Task /\ TaskOK(t)
      /\ t.op \in {"choose", "form", "login", "rebind"}
      /\ Update(a, new)
      /\ choice' = IF \/ t.op = "rebind"
                      \/ t.op = "form" /\ t.want = t.saw[a].status
                   THEN choice ELSE [choice EXCEPT ![a] = t.want]
      /\ Return(p)
  BY AtIs DEF SaveAccount, At, Inv
<1>2. t.op \notin Cascade /\ t.op # "create"
  BY <1>1 DEF Cascade
<1>3. a \in Account
  BY <1>1, <1>2 DEF TaskOK
<1>4. WorksOnRow(t)
  BY <1>1, <1>2, OtherAlone DEF Inv
<1>5. /\ row[a] # Nil /\ row[a] \in Row
      /\ t.saw[a] = row[a]
  BY <1>3, <1>4 DEF WorksOnRow, Seen, Inv, TypeInv, TypeOK
<1>6. \A b \in Present : Intent(row[b]) = choice[b]
  BY <1>1, <1>2, WorkingStands DEF At
<1>7. /\ Intent(row[a]) = choice[a]
      /\ row[a].extra.marked => row[a].status = "disabled"
  BY <1>3, <1>5, <1>6 DEF Present, Inv, LosslessInv, MarkedDisabled
<1>8. /\ row[a].status \in AccountStatus /\ row[a].extra \in Marker
      /\ row[a] = [status |-> row[a].status, extra |-> row[a].extra]
      /\ Unmarked \in Marker /\ ~Unmarked.marked
  BY <1>5 DEF Row, Unmarked, Marker
<1>9. /\ new \in Row
      /\ Intent(new) = choice'[a]
      /\ new.extra.marked => new.status = "disabled"
  <2>1. CASE t.op = "rebind" \/ (t.op = "form" /\ t.want = row[a].status)
    <3>1. new = row[a]
      <4>1. MarkerWritten(t, t.saw[a], row[a]) = row[a].extra
        BY <1>5, <2>1 DEF MarkerWritten
      <4>2. (IF t.want = Nil THEN row[a].status ELSE t.want) = row[a].status
        BY <1>4, <2>1 DEF WorksOnRow
      <4> QED
        BY <1>8, <4>1, <4>2
    <3>2. choice' = choice
      BY <1>1, <1>5, <2>1
    <3> HIDE DEF new, a
    <3> QED
      BY <1>5, <1>7, <3>1, <3>2
  <2>2. CASE ~(t.op = "rebind" \/ (t.op = "form" /\ t.want = row[a].status))
    <3>1. t.want \in AccountStatus /\ t.want # Nil
      BY <1>1, <1>4, <2>2, NilFresh DEF WorksOnRow
    <3>2. /\ MarkerWritten(t, t.saw[a], row[a]) \in Marker
          /\ ~MarkerWritten(t, t.saw[a], row[a]).marked
      BY <1>1, <1>5, <1>8, <2>2 DEF MarkerWritten
    <3>3. choice'[a] = t.want
      BY <1>1, <1>3, <1>5, <2>2 DEF Inv, TypeInv, TypeOK
    <3>4. new.status = t.want /\ new.extra = MarkerWritten(t, t.saw[a], row[a])
      BY <3>1
    <3>5. new \in Row
      BY <3>1, <3>2 DEF Row
    <3> HIDE DEF new
    <3> QED
      BY <3>2, <3>3, <3>4, <3>5 DEF Intent
  <2> QED
    BY <2>1, <2>2
<1>10. \A b \in Account : b # a => choice'[b] = choice[b]
  BY <1>1 DEF Inv, TypeInv, TypeOK
<1> HIDE DEF new, a
<1> QED
  BY <1>1, <1>2, <1>3, <1>5, <1>6, <1>9, <1>10, WritesAlone

LEMMA SaveHealthLossless ==
    ASSUME Inv, NEW p \in Request, SaveHealth(p)
    PROVE  LosslessInv'
<1> DEFINE t == request[p]
           a == t.account
           new == [status |-> IF t.want = Nil THEN row[a].status ELSE t.want,
                   extra |-> t.saw[a].extra]
<1>1. /\ t # Nil /\ t \in Task /\ TaskOK(t)
      /\ t.op \in {"checkin", "refresh"} /\ t.pc = "save"
      /\ Update(a, new)
      /\ choice' = IF t.want = Nil \/ choice[a] = "disabled" THEN choice
                   ELSE [choice EXCEPT ![a] = t.want]
      /\ Return(p)
  BY AtIs DEF SaveHealth, At, Inv
<1>2. t.op \notin Cascade /\ t.op # "create"
  BY <1>1 DEF Cascade
<1>3. a \in Account /\ t.want \in AccountStatus \cup {Nil}
  BY <1>1, <1>2 DEF TaskOK, Task
<1>4. WorksOnRow(t)
  BY <1>1, <1>2, OtherAlone DEF Inv
<1>5. /\ row[a] # Nil /\ row[a] \in Row
      /\ t.saw[a] = row[a]
      /\ t.want # Nil => row[a].status # "disabled"
  BY <1>1, <1>3, <1>4 DEF WorksOnRow, Seen, Inv, TypeInv, TypeOK
<1>6. \A b \in Present : Intent(row[b]) = choice[b]
  BY <1>1, <1>2, WorkingStands DEF At
<1>7. /\ Intent(row[a]) = choice[a]
      /\ row[a].extra.marked => row[a].status = "disabled"
  BY <1>3, <1>5, <1>6 DEF Present, Inv, LosslessInv, MarkedDisabled
<1>8. /\ row[a].status \in AccountStatus /\ row[a].extra \in Marker
      /\ row[a] = [status |-> row[a].status, extra |-> row[a].extra]
  BY <1>5 DEF Row
<1>9. /\ new \in Row
      /\ Intent(new) = choice'[a]
      /\ new.extra.marked => new.status = "disabled"
  <2>1. CASE t.want = Nil
    <3>1. new = row[a]
      BY <1>5, <1>8, <2>1
    <3>2. choice' = choice
      BY <1>1, <2>1
    <3> HIDE DEF new, a
    <3> QED
      BY <1>5, <1>7, <3>1, <3>2
  <2>2. CASE t.want # Nil
    <3>1. ~row[a].extra.marked /\ choice[a] # "disabled"
      BY <1>5, <1>7, <2>2 DEF Intent
    <3>2. choice'[a] = t.want
      BY <1>1, <1>3, <2>2, <3>1 DEF Inv, TypeInv, TypeOK
    <3>3. new.status = t.want /\ new.extra = row[a].extra
      BY <1>5, <2>2
    <3>4. new \in Row
      BY <1>3, <1>5, <1>8, <2>2 DEF Row
    <3> HIDE DEF new
    <3> QED
      BY <3>1, <3>2, <3>3, <3>4 DEF Intent
  <2> QED
    BY <2>1, <2>2
<1>10. \A b \in Account : b # a => choice'[b] = choice[b]
  BY <1>1 DEF Inv, TypeInv, TypeOK
<1> HIDE DEF new, a
<1> QED
  BY <1>1, <1>2, <1>3, <1>5, <1>6, <1>9, <1>10, WritesAlone

LEMMA DeleteLossless ==
    ASSUME Inv, CascadesApart, NEW p \in Request, NEW a \in Account,
           DeleteAccount(p, a)
    PROVE  LosslessInv'
<1>1. /\ Idle
      /\ \A b \in Present : Intent(row[b]) = choice[b]
      /\ row' = [row EXCEPT ![a] = Nil]
      /\ UNCHANGED <<request, choice>>
  BY BeginsAlone DEF DeleteAccount, Cascade
<1>2. /\ row'[a] = Nil
      /\ \A b \in Account : b # a => row'[b] = row[b]
  BY <1>1 DEF Inv, TypeInv, TypeOK
<1>3. \A b \in Present' : Intent(row'[b]) = choice'[b]
  BY <1>1, <1>2 DEF Present
<1>4. MarkedDisabled'
  BY <1>2 DEF MarkedDisabled, Present, Inv, LosslessInv
<1>5. \A q \in Request : request'[q] = Nil
  BY <1>1 DEF Idle
<1> QED
  BY <1>3, <1>4, <1>5, IdleAfter

LEMMA InsertLossless ==
    ASSUME Inv, CascadesApart, NEW p \in Request, InsertAccount(p)
    PROVE  LosslessInv'
<1> DEFINE t == request[p]
           a == t.account
           new == [status |-> IF t.old = "disabled" THEN "disabled" ELSE t.want,
                   extra |-> Unmarked]
<1>1. /\ t # Nil /\ t \in Task /\ TaskOK(t)
      /\ t.op = "create" /\ t.pc = "insert"
      /\ row' = [row EXCEPT ![a] = new]
      /\ choice' = [choice EXCEPT ![a] = t.want]
      /\ request' = [request EXCEPT ![p].pc = "mark"]
  BY AtIs DEF InsertAccount, Go, At, Inv
<1>2. t.op \notin Cascade /\ a \in Account
  BY <1>1 DEF TaskOK, Cascade
<1>3. /\ \A q \in Request \ {p} : request[q] = Nil
      /\ t.op \in Ops /\ t.want \in Asked
  BY <1>1, <1>2, OtherAlone DEF CreatesAlone, Inv
<1>4. \A b \in Present : Intent(row[b]) = choice[b]
  BY <1>1, <1>2, WorkingStands DEF At
<1>5. /\ row'[a] = new /\ choice'[a] = t.want
      /\ \A b \in Account : b # a => row'[b] = row[b] /\ choice'[b] = choice[b]
  <2> HIDE DEF new
  <2> QED
    BY <1>1, <1>2 DEF Inv, TypeInv, TypeOK
<1>6. /\ \A q \in Request \ {p} : request'[q] = Nil
      /\ request'[p].op = "create" /\ request'[p].pc = "mark"
      /\ request'[p].account = a /\ request'[p].want = t.want
      /\ request'[p].old = t.old /\ request'[p] # Nil
  BY <1>1, <1>3, NilFresh DEF Inv, TypeInv, TypeOK, Task, Phase
<1>7. ChoiceStands'
  <2>1. At(p, {"create"}, "mark")' /\ request'[p].account = a
    BY <1>6 DEF At
  <2>2. \A b \in Present' : b # a => Intent(row'[b]) = choice'[b]
    BY <1>4, <1>5 DEF Present
  <2> HIDE DEF a
  <2> QED
    BY <2>1, <2>2 DEF ChoiceStands
<1>8. MarkedDisabled'
  <2>1. ~new.extra.marked
    BY DEF Unmarked
  <2> HIDE DEF new
  <2> QED
    BY <1>5, <2>1 DEF MarkedDisabled, Present, Inv, LosslessInv
<1>9. CascadeFaithful'
  BY <1>6 DEF CascadeFaithful, At, Cascade
<1>10. CreatesAlone(request[p])'
  BY <1>3, <1>5, <1>6 DEF CreatesAlone
<1>11. OthersAlone'
  BY <1>1, <1>3, <1>6, <1>10 DEF OthersAlone
<1> QED
  BY <1>7, <1>8, <1>9, <1>11 DEF LosslessInv

LEMMA MarkLossless ==
    ASSUME Inv, CascadesApart, NEW p \in Request, MarkCreated(p)
    PROVE  LosslessInv'
<1> DEFINE t == request[p]
           a == t.account
           new == [status |-> row[a].status, extra |-> CreatedMarker(t)]
<1>1. /\ t # Nil /\ t \in Task /\ TaskOK(t)
      /\ t.op = "create" /\ t.pc = "mark"
      /\ Update(a, new) /\ Return(p)
      /\ choice' = choice
  BY AtIs DEF MarkCreated, At, Inv
<1>2. t.op \notin Cascade /\ a \in Account
  BY <1>1 DEF TaskOK, Cascade
<1>3. CreatesAlone(t) /\ \A q \in Request \ {p} : request[q] = Nil
  BY <1>1, <1>2, OtherAlone DEF Inv
<1>4. /\ t.want \in {"active", "expired"}
      /\ row[a] = [status |-> IF t.old = "disabled" THEN "disabled" ELSE t.want,
                   extra |-> Unmarked]
      /\ choice[a] = t.want
  BY <1>1, <1>3 DEF CreatesAlone, CascadesApart
<1>5. row[a] \in Row /\ row[a] # Nil
  <2>1. row[a] \in Row
    BY <1>4 DEF Row, Unmarked, Marker, AccountStatus
  <2> QED
    BY <2>1, NilFresh
<1>6. /\ new \in Row
      /\ Intent(new) = choice'[a]
      /\ new.extra.marked => new.status = "disabled"
  BY <1>1, <1>4 DEF Intent, CreatedMarker, Unmarked, Row, Marker, AccountStatus
<1>7. \A b \in Present : b # a => Intent(row[b]) = choice[b]
  BY <1>3 DEF ChoiceStands, At, Inv, LosslessInv
<1> HIDE DEF new, a
<1> QED
  BY <1>1, <1>2, <1>5, <1>6, <1>7, WritesAlone

\* Creations are not cut short, and a restart changes no row.
LEMMA FaultLossless ==
    ASSUME Inv, CascadesApart, Restart \/ \E p \in Request : CreateFails(p)
    PROVE  LosslessInv'
<1>1. \A q \in Request : ~At(q, {"create"}, "mark") /\ ~At(q, {"create"}, "insert")
  <2> SUFFICES ASSUME NEW q \in Request, request[q] # Nil, request[q].op = "create"
               PROVE  FALSE
    BY DEF At
  <2>1. "create" \in Ops
    BY OtherAlone DEF Inv, Cascade
  <2> QED
    BY <2>1 DEF CascadesApart, Restart, CreateFails
<1>2. Restart
  BY <1>1 DEF CreateFails
<1>3. \A a \in Present : Intent(row[a]) = choice[a]
  BY <1>1 DEF Inv, LosslessInv, ChoiceStands
<1>4. /\ \A q \in Request : request'[q] = Nil
      /\ UNCHANGED <<row, choice>>
  BY <1>2 DEF Restart
<1>5. MarkedDisabled'
  BY <1>4 DEF MarkedDisabled, Present, Inv, LosslessInv
<1> QED
  BY <1>3, <1>4, <1>5, IdleAfter DEF Present
-----------------------------------------------------------------------------
LEMMA StepLossless == CascadesApart /\ Inv /\ [Next]_vars => LosslessInv'
<1> SUFFICES ASSUME CascadesApart, Inv, [Next]_vars PROVE LosslessInv'
  OBVIOUS
<1>1. CASE UNCHANGED vars
  BY <1>1 DEF vars, Inv, LosslessInv, ChoiceStands, MarkedDisabled, CascadeFaithful,
     OthersAlone, CreatesAlone, WorksOnRow, Present, At, Seen
<1>2. CASE Restart \/ \E p \in Request : CreateFails(p)
  BY <1>2, FaultLossless
<1>3. ASSUME NEW p \in Request,
             \/ \E op \in Cascade, status \in SiteStatus : ReadSite(p, op, status)
             \/ StoreSite(p) \/ SelectToArchive(p) \/ SelectToRestore(p)
             \/ CascadeStep(p) \/ CascadeDone(p) \/ CascadeFails(p)
      PROVE  LosslessInv'
  BY <1>3, ReadSiteLossless, StoreSiteLossless, SelectLossless,
     CascadeStepLossless, CascadeEndLossless
<1>4. ASSUME NEW p \in Request,
             \/ \E op \in OpKind, a \in Account, status \in AccountStatus \cup {Nil} :
                   ReadAccount(p, op, a, status)
             \/ SaveAccount(p)
             \/ \E a \in Account : DeleteAccount(p, a)
      PROVE  LosslessInv'
  BY <1>4, ReadAccountLossless, SaveAccountLossless, DeleteLossless
<1>5. ASSUME NEW p \in Request,
             \/ \E op \in OpKind, a \in Account : StartCheckin(p, op, a)
             \/ \E status \in AccountStatus \cup {Nil} : FinishCheckin(p, status)
             \/ RefreshGivesUp(p) \/ SaveHealth(p)
      PROVE  LosslessInv'
  BY <1>5, ReadAccountLossless, FinishCheckinLossless, GivesUpLossless,
     SaveHealthLossless
<1>6. ASSUME NEW p \in Request,
             \/ \E a \in Account, status \in AccountStatus : StartCreate(p, a, status)
             \/ InsertAccount(p) \/ MarkCreated(p)
      PROVE  LosslessInv'
  BY <1>6, StartCreateLossless, InsertLossless, MarkLossless
<1> QED
  BY <1>1, <1>2, <1>3, <1>4, <1>5, <1>6 DEF Next

\* However many cascades overlap, and wherever errors and restarts cut them
\* short, the status last asked for an account is the one it has or gets back
\* with its site.
THEOREM CascadesLossless ==
    ASSUME CascadesApart
    PROVE  Spec => []ChoiceStands
<1>1. Init => Inv
  BY InitTyped, InitLossless DEF Inv
<1>2. Inv /\ [Next]_vars => Inv'
  BY StepTyped, StepLossless DEF Inv
<1>3. Inv => ChoiceStands
  BY DEF Inv, LosslessInv
<1> QED
  BY <1>1, <1>2, <1>3, PTL DEF Spec
-----------------------------------------------------------------------------
(* An enable that runs to its end leaves no account archived, whatever the *)
(* other kinds of request do at the same time as each other: it is enough  *)
(* that a cascade runs with nothing else.                                  *)

CascadesSingle == Overlap \cap Cascade = {}

CascadeRunsAlone ==
    \A p \in Request : request[p] # Nil /\ request[p].op \in Cascade =>
        \A q \in Request \ {p} : request[q] = Nil

\* What the loop still has before it is all that is archived.
RestoreSwept ==
    \A p \in Request : At(p, Cascade, "work") /\ request[p].want = "active" =>
        \A a \in Present : a \in DOMAIN request[p].saw \/ ~row[a].extra.marked

EnableInv == CascadeRunsAlone /\ RestoreSwept

LEMMA NoCascade ==
    ASSUME \A q \in Request : request'[q] # Nil => request'[q].op \notin Cascade
    PROVE  EnableInv'
BY DEF EnableInv, CascadeRunsAlone, RestoreSwept, At

\* The state after one cascade began, moved on or ended alone.
LEMMA CascadeMoved ==
    ASSUME NEW p \in Request,
           \A q \in Request \ {p} : request'[q] = Nil,
           /\ request'[p] # Nil
           /\ request'[p].pc = "work"
           /\ request'[p].want = "active"
           => \A a \in Present' : a \in DOMAIN request'[p].saw \/ ~row'[a].extra.marked
    PROVE  EnableInv'
<1>1. CascadeRunsAlone'
  BY DEF CascadeRunsAlone
<1>2. RestoreSwept'
  BY DEF RestoreSwept, At
<1> QED
  BY <1>1, <1>2 DEF EnableInv

LEMMA AloneAt ==
    ASSUME TypeInv, CascadeRunsAlone, NEW p \in Request, NEW pc, At(p, Cascade, pc)
    PROVE  /\ request[p] \in Task /\ TaskOK(request[p])
           /\ request[p] # Nil /\ request[p].op \in Cascade /\ request[p].pc = pc
           /\ \A q \in Request \ {p} : request[q] = Nil
BY AtIs DEF At, CascadeRunsAlone

LEMMA ReadSiteSweeps ==
    ASSUME TypeInv, CascadesSingle, NEW p \in Request, NEW op \in Cascade,
           NEW st \in SiteStatus, ReadSite(p, op, st)
    PROVE  EnableInv'
<1>1. Idle /\ Begin(p, op, "read", Nil, st, Seen({}))
  BY DEF ReadSite, MayStart, CascadesSingle
<1>2. /\ request'[p].pc = "read"
      /\ \A q \in Request \ {p} : request'[q] = Nil
  BY <1>1 DEF Begin, Idle, TypeInv, TypeOK
<1> QED
  BY <1>2, CascadeMoved

LEMMA StoreSiteSweeps ==
    ASSUME TypeInv, EnableInv, NEW p \in Request, StoreSite(p)
    PROVE  EnableInv'
<1>1. /\ request[p] \in Task
      /\ \A q \in Request \ {p} : request[q] = Nil
  BY AloneAt DEF StoreSite, EnableInv
<1>2. CascadeFor(request[p]) # "work"
  BY DEF CascadeFor
<1>3. Return(p) \/ Go(p, CascadeFor(request[p]))
  BY DEF StoreSite
<1>4. CASE Return(p)
  <2>1. \A q \in Request : request'[q] = Nil
    BY <1>1, <1>4 DEF Return, TypeInv, TypeOK
  <2> QED
    BY <2>1, NoCascade
<1>5. CASE Go(p, CascadeFor(request[p]))
  <2>1. /\ \A q \in Request \ {p} : request'[q] = Nil
        /\ request'[p].pc # "work"
    BY <1>1, <1>2, <1>5 DEF Go, TypeInv, TypeOK, Task
  <2> QED
    BY <2>1, CascadeMoved
<1> QED
  BY <1>3, <1>4, <1>5

\* The query finds exactly what it looks for.
LEMMA Selected ==
    ASSUME TypeInv, CascadeRunsAlone, NEW p \in Request,
           SelectToArchive(p) \/ SelectToRestore(p)
    PROVE  /\ \A q \in Request \ {p} : request'[q] = Nil
           /\ row' = row
           /\ request[p] # Nil /\ request'[p] # Nil
           /\ request'[p].op = request[p].op
           /\ request'[p].op \in Cascade
           /\ request'[p].want = "active" =>
                 DOMAIN request'[p].saw = {a \in Present : row[a].extra.marked}
           /\ request'[p].want = "disabled" =>
                 DOMAIN request'[p].saw = {a \in Present : Archivable(row[a])}
<1> DEFINE S == IF SelectToArchive(p) THEN {a \in Present : Archivable(row[a])}
                                      ELSE {a \in Present : row[a].extra.marked}
<1>1. /\ request[p] \in Task /\ TaskOK(request[p])
      /\ request[p] # Nil /\ request[p].op \in Cascade
      /\ request[p].pc = (IF SelectToArchive(p) THEN "archive" ELSE "restore")
      /\ \A q \in Request \ {p} : request[q] = Nil
  BY AloneAt DEF SelectToArchive, SelectToRestore
<1>2. request[p].want = (IF SelectToArchive(p) THEN "disabled" ELSE "active")
  BY <1>1 DEF TaskOK
<1>3. DOMAIN Seen(S) = S
  BY DEF Seen
<1>4. /\ request' = [request EXCEPT ![p].pc = "work", ![p].saw = Seen(S)]
      /\ row' = row
  BY DEF SelectToArchive, SelectToRestore
<1>5. Seen(S) \in Snapshot
  BY SeenTyped DEF TypeInv
<1>6. /\ \A q \in Request \ {p} : request'[q] = Nil
      /\ request'[p] \in Task
      /\ request'[p].op = request[p].op /\ request'[p].want = request[p].want
      /\ request'[p].saw = Seen(S)
  <2> HIDE DEF S
  <2> QED
    BY <1>1, <1>4, <1>5 DEF TypeInv, TypeOK, Task, Phase
<1> QED
  BY <1>1, <1>2, <1>3, <1>4, <1>6, NilFresh

LEMMA SelectSweeps ==
    ASSUME TypeInv, EnableInv, NEW p \in Request,
           SelectToArchive(p) \/ SelectToRestore(p)
    PROVE  EnableInv'
<1>1. /\ \A q \in Request \ {p} : request'[q] = Nil
      /\ row' = row
      /\ request'[p].want = "active" =>
            DOMAIN request'[p].saw = {a \in Present : row[a].extra.marked}
  BY Selected DEF EnableInv
<1>2. request'[p].want = "active" =>
         \A a \in Present' : a \in DOMAIN request'[p].saw \/ ~row'[a].extra.marked
  BY <1>1 DEF Present
<1> QED
  BY <1>1, <1>2, CascadeMoved

\* One UPDATE of the loop: the account leaves the list, archived or restored.
LEMMA Stepped ==
    ASSUME TypeInv, CascadeRunsAlone, NEW p \in Request, CascadeStep(p)
    PROVE  \E a \in Account :
             /\ \A q \in Request \ {p} : request[q] = Nil /\ request'[q] = Nil
             /\ At(p, Cascade, "work") /\ request'[p] # Nil
             /\ request'[p].op = request[p].op
             /\ request'[p].want = request[p].want
             /\ DOMAIN request'[p].saw = DOMAIN request[p].saw \ {a}
             /\ Present' = Present
             /\ \A b \in Present : b # a => row'[b] = row[b]
             /\ a \in Present => IF request[p].want = "disabled"
                                 THEN row'[a].status = "disabled"
                                 ELSE ~row'[a].extra.marked
<1> DEFINE saw == request[p].saw
           new(a) == IF request[p].want = "disabled" THEN Archived(saw[a])
                                                     ELSE Restored(saw[a])
<1>1. /\ At(p, Cascade, "work")
      /\ request[p] \in Task /\ TaskOK(request[p])
      /\ request[p] # Nil /\ request[p].op \in Cascade /\ request[p].pc = "work"
      /\ \A q \in Request \ {p} : request[q] = Nil
  BY AloneAt DEF CascadeStep
<1>2. PICK a \in DOMAIN saw :
         /\ Update(a, new(a))
         /\ request' = [request EXCEPT ![p].saw =
                          [b \in DOMAIN saw \ {a} |-> saw[b]]]
  BY DEF CascadeStep
<1>3. /\ saw \in Snapshot
      /\ a \in Account /\ saw[a] \in Row /\ DOMAIN saw \subseteq Account
  BY <1>1, <1>2, SnapshotIs DEF Task
<1>4. request[p].want = "disabled" => Archivable(saw[a])
  BY <1>1, <1>2 DEF TaskOK
<1>5. /\ new(a) \in Row
      /\ IF request[p].want = "disabled" THEN new(a).status = "disabled"
                                         ELSE ~new(a).extra.marked
  BY <1>3, <1>4, ArchivedTyped, RestoredTyped, ArchiveKeeps, RestoreKeeps
<1>6. /\ Present' = Present
      /\ \A b \in Present : b # a => row'[b] = row[b]
      /\ a \in Present => row'[a] = new(a)
  <2> HIDE DEF new
  <2> QED
    BY <1>2, <1>3, <1>5, NilFresh DEF Update, Present, TypeInv, TypeOK
<1>7. /\ \A q \in Request \ {p} : request'[q] = Nil
      /\ request'[p] \in Task
      /\ request'[p].op = request[p].op /\ request'[p].want = request[p].want
      /\ DOMAIN request'[p].saw = DOMAIN saw \ {a}
  <2> DEFINE rest == [b \in DOMAIN saw \ {a} |-> saw[b]]
  <2>1. DOMAIN rest = DOMAIN saw \ {a}
    OBVIOUS
  <2>2. rest \in Snapshot
    <3>1. \A b \in DOMAIN saw \ {a} : saw[b] \in Row
      BY <1>3, SnapshotIs
    <3>2. rest \in [DOMAIN saw \ {a} -> Row]
      BY <3>1
    <3> HIDE DEF rest, saw
    <3> QED
      BY <1>3, <3>2 DEF Snapshot
  <2>3. request' = [request EXCEPT ![p].saw = rest]
    BY <1>2
  <2> HIDE DEF rest
  <2> QED
    BY <1>1, <2>1, <2>2, <2>3 DEF TypeInv, TypeOK, Task
<1> HIDE DEF new
<1> QED
  BY <1>1, <1>3, <1>5, <1>6, <1>7, NilFresh

LEMMA StepSweeps ==
    ASSUME TypeInv, EnableInv, NEW p \in Request, CascadeStep(p)
    PROVE  EnableInv'
<1>1. PICK a \in Account :
         /\ \A q \in Request \ {p} : request'[q] = Nil
         /\ At(p, Cascade, "work")
         /\ request'[p].want = request[p].want
         /\ DOMAIN request'[p].saw = DOMAIN request[p].saw \ {a}
         /\ Present' = Present
         /\ \A b \in Present : b # a => row'[b] = row[b]
         /\ a \in Present => IF request[p].want = "disabled"
                             THEN row'[a].status = "disabled"
                             ELSE ~row'[a].extra.marked
  BY Stepped DEF EnableInv
<1>2. request[p].want = "active" =>
         \A b \in Present : b \in DOMAIN request[p].saw \/ ~row[b].extra.marked
  BY <1>1 DEF EnableInv, RestoreSwept
<1>3. request'[p].want = "active" =>
         \A b \in Present' : b \in DOMAIN request'[p].saw \/ ~row'[b].extra.marked
  BY <1>1, <1>2
<1> QED
  BY <1>1, <1>3, CascadeMoved

LEMMA CascadeEndSweeps ==
    ASSUME TypeInv, EnableInv, NEW p \in Request, CascadeDone(p) \/ CascadeFails(p)
    PROVE  EnableInv'
<1>1. PICK pc : At(p, Cascade, pc) /\ Return(p)
  BY DEF CascadeDone, CascadeFails
<1>2. \A q \in Request : request'[q] = Nil
  BY <1>1, AloneAt DEF EnableInv, Return, TypeInv, TypeOK
<1> QED
  BY <1>2, NoCascade

\* The other requests begin and move on only while no cascade is there.
LEMMA OthersSweep ==
    ASSUME EnableInv, NEW p \in Request,
           request[p] # Nil => request[p].op \notin Cascade,
           request'[p] # Nil => request'[p].op \notin Cascade,
           request[p] = Nil => \A q \in Request : request[q] # Nil => request[q].op \notin Cascade,
           \A q \in Request \ {p} : request'[q] = request[q]
    PROVE  EnableInv'
<1>1. \A q \in Request : request[q] # Nil => request[q].op \notin Cascade
  BY DEF EnableInv, CascadeRunsAlone
<1>2. \A q \in Request : request'[q] # Nil => request'[q].op \notin Cascade
  BY <1>1
<1> QED
  BY <1>2, NoCascade

LEMMA StartsSweep ==
    ASSUME TypeInv, EnableInv, CascadesSingle, NEW p \in Request, NEW op,
           op \notin Cascade, MayStart(p, op),
           NEW t, t.op = op, request' = [request EXCEPT ![p] = t]
    PROVE  EnableInv'
<1>1. \A q \in Request : request[q] # Nil => request[q].op \notin Cascade
  BY DEF MayStart, Idle, CascadesSingle
<1>2. /\ request[p] = Nil /\ request'[p] = t
      /\ \A q \in Request \ {p} : request'[q] = request[q]
  BY DEF MayStart, TypeInv, TypeOK
<1> QED
  BY <1>1, <1>2, OthersSweep

LEMMA BeginsSweep ==
    ASSUME TypeInv, EnableInv, CascadesSingle, NEW p \in Request, NEW op, NEW a, NEW st,
           ReadAccount(p, op, a, st) \/ StartCheckin(p, op, a)
           \/ (op = "create" /\ StartCreate(p, a, st))
    PROVE  EnableInv'
<1> DEFINE pc == IF StartCheckin(p, op, a) THEN "work"
                 ELSE IF op = "create" THEN "insert" ELSE "save"
           want == IF StartCheckin(p, op, a) THEN Nil ELSE st
           saw == IF op = "create" THEN Seen({}) ELSE Seen({a})
           t == [op |-> op, pc |-> pc, account |-> a, want |-> want, old |-> site,
                 saw |-> saw]
<1>1. /\ op \notin Cascade
      /\ MayStart(p, op)
      /\ \/ Begin(p, op, "save", a, st, Seen({a}))
         \/ Begin(p, op, "work", a, Nil, Seen({a}))
         \/ Begin(p, op, "insert", a, st, Seen({}))
  BY DEF ReadAccount, StartCheckin, StartCreate, Cascade
<1>2. \E u : u.op = op /\ request' = [request EXCEPT ![p] = u]
  BY <1>1 DEF Begin
<1> QED
  BY <1>1, <1>2, StartsSweep

LEMMA MovesSweep ==
    ASSUME TypeInv, EnableInv, NEW p \in Request, NEW pc,
           At(p, OpKind \ Cascade, pc),
           \/ Return(p)
           \/ /\ request'[p].op = request[p].op
              /\ \A q \in Request \ {p} : request'[q] = request[q]
    PROVE  EnableInv'
<1>1. request[p] # Nil /\ request[p].op \notin Cascade
  BY DEF At
<1>2. /\ request'[p] = Nil \/ request'[p].op \notin Cascade
      /\ \A q \in Request \ {p} : request'[q] = request[q]
  BY <1>1 DEF Return, TypeInv, TypeOK
<1> QED
  BY <1>1, <1>2, OthersSweep

LEMMA StepEnable == CascadesSingle /\ TypeInv /\ EnableInv /\ [Next]_vars => EnableInv'
<1> SUFFICES ASSUME CascadesSingle, TypeInv, EnableInv, [Next]_vars PROVE EnableInv'
  OBVIOUS
<1>1. CASE UNCHANGED vars
  BY <1>1 DEF vars, EnableInv, CascadeRunsAlone, RestoreSwept, At, Present
<1>2. CASE Restart
  BY <1>2, NoCascade DEF Restart
<1>3. ASSUME NEW p \in Request,
             \/ \E op \in Cascade, status \in SiteStatus : ReadSite(p, op, status)
             \/ StoreSite(p) \/ SelectToArchive(p) \/ SelectToRestore(p)
             \/ CascadeStep(p) \/ CascadeDone(p) \/ CascadeFails(p)
      PROVE  EnableInv'
  BY <1>3, ReadSiteSweeps, StoreSiteSweeps, SelectSweeps, StepSweeps, CascadeEndSweeps
<1>4. ASSUME NEW p \in Request,
             \/ \E op \in OpKind, a \in Account, status \in AccountStatus \cup {Nil} :
                   ReadAccount(p, op, a, status)
             \/ \E op \in OpKind, a \in Account : StartCheckin(p, op, a)
             \/ \E a \in Account, status \in AccountStatus : StartCreate(p, a, status)
      PROVE  EnableInv'
  BY <1>4, BeginsSweep
<1>5. ASSUME NEW p \in Request, SaveAccount(p) \/ SaveHealth(p) \/ RefreshGivesUp(p)
                                \/ MarkCreated(p) \/ CreateFails(p)
      PROVE  EnableInv'
  <2>1. \E pc : At(p, OpKind \ Cascade, pc) /\ Return(p)
    BY <1>5 DEF SaveAccount, SaveHealth, RefreshGivesUp, MarkCreated, CreateFails, At,
       OpKind, Cascade
  <2> QED
    BY <2>1, MovesSweep
<1>6. ASSUME NEW p \in Request, InsertAccount(p) PROVE EnableInv'
  <2>1. /\ At(p, OpKind \ Cascade, "insert")
        /\ request' = [request EXCEPT ![p].pc = "mark"]
    BY <1>6 DEF InsertAccount, Go, At, OpKind, Cascade
  <2>2. request[p] \in Task
    BY <2>1, AtIs
  <2>3. /\ request'[p].op = request[p].op
        /\ \A q \in Request \ {p} : request'[q] = request[q]
    BY <2>1, <2>2 DEF TypeInv, TypeOK, Task
  <2> QED
    BY <2>1, <2>3, MovesSweep
<1>7. ASSUME NEW p \in Request, NEW st \in AccountStatus \cup {Nil}, FinishCheckin(p, st)
      PROVE  EnableInv'
  <2> DEFINE saw == IF request[p].op = "checkin" /\ row[request[p].account] # Nil
                    THEN Seen({request[p].account}) ELSE request[p].saw
  <2>1. /\ At(p, OpKind \ Cascade, "work")
        /\ request' = [request EXCEPT ![p].pc = "save", ![p].want = st, ![p].saw = saw]
    BY <1>7 DEF FinishCheckin, At, OpKind, Cascade
  <2>2. request[p] \in Task
    BY <2>1, AtIs
  <2> HIDE DEF saw
  <2>3. /\ request'[p].op = request[p].op
        /\ \A q \in Request \ {p} : request'[q] = request[q]
    BY <2>1, <2>2 DEF TypeInv, TypeOK, Task
  <2> QED
    BY <2>1, <2>3, MovesSweep
<1>8. ASSUME NEW p \in Request, NEW a \in Account, DeleteAccount(p, a)
      PROVE  EnableInv'
  <2>1. \A q \in Request : request[q] # Nil => request[q].op \notin Cascade
    BY <1>8 DEF DeleteAccount, MayStart, Idle, CascadesSingle
  <2> QED
    BY <1>8, <2>1, NoCascade DEF DeleteAccount
<1> QED
  BY <1>1, <1>2, <1>3, <1>4, <1>5, <1>6, <1>7, <1>8 DEF Next

\* What the end of an enable leaves: a store that ends the request was not of
\* a disabled site, and a loop that is done has gone through all it had.
LEMMA EnableEnds ==
    ASSUME TypeInv, EnableInv, NEW p \in Request,
           (StoreSite(p) /\ request'[p] = Nil) \/ CascadeDone(p),
           request[p].want = "active", request[p].old = "disabled"
    PROVE  \A a \in Present : ~row[a].extra.marked
<1>1. CASE CascadeDone(p)
  BY <1>1 DEF CascadeDone, EnableInv, RestoreSwept
<1>2. CASE StoreSite(p) /\ request'[p] = Nil
  <2>1. request[p] \in Task
    BY <1>2, AtIs DEF StoreSite
  <2>2. request' = [request EXCEPT ![p].pc = "restore"]
    BY <1>2 DEF StoreSite, CascadeFor, Go
  <2>3. request'[p] \in Task
    BY <2>1, <2>2 DEF TypeInv, TypeOK, Task, Phase
  <2> QED
    BY <1>2, <2>3, NilFresh
<1> QED
  BY <1>1, <1>2

\* An enable of a disabled site that runs to its end with no other request
\* at work restores every archived account, whatever was cut short before it
\* and whatever mixture of other requests produced the markers.
THEOREM EnableSweeps ==
    ASSUME CascadesSingle
    PROVE  Spec => EnableCompletes
<1> DEFINE I == TypeInv /\ EnableInv
           A == \A p \in Request :
                   /\ (StoreSite(p) /\ request'[p] = Nil) \/ CascadeDone(p)
                   /\ request[p].want = "active" /\ request[p].old = "disabled"
                   => \A a \in Present : ~row[a].extra.marked
<1>1. Init => I
  BY InitTyped DEF Init, EnableInv, CascadeRunsAlone, RestoreSwept, At
<1>2. I /\ [Next]_vars => I'
  BY StepTyped, StepEnable
<1>3. I => A
  BY EnableEnds
<1> QED
  BY <1>1, <1>2, <1>3, PTL DEF Spec, EnableCompletes
-----------------------------------------------------------------------------
(* A disable that runs to its end leaves no account enabled.  Here every   *)
(* request has to run alone: one that wrote back a marker it read earlier  *)
(* would leave an account both archived and enabled, and a later disable   *)
(* takes an archived account for a disabled one.                           *)

OneAtATime == Overlap = {}

\* A creation under a disabled site has inserted a disabled account.
InsertedDisabled(t) ==
    t.pc = "mark" /\ t.old = "disabled" => row[t.account].status = "disabled"

OnRow ==
    \A p \in Request : request[p] # Nil /\ request[p].op \notin Cascade =>
        IF request[p].op = "create" THEN InsertedDisabled(request[p])
                                    ELSE WorksOnRow(request[p])

RunsAlone == \A p, q \in Request : request[p] # Nil /\ request[q] # Nil => p = q

\* What the loop still has before it is all that is enabled.
DisableSwept ==
    \A p \in Request : At(p, Cascade, "work") /\ request[p].want = "disabled" =>
        \A a \in Present : a \in DOMAIN request[p].saw \/ row[a].status = "disabled"

DisableInv == RunsAlone /\ MarkedDisabled /\ OnRow /\ DisableSwept

LEMMA OthersIdle ==
    ASSUME RunsAlone, NEW p \in Request, request[p] # Nil
    PROVE  \A q \in Request \ {p} : request[q] = Nil
BY DEF RunsAlone

\* A request begins only when nothing else runs.
LEMMA StartsIdle ==
    ASSUME OneAtATime, NEW p \in Request, NEW op, MayStart(p, op)
    PROVE  Idle
BY DEF MayStart, OneAtATime

LEMMA QuietAfter ==
    ASSUME \A q \in Request : request'[q] = Nil, MarkedDisabled'
    PROVE  DisableInv'
BY DEF DisableInv, RunsAlone, OnRow, DisableSwept, At

\* The state after one request began or moved on alone.
LEMMA MovedAlone ==
    ASSUME MarkedDisabled', NEW p \in Request,
           \A q \in Request \ {p} : request'[q] = Nil,
           request'[p].op \notin Cascade =>
               IF request'[p].op = "create" THEN InsertedDisabled(request[p])'
                                            ELSE WorksOnRow(request[p])',
           /\ request'[p].op \in Cascade
           /\ request'[p].pc = "work"
           /\ request'[p].want = "disabled"
           => \A a \in Present' : a \in DOMAIN request'[p].saw \/ row'[a].status = "disabled"
    PROVE  DisableInv'
<1>1. RunsAlone'
  BY DEF RunsAlone
<1>2. OnRow'
  BY DEF OnRow
<1>3. DisableSwept'
  BY DEF DisableSwept, At
<1> QED
  BY <1>1, <1>2, <1>3 DEF DisableInv

LEMMA MarkersKept ==
    ASSUME DisableInv, row' = row
    PROVE  MarkedDisabled'
BY DEF DisableInv, MarkedDisabled, Present

LEMMA ReadSiteDisables ==
    ASSUME TypeInv, DisableInv, OneAtATime, NEW p \in Request, NEW op \in Cascade,
           NEW st \in SiteStatus, ReadSite(p, op, st)
    PROVE  DisableInv'
<1>1. /\ Idle /\ Begin(p, op, "read", Nil, st, Seen({}))
      /\ row' = row
  BY StartsIdle DEF ReadSite
<1>2. /\ request'[p].pc = "read" /\ request'[p].op = op
      /\ \A q \in Request \ {p} : request'[q] = Nil
  BY <1>1 DEF Begin, Idle, TypeInv, TypeOK
<1> QED
  BY <1>1, <1>2, MarkersKept, MovedAlone

LEMMA StoreSiteDisables ==
    ASSUME TypeInv, DisableInv, NEW p \in Request, StoreSite(p)
    PROVE  DisableInv'
<1>1. /\ request[p] # Nil /\ request[p] \in Task /\ request[p].op \in Cascade
      /\ row' = row
  BY AtIs DEF StoreSite, At
<1>2. \A q \in Request \ {p} : request[q] = Nil
  BY <1>1, OthersIdle DEF DisableInv
<1>3. CascadeFor(request[p]) # "work"
  BY DEF CascadeFor
<1>4. Return(p) \/ Go(p, CascadeFor(request[p]))
  BY DEF StoreSite
<1>5. CASE Return(p)
  <2>1. \A q \in Request : request'[q] = Nil
    BY <1>2, <1>5 DEF Return, TypeInv, TypeOK
  <2> QED
    BY <1>1, <2>1, MarkersKept, QuietAfter
<1>6. CASE Go(p, CascadeFor(request[p]))
  <2>1. /\ \A q \in Request \ {p} : request'[q] = Nil
        /\ request'[p].pc # "work" /\ request'[p].op \in Cascade
    BY <1>1, <1>2, <1>3, <1>6 DEF Go, TypeInv, TypeOK, Task
  <2> QED
    BY <1>1, <2>1, MarkersKept, MovedAlone
<1> QED
  BY <1>4, <1>5, <1>6

LEMMA SelectDisables ==
    ASSUME TypeInv, DisableInv, NEW p \in Request,
           SelectToArchive(p) \/ SelectToRestore(p)
    PROVE  DisableInv'
<1>1. CascadeRunsAlone
  BY OthersIdle DEF CascadeRunsAlone, DisableInv
<1>2. /\ \A q \in Request \ {p} : request'[q] = Nil
      /\ row' = row
      /\ request'[p].op \in Cascade
      /\ request'[p].want = "disabled" =>
            DOMAIN request'[p].saw = {a \in Present : Archivable(row[a])}
  BY <1>1, Selected
<1>3. \A a \in Present : Archivable(row[a]) \/ row[a].status = "disabled"
  BY DEF DisableInv, MarkedDisabled, Archivable
<1>4. request'[p].want = "disabled" =>
         \A a \in Present' : a \in DOMAIN request'[p].saw \/ row'[a].status = "disabled"
  BY <1>2, <1>3 DEF Present
<1> QED
  BY <1>2, <1>4, MarkersKept, MovedAlone

LEMMA StepDisables ==
    ASSUME TypeInv, DisableInv, NEW p \in Request, CascadeStep(p)
    PROVE  DisableInv'
<1>1. CascadeRunsAlone
  BY OthersIdle DEF CascadeRunsAlone, DisableInv
<1>2. PICK a \in Account :
         /\ \A q \in Request \ {p} : request'[q] = Nil
         /\ At(p, Cascade, "work")
         /\ request'[p].op = request[p].op
         /\ request'[p].want = request[p].want
         /\ DOMAIN request'[p].saw = DOMAIN request[p].saw \ {a}
         /\ Present' = Present
         /\ \A b \in Present : b # a => row'[b] = row[b]
         /\ a \in Present => IF request[p].want = "disabled"
                             THEN row'[a].status = "disabled"
                             ELSE ~row'[a].extra.marked
  BY <1>1, Stepped
<1>3. request'[p].op \in Cascade
  BY <1>2 DEF At
<1>4. request[p].want = "disabled" =>
         \A b \in Present : b \in DOMAIN request[p].saw \/ row[b].status = "disabled"
  BY <1>2 DEF DisableInv, DisableSwept
<1>5. request'[p].want = "disabled" =>
         \A b \in Present' : b \in DOMAIN request'[p].saw \/ row'[b].status = "disabled"
  BY <1>2, <1>4
<1>6. MarkedDisabled'
  BY <1>2 DEF MarkedDisabled, DisableInv
<1> QED
  BY <1>2, <1>3, <1>5, <1>6, MovedAlone

\* A request that ends without writing a row.
LEMMA EndDisables ==
    ASSUME TypeInv, DisableInv, NEW p \in Request, request[p] # Nil, Return(p), row' = row
    PROVE  DisableInv'
<1>1. \A q \in Request : request'[q] = Nil
  BY OthersIdle DEF DisableInv, Return, TypeInv, TypeOK
<1> QED
  BY <1>1, MarkersKept, QuietAfter

\* A request that ends with a write that keeps an archived account disabled.
LEMMA WriteDisables ==
    ASSUME TypeInv, DisableInv, NEW p \in Request, request[p] # Nil, Return(p),
           NEW a \in Account, NEW r, Update(a, r),
           row[a] # Nil => (r.extra.marked => r.status = "disabled")
    PROVE  DisableInv'
<1>1. \A q \in Request : request'[q] = Nil
  BY OthersIdle DEF DisableInv, Return, TypeInv, TypeOK
<1>2. MarkedDisabled'
  BY DEF Update, MarkedDisabled, DisableInv, Present, TypeInv, TypeOK
<1> QED
  BY <1>1, <1>2, QuietAfter

LEMMA BeginsDisable ==
    ASSUME TypeInv, DisableInv, OneAtATime, NEW p \in Request, NEW op,
           NEW a \in Account, NEW st \in AccountStatus \cup {Nil},
           ReadAccount(p, op, a, st) \/ (st = Nil /\ StartCheckin(p, op, a))
    PROVE  DisableInv'
<1> DEFINE pc == IF ReadAccount(p, op, a, st) THEN "save" ELSE "work"
           t == [op |-> op, pc |-> pc, account |-> a, want |-> st, old |-> site,
                 saw |-> Seen({a})]
<1>1. /\ op \in {"choose", "form", "login", "rebind", "checkin", "refresh"}
      /\ MayStart(p, op)
      /\ a \in Present
      /\ request' = [request EXCEPT ![p] = t]
      /\ row' = row
      /\ op \in {"checkin", "refresh"} => pc = "work"
      /\ op \in {"choose", "form", "login"} => st \in AccountStatus
      /\ op = "rebind" => st = Nil
  BY DEF ReadAccount, StartCheckin, Begin, StatusesOf, AccountStatus
<1>2. WorksOnRow(t)
  BY <1>1 DEF WorksOnRow, Present
<1>3. t.op = op
  OBVIOUS
<1> HIDE DEF t
<1>4. /\ request'[p] = t
      /\ \A q \in Request \ {p} : request'[q] = Nil
  BY <1>1, StartsIdle DEF Idle, TypeInv, TypeOK
<1>5. WorksOnRow(request[p])'
  BY <1>1, <1>2, <1>4 DEF WorksOnRow, Seen
<1>6. request'[p].op \notin Cascade /\ request'[p].op # "create"
  BY <1>1, <1>3, <1>4 DEF Cascade
<1> QED
  BY <1>1, <1>4, <1>5, <1>6, MarkersKept, MovedAlone

LEMMA StartCreateDisables ==
    ASSUME TypeInv, DisableInv, OneAtATime, NEW p \in Request, NEW a, NEW st,
           StartCreate(p, a, st)
    PROVE  DisableInv'
<1>1. /\ Idle /\ Begin(p, "create", "insert", a, st, Seen({}))
      /\ row' = row
  BY StartsIdle DEF StartCreate
<1>2. /\ request'[p].pc = "insert" /\ request'[p].op = "create"
      /\ \A q \in Request \ {p} : request'[q] = Nil
  BY <1>1 DEF Begin, Idle, TypeInv, TypeOK
<1>3. InsertedDisabled(request[p])' /\ request'[p].op \notin Cascade
  BY <1>2 DEF InsertedDisabled, Cascade
<1> QED
  BY <1>1, <1>2, <1>3, MarkersKept, MovedAlone

\* A request of a user or of the schedule works on the row as it is.
LEMMA WorksAlone ==
    ASSUME TypeInv, DisableInv, NEW p \in Request, request[p] # Nil,
           request[p].op \notin Cascade \cup {"create"}
    PROVE  /\ request[p] \in Task /\ WorksOnRow(request[p])
           /\ request[p].account \in Account
           /\ row[request[p].account] \in Row
           /\ request[p].saw = Seen({request[p].account})
           /\ request[p].saw[request[p].account] = row[request[p].account]
           /\ row[request[p].account].extra.marked =>
                 row[request[p].account].status = "disabled"
<1>1. request[p] \in Task /\ TaskOK(request[p])
  BY DEF TypeInv, TypeOK
<1>2. request[p].account \in Account
  BY <1>1 DEF TaskOK
<1>3. WorksOnRow(request[p])
  BY DEF DisableInv, OnRow
<1>4. /\ row[request[p].account] # Nil
      /\ request[p].saw = Seen({request[p].account})
  BY <1>3 DEF WorksOnRow
<1>5. request[p].account \in Present /\ row[request[p].account] \in Row
  BY <1>2, <1>4 DEF Present, TypeInv, TypeOK
<1> QED
  BY <1>1, <1>2, <1>3, <1>4, <1>5 DEF Seen, DisableInv, MarkedDisabled

LEMMA SaveAccountDisables ==
    ASSUME TypeInv, DisableInv, NEW p \in Request, SaveAccount(p)
    PROVE  DisableInv'
<1> DEFINE t == request[p]
           a == t.account
           new == [status |-> IF t.want = Nil THEN row[a].status ELSE t.want,
                   extra |-> MarkerWritten(t, t.saw[a], row[a])]
<1>1. /\ t # Nil
      /\ t.op \in {"choose", "form", "login", "rebind"}
      /\ Update(a, new) /\ Return(p)
  BY DEF SaveAccount, At
<1>2. /\ WorksOnRow(t) /\ a \in Account
      /\ t.saw[a] = row[a]
      /\ row[a].extra.marked => row[a].status = "disabled"
  BY <1>1, WorksAlone DEF Cascade
<1>3. new.extra.marked => new.status = "disabled"
  <2>1. CASE t.op = "rebind" \/ (t.op = "form" /\ t.want = row[a].status)
    <3>1. new.extra = row[a].extra
      BY <1>2, <2>1 DEF MarkerWritten
    <3>2. new.status = row[a].status
      BY <1>2, <2>1 DEF WorksOnRow
    <3> HIDE DEF new
    <3> QED
      BY <1>2, <3>1, <3>2
  <2>2. CASE ~(t.op = "rebind" \/ (t.op = "form" /\ t.want = row[a].status))
    BY <1>1, <1>2, <2>2 DEF MarkerWritten, Unmarked
  <2> QED
    BY <2>1, <2>2
<1> HIDE DEF new
<1> QED
  BY <1>1, <1>2, <1>3, WriteDisables

LEMMA SaveHealthDisables ==
    ASSUME TypeInv, DisableInv, NEW p \in Request, SaveHealth(p)
    PROVE  DisableInv'
<1> DEFINE t == request[p]
           a == t.account
           new == [status |-> IF t.want = Nil THEN row[a].status ELSE t.want,
                   extra |-> t.saw[a].extra]
<1>1. /\ t # Nil
      /\ t.op \in {"checkin", "refresh"} /\ t.pc = "save"
      /\ Update(a, new) /\ Return(p)
  BY DEF SaveHealth, At
<1>2. /\ WorksOnRow(t) /\ a \in Account
      /\ t.saw[a] = row[a]
      /\ row[a].extra.marked => row[a].status = "disabled"
  BY <1>1, WorksAlone DEF Cascade
<1>3. new.extra.marked => new.status = "disabled"
  <2>1. t.want # Nil => row[a].status # "disabled"
    BY <1>1, <1>2 DEF WorksOnRow
  <2> QED
    BY <1>2, <2>1
<1> HIDE DEF new
<1> QED
  BY <1>1, <1>2, <1>3, WriteDisables

LEMMA FinishCheckinDisables ==
    ASSUME TypeInv, DisableInv, NEW p \in Request, NEW st \in AccountStatus \cup {Nil},
           FinishCheckin(p, st)
    PROVE  DisableInv'
<1> DEFINE t == request[p]
<1>1. /\ t # Nil
      /\ t.op \in {"checkin", "refresh"}
      /\ row' = row
      /\ st \in StatusAfter(t)
  BY DEF FinishCheckin, At
<1>2. /\ t \in Task /\ WorksOnRow(t) /\ t.account \in Account
      /\ t.saw = Seen({t.account}) /\ t.saw[t.account] = row[t.account]
  BY <1>1, WorksAlone DEF Cascade
<1>3. row[t.account] # Nil
  BY <1>2 DEF WorksOnRow
<1>4. request' = [request EXCEPT ![p].pc = "save", ![p].want = st,
                                 ![p].saw = Seen({t.account})]
  BY <1>2, <1>3 DEF FinishCheckin
<1>5. /\ \A q \in Request \ {p} : request'[q] = Nil
      /\ request'[p].op = t.op /\ request'[p].want = st
      /\ request'[p].account = t.account /\ request'[p].saw = Seen({t.account})
  BY <1>1, <1>2, <1>4, OthersIdle DEF DisableInv, TypeInv, TypeOK, Task
<1>6. st # Nil => row[t.account].status # "disabled"
  BY <1>1, <1>2 DEF StatusAfter, Skipped
<1>7. WorksOnRow(request'[p])
  BY <1>1, <1>3, <1>5, <1>6 DEF WorksOnRow
<1>8. WorksOnRow(request[p])'
  BY <1>1, <1>7 DEF WorksOnRow, Seen
<1>9. request'[p].op \notin Cascade /\ request'[p].op # "create"
  BY <1>1, <1>5 DEF Cascade
<1> QED
  BY <1>1, <1>5, <1>8, <1>9, MarkersKept, MovedAlone

LEMMA InsertDisables ==
    ASSUME TypeInv, DisableInv, NEW p \in Request, InsertAccount(p)
    PROVE  DisableInv'
<1> DEFINE t == request[p]
           a == t.account
           new == [status |-> IF t.old = "disabled" THEN "disabled" ELSE t.want,
                   extra |-> Unmarked]
<1>1. /\ t # Nil /\ t \in Task /\ TaskOK(t)
      /\ t.op = "create" /\ t.pc = "insert"
      /\ row' = [row EXCEPT ![a] = new]
      /\ request' = [request EXCEPT ![p].pc = "mark"]
  BY AtIs DEF InsertAccount, Go, At
<1>2. a \in Account
  BY <1>1 DEF TaskOK, Cascade
<1>3. /\ \A q \in Request \ {p} : request'[q] = Nil
      /\ request'[p].op = "create" /\ request'[p].account = a
      /\ request'[p].old = t.old
  BY <1>1, OthersIdle DEF DisableInv, TypeInv, TypeOK, Task
<1>4. ~new.extra.marked /\ (t.old = "disabled" => new.status = "disabled")
  BY DEF Unmarked
<1> HIDE DEF new
<1>5. MarkedDisabled'
  BY <1>1, <1>2, <1>4 DEF MarkedDisabled, DisableInv, Present, TypeInv, TypeOK
<1>6. InsertedDisabled(request[p])'
  BY <1>1, <1>2, <1>3, <1>4 DEF InsertedDisabled, TypeInv, TypeOK
<1>7. request'[p].op \notin Cascade
  BY <1>3 DEF Cascade
<1> QED
  BY <1>3, <1>5, <1>6, <1>7, MovedAlone

LEMMA MarkDisables ==
    ASSUME TypeInv, DisableInv, NEW p \in Request, MarkCreated(p)
    PROVE  DisableInv'
<1> DEFINE t == request[p]
           a == t.account
           new == [status |-> row[a].status, extra |-> CreatedMarker(t)]
<1>1. /\ t # Nil /\ TaskOK(t)
      /\ t.op = "create" /\ t.pc = "mark"
      /\ Update(a, new) /\ Return(p)
  BY AtIs DEF MarkCreated, At
<1>2. a \in Account
  BY <1>1 DEF TaskOK, Cascade
<1>3. InsertedDisabled(t)
  BY <1>1 DEF DisableInv, OnRow, Cascade
<1>4. new.extra.marked => new.status = "disabled"
  BY <1>1, <1>3 DEF InsertedDisabled, CreatedMarker, Unmarked
<1> HIDE DEF new
<1> QED
  BY <1>1, <1>2, <1>4, WriteDisables

LEMMA DeleteDisables ==
    ASSUME TypeInv, DisableInv, OneAtATime, NEW p \in Request, NEW a \in Account,
           DeleteAccount(p, a)
    PROVE  DisableInv'
<1>1. /\ \A q \in Request : request'[q] = Nil
      /\ row' = [row EXCEPT ![a] = Nil]
  BY StartsIdle DEF DeleteAccount, Idle
<1>2. MarkedDisabled'
  BY <1>1 DEF MarkedDisabled, DisableInv, Present, TypeInv, TypeOK
<1> QED
  BY <1>1, <1>2, QuietAfter

LEMMA StepDisable == OneAtATime /\ TypeInv /\ DisableInv /\ [Next]_vars => DisableInv'
<1> SUFFICES ASSUME OneAtATime, TypeInv, DisableInv, [Next]_vars PROVE DisableInv'
  OBVIOUS
<1>1. CASE UNCHANGED vars
  BY <1>1 DEF vars, DisableInv, RunsAlone, MarkedDisabled, OnRow, DisableSwept, At,
     Present, InsertedDisabled, WorksOnRow, Seen
<1>2. CASE Restart
  BY <1>2, MarkersKept, QuietAfter DEF Restart
<1>3. ASSUME NEW p \in Request,
             \/ \E op \in Cascade, status \in SiteStatus : ReadSite(p, op, status)
             \/ StoreSite(p) \/ SelectToArchive(p) \/ SelectToRestore(p)
             \/ CascadeStep(p)
      PROVE  DisableInv'
  BY <1>3, ReadSiteDisables, StoreSiteDisables, SelectDisables, StepDisables
<1>4. ASSUME NEW p \in Request,
             CascadeDone(p) \/ CascadeFails(p) \/ RefreshGivesUp(p) \/ CreateFails(p)
      PROVE  DisableInv'
  <2>1. request[p] # Nil /\ Return(p) /\ row' = row
    BY <1>4 DEF CascadeDone, CascadeFails, RefreshGivesUp, CreateFails, At
  <2> QED
    BY <2>1, EndDisables
<1>5. ASSUME NEW p \in Request,
             \/ \E op \in OpKind, a \in Account, status \in AccountStatus \cup {Nil} :
                   ReadAccount(p, op, a, status)
             \/ \E op \in OpKind, a \in Account : StartCheckin(p, op, a)
             \/ \E a \in Account, status \in AccountStatus : StartCreate(p, a, status)
             \/ \E a \in Account : DeleteAccount(p, a)
      PROVE  DisableInv'
  BY <1>5, BeginsDisable, StartCreateDisables, DeleteDisables
<1>6. ASSUME NEW p \in Request,
             \/ SaveAccount(p) \/ SaveHealth(p)
             \/ \E status \in AccountStatus \cup {Nil} : FinishCheckin(p, status)
             \/ InsertAccount(p) \/ MarkCreated(p)
      PROVE  DisableInv'
  BY <1>6, SaveAccountDisables, SaveHealthDisables, FinishCheckinDisables,
     InsertDisables, MarkDisables
<1> QED
  BY <1>1, <1>2, <1>3, <1>4, <1>5, <1>6 DEF Next

-----------------------------------------------------------------------------
(* What a request knows of its site, and which accounts of a disabled site  *)
(* are enabled.                                                             *)

SiteKnown ==
    \A p \in Request : request[p] # Nil =>
        /\ request[p].op \notin Cascade \/ request[p].pc = "read" => request[p].old = site
        /\ request[p].op \in Cascade /\ request[p].pc # "read" => request[p].want = site
        /\ /\ request[p].op \in {"checkin", "refresh"} /\ request[p].pc = "save"
           /\ request[p].want # Nil
           => site = "active"

Disabling == \E p \in Request : /\ At(p, Cascade, "archive") \/ At(p, Cascade, "work")
                                /\ request[p].want = "disabled"

LeftKnown == site = "disabled" /\ ~Disabling => Enabled \subseteq leftover

\* A step ends the loop of a disable, or cuts it short, or lets a user enable
\* accounts.
Swept(p) == CascadeDone(p) /\ request[p].want = "disabled"
CutShort(p) == Disables(p) /\ (CascadeFails(p) \/ Restart)
Given == {a \in Account : \E p \in Request :
            /\ SaveAccount(p)
            /\ request[p].account = a
            /\ request[p].want \in {"active", "expired"}}

\* The state after the only request began or moved on, on the same site.
LEMMA KnownAlone ==
    ASSUME NEW p \in Request, \A q \in Request \ {p} : request'[q] = Nil,
           NEW t, request'[p] = t, site' = site,
           t.op \notin Cascade \/ t.pc = "read" => t.old = site,
           t.op \in Cascade /\ t.pc # "read" => t.want = site,
           t.op \in {"checkin", "refresh"} /\ t.pc = "save" /\ t.want # Nil => site = "active"
    PROVE  SiteKnown'
BY DEF SiteKnown

LEMMA BeginsKnown ==
    ASSUME TypeInv, Idle, NEW p \in Request, NEW op, NEW pc, NEW a, NEW want, NEW saw,
           Begin(p, op, pc, a, want, saw), site' = site,
           op \in Cascade => pc = "read",
           op \in {"checkin", "refresh"} => pc # "save"
    PROVE  SiteKnown'
<1> DEFINE t == [op |-> op, pc |-> pc, account |-> a, want |-> want, old |-> site,
                 saw |-> saw]
<1>1. /\ request'[p] = t
      /\ \A q \in Request \ {p} : request'[q] = Nil
  BY DEF Begin, Idle, TypeInv, TypeOK
<1>2. t.op = op /\ t.pc = pc /\ t.old = site
  OBVIOUS
<1> HIDE DEF t
<1> QED
  BY <1>1, <1>2, KnownAlone

LEMMA MovesKnown ==
    ASSUME TypeInv, DisableInv, SiteKnown, NEW p \in Request, request[p] # Nil,
           NEW pc \in Phase, NEW want, NEW saw,
           request' = [request EXCEPT ![p].pc = pc, ![p].want = want, ![p].saw = saw],
           site' = site, pc # "read", request[p].pc # "read",
           request[p].op \in Cascade => want = request[p].want,
           request[p].op \in {"checkin", "refresh"} /\ want # Nil => site = "active"
    PROVE  SiteKnown'
<1> DEFINE t == [request[p] EXCEPT !.pc = pc, !.want = want, !.saw = saw]
<1>1. /\ request[p] \in Task
      /\ \A q \in Request \ {p} : request[q] = Nil
  BY OthersIdle DEF DisableInv, TypeInv, TypeOK
<1>2. /\ request'[p] = t
      /\ \A q \in Request \ {p} : request'[q] = Nil
  BY <1>1 DEF TypeInv, TypeOK
<1>3. t.op = request[p].op /\ t.pc = pc /\ t.want = want /\ t.old = request[p].old
  BY <1>1 DEF Task
<1> HIDE DEF t
<1> QED
  BY <1>2, <1>3, KnownAlone DEF SiteKnown

LEMMA StepKnown ==
    ASSUME OneAtATime, TypeInv, DisableInv, SiteKnown, [Next]_vars
    PROVE  SiteKnown'
<1>1. CASE UNCHANGED vars \/ \E p \in Request, a \in Account : DeleteAccount(p, a)
  BY <1>1 DEF vars, DeleteAccount, SiteKnown
<1>2. CASE Restart
  BY <1>2 DEF Restart, SiteKnown
<1>3. ASSUME NEW p \in Request,
             \/ CascadeDone(p) \/ CascadeFails(p) \/ RefreshGivesUp(p) \/ CreateFails(p)
             \/ SaveAccount(p) \/ SaveHealth(p) \/ MarkCreated(p)
      PROVE  SiteKnown'
  <2>1. Return(p)
    BY <1>3 DEF CascadeDone, CascadeFails, RefreshGivesUp, CreateFails, SaveAccount,
                SaveHealth, MarkCreated
  <2>2. request[p] # Nil
    BY <1>3 DEF CascadeDone, CascadeFails, RefreshGivesUp, CreateFails, SaveAccount,
                SaveHealth, MarkCreated, At
  <2>3. \A q \in Request : request'[q] = Nil
    BY <2>1, <2>2, OthersIdle DEF DisableInv, Return, TypeInv, TypeOK
  <2> QED
    BY <2>3 DEF SiteKnown
<1>4. ASSUME NEW p \in Request, NEW op \in Cascade, NEW st \in SiteStatus, ReadSite(p, op, st)
      PROVE  SiteKnown'
  <2>1. Idle /\ Begin(p, op, "read", Nil, st, Seen({})) /\ site' = site
    BY <1>4, StartsIdle DEF ReadSite
  <2> QED
    BY <2>1, BeginsKnown DEF Cascade
<1>5. ASSUME NEW p \in Request, NEW op, NEW a \in Account, NEW st,
             ReadAccount(p, op, a, st) \/ StartCheckin(p, op, a)
      PROVE  SiteKnown'
  <2>1. CASE ReadAccount(p, op, a, st)
    <3>1. /\ Idle /\ Begin(p, op, "save", a, st, Seen({a})) /\ site' = site
          /\ op \notin Cascade \cup {"checkin", "refresh"}
      BY <2>1, StartsIdle DEF ReadAccount, Cascade
    <3> QED
      BY <3>1, BeginsKnown
  <2>2. CASE StartCheckin(p, op, a)
    <3>1. /\ Idle /\ Begin(p, op, "work", a, Nil, Seen({a})) /\ site' = site
          /\ op \notin Cascade
      BY <2>2, StartsIdle DEF StartCheckin, Cascade
    <3> QED
      BY <3>1, BeginsKnown
  <2> QED
    BY <1>5, <2>1, <2>2
<1>6. ASSUME NEW p \in Request, NEW a, NEW st, StartCreate(p, a, st)
      PROVE  SiteKnown'
  <2>1. Idle /\ Begin(p, "create", "insert", a, st, Seen({})) /\ site' = site
    BY <1>6, StartsIdle DEF StartCreate
  <2> QED
    BY <2>1, BeginsKnown DEF Cascade
<1>7. ASSUME NEW p \in Request, StoreSite(p)
      PROVE  SiteKnown'
  <2>1. /\ request[p] \in Task /\ request[p].op \in Cascade /\ request[p] # Nil
        /\ \A q \in Request \ {p} : request[q] = Nil
    BY <1>7, AtIs, OthersIdle DEF StoreSite, At, DisableInv
  <2>2. CASE Return(p)
    BY <2>1, <2>2 DEF Return, SiteKnown, TypeInv, TypeOK
  <2>3. CASE Go(p, CascadeFor(request[p]))
    <3> DEFINE next == CascadeFor(request[p])
               t == [request[p] EXCEPT !.pc = next]
    <3>1. /\ request'[p] = t
          /\ \A q \in Request \ {p} : request'[q] = Nil
      BY <2>1, <2>3 DEF Go, TypeInv, TypeOK
    <3>2. next # "read"
      BY DEF CascadeFor
    <3>3. t.op = request[p].op /\ t.pc = next /\ t.want = request[p].want
      BY <2>1 DEF Task
    <3>4. site' = request[p].want
      BY <1>7 DEF StoreSite
    <3> HIDE DEF t, next
    <3> QED
      BY <2>1, <3>1, <3>2, <3>3, <3>4 DEF SiteKnown, Cascade
  <2> QED
    BY <1>7, <2>2, <2>3 DEF StoreSite
<1>8. ASSUME NEW p \in Request,
             SelectToArchive(p) \/ SelectToRestore(p) \/ CascadeStep(p)
      PROVE  SiteKnown'
  <2>1. /\ request[p] \in Task /\ request[p].op \in Cascade /\ request[p] # Nil
        /\ request[p].pc # "read" /\ site' = site
    BY <1>8, AtIs DEF SelectToArchive, SelectToRestore, CascadeStep, At
  <2>2. PICK saw : \/ request' = [request EXCEPT ![p].pc = "work", ![p].saw = saw]
                   \/ At(p, Cascade, "work") /\ request' = [request EXCEPT ![p].saw = saw]
    BY <1>8 DEF SelectToArchive, SelectToRestore, CascadeStep
  <2>3. request' = [request EXCEPT ![p].pc = "work", ![p].want = request[p].want,
                                   ![p].saw = saw]
    <3>1. [request[p] EXCEPT !.pc = "work", !.saw = saw] =
          [request[p] EXCEPT !.pc = "work", !.want = request[p].want, !.saw = saw]
      BY <2>1 DEF Task
    <3>2. At(p, Cascade, "work") => [request[p] EXCEPT !.saw = saw] =
          [request[p] EXCEPT !.pc = "work", !.want = request[p].want, !.saw = saw]
      BY <2>1 DEF Task, At
    <3> QED
      BY <2>2, <3>1, <3>2 DEF TypeInv, TypeOK
  <2> QED
    BY <2>1, <2>3, MovesKnown DEF Phase, Cascade
<1>9. ASSUME NEW p \in Request, NEW st \in AccountStatus \cup {Nil}, FinishCheckin(p, st)
      PROVE  SiteKnown'
  <2>1. /\ request[p] # Nil /\ request[p].op \in {"checkin", "refresh"}
        /\ request[p].pc = "work" /\ site' = site /\ st \in StatusAfter(request[p])
        /\ request[p].op \notin Cascade
    BY <1>9 DEF FinishCheckin, At, Cascade
  <2>2. request[p].old = site /\ site \in SiteStatus
    BY <2>1 DEF SiteKnown, TypeInv, TypeOK
  <2>3. st # Nil => site = "active"
    BY <2>1, <2>2 DEF StatusAfter, Skipped, SiteStatus
  <2>4. PICK saw : request' = [request EXCEPT ![p].pc = "save", ![p].want = st, ![p].saw = saw]
    BY <1>9 DEF FinishCheckin
  <2> QED
    BY <2>1, <2>3, <2>4, MovesKnown DEF Phase
<1>10. ASSUME NEW p \in Request, InsertAccount(p)
       PROVE  SiteKnown'
  <2>1. /\ request[p] # Nil /\ request[p].op = "create" /\ request[p].pc = "insert"
        /\ request' = [request EXCEPT ![p].pc = "mark"] /\ site' = site
        /\ request[p] \in Task
    BY <1>10, AtIs DEF InsertAccount, Go, At
  <2>2. PICK t : t = [request[p] EXCEPT !.pc = "mark"]
    OBVIOUS
  <2>3. /\ t.op = "create" /\ t.pc = "mark" /\ t.old = site
        /\ request'[p] = t
    BY <2>1, <2>2 DEF Task, SiteKnown, Cascade, TypeInv, TypeOK
  <2>4. \A q \in Request \ {p} : request'[q] = Nil
    BY <2>1, OthersIdle DEF DisableInv, TypeInv, TypeOK
  <2> QED
    BY <2>1, <2>3, <2>4, KnownAlone DEF Cascade
<1> QED
  BY <1>1, <1>2, <1>3, <1>4, <1>5, <1>6, <1>7, <1>8, <1>9, <1>10 DEF Next

\* A step that enables nobody but at a user's wish, with no disable under way.
LEMMA LeftKept ==
    ASSUME LeftKnown, site = "disabled", ~Disabling, leftover \cup Given \subseteq leftover',
           Enabled' \subseteq Enabled \cup Given
    PROVE  Enabled' \subseteq leftover'
BY DEF LeftKnown

\* A write that leaves the account's status, or disables it, enables nobody.
LEMMA UpdateEnables ==
    ASSUME TypeInv, NEW a \in Account, NEW r, Update(a, r),
           row[a] # Nil => r.status = row[a].status \/ r.status = "disabled" \/ a \in Given
    PROVE  Enabled' \subseteq Enabled \cup Given
BY DEF Update, Enabled, Present, TypeInv, TypeOK

\* While the site stays disabled the history forgets nothing but at a disable.
LEMMA LeftoverGrows ==
    ASSUME Next, site = "disabled", site' = "disabled",
           ~ \E p \in Request : CutShort(p) \/ Swept(p)
    PROVE  leftover \cup Given \subseteq leftover'
<1>1. ASSUME NEW p \in Request, SaveAccount(p)
      PROVE  /\ leftover \subseteq leftover'
             /\ request[p].want \in {"active", "expired"} => request[p].account \in leftover'
  BY <1>1 DEF SaveAccount
<1>2. Given \subseteq leftover'
  BY <1>1 DEF Given
<1>3. CASE Restart
  <2>1. ~ \E p \in Request : Disables(p)
    BY <1>3 DEF CutShort
  <2>2. leftover' = leftover
    BY <1>3, <2>1 DEF Restart
  <2> QED
    BY <1>2, <2>2
<1>4. ASSUME NEW p \in Request, CascadeDone(p) \/ CascadeFails(p) \/ StoreSite(p)
      PROVE  leftover \subseteq leftover'
  <2>1. CascadeDone(p) => leftover' = leftover
    BY DEF CascadeDone, Swept
  <2>2. CascadeFails(p) => leftover' = leftover
    BY DEF CascadeFails, CutShort
  <2>3. StoreSite(p) => leftover' = leftover
    BY DEF StoreSite
  <2> QED
    BY <1>4, <2>1, <2>2, <2>3
<1>5. ASSUME NEW p \in Request,
             \/ \E op \in Cascade, status \in SiteStatus : ReadSite(p, op, status)
             \/ SelectToArchive(p) \/ SelectToRestore(p) \/ CascadeStep(p)
             \/ \E op \in OpKind, a \in Account, status \in AccountStatus \cup {Nil} :
                   ReadAccount(p, op, a, status)
             \/ \E a \in Account : DeleteAccount(p, a)
             \/ \E op \in OpKind, a \in Account : StartCheckin(p, op, a)
             \/ \E status \in AccountStatus \cup {Nil} : FinishCheckin(p, status)
             \/ RefreshGivesUp(p) \/ SaveHealth(p)
             \/ \E a \in Account, status \in AccountStatus : StartCreate(p, a, status)
             \/ InsertAccount(p) \/ MarkCreated(p) \/ CreateFails(p)
      PROVE  leftover' = leftover
  BY <1>5 DEF ReadSite, SelectToArchive, SelectToRestore, CascadeStep, ReadAccount,
              DeleteAccount, StartCheckin, FinishCheckin, RefreshGivesUp, SaveHealth,
              StartCreate, InsertAccount, MarkCreated, CreateFails
<1> QED
  BY <1>1, <1>2, <1>3, <1>4, <1>5 DEF Next

LEMMA StepLeft ==
    ASSUME OneAtATime, TypeInv, DisableInv, SiteKnown, LeftKnown, Next
    PROVE  LeftKnown'
<1>1. CASE \E p \in Request : Swept(p)
  <2>1. PICK p \in Request : Swept(p)
    BY <1>1
  <2>2. Enabled = {} /\ row' = row
    BY <2>1 DEF Swept, CascadeDone, DisableInv, DisableSwept, Enabled
  <2> QED
    BY <2>2 DEF LeftKnown, Enabled, Present
<1>2. CASE (\E p \in Request : CutShort(p)) /\ ~\E p \in Request : Swept(p)
  <2>1. leftover' = Enabled /\ row' = row
    BY <1>2 DEF CutShort, CascadeFails, Restart
  <2> QED
    BY <2>1 DEF LeftKnown, Enabled, Present
<1>3. CASE ~\E p \in Request : CutShort(p) \/ Swept(p)
  <2> SUFFICES ASSUME site' = "disabled", ~Disabling'
               PROVE  Enabled' \subseteq leftover'
    BY DEF LeftKnown
  <2>1. site = "disabled" => leftover \cup Given \subseteq leftover'
    BY <1>3, LeftoverGrows
  <2>2. row' = row => Enabled' = Enabled
    BY DEF Enabled, Present
  <2>3. Idle => ~Disabling
    BY DEF Idle, Disabling, At
  <2>4. \A p \in Request : request[p] # Nil /\ (request[p].op \notin Cascade \/ request[p].pc = "read")
           => ~Disabling
    BY DEF Disabling, DisableInv, RunsAlone, At
  <2>5. CASE Restart
    <3>1. ~Disabling
      BY <1>3, <2>5 DEF Disabling, Disables, CutShort
    <3> QED
      BY <2>1, <2>2, <2>5, <3>1, LeftKept DEF Restart
  <2>6. ASSUME NEW p \in Request,
               \/ \E op \in Cascade, status \in SiteStatus : ReadSite(p, op, status)
               \/ \E op \in OpKind, a \in Account, status \in AccountStatus \cup {Nil} :
                     ReadAccount(p, op, a, status)
               \/ \E op \in OpKind, a \in Account : StartCheckin(p, op, a)
               \/ \E a \in Account, status \in AccountStatus : StartCreate(p, a, status)
        PROVE  Enabled' \subseteq leftover'
    <3>1. Idle /\ site' = site /\ row' = row
      BY <2>6, StartsIdle DEF ReadSite, ReadAccount, StartCheckin, StartCreate
    <3> QED
      BY <2>1, <2>2, <2>3, <3>1, LeftKept
  <2>7. ASSUME NEW p \in Request, NEW a \in Account, DeleteAccount(p, a)
        PROVE  Enabled' \subseteq leftover'
    <3>1. Idle /\ site' = site /\ row' = [row EXCEPT ![a] = Nil]
      BY <2>7, StartsIdle DEF DeleteAccount
    <3>2. Enabled' \subseteq Enabled
      BY <3>1 DEF Enabled, Present, TypeInv, TypeOK
    <3> QED
      BY <2>1, <2>3, <3>1, <3>2, LeftKept
  <2>8. ASSUME NEW p \in Request, StoreSite(p)
        PROVE  Enabled' \subseteq leftover'
    <3>1. /\ request[p] \in Task /\ request[p] # Nil /\ request[p].op \in Cascade
          /\ request[p].pc = "read" /\ request[p].want = "disabled" /\ row' = row
          /\ request[p].old = site /\ site \in SiteStatus
      BY <2>8, AtIs DEF StoreSite, At, SiteKnown, TypeInv, TypeOK
    <3>2. CascadeFor(request[p]) # "archive"
      <4> SUFFICES ASSUME CascadeFor(request[p]) = "archive" PROVE FALSE
        OBVIOUS
      <4>1. request'[p] = [request[p] EXCEPT !.pc = "archive"]
        BY <2>8 DEF StoreSite, Go, TypeInv, TypeOK
      <4>2. /\ request'[p].op \in Cascade /\ request'[p].pc = "archive"
            /\ request'[p].want = "disabled" /\ request'[p] \in Task
        BY <3>1, <4>1 DEF Task, Phase
      <4> QED
        BY <4>2, NilFresh DEF Disabling, At
    <3>3. site = "disabled"
      BY <3>1, <3>2 DEF CascadeFor, Cascade, SiteStatus
    <3> QED
      BY <2>1, <2>2, <2>4, <3>1, <3>3, LeftKept
  <2>a. CascadeRunsAlone
    BY OthersIdle DEF CascadeRunsAlone, DisableInv
  <2>9. ASSUME NEW p \in Request, SelectToArchive(p) \/ SelectToRestore(p) \/ CascadeStep(p)
        PROVE  Enabled' \subseteq leftover'
    <3>1. /\ request[p] \in Task /\ request[p] # Nil /\ request[p].op \in Cascade
          /\ request[p].pc # "read" /\ site' = site
      BY <2>9, AtIs DEF SelectToArchive, SelectToRestore, CascadeStep, At
    <3>2. request[p].want = "disabled"
      BY <3>1 DEF SiteKnown
    <3>3. PICK saw : \/ request' = [request EXCEPT ![p].pc = "work", ![p].saw = saw]
                     \/ At(p, Cascade, "work") /\ request' = [request EXCEPT ![p].saw = saw]
      BY <2>9 DEF SelectToArchive, SelectToRestore, CascadeStep
    <3>4. /\ request'[p].op \in Cascade /\ request'[p].pc = "work"
          /\ request'[p].want = "disabled"
      BY <3>1, <3>2, <3>3 DEF TypeInv, TypeOK, Task, At
    <3>5. request'[p] # Nil
      BY <2>9, <2>a, Selected, Stepped
    <3> QED
      BY <3>4, <3>5 DEF Disabling, At
  <2>10. ASSUME NEW p \in Request, CascadeDone(p) \/ CascadeFails(p)
         PROVE  Enabled' \subseteq leftover'
    <3>1. /\ request[p] # Nil /\ request[p].op \in Cascade
          /\ site' = site /\ row' = row /\ request'[p] = Nil
      BY <2>10 DEF CascadeDone, CascadeFails, Return, At, TypeInv, TypeOK
    <3>2. CASE request[p].pc = "read"
      BY <2>1, <2>2, <2>4, <3>1, <3>2, LeftKept
    <3>3. CASE request[p].pc # "read"
      <4>1. request[p].want = "disabled"
        BY <3>1, <3>3 DEF SiteKnown
      <4>2. ~At(p, Cascade, "restore")
        BY <4>1, AtIs DEF TaskOK
      <4>3. CutShort(p) \/ Swept(p)
        BY <2>10, <3>1, <3>3, <4>1, <4>2 DEF CutShort, Disables, Swept, CascadeFails, CascadeDone, At
      <4> QED
        BY <1>3, <4>3
    <3> QED
      BY <3>2, <3>3
  <2>11. ASSUME NEW p \in Request,
                \/ \E status \in AccountStatus \cup {Nil} : FinishCheckin(p, status)
                \/ RefreshGivesUp(p) \/ CreateFails(p)
         PROVE  Enabled' \subseteq leftover'
    <3>1. /\ request[p] # Nil /\ request[p].op \notin Cascade
          /\ site' = site /\ row' = row
      BY <2>11 DEF FinishCheckin, RefreshGivesUp, CreateFails, At, Cascade
    <3> QED
      BY <2>1, <2>2, <2>4, <3>1, LeftKept
  <2>12. ASSUME NEW p \in Request, SaveAccount(p)
         PROVE  Enabled' \subseteq leftover'
    <3> DEFINE t == request[p]
               a == t.account
               new == [status |-> IF t.want = Nil THEN row[a].status ELSE t.want,
                       extra |-> MarkerWritten(t, t.saw[a], row[a])]
    <3>1. /\ t # Nil /\ t \in Task /\ TaskOK(t)
          /\ t.op \in {"choose", "form", "login", "rebind"} /\ t.op \notin Cascade
          /\ Update(a, new) /\ site' = site
      BY <2>12, AtIs DEF SaveAccount, At, Cascade
    <3>2. a \in Account /\ t.want \in AccountStatus \cup {Nil}
      BY <3>1 DEF TaskOK, Task
    <3>3. new.status = row[a].status \/ new.status = "disabled" \/ a \in Given
      <4>1. new.status = IF t.want = Nil THEN row[a].status ELSE t.want
        OBVIOUS
      <4> HIDE DEF new
      <4> QED
        BY <2>12, <3>2, <4>1 DEF Given, AccountStatus
    <3> HIDE DEF new
    <3>4. Enabled' \subseteq Enabled \cup Given
      BY <3>1, <3>2, <3>3, UpdateEnables
    <3> QED
      BY <2>1, <2>4, <3>1, <3>4, LeftKept
  <2>13. ASSUME NEW p \in Request, SaveHealth(p)
         PROVE  Enabled' \subseteq leftover'
    <3> DEFINE t == request[p]
               a == t.account
               new == [status |-> IF t.want = Nil THEN row[a].status ELSE t.want,
                       extra |-> t.saw[a].extra]
    <3>1. /\ t # Nil /\ t \in Task /\ TaskOK(t)
          /\ t.op \in {"checkin", "refresh"} /\ t.op \notin Cascade /\ t.pc = "save"
          /\ Update(a, new) /\ site' = site
      BY <2>13, AtIs DEF SaveHealth, At, Cascade
    <3>2. a \in Account
      BY <3>1 DEF TaskOK
    <3>3. new.status = row[a].status
      BY <3>1 DEF SiteKnown
    <3> HIDE DEF new
    <3>4. Enabled' \subseteq Enabled \cup Given
      BY <3>1, <3>2, <3>3, UpdateEnables
    <3> QED
      BY <2>1, <2>4, <3>1, <3>4, LeftKept
  <2>14. ASSUME NEW p \in Request, InsertAccount(p)
         PROVE  Enabled' \subseteq leftover'
    <3> DEFINE t == request[p]
               a == t.account
               new == [status |-> IF t.old = "disabled" THEN "disabled" ELSE t.want,
                       extra |-> Unmarked]
    <3>1. /\ t # Nil /\ TaskOK(t) /\ t.op = "create" /\ t.op \notin Cascade
          /\ row' = [row EXCEPT ![a] = new] /\ site' = site
      BY <2>14, AtIs DEF InsertAccount, At, Cascade
    <3>2. a \in Account /\ new.status = "disabled"
      BY <3>1 DEF TaskOK, SiteKnown
    <3> HIDE DEF new
    <3>3. Enabled' \subseteq Enabled
      BY <3>1, <3>2 DEF Enabled, Present, TypeInv, TypeOK
    <3> QED
      BY <2>1, <2>4, <3>1, <3>3, LeftKept
  <2>15. ASSUME NEW p \in Request, MarkCreated(p)
         PROVE  Enabled' \subseteq leftover'
    <3> DEFINE t == request[p]
               a == t.account
               new == [status |-> row[a].status, extra |-> CreatedMarker(t)]
    <3>1. /\ t # Nil /\ TaskOK(t) /\ t.op = "create" /\ t.op \notin Cascade
          /\ Update(a, new) /\ site' = site
      BY <2>15, AtIs DEF MarkCreated, At, Cascade
    <3>2. a \in Account /\ new.status = row[a].status
      BY <3>1 DEF TaskOK
    <3> HIDE DEF new
    <3>3. Enabled' \subseteq Enabled \cup Given
      BY <3>1, <3>2, UpdateEnables
    <3> QED
      BY <2>1, <2>4, <3>1, <3>3, LeftKept
  <2> QED
    BY <2>1, <2>5, <2>6, <2>7, <2>8, <2>9, <2>10, <2>11, <2>12, <2>13, <2>14, <2>15 DEF Next
<1> QED
  BY <1>1, <1>2, <1>3

\* When requests run one at a time, a disable whose loop runs to its end
\* leaves no account of the site enabled, whatever errors and restarts cut
\* short before it: an archived account is then always a disabled one, and
\* the loop skips nobody who is enabled.  One that ends without the loop, as
\* the site is stored as disabled already, leaves enabled only what an earlier
\* disable was cut short on and what a user enabled since.
THEOREM DisableSweeps ==
    ASSUME OneAtATime
    PROVE  Spec => DisableCompletes
<1> DEFINE I == TypeInv /\ DisableInv /\ SiteKnown /\ LeftKnown
           A == \A p \in Request :
                   /\ (StoreSite(p) /\ request'[p] = Nil) \/ CascadeDone(p)
                   /\ request[p].want = "disabled"
                   => Enabled \subseteq (IF CascadeDone(p) THEN {} ELSE leftover)
<1>1. Init => I
  <2> SUFFICES ASSUME Init PROVE I
    OBVIOUS
  <2>1. TypeInv /\ MarkedDisabled
    BY InitTyped, InitLossless DEF LosslessInv
  <2>2. RunsAlone /\ OnRow /\ DisableSwept /\ SiteKnown /\ site = "active"
    BY DEF Init, RunsAlone, OnRow, DisableSwept, At, SiteKnown
  <2> QED
    BY <2>1, <2>2 DEF DisableInv, LeftKnown
<1>2. I /\ [Next]_vars => I'
  <2> SUFFICES ASSUME I, [Next]_vars PROVE I'
    OBVIOUS
  <2>2. TypeInv' /\ DisableInv' /\ SiteKnown'
    BY StepTyped, StepDisable, StepKnown
  <2>3. CASE Next
    BY <2>2, <2>3, StepLeft
  <2>4. CASE UNCHANGED vars
    BY <2>2, <2>4 DEF vars, LeftKnown, Enabled, Present, Disabling, At
  <2> QED
    BY <2>2, <2>3, <2>4
<1>3. I => A
  <2> SUFFICES ASSUME I, NEW p \in Request,
                      (StoreSite(p) /\ request'[p] = Nil) \/ CascadeDone(p),
                      request[p].want = "disabled"
               PROVE  Enabled \subseteq (IF CascadeDone(p) THEN {} ELSE leftover)
    OBVIOUS
  <2>1. CASE CascadeDone(p)
    BY <2>1 DEF CascadeDone, DisableInv, DisableSwept, Enabled
  <2>2. CASE StoreSite(p) /\ request'[p] = Nil /\ ~CascadeDone(p)
    <3>1. /\ request[p] \in Task /\ request[p] # Nil /\ request[p].op \in Cascade
          /\ request[p].pc = "read" /\ request[p].old = site /\ site \in SiteStatus
      BY <2>2, AtIs DEF StoreSite, At, SiteKnown, TypeInv, TypeOK
    <3>2. CascadeFor(request[p]) # "archive"
      <4> SUFFICES ASSUME CascadeFor(request[p]) = "archive" PROVE FALSE
        OBVIOUS
      <4>1. request'[p] = [request[p] EXCEPT !.pc = "archive"]
        BY <2>2 DEF StoreSite, Go, TypeInv, TypeOK
      <4>2. [request[p] EXCEPT !.pc = "archive"] \in Task
        BY <3>1 DEF Task, Phase
      <4> QED
        BY <2>2, <4>1, <4>2, NilFresh
    <3>3. site = "disabled"
      BY <3>1, <3>2 DEF CascadeFor, Cascade, SiteStatus
    <3>4. ~Disabling
      BY <3>1 DEF Disabling, DisableInv, RunsAlone, At
    <3> QED
      BY <2>2, <3>3, <3>4 DEF LeftKnown
  <2> QED
    BY <2>1, <2>2
<1> QED
  BY <1>1, <1>2, <1>3, PTL DEF Spec, DisableCompletes
=============================================================================
