----------------------------- MODULE SiteArchive -----------------------------
(***************************************************************************)
(* Disabling a site archives its accounts, enabling it restores them:      *)
(* db/archive.go and the handlers that change a site's or an account's     *)
(* status (handler/site.go, handler/batch.go, handler/account.go), with    *)
(* the check-ins that write the same rows.                                 *)
(*                                                                         *)
(* The archive marker lives in the text column extra_config, next to       *)
(* everything else an account stores there, so whoever writes that column  *)
(* back writes a marker back, read some time before.  A row is reduced to  *)
(* its status and its marker.  A cascade reads all rows of the site in one *)
(* query and then updates them one by one, in id order.                    *)
(*                                                                         *)
(* Requests are the goroutines of the HTTP server, the cron and the timers *)
(* that work on the site or its accounts.  Overlap says which kinds of     *)
(* them run at the same time; a kind outside it runs with nothing else     *)
(* going on.                                                               *)
(***************************************************************************)
EXTENDS Naturals

CONSTANTS
    Account,        \* account ids of the one site
    Request,        \* goroutines
    Ops,            \* the kinds of request in this instance
    Overlap,        \* the kinds that may run at the same time
    Asked,          \* the statuses asked for when an account is created
    Faults,         \* which of FaultKind can happen
    Nil             \* no row, no request

Cascade == {"edit", "batch"}
OpKind == Cascade \cup {"choose", "form", "login", "rebind", "checkin",
                       "refresh", "create", "delete"}
\* A statement of a cascade or of a creation fails; the process ends.
FaultKind == {"store", "create", "restart"}
SiteStatus == {"active", "disabled"}
AccountStatus == {"active", "expired", "disabled"}

ASSUME AccountsNumbered == Account \subseteq Nat
ASSUME KindsTyped == /\ Ops \subseteq OpKind
                     /\ Overlap \subseteq OpKind
                     /\ Faults \subseteq FaultKind
                     /\ Asked \subseteq AccountStatus

VARIABLES
    site,       \* sites.status
    row,        \* accounts: status and archive marker
    request,    \* local variables of each request
    choice,     \* history: the status last asked for, by a user or at creation
    leftover    \* history: accounts that the last disable, cut short, left
                \* enabled, or that a user enabled on the disabled site

vars == <<site, row, request, choice, leftover>>
-----------------------------------------------------------------------------
\* archivedBySite and archivedPrevStatus; "none" when the key is missing.
Marker == [marked : BOOLEAN, prev : {"none", "active", "expired"}]
Unmarked == [marked |-> FALSE, prev |-> "none"]
Row == [status : AccountStatus, extra : Marker]

Phase == {"read", "archive", "restore", "work", "insert", "mark", "save"}
\* The rows a request read and still has to write back.
Snapshot == UNION {[S -> Row] : S \in SUBSET Account}
Task == [op : OpKind, pc : Phase, account : Account \cup {Nil},
         want : AccountStatus \cup {Nil}, old : SiteStatus, saw : Snapshot]

ASSUME NilFresh == /\ Nil \notin Account
                   /\ Nil \notin Row
                   /\ Nil \notin Task
                   /\ Nil \notin AccountStatus

TypeOK ==
    /\ site \in SiteStatus
    /\ row \in [Account -> Row \cup {Nil}]
    /\ request \in [Request -> Task \cup {Nil}]
    /\ choice \in [Account -> AccountStatus \cup {Nil}]
    /\ leftover \subseteq Account

Present == {a \in Account : row[a] # Nil}
Enabled == {a \in Present : row[a].status # "disabled"}
\* The status an account has, or gets back with its site.
Intent(r) == IF r.extra.marked
             THEN IF r.extra.prev = "none" THEN "active" ELSE r.extra.prev
             ELSE r.status

\* Every account starts as created on an active site, or does not exist yet.
Init ==
    /\ site = "active"
    /\ row \in [Account -> [status : AccountStatus, extra : {Unmarked}] \cup
                           IF "create" \in Ops THEN {Nil} ELSE {}]
    /\ request = [p \in Request |-> Nil]
    /\ choice = [a \in Account |-> IF row[a] = Nil THEN Nil ELSE row[a].status]
    /\ leftover = {}

At(p, op, pc) == /\ request[p] # Nil
                 /\ request[p].op \in op
                 /\ request[p].pc = pc
Idle == \A p \in Request : request[p] = Nil
MayStart(p, op) == /\ op \in Ops
                   /\ request[p] = Nil
                   /\ \/ Idle
                      \/ /\ op \in Overlap
                         /\ \A q \in Request :
                              request[q] # Nil => request[q].op \in Overlap
Begin(p, op, pc, a, want, saw) ==
    request' = [request EXCEPT ![p] =
        [op |-> op, pc |-> pc, account |-> a, want |-> want, old |-> site,
         saw |-> saw]]
Go(p, pc) == request' = [request EXCEPT ![p].pc = pc]
Return(p) == request' = [request EXCEPT ![p] = Nil]
Seen(S) == [a \in S |-> row[a]]
\* An UPDATE of an account deleted meanwhile changes nothing.
Update(a, r) == row' = IF row[a] = Nil THEN row ELSE [row EXCEPT ![a] = r]
-----------------------------------------------------------------------------
(* A site is enabled or disabled.  UpdateSite ("edit") and BatchSites      *)
(* ("batch") read the site, write its status, and hand both statuses to    *)
(* cascadeSiteStatusChange.                                                *)

ReadSite(p, op, status) ==
    /\ MayStart(p, op)
    /\ Begin(p, op, "read", Nil, status, Seen({}))
    /\ UNCHANGED <<site, row, choice, leftover>>

\* Mutant: enabling a site is not cascaded.
DisableOnly(t) == IF t.want = "disabled" THEN "archive" ELSE "none"

\* UpdateSite skips the cascade when its status is the one it read;
\* BatchSites does not.  Enabling restores only if the site was disabled.
CascadeFor(t) ==
    CASE t.want = "disabled" /\ (t.op = "batch" \/ t.old = "active") -> "archive"
      [] t.want = "active" /\ t.old = "disabled" -> "restore"
      [] OTHER -> "none"

StoreSite(p) ==
    /\ At(p, Cascade, "read")
    /\ site' = request[p].want
    /\ LET next == CascadeFor(request[p])
       IN IF next = "none" THEN Return(p) ELSE Go(p, next)
    /\ leftover' = IF request[p].want = "active" THEN {} ELSE leftover
    /\ UNCHANGED <<row, choice>>

\* Mutant: a manual disable is snapshotted like any other status.
ArchivableAll(r) == ~r.extra.marked

\* Mutant: an expired account is left alone.
ArchivableActive(r) == ~r.extra.marked /\ r.status = "active"

Archivable(r) == ~r.extra.marked /\ r.status # "disabled"

\* The query of ArchiveAccountsBySite, and which of its rows the loop leaves
\* alone; an account disabled by hand or archived already is skipped.
SelectToArchive(p) ==
    /\ At(p, Cascade, "archive")
    /\ request' = [request EXCEPT
          ![p].pc = "work",
          ![p].saw = Seen({a \in Present : Archivable(row[a])})]
    /\ UNCHANGED <<site, row, choice, leftover>>

SelectToRestore(p) ==
    /\ At(p, Cascade, "restore")
    /\ request' = [request EXCEPT
          ![p].pc = "work",
          ![p].saw = Seen({a \in Present : row[a].extra.marked})]
    /\ UNCHANGED <<site, row, choice, leftover>>

Archived(r) == [status |-> "disabled",
                extra |-> [marked |-> TRUE, prev |-> r.status]]

\* Mutant: an account is restored to active whatever it was.
RestoredActive(r) == [status |-> "active", extra |-> Unmarked]

\* archivedPrevStatus: only active and expired are restorable.
Restored(r) == [status |-> Intent(r), extra |-> Unmarked]

\* One UPDATE of the loop, from the row the query returned; the account that
\* is next is the one with the smallest id.
CascadeStep(p) ==
    /\ At(p, Cascade, "work")
    /\ \E a \in DOMAIN request[p].saw :
          LET left == DOMAIN request[p].saw \ {a}
              saw == request[p].saw
          IN /\ \A b \in left : a < b
             /\ Update(a, IF request[p].want = "disabled" THEN Archived(saw[a])
                                                         ELSE Restored(saw[a]))
             /\ request' = [request EXCEPT ![p].saw = [b \in left |-> saw[b]]]
    /\ UNCHANGED <<site, choice, leftover>>

CascadeDone(p) ==
    /\ At(p, Cascade, "work")
    /\ DOMAIN request[p].saw = {}
    /\ leftover' = IF request[p].want = "disabled" THEN {} ELSE leftover
    /\ Return(p)
    /\ UNCHANGED <<site, row, choice>>

\* The loop of a disable has begun, or is about to.
Disables(p) == /\ At(p, Cascade, "archive") \/ At(p, Cascade, "work")
               /\ request[p].want = "disabled"

\* A statement of the request fails.  An error of the site's own UPDATE is
\* reported; an error of the cascade is logged and the request ends well.
CascadeFails(p) ==
    /\ "store" \in Faults
    /\ \/ At(p, Cascade, "read")
       \/ At(p, Cascade, "archive")
       \/ At(p, Cascade, "restore")
       \/ At(p, Cascade, "work") /\ DOMAIN request[p].saw # {}
    /\ leftover' = IF Disables(p) THEN Enabled ELSE leftover
    /\ Return(p)
    /\ UNCHANGED <<site, row, choice>>
-----------------------------------------------------------------------------
(* A user changes an account: SetAccountStatusUserDriven ("choose", batch  *)
(* enable and disable), the edit form ("form"), a password login ("login") *)
(* and a new session ("rebind").  All but the first write extra_config     *)
(* back whole; the last asks the panel between the read and the write.     *)

StatusesOf(op) == CASE op = "choose" -> {"active", "disabled"}
                    [] op = "form" -> AccountStatus
                    [] op = "login" -> {"active"}
                    [] OTHER -> {Nil}

ReadAccount(p, op, a, status) ==
    /\ MayStart(p, op)
    /\ op \in {"choose", "form", "login", "rebind"}
    /\ a \in Present
    /\ status \in StatusesOf(op)
    /\ Begin(p, op, "save", a, status, Seen({a}))
    /\ UNCHANGED <<site, row, choice, leftover>>

\* The marker the request writes, given the row it read and the row as it is
\* now: an explicit choice drops a marker that was read, the form only if it
\* changes the status; the form sends settings kept in extra_config as well,
\* so it always writes that column.
MarkerWritten(t, seen, now) ==
    CASE t.op = "choose" /\ ~seen.extra.marked -> now.extra
      [] t.op = "form" /\ t.want = seen.status -> seen.extra
      [] t.op = "rebind" -> seen.extra
      [] OTHER -> Unmarked

SaveAccount(p) ==
    /\ At(p, {"choose", "form", "login", "rebind"}, "save")
    /\ LET t == request[p]
           a == t.account
           seen == t.saw[a]
           now == row[a]
       IN /\ Update(a, [status |-> IF t.want = Nil THEN now.status ELSE t.want,
                        extra |-> MarkerWritten(t, seen, now)])
          /\ choice' = IF \/ t.op = "rebind"
                          \/ t.op = "form" /\ t.want = seen.status
                       THEN choice ELSE [choice EXCEPT ![a] = t.want]
          /\ leftover' = IF site = "disabled" /\ t.want \in {"active", "expired"}
                         THEN leftover \cup {a} ELSE leftover
    /\ Return(p)
    /\ UNCHANGED site

\* DeleteAccount is a single statement.
DeleteAccount(p, a) ==
    /\ MayStart(p, "delete")
    /\ a \in Present
    /\ row' = [row EXCEPT ![a] = Nil]
    /\ UNCHANGED <<site, request, choice, leftover>>
-----------------------------------------------------------------------------
(* A check-in or balance refresh ("checkin") reads the account with its    *)
(* site, asks the panel, reads extra_config again (freshRuntimeHealth) and *)
(* writes it back with the new health, along with a status derived from    *)
(* the row read first.  A session refresh ("refresh") writes back the      *)
(* extra_config it read before asking the panel.                           *)

StartCheckin(p, op, a) ==
    /\ MayStart(p, op)
    /\ op \in {"checkin", "refresh"}
    /\ a \in Present
    /\ Begin(p, op, "work", a, Nil, Seen({a}))
    /\ UNCHANGED <<site, row, choice, leftover>>

\* Mutant: only the site is looked at before a check-in.
SkippedBySite(t) == t.old = "disabled"

Skipped(t) == t.old = "disabled" \/ t.saw[t.account].status = "disabled"

\* What may be written to the status column; Nil when it is left alone.  A
\* skipped check-in still writes its health, a skipped refresh nothing.
StatusAfter(t) ==
    (IF Skipped(t) THEN {Nil} ELSE IF t.op = "checkin" THEN {Nil, "expired"} ELSE {})
    \cup
    (IF Skipped(t) THEN {} ELSE
        IF t.saw[t.account].status = "expired" THEN {"active"} ELSE {Nil})

FinishCheckin(p, status) ==
    /\ At(p, {"checkin", "refresh"}, "work")
    /\ LET t == request[p]
       IN /\ t.op = "refresh" => ~Skipped(t)
          /\ status \in StatusAfter(t)
          /\ request' = [request EXCEPT
                ![p].pc = "save", ![p].want = status,
                ![p].saw = IF t.op = "checkin" /\ row[t.account] # Nil
                           THEN Seen({t.account}) ELSE t.saw]
    /\ UNCHANGED <<site, row, choice, leftover>>

\* The refresh is skipped, deferred or rejected: nothing is written.
RefreshGivesUp(p) ==
    /\ At(p, {"refresh"}, "work")
    /\ Return(p)
    /\ UNCHANGED <<site, row, choice, leftover>>

\* The status an account was given stays the user's to lift once it is
\* "disabled"; between the other two the panel decides.
SaveHealth(p) ==
    /\ At(p, {"checkin", "refresh"}, "save")
    /\ LET t == request[p]
           a == t.account
       IN /\ Update(a, [status |-> IF t.want = Nil THEN row[a].status ELSE t.want,
                        extra |-> t.saw[a].extra])
          /\ choice' = IF t.want = Nil \/ choice[a] = "disabled" THEN choice
                       ELSE [choice EXCEPT ![a] = t.want]
    /\ Return(p)
    /\ UNCHANGED <<site, leftover>>
-----------------------------------------------------------------------------
(* CreateAccount reads the site, inserts the account and then writes its   *)
(* extra_config, with the marker if the site was disabled.                 *)

\* An id is never used again (AUTOINCREMENT); it is picked here, so that a
\* request begins only while Account has one left.
StartCreate(p, a, status) ==
    /\ MayStart(p, "create")
    /\ status \in Asked
    /\ choice[a] = Nil
    /\ \A q \in Request : request[q] # Nil => request[q].account # a
    /\ Begin(p, "create", "insert", a, status, Seen({}))
    /\ UNCHANGED <<site, row, choice, leftover>>

InsertAccount(p) ==
    /\ At(p, {"create"}, "insert")
    /\ LET t == request[p]
       IN /\ row' = [row EXCEPT ![t.account] =
                [status |-> IF t.old = "disabled" THEN "disabled" ELSE t.want,
                 extra |-> Unmarked]]
          /\ choice' = [choice EXCEPT ![t.account] = t.want]
    /\ Go(p, "mark")
    /\ UNCHANGED <<site, leftover>>

\* requestedStatus: whatever is not "expired" counts as "active".
CreatedMarker(t) ==
    IF t.old = "disabled"
    THEN [marked |-> TRUE,
          prev |-> IF t.want = "expired" THEN "expired" ELSE "active"]
    ELSE Unmarked

MarkCreated(p) ==
    /\ At(p, {"create"}, "mark")
    /\ LET a == request[p].account
       IN Update(a, [status |-> row[a].status, extra |-> CreatedMarker(request[p])])
    /\ Return(p)
    /\ UNCHANGED <<site, choice, leftover>>

\* An error of the INSERT is reported, one of the second write is dropped.
CreateFails(p) ==
    /\ "create" \in Faults
    /\ At(p, {"create"}, "insert") \/ At(p, {"create"}, "mark")
    /\ Return(p)
    /\ UNCHANGED <<site, row, choice, leftover>>
-----------------------------------------------------------------------------
\* The process ends; the requests it was serving end where they are.
Restart ==
    /\ "restart" \in Faults
    /\ ~Idle
    /\ request' = [p \in Request |-> Nil]
    /\ leftover' = IF \E p \in Request : Disables(p) THEN Enabled ELSE leftover
    /\ UNCHANGED <<site, row, choice>>

Next ==
    \/ \E p \in Request :
          \/ \E op \in Cascade, status \in SiteStatus : ReadSite(p, op, status)
          \/ StoreSite(p)
          \/ SelectToArchive(p)
          \/ SelectToRestore(p)
          \/ CascadeStep(p)
          \/ CascadeDone(p)
          \/ CascadeFails(p)
          \/ \E op \in OpKind, a \in Account, status \in AccountStatus \cup {Nil} :
                ReadAccount(p, op, a, status)
          \/ SaveAccount(p)
          \/ \E a \in Account : DeleteAccount(p, a)
          \/ \E op \in OpKind, a \in Account : StartCheckin(p, op, a)
          \/ \E status \in AccountStatus \cup {Nil} : FinishCheckin(p, status)
          \/ RefreshGivesUp(p)
          \/ SaveHealth(p)
          \/ \E a \in Account, status \in AccountStatus : StartCreate(p, a, status)
          \/ InsertAccount(p)
          \/ MarkCreated(p)
          \/ CreateFails(p)
    \/ Restart

Spec == Init /\ [][Next]_vars
-----------------------------------------------------------------------------
\* The status last asked for an account is the one it has or gets back with
\* its site: no cascade, however it is interleaved with others, cut short by
\* an error or a restart, changes what was asked for (the round trip of
\* ArchiveAccountsBySite and RestoreAccountsBySite is lossless).
ChoiceStands ==
    \A a \in Present :
        \/ Intent(row[a]) = choice[a]
        \/ \E p \in Request : At(p, {"create"}, "mark") /\ request[p].account = a

\* The invariant behind ChoiceStands: a row a cascade has still to write back
\* is stale only in what does not change its Intent, an archived account is
\* disabled, and whoever else writes a row works on the row as it is.
MarkedDisabled == \A a \in Present : row[a].extra.marked => row[a].status = "disabled"
CreatesAlone(t) ==
    /\ t.want \in Asked
    /\ t.pc = "mark" =>
          /\ row[t.account] = [status |-> IF t.old = "disabled" THEN "disabled"
                                         ELSE t.want,
                              extra |-> Unmarked]
          /\ choice[t.account] = t.want
WorksOnRow(t) ==
    /\ row[t.account] # Nil
    /\ t.saw = Seen({t.account})
    /\ t.op \in {"choose", "form", "login"} => t.want \in AccountStatus
    /\ t.op = "rebind" => t.want = Nil
    /\ t.op \in {"checkin", "refresh"} /\ t.pc = "save" /\ t.want # Nil =>
          row[t.account].status # "disabled"
CascadeFaithful ==
    \A p \in Request : At(p, Cascade, "work") =>
        \A a \in DOMAIN request[p].saw :
            /\ request[p].want = "disabled" => Archivable(request[p].saw[a])
            /\ row[a] # Nil => Intent(request[p].saw[a]) = choice[a]
OthersAlone ==
    \A p \in Request : request[p] # Nil /\ request[p].op \notin Cascade =>
        /\ \A q \in Request \ {p} : request[q] = Nil
        /\ request[p].op \in Ops
        /\ IF request[p].op = "create" THEN CreatesAlone(request[p])
                                      ELSE WorksOnRow(request[p])
LosslessInv == ChoiceStands /\ MarkedDisabled /\ CascadeFaithful /\ OthersAlone

\* A disable that ends well leaves no account of the site enabled, whatever
\* was cut short before, when it comes to the loop of ArchiveAccountsBySite.
\* The edit form of a site that is stored as disabled already ends before it
\* (site.go:117): then no account is enabled but those an earlier disable was
\* cut short on and those a user enabled since.
DisableCompletes ==
    [][\A p \in Request :
          /\ (StoreSite(p) /\ request'[p] = Nil) \/ CascadeDone(p)
          /\ request[p].want = "disabled"
          => Enabled \subseteq (IF CascadeDone(p) THEN {} ELSE leftover)]_vars

\* An enable of a disabled site that runs to its end leaves no account of the
\* site archived, neither those of an earlier enable that failed half way and
\* was followed by another disable, nor one created meanwhile.
EnableCompletes ==
    [][\A p \in Request :
          /\ (StoreSite(p) /\ request'[p] = Nil) \/ CascadeDone(p)
          /\ request[p].want = "active" /\ request[p].old = "disabled"
          => \A a \in Present : ~row[a].extra.marked]_vars
=============================================================================
