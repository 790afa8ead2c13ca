--------------------------- MODULE AccountTokens ---------------------------
(***************************************************************************)
(* The API tokens kept for one account: table account_tokens, whose first  *)
(* row becomes the default and is copied to accounts.api_token             *)
(* (db/models.go, CreateAccountToken), written by the handlers of          *)
(* handler/account.go and by the synchronisation that follows a login or   *)
(* a new account.                                                          *)
(*                                                                         *)
(* CreateAccountToken looks the token up, counts the rows, inserts and     *)
(* copies, each a statement of its own without a transaction; a SELECT     *)
(* that fails counts as one that found nothing, and no constraint of the   *)
(* table repeats what the statements checked.  Every row is enabled: the   *)
(* mark of the listing is not stored.                                      *)
(***************************************************************************)
EXTENDS FiniteSets, Naturals, Sequences

CONSTANTS
    Token,      \* token texts
    Writer,     \* goroutines that create tokens
    Listing,    \* what GetApiTokens may return: sequences of Upstream
    MaxId,      \* bound: rows inserted
    Nil         \* no token, no work

Upstream == [token : Token, enabled : BOOLEAN]
ASSUME ListingTyped == Listing \subseteq Seq(Upstream)
ASSUME NilNew == Nil \notin Token
ASSUME WriterFinite == IsFiniteSet(Writer)
ASSUME BoundTyped == MaxId \in Nat

VARIABLES
    rows,       \* account_tokens of the account
    apiToken,   \* accounts.api_token
    nextId,     \* the next row id
    writer,     \* local variables of each writer
    disturbed,  \* history: writers whose call another write to the table overlapped
    raced,      \* history: such a call wrote to the table
    failed      \* history: a SELECT failed

vars == <<rows, apiToken, nextId, writer, disturbed, raced, failed>>
-----------------------------------------------------------------------------
Row == [id : 1..MaxId, token : Token, default : BOOLEAN]

\* One CreateAccountToken after another: the tokens still to create, and for
\* the one at work the next statement, the row found, the count seen.
Idle == [pc |-> "idle", todo |-> <<>>, found |-> 0, first |-> FALSE]

TypeOK ==
    /\ rows \subseteq Row
    /\ apiToken \in Token \cup {Nil}
    /\ nextId \in 1..MaxId + 1
    /\ writer \in [Writer -> [pc : {"idle", "find", "renew", "count", "insert", "copy"},
                              todo : Seq(Token), found : 0..MaxId, first : BOOLEAN]]
    /\ disturbed \subseteq Writer
    /\ {raced, failed} \subseteq BOOLEAN
    /\ \A r, q \in rows : r.id = q.id => r = q

Init ==
    /\ rows = {}
    /\ apiToken \in Token \cup {Nil}
    /\ nextId = 1
    /\ writer = [w \in Writer |-> Idle]
    /\ disturbed = {}
    /\ raced = FALSE
    /\ failed = FALSE

Busy(w) == writer[w].pc # "idle"
\* A call of w begins or goes on undisturbed; a write disturbs the others.
Begins(w) == disturbed' = disturbed \ {w} /\ UNCHANGED raced
Writes(w, next) ==
    /\ disturbed' = {v \in Writer \ {w} : Busy(v)}
                    \cup (IF next = "same" THEN disturbed \cap {w} ELSE {})
    /\ raced' = (raced \/ w \in disturbed)
-----------------------------------------------------------------------------
(* Who creates tokens.                                                     *)

\* handler.CreateAccountToken with a token that is neither empty nor masked.
CreateToken(w, t) ==
    /\ ~Busy(w)
    /\ writer' = [writer EXCEPT ![w] = [Idle EXCEPT !.pc = "find", !.todo = <<t>>]]
    /\ Begins(w)
    /\ UNCHANGED <<rows, apiToken, nextId, failed>>

\* preferredApiToken, as the set of its one result: the first enabled token of
\* the listing, else the one fetched before, which may be missing.
PreferredApiToken(fetched, list) ==
    LET on == {i \in DOMAIN list : list[i].enabled}
    IN IF on = {} THEN {fetched}
       ELSE {list[i].token : i \in {j \in on : \A k \in on : j <= k}}

\* The synchronisation after CreateAccount and LoginAccount: api_token is set
\* to the preferred token, unless the user gave one with the new account, and
\* then every listed token is created in turn.
SyncTokens(w, list, fetched) ==
    /\ ~Busy(w)
    /\ list # <<>>
    /\ apiToken' \in {apiToken} \cup (PreferredApiToken(fetched, list) \ {Nil})
    /\ writer' = [writer EXCEPT ![w] =
                    [Idle EXCEPT !.pc = "find",
                                 !.todo = [i \in 1..Len(list) |-> list[i].token]]]
    /\ Begins(w)
    /\ UNCHANGED <<rows, nextId, failed>>

\* LoginAccount when only the one token fetched before is known.
LoginToken(w, fetched) ==
    /\ ~Busy(w)
    /\ apiToken' = fetched
    /\ writer' = [writer EXCEPT ![w] = [Idle EXCEPT !.pc = "find", !.todo = <<fetched>>]]
    /\ Begins(w)
    /\ UNCHANGED <<rows, nextId, failed>>

\* UpdateAccount and RebindSession put any token there.
EditApiToken(t) ==
    /\ apiToken # t
    /\ apiToken' = t
    /\ UNCHANGED <<rows, nextId, writer, disturbed, raced, failed>>
-----------------------------------------------------------------------------
(* The statements of db.CreateAccountToken.                                *)

\* The call for the first token is over; the next one begins.
Advance(w) ==
    writer' = [writer EXCEPT ![w] =
                 IF Len(@.todo) = 1 THEN Idle
                 ELSE [Idle EXCEPT !.pc = "find", !.todo = Tail(writer[w].todo)]]

Now(w) == Head(writer[w].todo)

\* Mutant: a token that is there already is inserted again.
NothingFound(w) == {}

\* Mutant: any token of the account is taken for the same.
AnyRow(w) == rows

\* SELECT ... WHERE account_id = ? AND token = ?
Same(w) == {r \in rows : r.token = Now(w)}

FindToken(w) ==
    /\ writer[w].pc = "find"
    /\ \/ /\ Same(w) = {}
          /\ writer' = [writer EXCEPT ![w].pc = "count"]
       \/ \E r \in Same(w) :
            writer' = [writer EXCEPT ![w].pc = "renew", ![w].found = r.id]
    /\ UNCHANGED <<rows, apiToken, nextId, disturbed, raced, failed>>

\* An error of the SELECT reads as no row.
FindFails(w) ==
    /\ writer[w].pc = "find"
    /\ writer' = [writer EXCEPT ![w].pc = "count"]
    /\ failed' = TRUE
    /\ UNCHANGED <<rows, apiToken, nextId, disturbed, raced>>

\* UpdateAccountToken of the row found, which renews its name and ignores
\* that the row is gone.
RenewToken(w) ==
    /\ writer[w].pc = "renew"
    /\ Advance(w)
    /\ Writes(w, "next")
    /\ UNCHANGED <<rows, apiToken, nextId, failed>>

\* Mutant: every row becomes a default.
AlwaysFirst == TRUE

IsFirst == rows = {}

CountTokens(w) ==
    /\ writer[w].pc = "count"
    /\ writer' = [writer EXCEPT ![w].pc = "insert", ![w].first = IsFirst]
    /\ UNCHANGED <<rows, apiToken, nextId, disturbed, raced, failed>>

\* An error of the COUNT is ignored and reads as 0.
CountFails(w) ==
    /\ writer[w].pc = "count"
    /\ writer' = [writer EXCEPT ![w].pc = "insert", ![w].first = TRUE]
    /\ failed' = TRUE
    /\ UNCHANGED <<rows, apiToken, nextId, disturbed, raced>>

InsertToken(w) ==
    /\ writer[w].pc = "insert"
    /\ nextId <= MaxId
    /\ rows' = rows \cup {[id |-> nextId, token |-> Now(w), default |-> writer[w].first]}
    /\ nextId' = nextId + 1
    /\ IF writer[w].first THEN writer' = [writer EXCEPT ![w].pc = "copy"] /\ Writes(w, "same")
       ELSE Advance(w) /\ Writes(w, "next")
    /\ UNCHANGED <<apiToken, failed>>

\* Mutant: the id of the row is copied instead of the token.
CopiedId(w) == writer[w].found

\* What UpdateAccount writes into api_token.
Copied(w) == Now(w)

\* The default is copied to the account; the error of UpdateAccount is ignored.
CopyToken(w) ==
    /\ writer[w].pc = "copy"
    /\ apiToken' \in {Copied(w), apiToken}
    /\ Advance(w)
    /\ Begins(w)
    /\ UNCHANGED <<rows, nextId, failed>>

\* The database fails: the handler reports it, the synchronisation goes on.
WriteFails(w) ==
    /\ writer[w].pc = "insert"
    /\ Advance(w)
    /\ Begins(w)
    /\ UNCHANGED <<rows, apiToken, nextId, failed>>

\* DeleteAccountToken: no other row becomes the default, api_token stays.
DeleteToken(r) ==
    /\ rows' = rows \ {r}
    /\ disturbed' = disturbed \cup {w \in Writer : Busy(w)}
    /\ UNCHANGED <<apiToken, nextId, writer, raced, failed>>
-----------------------------------------------------------------------------
Next ==
    \/ \E w \in Writer :
         \/ \E t \in Token : CreateToken(w, t)
         \/ \E list \in Listing, t \in Token \cup {Nil} : SyncTokens(w, list, t)
         \/ \E t \in Token : LoginToken(w, t)
         \/ FindToken(w) \/ FindFails(w) \/ RenewToken(w)
         \/ CountTokens(w) \/ CountFails(w)
         \/ InsertToken(w) \/ CopyToken(w) \/ WriteFails(w)
    \/ \E t \in Token \cup {Nil} : EditApiToken(t)
    \/ \E r \in rows : DeleteToken(r)

Spec == Init /\ [][Next]_vars
-----------------------------------------------------------------------------
Default == {r \in rows : r.default}
\* Writers that counted no row and have not inserted yet.
Inserting == {w \in Writer : writer[w].pc = "insert" /\ writer[w].first}

\* Racing calls may make several rows the default, for nothing checks the
\* count again, but never more than there are writers, unless a SELECT or COUNT failed:
\* whatever is deleted in between, a writer that sees rows makes no default
\* (models.go:631).
DefaultsBounded ==
    ~failed => Cardinality(Default) + Cardinality(Inserting) <= Cardinality(Writer)

\* While no SELECT failed and no call wrote that another write overlapped,
\* the default is the oldest row, so there is one at most, and no token is
\* there twice (models.go:618 to 656).
SerialTokens ==
    ~raced /\ ~failed =>
        /\ \A r \in Default, q \in rows : r.id <= q.id
        /\ \A r, q \in rows : r.token = q.token => r = q

\* A call that ends without an error and undisturbed leaves its token in the
\* table; the row it found may be gone when it was disturbed (models.go:618,
\* the ignored result of UpdateAccountToken).
SavedIsStored ==
    [][\A w \in Writer \ disturbed :
         (RenewToken(w) \/ InsertToken(w)) => \E r \in rows' : r.token = Now(w)]_vars
=============================================================================
