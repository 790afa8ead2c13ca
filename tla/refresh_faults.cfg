\* Two accounts behind one rate limit; answers and database writes are lost,
\* and the status of an account changes.
CONSTANTS
    Account = {a1, a2}
    Worker = {w1, w2}
    Editor = {e1}
    Route = {direct}
    Scope = {c1}
    ScopeOf <- OneScope
    OneTime = {}
    MinSpacing = 1
    SiteSpacing = 1
    Backoff <- ShortBackoff
    DeadBackoff = 1
    RetryAfter = {1}
    Faults = {"store", "answer"}
    EditorOps = {}
    StatusSet = {"active", "expired"}
    MaxSession = 1
    MaxGen = 2
    Nil = Nil
SPECIFICATION Spec
SYMMETRY FullSymmetry
INVARIANTS
    SiteSlotExact
    ConsumedIsRemembered
