\* One account and two workers under fairness; the row is edited, writes fail, sessions end, the process restarts.
CONSTANTS
    Account = {a1}
    Worker = {w1, w2}
    Editor = {e1}
    Route = {direct}
    Scope = {c1}
    ScopeOf <- OneScope
    OneTime = {a1}
    MinSpacing = 1
    SiteSpacing = 1
    Backoff <- FlatBackoff
    DeadBackoff = 1
    RetryAfter = {1}
    Faults = {"store", "revoke", "restart"}
    EditorOps = {"edit", "health"}
    StatusSet = {}
    MaxSession = 1
    MaxGen = 2
    Nil = Nil
SPECIFICATION FairSpec
INVARIANTS
    ForceNeverRepeats
PROPERTIES
    CallsReturn
