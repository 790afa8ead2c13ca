\* One account, two workers, logins in the panel and in the browser, status changes; nothing is lost.
CONSTANTS
    Account = {a1}
    Worker = {w1, w2}
    Editor = {e1}
    Route = {direct}
    Scope = {c1}
    ScopeOf <- OneScope
    OneTime = {}
    MinSpacing = 1
    SiteSpacing = 1
    Backoff <- ShortBackoff
    DeadBackoff = 2
    RetryAfter = {1}
    Faults = {}
    EditorOps = {"login", "browser"}
    StatusSet = {"active", "expired"}
    MaxSession = 2
    MaxGen = 3
    Nil = Nil
SPECIFICATION Spec
SYMMETRY Symmetry
INVARIANTS
    TypeOK
    NeverReplays
    StoredIsCurrent
PROPERTIES
    RotatesCredential
