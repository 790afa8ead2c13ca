\* Every kind of request, one at a time; statements fail and the process restarts.
CONSTANTS
    Account = {1, 2, 3}
    Request = {p1}
    Ops = {"edit", "batch", "choose", "form", "login", "rebind", "checkin", "refresh", "create", "delete"}
    Overlap = {}
    Faults = {"store", "create", "restart"}
    Asked = {"active", "expired"}
    Nil = Nil
SPECIFICATION Spec
PROPERTIES
    DisableCompletes
    EnableCompletes
