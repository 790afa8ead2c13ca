\* Three requests enable and disable a site at will; every other kind of request runs alone.
\* A cascade fails at any of its statements, which is where a restart may cut it off.
CONSTANTS
    Account = {1, 2}
    Request = {p1, p2, p3}
    Ops = {"edit", "batch", "choose", "form", "login", "rebind", "checkin", "refresh", "create", "delete"}
    Overlap = {"edit", "batch"}
    Faults = {"store"}
    Asked = {"active", "expired"}
    Nil = Nil
SPECIFICATION Spec
SYMMETRY Symmetry
INVARIANTS
    TypeOK
    ChoiceStands
