\* Two flows on one account, at a site without a login check-in; writes fail, tokens run out.
CONSTANTS
    Flow = {f1, f2}
    Setups <- EverySetup
    MaxToken = 3
    StoreFails = TRUE
SPECIFICATION Spec
SYMMETRY Symmetry
INVARIANTS
    TypeOK
    PanelRetryIsFresh
    LoginOnlyWhenDead
PROPERTIES
    ExpiredIsRefused
