\* The cron fires before the window ends; delays reach past midnight.
CONSTANTS
    Accounts = 3
    Hour = 4
    Day = 6
    WindowStart = 1
    WindowEnd = 5
    WindowMinutes = 20
    Gaps = {2, 3}
    Begin = {0, 5, 11, 17, 19}
SPECIFICATION WindowSpec
INVARIANTS
    WindowTypeOK
    InWindow
    GapInside
CHECK_DEADLOCK FALSE
