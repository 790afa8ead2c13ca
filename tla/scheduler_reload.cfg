\* The scheduler is reloaded and stopped at any moment, while jobs list
\* accounts and callbacks of three passes run.
CONSTANTS
    Account = {a1}
    Cron = {c1, c2}
    Pass = {s1, s2, s3}
    Nil = Nil
SPECIFICATION FairSpec
INVARIANTS
    TypeOK
    TaskAlone
    PendingNotOverstated
PROPERTIES
    StopQuiets
