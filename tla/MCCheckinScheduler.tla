------------------------- MODULE MCCheckinScheduler -------------------------
(* CheckinScheduler for TLC: accounts, crons and passes are interchangeable. *)
EXTENDS CheckinScheduler, TLC

Symmetry == Permutations(Account) \cup Permutations(Cron) \cup Permutations(Pass)
=============================================================================
