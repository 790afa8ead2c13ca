-------------------------- MODULE MCManagedRefresh --------------------------
(* Instances of ManagedRefresh for TLC. *)
EXTENDS ManagedRefresh, TLC

\* Every account and route in one rate-limit scope.
OneScope == [a \in Account |-> [rt \in Route |-> CHOOSE c \in Scope : TRUE]]

\* managedRefreshBackoff in ticks of two minutes, cut after one doubling.
ShortBackoff == <<1, 2>>
\* The same without any doubling.
FlatBackoff == <<1>>

Symmetry == Permutations(Worker)
\* Sound where ScopeOf and OneTime do not tell the accounts apart.
FullSymmetry == Permutations(Worker) \cup Permutations(Account)
=============================================================================
