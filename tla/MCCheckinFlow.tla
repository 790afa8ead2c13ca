---------------------------- MODULE MCCheckinFlow ----------------------------
(* Instances of CheckinFlow for TLC. *)
EXTENDS CheckinFlow, TLC

\* Accounts of managed and of other platforms, with and without a password.
\* Where a solver is configured it may fail, so a check-in ends as without one
\* too; the largest of the four setups has none.
PanelSetup == {s \in [managed : BOOLEAN, external : {FALSE}, own : {FALSE},
                      password : BOOLEAN, solver : BOOLEAN] :
                  s.solver = ~(s.managed /\ s.password)}
\* And sites with a check-in URL of their own, where a token is renewed or a
\* login replaces it.
ExternalSetup == {s \in [managed : BOOLEAN, external : {TRUE}, own : BOOLEAN,
                         password : BOOLEAN, solver : {FALSE}] :
                     s.managed # s.password}
EverySetup == PanelSetup \cup ExternalSetup
Symmetry == Permutations(Flow)
=============================================================================
