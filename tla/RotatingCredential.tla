------------------------- MODULE RotatingCredential -------------------------
(***************************************************************************)
(* What managed session renewal promises, without its mechanism: of every  *)
(* account the application holds one refresh credential, exchanges it for  *)
(* a fresh one, and never presents a credential a second time.             *)
(***************************************************************************)
CONSTANTS Account, Cred

VARIABLES held,     \* the credential the application will present next
          used      \* the credentials upstream has exchanged

Init == /\ held \in [Account -> Cred]
        /\ used = [a \in Account |-> {}]

Unused(a) == Cred \ used[a]

\* An unused credential is presented and replaced by another unused one.
Exchange(a) ==
    \E c \in Unused(a) : \E d \in Unused(a) \ {c} :
        /\ used' = [used EXCEPT ![a] = @ \cup {c}]
        /\ held' = [held EXCEPT ![a] = d]

\* A login replaces the held credential by an unused one.
Replace(a) ==
    \E d \in Unused(a) : /\ held' = [held EXCEPT ![a] = d]
                         /\ used' = used

Next == \E a \in Account : Exchange(a) \/ Replace(a)

Spec == Init /\ [][Next]_<<held, used>>

HeldIsUnused == \A a \in Account : held[a] \notin used[a]
=============================================================================
