-------------------------- MODULE MCAccountTokens --------------------------
(* AccountTokens with one listing whose first token is disabled.           *)
EXTENDS AccountTokens

CONSTANTS t1, t2

MCListing == {<<[token |-> t1, enabled |-> FALSE], [token |-> t2, enabled |-> TRUE]>>}
=============================================================================
