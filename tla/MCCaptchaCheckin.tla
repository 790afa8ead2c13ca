-------------------------- MODULE MCCaptchaCheckin --------------------------
(* CaptchaCheckin for TLC: accounts and panels in which every step occurs. *)
EXTENDS CaptchaCheckin, TLC

MCIds == <<1, 2, 3>>
\* The standard solver gives up before its deadline, the other one after it.
MCPolls == [task |-> 1, async |-> 3]

\* A session cookie, a strict panel that takes the full cookie.
Cookie == [cookie |-> TRUE, configured |-> 0, jwt |-> 0, pow |-> FALSE,
           owner |-> 3, strict |-> TRUE, header |-> FALSE, takes |-> {1},
           offers |-> {"sign_in"}, captcha |-> FALSE, refuses |-> "status"]
\* An access token, a panel that does not want the id.
Token == [Cookie EXCEPT !.cookie = FALSE, !.strict = FALSE, !.header = TRUE, !.takes = {},
                        !.offers = {"checkin"}]
MCSetups ==
    {Cookie,
     [Cookie EXCEPT !.offers = Endpoint, !.configured = 1, !.takes = {2, 3}],
     [Cookie EXCEPT !.configured = 2, !.refuses = "text"],
     [Cookie EXCEPT !.pow = TRUE, !.offers = {"checkin"}, !.configured = 1],
     [Cookie EXCEPT !.captcha = TRUE, !.configured = 3],
     [Token EXCEPT !.captcha = TRUE],
     [Token EXCEPT !.header = FALSE, !.takes = {1, 2}, !.refuses = "expired"],
     [Token EXCEPT !.jwt = 3, !.strict = TRUE, !.header = FALSE, !.takes = {1, 2}, !.offers = Endpoint],
     [Token EXCEPT !.pow = TRUE, !.configured = 3, !.captcha = TRUE]}

Symmetry == Permutations(Flow)
=============================================================================
