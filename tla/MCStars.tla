------------------------------ MODULE MCStars ------------------------------
(* A user, a bot that is asked and a bot that is not, in small instances   *)
(* of Stars.                                                               *)
EXTENDS Stars

CONSTANTS u, bot, shop

Form(purpose, user, to, stars, xtr) ==
    [purpose |-> purpose, user |-> user, to |-> to, stars |-> stars, xtr |-> xtr]

\* Stars are bought and given away; 1 star is too little for a bot's invoice.
AllKinds == {
    Form("topup", u, u, 1, FALSE), Form("topup", u, u, 1, TRUE),
    Form("gift", u, bot, 1, TRUE), Form("gift", u, bot, 1, FALSE),
    Form("invoice", u, bot, 2, TRUE), Form("invoice", u, shop, 1, TRUE)}

=============================================================================
