--------------------------- MODULE MCClientFlows ---------------------------
(* Small instances of ClientFlows for TLC. *)
EXTENDS ClientFlows

CONSTANTS c1, c2, p1

\* A kind with what it distinguishes.
Of(kinds, bare, paid, first, given) ==
    [kind : kinds, bare : bare, paid : paid, first : first, given : given]

Given == {{"both"}, {"payer", "payee"}, {"payer"}}

SmallTerms ==
    Of({"primarySale", "selling", "buying"}, {FALSE}, {TRUE}, {TRUE}, Given)
    \cup Of({"privateOffer"}, BOOLEAN, BOOLEAN, {TRUE}, {{"both"}, {"payer"}})
    \cup Of({"redemption"}, BOOLEAN, {TRUE}, {TRUE}, {{"payer", "payee"}})
    \cup Of({"loan"}, {FALSE}, {TRUE}, BOOLEAN, {{"both"}})
    \cup Of({"transfer"}, {FALSE}, {FALSE}, BOOLEAN, {{}, {"payee"}})
=============================================================================
