--------------------------- MODULE MCMinerServing ---------------------------
(* An operator's hotkey and a validator's, a key for one of two scopes, and *)
(* someone with neither.                                                    *)
EXTENDS MinerServing

CONSTANTS operator, validator, support, analytics, payments, t1, t2

SupportKey == [l \in {support} |-> {analytics}]

Req(c, p, s, ok) == [caller |-> c, id |-> 0, path |-> p, scope |-> s, complete |-> ok]

Calls ==
    {Req(validator, "/call", analytics, TRUE), Req(support, "/call", payments, TRUE)}
=============================================================================
