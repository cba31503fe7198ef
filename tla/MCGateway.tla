----------------------------- MODULE MCGateway -----------------------------
(* A prepaid customer; or a payer and an address of the free tier.           *)
EXTENDS Gateway, TLC

CONSTANTS k1, wallet, ip, c1, n1, n2, p1

Owner == [k \in {k1} |-> c1]
Together == {{k1}, {wallet, ip}}
Quotas == (k1 :> 2) @@ (wallet :> 1) @@ (ip :> 0)
Buyer == [p \in {p1} |-> c1]
Credits == [p \in {p1} |-> 2]

\* Right, for the other endpoint, too cheap, and of another key.
Presented ==
    [nonce : {n1, n2}, payer : {wallet}, resource : Resources, amount : {1}, signed : {TRUE}]
        \cup [nonce : {n1}, payer : {wallet}, resource : {"chat"}, amount : {0, 1}, signed : {FALSE, TRUE}]
=============================================================================
