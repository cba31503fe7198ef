------------------------------ MODULE Gateway ------------------------------
(***************************************************************************)
(* The Go gateway (gateway/main.go, scan.go): concurrent requests of       *)
(* prepaid keys, of x402 payers and of the free scan tier pass             *)
(* resolveCaller, the rate limit and the balance check, are forwarded to   *)
(* the sidecar and billed in a goroutine of their own, while keys are      *)
(* revoked, Stripe delivers webhooks, the database is away at times and    *)
(* the gateway restarts.                                                   *)
(*                                                                         *)
(* A request that is refused without a change of state (unknown or revoked *)
(* key, database away at the lookup) takes no step.  Amounts are in the    *)
(* database's smallest unit, prices in halves of it (pricing.Retail).      *)
(* Usage events are only written and not here.                             *)
(***************************************************************************)
EXTENDS Integers, FiniteSets, Sequences

CONSTANTS
    Handlers,               \* bound: requests in progress, with their DeductBalance
    Customers, ApiKeys, OwnerOf,
    Payers,                 \* public keys that pay by x402
    Ips,                    \* addresses that use the free scan tier
    Populations,            \* bound: who calls together in one behaviour
    Quota, DefaultQuota,    \* requests per window, by bucket; when none is set
    Window, NonceLife,      \* one minute, five minutes
    Nonces, Price, Proofs,  \* x402
    Costs, Grant,           \* retail price of an answer; balance of a new customer
    Purchases, BuyerOf, CreditsOf,
    MaxTime                 \* bound of the clock

Buckets == ApiKeys \cup Payers \cup Ips
Resources == {"chat", "scan"}
Proof == [nonce : Nonces, payer : Payers, resource : Resources, amount : Int, signed : BOOLEAN]
Nobody == "nobody"

ASSUME GatewayAssumption ==
    /\ OwnerOf \in [ApiKeys -> Customers]
    /\ Populations \subseteq SUBSET Buckets /\ Nobody \notin Buckets
    /\ ApiKeys \cap (Payers \cup Ips) = {}
    /\ Quota \in [Buckets -> Int] /\ DefaultQuota \in Nat \ {0}
    /\ Window \in Nat /\ NonceLife \in Nat \ {0} /\ MaxTime \in Nat
    /\ Price \in Int /\ Proofs \subseteq Proof
    /\ Costs \subseteq Nat /\ 0 \in Costs /\ Grant \in Nat
    /\ BuyerOf \in [Purchases -> Customers] /\ CreditsOf \in [Purchases -> Nat]

VARIABLES
    clients,    \* the callers of this behaviour
    clock,
    db,         \* the database answers
    revoked,    \* api_keys with revoked_at
    balance,    \* customers.balance_usd
    requests,   \* what every handler goroutine does
    windows,    \* ratelimit.windows
    expires,    \* of every nonce issued so far
    stored,     \* the keys of nonceStore
    status,     \* credit_purchases.status
    events,     \* checkout.session.completed, as Stripe sees it
    passes,     \* requests each nonce has paid for (for the properties)
    admissions  \* times of the requests let through since the last start (for the properties)

memory == <<requests, windows, stored>>
x402 == <<expires, stored, passes>>
stripe == <<status, events>>
vars == <<clients, clock, db, revoked, balance, requests, windows, expires, stored,
          status, events, passes, admissions>>

Never == -1     \* no such nonce or window yet
Idle == [pc |-> "idle", caller |-> Nobody, cost |-> 0]
At(h, pc) == requests[h].pc = pc
Prepaid(h) == requests[h].caller \in ApiKeys
Account(h) == OwnerOf[requests[h].caller]
Move(h, pc, cost) == requests' = [requests EXCEPT ![h] = [pc |-> pc, caller |-> @.caller, cost |-> cost]]
End(h) == requests' = [requests EXCEPT ![h] = Idle]

NoWindow == [count |-> 0, reset |-> Never]

Init ==
    /\ clients \in Populations
    /\ clock = 0 /\ db = TRUE /\ revoked = {}
    /\ balance = [c \in Customers |-> Grant]
    /\ requests = [h \in Handlers |-> Idle]
    /\ windows = [b \in Buckets |-> NoWindow]
    /\ expires = [n \in Nonces |-> Never] /\ stored = {}
    /\ status = [p \in Purchases |-> "none"] /\ events = [p \in Purchases |-> "none"]
    /\ passes = [n \in Nonces |-> 0] /\ admissions = [b \in Buckets |-> <<>>]

----------------------------------------------------------------------------
(* resolveCaller                                                           *)

Fresh(n) == expires[n] = Never

\* issueNonce
IssueInto(store, n) ==
    /\ Fresh(n)
    /\ expires' = [expires EXCEPT ![n] = clock + NonceLife]
    /\ stored' = store \cup {n}

\* write402, to a request without credentials or with a proof that does not verify
Challenge(n) ==
    /\ clients \cap Payers # {}
    /\ IssueInto(stored, n)
    /\ UNCHANGED <<clients, clock, db, revoked, balance, requests, windows, stripe, passes, admissions>>

Begin(h, b) == At(h, "idle") /\ requests' = [requests EXCEPT ![h] = [pc |-> "limit", caller |-> b, cost |-> 0]]

\* keys.Lookup finds the key
WithKey(h, k) ==
    /\ k \in clients \ revoked
    /\ db
    /\ Begin(h, k)
    /\ UNCHANGED <<clients, clock, db, revoked, balance, windows, x402, stripe, admissions>>

\* x402.Verify
Verify(p, resource) == p.signed /\ p.resource = resource /\ p.amount >= Price

\* Mutant: consumeNonce keeps the nonce until it expires.
ConsumedNot(n) == stored

\* consumeNonce: what is left of the store, and whether the nonce was good
Consumed(n) == stored \ {n}
Spendable(n) == n \in stored /\ clock < expires[n]

WithPayment(h, p, resource) ==
    /\ p.payer \in clients
    /\ Verify(p, resource)
    /\ Spendable(p.nonce)
    /\ stored' = Consumed(p.nonce)
    /\ passes' = [passes EXCEPT ![p.nonce] = @ + 1]
    /\ Begin(h, p.payer)
    /\ UNCHANGED <<clients, clock, db, revoked, balance, windows, expires, stripe, admissions>>

\* The nonce is gone either way, and the answer is a new challenge.
PaymentRefused(p, resource, n) ==
    /\ p.payer \in clients
    /\ Verify(p, resource)
    /\ ~Spendable(p.nonce)
    /\ IssueInto(Consumed(p.nonce), n)
    /\ UNCHANGED <<clients, clock, db, revoked, balance, requests, windows, stripe, passes, admissions>>

\* handleRiskScan without credentials
FreeScan(h, ip) ==
    /\ ip \in clients
    /\ Begin(h, ip)
    /\ UNCHANGED <<clients, clock, db, revoked, balance, windows, x402, stripe, admissions>>

----------------------------------------------------------------------------
(* The rate limit and the balance                                          *)

Limit(b) == IF Quota[b] <= 0 THEN DefaultQuota ELSE Quota[b]

\* Mutant: the window ends one instant early, !now.Before(w.reset).
ClosedEarly(w) == w.reset = Never \/ clock >= w.reset

Closed(w) == w.reset = Never \/ clock > w.reset
Opened == [count |-> 1, reset |-> clock + Window]

\* ratelimit.Allow
Allowed(b) == Closed(windows[b]) \/ windows[b].count < Limit(b)
Counted(w) == IF Closed(w) THEN Opened ELSE [w EXCEPT !.count = @ + 1]

Allow(h) ==
    LET b == requests[h].caller
    IN  /\ At(h, "limit")
        /\ IF Allowed(b)
           THEN /\ windows' = [windows EXCEPT ![b] = Counted(@)]
                /\ admissions' = [admissions EXCEPT ![b] = Append(@, clock)]
                /\ Move(h, IF Prepaid(h) THEN "balance" ELSE "forward", 0)
           ELSE End(h) /\ UNCHANGED <<windows, admissions>>
        /\ UNCHANGED <<clients, clock, db, revoked, balance, x402, stripe>>

\* ratelimit.Cleanup
Cleanup ==
    /\ windows' = [b \in Buckets |-> IF Closed(windows[b]) THEN NoWindow ELSE windows[b]]
    /\ UNCHANGED <<clients, clock, db, revoked, balance, requests, x402, stripe, admissions>>

\* GetBalance: an error lets the request through
Funded(c) == balance[c] > 0

CheckBalance(h) ==
    /\ At(h, "balance")
    /\ IF db /\ ~Funded(Account(h)) THEN End(h) ELSE Move(h, "forward", 0)
    /\ UNCHANGED <<clients, clock, db, revoked, balance, windows, x402, stripe, admissions>>

----------------------------------------------------------------------------
(* The answer and the bill                                                 *)

\* callSidecar answered or failed (cost 0); bill starts DeductBalance for a key
Answer(h, cost) ==
    /\ At(h, "forward") /\ Prepaid(h)
    /\ Move(h, "charge", cost)
    /\ UNCHANGED <<clients, clock, db, revoked, balance, windows, x402, stripe, admissions>>

\* A payer, the free tier, a verdict without the model, a stream the sidecar
\* refused, or a body that is not a request.
Unbilled(h) ==
    /\ At(h, "forward")
    /\ End(h)
    /\ UNCHANGED <<clients, clock, db, revoked, balance, windows, x402, stripe, admissions>>

\* Mutant: no "AND balance_usd >= $2".
CoversAlways(c, cost) == TRUE

Covers(c, cost) == 2 * balance[c] >= cost

\* The column keeps whole units: what is left is rounded, a half upwards.
Left(units, cost) == units - cost \div 2

\* DeductBalance, whose error nobody looks at
Deduct(h) ==
    /\ At(h, "charge")
    /\ balance' = IF db /\ Covers(Account(h), requests[h].cost)
                  THEN [balance EXCEPT ![Account(h)] = Left(@, requests[h].cost)]
                  ELSE balance
    /\ End(h)
    /\ UNCHANGED <<clients, clock, db, revoked, windows, x402, stripe, admissions>>

----------------------------------------------------------------------------
(* Purchases                                                               *)

\* CreateCheckoutSession; the customer learns the URL of a recorded purchase
Checkout(p) ==
    /\ status[p] = "none" /\ db
    /\ \E k \in clients \cap ApiKeys : OwnerOf[k] = BuyerOf[p]
    /\ status' = [status EXCEPT ![p] = "pending"]
    /\ UNCHANGED <<clients, clock, db, revoked, balance, memory, expires, events, passes, admissions>>

\* At Stripe, the customer pays.
Complete(p) ==
    /\ status[p] = "pending" /\ events[p] = "none"
    /\ events' = [events EXCEPT ![p] = "retrying"]
    /\ UNCHANGED <<clients, clock, db, revoked, balance, memory, expires, status, passes, admissions>>

\* Mutants: no "AND status = 'pending'"; an error of HandleWebhook is only logged.
FulfilsAgain(p, fetched) == fetched /\ db
Replies200Always(p, fetched) == TRUE

\* HandleWebhook and fulfillPurchase: a purchase that is not pending makes the
\* balance NULL, which the column refuses, so the delivery fails as a whole.
Fulfils(p, fetched) == fetched /\ db /\ status[p] = "pending"
Replies200(p, fetched) == Fulfils(p, fetched)

\* Stripe delivers an event again until it has seen a 200, and may after.
Deliver(p, fetched, heard) ==
    /\ events[p] # "none"
    /\ IF Fulfils(p, fetched)
       THEN /\ status' = [status EXCEPT ![p] = "paid"]
            /\ balance' = [balance EXCEPT ![BuyerOf[p]] = @ + CreditsOf[p]]
       ELSE UNCHANGED <<status, balance>>
    /\ events' = IF heard /\ Replies200(p, fetched) THEN [events EXCEPT ![p] = "acknowledged"]
                                                    ELSE events
    /\ UNCHANGED <<clients, clock, db, revoked, memory, expires, passes, admissions>>

----------------------------------------------------------------------------
(* The surroundings                                                        *)

\* handleRevokeKey
Revoke(k) ==
    /\ k \in clients \ revoked /\ db
    /\ revoked' = revoked \cup {k}
    /\ UNCHANGED <<clients, clock, db, balance, memory, expires, stripe, passes, admissions>>

DbFlips ==
    /\ clients \cap ApiKeys # {}
    /\ db' = ~db
    /\ UNCHANGED <<clients, clock, revoked, balance, memory, expires, stripe, passes, admissions>>

DbReturns == ~db /\ DbFlips

Tick ==
    /\ clock < MaxTime
    /\ clock' = clock + 1
    /\ UNCHANGED <<clients, db, revoked, balance, memory, expires, stripe, passes, admissions>>

\* The gateway's memory is gone; so are the bills still to be settled.
Restart ==
    /\ requests' = [h \in Handlers |-> Idle]
    /\ windows' = [b \in Buckets |-> NoWindow]
    /\ stored' = {}
    /\ admissions' = [b \in Buckets |-> <<>>]
    /\ UNCHANGED <<clients, clock, db, revoked, balance, expires, stripe, passes>>

Handle(h) ==
    \/ \E k \in ApiKeys : WithKey(h, k)
    \/ \E p \in Proofs, r \in Resources : WithPayment(h, p, r)
    \/ \E ip \in Ips : FreeScan(h, ip)
    \/ Allow(h) \/ CheckBalance(h)
    \/ \E k \in Costs : Answer(h, k)
    \/ Unbilled(h) \/ Deduct(h)

Buy(p) == Checkout(p) \/ Complete(p) \/ \E fetched, heard \in BOOLEAN : Deliver(p, fetched, heard)

Next ==
    \/ \E h \in Handlers : Handle(h)
    \/ \E n \in Nonces : Challenge(n) \/ \E p \in Proofs, r \in Resources : PaymentRefused(p, r, n)
    \/ \E p \in Purchases : Buy(p)
    \/ \E k \in ApiKeys : Revoke(k)
    \/ Cleanup \/ DbFlips \/ Tick \/ Restart

Spec == Init /\ [][Next]_vars

\* The database comes back, and Stripe retries for days: in the end a delivery
\* finds the session at Stripe and the database there.
FairSpec ==
    /\ Spec
    /\ WF_vars(DbReturns)
    /\ \A p \in Purchases : SF_vars(events[p] = "retrying" /\ Deliver(p, TRUE, TRUE))

----------------------------------------------------------------------------
(* Properties                                                              *)

Request ==
    {Idle} \cup [pc : {"limit", "forward"}, caller : Buckets, cost : {0}]
           \cup [pc : {"balance"}, caller : ApiKeys, cost : {0}]
           \cup [pc : {"charge"}, caller : ApiKeys, cost : Costs]

\* The gateway's variables keep their types; a balance is never negative, and a
\* bill is always a key's.
TypeOK ==
    /\ clients \in Populations /\ clock \in 0..MaxTime /\ db \in BOOLEAN /\ revoked \subseteq ApiKeys
    /\ balance \in [Customers -> Nat]
    /\ requests \in [Handlers -> Request]
    /\ windows \in [Buckets -> [count : Nat, reset : Int]]
    /\ expires \in [Nonces -> Int] /\ stored \subseteq Nonces
    /\ status \in [Purchases -> {"none", "pending", "paid"}]
    /\ events \in [Purchases -> {"none", "retrying", "acknowledged"}]
    /\ passes \in [Nonces -> Nat]
    /\ admissions \in [Buckets -> Seq(0..MaxTime)]

\* A challenge pays for one request at most, however its proof is presented: at
\* once, twice, concurrently, late, or to a gateway that has restarted
\* (issueNonce, consumeNonce, resolveCaller).
PaysOnce == \A n \in Nonces : passes[n] <= 1

\* Between restarts a bucket gets fewer than two quotas into any stretch of time
\* as long as a window: the first request of a window starts its minute, and the
\* instant at which it ends is still in it (ratelimit.Allow, Cleanup).
WithinQuota ==
    \A b \in Buckets : \A i, j \in DOMAIN admissions[b] :
        j - i >= 2 * Limit(b) - 1 => admissions[b][j] - admissions[b][i] > Window

Admitted == {<<h, Account(h)>> : h \in {i \in Handlers : At(i, "forward") /\ Prepaid(i)}}
Owed == {<<h, Account(h), requests[h].cost>> : h \in {i \in Handlers : At(i, "charge")}}
Credited == {p \in Purchases : status[p] = "paid"}

Ledger == INSTANCE PrepaidLedger WITH
    Requests <- Handlers, admitted <- Admitted, owed <- Owed, credited <- Credited

\* The account's promise: no request without credit unless the database is
\* away, no answer charged twice or given away while it can be paid for, and no
\* purchase credited twice (CheckBalance, bill, DeductBalance, fulfillPurchase).
LedgerKept == Ledger!Spec

\* A purchase the customer has paid for is credited in the end, through lost
\* answers, failed fetches and a database that is away (HandleWebhook).
PurchaseCredited == \A p \in Purchases : events[p] # "none" ~> status[p] = "paid"
=============================================================================
