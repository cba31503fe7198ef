--------------------------- MODULE GatewayProofs ---------------------------
(***************************************************************************)
(* Proofs about Gateway for any number of concurrent requests, customers,  *)
(* payers, challenges and purchases: a challenge pays once, the gateway    *)
(* keeps the ledger of PrepaidLedger, and a bucket stays within two quotas. *)
(***************************************************************************)
EXTENDS Gateway, TLAPS

\* A challenge in the store is issued and unspent, and one never issued paid for
\* nothing: what makes a spent challenge unspendable for good.
NonceInv ==
    \A n \in Nonces :
        /\ passes[n] <= 1
        /\ n \in stored => passes[n] = 0 /\ expires[n] # Never
        /\ expires[n] = Never => passes[n] = 0

IInv == TypeOK /\ NonceInv

----------------------------------------------------------------------------
(* Types                                                                   *)

LEMMA InitTypes == Init => TypeOK
<1> SUFFICES ASSUME Init PROVE TypeOK
  OBVIOUS
<1>1. requests \in [Handlers -> Request]
  BY DEF Init, Request
<1>2. windows \in [Buckets -> [count : Nat, reset : Int]]
  BY DEF Init, NoWindow, Never
<1>3. admissions \in [Buckets -> Seq(0..MaxTime)]
  BY DEF Init
<1>4. clock \in 0..MaxTime
  BY GatewayAssumption DEF Init
<1>5. QED
  BY <1>1, <1>2, <1>3, <1>4, GatewayAssumption DEF Init, TypeOK, Never

LEMMA Moves ==
    ASSUME TypeOK, NEW h \in Handlers, NEW r \in Request,
           requests' = [requests EXCEPT ![h] = r]
    PROVE  requests' \in [Handlers -> Request]
BY DEF TypeOK

LEMMA Ends ==
    ASSUME TypeOK, NEW h \in Handlers, End(h)
    PROVE  requests' \in [Handlers -> Request]
BY DEF TypeOK, End, Request

LEMMA Begins ==
    ASSUME TypeOK, NEW h \in Handlers, NEW b \in Buckets, Begin(h, b)
    PROVE  /\ At(h, "idle")
           /\ requests' = [requests EXCEPT ![h] = [pc |-> "limit", caller |-> b, cost |-> 0]]
           /\ requests' \in [Handlers -> Request]
BY Moves DEF Begin, Request

\* What a request at each place is.
LEMMA Shapes ==
    ASSUME TypeOK, NEW h \in Handlers
    PROVE  /\ At(h, "limit") => requests[h].caller \in Buckets
           /\ At(h, "balance") => Prepaid(h)
           /\ At(h, "forward") => requests[h].caller \in Buckets
           /\ At(h, "charge") => Prepaid(h) /\ requests[h].cost \in Costs
           /\ Prepaid(h) => Account(h) \in Customers
<1>1. requests[h] \in Request
  BY DEF TypeOK
<1>2. QED
  BY <1>1, GatewayAssumption DEF Request, At, Prepaid, Account, Idle, Buckets

LEMMA AllowKeepsTypes ==
    ASSUME TypeOK, NEW h \in Handlers, Allow(h)
    PROVE  TypeOK'
<1> DEFINE b == requests[h].caller
<1>1. b \in Buckets
  BY Shapes DEF Allow
<1>2. CASE Allowed(b)
  <2>1. windows' = [windows EXCEPT ![b] = Counted(windows[b])]
    BY <1>2 DEF Allow
  <2>2. windows[b] \in [count : Nat, reset : Int]
    BY <1>1 DEF TypeOK
  <2>3. Opened \in [count : Nat, reset : Int]
    BY GatewayAssumption DEF TypeOK, Opened
  <2>4. Counted(windows[b]) \in [count : Nat, reset : Int]
    BY <2>2, <2>3 DEF Counted
  <2>5. windows' \in [Buckets -> [count : Nat, reset : Int]]
    BY <1>1, <2>1, <2>4 DEF TypeOK
  <2>6. admissions' \in [Buckets -> Seq(0..MaxTime)]
    <3>1. admissions' = [admissions EXCEPT ![b] = Append(admissions[b], clock)]
      BY <1>2 DEF Allow
    <3>2. admissions[b] \in Seq(0..MaxTime) /\ clock \in 0..MaxTime
      BY <1>1 DEF TypeOK
    <3>3. Append(admissions[b], clock) \in Seq(0..MaxTime)
      BY <3>2
    <3>4. QED
      BY <1>1, <3>1, <3>3 DEF TypeOK
  <2>7. requests' \in [Handlers -> Request]
    <3>1. requests' = [requests EXCEPT ![h] = [pc |-> IF Prepaid(h) THEN "balance" ELSE "forward",
                                               caller |-> b, cost |-> 0]]
      BY <1>2 DEF Allow, Move
    <3>2. [pc |-> IF Prepaid(h) THEN "balance" ELSE "forward", caller |-> b, cost |-> 0] \in Request
      BY <1>1 DEF Prepaid, Request
    <3>3. QED
      BY <3>1, <3>2, Moves
  <2>8. QED
    BY <2>5, <2>6, <2>7 DEF Allow, TypeOK, x402, stripe
<1>3. CASE ~Allowed(b)
  BY <1>3, Ends DEF Allow, TypeOK, x402, stripe
<1>4. QED
  BY <1>2, <1>3

LEMMA HandleKeepsTypes ==
    ASSUME TypeOK, NEW h \in Handlers, Handle(h)
    PROVE  TypeOK'
<1>1. ASSUME NEW k \in ApiKeys, WithKey(h, k) PROVE TypeOK'
  BY <1>1, Begins DEF WithKey, TypeOK, x402, stripe, Buckets
<1>2. ASSUME NEW p \in Proofs, NEW r \in Resources, WithPayment(h, p, r) PROVE TypeOK'
  <2>1. p.nonce \in Nonces /\ p.payer \in Buckets
    BY GatewayAssumption DEF Proof, Buckets
  <2>2. QED
    BY <1>2, <2>1, Begins, SMTT(20) DEF WithPayment, TypeOK, stripe, Consumed
<1>3. ASSUME NEW ip \in Ips, FreeScan(h, ip) PROVE TypeOK'
  BY <1>3, Begins DEF FreeScan, TypeOK, x402, stripe, Buckets
<1>4. CASE Allow(h)
  BY <1>4, AllowKeepsTypes
<1>5. CASE CheckBalance(h)
  <2>1. requests[h].caller \in ApiKeys
    BY <1>5, Shapes DEF CheckBalance, Prepaid
  <2>2. CASE End(h)
    BY <1>5, <2>2, Ends DEF CheckBalance, TypeOK, x402, stripe
  <2>3. CASE Move(h, "forward", 0)
    <3>1. requests' \in [Handlers -> Request]
      BY <2>1, <2>3, Moves DEF Move, Request, Buckets
    <3>2. QED
      BY <1>5, <3>1 DEF CheckBalance, TypeOK, x402, stripe
  <2>4. QED
    BY <1>5, <2>2, <2>3 DEF CheckBalance
<1>6. ASSUME NEW k \in Costs, Answer(h, k) PROVE TypeOK'
  <2>1. requests' \in [Handlers -> Request]
    BY <1>6, Moves DEF Answer, Move, Prepaid, Request
  <2>2. QED
    BY <1>6, <2>1 DEF Answer, TypeOK, x402, stripe
<1>7. CASE Unbilled(h)
  BY <1>7, Ends DEF Unbilled, TypeOK, x402, stripe
<1>8. CASE Deduct(h)
  <2>1. requests[h].cost \in Nat /\ Account(h) \in Customers
    BY <1>8, Shapes, GatewayAssumption DEF Deduct
  <2>2. balance[Account(h)] \in Nat
    BY <2>1 DEF TypeOK
  <2>3. balance' \in [Customers -> Nat]
    <3>1. CASE db /\ Covers(Account(h), requests[h].cost)
      <4>1. 2 * balance[Account(h)] >= requests[h].cost
        BY <3>1 DEF Covers
      <4>2. Left(balance[Account(h)], requests[h].cost) \in Nat
        BY <2>1, <2>2, <4>1 DEF Left
      <4>3. QED
        BY <1>8, <2>1, <3>1, <4>2 DEF Deduct, TypeOK
    <3>2. CASE ~(db /\ Covers(Account(h), requests[h].cost))
      BY <1>8, <3>2 DEF Deduct, TypeOK
    <3>3. QED
      BY <3>1, <3>2
  <2>4. QED
    BY <1>8, <2>3, Ends DEF Deduct, TypeOK, x402, stripe
<1>9. QED
  BY <1>1, <1>2, <1>3, <1>4, <1>5, <1>6, <1>7, <1>8 DEF Handle

LEMMA BuyKeepsTypes ==
    ASSUME TypeOK, NEW p \in Purchases, Buy(p)
    PROVE  TypeOK'
<1>1. CASE Checkout(p)
  BY <1>1 DEF Checkout, TypeOK, memory
<1>2. CASE Complete(p)
  BY <1>2 DEF Complete, TypeOK, memory
<1>3. ASSUME NEW fetched \in BOOLEAN, NEW heard \in BOOLEAN, Deliver(p, fetched, heard) PROVE TypeOK'
  <2>1. BuyerOf[p] \in Customers /\ CreditsOf[p] \in Nat
    BY GatewayAssumption
  <2>2. balance' \in [Customers -> Nat] /\ status' \in [Purchases -> {"none", "pending", "paid"}]
    <3>1. CASE Fulfils(p, fetched)
      <4>1. balance' = [balance EXCEPT ![BuyerOf[p]] = balance[BuyerOf[p]] + CreditsOf[p]]
            /\ status' = [status EXCEPT ![p] = "paid"]
        BY <1>3, <3>1 DEF Deliver
      <4>2. QED
        BY <2>1, <4>1 DEF TypeOK
    <3>2. CASE ~Fulfils(p, fetched)
      BY <1>3, <3>2 DEF Deliver, TypeOK
    <3>3. QED
      BY <3>1, <3>2
  <2>3. events' \in [Purchases -> {"none", "retrying", "acknowledged"}]
    BY <1>3 DEF Deliver, TypeOK
  <2>4. QED
    BY <1>3, <2>2, <2>3 DEF Deliver, TypeOK, memory
<1>4. QED
  BY <1>1, <1>2, <1>3 DEF Buy

LEMMA NextTypes == TypeOK /\ [Next]_vars => TypeOK'
<1> SUFFICES ASSUME TypeOK, [Next]_vars PROVE TypeOK'
  OBVIOUS
<1>1. ASSUME NEW n \in Nonces, Challenge(n) PROVE TypeOK'
  BY <1>1, GatewayAssumption DEF Challenge, IssueInto, TypeOK, stripe
<1>2. ASSUME NEW n \in Nonces, NEW p \in Proofs, NEW r \in Resources, PaymentRefused(p, r, n) PROVE TypeOK'
  BY <1>2, GatewayAssumption DEF PaymentRefused, IssueInto, Consumed, TypeOK, stripe
<1>3. ASSUME NEW k \in ApiKeys, Revoke(k) PROVE TypeOK'
  BY <1>3 DEF Revoke, TypeOK, memory, stripe
<1>4. CASE Cleanup
  <2>1. windows' \in [Buckets -> [count : Nat, reset : Int]]
    BY <1>4 DEF Cleanup, TypeOK, NoWindow, Never
  <2>2. QED
    BY <1>4, <2>1 DEF Cleanup, TypeOK, x402, stripe
<1>5. CASE DbFlips
  BY <1>5 DEF DbFlips, TypeOK, memory, stripe
<1>6. CASE Tick
  <2>1. clock' \in 0..MaxTime
    BY <1>6, GatewayAssumption DEF Tick, TypeOK
  <2>2. QED
    BY <1>6, <2>1 DEF Tick, TypeOK, memory, stripe
<1>7. CASE Restart
  <2>1. /\ requests' \in [Handlers -> Request]
        /\ windows' \in [Buckets -> [count : Nat, reset : Int]]
        /\ admissions' \in [Buckets -> Seq(0..MaxTime)]
        /\ stored' \subseteq Nonces
    BY <1>7 DEF Restart, Request, NoWindow, Never
  <2>2. QED
    BY <1>7, <2>1 DEF Restart, TypeOK, stripe
<1>8. CASE UNCHANGED vars
  BY <1>8 DEF vars, TypeOK
<1>9. QED
  BY <1>1, <1>2, <1>3, <1>4, <1>5, <1>6, <1>7, <1>8, HandleKeepsTypes, BuyKeepsTypes DEF Next

\* The gateway's variables keep their types, whatever the order of requests,
\* webhooks and restarts; so no balance is ever negative (DeductBalance).
THEOREM GatewayTypeCorrect == Spec => []TypeOK
BY InitTypes, NextTypes, PTL DEF Spec

----------------------------------------------------------------------------
(* Challenges                                                              *)

LEMMA IssueKeepsNonces ==
    ASSUME TypeOK, NonceInv, NEW n \in Nonces, NEW store \in SUBSET stored,
           IssueInto(store, n), passes' = passes
    PROVE  NonceInv'
<1>1. clock + NonceLife # Never
  BY GatewayAssumption DEF TypeOK, Never
<1>2. QED
  BY <1>1 DEF TypeOK, NonceInv, IssueInto, Fresh

LEMMA NextNonces == TypeOK /\ NonceInv /\ [Next]_vars => NonceInv'
<1> SUFFICES ASSUME TypeOK, NonceInv, [Next]_vars PROVE NonceInv'
  OBVIOUS
<1>1. CASE stored' \subseteq stored /\ UNCHANGED <<expires, passes>>
  BY <1>1 DEF NonceInv
<1>2. ASSUME NEW n \in Nonces, Challenge(n) PROVE NonceInv'
  BY <1>2, IssueKeepsNonces DEF Challenge
<1>3. ASSUME NEW n \in Nonces, NEW p \in Proofs, NEW r \in Resources, PaymentRefused(p, r, n)
      PROVE  NonceInv'
  BY <1>3, IssueKeepsNonces DEF PaymentRefused, Consumed
<1>4. ASSUME NEW h \in Handlers, NEW p \in Proofs, NEW r \in Resources, WithPayment(h, p, r)
      PROVE  NonceInv'
  <2>1. p.nonce \in Nonces /\ p.nonce \in stored
    BY <1>4, GatewayAssumption DEF WithPayment, Spendable, Proof
  <2>2. passes[p.nonce] = 0 /\ expires[p.nonce] # Never
    BY <2>1 DEF NonceInv
  <2>3. stored' = stored \ {p.nonce} /\ expires' = expires
        /\ passes' = [passes EXCEPT ![p.nonce] = 1]
    BY <1>4, <2>2 DEF WithPayment, Consumed
  <2>4. QED
    BY <2>1, <2>2, <2>3 DEF NonceInv, TypeOK
<1>5. ASSUME NEW h \in Handlers, Handle(h) PROVE NonceInv'
  <2>1. ASSUME NEW k \in ApiKeys, WithKey(h, k) PROVE NonceInv'
    BY <1>1, <2>1 DEF WithKey, x402
  <2>2. ASSUME NEW ip \in Ips, FreeScan(h, ip) PROVE NonceInv'
    BY <1>1, <2>2 DEF FreeScan, x402
  <2>3. CASE Allow(h)
    BY <1>1, <2>3 DEF Allow, x402
  <2>4. CASE CheckBalance(h)
    BY <1>1, <2>4 DEF CheckBalance, x402
  <2>5. ASSUME NEW k \in Costs, Answer(h, k) PROVE NonceInv'
    BY <1>1, <2>5 DEF Answer, x402
  <2>6. CASE Unbilled(h) \/ Deduct(h)
    BY <1>1, <2>6 DEF Unbilled, Deduct, x402
  <2>7. QED
    BY <1>4, <1>5, <2>1, <2>2, <2>3, <2>4, <2>5, <2>6 DEF Handle
<1>6. ASSUME NEW p \in Purchases, Buy(p) PROVE NonceInv'
  BY <1>1, <1>6 DEF Buy, Checkout, Complete, Deliver, memory
<1>7. ASSUME NEW k \in ApiKeys, Revoke(k) PROVE NonceInv'
  BY <1>1, <1>7 DEF Revoke, memory
<1>8. CASE Cleanup \/ DbFlips \/ Tick \/ Restart \/ UNCHANGED vars
  BY <1>1, <1>8 DEF Cleanup, DbFlips, Tick, Restart, vars, memory, x402
<1>9. QED
  BY <1>2, <1>3, <1>5, <1>6, <1>7, <1>8 DEF Next

\* However proofs are presented and whenever the gateway restarts, a challenge
\* pays for at most one request (issueNonce, consumeNonce).
THEOREM ChallengePaysOnce == Spec => []PaysOnce
<1>1. Init => NonceInv
  BY DEF Init, NonceInv
<1>2. IInv /\ [Next]_vars => IInv'
  BY NextTypes, NextNonces DEF IInv
<1>3. IInv => PaysOnce
  BY DEF IInv, NonceInv, PaysOnce
<1>4. QED
  BY <1>1, <1>2, <1>3, InitTypes, PTL DEF Spec, IInv

----------------------------------------------------------------------------
(* The ledger                                                              *)

\* What a request is in the ledger.
AdmittedAs(h, r) == IF r.pc = "forward" /\ r.caller \in ApiKeys THEN {<<h, OwnerOf[r.caller]>>} ELSE {}
OwedAs(h, r) == IF r.pc = "charge" THEN {<<h, OwnerOf[r.caller], r.cost>>} ELSE {}

\* A step of one request changes its own entries only.
LEMMA OneMoves ==
    ASSUME TypeOK, NEW h \in Handlers, NEW r,
           requests' = [requests EXCEPT ![h] = r]
    PROVE  /\ Admitted' = (Admitted \ AdmittedAs(h, requests[h])) \cup AdmittedAs(h, r)
           /\ Owed' = (Owed \ OwedAs(h, requests[h])) \cup OwedAs(h, r)
<1>1. /\ requests'[h] = r
      /\ \A i \in Handlers : i # h => requests'[i] = requests[i]
  BY DEF TypeOK
<1>2. Admitted' = {<<i, OwnerOf[requests'[i].caller]>> :
                     i \in {j \in Handlers : requests'[j].pc = "forward" /\ requests'[j].caller \in ApiKeys}}
  BY DEF Admitted, At, Prepaid, Account
<1>3. Admitted = {<<i, OwnerOf[requests[i].caller]>> :
                    i \in {j \in Handlers : requests[j].pc = "forward" /\ requests[j].caller \in ApiKeys}}
  BY DEF Admitted, At, Prepaid, Account
<1>4. Owed' = {<<i, OwnerOf[requests'[i].caller], requests'[i].cost>> :
                 i \in {j \in Handlers : requests'[j].pc = "charge"}}
  BY DEF Owed, At, Account
<1>5. Owed = {<<i, OwnerOf[requests[i].caller], requests[i].cost>> :
                i \in {j \in Handlers : requests[j].pc = "charge"}}
  BY DEF Owed, At, Account
<1>6. Admitted' = (Admitted \ AdmittedAs(h, requests[h])) \cup AdmittedAs(h, r)
  BY <1>1, <1>2, <1>3 DEF AdmittedAs
<1>7. Owed' = (Owed \ OwedAs(h, requests[h])) \cup OwedAs(h, r)
  BY <1>1, <1>4, <1>5 DEF OwedAs
<1>8. QED
  BY <1>6, <1>7

LEMMA Entries ==
    ASSUME NEW h \in Handlers
    PROVE  /\ \A c : <<h, c>> \in Admitted <=> At(h, "forward") /\ Prepaid(h) /\ c = Account(h)
           /\ \A c, k : <<h, c, k>> \in Owed <=> At(h, "charge") /\ c = Account(h) /\ k = requests[h].cost
BY DEF Admitted, Owed

\* A step that concerns neither the requests on credit nor the accounts.
LEMMA Stutter ==
    ASSUME UNCHANGED <<db, balance, status>>, Admitted' = Admitted, Owed' = Owed
    PROVE  UNCHANGED Ledger!ledger
BY DEF Ledger!ledger, Credited

LEMMA SameRequests ==
    ASSUME requests' = requests
    PROVE  Admitted' = Admitted /\ Owed' = Owed
BY DEF Admitted, Owed, At, Prepaid, Account

\* A request that is neither on credit nor billed, before and after.
LEMMA Aside ==
    ASSUME TypeOK, NEW h \in Handlers, NEW r,
           requests' = [requests EXCEPT ![h] = r],
           requests[h].pc \notin {"forward", "charge"}, r.pc \notin {"forward", "charge"}
    PROVE  Admitted' = Admitted /\ Owed' = Owed
<1>1. AdmittedAs(h, requests[h]) = {} /\ OwedAs(h, requests[h]) = {}
  BY DEF AdmittedAs, OwedAs
<1>2. AdmittedAs(h, r) = {} /\ OwedAs(h, r) = {}
  BY DEF AdmittedAs, OwedAs
<1>3. QED
  BY <1>1, <1>2, OneMoves

\* A request that has just begun is not in the ledger yet.
LEMMA Begun ==
    ASSUME TypeOK, NEW h \in Handlers, NEW b, Begin(h, b), UNCHANGED <<db, balance, status>>
    PROVE  UNCHANGED Ledger!ledger
<1> DEFINE r == [pc |-> "limit", caller |-> b, cost |-> 0]
<1>1. requests[h].pc = "idle" /\ requests' = [requests EXCEPT ![h] = r]
  BY DEF Begin, At
<1>2. r.pc = "limit"
  OBVIOUS
<1> HIDE DEF r
<1>3. QED
  BY <1>1, <1>2, Aside, Stutter

LEMMA Allowing == ASSUME TypeOK, NEW h \in Handlers, Allow(h) PROVE UNCHANGED Ledger!ledger
<1> DEFINE b == requests[h].caller
           r == [pc |-> IF Prepaid(h) THEN "balance" ELSE "forward", caller |-> b, cost |-> 0]
<1>1. requests[h].pc = "limit" /\ UNCHANGED <<db, balance, status>>
  BY DEF Allow, At, stripe
<1>2. CASE End(h)
  <2>1. requests' = [requests EXCEPT ![h] = Idle] /\ Idle.pc = "idle"
    BY <1>2 DEF End, Idle
  <2>2. QED
    BY <1>1, <2>1, Aside, Stutter
<1>3. CASE Move(h, IF Prepaid(h) THEN "balance" ELSE "forward", 0)
  <2>1. requests' = [requests EXCEPT ![h] = r]
    BY <1>3 DEF Move
  <2>2. AdmittedAs(h, r) = {} /\ OwedAs(h, r) = {}
    BY DEF AdmittedAs, OwedAs, Prepaid
  <2>3. AdmittedAs(h, requests[h]) = {} /\ OwedAs(h, requests[h]) = {}
    BY <1>1 DEF AdmittedAs, OwedAs
  <2> HIDE DEF r
  <2>4. QED
    BY <1>1, <2>1, <2>2, <2>3, OneMoves, Stutter
<1>4. QED
  BY <1>2, <1>3 DEF Allow

LEMMA Checking ==
    ASSUME TypeOK, NEW h \in Handlers, CheckBalance(h)
    PROVE  [Ledger!Next]_(Ledger!ledger)
<1> DEFINE c == Account(h)
           r == [pc |-> "forward", caller |-> requests[h].caller, cost |-> 0]
<1>1. requests[h].pc = "balance" /\ requests[h].caller \in ApiKeys /\ c \in Customers
      /\ UNCHANGED <<db, balance, status>>
  BY Shapes DEF CheckBalance, At, Prepaid, stripe
<1>2. CASE End(h)
  <2>1. requests' = [requests EXCEPT ![h] = Idle] /\ Idle.pc = "idle"
    BY <1>2 DEF End, Idle
  <2>2. QED
    BY <1>1, <2>1, Aside, Stutter
<1>3. CASE Move(h, "forward", 0) /\ ~(db /\ ~Funded(c))
  <2>1. requests' = [requests EXCEPT ![h] = r]
    BY <1>3 DEF Move
  <2>2. AdmittedAs(h, r) = {<<h, c>>} /\ OwedAs(h, r) = {}
    BY <1>1 DEF AdmittedAs, OwedAs, Account
  <2>3. AdmittedAs(h, requests[h]) = {} /\ OwedAs(h, requests[h]) = {}
    BY <1>1 DEF AdmittedAs, OwedAs
  <2>4. Admitted' = Admitted \cup {<<h, c>>} /\ Owed' = Owed
    <3> HIDE DEF r
    <3>1. QED
      BY <2>1, <2>2, <2>3, OneMoves
  <2>5. ~Ledger!InUse(h)
    BY <1>1, Entries DEF Ledger!InUse, At
  <2>6. Ledger!Admit(h, c)
    BY <1>1, <1>3, <2>4, <2>5 DEF Ledger!Admit, Funded, Credited
  <2>7. QED
    BY <1>1, <2>6 DEF Ledger!Next
<1>4. QED
  BY <1>2, <1>3 DEF CheckBalance

LEMMA Answering ==
    ASSUME TypeOK, NEW h \in Handlers, NEW k \in Costs, Answer(h, k)
    PROVE  Ledger!Next
<1> DEFINE c == Account(h)
           r == [pc |-> "charge", caller |-> requests[h].caller, cost |-> k]
<1>1. requests[h].pc = "forward" /\ requests[h].caller \in ApiKeys /\ c \in Customers
      /\ UNCHANGED <<db, balance, status>> /\ requests' = [requests EXCEPT ![h] = r]
  BY Shapes DEF Answer, At, Prepaid, Move, stripe
<1>2. AdmittedAs(h, r) = {} /\ OwedAs(h, r) = {<<h, c, k>>}
  BY DEF AdmittedAs, OwedAs, Account
<1>3. AdmittedAs(h, requests[h]) = {<<h, c>>} /\ OwedAs(h, requests[h]) = {}
  BY <1>1 DEF AdmittedAs, OwedAs, Account
<1>4. Admitted' = Admitted \ {<<h, c>>} /\ Owed' = Owed \cup {<<h, c, k>>}
  <2> HIDE DEF r
  <2>1. QED
    BY <1>1, <1>2, <1>3, OneMoves
<1>5. <<h, c>> \in Admitted
  BY <1>1, Entries DEF At, Prepaid
<1>6. Ledger!Bill(h, c, k)
  BY <1>1, <1>4, <1>5 DEF Ledger!Bill, Credited
<1>7. QED
  BY <1>1, <1>6 DEF Ledger!Next

LEMMA Leaving ==
    ASSUME TypeOK, NEW h \in Handlers, Unbilled(h)
    PROVE  [Ledger!Next]_(Ledger!ledger)
<1> DEFINE c == Account(h)
<1>1. requests[h].pc = "forward" /\ UNCHANGED <<db, balance, status>>
      /\ requests' = [requests EXCEPT ![h] = Idle] /\ Idle.pc = "idle"
  BY DEF Unbilled, At, End, Idle, stripe
<1>2. AdmittedAs(h, Idle) = {} /\ OwedAs(h, Idle) = {} /\ OwedAs(h, requests[h]) = {}
  BY <1>1 DEF AdmittedAs, OwedAs
<1>3. CASE Prepaid(h)
  <2>1. AdmittedAs(h, requests[h]) = {<<h, c>>}
    BY <1>1, <1>3 DEF AdmittedAs, Prepaid, Account
  <2>2. Admitted' = Admitted \ {<<h, c>>} /\ Owed' = Owed
    <3> HIDE DEF c
    <3>1. /\ Admitted' = (Admitted \ AdmittedAs(h, requests[h])) \cup AdmittedAs(h, Idle)
          /\ Owed' = (Owed \ OwedAs(h, requests[h])) \cup OwedAs(h, Idle)
      BY <1>1, OneMoves
    <3>2. QED
      BY <1>2, <2>1, <3>1
  <2>3. <<h, c>> \in Admitted /\ c \in Customers
    BY <1>1, <1>3, Entries, Shapes DEF At
  <2>4. Ledger!Leave(h, c)
    BY <1>1, <2>2, <2>3 DEF Ledger!Leave, Credited
  <2>5. QED
    BY <2>3, <2>4 DEF Ledger!Next
<1>4. CASE ~Prepaid(h)
  <2>1. AdmittedAs(h, requests[h]) = {}
    BY <1>4 DEF AdmittedAs, Prepaid
  <2>2. QED
    BY <1>1, <1>2, <2>1, OneMoves, Stutter
<1>5. QED
  BY <1>3, <1>4

LEMMA Deducting == ASSUME TypeOK, NEW h \in Handlers, Deduct(h) PROVE Ledger!Next
<1> DEFINE c == Account(h)
           k == requests[h].cost
<1>1. requests[h].pc = "charge" /\ c \in Customers /\ k \in Costs /\ UNCHANGED <<db, status>>
      /\ requests' = [requests EXCEPT ![h] = Idle] /\ Idle.pc = "idle"
  BY Shapes DEF Deduct, At, End, Idle, stripe
<1>2. AdmittedAs(h, Idle) = {} /\ OwedAs(h, Idle) = {} /\ AdmittedAs(h, requests[h]) = {}
      /\ OwedAs(h, requests[h]) = {<<h, c, k>>}
  BY <1>1 DEF AdmittedAs, OwedAs, Account
<1>3. Admitted' = Admitted /\ Owed' = Owed \ {<<h, c, k>>}
  <2> HIDE DEF c, k
  <2>1. /\ Admitted' = (Admitted \ AdmittedAs(h, requests[h])) \cup AdmittedAs(h, Idle)
        /\ Owed' = (Owed \ OwedAs(h, requests[h])) \cup OwedAs(h, Idle)
    BY <1>1, OneMoves
  <2>2. QED
    BY <1>2, <2>1
<1>4. <<h, c, k>> \in Owed
  BY <1>1, Entries DEF At
<1>5. balance[c] \in Nat /\ k \in Nat
  BY <1>1, GatewayAssumption DEF TypeOK
<1>6. CASE db /\ Covers(c, k)
  <2>1. Ledger!Charge(h, c, k)
    BY <1>1, <1>3, <1>4, <1>6 DEF Deduct, Ledger!Charge, Covers, Left, Credited
  <2>2. QED
    BY <1>1, <2>1 DEF Ledger!Next
<1>7. CASE ~(db /\ Covers(c, k))
  <2>1. Ledger!Waive(h, c, k)
    BY <1>1, <1>3, <1>4, <1>5, <1>7 DEF Deduct, Ledger!Waive, Covers, Credited
  <2>2. QED
    BY <1>1, <2>1 DEF Ledger!Next
<1>8. QED
  BY <1>6, <1>7

LEMMA Delivering ==
    ASSUME TypeOK, NEW p \in Purchases, Buy(p)
    PROVE  [Ledger!Next]_(Ledger!ledger)
<1>1. Admitted' = Admitted /\ Owed' = Owed /\ db' = db
  BY SameRequests DEF Buy, Checkout, Complete, Deliver, memory
<1>2. CASE Checkout(p)
  <2>1. Credited' = Credited /\ balance' = balance
    BY <1>2 DEF Checkout, Credited, TypeOK
  <2>2. QED
    BY <1>1, <2>1 DEF Ledger!ledger
<1>3. CASE Complete(p)
  BY <1>1, <1>3, Stutter DEF Complete
<1>4. ASSUME NEW fetched \in BOOLEAN, NEW heard \in BOOLEAN, Deliver(p, fetched, heard)
      PROVE  [Ledger!Next]_(Ledger!ledger)
  <2>1. CASE Fulfils(p, fetched)
    <3>1. db /\ status[p] = "pending" /\ status' = [status EXCEPT ![p] = "paid"]
          /\ balance' = [balance EXCEPT ![BuyerOf[p]] = balance[BuyerOf[p]] + CreditsOf[p]]
      BY <1>4, <2>1 DEF Deliver, Fulfils
    <3>2. p \notin Credited /\ Credited' = Credited \cup {p}
      BY <3>1 DEF Credited, TypeOK
    <3>3. Ledger!Credit(p)
      BY <1>1, <3>1, <3>2 DEF Ledger!Credit
    <3>4. QED
      BY <3>3 DEF Ledger!Next
  <2>2. CASE ~Fulfils(p, fetched)
    BY <1>1, <1>4, <2>2, Stutter DEF Deliver
  <2>3. QED
    BY <2>1, <2>2
<1>5. QED
  BY <1>2, <1>3, <1>4 DEF Buy

LEMMA NextLedger == TypeOK /\ [Next]_vars => [Ledger!Next]_(Ledger!ledger)
<1> SUFFICES ASSUME TypeOK, [Next]_vars PROVE [Ledger!Next]_(Ledger!ledger)
  OBVIOUS
<1>1. CASE UNCHANGED <<requests, db, balance, status>>
  BY <1>1, SameRequests, Stutter
<1>2. ASSUME NEW h \in Handlers, Handle(h) PROVE [Ledger!Next]_(Ledger!ledger)
  <2>1. ASSUME NEW k \in ApiKeys, WithKey(h, k) PROVE UNCHANGED Ledger!ledger
    BY <2>1, Begun DEF WithKey, stripe
  <2>2. ASSUME NEW p \in Proofs, NEW r \in Resources, WithPayment(h, p, r) PROVE UNCHANGED Ledger!ledger
    BY <2>2, Begun DEF WithPayment, stripe
  <2>3. ASSUME NEW ip \in Ips, FreeScan(h, ip) PROVE UNCHANGED Ledger!ledger
    BY <2>3, Begun DEF FreeScan, stripe
  <2>4. QED
    BY <1>2, <2>1, <2>2, <2>3, Allowing, Checking, Answering, Leaving, Deducting DEF Handle
<1>3. CASE DbFlips
  <2>1. Admitted' = Admitted /\ Owed' = Owed
    BY <1>3, SameRequests DEF DbFlips, memory
  <2>2. Ledger!Flip
    BY <1>3, <2>1 DEF DbFlips, Ledger!Flip, stripe, Credited
  <2>3. QED
    BY <2>2 DEF Ledger!Next
<1>4. CASE Restart
  <2>1. Admitted' = {} /\ Owed' = {}
    BY <1>4 DEF Restart, Admitted, Owed, At, Idle
  <2>2. Ledger!Lose
    BY <1>4, <2>1 DEF Restart, Ledger!Lose, stripe, Credited
  <2>3. QED
    BY <2>2 DEF Ledger!Next
<1>5. ASSUME NEW n \in Nonces, Challenge(n) PROVE [Ledger!Next]_(Ledger!ledger)
  BY <1>1, <1>5 DEF Challenge, stripe
<1>6. ASSUME NEW n \in Nonces, NEW p \in Proofs, NEW r \in Resources, PaymentRefused(p, r, n)
      PROVE  [Ledger!Next]_(Ledger!ledger)
  BY <1>1, <1>6 DEF PaymentRefused, stripe
<1>7. ASSUME NEW k \in ApiKeys, Revoke(k) PROVE [Ledger!Next]_(Ledger!ledger)
  BY <1>1, <1>7 DEF Revoke, memory, stripe
<1>8. CASE Cleanup \/ Tick \/ UNCHANGED vars
  BY <1>1, <1>8 DEF Cleanup, Tick, vars, memory, stripe
<1>9. QED
  BY <1>2, <1>3, <1>4, <1>5, <1>6, <1>7, <1>8, Delivering DEF Next

\* For any customers, requests and purchases the gateway keeps the account's
\* promise (CheckBalance, bill, DeductBalance, fulfillPurchase).
THEOREM KeepsTheLedger == Spec => LedgerKept
<1>1. Init => Ledger!Init
  BY DEF Init, Ledger!Init, Admitted, Owed, Credited, At, Idle
<1>2. QED
  BY <1>1, NextLedger, GatewayTypeCorrect, PTL DEF Spec, LedgerKept, Ledger!Spec

----------------------------------------------------------------------------
(* The rate limit                                                          *)

\* Of the times q, in their order and none ahead of the clock, the last count
\* are those of the window, which began with the first of them; what is a quota
\* or more before that is more than a window old by then.
OpenWindow(q, w, limit) ==
    /\ w.count \in 1..limit /\ w.count <= Len(q)
    /\ q[Len(q) - w.count + 1] = w.reset - Window
    /\ \A i \in DOMAIN q :
         i <= Len(q) - w.count - limit + 1 => q[i] < w.reset - Window - Window

\* Without a window, what is a quota or more before the next request is already
\* more than a window old.
NoneOpen(q, limit) == \A i \in DOMAIN q : i <= Len(q) - limit + 1 => q[i] < clock - Window

\* Two quotas are never within a window.
Spread(q, limit) ==
    \A i, j \in DOMAIN q : j - i >= 2 * limit - 1 => q[j] - q[i] > Window

InOrder(q) ==
    /\ \A i \in DOMAIN q : q[i] <= clock
    /\ \A i, j \in DOMAIN q : i <= j => q[i] <= q[j]

BucketInv(q, w, limit) ==
    /\ InOrder(q)
    /\ IF w.reset = Never THEN NoneOpen(q, limit) ELSE OpenWindow(q, w, limit)
    /\ Spread(q, limit)

RateInv == \A b \in Buckets : BucketInv(admissions[b], windows[b], Limit(b))

\* When a window is over none of it is left that would count.
LEMMA ClosedLeaves ==
    ASSUME clock \in Nat, NEW q \in Seq(0..MaxTime), NEW w \in [count : Nat, reset : Int],
           NEW limit \in Nat \ {0}, BucketInv(q, w, limit), Closed(w)
    PROVE  NoneOpen(q, limit)
<1> USE GatewayAssumption
<1>1. CASE w.reset = Never
  BY <1>1 DEF BucketInv
<1>2. CASE w.reset # Never
  <2> DEFINE n == Len(q)
             c == w.count
             first == n - c + 1
  <2>1. n \in Nat /\ c \in 1..limit /\ c <= n /\ DOMAIN q = 1..n /\ w.reset \in Int
    BY <1>2 DEF BucketInv, OpenWindow
  <2>2. q[first] = w.reset - Window /\ w.reset < clock
    BY <1>2 DEF BucketInv, OpenWindow, Closed
  <2>3. first \in 1..n
    BY <2>1
  <2>4. \A i \in 1..n : i <= first => q[i] <= q[first]
    BY <2>1, <2>3 DEF BucketInv, InOrder
  <2>5. ASSUME NEW i \in 1..n, i <= n - limit + 1 PROVE q[i] < clock - Window
    <3>1. i <= first
      BY <2>1, <2>5
    <3>2. q[i] <= q[first]
      BY <2>4, <3>1
    <3>3. q[i] \in Nat
      BY <2>1
    <3> DEFINE a == q[i]
               f == q[first]
               s == w.reset
    <3>4. a <= f /\ a \in Nat /\ f = s - Window /\ s < clock /\ s \in Int
      BY <2>1, <2>2, <3>2, <3>3
    <3> HIDE DEF a, f, s
    <3>5. a < clock - Window
      BY <3>4
    <3>6. QED
      BY <3>5 DEF a
  <2>6. QED
    BY <2>1, <2>5 DEF NoneOpen
<1>3. QED
  BY <1>1, <1>2

\* One admission more, with all but the last two quotas less one out of its window.
LEMMA Admitting ==
    ASSUME clock \in 0..MaxTime, NEW q \in Seq(0..MaxTime), NEW limit \in Nat \ {0},
           InOrder(q), Spread(q, limit),
           \A i \in DOMAIN q : i <= Len(q) + 2 - 2 * limit => q[i] < clock - Window
    PROVE  LET r == Append(q, clock)
           IN  /\ r \in Seq(0..MaxTime) /\ Len(q) \in Nat /\ Len(r) = Len(q) + 1
               /\ DOMAIN q = 1..Len(q) /\ DOMAIN r = 1..(Len(q) + 1)
               /\ \A i \in 1..Len(q) : r[i] = q[i] /\ q[i] \in 0..MaxTime
               /\ r[Len(q) + 1] = clock
               /\ InOrder(r) /\ Spread(r, limit)
<1> USE GatewayAssumption
<1> DEFINE r == Append(q, clock)
           n == Len(q)
<1>1. /\ r \in Seq(0..MaxTime) /\ n \in Nat /\ Len(r) = n + 1
      /\ DOMAIN q = 1..n /\ DOMAIN r = 1..(n + 1)
      /\ \A i \in 1..n : r[i] = q[i] /\ q[i] \in 0..MaxTime
      /\ r[n + 1] = clock
  OBVIOUS
<1>2. \A i \in 1..(n + 1) : i \in 1..n \/ i = n + 1
  BY <1>1
<1> HIDE DEF r, n
<1>3. InOrder(r)
  <2>1. \A i \in 1..n : q[i] <= clock
    BY <1>1 DEF InOrder
  <2>2. \A i \in 1..(n + 1) : r[i] <= clock
    BY <1>1, <1>2, <2>1
  <2>3. ASSUME NEW i \in 1..(n + 1), NEW j \in 1..(n + 1), i <= j PROVE r[i] <= r[j]
    <3>1. CASE j = n + 1
      BY <1>1, <2>2, <3>1
    <3>2. CASE j # n + 1
      <4>1. i \in 1..n /\ j \in 1..n
        BY <1>1, <2>3, <3>2
      <4>2. QED
        BY <1>1, <2>3, <4>1 DEF InOrder
    <3>3. QED
      BY <3>1, <3>2
  <2>4. QED
    BY <1>1, <2>2, <2>3 DEF InOrder
<1>4. Spread(r, limit)
  <2> SUFFICES ASSUME NEW i \in 1..(n + 1), NEW j \in 1..(n + 1), j - i >= 2 * limit - 1
               PROVE  r[j] - r[i] > Window
    BY <1>1 DEF Spread
  <2>1. i \in 1..n
    BY <1>1
  <2>2. CASE j = n + 1
    <3>1. i <= n + 2 - 2 * limit
      BY <1>1, <2>1, <2>2
    <3>2. q[i] < clock - Window
      BY <1>1, <2>1, <3>1 DEF n
    <3>3. QED
      BY <1>1, <2>1, <2>2, <3>2
  <2>3. CASE j # n + 1
    <3>1. j \in 1..n
      BY <1>1, <2>3
    <3>2. QED
      BY <1>1, <2>1, <3>1 DEF Spread
  <2>4. QED
    BY <2>2, <2>3
<1>5. QED
  BY <1>1, <1>3, <1>4 DEF r, n

LEMMA CountsOne ==
    ASSUME clock \in 0..MaxTime, NEW q \in Seq(0..MaxTime),
           NEW w \in [count : Nat, reset : Int], NEW limit \in Nat \ {0},
           BucketInv(q, w, limit), ~Closed(w), w.count < limit
    PROVE  BucketInv(Append(q, clock), [w EXCEPT !.count = @ + 1], limit)
<1> USE GatewayAssumption
<1> DEFINE n == Len(q)
           c == w.count
           s == w.reset - Window
           r == Append(q, clock)
           v == [w EXCEPT !.count = @ + 1]
<1>1. w.reset # Never /\ OpenWindow(q, w, limit)
  BY DEF BucketInv, Closed
<1>2. /\ n \in Nat /\ DOMAIN q = 1..n /\ w.reset \in Int /\ s \in Int
      /\ v.count = c + 1 /\ v.reset = w.reset
      /\ \A i \in 1..n : q[i] \in Nat
  <2>1. n \in Nat /\ DOMAIN q = 1..n /\ \A i \in 1..n : q[i] \in Nat
    OBVIOUS
  <2>2. w.reset \in Int /\ s \in Int
    OBVIOUS
  <2>3. v.count = c + 1 /\ v.reset = w.reset
    OBVIOUS
  <2>4. QED
    BY <2>1, <2>2, <2>3
<1>3. /\ q[n - c + 1] = s
      /\ \A i \in 1..n : i <= n - c - limit + 1 => q[i] < s - Window
  BY <1>1, <1>2 DEF OpenWindow
<1>4. n \in Nat /\ c \in Nat /\ limit \in Nat /\ 1 <= c /\ c < limit /\ c <= n
  BY <1>1, <1>2 DEF OpenWindow
<1> HIDE DEF n, c
<1>5. n - c + 1 \in 1..n
  BY <1>4
<1>6. s <= clock
  BY <1>2, <1>3, <1>5 DEF BucketInv, InOrder, n
<1>7. \A i \in DOMAIN q : i <= n + 2 - 2 * limit => q[i] < clock - Window
  <2> SUFFICES ASSUME NEW i \in 1..n, i <= n + 2 - 2 * limit PROVE q[i] < clock - Window
    BY <1>2
  <2>1. i <= n - c - limit + 1
    BY <1>4
  <2>2. q[i] < s - Window /\ q[i] \in Nat /\ s \in Int
    BY <1>2, <1>3, <2>1
  <2> HIDE DEF s
  <2>3. QED
    BY <1>6, <2>2
<1>8. /\ Len(r) = n + 1 /\ DOMAIN r = 1..(n + 1) /\ \A i \in 1..n : r[i] = q[i]
      /\ InOrder(r) /\ Spread(r, limit)
  BY <1>7, Admitting DEF BucketInv, n
<1> HIDE DEF r, v
<1>9. OpenWindow(r, v, limit)
  <2>1. v.count \in 1..limit /\ v.count <= Len(r)
    BY <1>2, <1>8, <1>4
  <2>2. r[Len(r) - v.count + 1] = v.reset - Window
    <3>1. Len(r) - v.count + 1 = n - c + 1
      BY <1>2, <1>8, <1>4
    <3>2. QED
      BY <1>2, <1>3, <1>5, <1>8, <3>1
  <2>3. ASSUME NEW i \in 1..(n + 1), i <= Len(r) - v.count - limit + 1
        PROVE  r[i] < v.reset - Window - Window
    <3>1. i \in 1..n /\ i <= n - c - limit + 1
      <4>1. i <= (n + 1) - (c + 1) - limit + 1
        BY <1>2, <1>8, <2>3
      <4>2. QED
        BY <1>4, <4>1
    <3>2. QED
      BY <1>2, <1>3, <1>8, <3>1
  <2>4. QED
    BY <1>8, <2>1, <2>2, <2>3 DEF OpenWindow
<1>10. QED
  BY <1>1, <1>2, <1>8, <1>9 DEF BucketInv, r, v

LEMMA OpensOne ==
    ASSUME clock \in 0..MaxTime, NEW q \in Seq(0..MaxTime),
           NEW w \in [count : Nat, reset : Int], NEW limit \in Nat \ {0},
           BucketInv(q, w, limit), Closed(w)
    PROVE  BucketInv(Append(q, clock), Opened, limit)
<1> USE GatewayAssumption
<1> DEFINE n == Len(q)
           r == Append(q, clock)
<1>1. n \in Nat /\ DOMAIN q = 1..n /\ clock \in Nat /\ clock <= MaxTime
  OBVIOUS
<1>2. \A i \in 1..n : i <= n - limit + 1 => q[i] < clock - Window
  BY <1>1, ClosedLeaves DEF NoneOpen
<1>3. \A i \in DOMAIN q : i <= n + 2 - 2 * limit => q[i] < clock - Window
  BY <1>1, <1>2
<1>4. /\ Len(r) = n + 1 /\ DOMAIN r = 1..(n + 1) /\ \A i \in 1..n : r[i] = q[i]
      /\ r[n + 1] = clock /\ InOrder(r) /\ Spread(r, limit)
  BY <1>3, Admitting DEF BucketInv
<1>5. Opened.count = 1 /\ Opened.reset = clock + Window /\ Opened.reset # Never
  BY <1>1 DEF Opened, Never
<1> HIDE DEF r
<1>6. OpenWindow(r, Opened, limit)
  <2>1. Opened.count \in 1..limit /\ Opened.count <= Len(r)
    BY <1>1, <1>4, <1>5
  <2>2. r[Len(r) - Opened.count + 1] = Opened.reset - Window
    <3>1. Len(r) - Opened.count + 1 = n + 1 /\ Opened.reset - Window = clock
      BY <1>1, <1>4, <1>5
    <3>2. QED
      BY <1>4, <3>1
  <2>3. ASSUME NEW i \in 1..(n + 1), i <= Len(r) - Opened.count - limit + 1
        PROVE  r[i] < Opened.reset - Window - Window
    <3>1. i \in 1..n /\ i <= n - limit + 1
      BY <1>1, <1>4, <1>5, <2>3
    <3>2. Opened.reset - Window - Window = clock - Window
      BY <1>1, <1>5
    <3>3. QED
      BY <1>2, <1>4, <3>1, <3>2
  <2>4. QED
    BY <1>4, <2>1, <2>2, <2>3 DEF OpenWindow
<1>7. QED
  BY <1>4, <1>5, <1>6 DEF BucketInv, r

LEMMA RateTypes ==
    ASSUME TypeOK, NEW b \in Buckets
    PROVE  /\ admissions[b] \in Seq(0..MaxTime)
           /\ windows[b] \in [count : Nat, reset : Int]
           /\ Limit(b) \in Nat \ {0}
           /\ clock \in 0..MaxTime /\ clock \in Nat /\ Window \in Nat
BY GatewayAssumption DEF TypeOK, Limit

LEMMA AllowKeepsRate == ASSUME TypeOK, RateInv, NEW h \in Handlers, Allow(h) PROVE RateInv'
<1> DEFINE a == requests[h].caller
<1>1. a \in Buckets /\ clock' = clock
  BY Shapes DEF Allow
<1> SUFFICES ASSUME NEW b \in Buckets
             PROVE  BucketInv(admissions'[b], windows'[b], Limit(b))
  BY <1>1 DEF RateInv, BucketInv, InOrder, NoneOpen, OpenWindow, Spread, Limit
<1>2. BucketInv(admissions[b], windows[b], Limit(b))
  BY DEF RateInv
<1>3. CASE ~(Allowed(a) /\ b = a)
  <2>1. admissions'[b] = admissions[b] /\ windows'[b] = windows[b]
    BY <1>1, <1>3 DEF Allow, TypeOK
  <2>2. QED
    BY <1>2, <2>1
<1>4. CASE Allowed(a) /\ b = a
  <2>1. /\ admissions'[b] = Append(admissions[b], clock)
        /\ windows'[b] = Counted(windows[b])
    BY <1>1, <1>4 DEF Allow, TypeOK
  <2>2. CASE Closed(windows[b])
    <3>1. windows'[b] = Opened
      BY <2>1, <2>2 DEF Counted
    <3>2. QED
      BY <1>2, <2>1, <2>2, <3>1, RateTypes, OpensOne
  <2>3. CASE ~Closed(windows[b])
    <3>1. windows'[b] = [windows[b] EXCEPT !.count = @ + 1] /\ windows[b].count < Limit(b)
      BY <1>4, <2>1, <2>3 DEF Counted, Allowed
    <3>2. QED
      BY <1>2, <2>1, <2>3, <3>1, RateTypes, CountsOne
  <2>4. QED
    BY <2>2, <2>3
<1>5. QED
  BY <1>3, <1>4

LEMMA NextRate == TypeOK /\ RateInv /\ [Next]_vars => RateInv'
<1> SUFFICES ASSUME TypeOK, RateInv, [Next]_vars PROVE RateInv'
  OBVIOUS
<1>1. CASE UNCHANGED <<clock, admissions, windows>>
  BY <1>1 DEF RateInv, BucketInv, InOrder, NoneOpen, OpenWindow, Spread, Limit
<1>2. ASSUME NEW h \in Handlers, Handle(h) PROVE RateInv'
  <2>1. ASSUME NEW k \in ApiKeys, WithKey(h, k) PROVE RateInv'
    BY <1>1, <2>1 DEF WithKey
  <2>2. ASSUME NEW p \in Proofs, NEW r \in Resources, WithPayment(h, p, r) PROVE RateInv'
    BY <1>1, <2>2 DEF WithPayment
  <2>3. ASSUME NEW ip \in Ips, FreeScan(h, ip) PROVE RateInv'
    BY <1>1, <2>3 DEF FreeScan
  <2>4. CASE Allow(h)
    BY <2>4, AllowKeepsRate
  <2>5. CASE CheckBalance(h)
    BY <1>1, <2>5 DEF CheckBalance
  <2>6. ASSUME NEW k \in Costs, Answer(h, k) PROVE RateInv'
    BY <1>1, <2>6 DEF Answer
  <2>7. CASE Unbilled(h) \/ Deduct(h)
    BY <1>1, <2>7 DEF Unbilled, Deduct
  <2>8. QED
    BY <1>2, <2>1, <2>2, <2>3, <2>4, <2>5, <2>6, <2>7 DEF Handle
<1>3. ASSUME NEW n \in Nonces, Challenge(n) \/ \E p \in Proofs, r \in Resources : PaymentRefused(p, r, n)
      PROVE  RateInv'
  BY <1>1, <1>3 DEF Challenge, PaymentRefused
<1>4. ASSUME NEW p \in Purchases, Buy(p) PROVE RateInv'
  BY <1>1, <1>4 DEF Buy, Checkout, Complete, Deliver, memory
<1>5. ASSUME NEW k \in ApiKeys, Revoke(k) PROVE RateInv'
  BY <1>1, <1>5 DEF Revoke, memory
<1>6. CASE DbFlips \/ UNCHANGED vars
  BY <1>1, <1>6 DEF DbFlips, vars, memory
<1>7. CASE Cleanup
  <2>1. clock' = clock /\ admissions' = admissions
    BY <1>7 DEF Cleanup
  <2> SUFFICES ASSUME NEW b \in Buckets
               PROVE  BucketInv(admissions[b], windows'[b], Limit(b))
    BY <2>1 DEF RateInv, BucketInv, InOrder, NoneOpen, OpenWindow, Spread, Limit
  <2>2. BucketInv(admissions[b], windows[b], Limit(b))
    BY DEF RateInv
  <2>3. CASE Closed(windows[b])
    <3>1. windows'[b].reset = Never
      BY <1>7, <2>3 DEF Cleanup, NoWindow
    <3>2. NoneOpen(admissions[b], Limit(b))
      BY <2>2, <2>3, RateTypes, ClosedLeaves
    <3>3. QED
      BY <2>2, <3>1, <3>2 DEF BucketInv
  <2>4. CASE ~Closed(windows[b])
    <3>1. windows'[b] = windows[b]
      BY <1>7, <2>4 DEF Cleanup
    <3>2. QED
      BY <2>2, <3>1
  <2>5. QED
    BY <2>3, <2>4
<1>8. CASE Tick
  <2>1. clock' = clock + 1 /\ admissions' = admissions /\ windows' = windows
    BY <1>8 DEF Tick, memory
  <2> SUFFICES ASSUME NEW b \in Buckets PROVE BucketInv(admissions[b], windows[b], Limit(b))'
    BY DEF RateInv
  <2>2. BucketInv(admissions[b], windows[b], Limit(b))
    BY DEF RateInv
  <2>3. Limit(b)' = Limit(b) /\ \A i \in DOMAIN admissions[b] : admissions[b][i] \in Nat
    <3> DEFINE q == admissions[b]
    <3>1. q \in Seq(0..MaxTime)
      BY RateTypes
    <3> HIDE DEF q
    <3>2. DOMAIN q = 1..Len(q) /\ \A i \in 1..Len(q) : q[i] \in 0..MaxTime
      BY <3>1, GatewayAssumption
    <3>3. \A i \in DOMAIN q : q[i] \in Nat
      BY <3>2, GatewayAssumption
    <3>4. Limit(b)' = Limit(b)
      BY DEF Limit
    <3>5. QED
      BY <3>3, <3>4 DEF q
  <2>4. clock \in Nat /\ Window \in Nat
    BY RateTypes
  <2>5. InOrder(admissions[b])'
    BY <2>1, <2>2, <2>3, <2>4 DEF BucketInv, InOrder
  <2>6. NoneOpen(admissions[b], Limit(b)) => NoneOpen(admissions[b], Limit(b))'
    BY <2>1, <2>3, <2>4 DEF NoneOpen
  <2>7. /\ OpenWindow(admissions[b], windows[b], Limit(b))
             => OpenWindow(admissions[b], windows[b], Limit(b))'
        /\ Spread(admissions[b], Limit(b)) => Spread(admissions[b], Limit(b))'
    BY <2>1, <2>3 DEF OpenWindow, Spread
  <2>8. QED
    BY <2>1, <2>2, <2>5, <2>6, <2>7 DEF BucketInv
<1>9. CASE Restart
  <2>1. \A b \in Buckets : admissions'[b] = <<>> /\ windows'[b].reset = Never
    BY <1>9 DEF Restart, NoWindow
  <2>2. QED
    BY <2>1 DEF RateInv, BucketInv, InOrder, NoneOpen, Spread
<1>10. QED
  BY <1>2, <1>3, <1>4, <1>5, <1>6, <1>7, <1>8, <1>9 DEF Next

\* Between restarts fewer than two quotas of a bucket are let through within any
\* window, however its requests are spread (ratelimit.Allow, Cleanup).
THEOREM StaysWithinQuota == Spec => []WithinQuota
<1>1. Init => RateInv
  BY DEF Init, NoWindow, RateInv, BucketInv, InOrder, NoneOpen, Spread
<1>2. RateInv => WithinQuota
  BY DEF RateInv, BucketInv, Spread, WithinQuota
<1>3. QED
  BY <1>1, <1>2, InitTypes, NextTypes, NextRate, PTL DEF Spec
=============================================================================
