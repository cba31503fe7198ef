--------------------------- MODULE PrepaidLedger ---------------------------
(***************************************************************************)
(* What a prepaid account may count on, whatever the gateway's goroutines, *)
(* Stripe's webhooks and restarts do: a request is admitted on credit that *)
(* is there, every answer is settled at most once and only with money that *)
(* is there, and every purchase is credited once.  Prices are in halves of *)
(* the account's unit and half a unit is not charged.  Gateway implements  *)
(* it.                                                                     *)
(***************************************************************************)
EXTENDS Integers

CONSTANTS Customers, Requests, Costs, Purchases, BuyerOf, CreditsOf, Grant

VARIABLES
    db,         \* whether the accounts can be read and written
    balance,
    admitted,   \* <<request, customer>>: let through, not answered yet
    owed,       \* <<request, customer, cost>>: answered, not settled yet
    credited    \* purchases in the balance

ledger == <<db, balance, admitted, owed, credited>>

Init ==
    /\ db \in BOOLEAN
    /\ balance = [c \in Customers |-> Grant]
    /\ admitted = {} /\ owed = {} /\ credited = {}

InUse(q) == \E c \in Customers : <<q, c>> \in admitted \/ \E k \in Costs : <<q, c, k>> \in owed

Admit(q, c) ==
    /\ ~InUse(q)
    /\ db => balance[c] > 0
    /\ admitted' = admitted \cup {<<q, c>>}
    /\ UNCHANGED <<db, balance, owed, credited>>

Leave(q, c) ==
    /\ <<q, c>> \in admitted
    /\ admitted' = admitted \ {<<q, c>>}
    /\ UNCHANGED <<db, balance, owed, credited>>

Bill(q, c, k) ==
    /\ <<q, c>> \in admitted
    /\ admitted' = admitted \ {<<q, c>>}
    /\ owed' = owed \cup {<<q, c, k>>}
    /\ UNCHANGED <<db, balance, credited>>

Charge(q, c, k) ==
    /\ <<q, c, k>> \in owed
    /\ 2 * balance[c] >= k
    /\ balance' = [balance EXCEPT ![c] = @ - k \div 2]
    /\ owed' = owed \ {<<q, c, k>>}
    /\ UNCHANGED <<db, admitted, credited>>

\* An answer is given away only when it cannot be paid for.
Waive(q, c, k) ==
    /\ <<q, c, k>> \in owed
    /\ ~db \/ 2 * balance[c] < k
    /\ owed' = owed \ {<<q, c, k>>}
    /\ UNCHANGED <<db, balance, admitted, credited>>

Credit(p) ==
    /\ db
    /\ p \notin credited
    /\ credited' = credited \cup {p}
    /\ balance' = [balance EXCEPT ![BuyerOf[p]] = @ + CreditsOf[p]]
    /\ UNCHANGED <<db, admitted, owed>>

\* A restart forgets the requests, and the bills that are still to be settled.
Lose ==
    /\ admitted' = {} /\ owed' = {}
    /\ UNCHANGED <<db, balance, credited>>

Flip == db' = ~db /\ UNCHANGED <<balance, admitted, owed, credited>>

Next ==
    \/ \E q \in Requests, c \in Customers :
        \/ Admit(q, c) \/ Leave(q, c)
        \/ \E k \in Costs : Bill(q, c, k) \/ Charge(q, c, k) \/ Waive(q, c, k)
    \/ \E p \in Purchases : Credit(p)
    \/ Lose \/ Flip

Spec == Init /\ [][Next]_ledger
=============================================================================
