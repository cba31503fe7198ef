------------------------- MODULE CredentialRelease -------------------------
(***************************************************************************)
(* What the key broker promises about its challenges, without threads,     *)
(* clocks, sweeps or cryptography (sentinel/kbs.py, KeyBroker.release).    *)
(* A nonce is minted once and dies once.  A claimant is admitted only over *)
(* a live nonce, and is granted a credential at most once for it; a grant  *)
(* kills the nonce.  A claimant admitted before the nonce died may still   *)
(* be granted: the promise is one grant per claimant and no admission over *)
(* a dead nonce, which is one grant in all when there is one claimant.     *)
(***************************************************************************)
EXTENDS FiniteSets

CONSTANTS Claimants, Nonces

VARIABLES
    ledger,     \* of each nonce: "new", "live" or "dead"
    admitted,   \* of each claimant: the nonce it is admitted over, if any
    grants      \* <<claimant, nonce>> pairs

vars == <<ledger, admitted, grants>>

Init ==
    /\ ledger = [n \in Nonces |-> "new"]
    /\ admitted = [c \in Claimants |-> {}]
    /\ grants = {}

Mint(n) ==
    /\ ledger[n] = "new"
    /\ ledger' = [ledger EXCEPT ![n] = "live"]
    /\ UNCHANGED <<admitted, grants>>

Lapse(n) ==
    /\ ledger[n] = "live"
    /\ ledger' = [ledger EXCEPT ![n] = "dead"]
    /\ UNCHANGED <<admitted, grants>>

Admit(c, n) ==
    /\ ledger[n] = "live"
    /\ admitted[c] = {}
    /\ <<c, n>> \notin grants
    /\ admitted' = [admitted EXCEPT ![c] = {n}]
    /\ UNCHANGED <<ledger, grants>>

Refuse(c) ==
    /\ admitted[c] # {}
    /\ admitted' = [admitted EXCEPT ![c] = {}]
    /\ UNCHANGED <<ledger, grants>>

Grant(c, n) ==
    /\ admitted[c] = {n}
    /\ <<c, n>> \notin grants
    /\ grants' = grants \cup {<<c, n>>}
    /\ ledger' = [ledger EXCEPT ![n] = "dead"]
    /\ admitted' = [admitted EXCEPT ![c] = {}]

Next ==
    \/ \E n \in Nonces : Mint(n) \/ Lapse(n)
    \/ \E c \in Claimants : Refuse(c) \/ \E n \in Nonces : Admit(c, n) \/ Grant(c, n)

Spec == Init /\ [][Next]_vars
=============================================================================
