----------------------------- MODULE KeyBroker -----------------------------
(***************************************************************************)
(* The customer's key broker, sentinel/kbs.py, as scripts/run_broker.py    *)
(* serves it: serving/server.py gives every connection a thread of its     *)
(* own, the threads share one KeyBroker, and the KeyBroker has no lock.    *)
(* An action is what a thread does between two looks at the shared         *)
(* dictionary _issued_nonces.                                              *)
(***************************************************************************)
EXTENDS Attestation, FiniteSets

CONSTANTS
    Threads,          \* the server's handler threads
    Nonces,           \* values new_nonce can return; 32 random bytes never repeat
    ForeignNonces,    \* nonces a caller makes up
    Resources,        \* resource names a caller may ask for
    Secrets,          \* the resources a secret was stored for (store_secret)
    ReleaseBinding,   \* kbs.release_binding, a collision-free hash of the resource
    TrustedChips,     \* trust_chip: chip id -> registered key, partial
    Verifier,         \* how real reports are checked: "none", "host", "factory"
    HostChain,        \* the chain a "host" verifier holds: [ask, ark]
    HostCerts,        \* KeyBroker.sevsnp_certs
    AmdKeys,          \* the keys AMD vouches for: its root, its ASKs, its chips
    ApprovedMeasurements, MinTcb, TcbFloors,   \* ReleasePolicy, SevSnpPolicy
    Ttl,              \* ReleasePolicy.nonce_ttl_seconds, in clock ticks
    Requests,         \* what callers present, but for the nonce in the report
    MaxTime           \* bound: the clock stops there

CertNames == {"VCEK", "VLEK", "ASK", "ARK"}
NoCert == [key |-> NoKey, issuer |-> NoKey]
Garbled == [key |-> NoKey, issuer |-> NoKey, der |-> FALSE]   \* no DER certificate at all
Certificates == [CertNames -> Certificate \cup {NoCert, Garbled}]
NoCertificates == [n \in CertNames |-> NoCert]     \* an empty dictionary

ASSUME ClockAssumption == Ttl \in Nat /\ MaxTime \in Nat

ASSUME CallersAssumption ==
    /\ Nonces \cap ForeignNonces = {}
    /\ Nonces # {}
    /\ Requests # {}

ASSUME BindingAssumption ==
    /\ Secrets \subseteq Resources
    /\ ReleaseBinding \in [Resources -> Bindings]
    /\ \A r, s \in Resources : ReleaseBinding[r] = ReleaseBinding[s] => r = s

\* AMD signs certificates of AMD's keys only, whoever hands them over.
ASSUME AmdAssumption ==
    /\ PinnedRoot \in AmdKeys
    /\ NoKey \notin AmdKeys
    /\ \A q \in Requests, n \in CertNames :
         q.certificates[n].issuer \in AmdKeys => q.certificates[n].key \in AmdKeys
    /\ \A n \in CertNames : HostCerts[n].issuer \in AmdKeys => HostCerts[n].key \in AmdKeys
    /\ HostChain.ask.issuer \in AmdKeys => HostChain.ask.key \in AmdKeys

VARIABLES
    now,        \* time.monotonic()
    issued,     \* keys of _issued_nonces
    expiry,     \* its values, and what they were for nonces no longer in it
    minted,     \* every nonce new_nonce has returned (history)
    pc,         \* where each thread is
    call,       \* what it is serving, and since when
    sweep,      \* expired entries it has still to delete
    answer,     \* what the last call of the thread came to
    released,   \* every credential handed out (history)
    alone       \* no other call was under way at any time in this one (history)

vars == <<now, issued, expiry, minted, pc, call, sweep, answer, released, alone>>

AnyNonce == Nonces \cup ForeignNonces
Steps == {"idle", "sweep", "issue", "check", "verify", "spend"}
Answers == {"none", "nonce", "released", "refused", "crashed"}

\* The locals of a handler thread: for /release, the request, the nonce in its
\* report, and the clock when the call began (history).
Calls == [op : {"challenge", "release"}, request : Requests, nonce : AnyNonce, arrived : Nat]

\* Between calls, and for what /challenge does not use.
NoCall == [op |-> "challenge", request |-> CHOOSE q \in Requests : TRUE,
           nonce |-> CHOOSE n \in AnyNonce : TRUE, arrived |-> 0]

----------------------------------------------------------------------------
(* The verdict on a request                                                *)

\* The report a caller presents, over the nonce n.
ReportOf(q, n) == [chip_id |-> q.chip_id, launch_measurement |-> q.launch_measurement,
                   tcb_level |-> q.tcb_level, nonce |-> n,
                   report_data |-> q.report_data, signature |-> q.signature]

\* _verify_registered_key
RegisteredKeyAccepts(report, resource) ==
    /\ report.chip_id \in DOMAIN TrustedChips
    /\ MockVerify(report, TrustedChips[report.chip_id], ApprovedMeasurements,
                  report.nonce, MinTcb, ReleaseBinding[resource])

\* The certificates that came with the report, or the broker's own.
CertsFor(q) == IF q.hasCerts THEN q.certificates ELSE HostCerts

Leaf(certs) == IF certs["VCEK"] # NoCert THEN certs["VCEK"] ELSE certs["VLEK"]

\* The [ask, ark] the verifier will check against, or NoCert entries when
\* there is no verifier: none configured, or kbs_remote.verifier_factory
\* refused to build one without both.
ChainFor(certs) ==
    CASE Verifier = "host" -> HostChain
      [] Verifier = "factory" -> [ask |-> certs["ASK"], ark |-> certs["ARK"]]
      [] OTHER -> [ask |-> NoCert, ark |-> NoCert]

\* _verify_sevsnp
SevSnpAccepts(report, resource, certs) ==
    LET chain == ChainFor(certs)
    IN  /\ chain.ask # NoCert /\ chain.ark # NoCert
        /\ Leaf(certs) # NoCert
        /\ SevSnpVerify(report.signature, Leaf(certs), chain.ark, chain.ask,
                        ApprovedMeasurements, TcbFloors)
        /\ report.report_data = ReleaseBinding[resource]

\* A signature that is no text at all, but some other JSON value.
Untyped == [form |-> "untyped"]

\* release() turns nothing but VerificationError into a refusal.  What else can be
\* raised: by looks_like_sevsnp a TypeError, by load_der_x509_certificate(leaf) a
\* ValueError, before the report is looked at, and by verify_vcek an
\* UnsupportedAlgorithm once the report has been parsed.
Raises(q) ==
    LET certs == CertsFor(q)
        chain == ChainFor(certs)
    IN  \/ q.signature = Untyped
        \/ /\ looks_like_sevsnp(q.signature)
           /\ {chain.ask, chain.ark} \cap {NoCert, Garbled} = {}
           /\ Leaf(certs) # NoCert
           /\ \/ Leaf(certs) = Garbled
              \/ q.signature.parses /\ VcekRaises(Leaf(certs), chain.ark, chain.ask)

Accepts(q, n) ==
    LET report == ReportOf(q, n)
    IN  IF looks_like_sevsnp(report.signature)
        THEN SevSnpAccepts(report, q.resource, CertsFor(q))
        ELSE RegisteredKeyAccepts(report, q.resource)

----------------------------------------------------------------------------
Init ==
    /\ now = 0
    /\ issued = {}
    /\ expiry = [n \in Nonces |-> 0]
    /\ minted = {}
    /\ pc = [t \in Threads |-> "idle"]
    /\ call = [t \in Threads |-> NoCall]
    /\ sweep = [t \in Threads |-> {}]
    /\ answer = [t \in Threads |-> "none"]
    /\ released = {}
    /\ alone = [t \in Threads |-> FALSE]

Tick == /\ now < MaxTime
        /\ now' = now + 1
        /\ UNCHANGED <<issued, expiry, minted, pc, call, sweep, answer, released, alone>>

\* The call is over and the thread is free for another connection.
Finish(t, a) ==
    /\ pc' = [pc EXCEPT ![t] = "idle"]
    /\ call' = [call EXCEPT ![t] = NoCall]
    /\ answer' = [answer EXCEPT ![t] = a]
    /\ alone' = [alone EXCEPT ![t] = FALSE]

\* Mutants of Stale: nothing expires; a copy that never drops an entry.
StaleNever == {}
StaleEver == {n \in minted : now > expiry[n]}

\* The entries _expire_nonces is going to delete.
Stale == {n \in issued : now > expiry[n]}

\* Its first line: read the clock and copy the entries.
BeginSweep(t) ==
    /\ pc' = [pc EXCEPT ![t] = "sweep"]
    /\ sweep' = [sweep EXCEPT ![t] = Stale]
    /\ answer' = [answer EXCEPT ![t] = "none"]
    /\ alone' = [u \in Threads |-> u = t /\ \A v \in Threads \ {t} : pc[v] = "idle"]

\* Bound: a challenge is only asked for while the model has a nonce left.
NonceLeft == Cardinality(minted) + Cardinality({u \in Threads : pc[u] # "idle" /\ call[u].op = "challenge"})
                < Cardinality(Nonces)

\* POST /challenge
CallChallenge(t) ==
    /\ pc[t] = "idle"
    /\ NonceLeft
    /\ BeginSweep(t)
    /\ call' = [call EXCEPT ![t] = [NoCall EXCEPT !.arrived = now]]
    /\ UNCHANGED <<now, issued, expiry, minted, released>>

\* POST /release for a resource that has a secret
CallRelease(t, q, n) ==
    /\ pc[t] = "idle"
    /\ q.resource \in Secrets
    /\ BeginSweep(t)
    /\ call' = [call EXCEPT ![t] = [op |-> "release", request |-> q, nonce |-> n, arrived |-> now]]
    /\ UNCHANGED <<now, issued, expiry, minted, released>>

\* ... and for one that has none: refused before anything else is looked at.
CallReleaseUnknown(t, q) ==
    /\ pc[t] = "idle"
    /\ q.resource \notin Secrets
    /\ Finish(t, "refused")
    /\ UNCHANGED <<now, issued, expiry, minted, sweep, released>>

\* Mutant of SweepOne: on a missing entry, look at it again.
SweepOneSpins(t, n) ==
    /\ pc[t] = "sweep"
    /\ n \in sweep[t] \cap issued
    /\ issued' = issued \ {n}
    /\ sweep' = [sweep EXCEPT ![t] = @ \ {n}]
    /\ UNCHANGED <<now, expiry, minted, pc, call, answer, released, alone>>

\* One `del self._issued_nonces[nonce]` of the loop over the copied entries.
\* The entry may be gone by now, and then `del` raises KeyError, which
\* BrokerHandler does not catch: the connection is closed without an answer.
SweepOne(t, n) ==
    /\ pc[t] = "sweep"
    /\ n \in sweep[t]
    /\ IF n \in issued
       THEN /\ issued' = issued \ {n}
            /\ sweep' = [sweep EXCEPT ![t] = @ \ {n}]
            /\ UNCHANGED <<pc, call, answer, alone>>
       ELSE /\ sweep' = [sweep EXCEPT ![t] = {}]
            /\ Finish(t, "crashed")
            /\ UNCHANGED issued
    /\ UNCHANGED <<now, expiry, minted, released>>

SweepDone(t) ==
    /\ pc[t] = "sweep"
    /\ sweep[t] = {}
    /\ pc' = [pc EXCEPT ![t] = IF call[t].op = "challenge" THEN "issue" ELSE "check"]
    /\ UNCHANGED <<now, issued, expiry, minted, call, sweep, answer, released, alone>>

\* Mutants: the generator repeats itself; the deadline lies in the past.
AnyNonceAgain == Nonces
DeadlineBackwards == now - Ttl

\* What new_nonce can return, and when it will expire.
FreshNonces == Nonces \ minted
Deadline == now + Ttl

\* The rest of challenge().
Issue(t) ==
    /\ pc[t] = "issue"
    /\ \E n \in FreshNonces :
         /\ minted' = minted \cup {n}
         /\ issued' = issued \cup {n}
         /\ expiry' = [expiry EXCEPT ![n] = Deadline]
    /\ Finish(t, "nonce")
    /\ UNCHANGED <<now, sweep, released>>

\* `if report.nonce not in self._issued_nonces`
CheckNonce(t) ==
    /\ pc[t] = "check"
    /\ IF call[t].nonce \in issued
       THEN pc' = [pc EXCEPT ![t] = "verify"] /\ UNCHANGED <<call, answer, alone>>
       ELSE Finish(t, "refused")
    /\ UNCHANGED <<now, issued, expiry, minted, sweep, released>>

\* Mutant of VerifyReport: a refusal spends the nonce too.
VerifyReportBurns(t) ==
    /\ pc[t] = "verify"
    /\ IF Accepts(call[t].request, call[t].nonce)
       THEN pc' = [pc EXCEPT ![t] = "spend"] /\ UNCHANGED <<issued, call, answer, alone>>
       ELSE Finish(t, "refused") /\ issued' = issued \ {call[t].nonce}
    /\ UNCHANGED <<now, expiry, minted, sweep, released>>

\* The signature, chain, policy and binding checks.
VerifyReport(t) ==
    /\ pc[t] = "verify"
    /\ IF Accepts(call[t].request, call[t].nonce)
       THEN pc' = [pc EXCEPT ![t] = "spend"] /\ UNCHANGED <<call, answer, alone>>
       ELSE Finish(t, IF Raises(call[t].request) THEN "crashed" ELSE "refused")
    /\ UNCHANGED <<now, issued, expiry, minted, sweep, released>>

Release(t) == [thread |-> t, nonce |-> call[t].nonce, request |-> call[t].request]

\* Mutant of Unspent: the nonce is not popped.
StillIssued(n) == issued

\* `self._issued_nonces.pop(report.nonce, None)`
Unspent(n) == issued \ {n}

\* ... and the return of the secret.
Spend(t) ==
    /\ pc[t] = "spend"
    /\ issued' = Unspent(call[t].nonce)
    /\ released' = released \cup {Release(t)}
    /\ Finish(t, "released")
    /\ UNCHANGED <<now, expiry, minted, sweep>>

\* A caller can only quote nonces that exist: ones this broker issued, or
\* ones made up.
Step(t) ==
    \/ CallChallenge(t)
    \/ \E q \in Requests, n \in minted \cup ForeignNonces : CallRelease(t, q, n)
    \/ \E q \in Requests : CallReleaseUnknown(t, q)
    \/ \E n \in Nonces : SweepOne(t, n)
    \/ SweepDone(t)
    \/ Issue(t)
    \/ CheckNonce(t)
    \/ VerifyReport(t)
    \/ Spend(t)

Next == Tick \/ \E t \in Threads : Step(t)

Spec == Init /\ [][Next]_vars

\* A call that has begun runs on: the operating system schedules the thread.
\* Nothing makes a caller call.
Serve(t) == \/ \E n \in Nonces : SweepOne(t, n)
            \/ SweepDone(t) \/ Issue(t) \/ CheckNonce(t) \/ VerifyReport(t) \/ Spend(t)

FairSpec == Spec /\ \A t \in Threads : WF_vars(Serve(t))

----------------------------------------------------------------------------
(* Properties                                                              *)

Releases == [thread : Threads, nonce : AnyNonce, request : Requests]

\* Every variable has its type; the type invariant of the broker.
TypeOK ==
    /\ now \in Nat
    /\ issued \subseteq Nonces
    /\ expiry \in [Nonces -> Nat]
    /\ minted \subseteq Nonces
    /\ pc \in [Threads -> Steps]
    /\ call \in [Threads -> Calls]
    /\ sweep \in [Threads -> SUBSET Nonces]
    /\ answer \in [Threads -> Answers]
    /\ released \subseteq Releases
    /\ alone \in [Threads -> BOOLEAN]

\* What a credential may be released against, said without the checks: a
\* challenge of this broker, bound to the very resource that was released, over
\* approved code, signed by hardware AMD vouches for (real reports) or by the
\* key registered for that chip (mock ones).
Deserved(r) ==
    LET q == r.request
        s == q.signature
    IN  /\ r.nonce \in minted
        /\ q.resource \in Secrets
        /\ q.report_data = ReleaseBinding[q.resource]
        /\ \/ /\ s.form = "sevsnp"
              /\ s.key \in AmdKeys
              /\ s.covers /\ ~s.debug
              /\ s.measurement \in ApprovedMeasurements
           \/ /\ s.form = "mock"
              /\ q.chip_id \in DOMAIN TrustedChips
              /\ s.key = TrustedChips[q.chip_id]
              /\ q.launch_measurement \in ApprovedMeasurements

\* No certificate chain, certificate slot, replayed nonce or report meant for
\* another resource gets a secret out of release() that it does not deserve.
ReleasedOnlyToApprovedCode == \A r \in released : Deserved(r)

\* release(): a credential is only handed out over a nonce that had not
\* expired when the request arrived, whatever the other threads sweep, issue
\* or spend between its own sweep and its own check.
ReleasedWhileLive ==
    \A t \in Threads : pc[t] = "spend" => expiry[call[t].nonce] >= call[t].arrived

\* Once a nonce has unlocked something no request is admitted over it again:
\* what "spend the nonce" is worth when the check and the pop are two steps.
NeverReadmitted ==
    [][\A t \in Threads : pc[t] = "check" /\ pc'[t] = "verify"
          => \A r \in released : r.nonce # call[t].nonce]_vars

\* Nobody can burn a challenge that was given to somebody else: an entry of
\* _issued_nonces goes because it expired or because it unlocked a secret,
\* and not because a bad report quoted it.
OnlyExpiryOrReleaseSpends ==
    [][\A n \in issued \ issued' :
          now > expiry[n] \/ \E t \in Threads : pc[t] = "spend" /\ call[t].nonce = n]_vars

\* kbs.py:171, "Spend the nonce so this proof cannot unlock anything twice".
\* Two threads can both be past the check.
SingleUse ==
    [][\A t \in Threads : pc[t] = "spend" /\ pc'[t] = "idle"
          => \A r \in released : r.nonce # call[t].nonce]_vars

\* What is left of it with any number of threads: it takes two calls that were
\* under way at the same time for a nonce to unlock something again.
DoubleNeedsOverlap ==
    [][\A t \in Threads : pc[t] = "spend" /\ pc'[t] = "idle" /\ alone[t]
          => \A r \in released : r.nonce # call[t].nonce]_vars

\* kbs_remote.py:212, BrokerHandler: /release "either returns the credential or
\* refuses".  A call goes unanswered for one of two reasons only, however many
\* threads there are: another call was under way at some time during it (their
\* sweeps can both be deleting one entry), or what it brought makes the verifier
\* raise what nobody catches.  No state of the nonce table does it.
LoneCallsAnswered ==
    [][\A t \in Threads : answer[t] # "crashed" /\ answer'[t] = "crashed"
          => \/ ~alone[t]
             \/ call[t].op = "release" /\ Raises(call[t].request)]_vars

\* A call that a thread has begun comes to an end, so the thread is not lost.
CallsEnd == \A t \in Threads : pc[t] # "idle" ~> pc[t] = "idle"

----------------------------------------------------------------------------
(* What the broker promises, CredentialRelease, under this reading of its  *)
(* state.                                                                  *)

Ledger == [n \in Nonces |-> IF n \in issued THEN "live"
                           ELSE IF n \in minted THEN "dead" ELSE "new"]
Admitted == [t \in Threads |-> IF pc[t] \in {"verify", "spend"} THEN {call[t].nonce} ELSE {}]
Grants == {<<r.thread, r.nonce>> : r \in released}

Promise == INSTANCE CredentialRelease WITH
    Claimants <- Threads, ledger <- Ledger, admitted <- Admitted, grants <- Grants

KeepsPromise == Promise!Spec
=============================================================================
