--------------------------- MODULE KeyBrokerProofs --------------------------
(***************************************************************************)
(* Proofs about KeyBroker for any number of threads, nonces and requests.  *)
(* NonceLeft and MaxTime, the bounds of the runs, are only guards: nothing *)
(* below depends on them.                                                  *)
(***************************************************************************)
EXTENDS KeyBroker, TLAPS

LEMMA NoCallType == NoCall \in Calls
<1>1. (CHOOSE q \in Requests : TRUE) \in Requests
  BY CallersAssumption
<1>2. (CHOOSE n \in AnyNonce : TRUE) \in AnyNonce
  BY CallersAssumption DEF AnyNonce
<1>3. QED
  BY <1>1, <1>2 DEF NoCall, Calls

LEMMA TypeInit == Init => TypeOK
  BY NoCallType DEF Init, TypeOK, Steps, Answers

LEMMA TypeStep == TypeOK /\ [Next]_vars => TypeOK'
<1> SUFFICES ASSUME TypeOK, [Next]_vars PROVE TypeOK'
  OBVIOUS
<1> USE DEF TypeOK, Steps, Answers
<1>1. CASE Tick
  BY <1>1, ClockAssumption DEF Tick
<1>2. ASSUME NEW t \in Threads, CallChallenge(t) PROVE TypeOK'
  <2>1. [NoCall EXCEPT !.arrived = now] \in Calls
    BY NoCallType DEF Calls
  <2>2. QED
    BY <1>2, <2>1 DEF CallChallenge, BeginSweep, Stale
<1>3. ASSUME NEW t \in Threads, NEW q \in Requests, NEW n \in minted \cup ForeignNonces,
             CallRelease(t, q, n)
      PROVE TypeOK'
  <2>1. [op |-> "release", request |-> q, nonce |-> n, arrived |-> now] \in Calls
    BY DEF Calls, AnyNonce
  <2>2. QED
    BY <1>3, <2>1 DEF CallRelease, BeginSweep, Stale
<1>4. ASSUME NEW t \in Threads, NEW q \in Requests, CallReleaseUnknown(t, q) PROVE TypeOK'
  BY <1>4, NoCallType DEF CallReleaseUnknown, Finish
<1>5. ASSUME NEW t \in Threads, NEW n \in Nonces, SweepOne(t, n) PROVE TypeOK'
  BY <1>5, NoCallType DEF SweepOne, Finish
<1>6. ASSUME NEW t \in Threads, SweepDone(t) PROVE TypeOK'
  BY <1>6 DEF SweepDone
<1>7. ASSUME NEW t \in Threads, Issue(t) PROVE TypeOK'
  BY <1>7, NoCallType, ClockAssumption DEF Issue, FreshNonces, Deadline, Finish
<1>8. ASSUME NEW t \in Threads, CheckNonce(t) PROVE TypeOK'
  BY <1>8, NoCallType DEF CheckNonce, Finish
<1>9. ASSUME NEW t \in Threads, VerifyReport(t) PROVE TypeOK'
  BY <1>9, NoCallType DEF VerifyReport, Finish
<1>10. ASSUME NEW t \in Threads, Spend(t) PROVE TypeOK'
  <2>1. Release(t) \in Releases
    BY DEF Release, Releases, Calls
  <2>2. QED
    BY <1>10, <2>1, NoCallType DEF Spend, Unspent, Finish
<1>11. CASE UNCHANGED vars
  BY <1>11 DEF vars
<1>12. QED
  BY <1>1, <1>2, <1>3, <1>4, <1>5, <1>6, <1>7, <1>8, <1>9, <1>10, <1>11 DEF Next, Step

\* Every variable keeps its type through every step of every handler thread.
THEOREM TypeCorrect == Spec => []TypeOK
  BY TypeInit, TypeStep, PTL DEF Spec

----------------------------------------------------------------------------
(* The inductive invariant.                                                *)

\* A nonce is in the dictionary only if it was minted, and one that unlocked
\* something is not there; as it cannot be minted again it never comes back.
LedgerInv ==
    /\ issued \subseteq minted
    /\ \A r \in released : r.nonce \in minted \ issued

\* Where a thread is says what it is serving.
CallInv ==
    \A t \in Threads :
        /\ pc[t] \in {"check", "verify", "spend"} => call[t].op = "release"
        /\ pc[t] # "idle" /\ call[t].op = "release" => call[t].request.resource \in Secrets
        /\ pc[t] = "spend" => Accepts(call[t].request, call[t].nonce)

\* A thread past the check holds a nonce that was minted and that this very
\* thread has not yet spent.
AdmittedInv ==
    \A t \in Threads : pc[t] \in {"verify", "spend"} =>
        /\ call[t].nonce \in minted
        /\ \A r \in released : r.thread = t => r.nonce # call[t].nonce

\* What a sweep has left behind was live when the call began.
TimeInv ==
    \A t \in Threads :
        /\ call[t].arrived <= now
        /\ pc[t] \in {"sweep", "check"} =>
              \A n \in issued \ sweep[t] : expiry[n] >= call[t].arrived
        /\ pc[t] = "check" => sweep[t] = {}
        /\ pc[t] \in {"verify", "spend"} => expiry[call[t].nonce] >= call[t].arrived
        /\ \A n \in sweep[t] : n \in minted /\ now > expiry[n]

IInv == TypeOK /\ LedgerInv /\ CallInv /\ AdmittedInv /\ TimeInv

\* The chain of trust: a certificate that reaches the pinned root certifies a
\* key AMD vouches for, whoever supplied the certificates.
LEMMA AmdVouches ==
    ASSUME NEW q \in Requests, NEW certs,
           certs = q.certificates \/ certs = HostCerts,
           VcekEndorsed(Leaf(certs), ChainFor(certs).ark, ChainFor(certs).ask)
    PROVE  Leaf(certs).key \in AmdKeys
<1>1. \A n \in CertNames : certs[n].issuer \in AmdKeys => certs[n].key \in AmdKeys
  BY AmdAssumption
<1> DEFINE ark == ChainFor(certs).ark
           ask == ChainFor(certs).ask
<1>2. ask.issuer = PinnedRoot /\ Leaf(certs).issuer = ask.key
  BY DEF VcekEndorsed, ChainAnchored
<1>3. ask = HostChain.ask \/ ask = certs["ASK"] \/ ask = NoCert
  BY DEF ChainFor
<1>4. NoCert.issuer = NoKey
  BY DEF NoCert
<1>5. ask.key \in AmdKeys
  BY <1>1, <1>2, <1>3, <1>4, AmdAssumption, KeysAssumption DEF CertNames
<1>6. Leaf(certs) = certs["VCEK"] \/ Leaf(certs) = certs["VLEK"]
  BY DEF Leaf
<1>7. QED
  BY <1>1, <1>2, <1>5, <1>6 DEF CertNames

\* Every check of release(), put together, is what Deserved asks for.
LEMMA AcceptedDeserves ==
    ASSUME NEW t \in Threads, call[t].request \in Requests,
           call[t].nonce \in minted, call[t].request.resource \in Secrets,
           Accepts(call[t].request, call[t].nonce)
    PROVE  Deserved(Release(t))
<1> DEFINE q == call[t].request
           n == call[t].nonce
           report == ReportOf(q, n)
<1>1. Release(t).nonce = n /\ Release(t).request = q
  BY DEF Release
<1>2. report.signature = q.signature /\ report.report_data = q.report_data
      /\ report.chip_id = q.chip_id /\ report.launch_measurement = q.launch_measurement
  BY DEF ReportOf
<1>3. CASE looks_like_sevsnp(report.signature)
  <2> DEFINE certs == CertsFor(q)
  <2>1. SevSnpAccepts(report, q.resource, certs)
    BY <1>3 DEF Accepts
  <2>2. VcekEndorsed(Leaf(certs), ChainFor(certs).ark, ChainFor(certs).ask)
        /\ report.signature.key = Leaf(certs).key
        /\ PolicyAccepts(report.signature, ApprovedMeasurements, TcbFloors)
        /\ report.signature.covers
        /\ report.report_data = ReleaseBinding[q.resource]
    BY <2>1 DEF SevSnpAccepts, SevSnpVerify
  <2>3. certs = q.certificates \/ certs = HostCerts
    BY DEF CertsFor
  <2>4. Leaf(certs).key \in AmdKeys
    BY <2>2, <2>3, AmdVouches
  <2>5. report.signature.form = "sevsnp"
    BY <1>3 DEF looks_like_sevsnp
  <2> HIDE DEF certs, report
  <2>6. QED
    BY <1>1, <1>2, <2>2, <2>4, <2>5 DEF Deserved, PolicyAccepts
<1>4. CASE ~looks_like_sevsnp(report.signature)
  <2>1. RegisteredKeyAccepts(report, q.resource)
    BY <1>4 DEF Accepts
  <2> HIDE DEF report
  <2>2. QED
    BY <1>1, <1>2, <2>1 DEF Deserved, RegisteredKeyAccepts, MockVerify, MockValid
<1>5. QED
  BY <1>3, <1>4

LEMMA IInvInit == Init => IInv
<1> SUFFICES ASSUME Init PROVE IInv
  OBVIOUS
<1>1. TypeOK
  BY TypeInit
<1>2. QED
  BY <1>1 DEF Init, IInv, LedgerInv, CallInv, AdmittedInv, TimeInv, NoCall

LEMMA IInvStep == IInv /\ [Next]_vars => IInv'
<1> SUFFICES ASSUME IInv, [Next]_vars PROVE IInv'
  OBVIOUS
<1>0. TypeOK /\ TypeOK'
  BY TypeStep DEF IInv
<1>n. NoCall \in Calls /\ NoCall.op = "challenge" /\ NoCall.arrived = 0
  BY NoCallType DEF NoCall
<1> USE <1>0, <1>n DEF IInv
<1>1. CASE Tick
  BY <1>1 DEF Tick, TypeOK, LedgerInv, CallInv, AdmittedInv, TimeInv, Calls
<1>2. ASSUME NEW t \in Threads, CallChallenge(t) PROVE IInv'
  <2>1. LedgerInv' /\ AdmittedInv'
    BY <1>2 DEF CallChallenge, BeginSweep, Stale, LedgerInv, AdmittedInv, TypeOK
  <2> DEFINE c == [NoCall EXCEPT !.arrived = now]
  <2>2. c.op = "challenge" /\ c.arrived = now
    BY DEF Calls
  <2>3. CallInv' /\ TimeInv'
    BY <1>2, <2>2 DEF CallChallenge, BeginSweep, Stale, CallInv, TimeInv, LedgerInv, TypeOK, Calls
  <2>4. QED
    BY <2>1, <2>3
<1>3. ASSUME NEW t \in Threads, NEW q \in Requests, NEW n \in minted \cup ForeignNonces,
             CallRelease(t, q, n)
      PROVE IInv'
  BY <1>3 DEF CallRelease, BeginSweep, Stale, LedgerInv, CallInv, AdmittedInv, TimeInv, TypeOK, Calls
<1>4. ASSUME NEW t \in Threads, NEW q \in Requests, CallReleaseUnknown(t, q) PROVE IInv'
  BY <1>4 DEF CallReleaseUnknown, Finish, LedgerInv, CallInv, AdmittedInv, TimeInv, TypeOK, Calls
<1>5. ASSUME NEW t \in Threads, NEW n \in Nonces, SweepOne(t, n) PROVE IInv'
  <2>1. LedgerInv'
    BY <1>5 DEF SweepOne, LedgerInv
  <2>2. CallInv' /\ AdmittedInv'
    BY <1>5 DEF SweepOne, Finish, CallInv, AdmittedInv, TypeOK
  <2>3. CASE n \in issued
    <3>1. issued' \ sweep'[t] = issued \ sweep[t]
      BY <1>5, <2>3 DEF SweepOne, TypeOK
    <3>2. TimeInv'
      BY <1>5, <2>3, <3>1 DEF SweepOne, TimeInv, TypeOK
    <3>3. QED
      BY <2>1, <2>2, <3>2
  <2>4. CASE n \notin issued
    <3>1. TimeInv'
      BY <1>5, <2>4 DEF SweepOne, Finish, TimeInv, TypeOK
    <3>2. QED
      BY <2>1, <2>2, <3>1
  <2>5. QED
    BY <2>3, <2>4
<1>6. ASSUME NEW t \in Threads, SweepDone(t) PROVE IInv'
  BY <1>6 DEF SweepDone, LedgerInv, CallInv, AdmittedInv, TimeInv, TypeOK, Calls
<1>7. ASSUME NEW t \in Threads, Issue(t) PROVE IInv'
  <2>1. PICK n \in FreshNonces : /\ minted' = minted \cup {n}
                                    /\ issued' = issued \cup {n}
                                    /\ expiry' = [expiry EXCEPT ![n] = Deadline]
    BY <1>7 DEF Issue
  <2>2. LedgerInv' /\ CallInv' /\ AdmittedInv'
    BY <1>7, <2>1 DEF Issue, FreshNonces, Finish, LedgerInv, CallInv, AdmittedInv, TypeOK, Calls
  <2>3. Deadline >= now /\ Deadline \in Nat
    BY ClockAssumption DEF TypeOK, Deadline
  <2>4. \A u \in Threads : pc[u] \in {"verify", "spend"} => call[u].nonce # n
    BY <2>1 DEF AdmittedInv, FreshNonces
  <2>5. TimeInv'
    BY <1>7, <2>1, <2>3, <2>4 DEF Issue, FreshNonces, Finish, LedgerInv, AdmittedInv, TimeInv, TypeOK, Calls
  <2>6. QED
    BY <2>2, <2>5
<1>8. ASSUME NEW t \in Threads, CheckNonce(t) PROVE IInv'
  <2>1. LedgerInv' /\ CallInv'
    BY <1>8 DEF CheckNonce, Finish, LedgerInv, CallInv, TypeOK
  <2>2. AdmittedInv'
    BY <1>8 DEF CheckNonce, Finish, LedgerInv, AdmittedInv, TypeOK
  <2>3. CASE call[t].nonce \in issued
    <3>1. expiry[call[t].nonce] >= call[t].arrived
      BY <1>8, <2>3 DEF CheckNonce, TimeInv
    <3>2. TimeInv'
      BY <1>8, <2>3, <3>1 DEF CheckNonce, TimeInv, TypeOK
    <3>3. QED
      BY <2>1, <2>2, <3>2
  <2>4. CASE call[t].nonce \notin issued
    <3>1. TimeInv'
      BY <1>8, <2>4 DEF CheckNonce, Finish, TimeInv, TypeOK
    <3>2. QED
      BY <2>1, <2>2, <3>1
  <2>5. QED
    BY <2>3, <2>4
<1>9. ASSUME NEW t \in Threads, VerifyReport(t) PROVE IInv'
  <2>1. LedgerInv' /\ AdmittedInv'
    BY <1>9 DEF VerifyReport, Finish, LedgerInv, AdmittedInv, TypeOK
  <2>2. CallInv'
    BY <1>9 DEF VerifyReport, Finish, CallInv, TypeOK
  <2>3. TimeInv'
    BY <1>9 DEF VerifyReport, Finish, TimeInv, TypeOK
  <2>4. QED
    BY <2>1, <2>2, <2>3
<1>10. ASSUME NEW t \in Threads, Spend(t) PROVE IInv'
  <2>1. Release(t).thread = t /\ Release(t).nonce = call[t].nonce
    BY DEF Release
  <2>2. LedgerInv' /\ AdmittedInv'
    BY <1>10, <2>1 DEF Spend, Unspent, Finish, LedgerInv, AdmittedInv, TypeOK
  <2>3. CallInv'
    BY <1>10 DEF Spend, Finish, CallInv, TypeOK
  <2>4. TimeInv'
    BY <1>10 DEF Spend, Unspent, Finish, TimeInv, TypeOK
  <2>5. QED
    BY <2>2, <2>3, <2>4
<1>11. CASE UNCHANGED vars
  BY <1>11 DEF vars, LedgerInv, CallInv, AdmittedInv, TimeInv, TypeOK
<1>12. QED
  BY <1>1, <1>2, <1>3, <1>4, <1>5, <1>6, <1>7, <1>8, <1>9, <1>10, <1>11 DEF Next, Step

LEMMA Inductive == Spec => []IInv
  BY IInvInit, IInvStep, PTL DEF Spec

----------------------------------------------------------------------------
(* The theorems.                                                           *)

\* No credential ever leaves the broker but for a proof that deserves it.
THEOREM OnlyToApprovedCode == Spec => []ReleasedOnlyToApprovedCode
<1>1. Init => ReleasedOnlyToApprovedCode
  BY DEF Init, ReleasedOnlyToApprovedCode
<1>2. IInv /\ ReleasedOnlyToApprovedCode /\ [Next]_vars => ReleasedOnlyToApprovedCode'
  <2> SUFFICES ASSUME IInv, ReleasedOnlyToApprovedCode, [Next]_vars
               PROVE  ReleasedOnlyToApprovedCode'
    OBVIOUS
  <2>1. minted \subseteq minted'
    BY DEF Next, Step, vars, Tick, CallChallenge, CallRelease, CallReleaseUnknown, SweepOne,
           SweepDone, Issue, CheckNonce, VerifyReport, Spend
  <2>2. \A r \in released : Deserved(r)'
    BY <2>1 DEF ReleasedOnlyToApprovedCode, Deserved
  <2>3. ASSUME NEW t \in Threads, Spend(t) PROVE ReleasedOnlyToApprovedCode'
    <3>1. Deserved(Release(t))
      <4>1. call[t].request \in Requests
        BY DEF IInv, TypeOK, Calls
      <4>2. /\ call[t].nonce \in minted
            /\ call[t].request.resource \in Secrets
            /\ Accepts(call[t].request, call[t].nonce)
        BY <2>3 DEF Spend, IInv, CallInv, AdmittedInv
      <4>3. QED
        BY <4>1, <4>2, AcceptedDeserves
    <3>2. \A r \in released' : r \in released \/ r = Release(t)
      BY <2>3 DEF Spend
    <3>3. minted' = minted
      BY <2>3 DEF Spend
    <3>4. QED
      BY <2>2, <3>1, <3>2, <3>3 DEF ReleasedOnlyToApprovedCode, Deserved
  <2>4. CASE released' = released
    BY <2>2, <2>4 DEF ReleasedOnlyToApprovedCode
  <2>5. QED
    BY <2>3, <2>4 DEF Next, Step, vars, Tick, CallChallenge, CallRelease, CallReleaseUnknown,
           SweepOne, SweepDone, Issue, CheckNonce, VerifyReport
<1>3. QED
  BY <1>1, <1>2, Inductive, PTL DEF Spec

\* release() hands nothing out over a nonce that had expired at the call.
THEOREM WhileLive == Spec => []ReleasedWhileLive
<1>1. IInv => ReleasedWhileLive
  BY DEF IInv, TimeInv, ReleasedWhileLive
<1>2. QED
  BY <1>1, Inductive, PTL

\* A step that takes a thread past the nonce check, or past the pop, is one of
\* that thread's own.
LEMMA OwnStep ==
    ASSUME TypeOK, [Next]_vars, NEW t \in Threads, pc'[t] # pc[t]
    PROVE  /\ pc[t] = "check" => CheckNonce(t)
           /\ pc[t] = "spend" => Spend(t)
<1>1. PICK u \in Threads : Step(u)
  BY DEF Next, vars, Tick
<1>2. u = t
  BY <1>1 DEF Step, CallChallenge, BeginSweep, Stale, CallRelease, CallReleaseUnknown, SweepOne, Finish,
              SweepDone, Issue, CheckNonce, VerifyReport, Spend, TypeOK
<1>3. QED
  BY <1>1, <1>2 DEF Step, CallChallenge, CallRelease, CallReleaseUnknown, SweepOne, SweepDone,
                    Issue, CheckNonce, VerifyReport, Spend

\* A nonce that unlocked something admits nobody any more.
THEOREM SpentForGood == Spec => NeverReadmitted
<1>1. IInv /\ [Next]_vars =>
        [\A t \in Threads : pc[t] = "check" /\ pc'[t] = "verify"
           => \A r \in released : r.nonce # call[t].nonce]_vars
  <2> SUFFICES ASSUME IInv, [Next]_vars, NEW t \in Threads, pc[t] = "check", pc'[t] = "verify",
                      NEW r \in released
               PROVE  r.nonce # call[t].nonce
    OBVIOUS
  <2>1. CheckNonce(t)
    BY OwnStep DEF IInv
  <2>2. call[t].nonce \in issued
    BY <2>1 DEF CheckNonce, Finish, IInv, TypeOK
  <2>3. QED
    BY <2>2 DEF IInv, LedgerInv
<1>2. QED
  BY <1>1, Inductive, PTL DEF Spec, NeverReadmitted

\* While a call is the only one, nobody else deletes anything: what its sweep has
\* copied is still in the dictionary, and so is the nonce it was admitted over.
AloneInv ==
    \A t \in Threads : alone[t] =>
        /\ \A u \in Threads \ {t} : pc[u] = "idle"
        /\ pc[t] = "sweep" => sweep[t] \subseteq issued
        /\ pc[t] \in {"verify", "spend"} => call[t].nonce \in issued

LEMMA AloneStep == TypeOK /\ AloneInv /\ [Next]_vars => AloneInv'
<1> SUFFICES ASSUME TypeOK, AloneInv, [Next]_vars PROVE AloneInv'
  OBVIOUS
<1> USE DEF TypeOK, AloneInv
<1>1. CASE Tick \/ UNCHANGED vars
  BY <1>1 DEF Tick, vars
<1>2. ASSUME NEW t \in Threads, CallChallenge(t) PROVE AloneInv'
  BY <1>2 DEF CallChallenge, BeginSweep, Stale
<1>3. ASSUME NEW t \in Threads, NEW q \in Requests, NEW n \in minted \cup ForeignNonces,
             CallRelease(t, q, n)
      PROVE  AloneInv'
  BY <1>3 DEF CallRelease, BeginSweep, Stale
<1>4. ASSUME NEW t \in Threads, NEW q \in Requests, CallReleaseUnknown(t, q) PROVE AloneInv'
  BY <1>4 DEF CallReleaseUnknown, Finish
<1>5. ASSUME NEW t \in Threads, NEW n \in Nonces, SweepOne(t, n) PROVE AloneInv'
  <2>1. CASE n \in issued
    BY <1>5, <2>1 DEF SweepOne
  <2>2. CASE n \notin issued
    BY <1>5, <2>2 DEF SweepOne, Finish
  <2>3. QED
    BY <2>1, <2>2
<1>6. ASSUME NEW t \in Threads, SweepDone(t) PROVE AloneInv'
  BY <1>6 DEF SweepDone
<1>7. ASSUME NEW t \in Threads, Issue(t) PROVE AloneInv'
  BY <1>7 DEF Issue, Finish
<1>8. ASSUME NEW t \in Threads, CheckNonce(t) PROVE AloneInv'
  BY <1>8 DEF CheckNonce, Finish
<1>9. ASSUME NEW t \in Threads, VerifyReport(t) PROVE AloneInv'
  BY <1>9 DEF VerifyReport, Finish
<1>10. ASSUME NEW t \in Threads, Spend(t) PROVE AloneInv'
  BY <1>10 DEF Spend, Unspent, Finish
<1>11. QED
  BY <1>1, <1>2, <1>3, <1>4, <1>5, <1>6, <1>7, <1>8, <1>9, <1>10 DEF Next, Step

LEMMA AloneHolds == Spec => []AloneInv
<1>1. Init => AloneInv
  BY DEF Init, AloneInv
<1>2. QED
  BY <1>1, AloneStep, TypeCorrect, PTL DEF Spec

\* What the comment at kbs.py:171 comes to under the threading server: whoever
\* wants to unlock something twice with one proof needs two calls in the broker
\* at once.  (kbs_double shows that two are enough.)
THEOREM DoubleTakesTwo == Spec => DoubleNeedsOverlap
<1>1. IInv /\ AloneInv /\ [Next]_vars =>
        [\A t \in Threads : pc[t] = "spend" /\ pc'[t] = "idle" /\ alone[t]
           => \A r \in released : r.nonce # call[t].nonce]_vars
  BY DEF IInv, LedgerInv, AloneInv
<1>2. QED
  BY <1>1, Inductive, AloneHolds, PTL DEF Spec, DoubleNeedsOverlap

\* The KeyError of _expire_nonces takes two calls at once; everything else that
\* leaves a caller without an answer came with his own request.
THEOREM AnsweredWhenAlone == Spec => LoneCallsAnswered
<1>1. IInv /\ AloneInv /\ [Next]_vars =>
        [\A t \in Threads : answer[t] # "crashed" /\ answer'[t] = "crashed"
           => \/ ~alone[t]
              \/ call[t].op = "release" /\ Raises(call[t].request)]_vars
  <2> SUFFICES ASSUME IInv, AloneInv, [Next]_vars, NEW t \in Threads,
                      answer[t] # "crashed", answer'[t] = "crashed", alone[t]
               PROVE  call[t].op = "release" /\ Raises(call[t].request)
    OBVIOUS
  <2>0. TypeOK
    BY DEF IInv
  <2>1. CASE \E n \in Nonces : SweepOne(t, n)
    BY <2>1 DEF SweepOne, AloneInv
  <2>2. CASE VerifyReport(t)
    BY <2>2 DEF VerifyReport, Finish, IInv, TypeOK, CallInv
  <2>3. QED
    <3>1. PICK u \in Threads : Step(u)
      BY DEF Next, vars, Tick
    <3>2. u = t
      BY <2>0, <3>1 DEF Step, CallChallenge, BeginSweep, CallRelease, CallReleaseUnknown, SweepOne, Finish,
                  SweepDone, Issue, CheckNonce, VerifyReport, Spend, TypeOK
    <3>3. QED
      BY <2>0, <2>1, <2>2, <3>1, <3>2 DEF Step, CallChallenge, BeginSweep, CallRelease, CallReleaseUnknown,
                  Finish, SweepDone, Issue, CheckNonce, Spend, TypeOK
<1>2. QED
  BY <1>1, Inductive, AloneHolds, PTL DEF Spec, LoneCallsAnswered

\* An entry leaves _issued_nonces by expiry or by unlocking something.
THEOREM NobodyBurnsAChallenge == Spec => OnlyExpiryOrReleaseSpends
<1>1. IInv /\ [Next]_vars =>
        [\A n \in issued \ issued' :
           now > expiry[n] \/ \E t \in Threads : pc[t] = "spend" /\ call[t].nonce = n]_vars
  <2> SUFFICES ASSUME IInv, [Next]_vars, NEW n \in issued, n \notin issued'
               PROVE  now > expiry[n] \/ \E t \in Threads : pc[t] = "spend" /\ call[t].nonce = n
    OBVIOUS
  <2>1. CASE \E t \in Threads, m \in Nonces : SweepOne(t, m)
    BY <2>1 DEF SweepOne, IInv, TimeInv
  <2>2. CASE \E t \in Threads : Spend(t)
    BY <2>2 DEF Spend, Unspent
  <2>3. QED
    BY <2>1, <2>2 DEF Next, Step, vars, Tick, CallChallenge, CallRelease, CallReleaseUnknown,
           SweepDone, Issue, CheckNonce, VerifyReport
<1>2. QED
  BY <1>1, Inductive, PTL DEF Spec, OnlyExpiryOrReleaseSpends

----------------------------------------------------------------------------
(* The refinement.                                                         *)

LEMMA PromiseInit == Init => Promise!Init
  BY DEF Init, Promise!Init, Ledger, Admitted, Grants

LEMMA PromiseStep == IInv /\ [Next]_vars => [Promise!Next]_(Promise!vars)
<1> SUFFICES ASSUME IInv, [Next]_vars PROVE Promise!Next \/ UNCHANGED Promise!vars
  OBVIOUS
<1>0. TypeOK /\ TypeOK' /\ issued \subseteq minted
  BY TypeStep DEF IInv, LedgerInv
<1> USE DEF Promise!vars
<1>1. CASE Tick \/ UNCHANGED vars
  BY <1>1 DEF Tick, vars, Ledger, Admitted, Grants
<1>2. ASSUME NEW t \in Threads, UNCHANGED <<issued, minted, released>>,
             pc'[t] \notin {"verify", "spend"}, pc[t] \notin {"verify", "spend"},
             \A u \in Threads \ {t} : pc'[u] = pc[u] /\ call'[u] = call[u]
      PROVE  UNCHANGED Promise!vars
  <2>1. Admitted' = Admitted
    BY <1>2 DEF Admitted
  <2>2. QED
    BY <1>2, <2>1 DEF Ledger, Grants
<1>3. ASSUME NEW t \in Threads, CallChallenge(t) PROVE UNCHANGED Promise!vars
  BY <1>0, <1>2, <1>3 DEF CallChallenge, BeginSweep, Stale, TypeOK
<1>4. ASSUME NEW t \in Threads, NEW q \in Requests, NEW n \in minted \cup ForeignNonces,
             CallRelease(t, q, n)
      PROVE  UNCHANGED Promise!vars
  BY <1>0, <1>2, <1>4 DEF CallRelease, BeginSweep, Stale, TypeOK
<1>5. ASSUME NEW t \in Threads, NEW q \in Requests, CallReleaseUnknown(t, q)
      PROVE  UNCHANGED Promise!vars
  BY <1>0, <1>2, <1>5 DEF CallReleaseUnknown, Finish, TypeOK
<1>6. ASSUME NEW t \in Threads, SweepDone(t) PROVE UNCHANGED Promise!vars
  BY <1>0, <1>2, <1>6 DEF SweepDone, TypeOK
<1>7. ASSUME NEW t \in Threads, NEW n \in Nonces, SweepOne(t, n)
      PROVE  Promise!Next \/ UNCHANGED Promise!vars
  <2>1. Admitted' = Admitted
    BY <1>0, <1>7 DEF SweepOne, Finish, TypeOK, Admitted
  <2>2. CASE n \in issued
    <3>1. Ledger[n] = "live" /\ Ledger' = [Ledger EXCEPT ![n] = "dead"]
      BY <1>0, <1>7, <2>2 DEF SweepOne, Ledger
    <3>g. Grants' = Grants
      BY <1>7 DEF SweepOne, Grants
    <3>2. Promise!Lapse(n)
      BY <2>1, <3>1, <3>g DEF Promise!Lapse
    <3>3. QED
      BY <3>2 DEF Promise!Next
  <2>3. CASE n \notin issued
    BY <1>7, <2>1, <2>3 DEF SweepOne, Ledger, Grants
  <2>4. QED
    BY <2>2, <2>3
<1>8. ASSUME NEW t \in Threads, Issue(t) PROVE Promise!Next
  <2>1. PICK n \in FreshNonces : minted' = minted \cup {n} /\ issued' = issued \cup {n}
    BY <1>8 DEF Issue
  <2>2. Ledger[n] = "new" /\ Ledger' = [Ledger EXCEPT ![n] = "live"]
    BY <1>0, <2>1 DEF Ledger, FreshNonces
  <2>3. Admitted' = Admitted /\ Grants' = Grants
    BY <1>0, <1>8 DEF Issue, Finish, TypeOK, Admitted, Grants
  <2>4. Promise!Mint(n)
    BY <2>2, <2>3 DEF Promise!Mint
  <2>5. QED
    BY <2>1, <2>4 DEF Promise!Next, FreshNonces
<1>9. ASSUME NEW t \in Threads, CheckNonce(t) PROVE Promise!Next \/ UNCHANGED Promise!vars
  <2>1. CASE call[t].nonce \in issued
    <3> DEFINE n == call[t].nonce
    <3>1. n \in Nonces /\ Ledger[n] = "live" /\ Ledger' = Ledger /\ Grants' = Grants
      BY <1>0, <1>9, <2>1 DEF CheckNonce, TypeOK, Ledger, Grants
    <3>2. Admitted[t] = {} /\ Admitted' = [Admitted EXCEPT ![t] = {n}]
      BY <1>0, <1>9, <2>1 DEF CheckNonce, TypeOK, Admitted
    <3>3. <<t, n>> \notin Grants
      <4>1. \A r \in released : r.nonce # n
        BY <2>1 DEF IInv, LedgerInv
      <4>2. ASSUME NEW r \in released, <<r.thread, r.nonce>> = <<t, n>> PROVE FALSE
        <5>1. r.nonce = n
          BY <4>2
        <5>2. QED
          BY <4>1, <5>1
      <4>3. QED
        BY <4>2, Zenon DEF Grants
    <3>4. Promise!Admit(t, n)
      BY <3>1, <3>2, <3>3 DEF Promise!Admit
    <3>5. QED
      BY <3>1, <3>4 DEF Promise!Next
  <2>2. CASE call[t].nonce \notin issued
    BY <1>0, <1>2, <1>9, <2>2 DEF CheckNonce, Finish, TypeOK
  <2>3. QED
    BY <2>1, <2>2
<1>10. ASSUME NEW t \in Threads, VerifyReport(t) PROVE Promise!Next \/ UNCHANGED Promise!vars
  <2>1. Ledger' = Ledger /\ Grants' = Grants
    BY <1>10 DEF VerifyReport, Ledger, Grants
  <2>2. CASE Accepts(call[t].request, call[t].nonce)
    <3>1. Admitted' = Admitted
      BY <1>0, <1>10, <2>2 DEF VerifyReport, TypeOK, Admitted
    <3>2. QED
      BY <2>1, <3>1
  <2>3. CASE ~Accepts(call[t].request, call[t].nonce)
    <3>1. Admitted[t] # {} /\ Admitted' = [Admitted EXCEPT ![t] = {}]
      BY <1>0, <1>10, <2>3 DEF VerifyReport, Finish, TypeOK, Admitted
    <3>2. Promise!Refuse(t)
      BY <2>1, <3>1 DEF Promise!Refuse
    <3>3. QED
      BY <3>2 DEF Promise!Next
  <2>4. QED
    BY <2>2, <2>3
<1>11. ASSUME NEW t \in Threads, Spend(t) PROVE Promise!Next
  <2> DEFINE n == call[t].nonce
  <2>1. n \in minted /\ n \in Nonces
    BY <1>0, <1>11 DEF Spend, IInv, AdmittedInv, TypeOK
  <2>2. Admitted[t] = {n} /\ Admitted' = [Admitted EXCEPT ![t] = {}]
    BY <1>0, <1>11 DEF Spend, Finish, TypeOK, Admitted
  <2>3. Ledger' = [Ledger EXCEPT ![n] = "dead"]
    BY <1>0, <1>11, <2>1 DEF Spend, Unspent, Ledger
  <2>4. <<t, n>> \notin Grants
    <3>1. \A r \in released : r.thread = t => r.nonce # n
      BY <1>11 DEF Spend, IInv, AdmittedInv
    <3>2. ASSUME NEW r \in released, <<r.thread, r.nonce>> = <<t, n>> PROVE FALSE
      <4>1. r.thread = t /\ r.nonce = n
        BY <3>2
      <4>2. QED
        BY <3>1, <4>1
    <3>3. QED
      BY <3>2, Zenon DEF Grants
  <2>5. Grants' = Grants \cup {<<t, n>>}
    <3>1. Release(t).thread = t /\ Release(t).nonce = n
      BY DEF Release
    <3>2. released' = released \cup {Release(t)}
      BY <1>11 DEF Spend
    <3>3. Grants' = Grants \cup {<<Release(t).thread, Release(t).nonce>>}
      BY <3>2, Zenon DEF Grants
    <3>4. QED
      BY <3>1, <3>3
  <2>6. Promise!Grant(t, n)
    BY <2>2, <2>3, <2>4, <2>5, Zenon DEF Promise!Grant
  <2> HIDE DEF n
  <2>7. QED
    BY <2>1, <2>6 DEF Promise!Next
<1>12. QED
  BY <1>1, <1>3, <1>4, <1>5, <1>6, <1>7, <1>8, <1>9, <1>10, <1>11 DEF Next, Step

\* Every behaviour of the threads is one the promise of CredentialRelease allows.
THEOREM Refinement == Spec => KeepsPromise
  BY PromiseInit, PromiseStep, Inductive, PTL DEF Spec, KeepsPromise, Promise!Spec

=============================================================================
