----------------------------- MODULE Validating -----------------------------
(***************************************************************************)
(* A validator: the rounds of scripts/run_validator.py, in which           *)
(* validating/evaluator.py probes one miner after another, scores the      *)
(* answers against each other (scoring.py) and submits weights             *)
(* (weights.py).  The list of approved measurements, the miners' endpoints *)
(* and the validator's permit change while a round runs.                   *)
(*                                                                         *)
(* new_nonce returns 32 random bytes, so a report either answers the nonce *)
(* of this very probe ("asked") or is about another one ("other").         *)
(***************************************************************************)
EXTENDS Attestation, FiniteSets

CONSTANTS
    Miners,             \* uids, in the order of the metagraph
    Honest,             \* miners that answer as the repository's miner does
    Truth,              \* the hash of the rows the probe selects
    Hashes, NoHash,     \* response hashes, and an answer without one
    Lists,              \* sets of measurements the registry can have in force
    MinTcb, TcbFloors,  \* what MinerEvaluator asks of the firmware
    Target, Ceiling,    \* latency_target_ms, latency_ceiling_ms
    Behaviours,         \* what each miner may answer to a probe: see Answer
    DryRun,             \* --dry-run
    Unsteady,           \* bound: miners whose axon comes and goes
    None                \* no answer yet

Voted == {"asked", "other"} \X (Hashes \cup {NoHash})   \* report_data: bind_response(request_id, hash)

Report == [well_formed : BOOLEAN, nonce : {"asked", "other"}, report_data : Voted,
           launch_measurement : Measurements, tcb_level : Nat,
           signature : MockSignature \cup SevSnpSignature]

\* What the evaluator gets of a miner: how /health and /call went, what /health
\* advertised, and the reply to /call.
Answer == [fault : {"none", "client", "other"}, silicon : {"mock", "sev-snp"},
           public_key : Keys \cup {NoKey}, complete : BOOLEAN,
           vcek : Certificate, ark : Certificate, ask : Certificate,
           latency : Nat, no_store : BOOLEAN, hash : Hashes \cup {NoHash}, report : Report]

ASSUME RoundAssumption ==
    /\ Miners \subseteq Nat /\ IsFiniteSet(Miners) /\ Honest \subseteq Miners /\ Unsteady \subseteq Miners
    /\ None \notin Answer /\ NoHash \notin Hashes /\ Truth \in Hashes
    /\ Lists \subseteq SUBSET Measurements
    /\ Target \in Nat /\ Ceiling \in Nat /\ Target < Ceiling
    /\ Behaviours \in [Miners -> SUBSET Answer]
    /\ DryRun \in BOOLEAN

VARIABLES
    registry,   \* what RegistrySource.approved_at gives at the current block
    serving,    \* miners with a published axon
    permit,     \* has_validator_permit
    pc,         \* where the round is; "failed": one_round has raised
    approved,   \* evaluator.approved_measurement
    targets,    \* discover_miners
    answers,    \* of the targets probed so far
    submitted,  \* the weights of the last submission the chain took
    inForce     \* the registry when the round read its block (for the properties)

chain == <<registry, serving, permit>>
round == <<approved, targets, answers>>
vars == <<chain, pc, round, submitted, inForce>>

Steps == {"idle", "probe", "waiting", "permit", "submit", "failed"}

----------------------------------------------------------------------------
(* The verdict on one answer                                               *)

\* _verify_sevsnp
SevSnpVerified(a) ==
    /\ a.complete
    /\ a.report.signature.form = "sevsnp"
    /\ SevSnpVerify(a.report.signature, a.vcek, a.ark, a.ask, approved, TcbFloors)
    /\ a.report.nonce = "asked"
    /\ a.report.report_data = <<"asked", a.hash>>

\* outcome.verified: _probe got to its end.
Verified(m) ==
    LET a == answers[m]
    IN  /\ a # None
        /\ a.fault = "none"
        /\ a.report.well_formed
        /\ IF a.silicon = "sev-snp" THEN SevSnpVerified(a)
           ELSE /\ a.public_key # NoKey
                /\ MockVerify(a.report, a.public_key, approved, "asked", MinTcb, <<"asked", a.hash>>)

----------------------------------------------------------------------------
(* The vote                                                                *)

\* Counter(o.response_hash for o in outcomes if o.verified and o.response_hash)
Voters == {m \in targets : Verified(m) /\ answers[m].hash # NoHash}

Votes(h) == {m \in Voters : answers[m].hash = h}

\* Counter.most_common puts what has more votes first, and of as many, what it
\* counted first.
MoreCommon(g, h) ==
    \/ Cardinality(Votes(g)) > Cardinality(Votes(h))
    \/ /\ Cardinality(Votes(g)) = Cardinality(Votes(h))
       /\ \E m \in Votes(g) : \A n \in Votes(h) : m <= n

\* Mutant of Majority: whoever was counted first.
FirstVote == CHOOSE h \in Hashes : \E m \in Votes(h) : \A n \in Voters : m <= n

Majority == CHOOSE h \in Hashes : Votes(h) # {} /\ \A g \in Hashes : Votes(g) # {} => MoreCommon(h, g)

MIN_MINERS_FOR_CORRECTNESS_GATE == 3

\* Mutant of Gated: a tie of two counts as a majority.
GatedByTwo == Cardinality(Voters) >= 2

Gated == Cardinality(Voters) >= MIN_MINERS_FOR_CORRECTNESS_GATE

----------------------------------------------------------------------------
(* The weights, in hundredths                                              *)

\* Mutant of LatencyPoints: linear all the way.
LatencyUnbounded(t) == (30 * (Ceiling - t)) \div (Ceiling - Target)

\* scoring.latency_score, times its 30
LatencyPoints(t) ==
    IF t <= Target THEN 30 ELSE IF t >= Ceiling THEN 0
    ELSE (30 * (Ceiling - t)) \div (Ceiling - Target)

Correct(m) == Voters # {} /\ answers[m].hash = Majority

\* Mutant of Weight: the rubric before integrity was a gate.
LegacyWeight(m) ==
    IF ~Verified(m) THEN 0
    ELSE 40 + LatencyPoints(answers[m].latency) + (IF Correct(m) THEN 20 ELSE 0)
            + (IF answers[m].no_store THEN 5 ELSE 0) + 5

\* MinerScores.weight.  A verified report has the nonce we asked for.
\* weights_from divides by the sum, which keeps who is paid and in what ratio.
Weight(m) ==
    IF ~Verified(m) \/ ~answers[m].no_store \/ (Gated /\ ~Correct(m)) THEN 0
    ELSE 40 + LatencyPoints(answers[m].latency) + (IF Correct(m) THEN 20 ELSE 0) + 5 + 5

----------------------------------------------------------------------------
NoWeights == [m \in Miners |-> 0]
NoAnswers == [m \in Miners |-> None]

Init ==
    /\ registry \in Lists /\ permit \in BOOLEAN
    /\ serving \in {s \in SUBSET Miners : Miners \ Unsteady \subseteq s}
    /\ pc = "idle"
    /\ approved = {} /\ targets = {} /\ answers = NoAnswers
    /\ submitted = NoWeights /\ inForce = {}

(* The chain *)

Publish == registry' \in Lists \ {registry} /\ UNCHANGED <<serving, permit, pc, round, submitted, inForce>>

AxonsChange ==
    /\ \E m \in Unsteady : serving' = IF m \in serving THEN serving \ {m} ELSE serving \cup {m}
    /\ UNCHANGED <<registry, permit, pc, round, submitted, inForce>>

PermitMoves == permit' = ~permit /\ UNCHANGED <<registry, serving, pc, round, submitted, inForce>>

(* The round *)

\* The round is over, or an exception has left it.
Ends(step) == pc' = step /\ targets' = {} /\ answers' = NoAnswers

\* Mutant of Begin: the list the evaluator was made with.
BeginUnrefreshed ==
    /\ pc = "idle" /\ serving # {}
    /\ inForce' = registry
    /\ approved' = IF approved = {} THEN registry ELSE approved
    /\ targets' = serving /\ pc' = "probe"
    /\ UNCHANGED <<chain, answers, submitted>>

\* one_round up to evaluate_round: the list in force at this block, then who is
\* there.  A read of the chain may raise, before the evaluator has the new list
\* or after.
Begin ==
    /\ pc = "idle"
    /\ inForce' = registry
    /\ \/ approved' = registry /\ targets' = serving /\ answers' = NoAnswers
          /\ pc' = IF serving = {} THEN "idle" ELSE "probe"
       \/ approved' \in {approved, registry} /\ Ends("failed")
    /\ UNCHANGED <<chain, submitted>>

\* The miner whose turn it is: _probe(t) for t in targets.
Next1 == CHOOSE m \in targets : answers[m] = None /\ \A n \in targets : answers[n] = None => m <= n

\* What is not a MinerClientError or a VerificationError leaves evaluate_round: a
\* connection that breaks or times out after it was made, a reply that is no JSON
\* object, certificates that make verify_vcek raise, and attestation.verify
\* without a single approved measurement.
Raises(a) ==
    \/ a.fault = "other"
    \/ /\ a.fault = "none" /\ a.report.well_formed /\ a.complete
       /\ a.silicon = "sev-snp" /\ looks_like_sevsnp(a.report.signature)
       /\ a.report.signature.parses /\ VcekRaises(a.vcek, a.ark, a.ask)
    \/ /\ a.fault = "none" /\ a.report.well_formed /\ approved = {}
       /\ a.silicon = "mock" /\ a.public_key # NoKey /\ MockValid(a.report.signature, a.public_key)

\* _probe
Probe ==
    /\ pc \in {"probe", "waiting"}
    /\ \E a \in Behaviours[Next1] :
         IF Raises(a) THEN Ends("failed")
         ELSE /\ answers' = [answers EXCEPT ![Next1] = a]
              /\ pc' = IF \A m \in targets \ {Next1} : answers[m] # None THEN "permit" ELSE "probe"
              /\ UNCHANGED targets
    /\ UNCHANGED <<chain, approved, submitted, inForce>>

\* The timeout is for each read of the socket: a miner that sends its reply
\* byte by byte holds the round up for as long as it likes.
Trickle ==
    /\ pc = "probe"
    /\ pc' = "waiting"
    /\ UNCHANGED <<chain, round, submitted, inForce>>

\* Nothing is submitted for a round in which everyone failed, without a permit,
\* or dry.  Reading the permit may raise.
CheckPermit ==
    /\ pc = "permit"
    /\ IF \E m \in targets : Weight(m) > 0
       THEN \/ permit /\ ~DryRun /\ pc' = "submit" /\ UNCHANGED <<targets, answers>>
            \/ (~permit \/ DryRun) /\ Ends("idle")
            \/ Ends("failed")
       ELSE Ends("idle")
    /\ UNCHANGED <<chain, approved, submitted, inForce>>

\* set_weights: the whole vector of weights.  The chain refuses it (success is
\* False) when the permit has gone since; the extrinsic may also raise.
SetWeights ==
    /\ pc = "submit"
    /\ \/ /\ permit
          /\ submitted' = [m \in Miners |-> IF m \in targets THEN Weight(m) ELSE 0]
          /\ Ends("idle")
       \/ ~permit /\ Ends("idle") /\ UNCHANGED submitted
       \/ Ends("failed") /\ UNCHANGED submitted
    /\ UNCHANGED <<chain, approved, inForce>>

\* main: one bad round must not end the run.
RoundFailed ==
    /\ pc = "failed"
    /\ pc' = "idle"
    /\ UNCHANGED <<chain, round, submitted, inForce>>

Environment == Publish \/ AxonsChange \/ PermitMoves

RoundStep == Begin \/ Probe \/ CheckPermit \/ SetWeights \/ RoundFailed

Next == Environment \/ RoundStep \/ Trickle

Spec == Init /\ [][Next]_vars

\* The loop of main runs, and a request to a miner ends unless it trickles.
FairSpec == Spec /\ WF_vars(pc # "waiting" /\ RoundStep)

----------------------------------------------------------------------------
TypeOK ==
    /\ registry \in Lists /\ serving \subseteq Miners /\ permit \in BOOLEAN
    /\ pc \in Steps
    /\ approved \in Lists \cup {{}} /\ inForce \in Lists \cup {{}}
    /\ targets \subseteq Miners
    /\ answers \in [Miners -> Answer \cup {None}]
    /\ submitted \in [Miners -> 0..100]

\* A proof that code of the list `approved_now` gave the answer to this probe.
ProvedBy(a, approved_now) ==
    /\ a.report.nonce = "asked" /\ a.report.report_data = <<"asked", a.hash>>
    /\ IF a.silicon = "mock" THEN a.report.launch_measurement \in approved_now
       ELSE /\ a.report.signature.key = a.vcek.key /\ a.vcek.issuer = a.ask.key
            /\ a.ask.issuer = PinnedRoot
            /\ a.report.signature.measurement \in approved_now /\ a.report.signature.covers

\* Whatever a submission pays for is an answer to that round's own probe, not
\* cacheable, proved to come from code that was approved at the round's block
\* (however the registry has moved since); and some miner is paid
\* (run_validator.one_round, evaluator._probe, scoring.MinerScores.weight).
PaidForFreshProof ==
    [][submitted' # submitted =>
         /\ \E m \in Miners : submitted'[m] > 0
         /\ \A m \in Miners : submitted'[m] > 0 =>
              /\ answers[m] # None /\ answers[m].no_store
              /\ ProvedBy(answers[m], inForce)]_vars

\* Voters that answered with the truth, and that did not.
Truthful == Votes(Truth)
Dissenters == Voters \ Truthful

\* While they are outnumbered, miners that lie about the rows cannot keep an
\* honest answer from being paid, and with three votes or more are not paid
\* themselves; a single liar never can, in rounds of one or two answers either,
\* whoever comes first in the metagraph (evaluate_round's majority and its gate).
LiarsOutvoted ==
    /\ pc = "permit"
    /\ Cardinality(Dissenters) < Cardinality(Truthful) \/ Cardinality(Dissenters) <= 1
    =>
        /\ \A m \in Truthful : answers[m].no_store => Weight(m) > 0
        /\ Gated => \A m \in Dissenters : Weight(m) = 0

\* What honest miner h needs: to be found and approved and to answer, a permit,
\* and a chain and other miners that do not break the round or trickle.
Calm(h) ==
    /\ h \in serving /\ permit
    /\ answers[h] # None => Verified(h)
    /\ (registry = inForce \/ pc = "idle")
    /\ pc \notin {"failed", "waiting"}
    /\ pc = "permit" => Cardinality(Dissenters) <= 1

\* Then the validator comes to pay it, for good: rounds follow each other and no
\* liar, replay or unreachable neighbour keeps an honest miner at zero (main's
\* loop, one_round).
HonestPaid == \A h \in Honest : ~DryRun /\ <>[]Calm(h) => <>[](submitted[h] > 0)

\* evaluator.py:53: three is the smallest number where being outvoted is
\* evidence.  A miner with a verified, uncacheable answer is only zeroed when
\* more miners gave another answer than gave its own.
ZeroedOnlyWhenOutvoted ==
    pc = "permit" => \A m \in Voters :
        answers[m].no_store /\ Weight(m) = 0 =>
            \E h \in Hashes : Cardinality(Votes(h)) > Cardinality(Votes(answers[m].hash))
=============================================================================
