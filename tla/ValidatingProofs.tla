-------------------------- MODULE ValidatingProofs --------------------------
(***************************************************************************)
(* Proofs about Validating for any miners, answers and lists: what a round *)
(* pays for, and that liars in the minority lose the vote, whatever the    *)
(* order in which the miners are probed.                                   *)
(***************************************************************************)
EXTENDS Validating, FiniteSetTheorems, WellFoundedInduction, TLAPS

\* A round in progress: the evaluator has the list of its block, who is still to
\* be probed while it probes, and someone to pay when it submits.
RoundInv ==
    /\ pc \in {"probe", "waiting", "permit", "submit"} => approved = inForce
    /\ pc \in {"probe", "waiting"} => \E m \in targets : answers[m] = None
    /\ pc = "submit" => \E m \in targets : Weight(m) > 0

IInv == TypeOK /\ RoundInv

----------------------------------------------------------------------------
(* Numbers                                                                 *)

LEMMA Quotient ==
    ASSUME NEW x \in Nat, NEW y \in Nat, y > 0, x <= y
    PROVE  (30 * x) \div y \in 0..30
<1> DEFINE q == (30 * x) \div y
<1>1. q \in Int /\ y * q <= 30 * x /\ 30 * x < y * (q + 1)
  BY SMT
<1>2. q >= 0
  <2> SUFFICES ASSUME q <= -1 PROVE FALSE
    BY <1>1
  <2>1. y * (q + 1) <= 0
    BY <1>1, SMT
  <2>2. QED
    BY <1>1, <2>1
<1>3. q <= 30
  <2> SUFFICES ASSUME q >= 31 PROVE FALSE
    BY <1>1
  <2>1. y * q >= y * 31
    BY <1>1, SMT
  <2>2. QED
    BY <1>1, <2>1
<1>4. QED
  BY <1>1, <1>2, <1>3

LEMMA Latency == ASSUME NEW t \in Nat PROVE LatencyPoints(t) \in 0..30
<1>1. CASE t <= Target
  BY <1>1 DEF LatencyPoints
<1>2. CASE t > Target /\ t >= Ceiling
  BY <1>2, RoundAssumption DEF LatencyPoints
<1>3. CASE t > Target /\ t < Ceiling
  <2>1. Ceiling - t \in Nat /\ Ceiling - Target \in Nat /\ Ceiling - Target > 0
        /\ Ceiling - t <= Ceiling - Target
    BY <1>3, RoundAssumption
  <2>2. (30 * (Ceiling - t)) \div (Ceiling - Target) \in 0..30
    BY <2>1, Quotient
  <2>3. QED
    BY <1>3, <2>2 DEF LatencyPoints
<1>4. QED
  BY <1>1, <1>2, <1>3, RoundAssumption

\* A weight is at most a hundred, and is 0 exactly for what fails a gate.
LEMMA WeightBounds ==
    ASSUME TypeOK, NEW m \in Miners
    PROVE  /\ Weight(m) \in 0..100
           /\ Weight(m) > 0 <=> Verified(m) /\ answers[m].no_store /\ (Gated => Correct(m))
<1>1. CASE ~Verified(m)
  BY <1>1 DEF Weight
<1>2. CASE Verified(m)
  <2>1. answers[m] \in Answer
    BY <1>2 DEF Verified, TypeOK
  <2>2. LatencyPoints(answers[m].latency) \in 0..30 /\ answers[m].no_store \in BOOLEAN
    BY <2>1, Latency DEF Answer
  <2>3. QED
    BY <1>2, <2>2 DEF Weight
<1>3. QED
  BY <1>1, <1>2

\* A set of miners has a first one.
LEMMA FirstMiner ==
    ASSUME NEW T, T \subseteq Miners, T # {}
    PROVE  \E x \in T : \A n \in T : x <= n
<1> DEFINE UpTo(m) == {n \in T : n <= m}
           Initials == {UpTo(m) : m \in T}
<1>1. T \subseteq Nat
  BY RoundAssumption
<1>2. Initials \subseteq FiniteSubsetsOf(Miners) /\ Initials # {}
  <2>1. FiniteSubsetsOf(Miners) = SUBSET Miners
    BY RoundAssumption, FS_FiniteSubsetsOfFinite
  <2>2. \A m \in T : UpTo(m) \in SUBSET Miners
    OBVIOUS
  <2>3. Initials # {}
    <3>1. PICK m \in T : TRUE
      OBVIOUS
    <3>2. UpTo(m) \in Initials
      BY <3>1
    <3>3. QED
      BY <3>2
  <2>4. Initials \subseteq SUBSET Miners
    BY <2>2
  <2>5. QED
    BY <2>1, <2>3, <2>4
<1>3. PICK I \in Initials : \A J \in Initials : <<J, I>> \notin StrictSubsetOrdering(Miners)
  <2>1. IsWellFoundedOn(StrictSubsetOrdering(Miners), FiniteSubsetsOf(Miners))
    BY FS_StrictSubsetOrderingWellFounded
  <2> HIDE DEF Initials
  <2>2. QED
    BY <1>2, <2>1, WFMin
<1>4. PICK x \in T : I = UpTo(x)
  BY <1>3
<1>5. ASSUME NEW y \in T, y < x PROVE FALSE
  <2>0. x \in Nat /\ y \in Nat /\ \A n \in T : n \in Nat
    BY <1>1
  <2>1. UpTo(y) \subseteq UpTo(x) /\ x \in UpTo(x) /\ x \notin UpTo(y)
    <3>1. \A n \in T : n <= y => n <= x
      BY <2>0, <1>5
    <3>2. x <= x /\ ~(x <= y)
      BY <2>0, <1>5
    <3>3. QED
      BY <3>1, <3>2
  <2>2. <<UpTo(y), UpTo(x)>> \in StrictSubsetOrdering(Miners)
    BY <2>1, <1>1 DEF StrictSubsetOrdering
  <2>3. QED
    BY <2>2, <1>3, <1>4, <1>5
<1>6. QED
  BY <1>1, <1>5

LEMMA Turn ==
    ASSUME targets \subseteq Miners, \E m \in targets : answers[m] = None
    PROVE  Next1 \in targets /\ answers[Next1] = None
<1> DEFINE T == {m \in targets : answers[m] = None}
<1>1. \E x \in T : \A n \in T : x <= n
  BY FirstMiner
<1>2. \E x \in targets : answers[x] = None /\ \A n \in targets : answers[n] = None => x <= n
  BY <1>1
<1>3. QED
  BY <1>2 DEF Next1

\* The weights are a function of the list, the targets and the answers.
LEMMA SameWeights ==
    ASSUME UNCHANGED round
    PROVE  \A m : Weight(m)' = Weight(m)
<1>1. approved' = approved /\ targets' = targets /\ answers' = answers
  BY DEF round
<1>2. \A m : Verified(m)' = Verified(m)
  BY <1>1 DEF Verified, SevSnpVerified
<1>3. Voters' = Voters
  BY <1>1, <1>2 DEF Voters
<1>4. \A h : Votes(h)' = Votes(h)
  BY <1>1, <1>3 DEF Votes
<1>5. \A g, h : MoreCommon(g, h)' = MoreCommon(g, h)
  BY <1>4 DEF MoreCommon
<1>6. Majority' = Majority
  BY <1>4, <1>5 DEF Majority
<1>7. \A m : Correct(m)' = Correct(m)
  BY <1>1, <1>3, <1>6 DEF Correct
<1>8. Gated' = Gated
  BY <1>3 DEF Gated
<1>9. QED
  BY <1>1, <1>2, <1>7, <1>8 DEF Weight

----------------------------------------------------------------------------
(* Invariance                                                              *)

LEMMA InvInit == Init => IInv
<1> SUFFICES ASSUME Init PROVE IInv
  OBVIOUS
<1>1. TypeOK
  BY DEF Init, TypeOK, Steps, NoAnswers, NoWeights
<1>2. RoundInv
  BY DEF Init, RoundInv
<1>3. QED
  BY <1>1, <1>2 DEF IInv

LEMMA EndsType ==
    ASSUME TypeOK, NEW s \in Steps, Ends(s)
    PROVE  pc' \in Steps /\ targets' \subseteq Miners /\ answers' \in [Miners -> Answer \cup {None}]
BY DEF TypeOK, Ends, NoAnswers

LEMMA InvNext == IInv /\ [Next]_vars => IInv'
<1> SUFFICES ASSUME IInv, [Next]_vars PROVE IInv'
  OBVIOUS
<1> USE DEF IInv
<1>1. CASE Environment
  <2>1. TypeOK'
    BY <1>1, RoundAssumption DEF Environment, Publish, AxonsChange, PermitMoves, round, TypeOK
  <2>2. \A m : Weight(m)' = Weight(m)
    BY <1>1, SameWeights DEF Environment, Publish, AxonsChange, PermitMoves, round
  <2>3. RoundInv'
    BY <1>1, <2>2 DEF Environment, Publish, AxonsChange, PermitMoves, round, RoundInv
  <2>4. QED
    BY <2>1, <2>3
<1>2. CASE Begin
  <2>1. CASE approved' = registry /\ targets' = serving /\ answers' = NoAnswers
             /\ pc' = IF serving = {} THEN "idle" ELSE "probe"
    BY <1>2, <2>1 DEF Begin, chain, TypeOK, RoundInv, NoAnswers, Steps
  <2>2. CASE approved' \in {approved, registry} /\ Ends("failed")
    BY <1>2, <2>2, EndsType DEF Begin, chain, TypeOK, RoundInv, Ends, Steps
  <2>3. QED
    BY <1>2, <2>1, <2>2 DEF Begin
<1>3. CASE Probe
  <2>1. Next1 \in targets /\ answers[Next1] = None
    BY <1>3, Turn DEF Probe, RoundInv, TypeOK
  <2>2. PICK a \in Behaviours[Next1] :
          IF Raises(a) THEN Ends("failed")
          ELSE /\ answers' = [answers EXCEPT ![Next1] = a]
               /\ pc' = IF \A m \in targets \ {Next1} : answers[m] # None THEN "permit" ELSE "probe"
               /\ UNCHANGED targets
    BY <1>3 DEF Probe
  <2>3. a \in Answer
    BY <2>1, RoundAssumption DEF TypeOK
  <2>4. CASE Raises(a)
    BY <1>3, <2>2, <2>4, EndsType DEF Probe, chain, TypeOK, RoundInv, Ends, Steps
  <2>5. CASE ~Raises(a)
    <3>1. TypeOK'
      BY <1>3, <2>1, <2>2, <2>3, <2>5 DEF Probe, chain, TypeOK, Steps
    <3>2. RoundInv'
      BY <1>3, <2>1, <2>2, <2>5 DEF Probe, chain, TypeOK, RoundInv
    <3>3. QED
      BY <3>1, <3>2
  <2>6. QED
    BY <2>4, <2>5
<1>4. CASE CheckPermit
  <2>1. CASE Ends("idle") \/ Ends("failed")
    BY <1>4, <2>1, EndsType DEF CheckPermit, chain, TypeOK, RoundInv, Ends, Steps
  <2>2. CASE (\E m \in targets : Weight(m) > 0) /\ pc' = "submit" /\ UNCHANGED <<targets, answers>>
    <3>1. TypeOK'
      BY <1>4, <2>2 DEF CheckPermit, chain, TypeOK, Steps
    <3>2. \A m : Weight(m)' = Weight(m)
      BY <1>4, <2>2, SameWeights DEF CheckPermit, round
    <3>3. RoundInv'
      BY <1>4, <2>2, <3>2 DEF CheckPermit, RoundInv
    <3>4. QED
      BY <3>1, <3>3
  <2>3. QED
    BY <1>4, <2>1, <2>2 DEF CheckPermit
<1>5. CASE SetWeights
  <2>1. \A m \in Miners : Weight(m) \in 0..100
    BY WeightBounds
  <2>2. submitted' \in [Miners -> 0..100]
    BY <1>5, <2>1 DEF SetWeights, TypeOK
  <2>3. Ends("idle") \/ Ends("failed")
    BY <1>5 DEF SetWeights
  <2>4. QED
    BY <1>5, <2>2, <2>3, EndsType DEF SetWeights, chain, TypeOK, RoundInv, Ends, Steps
<1>6. CASE RoundFailed
  BY <1>6 DEF RoundFailed, chain, round, TypeOK, RoundInv, Steps
<1>7. CASE Trickle
  <2>1. TypeOK'
    BY <1>7 DEF Trickle, chain, round, TypeOK, Steps
  <2>2. RoundInv'
    BY <1>7 DEF Trickle, round, RoundInv
  <2>3. QED
    BY <2>1, <2>2
<1>8. CASE UNCHANGED vars
  <2>1. \A m : Weight(m)' = Weight(m)
    BY <1>8, SameWeights DEF vars, round
  <2>2. QED
    BY <1>8, <2>1 DEF vars, chain, round, TypeOK, RoundInv
<1>9. QED
  BY <1>1, <1>2, <1>3, <1>4, <1>5, <1>6, <1>7, <1>8 DEF Next, RoundStep

LEMMA Invariance == Spec => []IInv
BY InvInit, InvNext, PTL DEF Spec

\* Every variable of the validator keeps its type, for any miners and answers.
THEOREM TypeCorrect == Spec => []TypeOK
BY Invariance, PTL DEF IInv

----------------------------------------------------------------------------
(* What is paid                                                            *)

\* What the verdict on an answer says, in the words of the property.
LEMMA VerifiedProof ==
    ASSUME TypeOK, NEW m \in Miners, Verified(m)
    PROVE  answers[m] # None /\ ProvedBy(answers[m], approved)
<1> DEFINE a == answers[m]
<1>1. a # None /\ a \in Answer
  BY DEF Verified, TypeOK
<1>2. a.silicon \in {"mock", "sev-snp"}
  BY <1>1 DEF Answer
<1>3. CASE a.silicon = "mock"
  BY <1>1, <1>3 DEF Verified, MockVerify, ProvedBy
<1>4. CASE a.silicon = "sev-snp"
  BY <1>1, <1>4 DEF Verified, SevSnpVerified, SevSnpVerify, VcekEndorsed, ChainAnchored,
     PolicyAccepts, ProvedBy
<1>5. QED
  BY <1>2, <1>3, <1>4

\* What a submission pays for is an uncacheable answer to that round's probe,
\* proved by code approved at the round's block.
THEOREM PaysForFreshProof == Spec => PaidForFreshProof
<1>1. ASSUME IInv, [Next]_vars, submitted' # submitted
      PROVE  /\ \E m \in Miners : submitted'[m] > 0
             /\ \A m \in Miners : submitted'[m] > 0 =>
                  /\ answers[m] # None /\ answers[m].no_store
                  /\ ProvedBy(answers[m], inForce)
  <2>1. SetWeights /\ submitted' = [m \in Miners |-> IF m \in targets THEN Weight(m) ELSE 0]
    BY <1>1 DEF Next, Environment, Publish, AxonsChange, PermitMoves, RoundStep, Begin, Probe,
       CheckPermit, SetWeights, RoundFailed, Trickle, vars
  <2>2. TypeOK /\ approved = inForce /\ \E m \in targets : Weight(m) > 0
    BY <1>1, <2>1 DEF SetWeights, IInv, RoundInv
  <2>3. \E m \in Miners : submitted'[m] > 0
    BY <2>1, <2>2 DEF TypeOK
  <2>4. ASSUME NEW m \in Miners, submitted'[m] > 0
        PROVE  answers[m] # None /\ answers[m].no_store /\ ProvedBy(answers[m], inForce)
    <3>1. Weight(m) > 0
      BY <2>1, <2>4
    <3>2. Verified(m) /\ answers[m].no_store
      BY <2>2, <3>1, WeightBounds
    <3>3. QED
      BY <2>2, <3>2, VerifiedProof
  <2>5. QED
    BY <2>3, <2>4
<1>2. QED
  BY <1>1, Invariance, PTL DEF Spec, PaidForFreshProof

----------------------------------------------------------------------------
(* The vote                                                                *)

\* An answer with more votes than all others together is the majority, however
\* ties are resolved.
LEMMA MajorityIsTruth ==
    ASSUME TypeOK, Cardinality(Dissenters) < Cardinality(Truthful)
    PROVE  Majority = Truth
<1>1. IsFiniteSet(Voters) /\ Truth \in Hashes
  BY RoundAssumption, FS_Subset DEF Voters, TypeOK
<1>2. IsFiniteSet(Dissenters) /\ Cardinality(Dissenters) \in Nat
  BY <1>1, FS_Subset, FS_CardinalityType DEF Dissenters
<1>3. IsFiniteSet(Truthful) /\ Cardinality(Truthful) \in Nat
  BY <1>1, FS_Subset, FS_CardinalityType DEF Truthful, Votes
<1>4. Truthful # {}
  BY <1>2, <1>3, FS_EmptySet
<1>5. ASSUME NEW g \in Hashes, g # Truth
      PROVE  Cardinality(Votes(g)) \in Nat /\ Cardinality(Votes(g)) < Cardinality(Truthful)
  <2>1. Votes(g) \subseteq Dissenters
    BY <1>5 DEF Votes, Dissenters, Truthful
  <2>2. IsFiniteSet(Votes(g)) /\ Cardinality(Votes(g)) <= Cardinality(Dissenters)
    BY <1>2, <2>1, FS_Subset
  <2>3. QED
    BY <1>2, <1>3, <2>2, FS_CardinalityType
<1> DEFINE Wins(h) == Votes(h) # {} /\ \A g \in Hashes : Votes(g) # {} => MoreCommon(h, g)
<1>6. Wins(Truth)
  <2>1. ASSUME NEW g \in Hashes, g # Truth PROVE MoreCommon(Truth, g)
    BY <1>3, <1>5, <2>1 DEF MoreCommon, Truthful
  <2>2. MoreCommon(Truth, Truth)
    <3>1. \E m \in Truthful : \A n \in Truthful : m <= n
      BY <1>4, FirstMiner DEF Truthful, Votes, Voters, TypeOK
    <3>2. QED
      BY <3>1 DEF MoreCommon, Truthful
  <2>3. QED
    BY <1>4, <2>1, <2>2 DEF Truthful
<1>7. ASSUME NEW h \in Hashes, h # Truth PROVE ~Wins(h)
  <2>1. ~MoreCommon(h, Truth)
    BY <1>3, <1>5, <1>7 DEF MoreCommon, Truthful
  <2>2. QED
    BY <1>1, <1>4, <2>1 DEF Truthful
<1>8. QED
  BY <1>1, <1>6, <1>7 DEF Majority

\* Outnumbered liars, or a single one, keep no honest answer from its pay.
THEOREM LiarsLose == Spec => []LiarsOutvoted
<1>1. ASSUME TypeOK PROVE LiarsOutvoted
  <2>1. \A m \in Voters : m \in Miners /\ Verified(m)
    BY <1>1 DEF Voters, TypeOK
  <2>2. CASE Cardinality(Dissenters) < Cardinality(Truthful)
    <3>1. Majority = Truth
      BY <1>1, <2>2, MajorityIsTruth
    <3>2. \A m \in Truthful : m \in Voters /\ Correct(m)
      BY <3>1 DEF Truthful, Votes, Correct
    <3>3. \A m \in Dissenters : m \in Voters /\ ~Correct(m)
      BY <3>1 DEF Dissenters, Truthful, Votes, Correct
    <3>4. \A m \in Truthful : answers[m].no_store => Weight(m) > 0
      BY <1>1, <2>1, <3>2, WeightBounds
    <3>5. Gated => \A m \in Dissenters : Weight(m) = 0
      BY <2>1, <3>3 DEF Weight
    <3>6. QED
      BY <3>4, <3>5 DEF LiarsOutvoted
  <2>3. CASE ~(Cardinality(Dissenters) < Cardinality(Truthful)) /\ Cardinality(Dissenters) <= 1
    <3>1. IsFiniteSet(Voters)
      BY <1>1, RoundAssumption, FS_Subset DEF Voters, TypeOK
    <3>2. IsFiniteSet(Truthful) /\ IsFiniteSet(Dissenters) /\ Voters = Truthful \cup Dissenters
          /\ Truthful \cap Dissenters = {}
      BY <3>1, FS_Subset DEF Truthful, Dissenters, Votes
    <3>3. Cardinality(Voters) = Cardinality(Truthful) + Cardinality(Dissenters) - 0
      BY <3>2, FS_Union, FS_EmptySet
    <3>4. Cardinality(Truthful) \in Nat /\ Cardinality(Dissenters) \in Nat
      BY <3>2, FS_CardinalityType
    <3>5. ~Gated
      BY <2>3, <3>3, <3>4 DEF Gated, MIN_MINERS_FOR_CORRECTNESS_GATE
    <3>6. \A m \in Truthful : answers[m].no_store => Weight(m) > 0
      BY <1>1, <2>1, <3>5, WeightBounds DEF Truthful, Votes
    <3>7. QED
      BY <3>5, <3>6 DEF LiarsOutvoted
  <2>4. QED
    BY <2>2, <2>3 DEF LiarsOutvoted
<1>2. QED
  BY <1>1, TypeCorrect, PTL
=============================================================================
