------------------------ MODULE RegistrySourceProofs ------------------------
(***************************************************************************)
(* Proofs about RegistrySource for any validators, lists, publisher and     *)
(* faults: no theorem here has a hypothesis.                               *)
(***************************************************************************)
EXTENDS RegistrySource, TLAPS

\* A registry the publisher committed to and parse() accepted.
Trusted(r) == r \in committed /\ r.list \in WellFormed

\* What a validator holds was committed to and checked, what is active or in
\* the cache file was due by the block of the round, and no round is ahead of
\* the chain.
SourceInv ==
    \A v \in Validators :
        /\ block[v] <= height
        /\ active[v] # Nothing => Trusted(active[v]) /\ active[v].effective_from <= block[v]
        /\ cache[v] # Nothing => Trusted(cache[v]) /\ cache[v].effective_from <= block[v]
        /\ pending[v] # Nothing => Trusted(pending[v])

ManifestInv == manifest # Nothing => manifest \in committed

IInv == TypeOK /\ ManifestInv /\ SourceInv /\ OnlyCommittedLists

LEMMA InvInit == Init => IInv
<1> SUFFICES ASSUME Init PROVE IInv
  OBVIOUS
<1> USE RegistryAssumption, StartAssumption DEF Init, Blocks
<1>1. TypeOK
  <2>1. InForce \in Registries
    BY DEF Registries
  <2>2. QED
    BY <2>1 DEF TypeOK, Registries
<1>2. ManifestInv
  BY DEF ManifestInv
<1>3. SourceInv
  BY DEF SourceInv, Trusted
<1>4. OnlyCommittedLists
  BY DEF OnlyCommittedLists
<1>5. QED
  BY <1>1, <1>2, <1>3, <1>4 DEF IInv

LEMMA TypeStep == TypeOK /\ [Next]_vars => TypeOK'
<1> SUFFICES ASSUME TypeOK, [Next]_vars PROVE TypeOK'
  OBVIOUS
<1> USE RegistryAssumption, StartAssumption
    DEF TypeOK, Registries, Blocks, chainVars, sourceVars, roundVars, history
<1>1. CASE NewBlock
  BY <1>1 DEF NewBlock
<1>2. ASSUME NEW m \in [list : Lists, effective_from : Blocks], Publish(m) PROVE TypeOK'
  <2>1. m \in Registry
    BY DEF Registry
  <2>2. height \in Blocks /\ schedule' \in [Blocks -> Registries]
    BY <1>2, <2>1 DEF Publish
  <2>3. astray' \subseteq Validators
    BY <1>2 DEF Publish, Unprepared
  <2>4. QED
    BY <1>2, <2>1, <2>2, <2>3 DEF Publish
<1>3. ASSUME NEW v \in Validators, BeginRound(v) PROVE TypeOK'
  BY <1>3 DEF BeginRound
<1>4. ASSUME NEW v \in Validators, ChainUnreadable(v) PROVE TypeOK'
  BY <1>4 DEF ChainUnreadable
<1>5. ASSUME NEW v \in Validators, Refresh(v) PROVE TypeOK'
  <2>1. pending' \in [Validators -> Registry \cup {Nothing}]
    <3>1. CASE manifest = Nothing \/ Known(v, manifest)
      BY <1>5, <3>1 DEF Refresh, Known
    <3>2. CASE ~(manifest = Nothing \/ Known(v, manifest))
      <4>1. PICK body \in Served :
              pending' = [pending EXCEPT ![v] =
                  IF Verified(body)
                  THEN [list |-> body, effective_from |-> manifest.effective_from]
                  ELSE @]
        BY <1>5, <3>2 DEF Refresh
      <4>2. Verified(body) =>
              [list |-> body, effective_from |-> manifest.effective_from] \in Registry
        BY <3>2 DEF Verified, Registry
      <4>3. QED
        BY <4>1, <4>2
    <3>3. QED
      BY <3>1, <3>2
  <2>2. QED
    BY <1>5, <2>1 DEF Refresh
<1>5a. ASSUME NEW v \in Validators, RefreshRaises(v) PROVE TypeOK'
  BY <1>5a DEF RefreshRaises
<1>6. ASSUME NEW v \in Validators, Score(v) PROVE TypeOK'
  <2>1. /\ active' \in [Validators -> Registry \cup {Nothing}]
        /\ pending' \in [Validators -> Registry \cup {Nothing}]
        /\ cache' \in [Validators -> Registry \cup {Nothing}]
        /\ astray' \subseteq Validators
        /\ held' \in [Validators -> {"file", "memory", "nowhere"}]
    <3>1. CASE Promotes(v)
      <4>1. PICK write \in Writes :
              /\ cache' = [cache EXCEPT ![v] = Saved(v, write)]
              /\ held' = [held EXCEPT ![v] =
                   IF write = "whole" \/ (write = "refused" /\ @ = "file") THEN "file" ELSE "memory"]
        BY <1>6, <3>1 DEF Score
      <4>2. Saved(v, write) \in Registry \cup {Nothing}
        BY DEF Saved
      <4>3. /\ cache' \in [Validators -> Registry \cup {Nothing}]
            /\ held' \in [Validators -> {"file", "memory", "nowhere"}]
        BY <4>1, <4>2
      <4>4. /\ active' \in [Validators -> Registry \cup {Nothing}]
            /\ pending' \in [Validators -> Registry \cup {Nothing}]
        <5>1. /\ active' = [active EXCEPT ![v] = pending[v]]
              /\ pending' = [pending EXCEPT ![v] = Nothing]
          BY <1>6, <3>1 DEF Score
        <5>2. pending[v] \in Registry \cup {Nothing}
          OBVIOUS
        <5>3. QED
          BY <5>1, <5>2
      <4>5. astray' \subseteq Validators
        <5>1. astray' \in {astray \ {v}, astray \cup {v}}
          BY <1>6, <3>1 DEF Score
        <5>2. QED
          BY <5>1
      <4>6. QED
        BY <4>3, <4>4, <4>5
    <3>2. CASE ~Promotes(v)
      BY <1>6, <3>2 DEF Score
    <3>3. QED
      BY <3>1, <3>2
  <2>2. used' \in [0..MaxHeight -> SUBSET Registry]
    <3>1. active'[v] # Nothing => active'[v] \in Registry
      BY <2>1
    <3>2. \/ used' = used
          \/ used' = [used EXCEPT ![block[v]] = @ \cup {active'[v]}] /\ active'[v] # Nothing
      BY <1>6 DEF Score
    <3>3. CASE active'[v] # Nothing /\ used' = [used EXCEPT ![block[v]] = @ \cup {active'[v]}]
      <4>1. block[v] \in 0..MaxHeight
        OBVIOUS
      <4>2. used[block[v]] \cup {active'[v]} \in SUBSET Registry
        BY <3>1, <3>3, <4>1
      <4>3. QED
        BY <3>3, <4>2
    <3>4. QED
      BY <3>2, <3>3
  <2>3. QED
    BY <1>6, <2>1, <2>2 DEF Score
<1>7. ASSUME NEW v \in Validators, Stop(v) \/ CrashInSave(v) \/ Boot(v) PROVE TypeOK'
  <2>1. CASE Stop(v)
    <3>1. /\ held' \in [Validators -> {"file", "memory", "nowhere"}]
          /\ astray' \subseteq Validators
      BY <2>1 DEF Stop
    <3>2. /\ active' \in [Validators -> Registry \cup {Nothing}]
          /\ pending' \in [Validators -> Registry \cup {Nothing}]
          /\ pc' \in [Validators -> {"idle", "refresh", "score", "down"}]
      BY <2>1 DEF Stop, Lose
    <3>3. QED
      BY <2>1, <3>1, <3>2 DEF Stop
  <2>2. CASE CrashInSave(v)
    BY <2>2 DEF CrashInSave, Lose
  <2>3. CASE Boot(v)
    BY <2>3 DEF Boot
  <2>4. QED
    BY <1>7, <2>1, <2>2, <2>3
<1>8. CASE UNCHANGED vars
  BY <1>8 DEF vars
<1>9. QED
  BY <1>1, <1>2, <1>3, <1>4, <1>5, <1>5a, <1>6, <1>7, <1>8 DEF Next, Round

LEMMA InvStep == IInv /\ [Next]_vars => IInv'
<1> SUFFICES ASSUME IInv, [Next]_vars PROVE IInv'
  OBVIOUS
<1>0. TypeOK'
  BY TypeStep DEF IInv
<1> DEFINE Inv == ManifestInv /\ SourceInv /\ OnlyCommittedLists
<1> USE RegistryAssumption, StartAssumption
    DEF IInv, TypeOK, Registries, Blocks, ManifestInv, SourceInv, OnlyCommittedLists, Trusted,
        chainVars, sourceVars, roundVars, history
<1>1. CASE NewBlock
  BY <1>1 DEF NewBlock
<1>2. ASSUME NEW m \in [list : Lists, effective_from : Blocks], Publish(m) PROVE Inv'
  BY <1>2 DEF Publish
<1>3. ASSUME NEW v \in Validators, BeginRound(v) PROVE Inv'
  <2>1. \A r \in Registry : r.effective_from \in Nat
    BY DEF Registry
  <2>2. QED
    BY <1>3, <2>1 DEF BeginRound
<1>4. ASSUME NEW v \in Validators, ChainUnreadable(v) PROVE Inv'
  BY <1>4 DEF ChainUnreadable
<1>5. ASSUME NEW v \in Validators, Refresh(v) PROVE Inv'
  <2>1. pending'[v] = pending[v]
          \/ (pending'[v] = manifest /\ manifest \in Registry /\ manifest.list \in WellFormed)
    <3>1. CASE manifest = Nothing \/ Known(v, manifest)
      BY <1>5, <3>1 DEF Refresh, Known
    <3>2. CASE ~(manifest = Nothing \/ Known(v, manifest))
      <4>1. PICK body \in Served :
              pending' = [pending EXCEPT ![v] =
                  IF Verified(body)
                  THEN [list |-> body, effective_from |-> manifest.effective_from]
                  ELSE @]
        BY <1>5, <3>2 DEF Refresh
      <4>2. CASE Verified(body)
        <5>1. body = manifest.list /\ manifest.list \in WellFormed
          BY <4>2 DEF Verified
        <5>2. manifest = [list |-> body, effective_from |-> manifest.effective_from]
          BY <3>2, <5>1 DEF Registry
        <5>3. QED
          BY <3>2, <4>1, <4>2, <5>1, <5>2
      <4>3. CASE ~Verified(body)
        BY <4>1, <4>3 DEF Verified
      <4>4. QED
        BY <4>2, <4>3
    <3>3. QED
      BY <3>1, <3>2
  <2>2. \A w \in Validators : w # v => pending'[w] = pending[w]
    BY <1>5 DEF Refresh
  <2>3. QED
    BY <1>5, <2>1, <2>2 DEF Refresh
<1>5a. ASSUME NEW v \in Validators, RefreshRaises(v) PROVE Inv'
  BY <1>5a DEF RefreshRaises
<1>6. ASSUME NEW v \in Validators, Score(v) PROVE Inv'
  <2>1. CASE Promotes(v)
    <3>1. /\ pending[v] \in Registry
          /\ Trusted(pending[v])
          /\ pending[v].effective_from <= block[v]
      BY <2>1 DEF Promotes, ActiveAt, Registry
    <3>2. /\ active' = [active EXCEPT ![v] = pending[v]]
          /\ pending' = [pending EXCEPT ![v] = Nothing]
          /\ \E r \in {cache[v], pending[v], Nothing} : cache' = [cache EXCEPT ![v] = r]
      BY <1>6, <2>1 DEF Score, Saved
    <3>3. used' = [used EXCEPT ![block[v]] = @ \cup {pending[v]}]
      BY <1>6, <3>1, <3>2 DEF Score
    <3>4. SourceInv'
      BY <1>6, <3>1, <3>2 DEF Score
    <3>5. OnlyCommittedLists'
      BY <1>6, <3>1, <3>3 DEF Score
    <3>6. QED
      BY <1>6, <3>4, <3>5 DEF Score
  <2>2. CASE ~Promotes(v)
    <3>1. active' = active /\ pending' = pending /\ cache' = cache
      BY <1>6, <2>2 DEF Score, Promotes
    <3>2. \/ used' = used
          \/ used' = [used EXCEPT ![block[v]] = @ \cup {active[v]}] /\ active[v] # Nothing
      BY <1>6, <3>1 DEF Score
    <3>3. OnlyCommittedLists'
      <4>1. \A b \in Blocks : \A r \in used'[b] :
              r \in used[b] \/ (r = active[v] /\ b = block[v] /\ active[v] # Nothing)
        <5>1. CASE used' = used
          BY <5>1
        <5>2. CASE /\ active[v] # Nothing
                   /\ used' = [used EXCEPT ![block[v]] = @ \cup {active[v]}]
          BY <5>2
        <5>3. QED
          BY <3>2, <5>1, <5>2
      <4>2. committed' = committed
        BY <1>6 DEF Score
      <4>3. ASSUME NEW b \in Blocks, NEW r \in used'[b]
            PROVE  r \in committed /\ r.list \in WellFormed /\ r.effective_from <= b
        <5>1. CASE r \in used[b]
          BY <5>1
        <5>2. CASE r = active[v] /\ b = block[v] /\ active[v] # Nothing
          BY <5>2
        <5>3. QED
          BY <4>1, <5>1, <5>2
      <4>4. QED
        BY <4>2, <4>3
    <3>4. QED
      BY <1>6, <3>1, <3>3 DEF Score
  <2>3. QED
    BY <2>1, <2>2
<1>7. ASSUME NEW v \in Validators, Stop(v) \/ CrashInSave(v) \/ Boot(v) PROVE Inv'
  <2>1. CASE Stop(v)
    BY <1>7, <2>1 DEF Stop, Lose
  <2>2. CASE CrashInSave(v)
    BY <1>7, <2>2 DEF CrashInSave, Lose
  <2>3. CASE Boot(v)
    BY <1>7, <2>3 DEF Boot
  <2>4. QED
    BY <1>7, <2>1, <2>2, <2>3
<1>8. CASE UNCHANGED vars
  BY <1>8 DEF vars
<1>9. Inv'
  BY <1>1, <1>2, <1>3, <1>4, <1>5, <1>5a, <1>6, <1>7, <1>8 DEF Next, Round
<1>10. QED
  BY <1>0, <1>9

LEMMA Inductive == Spec => []IInv
  BY InvInit, InvStep, PTL DEF Spec

\* Every variable of the registry source keeps its type: in particular what is
\* cached, pending and active is always a registry or nothing at all.
THEOREM TypeCorrect == Spec => []TypeOK
<1>1. IInv => TypeOK
  BY DEF IInv
<1>2. QED
  BY Inductive, <1>1, PTL

\* Whatever the URL serves and the disk loses, a validator scores from the
\* chain only with lists the publisher committed to, from the height committed
\* for them on (parse, approved_at, _load_cache).
THEOREM ScoredWithCommitted == Spec => []OnlyCommittedLists
<1>1. IInv => OnlyCommittedLists
  BY DEF IInv
<1>2. QED
  BY Inductive, <1>1, PTL

----------------------------------------------------------------------------
(* The schedule.                                                           *)

\* A block that v is scoring or may still score.
Ahead(v, b) == b >= height \/ (pc[v] \in {"refresh", "score"} /\ b = block[v])

Due(b) == manifest # Nothing /\ ActiveAt(manifest, b)

\* From now on the manifest is meant for every block it is due at.
ManifestAhead == \A b \in Blocks : b >= height /\ Due(b) => schedule[b] = manifest

\* What a validator that is not astray scores with is meant for every block it
\* may still score, up to the manifest's height, and the manifest from there on.
InStep ==
    \A v \in Validators : v \notin astray => \A b \in Blocks : Ahead(v, b) =>
        IF Due(b) THEN schedule[b] = manifest ELSE ListOf(active[v]) = ListOf(schedule[b])

ScheduleInv == ManifestAhead /\ InStep

LEMMA ScheduleInit == Init => ScheduleInv
  BY DEF Init, ScheduleInv, ManifestAhead, InStep, Due

\* A new manifest, for the validators it does not catch unprepared.
LEMMA PublishKeeps ==
    ASSUME IInv, ScheduleInv,
           NEW m \in [list : Lists, effective_from : Blocks], Publish(m)
    PROVE  ScheduleInv'
<1> USE RegistryAssumption DEF Blocks
<1>1. /\ manifest' = m /\ m # Nothing /\ m.effective_from \in Nat
      /\ height \in Nat /\ height' = height + 1
      /\ active' = active /\ pc' = pc /\ block' = block
  BY StartAssumption DEF Publish, Registry, IInv, TypeOK, sourceVars, roundVars
<1>2. \A b \in Blocks : schedule'[b] = IF b <= height THEN schedule[b]
                                       ELSE IF ActiveAt(m, b) THEN m ELSE schedule[height]
  BY DEF Publish
<1>3. \A b \in Blocks : Due(b)' <=> ActiveAt(m, b)
  BY <1>1 DEF Due, ActiveAt
<1>4. ManifestAhead'
  BY <1>1, <1>2, <1>3 DEF ManifestAhead
<1>5. ASSUME NEW v \in Validators, v \notin astray', NEW b \in Blocks, Ahead(v, b)'
      PROVE  IF ActiveAt(m, b) THEN schedule'[b] = m
             ELSE ListOf(active[v]) = ListOf(schedule'[b])
  <2>1. /\ v \notin astray
        /\ ListOf(active[v]) = ListOf(schedule[height])
        /\ pc[v] \in {"refresh", "score"} => ~ActiveAt(m, block[v])
    BY <1>5 DEF Publish, Unprepared
  <2>2. CASE b > height
    <3>1. b \in Nat /\ ~(b <= height)
      BY <1>1, <2>2
    <3>2. schedule'[b] = IF ActiveAt(m, b) THEN m ELSE schedule[height]
      BY <1>2, <3>1
    <3>3. QED
      BY <2>1, <3>2
  <2>3. CASE ~(b > height)
    <3>1. b = block[v] /\ pc[v] \in {"refresh", "score"} /\ b <= height
      BY <1>1, <1>5, <2>3 DEF Ahead
    <3>2. schedule'[b] = schedule[b] /\ ~ActiveAt(m, b)
      BY <1>2, <2>1, <3>1
    <3>3. CASE Due(b)
      <4>1. schedule[b] = manifest
        BY <2>1, <3>1, <3>3 DEF ScheduleInv, InStep, Ahead
      <4>2. Due(height)
        <5>1. manifest.effective_from \in Nat
          BY <3>3 DEF Due, IInv, TypeOK, Registries, Registry
        <5>2. QED
          BY <1>1, <3>1, <3>3, <5>1 DEF Due, ActiveAt
      <4>3. schedule[height] = manifest
        BY <1>1, <4>2 DEF ScheduleInv, ManifestAhead, IInv, TypeOK
      <4>4. QED
        BY <2>1, <3>2, <4>1, <4>3
    <3>4. CASE ~Due(b)
      <4>1. ListOf(active[v]) = ListOf(schedule[b])
        BY <2>1, <3>1, <3>4 DEF ScheduleInv, InStep, Ahead
      <4>2. QED
        BY <3>2, <4>1
    <3>5. QED
      BY <3>3, <3>4
  <2>4. QED
    BY <2>2, <2>3
<1>6. InStep'
  BY <1>1, <1>3, <1>5 DEF InStep
<1>7. QED
  BY <1>4, <1>6 DEF ScheduleInv

\* Any other step that leaves what has been read and promoted alone, and takes
\* nobody back to an earlier block.
LEMMA QuietKeeps ==
    ASSUME IInv, ScheduleInv, manifest' = manifest, schedule' = schedule,
           height' \in Nat, height' >= height,
           \A v \in Validators : v \notin astray' =>
               /\ v \notin astray /\ active'[v] = active[v]
               /\ \A b \in Blocks : Ahead(v, b)' => Ahead(v, b)
    PROVE  ScheduleInv'
<1>1. \A b \in Blocks : b \in Nat /\ height \in Nat
  BY RegistryAssumption DEF Blocks, IInv, TypeOK
<1>2. \A b \in Blocks : Due(b)' <=> Due(b)
  BY DEF Due, ActiveAt
<1>3. ManifestAhead'
  BY <1>1, <1>2 DEF ScheduleInv, ManifestAhead
<1>4. InStep'
  BY <1>2 DEF ScheduleInv, InStep
<1>5. QED
  BY <1>3, <1>4 DEF ScheduleInv

\* What a round does to what the validator has, and to whether it is astray.
LEMMA ScoreIs ==
    ASSUME IInv, NEW v \in Validators, Score(v)
    PROVE  /\ manifest' = manifest /\ schedule' = schedule /\ height' = height /\ block' = block
           /\ pc[v] = "score" /\ pc' = [pc EXCEPT ![v] = "idle"]
           /\ \A w \in Validators \ {v} : active'[w] = active[w]
           /\ Promotes(v) =>
                /\ active'[v] = pending[v]
                /\ pending[v] = manifest => astray' = astray \ {v}
                /\ pending[v] # manifest => astray' = astray \cup {v}
           /\ ~Promotes(v) => active'[v] = active[v] /\ astray' = astray
<1>1. CASE Promotes(v)
  BY <1>1 DEF Score, chainVars, IInv, TypeOK
<1>2. CASE ~Promotes(v)
  BY <1>2 DEF Score, chainVars, sourceVars, IInv, TypeOK
<1>3. QED
  BY <1>1, <1>2

LEMMA ScoreKeeps ==
    ASSUME IInv, ScheduleInv, NEW v \in Validators, Score(v)
    PROVE  ScheduleInv'
<1>1. /\ manifest' = manifest /\ schedule' = schedule /\ height' = height /\ block' = block
      /\ pc[v] = "score" /\ pc' = [pc EXCEPT ![v] = "idle"]
      /\ \A w \in Validators \ {v} : active'[w] = active[w]
  BY ScoreIs
<1>2. height \in Nat /\ block[v] \in Nat /\ block[v] <= height
      /\ pc \in [Validators -> {"idle", "refresh", "score", "down"}]
  BY RegistryAssumption DEF Blocks, IInv, TypeOK, SourceInv
<1>3. \A w \in Validators : \A b \in Blocks : Ahead(w, b)' => Ahead(w, b)
  BY <1>1, <1>2 DEF Ahead
<1>4. CASE Promotes(v) /\ pending[v] = manifest
  <2>1. astray' = astray \ {v} /\ active'[v] = manifest
    BY <1>4, ScoreIs
  <2>2. \A b \in Blocks : Due(b)' <=> Due(b)
    BY <1>1 DEF Due, ActiveAt
  <2>3. ManifestAhead'
    BY <1>1, <2>2 DEF ScheduleInv, ManifestAhead
  <2>4. ASSUME NEW b \in Blocks, Ahead(v, b)' PROVE Due(b) /\ schedule[b] = manifest
    <3>1. b >= height /\ b \in Nat
      BY <1>1, <1>2, <2>4, RegistryAssumption DEF Ahead, Blocks
    <3>2. Due(block[v]) /\ manifest.effective_from \in Nat
      BY <1>4 DEF Promotes, Due, IInv, TypeOK, Registries, Registry
    <3>3. Due(b)
      BY <1>2, <3>1, <3>2 DEF Due, ActiveAt
    <3>4. QED
      BY <3>1, <3>3 DEF ScheduleInv, ManifestAhead
  <2>5. ASSUME NEW w \in Validators \ {v}, w \notin astray', NEW b \in Blocks, Ahead(w, b)'
        PROVE  IF Due(b) THEN schedule[b] = manifest ELSE ListOf(active[w]) = ListOf(schedule[b])
    BY <1>3, <2>1, <2>5 DEF ScheduleInv, InStep
  <2>6. InStep'
    BY <1>1, <2>2, <2>4, <2>5 DEF InStep
  <2>7. QED
    BY <2>3, <2>6 DEF ScheduleInv
<1>5. CASE ~(Promotes(v) /\ pending[v] = manifest)
  <2>1. \A w \in Validators : w \notin astray' => w \notin astray /\ active'[w] = active[w]
    BY <1>1, <1>5, ScoreIs
  <2>2. QED
    BY <1>1, <1>2, <1>3, <2>1, QuietKeeps
<1>6. QED
  BY <1>4, <1>5

LEMMA ScheduleStep == IInv /\ ScheduleInv /\ [Next]_vars => ScheduleInv'
<1> SUFFICES ASSUME IInv, ScheduleInv, [Next]_vars PROVE ScheduleInv'
  OBVIOUS
<1>0. /\ height \in Nat /\ \A b \in Blocks : b \in Nat
      /\ pc \in [Validators -> {"idle", "refresh", "score", "down"}]
      /\ block \in [Validators -> Blocks]
      /\ active \in [Validators -> Registries]
  BY RegistryAssumption DEF Blocks, IInv, TypeOK
<1> USE DEF chainVars, sourceVars, roundVars, history
<1>1. CASE NewBlock
  <2>1. /\ height' = height + 1 /\ manifest' = manifest /\ schedule' = schedule
        /\ active' = active /\ astray' = astray /\ pc' = pc /\ block' = block
    BY <1>1 DEF NewBlock
  <2>2. \A v \in Validators, b \in Blocks : Ahead(v, b)' => Ahead(v, b)
    BY <1>0, <2>1 DEF Ahead
  <2>3. QED
    BY <1>0, <2>1, <2>2, QuietKeeps
<1>2. ASSUME NEW m \in [list : Lists, effective_from : Blocks], Publish(m) PROVE ScheduleInv'
  BY <1>2, PublishKeeps
<1>3. ASSUME NEW v \in Validators,
             BeginRound(v) \/ ChainUnreadable(v) \/ Refresh(v) \/ RefreshRaises(v) \/ Boot(v)
      PROVE  ScheduleInv'
  <2>1. /\ height' = height /\ manifest' = manifest /\ schedule' = schedule
        /\ active' = active /\ astray' = astray
    BY <1>3 DEF BeginRound, ChainUnreadable, Refresh, RefreshRaises, Boot
  <2>2. \A w \in Validators, b \in Blocks : Ahead(w, b)' => Ahead(w, b)
    BY <1>0, <1>3 DEF Ahead, BeginRound, ChainUnreadable, Refresh, RefreshRaises, Boot
  <2>3. QED
    BY <1>0, <2>1, <2>2, QuietKeeps
<1>4. ASSUME NEW v \in Validators, Score(v) PROVE ScheduleInv'
  BY <1>4, ScoreKeeps
<1>5. ASSUME NEW v \in Validators, Stop(v) \/ CrashInSave(v) PROVE ScheduleInv'
  <2>1. /\ height' = height /\ manifest' = manifest /\ schedule' = schedule /\ block' = block
        /\ pc' = [pc EXCEPT ![v] = "down"]
        /\ \A w \in Validators : w \notin astray' => w \notin astray /\ active'[w] = active[w]
    BY <1>0, <1>5 DEF Stop, CrashInSave, Lose
  <2>2. \A w \in Validators, b \in Blocks : Ahead(w, b)' => Ahead(w, b)
    BY <1>0, <2>1 DEF Ahead
  <2>3. QED
    BY <1>0, <2>1, <2>2, QuietKeeps
<1>6. CASE UNCHANGED vars
  <2>1. /\ height' = height /\ manifest' = manifest /\ schedule' = schedule
        /\ active' = active /\ astray' = astray /\ pc' = pc /\ block' = block
    BY <1>6 DEF vars
  <2>2. \A w \in Validators, b \in Blocks : Ahead(w, b)' => Ahead(w, b)
    BY <2>1 DEF Ahead
  <2>3. QED
    BY <1>0, <2>1, <2>2, QuietKeeps
<1>7. QED
  BY <1>1, <1>2, <1>3, <1>4, <1>5, <1>6 DEF Next, Round

\* Every validator that is not astray scores each block with the list meant for
\* it (registry_source.py:22, :112), for every publisher and through every
\* fault; and so no two of them score one block with different lists.
THEOREM OneSchedule == Spec => FollowsSchedule
<1>1. IInv /\ ScheduleInv /\ [Next]_vars =>
        [\A v \in Validators :
           /\ pc[v] = "score" /\ pc'[v] = "idle"
           /\ v \notin astray \cup astray'
           /\ manifest # Nothing /\ ActiveAt(manifest, block[v]) => HasManifest(v)
           => ListOf(active'[v]) = ListOf(schedule[block[v]])]_vars
  <2> SUFFICES ASSUME IInv, ScheduleInv, [Next]_vars, NEW v \in Validators,
                      pc[v] = "score", pc'[v] = "idle", v \notin astray, v \notin astray',
                      Due(block[v]) => HasManifest(v)
               PROVE  ListOf(active'[v]) = ListOf(schedule[block[v]])
    BY DEF Due
  <2>1. Score(v)
    BY DEF Next, Round, vars, roundVars, NewBlock, Publish, BeginRound, ChainUnreadable, Refresh,
           RefreshRaises, Score, Stop, CrashInSave, Boot, Lose, IInv, TypeOK
  <2>2. IF Due(block[v]) THEN schedule[block[v]] = manifest
        ELSE ListOf(active[v]) = ListOf(schedule[block[v]])
    BY DEF ScheduleInv, InStep, Ahead, IInv, TypeOK
  <2>3. CASE Promotes(v)
    <3>1. pending[v] = manifest /\ active'[v] = manifest
      BY <2>1, <2>3, ScoreIs
    <3>2. Due(block[v])
      BY <2>3, <3>1 DEF Promotes, Due
    <3>3. QED
      BY <2>2, <3>1, <3>2
  <2>4. CASE ~Promotes(v)
    <3>1. active'[v] = active[v]
      BY <2>1, <2>4, ScoreIs
    <3>2. Due(block[v]) => ListOf(active[v]) = ListOf(manifest)
      BY <2>4 DEF HasManifest, Promotes, Due
    <3>3. QED
      BY <2>2, <3>1, <3>2
  <2>5. QED
    BY <2>3, <2>4
<1>2. QED
  BY InvInit, InvStep, ScheduleInit, ScheduleStep, <1>1, PTL DEF Spec, FollowsSchedule

----------------------------------------------------------------------------
(* The flags.                                                              *)

\* Where a list is held, there it is: what is in the file comes back with a
\* restart, what is in memory as long as there is none.
HeldInv ==
    \A v \in Validators :
        /\ held[v] = "file" => cache[v] # Nothing
        /\ held[v] # "nowhere" => active[v] # Nothing

LEMMA HeldStep ==
    TypeOK /\ HeldInv /\ [Next]_vars
      => /\ HeldInv'
         /\ \A v \in Validators : basis[v] = "chain" /\ held[v] # "nowhere" => basis'[v] = "chain"
<1> DEFINE Kept == \A v \in Validators : basis[v] = "chain" /\ held[v] # "nowhere" => basis'[v] = "chain"
<1> SUFFICES ASSUME TypeOK, HeldInv, [Next]_vars PROVE HeldInv' /\ Kept
  OBVIOUS
<1> USE DEF TypeOK, HeldInv, chainVars, sourceVars, roundVars, history
<1>1. ASSUME NEW v \in Validators, Score(v) PROVE HeldInv' /\ Kept
  <2>1. \/ active'[v] # Nothing /\ basis' = [basis EXCEPT ![v] = "chain"]
        \/ /\ active'[v] = Nothing
           /\ basis' = [basis EXCEPT ![v] = IF v \in HasFlags THEN "flags" ELSE @]
    BY <1>1 DEF Score
  <2>2. CASE Promotes(v)
    <3>1. PICK write \in Writes :
            /\ cache' = [cache EXCEPT ![v] = Saved(v, write)]
            /\ held' = [held EXCEPT ![v] =
                 IF write = "whole" \/ (write = "refused" /\ @ = "file") THEN "file" ELSE "memory"]
      BY <1>1, <2>2 DEF Score
    <3>2. pending[v] # Nothing /\ active' = [active EXCEPT ![v] = pending[v]]
      BY <1>1, <2>2 DEF Score, Promotes
    <3>3. HeldInv'
      BY <3>1, <3>2 DEF Saved
    <3>4. Kept
      BY <2>1, <3>2
    <3>5. QED
      BY <3>3, <3>4
  <2>3. CASE ~Promotes(v)
    <3>1. active' = active /\ cache' = cache /\ held' = held
      BY <1>1, <2>3 DEF Score
    <3>2. HeldInv'
      BY <3>1
    <3>3. Kept
      BY <2>1, <3>1
    <3>4. QED
      BY <3>2, <3>3
  <2>4. QED
    BY <2>2, <2>3
<1>2. ASSUME NEW v \in Validators, Stop(v) PROVE HeldInv' /\ Kept
  BY <1>2 DEF Stop, Lose
<1>3. ASSUME NEW v \in Validators, CrashInSave(v) PROVE HeldInv' /\ Kept
  BY <1>3 DEF CrashInSave, Lose
<1>4. ASSUME NEW v \in Validators,
             Boot(v) \/ BeginRound(v) \/ ChainUnreadable(v) \/ Refresh(v) \/ RefreshRaises(v)
      PROVE  HeldInv' /\ Kept
  BY <1>4 DEF Boot, BeginRound, ChainUnreadable, Refresh, RefreshRaises
<1>5. ASSUME NewBlock \/ \E m \in [list : Lists, effective_from : Blocks] : Publish(m)
      PROVE  HeldInv' /\ Kept
  BY <1>5 DEF NewBlock, Publish
<1>6. CASE UNCHANGED vars
  BY <1>6 DEF vars
<1>7. QED
  BY <1>1, <1>2, <1>3, <1>4, <1>5, <1>6 DEF Next, Round

\* A restart during an outage does not drop a validator to its flags
\* (registry_source.py:204) unless its list was nowhere but in the memory of the
\* process that ended: whatever the outages, failed writes and torn files.
THEOREM FlagsBehind == Spec => NeverBackToFlags
<1>1. Init => HeldInv
  BY DEF Init, HeldInv
<1>2. TypeOK /\ HeldInv /\ [Next]_vars => HeldInv'
  BY HeldStep
<1>3. TypeOK /\ HeldInv /\ [Next]_vars
        => [\A v \in Validators :
              basis[v] = "chain" /\ held[v] # "nowhere" => basis'[v] = "chain"]_vars
  BY HeldStep
<1>4. QED
  BY <1>1, <1>2, <1>3, TypeCorrect, PTL DEF Spec, NeverBackToFlags
=============================================================================
