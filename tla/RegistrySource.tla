--------------------------- MODULE RegistrySource ---------------------------
(***************************************************************************)
(* How validators come by the approved measurements: the commitment of the *)
(* publisher on chain (scripts/publish_measurements.py), the file it       *)
(* points at, and in each validator a RegistrySource                       *)
(* (sentinel/registry_source.py) driven by one_round (run_validator.py).   *)
(* A list stands for its bytes and for their digest.                       *)
(***************************************************************************)
EXTENDS Naturals, FiniteSets

CONSTANTS
    Validators,
    Lists,            \* registry files
    WellFormed,       \* those parse() accepts: a known version, some images
    HasFlags,         \* validators that were given --measurement
    Faults,           \* what goes wrong, of FaultKinds
    Publisher,        \* how it picks heights, one of Publishers
    InForce,          \* what every validator has when the model starts, or Nothing
    Nothing,          \* no manifest, no registry, no file
    MaxHeight, MaxCommits     \* bounds: blocks, and manifests committed

\* Any list at any height; or a list that parses, so far ahead that every
\* validator has read the manifest before it applies.
Publishers == {"any", "ahead"}

FaultKinds == {"outage", "disk", "crash"}

ASSUME RegistryAssumption ==
    /\ WellFormed \subseteq Lists
    /\ HasFlags \subseteq Validators
    /\ Faults \subseteq FaultKinds
    /\ Publisher \in Publishers
    /\ MaxHeight \in Nat
    /\ MaxCommits \in Nat
    /\ Nothing \notin Lists

\* A registry and the height the chain gave it.  Its file is a registry's, but
\* the height is the chain's alone.
Registry == [list : Lists, effective_from : Nat]

ASSUME StartAssumption ==
    /\ Nothing \notin Registry
    /\ InForce \in Registry \cup {Nothing}
    /\ InForce # Nothing => InForce.list \in WellFormed /\ InForce.effective_from = 0

VARIABLES
    height,       \* the chain's
    manifest,     \* what the publisher has committed
    committed,    \* every manifest it ever did (history)
    informed,     \* validators that have read this one since
    active, pending,    \* RegistrySource.active, .pending
    cache,        \* the cache file: a registry, or Nothing if absent or unreadable
    pc, block,    \* where one_round is, and the block it read first
    used,         \* the registries scored with at each block (history)
    basis,        \* what the last scored round rested on (history)
    schedule,     \* the registry the publisher means for each block (history)
    astray,       \* validators that cannot be on the schedule (history)
    held          \* where the list a validator took last still is (history)

chainVars == <<height, manifest, committed, informed, schedule>>
sourceVars == <<active, pending, cache>>
roundVars == <<pc, block>>
history == <<used, basis, astray, held>>
vars == <<chainVars, sourceVars, roundVars, history>>

Blocks == 0..MaxHeight

----------------------------------------------------------------------------
Init ==
    /\ height = 0 /\ manifest = InForce /\ committed = {InForce} \ {Nothing}
    /\ informed = Validators
    /\ active = [v \in Validators |-> InForce]
    /\ pending = [v \in Validators |-> Nothing]
    /\ cache = [v \in Validators |-> InForce]
    /\ pc = [v \in Validators |-> "idle"]
    /\ block = [v \in Validators |-> 0]
    /\ used = [b \in Blocks |-> {}]
    /\ basis = [v \in Validators |-> "none"]
    /\ schedule = [b \in Blocks |-> InForce]
    /\ astray = {}
    /\ held = [v \in Validators |-> IF InForce = Nothing THEN "nowhere" ELSE "file"]

(* The chain and its publisher *)

\* Mutant of Known: the heights are compared.
KnownHeight(v, m) ==
    \E r \in {active[v], pending[v]} \ {Nothing} : r.effective_from = m.effective_from

\* refresh(): is the digest that of the active or the pending registry?
Known(v, m) == \E r \in {active[v], pending[v]} \ {Nothing} : r.list = m.list

\* DEFAULT_LEAD_BLOCKS: "long enough that every one of them has read the new
\* manifest before it applies".
InTime ==
    Publisher # "any" /\ manifest # Nothing /\ manifest.effective_from = height + 1
        => informed = Validators

NewBlock ==
    /\ height < MaxHeight
    /\ InTime
    /\ height' = height + 1
    /\ UNCHANGED <<manifest, committed, informed, schedule, sourceVars, roundVars, history>>

\* Mutant of ActiveAt: a list applies as soon as it has been read.
ActiveAtOnce(r, b) == TRUE

\* Registry.active_at
ActiveAt(r, b) == b >= r.effective_from

ListOf(r) == IF r = Nothing THEN Nothing ELSE r.list

\* The validators a manifest catches unprepared: those not yet on the list in
\* force, which the new one may keep from ever applying, and those in a round
\* at a block it already applies to.
Unprepared(m) ==
    {v \in Validators :
        \/ ListOf(active[v]) # ListOf(schedule[height])
        \/ pc[v] \in {"refresh", "score"} /\ ActiveAt(m, block[v])}

\* publish(): the commitment is in the next block.  --effective-from takes any
\* height, also one that has passed, --file any list, an earlier one or the same
\* again included.  It parses the list first, as its own release does: only a
\* publisher of another version commits to one that validators do not accept.
Publish(m) ==
    /\ Cardinality(committed) < MaxCommits
    /\ m # manifest
    /\ height < MaxHeight
    /\ InTime
    /\ Publisher # "any" => m.list \in WellFormed /\ m.effective_from > height + 1
    /\ height' = height + 1
    /\ manifest' = m
    /\ committed' = committed \cup {m}
    /\ informed' = {}
    /\ schedule' = [b \in Blocks |-> IF b <= height THEN schedule[b]
                                   ELSE IF ActiveAt(m, b) THEN m ELSE schedule[height]]
    /\ astray' = astray \cup Unprepared(m)
    /\ UNCHANGED <<sourceVars, roundVars, used, basis, held>>

(* A validator *)

\* one_round reads the metagraph, and its block, first.
BeginRound(v) ==
    /\ pc[v] = "idle"
    /\ pc' = [pc EXCEPT ![v] = "refresh"]
    /\ block' = [block EXCEPT ![v] = height]
    /\ UNCHANGED <<chainVars, sourceVars, history>>

\* refresh() returns False on chain trouble: a warning, and on to scoring.
ChainUnreadable(v) ==
    /\ pc[v] = "refresh"
    /\ "outage" \in Faults
    /\ pc' = [pc EXCEPT ![v] = "score"]
    /\ UNCHANGED <<chainVars, sourceVars, block, history>>

\* What the URL serves.
Served == IF "outage" \in Faults THEN Lists \cup {Nothing} ELSE {manifest.list}

\* Mutant of Verified: whatever came is taken.
Unchecked(body) == TRUE

\* parse(): the digest is the chain's, and the file is a registry.
Verified(body) == body = manifest.list /\ body \in WellFormed

\* refresh(): read the manifest, as it is now; then, if its digest is new,
\* fetch the list and let it wait.
Refresh(v) ==
    /\ pc[v] = "refresh"
    /\ pc' = [pc EXCEPT ![v] = "score"]
    /\ informed' = informed \cup {v}
    /\ IF manifest = Nothing \/ Known(v, manifest)
       THEN UNCHANGED pending
       ELSE \E body \in Served :
              pending' = [pending EXCEPT ![v] =
                  IF Verified(body)
                  THEN [list |-> body, effective_from |-> manifest.effective_from]
                  ELSE @]
    /\ UNCHANGED <<height, manifest, committed, schedule, active, cache, block, history>>

\* Only RegistryError is caught on the way.  A connection that breaks while the
\* body is read, bytes that are no UTF-8, JSON that is no object, and a file
\* without a netuid, whatever its digest, raise something else: out of
\* refresh(), and the round ends without scores (main: "round failed").
RefreshRaises(v) ==
    /\ pc[v] = "refresh"
    /\ manifest # Nothing /\ ~Known(v, manifest)
    /\ \E body \in Served : body \notin WellFormed
    /\ pc' = [pc EXCEPT ![v] = "idle"]
    /\ informed' = informed \cup {v}
    /\ UNCHANGED <<height, manifest, committed, schedule, sourceVars, block, history>>

\* Mutant of Promotes: due at the chain's height, not at the round's.
PromotesNow(v) == pending[v] # Nothing /\ ActiveAt(pending[v], height)

Promotes(v) == pending[v] # Nothing /\ ActiveAt(pending[v], block[v])

\* How _save_cache goes: the file is written; or it cannot be opened, and stays;
\* or it has been truncated when the disk turns out to be full.
Writes == {"whole"} \cup (IF "disk" \in Faults THEN {"refused", "torn"} ELSE {})

\* Mutant of Saved: nothing is written.
SavedNever(v, write) == cache[v]

\* The cache file after it; _load_cache ignores a torn one.
Saved(v, write) ==
    CASE write = "whole" -> pending[v]
      [] write = "refused" -> cache[v]
      [] OTHER -> Nothing

\* approved_at: promote what is due, and score with what is active, or with the
\* operator's flags, or not at all.
Score(v) ==
    /\ pc[v] = "score"
    /\ pc' = [pc EXCEPT ![v] = "idle"]
    /\ IF Promotes(v)
       THEN /\ active' = [active EXCEPT ![v] = pending[v]]
            /\ pending' = [pending EXCEPT ![v] = Nothing]
            /\ \E write \in Writes :
                 /\ cache' = [cache EXCEPT ![v] = Saved(v, write)]
                 /\ held' = [held EXCEPT ![v] =
                      IF write = "whole" \/ (write = "refused" /\ @ = "file") THEN "file" ELSE "memory"]
            /\ astray' = IF pending[v] = manifest THEN astray \ {v} ELSE astray \cup {v}
       ELSE UNCHANGED <<sourceVars, astray, held>>
    /\ IF active'[v] # Nothing
       THEN /\ used' = [used EXCEPT ![block[v]] = @ \cup {active'[v]}]
            /\ basis' = [basis EXCEPT ![v] = "chain"]
       ELSE /\ basis' = [basis EXCEPT ![v] = IF v \in HasFlags THEN "flags" ELSE @]
            /\ UNCHANGED used
    /\ UNCHANGED <<chainVars, block>>

\* The process ends: what it had pending is gone, what it had active is what
\* the next one will find in the cache file.
Lose(v, r) ==
    /\ active' = [active EXCEPT ![v] = r]
    /\ pending' = [pending EXCEPT ![v] = Nothing]
    /\ pc' = [pc EXCEPT ![v] = "down"]

Stop(v) ==
    /\ pc[v] # "down"
    /\ Lose(v, cache[v])
    /\ astray' = IF cache[v] = active[v] THEN astray ELSE astray \cup {v}
    /\ held' = [held EXCEPT ![v] = IF @ = "file" THEN "file" ELSE "nowhere"]
    /\ UNCHANGED <<chainVars, cache, block, used, basis>>

\* write_text truncates the file before it writes: a process that ends in
\* between leaves one that _load_cache ignores.
CrashInSave(v) ==
    /\ "crash" \in Faults
    /\ pc[v] = "score" /\ Promotes(v)
    /\ cache' = [cache EXCEPT ![v] = Nothing]
    /\ Lose(v, Nothing)
    /\ astray' = astray \cup {v}
    /\ held' = [held EXCEPT ![v] = "nowhere"]
    /\ UNCHANGED <<chainVars, block, used, basis>>

\* RegistrySource.__init__, with _load_cache
Boot(v) ==
    /\ pc[v] = "down"
    /\ pc' = [pc EXCEPT ![v] = "idle"]
    /\ UNCHANGED <<chainVars, sourceVars, block, history>>

Round(v) == BeginRound(v) \/ ChainUnreadable(v) \/ Refresh(v) \/ RefreshRaises(v) \/ Score(v)

Next ==
    \/ NewBlock
    \/ \E m \in [list : Lists, effective_from : Blocks] : Publish(m)
    \/ \E v \in Validators : Round(v) \/ Stop(v) \/ CrashInSave(v) \/ Boot(v)

Spec == Init /\ [][Next]_vars

\* A refresh that gets through, and finds the list at its URL.
Succeeds(v) ==
    /\ Refresh(v)
    /\ manifest # Nothing /\ manifest.list \in WellFormed
         => Known(v, manifest) \/ pending'[v] = manifest

\* The daemon's loop runs, blocks come, and an outage ends now and then.
FairSpec == Spec /\ WF_vars(NewBlock)
                 /\ \A v \in Validators : WF_vars(Boot(v) \/ Round(v)) /\ SF_vars(Succeeds(v))

----------------------------------------------------------------------------
(* Properties                                                              *)

Registries == Registry \cup {Nothing}

\* Every variable has its type; the type invariant of the registry.
TypeOK ==
    /\ height \in Blocks
    /\ manifest \in Registries
    /\ committed \subseteq Registry
    /\ informed \subseteq Validators
    /\ active \in [Validators -> Registries]
    /\ pending \in [Validators -> Registries]
    /\ cache \in [Validators -> Registries]
    /\ pc \in [Validators -> {"idle", "refresh", "score", "down"}]
    /\ block \in [Validators -> Blocks]
    /\ used \in [Blocks -> SUBSET Registry]
    /\ basis \in [Validators -> {"none", "chain", "flags"}]
    /\ schedule \in [Blocks -> Registries]
    /\ astray \subseteq Validators
    /\ held \in [Validators -> {"file", "memory", "nowhere"}]

\* Whatever the URL serves, whatever is lost to outages, restarts and torn
\* cache files: a validator scores from the chain only with a list the
\* publisher committed to, at a height it had set for that list.
OnlyCommittedLists ==
    \A b \in Blocks : \A r \in used[b] :
        r \in committed /\ r.list \in WellFormed /\ r.effective_from <= b

\* registry_source.py:22, "every validator switches at the same block
\* regardless of when it polled": no two validators score one block with
\* different lists of the chain.  Not true, even of a publisher that leaves
\* everyone the time to read: see FollowsSchedule for what is.
AgreeAtEachBlock ==
    \A b \in Blocks : \A r, s \in used[b] : r.list = s.list

\* The manifest, wherever it came from, is what v scores with when it is due.
HasManifest(v) == pending[v] = manifest \/ ListOf(active[v]) = ListOf(manifest)

\* Whatever the publisher does and whatever fails, a validator scores each block
\* with the list that is meant for it, and so with the same as every other one
\* (approved_at), but for these: the manifest is due at the block and it has not
\* got it; it has promoted a list that was no longer the manifest; it has
\* restarted from something else than it scored with; or a manifest came before
\* it was on the one before, or in a round at a block that manifest is due at.
\* All of that is over once it promotes the manifest of the day.
FollowsSchedule ==
    [][\A v \in Validators :
          /\ pc[v] = "score" /\ pc'[v] = "idle"
          /\ v \notin astray \cup astray'
          /\ manifest # Nothing /\ ActiveAt(manifest, block[v]) => HasManifest(v)
          => ListOf(active'[v]) = ListOf(schedule[block[v]])]_vars

\* registry_source.py:204, "A restart during an outage should not drop to the
\* flags": once a validator has scored from the chain it goes on to, as long as
\* its list is in a cache file that was written whole or in the memory of the
\* process that failed to write it.
NeverBackToFlags ==
    [][\A v \in Validators :
          basis[v] = "chain" /\ held[v] # "nowhere" => basis'[v] = "chain"]_vars

\* The outage over and the publisher content, every validator that is not
\* restarted for ever ends up with the committed list.
Converges ==
    \A v \in Validators :
        <>[](pc[v] # "down")
            => <>[](manifest # Nothing /\ manifest.list \in WellFormed
                      => active[v] # Nothing /\ active[v].list = manifest.list)
=============================================================================
