# Sentinel: a verification project

Sentinel is a Bittensor subnet whose miners run inside AMD SEV-SNP guests. A
miner proves to a customer's key broker which code it runs, gets the customer's
database credential, and answers queries with an attestation over each answer;
validators probe the miners, check the attestations against a list of approved
measurements that the publisher commits on chain, and set weights. In front of
it stands a Go gateway with billing, and a Python sidecar that proxies language
models.

This directory holds TLA+ models of the parts of it whose correctness depends on
the order of events, the TLC runs that check them, and TLAPS proofs of the
properties that matter most. Paths below are relative to `src/`.

Run a model with `tlc -config <run>.cfg <MC module>`, a proof with
`tlapm <module>Proofs.tla`. `PROJECT.json` lists the runs, the mutants that show
each property can fail, the source lines of every definition, the hazards and
the findings.

## 1. Inventory

| Part | State | Operations | Talks to | What is hard | What makes it correct |
|---|---|---|---|---|---|
| Key broker (`sentinel/kbs.py`, server half of `kbs_remote.py`, `serving/server.py`) | `_issued_nonces` (nonce → deadline), secrets, policy, registered keys | `challenge`, `release`, `_expire_nonces` | enclaves over HTTP, one thread per connection, no lock | nonce check and pop are two steps; two threads sweep one table; a deadline passes mid-call | a credential only goes to approved code, for the resource the proof is bound to, over a live challenge, once |
| Attestation verdicts (`attestation.py`, `sevsnp/{verifier,certs,report}.py`) | none | `verify`, `verify_vcek`, `SevSnpPolicy.check` | broker, validators | certificate slots filled by the caller | only a chain that ends in AMD's pinned root counts |
| Firmware channel (`sevsnp/guest.py`) | `_lock`, the lock file and its flock, cached identity, the guest's message key | `sign`, `chip_id`, `measurement`, `certificates` | the kernel's `/dev/sev-guest`; other processes through the lock file | two locks, two requests per certificate fetch, degradation when the file cannot be opened, processes killed anywhere | never two requests at once; locks always come free |
| Miner host (`deploy/sentinel-watchdog.sh`, the latch in `serving/handler.py`, systemd) | latched error, failure counter, reboot log in a file | `/health`, watchdog loop, reboot | each other through `/health` and the file | restarts of miner, watchdog and host in any order, a breaker counted over a sliding window | no more than `MAX_REBOOTS` per window; a latched miner is rebooted in the end |
| Measurement registry (`registry_source.py`, `registry.py`, `scripts/run_validator.py`, `scripts/publish_measurements.py`) | commitment on chain, pending and active registry, cache file | `publish`, `refresh`, `approved_at`, `_save_cache`, `_load_cache` | chain, a URL that may serve anything, the cache file | polls at different heights, restarts, torn caches, outages, rescheduled lists | only committed lists, every validator on the list meant for the block |
| Miner serving (`serving/handler.py`, `apikeys.py`, `client.py`, `scripts/run_miner.py`) | replay store, allowlist, latched error | `/challenge`, `/call`, `/health`, `refresh_allowlist` | validators, enclave, chain | nonce consumed before authorisation; allowlist rebuilt under readers; replay store lost in a restart | the work of a signed request is done once, for an allowed caller only; permits take effect |
| Enclave (`enclave.py`, `RemoteBroker`) | the unlocked secret | `unlock`, `attest_result`, `run_attested` | broker, chip, database | a lost answer to `/release` | the secret is held only by attested code; every answer is bound to its request |
| Validating (`validating/*`, `run_validator.py`) | the evaluator's approved list, the answers of a round, the weights on chain | `one_round`, `evaluate_round`, `_probe`, `weights_from`, `set_weights` | miners, registry, chain | list, endpoints and permit move during a round; majority votes and ties; one miner's failure | what is paid for is fresh and proved; liars in the minority decide nothing; honest miners are paid in the end |
| Gateway (`gateway/main.go`, `scan.go`, `db/db.go`) | requests in progress | `resolveCaller`, chat, stream, risk scan, revocation, `bill` | sidecar, database, Stripe | check of the balance before the answer, deduction after it in a goroutine of its own; restarts | nothing is answered without credit; an answer is charged once |
| Billing, keys, auth (`gateway/billing`, `keys`, `auth`, `postgres/schema.sql`) | balances, purchases, keys, magic links | `DeductBalance`, `CreateCheckoutSession`, `HandleWebhook`, create, redeem | Postgres, Stripe | webhook redelivery, concurrent deductions, a database that is away | a purchase is credited once, and in the end; a balance is never negative |
| x402, rate limit (`gateway/x402`, `ratelimit`) | nonces, window counters | `issueNonce`, `Verify`, `consumeNonce`, `Allow`, `Cleanup` | the above | a proof presented twice or late, window edges | a challenge buys one answer; a limit is kept per window |
| Sidecar (`sidecar/main.py`) | one shared HTTP client | query, stream, fall back, reset client | model providers | time-outs that add up; a reset under others' requests | a response is always closed; the first token is in time; Groq comes last; each request ends |
| Certificate table, database tools, chain access, scripts, deployment, tests | little or none | | | | parsers, library calls, tooling |

The components with their sources and status are in `PROJECT.json`
"components", the hard behaviours, each at its line, under "hazards".

## 2. What is modelled

Each module starts with the state it has in common with the code; every
definition that stands for code has its lines in `PROJECT.json` "map".

| Module | Models | Code |
|---|---|---|
| `Attestation` | both verdicts, as operators over perfect cryptography | `attestation.verify`, `CertChain.verify_self`, `verify_vcek`, `SevSnpPolicy.check` |
| `KeyBroker` | the broker under concurrent handler threads | `KeyBroker`, `BrokerHandler`, `verifier_factory` |
| `CredentialRelease` | what the broker promises, without threads and clocks | the abstract specification `KeyBroker` implements |
| `SevGuest` | the firmware channel and its users on one chip | `SevSnpSilicon`, `sev_guest_exclusive`, `request_ext_report` |
| `MinerHost` | chip, miner process, systemd, watchdog, reboot | `sentinel-watchdog.sh`, `MinerHandler.handle` and `_health` |
| `RegistrySource` | publisher, chain, several validators and their caches | `RegistrySource`, `Registry`, `one_round`, `publish` |
| `MinerServing` | handler threads, replay store, allowlist and its refresh, restarts | `MinerHandler`, `resolve_allowlist`, `refresh_allowlist`, `ApiKeyStore` |
| `Validating` | a validator's rounds while list, endpoints and permit move | `one_round`, `MinerEvaluator`, `scoring.py`, `weights.py`, `discover_miners` |
| `Gateway` | concurrent paid requests, purchases, restarts, a database that goes away | `resolveCaller`, `handleChatCompletion`, `handleRiskScan`, `bill`, `billing.go`, `ratelimit.go`, `x402.go`, `keys.Lookup` |
| `PrepaidLedger` | what a prepaid account may count on, without goroutines, limits and webhooks | the abstract specification `Gateway` implements |
| `Sidecar` | concurrent requests over a chain of models and one shared client | `query`, `_route_*`, `_open_upstream_stream`, `_stream_body`, `_try_model`, `_groq_backstop`, `_reset_client` |
| `MC*` | constants for TLC | |
| `*Proofs` | the theorems | |

### Key broker

A thread's call is cut where it looks at the shared dictionary: `CallChallenge`
and `CallRelease` copy the expired entries (`BeginSweep`), `SweepOne` is one
`del`, `Issue` stores a nonce with its `Deadline`, `CheckNonce` is the membership
test, `VerifyReport` the whole of `_verify_sevsnp` or `_verify_registered_key`,
`Spend` the pop and the return of the secret. `BrokerHandler` turns nothing but
`CredentialReleaseError` into an answer, so there are two kinds of call that get
none (`"crashed"`): a `del` on an entry that another thread has deleted raises
`KeyError` (`SweepOne`), and so may the verifier (`Raises`): a leaf that is not DER
(`ValueError`), a certificate whose key or signature algorithm the library lacks
(`UnsupportedAlgorithm`, `VcekRaises` in the order of `verify_vcek`), a signature that
is no text (`TypeError`). Other JSON of the wrong type (a nonce that cannot be hashed,
a level that cannot be compared) raises like the last and is not told apart from
it. The order in which the copied entries are deleted is left open. `alone` is a
history of the calls during which no other was under way. Signatures and hashes
are perfect: a signature carries the key that made it, and the only assumption
about certificates is that AMD's keys sign AMD's keys (`AmdAssumption`).

### Firmware channel

A call passes `EnterMutex`, `OpenLock`, `TakeFlock`, `Send`, one `Return` or two,
`Unlock`, `LeaveMutex` and `Store`. `OpenLock` fails as `os.open` does, for a
process whose unit does not grant `/run/lock` and for a file another account made
under a umask that took its write bit; the code then goes on without the lock,
and so does the model. The firmware is taken as `guest.py` describes it: two
requests in flight, or one that times out, and the message key is gone until a
reboot. The `protected_regular` sysctl is not modelled (it only makes `OpenLock`
fail more often).

### Miner host

One tick is `CHECK_INTERVAL`. `Turn` is one turn of the watchdog's loop, cut in
two where it matters: `RecordReboot` writes the log, `Reboot` asks for the
reboot, and the watchdog may die between the two. Ages stand for the log's
timestamps; the wall clock does not step back. `systemctl reboot` stops the
watchdog before its next turn.

### Registry

A list stands for its bytes and their digest. A round (`BeginRound`, `Refresh` or
`ChainUnreadable`, `Score`) reads its block first and the manifest later, at the
height the chain has by then. A refresh takes in what the URL serves, refuses it
(`RegistryError`), or raises past its handlers (`RefreshRaises`): bytes that are no
UTF-8, JSON that is no object, a file without a netuid, a connection that breaks
in the body; `main` then goes on with another round. `Publish` may commit any list
at any height (`Publisher = "any"`), or only heights ahead that leave everyone time to read
it (`"ahead"`). `Faults` says what can go wrong: outages of chain or URL, cache writes that
fail or are cut short by a full disk, a process that ends while it rewrites its cache.
The chain has no reorganisations.

Four variables are history. `schedule` is the registry the publisher means for each
block: what it commits, from its height on, and before that what was meant for the
block of the commitment. `astray` has the validators that cannot be on it, for a
reason the code leaves them: a restart that finds something else in the cache file than
was active, a promotion of a list that had been replaced, or a new manifest while
the one before had not been switched to, or in the middle of a round it applies to; promoting
the manifest of the day ends it. `held` says where the list a validator took last
still is: in a whole cache file, in the memory of the process only, or nowhere.
`used` and `basis` say what was scored with.

### Miner serving

A handler thread is cut where it looks at what others write: `Authenticate` is
`http_auth.verify` with the replay store, `CheckAllowed` the test against the
allowlist, `Work` the routes and the query, `Attest` the report and the reply.
The refresher is cut between what it reads from the chain (`Fetch`), its
`clear()` and its `update()`, so that a thread may look in between. A signed
request, once sent, can be received any number of times, by several threads and
after a restart, which empties the replay store. `http_auth` is outside the
repository and taken as the handler uses it: fresh within a window, and spent
when it passes. Key callers bring a bearer token, have no nonce and are limited
to scopes; a key whose scopes are omitted or an empty list has all of them, as in
`ApiKeyStore`. The status of a reply is kept only where it decides something.

### Validating

A round is `Begin` (the list at the block, then `discover_miners`), a `Probe` for
each target in turn, `CheckPermit` and `SetWeights`; `Publish`, `AxonsChange` and
`PermitMoves` happen in between, and what a step reads of the chain it reads
then. `Probe` is the whole of `_probe`: both requests, every check, and the
verdict by the operators of `Attestation`. What it catches makes the miner
unverified; what it does not (`Raises`: a connection that breaks after it was
made, a reply that is no object, an empty list) ends the round, as does a read of
the chain that fails, and the loop of `main` starts another (`RoundFailed`). A
miner that sends its answer byte by byte is in `Trickle`: the time-out is for
each read. A miner's answer is any of its `Behaviours`; honest and dishonest
ones are told apart by what they answer only. Since a nonce is 32 random bytes,
a report is either about this probe or about another. Weights are in hundredths
and not normalised.

### Gateway

A request goes from `idle` through `limit` (`WithKey`, `WithPayment` or
`FreeScan` has identified its caller), `balance` (keys only), `forward` and, for a key
that got an answer, `charge`, the goroutine `bill` starts. It shares with the
others the balance, the `windows` of the limiter, the `stored` nonces with their
`expires`, and the keys that are `revoked`. A purchase is `Checkout`, `Complete`
(at Stripe) and any number of deliveries: `Deliver(p, fetched, heard)` is
`HandleWebhook` whose fetch of the session worked or not, and whose answer
reached Stripe or not. A second fulfilment finds no pending purchase, computes
NULL, is refused by the column and answered with 400, so that Stripe tries
again: harmless, and in the model. `Restart` empties what is in memory. `passes`
and `admissions` are history. Goroutines of one request are not in parallel with each
other, so one record per request is enough; every shared object has a mutex or is
one SQL statement, which is why each step is one action.

Balances are in micro-dollars, the precision of the column, and prices in halves of them:
the database compares with the exact price and rounds what is left, a half upwards
(`Left`), so half a micro-dollar is never charged.

`PrepaidLedger` knows who is admitted, what is owed, the balance and which
purchases are credited. Its `Lose` is the restart, its `Waive` the answer that
cannot be paid; `Ledger` in `Gateway` is the mapping.

### Sidecar

asyncio changes task only at an `await`: `next` is the top of a loop over the chain,
`send` waits for the headers, `peek` for the first chunk, `post` for a buffered
reply, `reset` for `aclose()` of the shared client, `stream` for the caller to
be served. `client` says what became of the client object the request is
using: current, replaced but open (`older`), or closed under it. `_reset_client`
marks the client closed, awaits its connections, and only then binds a new one:
in between, everyone who begins an attempt meets a closed client
(`AttemptOnClosed`). `aclose()` closes connections, and a request that is still making
one may go on (`connecting` in `Reset`). Time passes only while someone waits (`Tick`): `spent` is
counted against the budget, `waited` against the cap of the current wait. An
attempt waits under `TTFT_CAP` twice, for the headers and for the first chunk. Whether
there is a Groq key is chosen at the start.

## 3. Runs

| Run | Bounds | Shows |
|---|---|---|
| `kbs_requests` | 2 interchangeable threads, a nonce and a made-up one, clock to 2 with a lifetime of 1, a good request on each path, one for every check that can fail and one for everything that raises | only deserving reports unlock; a challenge unlocks again only for a call that overlapped with another; a call that did not is answered unless its own report or certificates raise |
| `kbs_threads` | 2 threads, 2 nonces, clock to 2 with a lifetime of 1, a good request, one that is refused and one that raises | what holds however the threads interleave, and that `KeyBroker` implements `CredentialRelease`; no call hangs |
| `kbs_double` (violation) | the same with mock reports | two threads unlock with one nonce |
| `sev_chip` | a miner with 2 threads, a root tool, the capture script | who can overlap and what it costs; the locks come free |
| `host_reboots` | 3 failures, 2 reboots, a window of 8 ticks | the breaker holds; a latched miner is rebooted |
| `registry_live` | 1 validator, 3 lists (one broken), outages, failed and torn cache writes, restarts anywhere, 3 blocks, 3 commitments at any height | committed lists only; each block by the publisher's schedule; not back to the flags while the list is kept anywhere; convergence |
| `registry_takeback` (violation) | 2 validators, no faults, a publisher that leaves everyone time to read | an announced list taken back splits the validators |
| `serving` | 2 threads, a named operator, a validator whose permit moves, a key, clock to 3 with a window of 1, 2 starts | each process serves a request once, to listed callers; a listed caller is refused only while the list is rebuilt; permits take effect |
| `serving_replay` (violation) | the same | a request is served again after a restart |
| `validating` | 3 miners: one that cheats in any of nine ways, an honest one, a liar or truth-teller on mock silicon; 2 lists | what is paid for is fresh and proved; liars are outvoted; the honest miner is paid in the end |
| `gateway` | 2 requests, of a key or of a payer and a free-tier address; clock to 3, window of 1, nonces that live for 2; 2 nonces; 1 purchase | a challenge pays once; quotas; the ledger is kept; a purchase is credited |
| `sidecar` | 2 requests, a chain of 2 and Groq, every cap and the budget 1 tick | responses are closed; the first token is in time; Groq comes last; every request ends |

The bounds are small because the hazards are: two threads are enough for every
race on one table, since an action touches one entry; two nonces let one expire
or be spent while the other is live; a window longer than
`FailuresBeforeReboot * MaxReboots` lets the breaker both trip and open again; a
second start is a restart, and with a window of one tick a request is early,
fresh and stale by turns; two commitments are a list and its successor, and the
third is one that comes too early, moves the second or takes it back. A
validator does not read another's state, and the schedule is the publisher's alone, so one is enough
wherever one is spoken of. Each exception in `FollowsSchedule` is there because TLC
finds a behaviour without it; that of `CrashInSave` shows once there is a list in force at
the start (`InForce <- OldInForce`). `kbs_requests` has one nonce, since its properties speak of
one, and `kbs_threads` has two, of which one can be swept while the other lives.

In `validating` three miners are the least for which the correctness gate closes,
and rounds of one and two occur as axons come and go; the cheat comes first in the
metagraph, where a tie favours it. In `gateway` two requests are enough for
every race on a balance, a nonce or a window; the costs are nothing, half a unit, what the
balance covers once and what it may not cover; the quota of the address is 0, for
which the code takes the default. Keys share no state with payers and
addresses, so a behaviour has one kind of caller or the other (`Populations`). In
`sidecar` a second request is the one that closes the client under the first,
a chain of two has a first, a following and a last model, and with every cap at one tick
each wait may end before its cap or at it.

### What the violations say

* `kbs.py:171` "Spend the nonce so this proof cannot unlock anything twice":
  check and pop are two steps without a lock under a threading server. What is
  left is proved: once spent, a nonce is never admitted again, a thread is
  granted at most once for it (`CredentialRelease`), and to unlock something
  again takes a call during which another was under way (`DoubleNeedsOverlap`).
* `registry_source.py:22` "every validator switches at the same block regardless of
  when it polled": a manifest whose digest is known is ignored (`registry_source.py:171`). When an
  announced list is taken back before its height, a validator that has read it finds
  the old digest known, leaves the announced list pending and switches to it; one that has not read
  it stays. Both refreshed in time, nothing failed. What is left is proved as
  `FollowsSchedule`, with the cases in which a validator is off the schedule spelled out.
* `handler.py:136` "Replay protection lives here rather than in the caller so a
  restart cannot be used to replay a captured request": the store is in memory
  and a restarted miner serves the request again inside its window. Proved is
  once per process.

### Seen while modelling

The following are in the models without a run of their own. A formula that TLC
refutes is named where there is one; to see it, put it in a configuration as
described.

* `probe_measurement_scope.sh:61` "Takes the same lock the miners take, so this is
  safe even if one is mid-start": a root process that makes the file first locks
  the miners out of it until the next boot (`guest.py:276`). `ChannelExclusive` with
  the `Sudo` constants of `MCSevGuest`.
* `sentinel-watchdog.sh:3` "Reboot a miner whose chip has stopped answering": a
  miner that is started on a dead chip never serves and so never answers 503.
  `DeadChipRebooted` with the constants of `host_reboots`.
* `docs/mining.md:165` "It reboots after three consecutive 503s": failures of any
  code count, so 000, 000, 503 reboots.
* More of `registry_source.py:22`: the same list at a new height is ignored too; the
  manifest is read at the head and not at the round's block; a process that ends
  while it rewrites its cache loses the list it had (`CrashInSave`); and a failed cache
  write is only logged (`registry_source.py:228`), so that a validator that restarts later scores
  with the list before. In each of these the validator is in `astray`, or without the
  manifest when it is due (`HasManifest`).
* `registry_source.py:204` "A restart during an outage should not drop to the flags": it does
  when the write of the cache failed for want of a file before, or was cut short (`held` is
  `"nowhere"` after the restart). `NeverBackToFlags` without its premise on `held`.
* `registry_source.py:150` "Never raises for network trouble": `refresh()` raises what is not a
  `RegistryError` (`RefreshRaises`), and the round ends without scores. Nothing is scored wrongly
  for it and `Converges` holds, as the loop of `main` goes on.
* `evaluator.py:53` "Three is the smallest number where being outvoted is evidence":
  with four, two votes against two zero those that were counted second.
  `ZeroedOnlyWhenOutvoted` with four miners and `Behaviours <- Four`.
* `sidecar/main.py:47` "Fires ONLY when every decentralized SN64 option is exhausted or
  the global budget is blown": a request that meets the client another one has
  closed skips models it never tried, and as Groq uses the same client it
  may end in 502. `BackstopOnlyWhenExhausted` has that exception in its premise
  (`disturbed`). Any status but 200 on a streaming attempt resets the client
  and cuts the others' live streams; of two overlapping resets the first
  leaves an open client behind (`main.py:352`).
* `sidecar/main.py:67` "max seconds to first token per SN64 attempt": the cap is waited
  for twice, so an attempt may take two, and the bound of `FirstTokenInTime` is the
  budget and two caps. `ATTEMPT_TIMEOUT` (line 68) bounds each read and not the
  attempt.
* Two broker threads that sweep the same entry lose a connection (`SweepOne`), and so does a
  caller with certificates the library cannot handle (`Raises`), where `kbs_remote.py:212` says
  that `/release` "either returns the credential or refuses".
* In the gateway, deliberate or not: an error of `GetBalance` lets the request
  through; a deduction that finds too little is dropped, so a tiny balance
  admits request after request (`Waive` allows it); a payment is consumed before
  the limit and the answer, and is lost with a 429, 400 or 502; challenges
  nobody pays stay in the store; an answer for half a micro-dollar is free (`Left`); a
  restart loses the bills not yet settled; a
  completed session is credited without a look at its `payment_status`; a quota of
  zero or less is the default; and since the instant at which a window ends is still
  in it, only fewer than two quotas fit into a stretch of a window's length.

### Fairness

`KeyBroker`: a thread that has begun a call goes on; nothing makes a caller call.
`SevGuest`: threads are scheduled and an ioctl returns; neither lock is fair, so
`WaitersMove` only says that some waiter gets in. `MinerHost`: systemd restarts
the units, the loop runs, time passes and validators keep calling; nothing makes
anything fail. `LatchedMinerRebooted` is claimed for runs in which the watchdog
is not restarted for ever and `/health` does not time out for ever just when a
503 would count (`WatchdogSettles`). `RegistrySource`: the daemon's loop runs
and blocks come (weak), and a refresh that is possible again and again succeeds
now and then (strong: an outage is not for ever). `MinerServing`: the refresher's
thread goes on once it has read (weak) and can read the chain now and then
(strong); no handler thread is promised anything, and none of the properties
needs it. `PermitsTakeEffect` is claimed for a process that stays up.

`Validating`: the loop of `main` runs and a request to a miner ends, unless the
miner trickles (weak, with `Trickle` excepted). `HonestPaid` is claimed from the
time on at which a miner is served, approved and permitted to be paid, and no
neighbour breaks the rounds (`Calm`); nothing makes it so. `Gateway`: the
database comes back (weak), and of Stripe's retries one finds the session and
the database there and its answer is heard (strong: Stripe tries for days).
Handlers are promised nothing, as none of the properties needs it. `Sidecar`: the event
loop runs what is ready and fires timers (weak), a buffered answer comes to an
end (weak: each read is bounded, the number of reads is not), and time passes
again and again (strong: a step of another request does not stop the clock).

## 4. Proofs

For all values of the constants, from the named assumptions only:

| Module | Theorems | Argument |
|---|---|---|
| `KeyBrokerProofs` | `TypeCorrect`, `OnlyToApprovedCode`, `WhileLive`, `SpentForGood`, `DoubleTakesTwo`, `AnsweredWhenAlone`, `NobodyBurnsAChallenge`, `Refinement` | A release rests on what `VerifyReport` accepted; the verdict is unfolded once in a lemma from `AmdAssumption`. The invariant adds that a thread past the check quotes a minted nonce whose deadline had not passed when it arrived, that what is swept or spent was minted, and that a spent nonce is not in the table. In a call that is alone so far (`AloneInv`), what its sweep has copied is still in the table, and what it found live has unlocked nothing. `Refinement` maps each step to a step or stutter of `CredentialRelease`. |
| `SevGuestProofs` | `TypeCorrect`, `OverlapIsUnguarded`, `FileDecides`, `KeyKept` | Whoever is between the locks owns its process's mutex and, if it has a descriptor, the flock; the threads in flight are those in the ioctl. The overlap properties follow from ownership being unique. |
| `RegistrySourceProofs` | `TypeCorrect`, `ScoredWithCommitted`, `OneSchedule`, `FlagsBehind` | What a validator holds in any of its three places was committed and parsed; what is active or cached was due at its block, and its block is not ahead of the chain. `OneSchedule` (`ScheduleInv`): from now on the schedule has the manifest wherever that is due, and what a validator that is not astray has active is what the schedule has for every block it may still score before that. A new manifest keeps this, since only those it catches unprepared lose it and they are astray; a validator that promotes the manifest regains it. `FlagsBehind` (`HeldInv`): as long as the list is held in the file, what is active or will be read is something, and so for the process's memory. |
| `MinerHostProofs` | `TypeCorrect`, `BreakerHoldsAlways`, `FailsClosed` | The log is in the order it was written, oldest first, so that dropping what left the window drops a prefix (`YoungerSuffix`); that the recursive filter `Younger` exists and has its length and values follows by a least counterexample. Every reboot that was asked for has an entry of its own in the log that is no older, whether the watchdog died between the two steps or not, and since the breaker counts before it writes, at most the last `MaxReboots` entries are in the window. A reboot is only asked for with its entry just written. |
| `MinerServingProofs` | `ServingTypeCorrect`, `WorkOncePerBoot`, `ServesOnlyListed`, `ListedOnlyRefusedMidRefresh` | Whoever is past the replay store is in it, and so is every request this process worked for, so a second copy stops at the store; what the handler reads is the complete list or nothing (`ListInv`), and each call has noted the lists since it began. |
| `ValidatingProofs` | `TypeCorrect`, `PaysForFreshProof`, `LiarsLose` | From `Begin` to `SetWeights` the evaluator has the list of the round's block (`RoundInv`), so a positive weight, which needs the verdict, is about that list. For the vote: the most common answer exists (a smallest voter is picked by well-founded induction on the uids), has at least as many votes as any other, and is therefore the truthful one when liars are fewer. |
| `GatewayProofs` | `GatewayTypeCorrect`, `ChallengePaysOnce`, `StaysWithinQuota`, `KeepsTheLedger` | A stored nonce has been issued and has paid for nothing, and one that was never issued has paid for nothing (`NonceInv`): a consumed nonce cannot come back, in a restarted gateway either. `StaysWithinQuota` (`RateInv`): a bucket's admissions are in the order of the clock; those since its window was opened are as many as its counter says, and the rest are from before; two admissions a quota apart lie in different windows, so that two quotas less one apart they lie more than a window apart. `KeepsTheLedger` maps each step to a step or stutter of `PrepaidLedger`; what makes it go through is that a request in progress is in one place at a time. |
| `SidecarProofs` | `SidecarTypeCorrect`, `FirstTokenIsTimely`, `BackstopIsLast` | Per request (`Sound`): an open response goes with `peek` and `stream`; what was spent is at most the budget and what this attempt has waited; and, unless it was disturbed, the models before the current one have been tried. Across requests (`Noticed`): while the client is closed, only the one replacing it is undisturbed. |

`TypeOK` alone does not carry any of these: the properties speak of steps long
past (what was verified, committed or opened), so the invariants carry it from
one place to the next. The bounds of the runs (`MaxTime`, `NonceLeft`,
`MaxHeight`, `MaxCommits`) are guards, and a proof for every value of them covers
every finite run of the code.

`NeverReadmitted` and `KeyLostUnguarded` are proved (`SpentForGood`, `KeyKept`) and
have no run. No theorem has a hypothesis beyond the named assumptions on the constants: what the
code leaves open (threads that overlap, a publisher that reschedules, disks that fail) is in the
statements, as the cases they except.

Only model-checked is liveness (`CallsEnd`, `ChannelComesFree`, `WaitersMove`,
`LatchedMinerRebooted`, `Converges`, `PermitsTakeEffect`, `HonestPaid`,
`PurchaseCredited`, `Answered`): the prover has no fairness and no `ENABLED`. Every
invariant and every action property of the runs that pass is proved.

## 5. Not modelled

* The enclave's side of the unlock (`RemoteBroker`, `enclave.unlock`): one request each
  way at the start of a process; any error ends the process and systemd starts
  another. What a lost answer costs, a spent nonce, is in `KeyBroker`.
* In the gateway: magic links, sessions, key creation, `ensureStripeCustomer`, usage
  events, and the dashboard's queries. Each is one SQL statement, or two without
  anyone else's state; usage events are written and never read back to decide
  anything. The signals and thresholds of the risk scan are third parties' data and a
  table.
* Parsers and formats: `certtable.py`, `report.py` beyond its fields, the JSON of each
  protocol. Signatures, hashes and random nonces are perfect.
* The fetching of AMD's certificates and its caches: broker and validator run offline.
* The database tools of the miner: one read-only query each; pools and statement
  time-outs are the database's.
* The chain's consensus, reorganisations, and the bittensor library beyond its
  answers and errors.
* A wall clock that steps back, and the `protected_regular` sysctl.
* Provisioning, demos, benchmarks, dashboards and the tests, which were read as
  documentation.
