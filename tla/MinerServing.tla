----------------------------- MODULE MinerServing -----------------------------
(***************************************************************************)
(* Who a miner serves: MinerHandler (sentinel/serving/handler.py) with its *)
(* replay store, the allowlist that scripts/run_miner.py refreshes under   *)
(* it, restarts, and callers whose signed requests can be delivered late   *)
(* and more than once.  The signature scheme and the replay store are      *)
(* bittensor's (http_auth) and are taken as handler.py uses them.          *)
(***************************************************************************)
EXTENDS Naturals, FiniteSets

CONSTANTS
    Threads,          \* the server's handler threads
    Hotkeys,          \* hotkeys that may call
    Stakers,          \* those whose validator permit comes and goes
    Named,            \* --allow-hotkey
    AllowAny,         \* --allow-any
    ReadsValidators,  \* not --no-allow-validators
    Labels, Scopes,   \* of the API keys, and of the tools
    KeyFile,          \* the scopes the key file lists for each label (apikeys.py)
    Requests,         \* what is sent: see RequestType
    MaxAge, AllowedSkew,        \* http_auth's freshness window, in ticks
    Ahead,            \* how far the clocks of callers run ahead
    None,             \* no request
    MaxTime, MaxBoots           \* bounds: the clock, and starts of the process

Callers == Hotkeys \cup Labels \cup {"stranger"}

\* Requests of hotkeys are signed, those of the others carry a bearer token; the
\* id tells apart what one caller sends twice.  `scope` is that of the tool, and a
\* complete request has a nonce for the attestation.
RequestType == [caller : Callers, id : Nat, path : {"/tools", "/call", "/challenge", "other"},
                scope : Scopes, complete : BOOLEAN]

ASSUME CallersAssumption ==
    /\ Hotkeys \cap Labels = {} /\ "stranger" \notin Hotkeys \cup Labels
    /\ Named \subseteq Hotkeys /\ Stakers \subseteq Hotkeys
    /\ AllowAny \in BOOLEAN /\ ReadsValidators \in BOOLEAN
    /\ KeyFile \in [Labels -> SUBSET Scopes]
    /\ Requests \subseteq RequestType
    /\ None \notin Requests

ASSUME WindowAssumption ==
    {MaxAge, AllowedSkew, Ahead, MaxTime, MaxBoots} \subseteq Nat

VARIABLES
    now,
    permits,    \* hotkeys that hold a validator permit on chain
    stamp,      \* when each request was signed, by its caller's clock; 0 until it is
    proc,       \* the miner process: "up" or "down"
    boots,      \* how often it was started
    seen,       \* nonce_store
    allowed,    \* allowed_hotkeys; all of them stand for None
    refresher,  \* where refresh_allowlist is
    found,      \* what it has read
    pc, call,   \* where each thread is, and its request
    \* For the properties only:
    inForce,    \* the last complete allowlist
    since,      \* of each call: hotkeys in some, and in all, of those since it began
    ran         \* <<request, boot>> of work done for a signed request

world == <<now, permits, stamp>>
list == <<allowed, refresher, found, inForce>>
process == <<proc, boots>>
vars == <<world, process, seen, list, pc, call, since, ran>>

Steps == {"idle", "verify", "allow", "work", "attest"}

----------------------------------------------------------------------------
Init ==
    /\ now = 1
    /\ permits \in SUBSET Stakers
    /\ stamp = [q \in Requests |-> 0]
    /\ proc = "down" /\ boots = 0
    /\ seen = {}
    /\ allowed = {} /\ refresher = "off" /\ found = {} /\ inForce = {}
    /\ pc = [t \in Threads |-> "idle"]
    /\ call = [t \in Threads |-> None]
    /\ since = [t \in Threads |-> [some |-> {}, all |-> {}]]
    /\ ran = {}

(* The world *)

Tick ==
    /\ now < MaxTime
    /\ now' = now + 1
    /\ UNCHANGED <<permits, stamp, process, seen, list, pc, call, since, ran>>

\* Permits move with stake.
PermitsMove ==
    /\ \E h \in Stakers : permits' = IF h \in permits THEN permits \ {h} ELSE permits \cup {h}
    /\ UNCHANGED <<now, stamp, process, seen, list, pc, call, since, ran>>

\* MinerClient signs a request; from then on it can arrive at any time, again
\* and again.
Sign(q) ==
    /\ q.caller \in Hotkeys
    /\ stamp[q] = 0
    /\ \E d \in 0..Ahead : stamp' = [stamp EXCEPT ![q] = now + d]
    /\ UNCHANGED <<now, permits, process, seen, list, pc, call, since, ran>>

(* The process *)

\* resolve_allowlist
StartList(readable) ==
    IF AllowAny THEN Hotkeys
    ELSE Named \cup (IF ReadsValidators /\ readable THEN permits ELSE {})

\* build_miner and main.  Without the chain and without a named hotkey it does
\* not start.
Start(readable) ==
    /\ proc = "down"
    /\ boots < MaxBoots
    /\ AllowAny \/ ~ReadsValidators \/ readable \/ Named # {}
    /\ proc' = "up" /\ boots' = boots + 1
    /\ allowed' = StartList(readable)
    /\ inForce' = StartList(readable)
    /\ refresher' = IF ~AllowAny /\ ReadsValidators THEN "wait" ELSE "off"
    /\ UNCHANGED <<world, seen, found, pc, call, since, ran>>

\* The process ends: the handler threads are daemons and end with it.
Stop ==
    /\ proc = "up"
    /\ proc' = "down"
    /\ seen' = {}
    /\ allowed' = {} /\ refresher' = "off" /\ found' = {} /\ inForce' = {}
    /\ pc' = [t \in Threads |-> "idle"]
    /\ call' = [t \in Threads |-> None]
    /\ since' = [t \in Threads |-> [some |-> {}, all |-> {}]]
    /\ UNCHANGED <<world, boots, ran>>

(* refresh_allowlist *)

\* Mutant of FetchFails: the loop ends at the first exception.
FetchFailsForGood ==
    /\ refresher = "wait"
    /\ refresher' = "off"
    /\ UNCHANGED <<world, process, seen, allowed, found, inForce, pc, call, since, ran>>

\* The chain cannot be read: the previous list stands.
FetchFails ==
    /\ refresher = "wait"
    /\ UNCHANGED vars

Fetch ==
    /\ refresher = "wait"
    /\ found' = permits
    /\ refresher' = "fetched"
    /\ UNCHANGED <<world, process, seen, allowed, inForce, pc, call, since, ran>>

\* Mutant of Cleared: the list only grows.
ClearedNot == allowed

\* allowed.clear()
Cleared == {}

Clear ==
    /\ refresher = "fetched"
    /\ refresher' = "cleared"
    /\ allowed' = Cleared
    /\ UNCHANGED <<world, process, seen, found, inForce, pc, call, since, ran>>

\* Mutant of Filled: only the named hotkeys come back.
FilledWithNamed == allowed \cup Named

\* allowed.update(explicit | found)
Filled == allowed \cup Named \cup found

Fill ==
    /\ refresher = "cleared"
    /\ refresher' = "wait"
    /\ allowed' = Filled
    /\ found' = {}
    /\ inForce' = Named \cup found
    /\ since' = [t \in Threads |-> [some |-> since[t].some \cup inForce',
                                    all |-> since[t].all \cap inForce']]
    /\ UNCHANGED <<world, process, seen, pc, call,  ran>>

(* A handler thread *)

Goto(t, s) == pc' = [pc EXCEPT ![t] = s]

\* Mutant of Reply: the thread keeps the request it answered.
ReplyKeepingCall(t) ==
    /\ Goto(t, "idle")
    /\ call' = call
    /\ since' = [since EXCEPT ![t] = [some |-> {}, all |-> {}]]

\* The request is answered and the thread is done with it.
Reply(t) ==
    /\ Goto(t, "idle")
    /\ call' = [call EXCEPT ![t] = None]
    /\ since' = [since EXCEPT ![t] = [some |-> {}, all |-> {}]]

\* A request arrives; if it is signed, then for the first or the nth time.
Receive(t, q) ==
    /\ proc = "up" /\ pc[t] = "idle"
    /\ q.caller \in Hotkeys => stamp[q] # 0
    /\ Goto(t, "verify")
    /\ call' = [call EXCEPT ![t] = q]
    /\ since' = [since EXCEPT ![t] = [some |-> inForce, all |-> inForce]]
    /\ UNCHANGED <<world, process, seen, list, ran>>

\* http_auth.verify on the time in the headers ...
InWindow(q) == stamp[q] <= now + AllowedSkew /\ now <= stamp[q] + MaxAge

\* Mutant of Unseen: no nonce_store.
UnseenNever(q) == TRUE

\* ... and on its nonce.
Unseen(q) == q \notin seen

\* _authenticate up to the allowlist.  A bearer token never falls through to
\* the signature.
Authenticate(t) ==
    LET q == call[t]
    IN  /\ pc[t] = "verify"
        /\ IF q.caller \in Hotkeys /\ InWindow(q) /\ Unseen(q)
           THEN Goto(t, "allow") /\ seen' = seen \cup {q} /\ UNCHANGED <<call, since>>
           ELSE IF q.caller \in Labels
           THEN Goto(t, "work") /\ UNCHANGED <<seen, call, since>>
           ELSE Reply(t) /\ UNCHANGED seen
        /\ UNCHANGED <<world, process, list, ran>>

\* The allowlist, as it is at this moment.
CheckAllowed(t) ==
    /\ pc[t] = "allow"
    /\ IF call[t].caller \in allowed
       THEN Goto(t, "work") /\ UNCHANGED <<call, since>>
       ELSE Reply(t)
    /\ UNCHANGED <<world, process, seen, list, ran>>

\* ApiKeyStore: a key with no scopes listed, or an empty list, has them all.
ScopesOf(label) == IF KeyFile[label] = {} THEN Scopes ELSE KeyFile[label]

\* _tool_allowed: hotkeys are not limited to scopes.
ToolAllowed(q) == q.caller \in Labels => q.scope \in ScopesOf(q.caller)

\* Answered, 200 for the list of tools and otherwise 401, 400 or 404, without
\* any work being done for it.
EndsBeforeWork(q) ==
    \/ q.path \in {"/tools", "other"}
    \/ q.path = "/call" /\ ~ToolAllowed(q)
    \/ ~q.complete

Ran(q) == IF q.caller \in Hotkeys THEN ran \cup {<<q, boots>>} ELSE ran

\* handle(), _call and _challenge up to the attestation: the query, which can
\* fail as a ToolError or otherwise; a challenge needs none.
Work(t) ==
    LET q == call[t]
    IN  /\ pc[t] = "work"
        /\ IF EndsBeforeWork(q)
           THEN Reply(t) /\ UNCHANGED ran
           ELSE /\ ran' = Ran(q)
                /\ \/ Goto(t, "attest") /\ UNCHANGED <<call, since>>
                   \/ q.path = "/call" /\ Reply(t)
        /\ UNCHANGED <<world, process, seen, list>>

\* attest_result, bound to the caller's nonce, and the reply; 500 if the chip
\* fails, whose latch MinerHost models.
Attest(t) ==
    /\ pc[t] = "attest"
    /\ Reply(t)
    /\ UNCHANGED <<world, process, seen, list, ran>>

Handle(t) == Authenticate(t) \/ CheckAllowed(t) \/ Work(t) \/ Attest(t)

Next ==
    \/ Tick \/ PermitsMove \/ Stop
    \/ \E readable \in BOOLEAN : Start(readable)
    \/ FetchFails \/ Fetch \/ Clear \/ Fill
    \/ \E q \in Requests : Sign(q)
    \/ \E t \in Threads : Handle(t) \/ \E q \in Requests : Receive(t, q)

Spec == Init /\ [][Next]_vars

\* The refresher's thread runs on, and the chain can be read now and then.
FairSpec == Spec /\ WF_vars(Clear) /\ WF_vars(Fill) /\ SF_vars(Fetch)

----------------------------------------------------------------------------
(* Properties                                                              *)

\* Every variable has its type; the type invariant of the miner.
TypeOK ==
    /\ now \in Nat
    /\ permits \subseteq Stakers
    /\ stamp \in [Requests -> Nat]
    /\ proc \in {"up", "down"} /\ boots \in Nat
    /\ seen \subseteq Requests
    /\ allowed \subseteq Hotkeys
    /\ refresher \in {"off", "wait", "fetched", "cleared"}
    /\ found \subseteq Hotkeys
    /\ inForce \subseteq Hotkeys
    /\ pc \in [Threads -> Steps]
    /\ call \in [Threads -> Requests \cup {None}]
    /\ \A t \in Threads : pc[t] = "idle" <=> call[t] = None
    /\ since \in [Threads -> [some : SUBSET Hotkeys, all : SUBSET Hotkeys]]
    /\ ran \subseteq Requests \X Nat

\* However many threads a signed request reaches, and however late, one process
\* does its work at most once: nobody who is past the replay store carries what
\* another carries or has already done (the nonce is spent before the allowlist
\* is asked and before any work).  A restart starts with an empty store.
OncePerBoot ==
    \A t \in Threads :
        pc[t] \in {"allow", "work"} /\ call[t].caller \in Hotkeys
            => /\ <<call[t], boots>> \notin ran
               /\ \A u \in Threads \ {t} :
                     pc[u] \in {"allow", "work", "attest"} => call[u] # call[t]

\* A hotkey that lost its permit is out with the next refresh that succeeds
\* ("validators come and go, so the allowlist has to as well", run_miner.py):
\* whoever gets past the check was on a complete list since the call began.
OnlyListed ==
    \A t \in Threads :
        pc[t] \in {"work", "attest"} /\ call[t].caller \in Hotkeys
            => call[t].caller \in since[t].some

\* A caller on every list since its call began is turned away by the list only
\* between the clear() and the update() of a refresh.
ListedRefusedOnlyMidRefresh ==
    [][\A t \in Threads :
          pc[t] = "allow" /\ pc'[t] = "idle" /\ proc' = "up" /\ call[t].caller \in since[t].all
            => refresher = "cleared"]_vars

\* A permit that stays is on the list in the end, one that is gone is off it,
\* whatever failed to be read in between: the refresher outlives its failures.
PermitsTakeEffect ==
    ReadsValidators /\ ~AllowAny /\ <>[](proc = "up") =>
        \A h \in Hotkeys :
            /\ <>[](h \in permits) => <>[](refresher = "cleared" \/ h \in allowed)
            /\ <>[](h \notin permits \cup Named) => <>[](h \notin allowed)

\* handler.py:136, "Replay protection lives here rather than in the caller so a
\* restart cannot be used to replay a captured request".
RanOnce == \A r, s \in ran : r[1] = s[1] => r = s
=============================================================================
