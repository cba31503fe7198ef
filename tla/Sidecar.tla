------------------------------ MODULE Sidecar ------------------------------
(***************************************************************************)
(* The sidecar (sidecar/main.py): each request tries the models of its     *)
(* chain in order, within a time to the first token and a budget, and      *)
(* falls back to Groq.  All requests share one HTTP client, which a        *)
(* request that fails in certain ways closes and replaces while others     *)
(* are using it.                                                           *)
(*                                                                         *)
(* Only awaits let other requests in and time pass.  Position Last + 1 of  *)
(* a chain is Groq; CHUTES_API_KEY is set.                                 *)
(***************************************************************************)
EXTENDS Naturals

CONSTANTS
    Tasks,                  \* bound: requests in progress
    Last,                   \* length of a model chain
    Ttft, AttemptTimeout, Budget, GroqTimeout

ASSUME SidecarAssumption ==
    /\ Last \in Nat \ {0} /\ Ttft \in Nat /\ Budget \in Nat
    /\ AttemptTimeout \in Nat /\ GroqTimeout \in Nat

VARIABLES
    tasks,      \* see Task
    usable,     \* _client is not closed
    hasGroq     \* GROQ_API_KEY is set

vars == <<tasks, usable, hasGroq>>

Groq == Last + 1
Kinds == {"stream", "buffered"}
Longest == Budget + 2 * Ttft + 1    \* bound: where the clock of a phase stops

Task == [pc : {"idle", "next", "send", "peek", "post", "reset", "stream"}, kind : Kinds,
         model : 1..Groq, spent : 0..Longest, waited : Nat, client : {"none", "current", "older", "closed"},
         holds : BOOLEAN,           \* an upstream response is open
         tried : SUBSET (1..Last),  \* models whose attempt failed on its own (for the properties)
         disturbed : BOOLEAN]       \* another request has closed a client (for the properties)

Idle == [pc |-> "idle", kind |-> "buffered", model |-> 1, spent |-> 0, waited |-> 0,
         client |-> "none", holds |-> FALSE, tried |-> {}, disturbed |-> FALSE]

At(t, pc) == tasks[t].pc = pc
Streaming(t) == tasks[t].kind = "stream"
Become(t, r) == tasks' = [tasks EXCEPT ![t] = r]

Init ==
    /\ tasks = [t \in Tasks |-> Idle]
    /\ usable = TRUE
    /\ hasGroq \in BOOLEAN

----------------------------------------------------------------------------
(* The end of an attempt                                                   *)

\* Mutants: a response is left to the garbage collector; one failure gives up
\* the chain.
NotClosed(r) == r
GivesUp(m) == Groq

\* resp.aclose()
Closed(r) == [r EXCEPT !.holds = FALSE]

Following(m) == m + 1

\* The loop goes on with the next model.
Onward(r) == [Closed(r) EXCEPT !.pc = "next", !.model = Following(@), !.client = "none", !.waited = 0]

\* An answer, a finished or broken stream, or 502
End(t) == Become(t, [Closed(tasks[t]) EXCEPT !.pc = "idle", !.kind = "buffered", !.model = 1, !.spent = 0,
                         !.waited = 0, !.client = "none", !.tried = {}, !.disturbed = FALSE])

\* What the attempt tells of its model
Failed(t) == [tasks[t] EXCEPT !.tried = @ \cup {tasks[t].model}]

\* "continue", or None from _groq_backstop
Continue(t, r) ==
    /\ IF r.model = Groq THEN End(t) ELSE Become(t, Onward(r))
    /\ UNCHANGED <<usable, hasGroq>>

\* _client is rebound: whoever uses one that was left open goes on with it.
Recreate(t) ==
    /\ usable' = TRUE
    /\ tasks' = [u \in Tasks |->
                   IF u = t THEN Onward(tasks[t])
                   ELSE [tasks[u] EXCEPT !.client = IF @ = "current" THEN "older" ELSE @]]
    /\ UNCHANGED hasGroq

\* _reset_client.  aclose() marks the client closed at once and then closes its
\* connections, awaiting each; on a closed client it returns immediately.  A
\* connection that is still being made is not among them: its request goes on.
Reset(t, r) ==
    /\ IF usable
       THEN /\ usable' = FALSE
            /\ \E connecting \in SUBSET {u \in Tasks : At(u, "send") \/ At(u, "post")} :
                 tasks' = [u \in Tasks |->
                     IF u = t THEN [Closed(r) EXCEPT !.pc = "reset", !.client = "none"]
                     ELSE [tasks[u] EXCEPT !.disturbed = ~At(u, "idle"),
                               !.client = IF @ # "current" THEN @
                                          ELSE IF u \in connecting THEN "older" ELSE "closed"]]
       ELSE /\ usable' = TRUE
            /\ Become(t, Onward(r))
    /\ UNCHANGED hasGroq

ResetDone(t) == At(t, "reset") /\ Recreate(t)

\* A buffered attempt resets the client whatever went wrong, Groq's never.
FailBadly(t, r) == IF r.model = Groq THEN Continue(t, r) ELSE Reset(t, r)

----------------------------------------------------------------------------
(* The chain                                                               *)

\* query, _route_streaming, _route_buffered
Accept(t, kind) ==
    /\ At(t, "idle")
    /\ Become(t, [Idle EXCEPT !.pc = "next", !.kind = kind, !.disturbed = ~usable])
    /\ UNCHANGED <<usable, hasGroq>>

\* Mutant: the budget is not looked at.
NeverOver(t) == FALSE

OverBudget(t) == tasks[t].spent > Budget

PullRipcord(t) ==
    /\ At(t, "next") /\ tasks[t].model # Groq
    /\ OverBudget(t)
    /\ Become(t, [tasks[t] EXCEPT !.model = Groq])
    /\ UNCHANGED <<usable, hasGroq>>

MayAttempt(t) == IF tasks[t].model = Groq THEN hasGroq ELSE ~OverBudget(t)

Attempt(t) ==
    /\ At(t, "next") /\ MayAttempt(t)
    /\ usable = TRUE
    /\ Become(t, [tasks[t] EXCEPT !.pc = IF Streaming(t) THEN "send" ELSE "post", !.client = "current"])
    /\ UNCHANGED <<usable, hasGroq>>

\* RuntimeError: the client is closed, and its replacement not there yet
AttemptOnClosed(t) ==
    /\ At(t, "next") /\ MayAttempt(t)
    /\ ~usable
    /\ IF Streaming(t) THEN Continue(t, tasks[t]) ELSE FailBadly(t, tasks[t])

AllExhausted(t) ==
    /\ At(t, "next") /\ tasks[t].model = Groq /\ ~hasGroq
    /\ End(t)
    /\ UNCHANGED <<usable, hasGroq>>

----------------------------------------------------------------------------
(* A streaming attempt: _open_upstream_stream, _stream_body                *)

Connected(t) == tasks[t].client # "closed"

Headers(t) ==
    /\ At(t, "send") /\ Connected(t)
    /\ Become(t, [tasks[t] EXCEPT !.pc = "peek", !.holds = TRUE, !.waited = 0])
    /\ UNCHANGED <<usable, hasGroq>>

FirstChunk(t) ==
    /\ At(t, "peek")
    /\ Become(t, [tasks[t] EXCEPT !.pc = "stream"])
    /\ UNCHANGED <<usable, hasGroq>>

\* wait_for runs out, the stream is empty, or an exception of another kind
Stalls(t) == At(t, "send") \/ At(t, "peek")

GivesNothing(t) == Stalls(t) /\ Connected(t) /\ Continue(t, Failed(t))

\* A status that is not 200, or one of the three httpx errors.  _groq_backstop
\* catches everything alike.
FailsLoudly(t) == Stalls(t) /\ Connected(t) /\ FailBadly(t, Failed(t))

\* Another request has closed the connection: httpx.ReadError.
Robbed(t) == Stalls(t) /\ ~Connected(t) /\ Continue(t, tasks[t])

\* The stream ends, breaks, stalls for STREAM_IDLE, or the caller leaves.
StreamEnds(t) ==
    /\ At(t, "stream")
    /\ End(t)
    /\ UNCHANGED <<usable, hasGroq>>

----------------------------------------------------------------------------
(* A buffered attempt: _try_model                                          *)

Answered200(t) ==
    /\ At(t, "post")
    /\ End(t)
    /\ UNCHANGED <<usable, hasGroq>>

\* 429 or 5xx
Busy(t) == At(t, "post") /\ Connected(t) /\ Continue(t, Failed(t))

Errs(t) == At(t, "post") /\ FailBadly(t, IF Connected(t) THEN Failed(t) ELSE tasks[t])

\* ATTEMPT_TIMEOUT bounds each read, not the attempt.
Trickle(t) ==
    /\ At(t, "post") /\ Connected(t) /\ tasks[t].waited > 0
    /\ Become(t, [tasks[t] EXCEPT !.waited = 0])
    /\ UNCHANGED <<usable, hasGroq>>

----------------------------------------------------------------------------
(* Time                                                                    *)

\* Mutant: only the headers are waited for under wait_for.
TimedHeaders == {"send", "post"}

Timed == {"send", "peek", "post"}

Cap(t) ==
    IF tasks[t].model = Groq THEN GroqTimeout
    ELSE IF Streaming(t) THEN Ttft ELSE AttemptTimeout

Due(t) == tasks[t].pc \in Timed /\ tasks[t].waited >= Cap(t)

TimesOut(t) ==
    /\ Due(t)
    /\ IF Streaming(t) THEN Continue(t, Failed(t)) ELSE FailBadly(t, Failed(t))

\* The steps of the event loop itself take no time, and timers fire when due.
Later(r) == [r EXCEPT !.waited = IF r.pc \in Timed THEN @ + 1 ELSE @,
                      !.spent = IF r.pc \in {"idle", "stream"} \/ r.model = Groq \/ @ = Longest THEN @ ELSE @ + 1]

Tick ==
    /\ \A t \in Tasks : ~At(t, "next") /\ ~At(t, "reset") /\ ~Due(t)
    /\ tasks' = [t \in Tasks |-> Later(tasks[t])]
    /\ UNCHANGED <<usable, hasGroq>>

Loop(t) == PullRipcord(t) \/ Attempt(t) \/ AttemptOnClosed(t) \/ AllExhausted(t) \/ ResetDone(t)

Upstream(t) ==
    \/ Headers(t) \/ FirstChunk(t) \/ GivesNothing(t) \/ FailsLoudly(t) \/ Robbed(t) \/ StreamEnds(t)
    \/ Answered200(t) \/ Busy(t) \/ Errs(t) \/ Trickle(t)

Next ==
    \/ \E t \in Tasks : Loop(t) \/ Upstream(t) \/ TimesOut(t) \/ \E kind \in Kinds : Accept(t, kind)
    \/ Tick

Spec == Init /\ [][Next]_vars

\* The event loop runs what is ready, time passes, and what Chutes or Groq
\* answer to a buffered request has an end.
FairSpec ==
    /\ Spec
    /\ SF_vars(Tick)
    /\ \A t \in Tasks :
        /\ WF_vars(Loop(t)) /\ WF_vars(TimesOut(t))
        /\ WF_vars(Answered200(t))

----------------------------------------------------------------------------
(* Properties                                                              *)

\* The sidecar's variables keep their types, and an upstream response is open
\* exactly while its request waits for the first chunk or streams: every other
\* way out closes it (the contract of _open_upstream_stream, _stream_body).
TypeOK ==
    /\ tasks \in [Tasks -> Task]
    /\ usable \in BOOLEAN /\ hasGroq \in BOOLEAN
    /\ \A t \in Tasks : tasks[t].holds <=> tasks[t].pc \in {"peek", "stream"}

\* A streaming request has its first token from a decentralized model, or is
\* past them all, within the budget and two caps: the last attempt may begin
\* when the budget is just used up, and waits twice (_route_streaming).
FirstTokenInTime ==
    \A t \in Tasks : Streaming(t) /\ Stalls(t) /\ tasks[t].model # Groq => tasks[t].spent <= Budget + 2 * Ttft

\* main.py:47, the backstop "fires ONLY when every decentralized SN64 option is
\* exhausted or the global budget is blown": true of a request during which no
\* other one resets the shared client.
BackstopOnlyWhenExhausted ==
    \A t \in Tasks : tasks[t].model = Groq /\ ~tasks[t].disturbed => OverBudget(t) \/ tasks[t].tried = 1..Last

\* Every request is answered, streamed or refused in the end, whatever resets
\* and stalls it meets (query).
Answered == \A t \in Tasks : tasks[t].pc \notin {"idle", "stream"} ~> tasks[t].pc \in {"idle", "stream"}
=============================================================================
