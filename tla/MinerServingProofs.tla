------------------------- MODULE MinerServingProofs -------------------------
(***************************************************************************)
(* Proofs about MinerServing for any threads, callers, requests and        *)
(* windows, and any order of their steps.                                  *)
(***************************************************************************)
EXTENDS MinerServing, TLAPS

Past == {"allow", "work", "attest"}

\* A process that is down has no thread in a request.
DownInv == proc = "down" => \A t \in Threads : pc[t] = "idle"

\* What the handler reads is the complete list, or nothing between the clear()
\* and the update().
ListInv == allowed = IF refresher = "cleared" THEN {} ELSE inForce

\* Each call has noted the lists it has seen.
SinceInv ==
    \A t \in Threads :
        pc[t] # "idle" => inForce \subseteq since[t].some /\ since[t].all \subseteq inForce

\* The replay store knows every signed request that is past it and every one
\* whose work this process did.
SpentInv ==
    /\ \A t \in Threads : pc[t] \in Past /\ call[t].caller \in Hotkeys => call[t] \in seen
    /\ \A q \in Requests, n \in Nat :
          <<q, n>> \in ran => n <= boots /\ (n = boots /\ proc = "up" => q \in seen)

IInv == TypeOK /\ DownInv /\ ListInv /\ SinceInv /\ SpentInv /\ OnlyListed /\ OncePerBoot

LEMMA InvInit == Init => IInv
<1> SUFFICES ASSUME Init PROVE IInv
  OBVIOUS
<1> USE CallersAssumption, WindowAssumption DEF Init
<1>1. TypeOK
  BY DEF TypeOK, Steps
<1>2. DownInv /\ ListInv /\ SinceInv /\ SpentInv
  BY DEF DownInv, ListInv, SinceInv, SpentInv, Past
<1>3. OnlyListed /\ OncePerBoot
  BY DEF OnlyListed, OncePerBoot
<1>4. QED
  BY <1>1, <1>2, <1>3 DEF IInv

LEMMA StartListType == ASSUME TypeOK, NEW readable \in BOOLEAN
                       PROVE StartList(readable) \subseteq Hotkeys
BY CallersAssumption DEF StartList, TypeOK

\* TypeOK's part about the handler threads.
ThreadsOK ==
    /\ pc \in [Threads -> Steps]
    /\ call \in [Threads -> Requests \cup {None}]
    /\ \A t \in Threads : pc[t] = "idle" <=> call[t] = None
    /\ since \in [Threads -> [some : SUBSET Hotkeys, all : SUBSET Hotkeys]]

LEMMA ReplyThreads == ASSUME ThreadsOK, NEW t \in Threads, Reply(t) PROVE ThreadsOK'
BY DEF ThreadsOK, Reply, Goto, Steps

LEMMA GotoThreads ==
    ASSUME ThreadsOK, NEW t \in Threads, pc[t] # "idle", NEW s \in Steps \ {"idle"},
           Goto(t, s), UNCHANGED <<call, since>>
    PROVE  ThreadsOK'
BY DEF ThreadsOK, Goto, Steps

LEMMA BusyThread == ASSUME TypeOK, NEW t \in Threads, pc[t] # "idle" PROVE call[t] \in Requests
BY DEF TypeOK

LEMMA TypeStep == TypeOK /\ [Next]_vars => TypeOK'
<1> SUFFICES ASSUME TypeOK, [Next]_vars PROVE TypeOK'
  OBVIOUS
<1> USE CallersAssumption, WindowAssumption DEF TypeOK, Steps, world, list, process
<1>1. CASE Tick
  BY <1>1 DEF Tick
<1>2. CASE PermitsMove
  BY <1>2 DEF PermitsMove
<1>3. CASE Stop
  BY <1>3 DEF Stop
<1>4. ASSUME NEW readable \in BOOLEAN, Start(readable) PROVE TypeOK'
  BY <1>4, StartListType DEF Start
<1>5. CASE FetchFails
  BY <1>5 DEF FetchFails, vars
<1>6. CASE Fetch
  BY <1>6 DEF Fetch
<1>7. CASE Clear
  BY <1>7 DEF Clear, Cleared
<1>8. CASE Fill
  BY <1>8 DEF Fill, Filled
<1>9. ASSUME NEW q \in Requests, Sign(q) PROVE TypeOK'
  BY <1>9 DEF Sign
<1> ThreadsOK
  BY DEF ThreadsOK
<1>10. ASSUME NEW t \in Threads, Authenticate(t) PROVE TypeOK'
  <2>1. call[t] \in Requests /\ pc[t] # "idle"
    BY <1>10, BusyThread DEF Authenticate
  <2>2. ThreadsOK'
    BY <1>10, <2>1, GotoThreads, ReplyThreads DEF Authenticate
  <2>3. seen' \subseteq Requests
    BY <1>10, <2>1 DEF Authenticate
  <2>4. QED
    BY <1>10, <2>2, <2>3 DEF Authenticate, ThreadsOK
<1>11. ASSUME NEW t \in Threads, CheckAllowed(t) PROVE TypeOK'
  <2>1. ThreadsOK'
    BY <1>11, GotoThreads, ReplyThreads DEF CheckAllowed
  <2>2. QED
    BY <1>11, <2>1 DEF CheckAllowed, ThreadsOK
<1>12. ASSUME NEW t \in Threads, Work(t) PROVE TypeOK'
  <2>1. call[t] \in Requests /\ pc[t] # "idle"
    BY <1>12, BusyThread DEF Work
  <2>2. ThreadsOK'
    BY <1>12, <2>1, GotoThreads, ReplyThreads DEF Work
  <2>3. ran' \subseteq Requests \X Nat
    BY <1>12, <2>1 DEF Work, Ran
  <2>4. QED
    BY <1>12, <2>2, <2>3 DEF Work, ThreadsOK
<1>13. ASSUME NEW t \in Threads, Attest(t) PROVE TypeOK'
  <2>1. ThreadsOK'
    BY <1>13, ReplyThreads DEF Attest
  <2>2. QED
    BY <1>13, <2>1 DEF Attest, ThreadsOK
<1>14. ASSUME NEW t \in Threads, NEW q \in Requests, Receive(t, q) PROVE TypeOK'
  BY <1>14 DEF Receive, Goto
<1>15. CASE UNCHANGED vars
  BY <1>15 DEF vars
<1>16. QED
  BY <1>1, <1>2, <1>3, <1>4, <1>5, <1>6, <1>7, <1>8, <1>9, <1>10, <1>11, <1>12, <1>13,
     <1>14, <1>15 DEF Next, Handle

LEMMA DownStep == TypeOK /\ DownInv /\ [Next]_vars => DownInv'
<1> SUFFICES ASSUME TypeOK, DownInv, [Next]_vars PROVE DownInv'
  OBVIOUS
<1> USE DEF DownInv, TypeOK, world, list, process
<1>1. CASE Stop
  BY <1>1 DEF Stop
<1>2. ASSUME NEW readable \in BOOLEAN, Start(readable) PROVE DownInv'
  BY <1>2 DEF Start
<1>3. CASE Tick \/ PermitsMove \/ FetchFails \/ Fetch \/ Clear \/ Fill
            \/ (\E q \in Requests : Sign(q)) \/ UNCHANGED vars
  BY <1>3 DEF Tick, PermitsMove, FetchFails, Fetch, Clear, Fill, Sign, vars
<1>4. ASSUME NEW t \in Threads, NEW q \in Requests, Receive(t, q) PROVE DownInv'
  BY <1>4 DEF Receive
<1>5. ASSUME NEW t \in Threads, Handle(t) PROVE DownInv'
  <2>1. pc[t] # "idle" /\ proc' = proc
    BY <1>5 DEF Handle, Authenticate, CheckAllowed, Work, Attest
  <2>2. QED
    BY <2>1
<1>6. QED
  BY <1>1, <1>2, <1>3, <1>4, <1>5 DEF Next

LEMMA ListStep == TypeOK /\ ListInv /\ [Next]_vars => ListInv'
<1> SUFFICES ASSUME TypeOK, ListInv, [Next]_vars PROVE ListInv'
  OBVIOUS
<1> USE DEF ListInv, list
<1>1. CASE Stop
  BY <1>1 DEF Stop
<1>2. ASSUME NEW readable \in BOOLEAN, Start(readable) PROVE ListInv'
  BY <1>2 DEF Start
<1>3. CASE Fetch
  BY <1>3 DEF Fetch
<1>4. CASE Clear
  BY <1>4 DEF Clear, Cleared
<1>5. CASE Fill
  BY <1>5 DEF Fill, Filled
<1>6. CASE Tick \/ PermitsMove \/ FetchFails \/ (\E q \in Requests : Sign(q)) \/ UNCHANGED vars
  BY <1>6 DEF Tick, PermitsMove, FetchFails, Sign, vars
<1>7. ASSUME NEW t \in Threads, Handle(t) \/ \E q \in Requests : Receive(t, q) PROVE ListInv'
  BY <1>7 DEF Handle, Authenticate, CheckAllowed, Work, Attest, Receive
<1>8. QED
  BY <1>1, <1>2, <1>3, <1>4, <1>5, <1>6, <1>7 DEF Next

LEMMA SinceStep == TypeOK /\ DownInv /\ SinceInv /\ [Next]_vars => SinceInv'
<1> SUFFICES ASSUME TypeOK, DownInv, SinceInv, [Next]_vars PROVE SinceInv'
  OBVIOUS
<1> USE DEF SinceInv, TypeOK, Steps, list, process, world
<1>1. CASE Stop
  BY <1>1 DEF Stop
<1>2. ASSUME NEW readable \in BOOLEAN, Start(readable) PROVE SinceInv'
  BY <1>2 DEF Start, DownInv
<1>3. CASE Fill
  BY <1>3 DEF Fill
<1>4. CASE Tick \/ PermitsMove \/ FetchFails \/ Fetch \/ Clear
            \/ (\E q \in Requests : Sign(q)) \/ UNCHANGED vars
  BY <1>4 DEF Tick, PermitsMove, FetchFails, Fetch, Clear, Sign, vars
<1>5. ASSUME NEW t \in Threads, NEW q \in Requests, Receive(t, q) PROVE SinceInv'
  BY <1>5 DEF Receive, Goto
<1>6. ASSUME NEW t \in Threads, Handle(t) PROVE SinceInv'
  <2>1. pc[t] # "idle" /\ inForce' = inForce
    BY <1>6 DEF Handle, Authenticate, CheckAllowed, Work, Attest
  <2>2. \/ Reply(t)
        \/ since' = since /\ \E s \in Steps : Goto(t, s)
    BY <1>6 DEF Handle, Authenticate, CheckAllowed, Work, Attest
  <2>3. QED
    BY <2>1, <2>2 DEF Reply, Goto
<1>7. QED
  BY <1>1, <1>2, <1>3, <1>4, <1>5, <1>6 DEF Next

LEMMA ListedStep == TypeOK /\ ListInv /\ SinceInv /\ OnlyListed /\ [Next]_vars => OnlyListed'
<1> SUFFICES ASSUME TypeOK, ListInv, SinceInv, OnlyListed, [Next]_vars PROVE OnlyListed'
  OBVIOUS
<1> USE CallersAssumption DEF OnlyListed, TypeOK, Steps, list, process, world
<1>1. CASE Stop
  BY <1>1 DEF Stop
<1>2. CASE Fill
  BY <1>2 DEF Fill
<1>3. CASE Tick \/ PermitsMove \/ FetchFails \/ Fetch \/ Clear
            \/ (\E readable \in BOOLEAN : Start(readable))
            \/ (\E q \in Requests : Sign(q)) \/ UNCHANGED vars
  BY <1>3 DEF Tick, PermitsMove, FetchFails, Fetch, Clear, Start, Sign, vars
<1>4. ASSUME NEW t \in Threads, NEW q \in Requests, Receive(t, q) PROVE OnlyListed'
  BY <1>4 DEF Receive, Goto
<1>5. ASSUME NEW t \in Threads, Reply(t) PROVE OnlyListed'
  BY <1>5 DEF Reply, Goto
<1>6. ASSUME NEW t \in Threads, CheckAllowed(t), call[t].caller \in allowed PROVE OnlyListed'
  <2>1. call[t].caller \in since[t].some
    BY <1>6 DEF CheckAllowed, ListInv, SinceInv
  <2>2. QED
    BY <1>6, <2>1 DEF CheckAllowed, Goto
<1>7. ASSUME NEW t \in Threads, Authenticate(t), ~Reply(t) PROVE OnlyListed'
  BY <1>7 DEF Authenticate, Goto
<1>8. ASSUME NEW t \in Threads, Work(t), ~Reply(t) PROVE OnlyListed'
  BY <1>8 DEF Work, Goto
<1>9. QED
  BY <1>1, <1>2, <1>3, <1>4, <1>5, <1>6, <1>7, <1>8 DEF Next, Handle, Attest, CheckAllowed

LEMMA SpentStep == TypeOK /\ SpentInv /\ [Next]_vars => SpentInv'
<1> SUFFICES ASSUME TypeOK, SpentInv, [Next]_vars PROVE SpentInv'
  OBVIOUS
<1> USE CallersAssumption DEF SpentInv, Past, TypeOK, Steps, list, process, world
<1>1. CASE Stop
  BY <1>1 DEF Stop
<1>2. ASSUME NEW readable \in BOOLEAN, Start(readable) PROVE SpentInv'
  BY <1>2 DEF Start
<1>3. CASE Tick \/ PermitsMove \/ FetchFails \/ Fetch \/ Clear \/ Fill
            \/ (\E q \in Requests : Sign(q)) \/ UNCHANGED vars
  BY <1>3 DEF Tick, PermitsMove, FetchFails, Fetch, Clear, Fill, Sign, vars
<1>4. ASSUME NEW t \in Threads, NEW q \in Requests, Receive(t, q) PROVE SpentInv'
  BY <1>4 DEF Receive, Goto
<1>5. ASSUME NEW t \in Threads, Reply(t), UNCHANGED <<process, seen, ran>> PROVE SpentInv'
  BY <1>5 DEF Reply, Goto
<1>6. ASSUME NEW t \in Threads, CheckAllowed(t), ~Reply(t) PROVE SpentInv'
  BY <1>6 DEF CheckAllowed, Goto
<1>7. ASSUME NEW t \in Threads, Authenticate(t), ~Reply(t) PROVE SpentInv'
  BY <1>7 DEF Authenticate, Goto
<1>8. ASSUME NEW t \in Threads, Work(t) PROVE SpentInv'
  <2>1. \A u \in Threads :
           pc'[u] \in Past => pc[u] \in Past /\ call'[u] = call[u]
    BY <1>8 DEF Work, Goto, Reply
  <2>2. call[t] \in Requests /\ (call[t].caller \in Hotkeys => call[t] \in seen)
    BY <1>8, BusyThread DEF Work
  <2>3. \A q \in Requests, n \in Nat :
           <<q, n>> \in ran' => <<q, n>> \in ran \/ (n = boots /\ q \in seen)
    BY <1>8, <2>2 DEF Work, Ran
  <2>4. QED
    BY <1>8, <2>1, <2>3 DEF Work
<1>9. ASSUME NEW t \in Threads, Attest(t) PROVE SpentInv'
  BY <1>9, <1>5 DEF Attest
<1>10. QED
  <2>1. ASSUME NEW t \in Threads, CheckAllowed(t) PROVE SpentInv'
    BY <2>1, <1>5, <1>6 DEF CheckAllowed
  <2>2. ASSUME NEW t \in Threads, Authenticate(t) PROVE SpentInv'
    BY <2>2, <1>5, <1>7 DEF Authenticate, Goto, Reply
  <2>3. QED
    BY <1>1, <1>2, <1>3, <1>4, <1>8, <1>9, <2>1, <2>2 DEF Next, Handle

LEMMA OnceStep ==
    TypeOK /\ DownInv /\ SpentInv /\ OncePerBoot /\ [Next]_vars => OncePerBoot'
<1> SUFFICES ASSUME TypeOK, DownInv, SpentInv, OncePerBoot, [Next]_vars PROVE OncePerBoot'
  OBVIOUS
<1> USE CallersAssumption DEF OncePerBoot, TypeOK, Steps, list, process, world
<1>1. CASE Stop
  BY <1>1 DEF Stop
<1>2. ASSUME NEW readable \in BOOLEAN, Start(readable) PROVE OncePerBoot'
  BY <1>2 DEF Start, DownInv
<1>3. CASE Tick \/ PermitsMove \/ FetchFails \/ Fetch \/ Clear \/ Fill
            \/ (\E q \in Requests : Sign(q)) \/ UNCHANGED vars
  BY <1>3 DEF Tick, PermitsMove, FetchFails, Fetch, Clear, Fill, Sign, vars
<1>4. ASSUME NEW t \in Threads, NEW q \in Requests, Receive(t, q) PROVE OncePerBoot'
  BY <1>4 DEF Receive, Goto
<1>5. ASSUME NEW t \in Threads, Reply(t), UNCHANGED <<process, ran>> PROVE OncePerBoot'
  BY <1>5 DEF Reply, Goto
<1>6. ASSUME NEW t \in Threads, CheckAllowed(t), ~Reply(t) PROVE OncePerBoot'
  BY <1>6 DEF CheckAllowed, Goto
<1>7. ASSUME NEW t \in Threads, Authenticate(t), ~Reply(t) PROVE OncePerBoot'
  <2>1. CASE call[t].caller \in Hotkeys
    <3>1. call[t] \in Requests \ seen /\ proc = "up" /\ Goto(t, "allow")
      BY <1>7, <2>1, BusyThread DEF Authenticate, Unseen, DownInv
    <3>2. <<call[t], boots>> \notin ran
      BY <3>1 DEF SpentInv
    <3>3. \A u \in Threads : pc[u] \in Past => call[u] # call[t]
      BY <2>1, <3>1 DEF SpentInv
    <3>4. QED
      BY <1>7, <3>1, <3>2, <3>3 DEF Authenticate, Goto, Past
  <2>2. CASE call[t].caller \notin Hotkeys
    BY <1>7, <2>2 DEF Authenticate, Goto
  <2>3. QED
    BY <2>1, <2>2
<1>8. ASSUME NEW t \in Threads, Work(t) PROVE OncePerBoot'
  <2>1. \A u \in Threads :
           pc'[u] # "idle" => call'[u] = call[u] /\ pc[u] # "idle"
    BY <1>8 DEF Work, Goto, Reply
  <2>2. \A u \in Threads : pc'[u] \in {"allow", "work"} => u # t /\ pc'[u] = pc[u]
    BY <1>8 DEF Work, Goto, Reply
  <2>3. \A u \in Threads : pc'[u] \in Past => pc[u] \in Past
    BY <1>8 DEF Work, Goto, Reply, Past
  <2>4. \A r : r \in ran' => r \in ran \/ (r = <<call[t], boots>> /\ call[t].caller \in Hotkeys)
    BY <1>8 DEF Work, Ran
  <2>5. boots' = boots /\ pc[t] = "work"
    BY <1>8 DEF Work
  <2>6. QED
    BY <2>1, <2>2, <2>3, <2>4, <2>5 DEF Past
<1>9. ASSUME NEW t \in Threads, Attest(t) PROVE OncePerBoot'
  BY <1>9, <1>5 DEF Attest
<1>10. QED
  <2>1. ASSUME NEW t \in Threads, CheckAllowed(t) PROVE OncePerBoot'
    BY <2>1, <1>5, <1>6 DEF CheckAllowed
  <2>2. ASSUME NEW t \in Threads, Authenticate(t) PROVE OncePerBoot'
    BY <2>2, <1>5, <1>7 DEF Authenticate
  <2>3. QED
    BY <1>1, <1>2, <1>3, <1>4, <1>8, <1>9, <2>1, <2>2 DEF Next, Handle

LEMMA InvStep == IInv /\ [Next]_vars => IInv'
BY TypeStep, DownStep, ListStep, SinceStep, ListedStep, SpentStep, OnceStep DEF IInv

LEMMA Invariance == Spec => []IInv
BY InvInit, InvStep, PTL DEF Spec

\* Every variable of the miner keeps its type.
THEOREM ServingTypeCorrect == Spec => []TypeOK
BY Invariance, PTL DEF IInv

\* For any threads and requests, one process does the work of a signed request
\* at most once, whatever threads it reaches (handler.py, _authenticate).
THEOREM WorkOncePerBoot == Spec => []OncePerBoot
BY Invariance, PTL DEF IInv

\* For any hotkeys and any permits, whoever gets past the allowlist was on a
\* complete list since the call began (run_miner.py, refresh_allowlist).
THEOREM ServesOnlyListed == Spec => []OnlyListed
BY Invariance, PTL DEF IInv

LEMMA RefusedStep ==
    ASSUME IInv, [Next]_vars, NEW t \in Threads,
           pc[t] = "allow", pc'[t] = "idle", proc' = "up", call[t].caller \in since[t].all
    PROVE  refresher = "cleared"
<1> USE DEF IInv, TypeOK, Steps, list, process, world
<1>1. CASE CheckAllowed(t)
  <2>1. call[t].caller \notin allowed
    BY <1>1 DEF CheckAllowed, Goto
  <2>2. call[t].caller \in inForce
    BY DEF SinceInv
  <2>3. QED
    BY <2>1, <2>2 DEF ListInv
<1>2. ASSUME NEW u \in Threads \ {t}, CheckAllowed(u) PROVE FALSE
  BY <1>2 DEF CheckAllowed, Goto, Reply
<1>3. ASSUME NEW u \in Threads, Authenticate(u) \/ Work(u) \/ Attest(u) PROVE FALSE
  BY <1>3 DEF Authenticate, Work, Attest, Goto, Reply
<1>4. ASSUME NEW u \in Threads, NEW q \in Requests, Receive(u, q) PROVE FALSE
  BY <1>4 DEF Receive, Goto
<1>5. CASE Stop
  BY <1>5 DEF Stop
<1>6. CASE Tick \/ PermitsMove \/ FetchFails \/ Fetch \/ Clear \/ Fill
            \/ (\E readable \in BOOLEAN : Start(readable))
            \/ (\E q \in Requests : Sign(q)) \/ UNCHANGED vars
  BY <1>6 DEF Tick, PermitsMove, FetchFails, Fetch, Clear, Fill, Start, Sign, vars
<1>7. QED
  BY <1>1, <1>2, <1>3, <1>4, <1>5, <1>6 DEF Next, Handle

\* For any callers, one that every list names is turned away by the list only
\* between the clear() and the update() (run_miner.py, refresh_allowlist).
THEOREM ListedOnlyRefusedMidRefresh == Spec => ListedRefusedOnlyMidRefresh
<1>1. IInv /\ [Next]_vars =>
        [\A t \in Threads :
           pc[t] = "allow" /\ pc'[t] = "idle" /\ proc' = "up" /\ call[t].caller \in since[t].all
             => refresher = "cleared"]_vars
  BY RefusedStep
<1>2. QED
  BY <1>1, Invariance, PTL DEF Spec, ListedRefusedOnlyMidRefresh
=============================================================================
