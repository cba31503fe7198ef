--------------------------- MODULE SidecarProofs ---------------------------
(* Invariants of the sidecar, for any number of requests and models, and    *)
(* any caps and budget.                                                     *)
EXTENDS Sidecar, TLAPS

(* What is true of each request, whatever step comes next.                  *)

Shaped(r) ==
    /\ r \in Task
    /\ r.holds <=> r.pc \in {"peek", "stream"}
    /\ r.pc \in {"send", "peek"} => r.kind = "stream"
    /\ r.pc = "idle" => r.model = 1 /\ r.tried = {} /\ r.client = "none"
    /\ r.pc \in {"idle", "next"} => r.waited = 0
    /\ r.pc = "reset" => r.model # Groq
    /\ r.client = "closed" => r.disturbed

\* How far the clock of the phase is, by where the attempt is.
Timely(r) ==
    r.model # Groq =>
        /\ r.pc = "send" => r.waited <= Ttft /\ r.spent <= Budget + r.waited
        /\ r.pc = "peek" => r.waited <= Ttft /\ r.spent <= Budget + Ttft + r.waited

\* The models before this one have all been tried.
Thorough(r) ==
    r.disturbed \/
        IF r.model = Groq THEN r.spent > Budget \/ r.tried = 1..Last
        ELSE r.tried = IF r.pc = "reset" THEN 1..r.model ELSE 1..(r.model - 1)

Sound(r) == Shaped(r) /\ Timely(r) /\ Thorough(r)

\* While the client is closed, nobody but who replaces it is undisturbed.
Noticed == ~usable => \A t \in Tasks : tasks[t].pc \in {"idle", "reset"} \/ tasks[t].disturbed

Invariant ==
    /\ usable \in BOOLEAN /\ hasGroq \in BOOLEAN
    /\ tasks \in [Tasks -> Task]
    /\ \A t \in Tasks : Sound(tasks[t])
    /\ Noticed

----------------------------------------------------------------------------

LEMMA Numbers == /\ Last \in Nat /\ Last >= 1 /\ Ttft \in Nat /\ Budget \in Nat
                 /\ Groq = Last + 1 /\ Longest \in Nat /\ Longest = Budget + 2 * Ttft + 1
BY SidecarAssumption DEF Groq, Longest

\* No model comes before the first.
LEMMA FirstIsThorough ==
    ASSUME NEW r, r.model = 1, r.tried = {}, r.pc # "reset"
    PROVE  Thorough(r)
<1>1. r.model - 1 = 0 /\ 1..0 = {}
  OBVIOUS
<1>2. 1..(r.model - 1) = {}
  BY <1>1
<1>3. r.model # Groq
  BY Numbers
<1>4. QED
  BY <1>2, <1>3 DEF Thorough

LEMMA IdleIsSound == Idle \in Task /\ Sound(Idle)
<1>1. Idle \in Task
  BY Numbers DEF Idle, Task, Kinds
<1>2. Idle.model = 1 /\ Idle.tried = {} /\ Idle.pc = "idle"
  BY DEF Idle
<1>3. Thorough(Idle)
  BY <1>2, FirstIsThorough
<1>4. QED
  BY <1>1, <1>3 DEF Idle, Sound, Shaped, Timely

\* The loop goes on soundly from an attempt that has failed or was robbed.
LEMMA OnwardIsSound ==
    ASSUME NEW r \in Task, r.model # Groq, r.disturbed \/ r.tried = 1..r.model
    PROVE  /\ Sound(Onward(r))
           /\ Onward(r).disturbed = r.disturbed
<1> DEFINE s == Onward(r)
<1>1. s = [r EXCEPT !.holds = FALSE, !.pc = "next", !.model = r.model + 1, !.client = "none", !.waited = 0]
  BY DEF Onward, Closed, Following, Task
<1>2. /\ s.pc = "next" /\ s.model = r.model + 1 /\ s.client = "none" /\ s.waited = 0 /\ ~s.holds
      /\ s.tried = r.tried /\ s.disturbed = r.disturbed /\ s.spent = r.spent
  BY <1>1 DEF Task
<1>3. s \in Task
  <2>1. r.model \in 1..Groq
    BY DEF Task
  <2>2. r.model + 1 \in 1..Groq
    BY <2>1, Numbers
  <2> DEFINE a == [r EXCEPT !.holds = FALSE, !.pc = "next", !.model = r.model + 1, !.client = "none"]
  <2>3. a \in Task
    BY <2>2 DEF Task
  <2>4. [a EXCEPT !.waited = 0] \in Task
    BY <2>3 DEF Task
  <2>5. s = [a EXCEPT !.waited = 0]
    BY <1>1 DEF Task
  <2>6. QED
    BY <2>4, <2>5
<1>4. Shaped(s) /\ Timely(s)
  BY <1>2, <1>3 DEF Shaped, Timely
<1>5. Thorough(s)
  <2>1. r.model \in 1..Last
    BY Numbers DEF Task
  <2>2. (r.model + 1) - 1 = r.model
    BY <2>1
  <2>3. CASE r.disturbed
    BY <1>2, <2>3 DEF Thorough
  <2>4. CASE r.tried = 1..r.model
    BY <1>2, <2>1, <2>2, <2>4, Numbers DEF Thorough
  <2>5. QED
    BY <2>3, <2>4
<1>6. QED
  BY <1>2, <1>4, <1>5 DEF Sound

\* One request moves and the client stays as it is.
LEMMA OneMoves ==
    ASSUME Invariant, NEW t \in Tasks, NEW r, Become(t, r), Sound(r), UNCHANGED <<usable, hasGroq>>,
           usable \/ r.pc \in {"idle", "reset"} \/ r.disturbed
    PROVE  Invariant'
<1>1. r \in Task
  BY DEF Sound, Shaped
<1>2. tasks' = [tasks EXCEPT ![t] = r] /\ tasks' \in [Tasks -> Task]
  BY <1>1 DEF Become, Invariant
<1>3. \A u \in Tasks : tasks'[u] = IF u = t THEN r ELSE tasks[u]
  BY <1>2 DEF Invariant
<1>4. \A u \in Tasks : Sound(tasks'[u])
  BY <1>3 DEF Invariant
<1>5. Noticed'
  BY <1>3 DEF Invariant, Noticed
<1>6. QED
  BY <1>2, <1>4, <1>5 DEF Invariant

LEMMA EndKeeps ==
    ASSUME Invariant, NEW t \in Tasks, End(t), UNCHANGED <<usable, hasGroq>>
    PROVE  Invariant'
<1> DEFINE r == [Closed(tasks[t]) EXCEPT !.pc = "idle", !.kind = "buffered", !.model = 1, !.spent = 0,
                         !.waited = 0, !.client = "none", !.tried = {}, !.disturbed = FALSE]
<1>1. tasks[t] \in Task
  BY DEF Invariant
<1>2. r = [tasks[t] EXCEPT !.holds = FALSE, !.pc = "idle", !.kind = "buffered", !.model = 1, !.spent = 0,
                         !.waited = 0, !.client = "none", !.tried = {}, !.disturbed = FALSE]
  BY <1>1 DEF Closed, Task
<1>3. /\ r.pc = "idle" /\ r.kind = "buffered" /\ r.model = 1 /\ r.spent = 0 /\ r.waited = 0
      /\ r.client = "none" /\ ~r.holds /\ r.tried = {} /\ ~r.disturbed
  BY <1>1, <1>2 DEF Task
<1>4. r \in Task
  <2> DEFINE a == [tasks[t] EXCEPT !.holds = FALSE, !.pc = "idle", !.kind = "buffered", !.client = "none"]
             b == [a EXCEPT !.model = 1, !.spent = 0, !.waited = 0, !.tried = {}, !.disturbed = FALSE]
  <2>1. a \in Task
    BY <1>1 DEF Task, Kinds
  <2>2. b \in Task
    <3>1. 1 \in 1..Groq /\ 0 \in 0..Longest
      BY Numbers
    <3>2. [a EXCEPT !.model = 1, !.spent = 0, !.waited = 0] \in Task
      BY <2>1, <3>1 DEF Task
    <3>3. QED
      BY <3>2 DEF Task
  <2>3. r = b
    BY <1>1, <1>2 DEF Task
  <2>4. QED
    BY <2>2, <2>3
<1>5. Shaped(r) /\ Timely(r)
  BY <1>3, <1>4 DEF Shaped, Timely
<1>6. Thorough(r)
  BY <1>3, FirstIsThorough
<1>7. QED
  BY <1>3, <1>5, <1>6, OneMoves DEF End, Sound

Attempting == {"next", "send", "peek", "post"}

\* An attempt of the chain that has failed, or that another request disturbed,
\* leaves no model behind untried.
LEMMA NoneLeftOut ==
    ASSUME Invariant, NEW t \in Tasks, tasks[t].pc \in Attempting, tasks[t].model # Groq,
           NEW r, r = Failed(t) \/ (r = tasks[t] /\ r.disturbed)
    PROVE  /\ r \in Task /\ r.model = tasks[t].model /\ r.disturbed = tasks[t].disturbed
           /\ r.disturbed \/ r.tried = 1..r.model
<1>1. tasks[t] \in Task /\ Sound(tasks[t])
  BY DEF Invariant
<1>2. tasks[t].model \in 1..Last
  BY <1>1, Numbers DEF Task
<1>3. CASE r = Failed(t)
  <2>1. r = [tasks[t] EXCEPT !.tried = tasks[t].tried \cup {tasks[t].model}]
    BY <1>1, <1>3 DEF Failed, Task
  <2>2. /\ r.model = tasks[t].model /\ r.disturbed = tasks[t].disturbed
        /\ r.tried = tasks[t].tried \cup {tasks[t].model}
    BY <1>1, <2>1 DEF Task
  <2>3. r \in Task
    BY <1>1, <1>2, <2>1 DEF Task
  <2>4. ASSUME ~tasks[t].disturbed PROVE r.tried = 1..r.model
    <3>1. tasks[t].tried = 1..(tasks[t].model - 1)
      BY <1>1, <2>4 DEF Sound, Thorough, Attempting
    <3>2. QED
      BY <1>2, <2>2, <3>1
  <2>5. QED
    BY <2>2, <2>3, <2>4
<1>4. CASE r = tasks[t] /\ r.disturbed
  BY <1>1, <1>4
<1>5. QED
  BY <1>3, <1>4

LEMMA ContinueKeeps ==
    ASSUME Invariant, NEW t \in Tasks, tasks[t].pc \in Attempting,
           NEW r, r = Failed(t) \/ (r = tasks[t] /\ r.disturbed), Continue(t, r)
    PROVE  Invariant'
<1>1. tasks[t] \in Task
  BY DEF Invariant
<1>2. r.model = tasks[t].model
  BY <1>1 DEF Failed, Task
<1>3. CASE r.model = Groq
  BY <1>3, EndKeeps DEF Continue
<1>4. CASE r.model # Groq
  <2>1. Sound(Onward(r)) /\ Onward(r).disturbed = tasks[t].disturbed
    BY <1>2, <1>4, NoneLeftOut, OnwardIsSound
  <2>2. usable \/ tasks[t].disturbed
    BY DEF Invariant, Noticed, Attempting
  <2>3. QED
    BY <1>4, <2>1, <2>2, OneMoves DEF Continue
<1>5. QED
  BY <1>3, <1>4

\* What a reset does to the others: their connections are gone, and they know.
LEMMA OthersStaySound ==
    ASSUME NEW s, Sound(s), NEW d \in BOOLEAN, NEW c \in {"none", "older", "closed"},
           c = "closed" => d, s.pc = "idle" => c = "none", d \/ s.pc = "idle" \/ d = s.disturbed
    PROVE  Sound([s EXCEPT !.disturbed = d, !.client = c])
<1> DEFINE r == [s EXCEPT !.disturbed = d, !.client = c]
<1>1. s \in Task
  BY DEF Sound, Shaped
<1>2. r \in Task
  BY <1>1 DEF Task
<1>3. /\ r.pc = s.pc /\ r.kind = s.kind /\ r.model = s.model /\ r.spent = s.spent /\ r.waited = s.waited
      /\ r.holds = s.holds /\ r.tried = s.tried /\ r.disturbed = d /\ r.client = c
  BY <1>1 DEF Task
<1>4. Shaped(r) /\ Timely(r)
  BY <1>2, <1>3 DEF Sound, Shaped, Timely
<1>5. Thorough(r)
  <2>1. CASE d
    BY <1>3, <2>1 DEF Thorough
  <2>2. CASE s.pc = "idle"
    <3>1. s.model = 1 /\ s.tried = {}
      BY <2>2 DEF Sound, Shaped
    <3>2. QED
      BY <1>3, <2>2, <3>1, FirstIsThorough
  <2>3. CASE d = s.disturbed
    BY <1>3, <2>3 DEF Sound, Thorough
  <2>4. QED
    BY <2>1, <2>2, <2>3
<1>6. QED
  BY <1>4, <1>5 DEF Sound

LEMMA RecreateKeeps ==
    ASSUME Invariant, NEW t \in Tasks, ResetDone(t)
    PROVE  Invariant'
<1> DEFINE older(u) == [tasks[u] EXCEPT !.client = IF tasks[u].client = "current" THEN "older" ELSE tasks[u].client]
<1>1. usable' = TRUE /\ hasGroq' = hasGroq
      /\ tasks' = [u \in Tasks |-> IF u = t THEN Onward(tasks[t]) ELSE older(u)]
  BY DEF ResetDone, Recreate
<1>2. tasks[t] \in Task /\ Sound(tasks[t]) /\ tasks[t].pc = "reset"
  BY DEF Invariant, ResetDone, At
<1>3. Sound(Onward(tasks[t]))
  BY <1>2, OnwardIsSound DEF Sound, Shaped, Thorough
<1>4. ASSUME NEW u \in Tasks PROVE Sound(older(u))
  <2>1. tasks[u] \in Task /\ Sound(tasks[u])
    BY DEF Invariant
  <2>2. CASE tasks[u].client = "current"
    <3>1. older(u) = [tasks[u] EXCEPT !.disturbed = tasks[u].disturbed, !.client = "older"]
      BY <2>1, <2>2 DEF Task
    <3>2. tasks[u].pc # "idle" /\ tasks[u].disturbed \in BOOLEAN
      BY <2>1, <2>2 DEF Sound, Shaped, Task
    <3>3. QED
      BY <2>1, <3>1, <3>2, OthersStaySound
  <2>3. CASE tasks[u].client # "current"
    <3>1. older(u) = tasks[u]
      BY <2>1, <2>3 DEF Task
    <3>2. QED
      BY <2>1, <3>1
  <2>4. QED
    BY <2>2, <2>3
<1>5. \A u \in Tasks : Sound(tasks'[u])
  BY <1>1, <1>3, <1>4
<1>6. \A u \in Tasks : tasks'[u] \in Task
  BY <1>5 DEF Sound, Shaped
<1>7. tasks' \in [Tasks -> Task]
  BY <1>1, <1>6
<1>8. QED
  BY <1>1, <1>5, <1>7 DEF Invariant, Noticed

LEMMA ResetKeeps ==
    ASSUME Invariant, NEW t \in Tasks, tasks[t].pc \in Attempting, tasks[t].model # Groq,
           NEW r, r = Failed(t) \/ (r = tasks[t] /\ r.disturbed), Reset(t, r)
    PROVE  Invariant'
<1>1. /\ r \in Task /\ r.model # Groq /\ r.disturbed = tasks[t].disturbed
      /\ r.disturbed \/ r.tried = 1..r.model
  BY NoneLeftOut
<1>2. CASE ~usable
  <2>1. usable' = TRUE /\ hasGroq' = hasGroq /\ Become(t, Onward(r))
    BY <1>2 DEF Reset
  <2>2. Sound(Onward(r)) /\ Onward(r) \in Task
    BY <1>1, OnwardIsSound DEF Sound, Shaped
  <2>3. tasks' = [tasks EXCEPT ![t] = Onward(r)]
    BY <2>1 DEF Become
  <2>4. tasks' \in [Tasks -> Task] /\ \A u \in Tasks : Sound(tasks'[u])
    BY <2>2, <2>3 DEF Invariant
  <2>5. QED
    BY <2>1, <2>4 DEF Invariant, Noticed
<1>3. CASE usable
  <2> DEFINE mine == [Closed(r) EXCEPT !.pc = "reset", !.client = "none"]
  <2>0. PICK connecting \in SUBSET {u \in Tasks : At(u, "send") \/ At(u, "post")} :
          tasks' = [u \in Tasks |->
              IF u = t THEN mine
              ELSE [tasks[u] EXCEPT !.disturbed = ~At(u, "idle"),
                        !.client = IF tasks[u].client # "current" THEN tasks[u].client
                                   ELSE IF u \in connecting THEN "older" ELSE "closed"]]
    BY <1>3 DEF Reset
  <2> DEFINE robbed(u) == [tasks[u] EXCEPT !.disturbed = ~At(u, "idle"),
                               !.client = IF tasks[u].client # "current" THEN tasks[u].client
                                          ELSE IF u \in connecting THEN "older" ELSE "closed"]
  <2>1. usable' = FALSE /\ hasGroq' = hasGroq
        /\ tasks' = [u \in Tasks |-> IF u = t THEN mine ELSE robbed(u)]
    BY <1>3, <2>0 DEF Reset
  <2>2. Sound(mine) /\ mine.pc = "reset"
    <3>1. mine = [r EXCEPT !.holds = FALSE, !.pc = "reset", !.client = "none"]
      BY <1>1 DEF Closed, Task
    <3>2. /\ mine.pc = "reset" /\ mine.client = "none" /\ ~mine.holds /\ mine.model = r.model
          /\ mine.tried = r.tried /\ mine.disturbed = r.disturbed
      BY <1>1, <3>1 DEF Task
    <3>3. mine \in Task
      BY <1>1, <3>1 DEF Task
    <3>4. Shaped(mine) /\ Timely(mine)
      BY <1>1, <3>2, <3>3 DEF Shaped, Timely
    <3>5. Thorough(mine)
      BY <1>1, <3>2 DEF Thorough
    <3>6. QED
      BY <3>2, <3>4, <3>5 DEF Sound
  <2>3. ASSUME NEW u \in Tasks
        PROVE  Sound(robbed(u)) /\ (robbed(u).pc = "idle" \/ robbed(u).disturbed)
    <3> DEFINE c == IF tasks[u].client # "current" THEN tasks[u].client
                    ELSE IF u \in connecting THEN "older" ELSE "closed"
    <3>1. tasks[u] \in Task /\ Sound(tasks[u])
      BY DEF Invariant
    <3>2. robbed(u) = [tasks[u] EXCEPT !.disturbed = ~At(u, "idle"), !.client = c]
      OBVIOUS
    <3>3. c \in {"none", "older", "closed"}
      BY <3>1 DEF Task
    <3>4. (c \in {"older", "closed"} => ~At(u, "idle")) /\ (tasks[u].pc = "idle" => c = "none")
      BY <3>1 DEF Sound, Shaped, At
    <3>5. Sound(robbed(u))
      <4>1. ~At(u, "idle") \/ tasks[u].pc = "idle"
        BY DEF At
      <4>2. (~At(u, "idle")) \in BOOLEAN
        BY DEF At
      <4>3. QED
        BY <3>1, <3>2, <3>3, <3>4, <4>1, <4>2, OthersStaySound
    <3>6. robbed(u).pc = tasks[u].pc /\ robbed(u).disturbed = ~At(u, "idle")
      BY <3>1 DEF Task
    <3>7. QED
      BY <3>5, <3>6 DEF At
  <2>4. \A u \in Tasks : Sound(tasks'[u])
    BY <2>1, <2>2, <2>3
  <2>5. \A u \in Tasks : tasks'[u] \in Task
    BY <2>4 DEF Sound, Shaped
  <2>6. tasks' \in [Tasks -> Task]
    BY <2>1, <2>5
  <2>7. Noticed'
    BY <2>1, <2>2, <2>3 DEF Noticed
  <2>8. QED
    BY <2>1, <2>4, <2>6, <2>7 DEF Invariant
<1>4. usable \in BOOLEAN
  BY DEF Invariant
<1>5. QED
  BY <1>2, <1>3, <1>4

LEMMA FailBadlyKeeps ==
    ASSUME Invariant, NEW t \in Tasks, tasks[t].pc \in Attempting,
           NEW r, r = Failed(t) \/ (r = tasks[t] /\ r.disturbed), FailBadly(t, r)
    PROVE  Invariant'
<1>1. r.model = tasks[t].model
  <2>1. tasks[t] \in Task
    BY DEF Invariant
  <2>2. QED
    BY <2>1 DEF Failed, Task
<1>2. CASE r.model = Groq
  BY <1>2, ContinueKeeps DEF FailBadly
<1>3. CASE r.model # Groq
  BY <1>1, <1>3, ResetKeeps DEF FailBadly
<1>4. QED
  BY <1>2, <1>3

----------------------------------------------------------------------------

LEMMA AcceptKeeps ==
    ASSUME Invariant, NEW t \in Tasks, NEW kind \in Kinds, Accept(t, kind)
    PROVE  Invariant'
<1> DEFINE r == [Idle EXCEPT !.pc = "next", !.kind = kind, !.disturbed = ~usable]
<1>1. usable \in BOOLEAN
  BY DEF Invariant
<1>2. /\ r.pc = "next" /\ r.kind = kind /\ r.disturbed = ~usable /\ r.model = 1 /\ r.tried = {}
      /\ r.waited = 0 /\ r.client = "none" /\ ~r.holds
  BY DEF Idle
<1>3. r \in Task
  BY <1>1, IdleIsSound DEF Task, Idle
<1>4. Thorough(r)
  BY <1>2, FirstIsThorough
<1>5. Sound(r)
  BY <1>2, <1>3, <1>4 DEF Sound, Shaped, Timely
<1>6. QED
  BY <1>1, <1>2, <1>5, OneMoves DEF Accept

LEMMA LoopKeeps ==
    ASSUME Invariant, NEW t \in Tasks, Loop(t)
    PROVE  Invariant'
<1>1. tasks[t] \in Task /\ Sound(tasks[t])
  BY DEF Invariant
<1>2. CASE PullRipcord(t)
  <2> DEFINE r == [tasks[t] EXCEPT !.model = Groq]
  <2>1. /\ r.pc = "next" /\ r.model = Groq /\ r.spent = tasks[t].spent /\ r.waited = tasks[t].waited
        /\ r.client = tasks[t].client /\ r.disturbed = tasks[t].disturbed /\ r.holds = tasks[t].holds
    BY <1>1, <1>2 DEF PullRipcord, At, Task
  <2>2. r \in Task
    BY <1>1, Numbers DEF Task
  <2>3. tasks[t].spent > Budget /\ tasks[t].pc = "next"
    BY <1>2 DEF PullRipcord, OverBudget, At
  <2>4. Sound(r)
    BY <1>1, <2>1, <2>2, <2>3 DEF Sound, Shaped, Timely, Thorough
  <2>5. usable \/ r.disturbed
    BY <2>1, <2>3 DEF Invariant, Noticed
  <2>6. QED
    BY <1>2, <2>4, <2>5, OneMoves DEF PullRipcord
<1>3. CASE Attempt(t)
  <2> DEFINE r == [tasks[t] EXCEPT !.pc = IF Streaming(t) THEN "send" ELSE "post", !.client = "current"]
  <2>1. /\ r.pc = (IF Streaming(t) THEN "send" ELSE "post") /\ r.model = tasks[t].model
        /\ r.spent = tasks[t].spent /\ r.waited = tasks[t].waited /\ r.kind = tasks[t].kind
        /\ r.client = "current" /\ r.disturbed = tasks[t].disturbed /\ r.holds = tasks[t].holds
        /\ r.tried = tasks[t].tried
    BY <1>1 DEF Task
  <2>2. r \in Task
    BY <1>1 DEF Task
  <2>3. tasks[t].pc = "next" /\ (tasks[t].model # Groq => ~(tasks[t].spent > Budget)) /\ usable
    BY <1>3 DEF Attempt, At, MayAttempt, OverBudget
  <2>4. tasks[t].waited = 0 /\ tasks[t].spent \in Nat
    BY <1>1, <2>3, Numbers DEF Sound, Shaped, Task
  <2>5. Shaped(r)
    BY <1>1, <2>1, <2>2, <2>3 DEF Sound, Shaped, Streaming
  <2>6. Timely(r)
    BY <2>1, <2>3, <2>4, Numbers DEF Timely
  <2>7. Thorough(r)
    BY <1>1, <2>1, <2>3 DEF Sound, Thorough
  <2>8. QED
    BY <1>3, <2>3, <2>5, <2>6, <2>7, OneMoves DEF Attempt, Sound
<1>4. CASE AttemptOnClosed(t)
  <2>1. tasks[t].pc \in Attempting
    BY <1>4 DEF AttemptOnClosed, At, Attempting
  <2>2. tasks[t].disturbed
    BY <1>4 DEF AttemptOnClosed, At, Invariant, Noticed
  <2>3. Continue(t, tasks[t]) \/ FailBadly(t, tasks[t])
    BY <1>4 DEF AttemptOnClosed
  <2>4. QED
    BY <2>1, <2>2, <2>3, ContinueKeeps, FailBadlyKeeps
<1>5. CASE AllExhausted(t)
  BY <1>5, EndKeeps DEF AllExhausted
<1>6. CASE ResetDone(t)
  BY <1>6, RecreateKeeps
<1>7. QED
  BY <1>2, <1>3, <1>4, <1>5, <1>6 DEF Loop

LEMMA UpstreamKeeps ==
    ASSUME Invariant, NEW t \in Tasks, Upstream(t)
    PROVE  Invariant'
<1>1. tasks[t] \in Task /\ Sound(tasks[t])
  BY DEF Invariant
<1>2. tasks[t].pc \in {"send", "peek", "post"} => usable \/ tasks[t].disturbed
  BY DEF Invariant, Noticed
<1>3. ~Connected(t) => tasks[t].disturbed
  BY <1>1 DEF Connected, Sound, Shaped
<1>4. CASE Headers(t)
  <2> DEFINE r == [tasks[t] EXCEPT !.pc = "peek", !.holds = TRUE, !.waited = 0]
  <2>1. /\ r.pc = "peek" /\ r.holds /\ r.waited = 0 /\ r.model = tasks[t].model /\ r.spent = tasks[t].spent
        /\ r.kind = tasks[t].kind /\ r.client = tasks[t].client /\ r.disturbed = tasks[t].disturbed
        /\ r.tried = tasks[t].tried
    BY <1>1 DEF Task
  <2>2. r \in Task
    BY <1>1 DEF Task
  <2>3. tasks[t].pc = "send"
    BY <1>4 DEF Headers, At
  <2>4. Shaped(r)
    BY <1>1, <2>1, <2>2, <2>3 DEF Sound, Shaped
  <2>5. Timely(r)
    <3>1. tasks[t].model # Groq => tasks[t].waited <= Ttft /\ tasks[t].spent <= Budget + tasks[t].waited
      BY <1>1, <2>3 DEF Sound, Timely
    <3>2. tasks[t].waited \in Nat /\ tasks[t].spent \in Nat
      BY <1>1, Numbers DEF Task
    <3>3. QED
      BY <2>1, <3>1, <3>2, Numbers DEF Timely
  <2>6. Thorough(r)
    BY <1>1, <2>1, <2>3 DEF Sound, Thorough
  <2>7. QED
    BY <1>2, <1>4, <2>1, <2>3, <2>4, <2>5, <2>6, OneMoves DEF Headers, Sound
<1>5. CASE FirstChunk(t)
  <2> DEFINE r == [tasks[t] EXCEPT !.pc = "stream"]
  <2>1. /\ r.pc = "stream" /\ r.holds = tasks[t].holds /\ r.waited = tasks[t].waited
        /\ r.model = tasks[t].model /\ r.spent = tasks[t].spent
        /\ r.kind = tasks[t].kind /\ r.client = tasks[t].client /\ r.disturbed = tasks[t].disturbed
        /\ r.tried = tasks[t].tried
    BY <1>1 DEF Task
  <2>2. r \in Task
    BY <1>1 DEF Task
  <2>3. tasks[t].pc = "peek"
    BY <1>5 DEF FirstChunk, At
  <2>4. Sound(r)
    BY <1>1, <2>1, <2>2, <2>3 DEF Sound, Shaped, Timely, Thorough
  <2>5. QED
    BY <1>2, <1>5, <2>1, <2>3, <2>4, OneMoves DEF FirstChunk
<1>6. CASE GivesNothing(t)
  BY <1>6, ContinueKeeps DEF GivesNothing, Stalls, At, Attempting
<1>7. CASE FailsLoudly(t)
  BY <1>7, FailBadlyKeeps DEF FailsLoudly, Stalls, At, Attempting
<1>8. CASE Robbed(t)
  BY <1>3, <1>8, ContinueKeeps DEF Robbed, Stalls, At, Attempting
<1>9. CASE StreamEnds(t) \/ Answered200(t)
  BY <1>9, EndKeeps DEF StreamEnds, Answered200
<1>10. CASE Busy(t)
  BY <1>10, ContinueKeeps DEF Busy, At, Attempting
<1>11. CASE Errs(t)
  <2>1. tasks[t].pc \in Attempting
    BY <1>11 DEF Errs, At, Attempting
  <2>2. FailBadly(t, Failed(t)) \/ (tasks[t].disturbed /\ FailBadly(t, tasks[t]))
    BY <1>3, <1>11 DEF Errs
  <2>3. QED
    BY <2>1, <2>2, FailBadlyKeeps
<1>12. CASE Trickle(t)
  <2> DEFINE r == [tasks[t] EXCEPT !.waited = 0]
  <2>1. /\ r.pc = tasks[t].pc /\ r.holds = tasks[t].holds /\ r.waited = 0
        /\ r.model = tasks[t].model /\ r.spent = tasks[t].spent
        /\ r.kind = tasks[t].kind /\ r.client = tasks[t].client /\ r.disturbed = tasks[t].disturbed
        /\ r.tried = tasks[t].tried
    BY <1>1 DEF Task
  <2>2. r \in Task
    BY <1>1 DEF Task
  <2>3. tasks[t].pc = "post"
    BY <1>12 DEF Trickle, At
  <2>4. Sound(r)
    BY <1>1, <2>1, <2>2, <2>3 DEF Sound, Shaped, Timely, Thorough
  <2>5. QED
    BY <1>2, <1>12, <2>1, <2>3, <2>4, OneMoves DEF Trickle
<1>13. QED
  BY <1>4, <1>5, <1>6, <1>7, <1>8, <1>9, <1>10, <1>11, <1>12 DEF Upstream

LEMMA TimesOutKeeps ==
    ASSUME Invariant, NEW t \in Tasks, TimesOut(t)
    PROVE  Invariant'
<1>1. tasks[t].pc \in Attempting
  BY DEF TimesOut, Due, Timed, Attempting
<1>2. Continue(t, Failed(t)) \/ FailBadly(t, Failed(t))
  BY DEF TimesOut
<1>3. QED
  BY <1>1, <1>2, ContinueKeeps, FailBadlyKeeps

LEMMA TickKeeps ==
    ASSUME Invariant, Tick
    PROVE  Invariant'
<1>1. tasks' = [t \in Tasks |-> Later(tasks[t])] /\ UNCHANGED <<usable, hasGroq>>
  BY DEF Tick
<1>2. ASSUME NEW t \in Tasks
      PROVE  Sound(Later(tasks[t])) /\ Later(tasks[t]).pc = tasks[t].pc
             /\ Later(tasks[t]).disturbed = tasks[t].disturbed
  <2> DEFINE s == tasks[t]
             r == Later(s)
             w == IF s.pc \in Timed THEN s.waited + 1 ELSE s.waited
             x == IF s.pc \in {"idle", "stream"} \/ s.model = Groq \/ s.spent = Longest THEN s.spent
                  ELSE s.spent + 1
  <2>1. s \in Task /\ Sound(s)
    BY DEF Invariant
  <2>2. r = [s EXCEPT !.waited = w, !.spent = x]
    BY <2>1 DEF Later, Task
  <2>3. s.waited \in Nat /\ s.spent \in 0..Longest
    BY <2>1 DEF Task
  <2>4. w \in Nat /\ x \in 0..Longest
    BY <2>3, Numbers
  <2>5. r \in Task
    BY <2>1, <2>2, <2>4 DEF Task
  <2>6. /\ r.waited = w /\ r.spent = x /\ r.pc = s.pc /\ r.holds = s.holds /\ r.model = s.model
        /\ r.kind = s.kind /\ r.client = s.client /\ r.disturbed = s.disturbed /\ r.tried = s.tried
    BY <2>1, <2>2 DEF Task
  <2>7. Shaped(r)
    BY <2>1, <2>5, <2>6 DEF Sound, Shaped, Timed
  <2>8. Timely(r)
    <3>1. SUFFICES ASSUME s.model # Groq, s.pc \in {"send", "peek"}
                   PROVE  /\ s.pc = "send" => w <= Ttft /\ x <= Budget + w
                          /\ s.pc = "peek" => w <= Ttft /\ x <= Budget + Ttft + w
      BY <2>6 DEF Timely
    <3>2. ~Due(t) /\ s.pc \in Timed /\ s.kind = "stream"
      BY <2>1, <3>1 DEF Tick, Timed, Sound, Shaped
    <3>3. Cap(t) = Ttft
      BY <3>1, <3>2 DEF Cap, Streaming
    <3>4. ~(s.waited >= Ttft)
      BY <3>2, <3>3 DEF Due
    <3>5. w = s.waited + 1 /\ x <= s.spent + 1
      BY <2>3, <3>2, Numbers
    <3>6. s.pc = "send" => s.spent <= Budget + s.waited
      BY <2>1, <3>1 DEF Sound, Timely
    <3>7. s.pc = "peek" => s.spent <= Budget + Ttft + s.waited
      BY <2>1, <3>1 DEF Sound, Timely
    <3>8. QED
      BY <2>3, <2>4, <3>4, <3>5, <3>6, <3>7, Numbers
  <2>9. Thorough(r)
    BY <2>1, <2>6 DEF Sound, Thorough
  <2>10. QED
    BY <2>6, <2>7, <2>8, <2>9 DEF Sound
<1>3. \A t \in Tasks : Sound(tasks'[t])
  BY <1>1, <1>2
<1>4. tasks' \in [Tasks -> Task]
  BY <1>1, <1>2 DEF Sound, Shaped
<1>5. Noticed'
  BY <1>1, <1>2 DEF Invariant, Noticed
<1>6. QED
  BY <1>1, <1>3, <1>4, <1>5 DEF Invariant

\* Every step of the sidecar keeps the invariant.
THEOREM Inductive == Spec => []Invariant
<1>1. Init => Invariant
  BY IdleIsSound DEF Init, Invariant, Noticed
<1>2. Invariant /\ [Next]_vars => Invariant'
  <2> SUFFICES ASSUME Invariant, [Next]_vars PROVE Invariant'
    OBVIOUS
  <2>1. ASSUME NEW t \in Tasks, Loop(t) PROVE Invariant'
    BY <2>1, LoopKeeps
  <2>2. ASSUME NEW t \in Tasks, Upstream(t) PROVE Invariant'
    BY <2>2, UpstreamKeeps
  <2>3. ASSUME NEW t \in Tasks, TimesOut(t) PROVE Invariant'
    BY <2>3, TimesOutKeeps
  <2>4. ASSUME NEW t \in Tasks, NEW kind \in Kinds, Accept(t, kind) PROVE Invariant'
    BY <2>4, AcceptKeeps
  <2>5. CASE Tick
    BY <2>5, TickKeeps
  <2>6. CASE UNCHANGED vars
    BY <2>6 DEF vars, Invariant, Noticed
  <2>7. QED
    BY <2>1, <2>2, <2>3, <2>4, <2>5, <2>6 DEF Next
<1>3. QED
  BY <1>1, <1>2, PTL DEF Spec

\* The types hold, and an upstream response is open exactly while its request
\* waits for the first chunk or streams (_open_upstream_stream, _stream_body).
THEOREM SidecarTypeCorrect == Spec => []TypeOK
<1>1. Invariant => TypeOK
  BY DEF Invariant, Sound, Shaped, TypeOK
<1>2. QED
  BY <1>1, Inductive, PTL

\* A decentralized model is waited for no longer than the budget and two caps
\* (_route_streaming), whatever the other requests do.
THEOREM FirstTokenIsTimely == Spec => []FirstTokenInTime
<1>1. Invariant => FirstTokenInTime
  <2> SUFFICES ASSUME Invariant, NEW t \in Tasks, Streaming(t), Stalls(t), tasks[t].model # Groq
               PROVE  tasks[t].spent <= Budget + 2 * Ttft
    BY DEF FirstTokenInTime
  <2>1. tasks[t] \in Task /\ Timely(tasks[t])
    BY DEF Invariant, Sound
  <2>2. tasks[t].waited \in Nat /\ tasks[t].spent \in Nat
    BY <2>1, Numbers DEF Task
  <2>3. tasks[t].pc = "send" \/ tasks[t].pc = "peek"
    BY DEF Stalls, At
  <2>4. QED
    BY <2>1, <2>2, <2>3, Numbers DEF Timely
<1>2. QED
  BY <1>1, Inductive, PTL

\* Groq is asked only by a request that has tried the whole chain or used up
\* its budget, unless another request closed the client in the meantime
\* (main.py:47).
THEOREM BackstopIsLast == Spec => []BackstopOnlyWhenExhausted
<1>1. Invariant => BackstopOnlyWhenExhausted
  BY DEF Invariant, Sound, Thorough, BackstopOnlyWhenExhausted, OverBudget
<1>2. QED
  BY <1>1, Inductive, PTL
=============================================================================
