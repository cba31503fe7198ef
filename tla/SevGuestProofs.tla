--------------------------- MODULE SevGuestProofs ---------------------------
(***************************************************************************)
(* Proofs about SevGuest for any processes, threads and accounts.          *)
(***************************************************************************)
EXTENDS SevGuest, TLAPS

\* Whoever is between `with self._lock` and its end has the process's mutex.
MutexInv ==
    \A t \in Threads :
        pc[t] \in {"open", "flock", "ready", "busy", "unlock", "unmutex"}
            => ProcOf[t] \in Bypassing \/ mutex[ProcOf[t]] = t

\* Whoever has a descriptor and is past flock() has the file lock.
FlockInv ==
    \A t \in guarded :
        /\ pc[t] \in {"flock", "ready", "busy", "unlock"}
        /\ pc[t] # "flock" => flock = t

\* The capture script takes neither lock.
BypassInv ==
    \A t \in Threads : ProcOf[t] \in Bypassing
        => pc[t] \in {"idle", "ready", "busy", "down"} /\ t \notin guarded

\* What is about to be kept is one of the cached properties.
StoreInv == \A t \in Threads : pc[t] = "store" => op[t] \in CachedOps

FlightInv == inflight = {t \in Threads : pc[t] = "busy"}

IInv == TypeOK /\ StoreInv /\ MutexInv /\ FlockInv /\ BypassInv /\ FlightInv

LEMMA WantedOps == \A t \in Threads : Wanted[ProcOf[t]] \subseteq Ops
  BY ProcessesAssumption, CallersAssumption

LEMMA TypeInit == Init => TypeOK
  BY DEF Init, TypeOK, Steps, Ops

LEMMA TypeStep == TypeOK /\ StoreInv /\ [Next]_vars => TypeOK'
<1> SUFFICES ASSUME TypeOK, StoreInv, [Next]_vars PROVE TypeOK'
  OBVIOUS
<1> USE ProcessesAssumption
    DEF TypeOK, Steps, Ops, CachedOps, Goto, Finish, FinishDevice, chipVars, lockVars
<1>1. ASSUME NEW t \in Threads, NEW o \in Ops, Call(t, o) PROVE TypeOK'
  BY <1>1 DEF Call
<1>2. ASSUME NEW t \in Threads, EnterMutex(t) PROVE TypeOK'
  BY <1>2 DEF EnterMutex
<1>3. ASSUME NEW t \in Threads, OpenLock(t) PROVE TypeOK'
  BY <1>3 DEF OpenLock, User
<1>4. ASSUME NEW t \in Threads, TakeFlock(t) PROVE TypeOK'
  BY <1>4 DEF TakeFlock
<1>5. ASSUME NEW t \in Threads, Send(t) PROVE TypeOK'
  BY <1>5 DEF Send
<1>6. ASSUME NEW t \in Threads, Return(t) PROVE TypeOK'
  BY <1>6 DEF Return
<1>7. ASSUME NEW t \in Threads, ReturnError(t) PROVE TypeOK'
  BY <1>7 DEF ReturnError
<1>8. ASSUME NEW t \in Threads, AspTimeout(t) PROVE TypeOK'
  BY <1>8 DEF AspTimeout
<1>9. ASSUME NEW t \in Threads, Unlock(t) PROVE TypeOK'
  BY <1>9 DEF Unlock
<1>10. ASSUME NEW t \in Threads, LeaveMutex(t) PROVE TypeOK'
  BY <1>10 DEF LeaveMutex
<1>11. ASSUME NEW t \in Threads, Store(t) PROVE TypeOK'
  BY <1>11 DEF Store, StoreInv
<1>12. ASSUME NEW p \in Procs, Die(p) PROVE TypeOK'
  BY <1>12 DEF Die
<1>13. ASSUME NEW p \in Procs, Boot(p) PROVE TypeOK'
  BY <1>13 DEF Boot
<1>14. CASE UNCHANGED vars
  BY <1>14 DEF vars, callVars
<1>15. QED
  BY <1>1, <1>2, <1>3, <1>4, <1>5, <1>6, <1>7, <1>8, <1>9, <1>10, <1>11, <1>12, <1>13, <1>14, WantedOps
  DEF Next, Proceed

LEMMA InvInit == Init => IInv
<1>1. Init => StoreInv /\ MutexInv /\ FlockInv /\ BypassInv /\ FlightInv
  BY DEF Init, StoreInv, MutexInv, FlockInv, BypassInv, FlightInv
<1>2. QED
  BY <1>1, TypeInit DEF IInv

LEMMA InvStep == IInv /\ [Next]_vars => IInv'
<1> SUFFICES ASSUME IInv, [Next]_vars PROVE IInv'
  OBVIOUS
<1> DEFINE Locks == StoreInv /\ MutexInv /\ FlockInv /\ BypassInv /\ FlightInv
<1>0. TypeOK'
  BY TypeStep DEF IInv
<1> USE ProcessesAssumption
    DEF IInv, TypeOK, StoreInv, MutexInv, FlockInv, BypassInv, FlightInv,
        Goto, Finish, FinishDevice, chipVars, lockVars
<1>1. ASSUME NEW t \in Threads, NEW o \in Ops, Call(t, o) PROVE Locks'
  BY <1>1 DEF Call
<1>2. ASSUME NEW t \in Threads, EnterMutex(t) PROVE Locks'
  BY <1>2 DEF EnterMutex
<1>3. ASSUME NEW t \in Threads, OpenLock(t) PROVE Locks'
  BY <1>3 DEF OpenLock, User
<1>4. ASSUME NEW t \in Threads, TakeFlock(t) PROVE Locks'
  BY <1>4 DEF TakeFlock, FlockFree
<1>5. ASSUME NEW t \in Threads, Send(t) PROVE Locks'
  BY <1>5 DEF Send
<1>6. ASSUME NEW t \in Threads, Return(t) PROVE Locks'
  BY <1>6 DEF Return
<1>7. ASSUME NEW t \in Threads, ReturnError(t) PROVE Locks'
  BY <1>7 DEF ReturnError
<1>8. ASSUME NEW t \in Threads, AspTimeout(t) PROVE Locks'
  BY <1>8 DEF AspTimeout
<1>9. ASSUME NEW t \in Threads, Unlock(t) PROVE Locks'
  BY <1>9 DEF Unlock
<1>10. ASSUME NEW t \in Threads, LeaveMutex(t) PROVE Locks'
  BY <1>10 DEF LeaveMutex, ToStore
<1>11. ASSUME NEW t \in Threads, Store(t) PROVE Locks'
  BY <1>11 DEF Store
<1>12. ASSUME NEW p \in Procs, Die(p) PROVE Locks'
  BY <1>12 DEF Die
<1>13. ASSUME NEW p \in Procs, Boot(p) PROVE Locks'
  BY <1>13 DEF Boot
<1>14. CASE UNCHANGED vars
  BY <1>14 DEF vars, callVars
<1>15. Locks'
  BY <1>1, <1>2, <1>3, <1>4, <1>5, <1>6, <1>7, <1>8, <1>9, <1>10, <1>11, <1>12, <1>13, <1>14, WantedOps
  DEF Next, Proceed
<1>16. QED
  BY <1>0, <1>15

LEMMA Inductive == Spec => []IInv
  BY InvInit, InvStep, PTL DEF Spec

\* Every variable of the channel keeps its type: in particular nothing but the
\* three cached properties is ever stored in a cache.
THEOREM TypeCorrect == Spec => []TypeOK
<1>1. IInv => TypeOK
  BY DEF IInv
<1>2. QED
  BY Inductive, <1>1, PTL

\* Two threads talk to the chip at once only across processes, and only if one
\* of them is without the file lock, whatever the accounts and units.
THEOREM OverlapIsUnguarded == Spec => []OverlapNeedsUnguarded
<1>1. IInv => OverlapNeedsUnguarded
  BY ProcessesAssumption
  DEF IInv, TypeOK, MutexInv, FlockInv, BypassInv, InChannel, OverlapNeedsUnguarded
<1>2. QED
  BY Inductive, <1>1, PTL

----------------------------------------------------------------------------
(* A lock file that everyone can open                                      *)

\* While it is so, nobody goes past sev_guest_exclusive without a descriptor.
GuardedInv ==
    OpenToAll => \A t \in Threads :
        ProcOf[t] \notin Bypassing /\ pc[t] \in {"flock", "ready", "busy", "unlock"}
            => t \in guarded

LEMMA GuardedInit == Init => GuardedInv
  BY DEF Init, GuardedInv

LEMMA GuardedStep == IInv /\ GuardedInv /\ [Next]_vars => GuardedInv'
<1> SUFFICES ASSUME IInv, GuardedInv, [Next]_vars PROVE GuardedInv'
  OBVIOUS
<1> USE ProcessesAssumption
    DEF IInv, TypeOK, GuardedInv, OpenToAll, MayOpen, User,
        Goto, Finish, FinishDevice, chipVars, lockVars
<1>1. ASSUME NEW t \in Threads, NEW o \in Ops, Call(t, o) PROVE GuardedInv'
  BY <1>1 DEF Call
\* A file made by this step was open to all before it, as there was none.
<1>2. ASSUME NEW t \in Threads, OpenLock(t) PROVE GuardedInv'
  <2>1. OpenToAll' => OpenToAll
    BY <1>2 DEF OpenLock
  <2>2. OpenToAll /\ ProcOf[t] \notin Bypassing => MayOpen(t)
    OBVIOUS
  <2>3. QED
    BY <1>2, <2>1, <2>2 DEF OpenLock
<1>3. ASSUME NEW t \in Threads, Unlock(t) PROVE GuardedInv'
  BY <1>3 DEF Unlock
<1>4. ASSUME NEW t \in Threads,
             \/ EnterMutex(t) \/ TakeFlock(t) \/ Send(t) \/ Return(t) \/ ReturnError(t)
             \/ AspTimeout(t) \/ LeaveMutex(t) \/ Store(t)
      PROVE GuardedInv'
  BY <1>4 DEF EnterMutex, TakeFlock, Send, Return, ReturnError, AspTimeout, LeaveMutex, Store
<1>5. ASSUME NEW p \in Procs, Die(p) PROVE GuardedInv'
  BY <1>5 DEF Die
<1>6. ASSUME NEW p \in Procs, Boot(p) PROVE GuardedInv'
  BY <1>6 DEF Boot
<1>7. CASE UNCHANGED vars
  BY <1>7 DEF vars, callVars
<1>8. QED
  BY <1>1, <1>2, <1>3, <1>4, <1>5, <1>6, <1>7, WantedOps DEF Next, Proceed

\* As long as every process that uses the lock can open its file, at most one
\* of their threads is in the channel, across both requests of a fetch of the
\* certificate table.
THEOREM FileDecides == Spec => []LockFileDecides
<1>1. IInv /\ GuardedInv => LockFileDecides
  BY DEF IInv, FlockInv, GuardedInv, InChannel, LockFileDecides
<1>2. QED
  BY Inductive, GuardedInit, GuardedStep, <1>1, PTL DEF Spec

\* The key is never lost to two requests that both held the lock file.
THEOREM KeyKept == Spec => KeyLostUnguarded
<1> DEFINE Step == cause # "overlap" /\ cause' = "overlap"
                     => \E t \in Threads : InChannel(t) /\ t \notin guarded
<1>1. IInv /\ OverlapNeedsUnguarded /\ [Next]_vars => [Step]_vars
  <2> SUFFICES ASSUME IInv, OverlapNeedsUnguarded, [Next]_vars,
                      cause # "overlap", cause' = "overlap"
               PROVE \E t \in Threads : InChannel(t) /\ t \notin guarded
    OBVIOUS
  <2>1. PICK t \in Threads : Send(t) /\ inflight # {}
    BY DEF Next, Proceed, Call, EnterMutex, OpenLock, TakeFlock, Send, Return, ReturnError,
           AspTimeout, Unlock, LeaveMutex, Store, Die, Boot, vars, chipVars, lockVars
  <2>2. PICK u \in inflight : TRUE
    BY <2>1
  <2>3. u \in Threads /\ pc[u] = "busy" /\ pc[t] = "ready"
    BY <2>1, <2>2 DEF IInv, FlightInv, Send
  <2>4. QED
    BY <2>1, <2>3 DEF OverlapNeedsUnguarded, InChannel
<1>2. QED
  BY Inductive, OverlapIsUnguarded, <1>1, PTL DEF Spec, KeyLostUnguarded
=============================================================================
