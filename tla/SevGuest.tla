------------------------------ MODULE SevGuest ------------------------------
(***************************************************************************)
(* The SEV firmware channel, sentinel/sevsnp/guest.py: SevSnpSilicon and   *)
(* sev_guest_exclusive, used by the handler threads of several processes   *)
(* that share one chip (sentinel-miner.service, sentinel-miner@.service,   *)
(* run_miner.py --print-measurement).  /dev/sev-guest itself is outside    *)
(* the repository and is taken as guest.py describes it: two requests in   *)
(* flight at once, or one that times out, and the kernel disables the      *)
(* VMPCK until the host reboots.                                           *)
(***************************************************************************)
EXTENDS Naturals

CONSTANTS
    Procs,          \* processes that talk to the chip
    Threads,        \* their threads
    ProcOf,         \* Threads -> Procs
    Users,          \* accounts they run under
    UserOf,         \* Procs -> Users
    Superusers,     \* accounts file modes do not stop
    Granted,        \* processes whose unit grants /run/lock (ReadWritePaths)
    CreatesShared,  \* the umask leaves the 0o666 of os.open to everyone
    Bypassing,      \* processes that open the device directly (capture_report.py)
    HostHasCerts,   \* the host provisioned certificates, so they take two requests
    Wanted,         \* what the threads of each process ask the chip for
    Nobody          \* no thread, no user

ASSUME ProcessesAssumption ==
    /\ ProcOf \in [Threads -> Procs]
    /\ UserOf \in [Procs -> Users]
    /\ Nobody \notin Threads
    /\ Nobody \notin Users

CachedOps == {"chip_id", "measurement", "certificates"}
Ops == CachedOps \cup {"sign"}

ASSUME CallersAssumption ==
    Wanted \in [Procs -> SUBSET Ops] /\ CreatesShared \in BOOLEAN /\ HostHasCerts \in BOOLEAN

VARIABLES
    vmpck,      \* is the guest's message key enabled
    lockFile,   \* owner of /var/lock/sentinel-sev-guest.lock, Nobody if absent
    mutex,      \* SevSnpSilicon._lock of each process: the thread inside
    flock,      \* the thread whose descriptor holds the file lock
    pc, op,     \* where each thread is, and what it asks the chip for
    guarded,    \* threads whose call got a descriptor of the lock file
    leg,        \* which of the requests of request_ext_report it is at
    inflight,   \* threads with a request in the firmware
    cached,     \* properties each process has cached
    answer,     \* what the device has said to a call under way
    cause       \* why the key was disabled (history)

chipVars == <<vmpck, inflight, cause>>
lockVars == <<lockFile, mutex, flock, guarded>>
callVars == <<pc, op, leg, cached, answer>>
vars == <<chipVars, lockVars, callVars>>

Steps == {"idle", "mutex", "open", "flock", "ready", "busy", "unlock", "unmutex", "store", "down"}

User(t) == UserOf[ProcOf[t]]

----------------------------------------------------------------------------
Init ==
    /\ vmpck = "enabled" /\ cause = "none" /\ inflight = {}
    /\ lockFile = Nobody      \* /run/lock is empty after a boot
    /\ mutex = [p \in Procs |-> Nobody]
    /\ flock = Nobody
    /\ guarded = {}
    /\ pc = [t \in Threads |-> "idle"]
    /\ op = [t \in Threads |-> "sign"]
    /\ leg = [t \in Threads |-> 1]
    /\ cached = [p \in Procs |-> {}]
    /\ answer = [t \in Threads |-> "none"]

Goto(t, s) == pc' = [pc EXCEPT ![t] = s]

\* The call is over.
Finish(t) ==
    /\ Goto(t, "idle")
    /\ op' = [op EXCEPT ![t] = "sign"]
    /\ leg' = [leg EXCEPT ![t] = 1]
    /\ answer' = [answer EXCEPT ![t] = "none"]

\* The device has answered a; what is left is to let go of the locks.
FinishDevice(t, a) ==
    IF ProcOf[t] \in Bypassing
    THEN Finish(t)
    ELSE /\ Goto(t, "unlock")
         /\ answer' = [answer EXCEPT ![t] = a]
         /\ UNCHANGED <<op, leg>>

\* sign(), or one of the cached properties: those look at the cache without
\* the lock, and one that is there is returned at once.
Call(t, o) ==
    /\ pc[t] = "idle"
    /\ o \notin cached[ProcOf[t]]
    /\ op' = [op EXCEPT ![t] = o]
    /\ Goto(t, IF ProcOf[t] \in Bypassing THEN "ready" ELSE "mutex")
    /\ UNCHANGED <<chipVars, lockVars, leg, cached, answer>>

\* `with self._lock`
EnterMutex(t) ==
    /\ pc[t] = "mutex"
    /\ mutex[ProcOf[t]] = Nobody
    /\ mutex' = [mutex EXCEPT ![ProcOf[t]] = t]
    /\ Goto(t, "open")
    /\ UNCHANGED <<chipVars, lockFile, flock, guarded, op, leg, cached, answer>>

\* Does os.open(SEV_GUEST_LOCK, O_CREAT | O_RDWR, 0o666) succeed?
MayOpen(t) ==
    /\ ProcOf[t] \in Granted      \* a read-only mount refuses O_RDWR as well
    /\ \/ lockFile = Nobody
       \/ lockFile = User(t)
       \/ CreatesShared
       \/ User(t) \in Superusers

\* The open at the top of sev_guest_exclusive; if it fails, log and go on
\* without the file lock.
OpenLock(t) ==
    /\ pc[t] = "open"
    /\ IF MayOpen(t)
       THEN /\ lockFile' = IF lockFile = Nobody THEN User(t) ELSE lockFile
            /\ guarded' = guarded \cup {t}
            /\ Goto(t, "flock")
       ELSE /\ Goto(t, "ready")
            /\ UNCHANGED <<lockFile, guarded>>
    /\ UNCHANGED <<chipVars, mutex, flock, op, leg, cached, answer>>

\* Mutant of FlockFree: LOCK_SH, which everyone can hold at once.
FlockShared == TRUE

FlockFree == flock = Nobody

\* Mutant of TakeFlock: LOCK_NB, and no look at the outcome.
TakeFlockNonblocking(t) ==
    /\ pc[t] = "flock"
    /\ flock' = IF FlockFree THEN t ELSE flock
    /\ Goto(t, "ready")
    /\ UNCHANGED <<chipVars, lockFile, mutex, guarded, op, leg, cached, answer>>

\* fcntl.flock(fd, LOCK_EX)
TakeFlock(t) ==
    /\ pc[t] = "flock"
    /\ FlockFree
    /\ flock' = t
    /\ Goto(t, "ready")
    /\ UNCHANGED <<chipVars, lockFile, mutex, guarded, op, leg, cached, answer>>

\* The ioctl goes down to the firmware; the key disabled, it fails at once.
Send(t) ==
    /\ pc[t] = "ready"
    /\ IF vmpck = "disabled"
       THEN FinishDevice(t, "failed") /\ UNCHANGED chipVars
       ELSE /\ Goto(t, "busy")
            /\ inflight' = inflight \cup {t}
            /\ IF inflight = {}
               THEN UNCHANGED <<vmpck, cause>>
               ELSE vmpck' = "disabled" /\ cause' = "overlap"
            /\ UNCHANGED <<op, leg, answer>>
    /\ UNCHANGED <<lockVars, cached>>

\* Mutant of MoreToAsk: every answer is taken for that of the probe.
AsksForEver(t) == op[t] = "certificates" /\ HostHasCerts

\* request_ext_report probes for the size of the table before it asks for it.
MoreToAsk(t) == op[t] = "certificates" /\ HostHasCerts /\ leg[t] = 1

\* The ioctl returns.
Return(t) ==
    /\ pc[t] = "busy"
    /\ inflight' = inflight \ {t}
    /\ IF vmpck = "enabled" /\ MoreToAsk(t)
       THEN /\ leg' = [leg EXCEPT ![t] = 2]
            /\ Goto(t, "ready")
            /\ UNCHANGED <<op, answer>>
       ELSE FinishDevice(t, IF vmpck = "enabled" THEN "ok" ELSE "failed")
    /\ UNCHANGED <<vmpck, cause, lockVars, cached>>

\* ... or with an error of its own, the key intact ...
ReturnError(t) ==
    /\ pc[t] = "busy"
    /\ inflight' = inflight \ {t}
    /\ FinishDevice(t, "failed")
    /\ UNCHANGED <<vmpck, cause, lockVars, cached>>

\* ... or the security processor timed out and the kernel gave the key up.
AspTimeout(t) ==
    /\ pc[t] = "busy"
    /\ inflight' = inflight \ {t}
    /\ vmpck' = "disabled"
    /\ cause' = IF cause = "none" THEN "timeout" ELSE cause
    /\ FinishDevice(t, "failed")
    /\ UNCHANGED <<lockVars, cached>>

\* Mutant of Unlock: the file lock is only let go when the request succeeded.
UnlockOnSuccess(t) ==
    /\ pc[t] = "unlock"
    /\ flock' = IF t \in guarded /\ answer[t] = "ok" THEN Nobody ELSE flock
    /\ guarded' = guarded \ {t}
    /\ Goto(t, "unmutex")
    /\ UNCHANGED <<chipVars, lockFile, mutex, op, leg, cached, answer>>

\* The finally of sev_guest_exclusive.
Unlock(t) ==
    /\ pc[t] = "unlock"
    /\ flock' = IF t \in guarded THEN Nobody ELSE flock
    /\ guarded' = guarded \ {t}
    /\ Goto(t, "unmutex")
    /\ UNCHANGED <<chipVars, lockFile, mutex, op, leg, cached, answer>>

\* Mutant of ToStore: every report is kept.
ToStoreAny(t) == answer[t] = "ok"

\* Only the properties keep what they were told.
ToStore(t) == answer[t] = "ok" /\ op[t] \in CachedOps

\* The end of the with block.
LeaveMutex(t) ==
    /\ pc[t] = "unmutex"
    /\ mutex' = [mutex EXCEPT ![ProcOf[t]] = Nobody]
    /\ IF ToStore(t)
       THEN Goto(t, "store") /\ UNCHANGED <<op, leg, answer>>
       ELSE Finish(t)
    /\ UNCHANGED <<chipVars, lockFile, flock, guarded, cached>>

\* self._chip_id, self._certs or self._measurement = ..., after the locks
Store(t) ==
    /\ pc[t] = "store"
    /\ cached' = [cached EXCEPT ![ProcOf[t]] = @ \cup {op[t]}]
    /\ Finish(t)
    /\ UNCHANGED <<chipVars, lockVars>>

\* The process ends, or is killed: the kernel closes its descriptors, and the
\* process goes only once its last ioctl has come back.
Die(p) ==
    LET gone == {t \in Threads : ProcOf[t] = p}
    IN  /\ gone \cap inflight = {}
        /\ mutex' = [mutex EXCEPT ![p] = Nobody]
        /\ flock' = IF flock \in gone THEN Nobody ELSE flock
        /\ guarded' = guarded \ gone
        /\ cached' = [cached EXCEPT ![p] = {}]
        /\ pc' = [t \in Threads |-> IF t \in gone THEN "down" ELSE pc[t]]
        /\ op' = [t \in Threads |-> IF t \in gone THEN "sign" ELSE op[t]]
        /\ leg' = [t \in Threads |-> IF t \in gone THEN 1 ELSE leg[t]]
        /\ answer' = [t \in Threads |-> IF t \in gone THEN "none" ELSE answer[t]]
        /\ UNCHANGED <<chipVars, lockFile>>

\* Its unit, or an operator, starts it again, with nothing cached.
Boot(p) ==
    /\ \A t \in Threads : ProcOf[t] = p => pc[t] = "down"
    /\ pc' = [t \in Threads |-> IF ProcOf[t] = p THEN "idle" ELSE pc[t]]
    /\ UNCHANGED <<chipVars, lockVars, op, leg, cached, answer>>

\* What a thread does once it has called.
Proceed(t) ==
    \/ EnterMutex(t) \/ OpenLock(t) \/ TakeFlock(t)
    \/ Send(t) \/ Return(t) \/ ReturnError(t) \/ AspTimeout(t)
    \/ Unlock(t) \/ LeaveMutex(t) \/ Store(t)

Next ==
    \/ \E t \in Threads : (\E o \in Wanted[ProcOf[t]] : Call(t, o)) \/ Proceed(t)
    \/ \E p \in Procs : Die(p) \/ Boot(p)

Spec == Init /\ [][Next]_vars

\* Threads are scheduled and an ioctl returns.  Neither lock is fair: a thread
\* that waits is only owed that some waiter gets in.
FairSpec == Spec /\ \A t \in Threads : WF_vars(Proceed(t))

----------------------------------------------------------------------------
(* Properties                                                              *)

\* Every variable has its type; the type invariant of the channel.
TypeOK ==
    /\ vmpck \in {"enabled", "disabled"}
    /\ cause \in {"none", "timeout", "overlap"}
    /\ lockFile \in Users \cup {Nobody}
    /\ mutex \in [Procs -> Threads \cup {Nobody}]
    /\ flock \in Threads \cup {Nobody}
    /\ pc \in [Threads -> Steps]
    /\ op \in [Threads -> Ops]
    /\ leg \in [Threads -> {1, 2}]
    /\ guarded \subseteq Threads
    /\ inflight \subseteq Threads
    /\ cached \in [Procs -> SUBSET CachedOps]
    /\ answer \in [Threads -> {"none", "ok", "failed"}]

\* Between the lock and its release: the two requests of request_ext_report
\* and everything between them are one such stay.
InChannel(t) == pc[t] \in {"ready", "busy"}

\* Whatever the processes and accounts, two threads in the channel at once
\* belong to different processes and at least one of them failed to open the
\* lock file or never tried (sev_guest_exclusive).
OverlapNeedsUnguarded ==
    \A t, u \in Threads : InChannel(t) /\ InChannel(u) /\ t # u =>
        /\ ~(t \in guarded /\ u \in guarded)
        /\ ProcOf[t] = ProcOf[u] => ProcOf[t] \in Bypassing

\* Can every process that uses the lock still open its file?
OpenToAll == \A t \in Threads : ProcOf[t] \notin Bypassing => MayOpen(t)

\* Whoever made the lock file decides for everyone until the next boot: a file
\* all of them can open (one account; or a second one that file modes do not
\* stop) keeps them to one thread at a time from the first to the last request
\* of a call, so the probe for the certificate table and its fetch are not
\* split; capture_report.py, which opens the device itself, excepted.
LockFileDecides ==
    OpenToAll => \A t, u \in Threads :
        InChannel(t) /\ InChannel(u) /\ t # u
            => ProcOf[t] \in Bypassing \/ ProcOf[u] \in Bypassing

\* The loss of the key to an overlap is the doing of a thread without the lock
\* file (results.md:214, "Three miners on one chip is only safe because of the
\* lock"): threads that have it cost each other nothing.
KeyLostUnguarded ==
    [][cause # "overlap" /\ cause' = "overlap"
         => \E t \in Threads : InChannel(t) /\ t \notin guarded]_vars

\* probe_measurement_scope.sh:61, of a root process beside the miners: "Takes
\* the same lock the miners take, so this is safe even if one is mid-start".
ChannelExclusive ==
    \A t, u \in Threads : InChannel(t) /\ InChannel(u) => t = u

\* A failing request, a failed open, a killed process: whoever is between the
\* locks gets out of them, so a failed attestation does not block the next.
ChannelComesFree ==
    \A t \in Threads : pc[t] \in {"ready", "busy", "unlock", "unmutex"}
        ~> pc[t] \in {"idle", "store", "down"}

\* A thread waiting for either lock is not left with nobody ever getting in,
\* processes killed for ever excepted: the order, first the mutex and then the
\* file, admits no deadlock.
Waiting == {t \in Threads : pc[t] \in {"mutex", "open", "flock"}}
WaitersMove ==
    <>[](\A t \in Threads : pc[t] # "down")
        => (Waiting # {} ~> (Waiting = {} \/ \E t \in Threads : InChannel(t)))
=============================================================================
