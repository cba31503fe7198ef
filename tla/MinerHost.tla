------------------------------ MODULE MinerHost ------------------------------
(***************************************************************************)
(* One host: the chip, the miner process with the error MinerHandler       *)
(* latches (serving/handler.py), systemd that starts it again, and the     *)
(* watchdog (deploy/sentinel-watchdog.sh) that polls /health and reboots.  *)
(* One tick is the watchdog's CHECK_INTERVAL.  DRY_RUN is off.             *)
(***************************************************************************)
EXTENDS Naturals, Sequences

CONSTANTS
    FailuresBeforeReboot, MaxReboots,
    Window        \* WINDOW_SECONDS, in ticks

ASSUME WatchdogAssumption ==
    /\ FailuresBeforeReboot \in Nat \ {0}
    /\ MaxReboots \in Nat \ {0}
    /\ Window \in Nat \ {0}

VARIABLES
    chip,       \* "ok", or "dead" once the kernel has disabled the VMPCK
    host,       \* "up", or "rebooting" from `systemctl reboot` to its effect
    miner,      \* the process: "up" or "down"
    latched,    \* MinerHandler.attestation_error is set
    watchdog,   \* its process: "up", "asking" (about to reboot) or "down"
    failures,   \* its counter
    wait,       \* ticks it has still to sleep
    log,        \* ages of the entries of STATE_FILE
    asked       \* ages of the reboots asked for within the last Window (history)

minerVars == <<miner, latched>>
watchdogVars == <<watchdog, failures, wait, log, asked>>
vars == <<chip, host, minerVars, watchdogVars>>

----------------------------------------------------------------------------
Init ==
    /\ chip = "ok" /\ host = "up"
    /\ miner = "down" /\ latched = FALSE
    /\ watchdog = "down" /\ failures = 0 /\ wait = 0
    /\ log = <<>> /\ asked = <<>>

(* The miner *)

\* systemd starts the unit: build_miner reads the chip's identity, measurement
\* and certificates, so on a dead chip it raises and the process is gone again.
Start ==
    /\ miner = "down" /\ chip = "ok"
    /\ miner' = "up" /\ latched' = FALSE
    /\ UNCHANGED <<chip, host, watchdogVars>>

\* The process ends for whatever reason, and with it what it had latched.
Exit ==
    /\ miner = "up"
    /\ miner' = "down" /\ latched' = FALSE
    /\ UNCHANGED <<chip, host, watchdogVars>>

\* Mutant of Latch: cleared by the next request that works.
LatchLast(failed) == latched' = failed

\* handle(): a GuestError is latched and never cleared.
Latch(failed) == latched' = (latched \/ failed)

\* An authenticated call that asks the chip for a report: answered, or refused
\* by a dead chip, or the one whose time-out kills the chip, or failed with a
\* GuestError that leaves the key alone.
Serve ==
    /\ miner = "up"
    /\ \/ chip = "ok" /\ Latch(FALSE) /\ UNCHANGED chip
       \/ chip = "ok" /\ Latch(TRUE) /\ chip' \in {"ok", "dead"}
       \/ chip = "dead" /\ Latch(TRUE) /\ UNCHANGED chip
    /\ UNCHANGED <<host, miner, watchdogVars>>

\* Another process of the host, or a miner that is only starting, loses the key.
ChipDies ==
    /\ chip = "ok"
    /\ chip' = "dead"
    /\ UNCHANGED <<host, minerVars, watchdogVars>>

(* The watchdog *)

\* What curl prints for GET /health.  Once it is serving the miner has all of
\* it in memory and does not ask the chip.
Health == IF miner = "down" THEN "000" ELSE IF latched THEN "503" ELSE "200"

\* awk '$1 > c' with c = now - WINDOW_SECONDS, line by line
Younger(ages) ==
    LET kept[n \in 0..Len(ages)] ==
          IF n = 0 THEN <<>>
          ELSE IF ages[n] < Window THEN Append(kept[n - 1], ages[n]) ELSE kept[n - 1]
    IN  kept[Len(ages)]

\* Mutant of Recent: no cutoff.
RecentEver(ages) == ages

\* recent_reboots and prune
Recent(ages) == Younger(ages)

Sleep(n) == wait' = n

\* 200: start counting afresh.
SeeHealthy(code) ==
    /\ code = "200"
    /\ failures' = 0
    /\ Sleep(1)
    /\ UNCHANGED <<host, log, asked>>

\* One failure more, but not enough yet.
SeeFailure(code) ==
    /\ code # "200"
    /\ failures + 1 < FailuresBeforeReboot
    /\ failures' = failures + 1
    /\ Sleep(1)
    /\ UNCHANGED <<host, log, asked>>

Enough(code) == code # "200" /\ failures + 1 >= FailuresBeforeReboot

\* Mutant of LeaveToSystemd: the counter goes on.
LeaveToSystemdCounting(code) ==
    /\ Enough(code) /\ code # "503"
    /\ failures' = failures + 1
    /\ Sleep(1)
    /\ UNCHANGED <<host, log, asked>>

\* Enough, but the miner is not listening: left to systemd.
LeaveToSystemd(code) ==
    /\ Enough(code) /\ code # "503"
    /\ failures' = 0
    /\ Sleep(1)
    /\ UNCHANGED <<host, log, asked>>

\* Enough, and a 503: prune the log, and then the circuit breaker ...
TripBreaker(code) ==
    /\ Enough(code) /\ code = "503"
    /\ Len(Recent(log)) >= MaxReboots
    /\ log' = Recent(log)
    /\ failures' = 0
    /\ Sleep(Window)
    /\ UNCHANGED <<host, asked>>

\* Mutant of NewLog: the entry is never written.
NewLogOmitted == Recent(log)

NewLog == Append(Recent(log), 0)

\* ... or a reboot, which is on record before it is asked for.
RecordReboot(code) ==
    /\ Enough(code) /\ code = "503"
    /\ Len(Recent(log)) < MaxReboots
    /\ log' = NewLog
    /\ failures' = failures + 1
    /\ watchdog' = "asking"
    /\ UNCHANGED <<host, wait, asked>>

\* `systemctl reboot`
Reboot ==
    /\ host = "up" /\ watchdog = "asking"
    /\ host' = "rebooting"
    /\ asked' = Append(asked, 0)
    /\ watchdog' = "up" /\ Sleep(1)
    /\ UNCHANGED <<chip, minerVars, failures, log>>

\* One turn of the loop, curl having printed `code`.
Turn(code) ==
    /\ host = "up" /\ watchdog = "up" /\ wait = 0
    /\ \/ /\ SeeHealthy(code) \/ SeeFailure(code) \/ LeaveToSystemd(code) \/ TripBreaker(code)
          /\ UNCHANGED watchdog
       \/ RecordReboot(code)
    /\ UNCHANGED <<chip, minerVars>>

Check == Turn(Health)

\* /health takes longer than curl's --max-time.
CheckTimesOut == Health # "000" /\ Turn("000")

\* The watchdog process ends, wherever it is, and its unit starts it again: the
\* counter is gone, the file is not.
WatchdogDies ==
    /\ host = "up" /\ watchdog # "down"
    /\ watchdog' = "down" /\ failures' = 0 /\ wait' = 0
    /\ UNCHANGED <<chip, host, minerVars, log, asked>>

WatchdogStarts ==
    /\ host = "up" /\ watchdog = "down"
    /\ watchdog' = "up"
    /\ UNCHANGED <<chip, host, minerVars, failures, wait, log, asked>>

\* The reboot takes effect: everything in memory is gone, the chip has a fresh
\* key, and the file is still there.  systemd has stopped the watchdog before
\* its next turn.
BootAgain ==
    /\ host = "rebooting"
    /\ host' = "up" /\ chip' = "ok"
    /\ miner' = "down" /\ latched' = FALSE
    /\ watchdog' = "down" /\ failures' = 0 /\ wait' = 0
    /\ UNCHANGED <<log, asked>>

\* Bound: an age is not counted beyond Window, where it makes no difference.
Older(ages) == [i \in DOMAIN ages |-> IF ages[i] < Window THEN ages[i] + 1 ELSE Window]

\* Time passes while the watchdog sleeps, is down, or waits for the reboot.
Tick ==
    /\ wait > 0 \/ watchdog = "down" \/ host = "rebooting"
    /\ wait' = IF wait > 0 THEN wait - 1 ELSE 0
    /\ log' = Older(log)
    /\ asked' = Younger(Older(asked))
    /\ UNCHANGED <<chip, host, minerVars, watchdog, failures>>

Next == Start \/ Exit \/ Serve \/ ChipDies \/ Check \/ CheckTimesOut \/ Reboot
           \/ WatchdogDies \/ WatchdogStarts \/ BootAgain \/ Tick

Spec == Init /\ [][Next]_vars

\* systemd starts what can start and reboots when asked to, the watchdog's loop
\* runs, and validators keep calling.
FairSpec == Spec /\ WF_vars(Start) /\ WF_vars(Serve) /\ WF_vars(Check) /\ WF_vars(Reboot)
                 /\ WF_vars(WatchdogStarts) /\ WF_vars(BootAgain) /\ WF_vars(Tick)

----------------------------------------------------------------------------
(* Properties                                                              *)

\* Every variable has its type; the type invariant of the host.
TypeOK ==
    /\ chip \in {"ok", "dead"}
    /\ host \in {"up", "rebooting"}
    /\ miner \in {"up", "down"}
    /\ latched \in BOOLEAN
    /\ watchdog \in {"up", "asking", "down"}
    /\ failures \in 0..FailuresBeforeReboot
    /\ wait \in 0..Window
    /\ log \in Seq(0..Window)
    /\ asked \in Seq(0..Window)

\* "stops after two reboots in an hour" (docs/mining.md:166): however often the
\* chip dies again and whoever is restarted in between, no more than
\* MaxReboots reboots are asked for within a Window.
BreakerHolds == Len(asked) <= MaxReboots

\* What a GuestError set off is not forgotten while the process lives: its
\* /health does not go back to 200 (handler.py, "Set when the chip stops
\* answering, and never cleared").
HealthFailsClosed ==
    [][miner = "up" /\ Health = "503" /\ miner' = "up" => Health' = "503"]_vars

\* The watchdog is not restarted for ever, and it does not for ever get the
\* time-out of a slow /health just when a latched miner's 503 would count.
WatchdogSettles ==
    /\ <>[](watchdog # "down")
    /\ <>[][~(Health = "503" /\ LeaveToSystemd("000"))]_vars

\* A miner that latched is rebooted in the end, however often the breaker has
\* tripped before, unless its process goes away.
LatchedMinerRebooted ==
    WatchdogSettles => ((miner = "up" /\ latched) ~> (host = "rebooting" \/ miner = "down"))

\* sentinel-watchdog.sh:3, "Reboot a miner whose chip has stopped answering":
\* a dead chip does not stay dead.
DeadChipRebooted == WatchdogSettles => (chip = "dead" ~> chip = "ok")
=============================================================================
