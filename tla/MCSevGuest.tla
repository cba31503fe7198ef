----------------------------- MODULE MCSevGuest -----------------------------
(* A miner with two handler threads, `sudo ... --print-measurement` and     *)
(* capture_report.py on one host.                                           *)
EXTENDS SevGuest

CONSTANTS primary, tool, capture, sentinel, root, p1, p2, r1, c1

HostThreads == {p1, p2, r1, c1}
HostProcOf == [t \in HostThreads |->
    CASE t \in {p1, p2} -> primary [] t = r1 -> tool [] t = c1 -> capture]
HostUserOf == [p \in {primary, tool, capture} |-> IF p = primary THEN sentinel ELSE root]

HostWanted == [p \in {primary, tool, capture} |->
    CASE p = primary -> {"sign", "certificates"} [] p = tool -> {"measurement"} [] p = capture -> {"sign"}]

\* Without the capture script: only callers of sev_guest_exclusive.
SudoThreads == {p1, r1}
SudoProcOf == [t \in SudoThreads |-> HostProcOf[t]]
SudoUserOf == [p \in {primary, tool} |-> HostUserOf[p]]
SudoWanted == [p \in {primary, tool} |-> HostWanted[p]]
=============================================================================
