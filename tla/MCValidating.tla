---------------------------- MODULE MCValidating ----------------------------
(* Miners that tell the truth, that lie about the rows, and that replay,    *)
(* cache, run other code or break the connection.                           *)
EXTENDS Validating

CONSTANTS amdArk, amdAsk, chip, ownKey, ownRoot, good, tampered, truth, lie, noHash, noKey, oddKey

Floors == [c \in TcbComponents |-> 1]
Lists2 == {{good}, {tampered}}

Cert(k, i) == [key |-> k, issuer |-> i]

\* The answer of approved code on a real chip.
Genuine ==
    [fault |-> "none", silicon |-> "sev-snp", public_key |-> noKey, complete |-> TRUE,
     vcek |-> Cert(chip, amdAsk), ark |-> Cert(amdArk, amdArk), ask |-> Cert(amdAsk, amdArk),
     latency |-> 1, no_store |-> TRUE, hash |-> truth,
     report |-> [well_formed |-> TRUE, nonce |-> "asked", report_data |-> <<"asked", truth>>,
                 launch_measurement |-> good, tcb_level |-> 7,
                 signature |-> [form |-> "sevsnp", key |-> chip, covers |-> TRUE, parses |-> TRUE,
                                measurement |-> good, tcb |-> Floors, debug |-> FALSE]]]

Slow == [Genuine EXCEPT !.latency = 3]
Unreachable == [Genuine EXCEPT !.fault = "client"]
Breaks == [Genuine EXCEPT !.fault = "other"]
Mock == [Genuine EXCEPT !.silicon = "mock", !.public_key = ownKey,
                        !.report.signature = [form |-> "mock", key |-> ownKey]]

\* The same, over other rows.
Lies(a) == [a EXCEPT !.hash = lie, !.report.report_data = <<"asked", lie>>]
\* An earlier proof, and one whose proof is of another answer.
Replayed == [Genuine EXCEPT !.report.nonce = "other", !.report.report_data = <<"other", truth>>]
Swapped == [Genuine EXCEPT !.hash = lie]
Cacheable == [Genuine EXCEPT !.no_store = FALSE]
OtherCode == [Genuine EXCEPT !.report.signature.measurement = tampered]
OwnRoot == [Genuine EXCEPT !.ark = Cert(ownRoot, ownRoot), !.ask = Cert(amdAsk, ownRoot)]
OddRoot == [Genuine EXCEPT !.ark = Cert(oddKey, oddKey)]
NoRows == [Genuine EXCEPT !.hash = noHash, !.report.report_data = <<"asked", noHash>>]

Cheats == {Lies(Genuine), Lies(Mock), Replayed, Swapped, Cacheable, OtherCode, OwnRoot, OddRoot, NoRows, Breaks}

\* A cheat comes first in the metagraph, then an honest miner, then one of either kind.
Three == <<Cheats, {Slow, Unreachable}, {Mock, Lies(Mock)}>>

\* Two liars before two honest miners.
Four == <<{Lies(Genuine)}, {Lies(Mock), Unreachable}, {Genuine}, {Genuine, Unreachable}>>
=============================================================================
