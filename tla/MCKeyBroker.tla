---------------------------- MODULE MCKeyBroker ----------------------------
(* Model values and requests for the key broker.  Each request but the good *)
(* ones fails exactly one of the checks in release().                       *)
EXTENDS KeyBroker, TLC

CONSTANTS amdArk, amdAsk, vcek, evilArk, evilAsk, evilVcek, chip, noKey, oddKey,
          good, tampered, analytics, payments, nowhere,
          t1, t2, n1, n2, made_up

\* The threads are alike; used by the run without liveness.
ThreadSymmetry == Permutations(Threads)

MCKeys == {amdArk, amdAsk, vcek, evilArk, evilAsk, evilVcek, chip}
MCAmdKeys == {amdArk, amdAsk, vcek}
MCBinding == [r \in {analytics, payments, nowhere} |-> r]
MCTrustedChips == [c \in {"chip"} |-> chip]
MCFloors == [c \in TcbComponents |-> IF c = "snp" THEN 1 ELSE 0]

Cert(k, i) == [key |-> k, issuer |-> i]
AmdCerts == [NoCertificates EXCEPT !["VCEK"] = Cert(vcek, amdAsk),
                                   !["ASK"] = Cert(amdAsk, amdArk),
                                   !["ARK"] = Cert(amdArk, amdArk)]
\* Consistent in itself, with a root AMD never made.
EvilCerts == [NoCertificates EXCEPT !["VCEK"] = Cert(evilVcek, evilAsk),
                                    !["ASK"] = Cert(evilAsk, evilArk),
                                    !["ARK"] = Cert(evilArk, evilArk)]
\* AMD's root on top of a chain it never signed.
GraftedCerts == [EvilCerts EXCEPT !["ARK"] = Cert(amdArk, amdArk)]
MCHostChain == [ask |-> Cert(amdAsk, amdArk), ark |-> Cert(amdArk, amdArk)]

Mock(k) == [form |-> "mock", key |-> k]
Tcb(v) == [c \in TcbComponents |-> v]
Blob(k) == [form |-> "sevsnp", key |-> k, covers |-> TRUE, parses |-> TRUE,
            measurement |-> good, tcb |-> Tcb(1), debug |-> FALSE]

Ask(r, s, certs) ==
    [resource |-> r, chip_id |-> "chip", launch_measurement |-> good, tcb_level |-> 7,
     report_data |-> MCBinding[r], signature |-> s,
     hasCerts |-> certs # NoCertificates, certificates |-> certs]

GoodMock == Ask(analytics, Mock(chip), NoCertificates)
GoodReal == Ask(analytics, Blob(vcek), AmdCerts)

MockRequests ==
    {GoodMock,
     Ask(nowhere, Mock(chip), NoCertificates),
     Ask(analytics, Mock(noKey), NoCertificates),
     [GoodMock EXCEPT !.chip_id = "stranger"],
     [GoodMock EXCEPT !.launch_measurement = tampered],
     [GoodMock EXCEPT !.tcb_level = 6],
     [GoodMock EXCEPT !.report_data = payments]}

RealRequests ==
    {GoodReal,
     Ask(analytics, Blob(vcek), NoCertificates),
     Ask(analytics, Blob(evilVcek), EvilCerts),
     Ask(analytics, Blob(evilVcek), GraftedCerts),
     Ask(analytics, Blob(evilVcek), AmdCerts),
     Ask(analytics, [Blob(vcek) EXCEPT !.measurement = tampered], AmdCerts),
     Ask(analytics, [Blob(vcek) EXCEPT !.debug = TRUE], AmdCerts),
     Ask(analytics, [Blob(vcek) EXCEPT !.tcb = Tcb(0)], AmdCerts),
     Ask(analytics, [Blob(vcek) EXCEPT !.covers = FALSE], AmdCerts),
     Ask(analytics, [Blob(vcek) EXCEPT !.parses = FALSE], AmdCerts),
     [GoodReal EXCEPT !.report_data = payments]}

\* Certificates that make the verifier raise: the leaf is no DER; what it cannot
\* handle is in the ARK, in AMD's ARK and ASK, in the leaf.
WithCert(name, c) == [GoodReal EXCEPT !.certificates[name] = c]
RaisingRequests ==
    {WithCert("VCEK", Garbled), WithCert("ARK", Cert(oddKey, oddKey)),
     WithCert("ASK", Cert(amdAsk, oddKey)), WithCert("VCEK", Cert(vcek, oddKey)),
     Ask(analytics, Untyped, NoCertificates)}

\* The same certificates where they are refused before they can raise: no DER in
\* the chain, an odd leaf under a root that is not AMD's.
RefusedRequests ==
    {WithCert("ASK", Garbled),
     [GoodReal EXCEPT !.certificates = [EvilCerts EXCEPT !["VCEK"] = Cert(oddKey, evilAsk)]]}

\* Every verdict.
AllRequests == MockRequests \cup RealRequests \cup RaisingRequests \cup RefusedRequests

\* One of each outcome, for the runs about interleavings.
FewRequests == {GoodMock, [GoodMock EXCEPT !.launch_measurement = tampered]}

\* One that is granted, one that is refused and one that raises.
ThreadRequests == FewRequests \cup {WithCert("ASK", Cert(amdAsk, oddKey))}
=============================================================================
