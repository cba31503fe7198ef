---------------------------- MODULE Attestation ----------------------------
(***************************************************************************)
(* The verdicts on an attestation report: sentinel/attestation.py for the  *)
(* mock silicon, sentinel/sevsnp/verifier.py and certs.py for the real     *)
(* one.  Only operators: the components that receive reports (the key      *)
(* broker, the validator) use them inside their own actions.               *)
(*                                                                         *)
(* Cryptography is perfect.  A public key is a value, a signature names    *)
(* the key that made it, and a report altered after signing is one whose   *)
(* signature names NoKey (nobody signed those bytes).                      *)
(***************************************************************************)
EXTENDS Integers

CONSTANTS
    Keys,          \* every signing key: chips, AMD's ARK and ASK, invented ones
    NoKey,         \* the "signer" of bytes nobody signed
    OddKey,        \* a key or a signature of a kind the certificate library lacks
    Measurements,  \* launch measurements, up to case and blanks
    Bindings,      \* values of report_data
    PinnedRoot     \* certs.AMD_ROOT_SPKI_SHA256: the root key known in advance

ASSUME KeysAssumption == NoKey \notin Keys /\ OddKey \notin Keys \cup {NoKey} /\ PinnedRoot \in Keys

TcbComponents == {"bootloader", "tee", "snp", "microcode"}

\* An X.509 certificate: the key it certifies and the key that signed it.  It
\* may be well-formed DER and still hold a key or a signature algorithm that
\* `cryptography` cannot handle; it says so when it is asked for, not on loading.
Certificate == [key : Keys \cup {OddKey}, issuer : Keys \cup {OddKey}]

\* The two shapes a signature field can have (kbs.looks_like_sevsnp).  A
\* SEV-SNP "signature" is a whole hardware report: `covers` says that its
\* REPORT_DATA is the SHA-512 of the canonical report it travels with.
MockSignature == [form : {"mock"}, key : Keys \cup {NoKey}]
SevSnpSignature == [form : {"sevsnp"}, key : Keys \cup {NoKey},
                    covers : BOOLEAN, parses : BOOLEAN,
                    measurement : Measurements,
                    tcb : [TcbComponents -> Nat], debug : BOOLEAN]

looks_like_sevsnp(signature) == signature.form = "sevsnp"

----------------------------------------------------------------------------
(* Mock silicon                                                            *)

\* _Ed25519Verifier.valid: any failure to verify is a plain False.
MockValid(signature, key) == signature.form = "mock" /\ signature.key = key

\* attestation.verify.  The checks only differ in the message they raise, so
\* their conjunction is the verdict.
MockVerify(report, key, approved, expected_nonce, min_tcb, expected_binding) ==
    /\ MockValid(report.signature, key)
    /\ report.launch_measurement \in approved
    /\ report.tcb_level >= min_tcb
    /\ report.nonce = expected_nonce
    /\ report.report_data = expected_binding

----------------------------------------------------------------------------
(* SEV-SNP                                                                 *)

\* Mutant of ChainAnchored: a chain that is sound in itself is enough.
ChainConsistent(ark, ask) == ark.issuer = ark.key /\ ask.issuer = ark.key

\* CertChain.verify_self: self-signed, signed over the ASK, and AMD's own.
ChainAnchored(ark, ask) ==
    /\ ark.issuer = ark.key
    /\ ark.key = PinnedRoot
    /\ ask.issuer = ark.key

\* certs.verify_vcek
VcekEndorsed(vcek, ark, ask) ==
    /\ ChainAnchored(ark, ask)
    /\ vcek.issuer = ask.key

\* verify_vcek raises UnsupportedAlgorithm, which is no CertificateError, when it
\* reaches for something odd: in the ARK before the root is compared with AMD's
\* (an odd ARK is taken to name itself as issuer), in what comes below it after.
VcekRaises(vcek, ark, ask) ==
    \/ OddKey \in {ark.key, ark.issuer}
    \/ ark.issuer = ark.key /\ ark.key = PinnedRoot /\ ask.issuer = OddKey
    \/ ChainAnchored(ark, ask) /\ OddKey \in {ask.key, vcek.issuer}
    \/ VcekEndorsed(vcek, ark, ask) /\ vcek.key = OddKey

\* SevSnpPolicy.check, on what the hardware report says of the guest.
PolicyAccepts(blob, approved, floors) ==
    /\ blob.measurement \in approved
    /\ \A c \in TcbComponents : blob.tcb[c] >= floors[c]
    /\ ~blob.debug

\* SevSnpVerifier.verify_signed_message and verify: the chain, then the
\* chip's signature, then the policy, then that the report covers `message`.
SevSnpVerify(blob, vcek, ark, ask, approved, floors) ==
    /\ blob.parses
    /\ ~VcekRaises(vcek, ark, ask)
    /\ VcekEndorsed(vcek, ark, ask)
    /\ blob.key = vcek.key
    /\ PolicyAccepts(blob, approved, floors)
    /\ blob.covers
=============================================================================
