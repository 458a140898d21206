---------------------------- MODULE PackageReport ----------------------------
(***************************************************************************)
(* PackageVerifier (libarchive_oxide-package/src/verification.rs): which    *)
(* verifiers run on a package, in which order, what a failed rewind between *)
(* two of them does, and how their results become one report.               *)
(*                                                                         *)
(* Every step takes the result of the verifier it calls as a parameter.     *)
(* Here a result is any value of its type; module PackageVerifier takes the *)
(* results of the modelled verifiers.                                       *)
(***************************************************************************)
EXTENDS PackageFindings

CONSTANTS
  Certificates,      \* signer fingerprints
  Codes              \* finding codes

ASSUME PackageReportAssumption ==
  {"IntegrityReadFailure", "SignatureSidecarNotProvided"} \subseteq Codes

Profiles == {"Alpine", "Deb", "Rpm", "Jar", "NuGet", "Wheel", "Epub",
             "AndroidApk", "Msix", "Ipa"}
AppProfile == {"AndroidApk", "Msix", "Ipa"}
ZipProfile == {"Jar", "NuGet", "Wheel", "Epub"}

(* What a verifier returns (no signers without a signature), what a         *)
(* validator returns, and TrustPolicy.                                      *)
Reported == [integrity : VerificationDimension, signature : VerificationDimension,
             signers : SUBSET Certificates, findings : SUBSET Codes]
Results == {result \in Reported : result.signature = "NotPresent" => result.signers = {}}
Detected == [v1Metadata : BOOLEAN, block : BOOLEAN, any : BOOLEAN, embedded : BOOLEAN]
Validations == [readable : BOOLEAN, findings : SUBSET Codes, detected : Detected]
Policies == [trusted : SUBSET Certificates, allowUnsigned : BOOLEAN]

VARIABLES
  request,           \* [profile, policy, sidecar]
  stage,             \* "validate", "verify", "v1", "sidecar" or "done"
  validation,        \* what the validator found
  parts,             \* the results of the verifiers that ran, and NotEvaluated for
                     \* what was detected and could not be reached (history)
  overlooked,        \* the same for a signing block v1 was verified without (history)
  report             \* VerificationReport

reportVars == <<request, stage, validation, parts, overlooked, report>>

-----------------------------------------------------------------------------
(* merge_verification_dimensions. *)
MergeBest(first, second) ==
  IF "Verified" \in {first, second} THEN "Verified"
  ELSE IF "Invalid" \in {first, second} THEN "Invalid"
  ELSE IF "Unsupported" \in {first, second} THEN "Unsupported"
  ELSE IF "NotEvaluated" \in {first, second} THEN "NotEvaluated"
  ELSE "NotPresent"
MergeVerificationDimensions(first, second) ==
  IF "Invalid" \in {first, second} THEN "Invalid"
  ELSE IF "Unsupported" \in {first, second} THEN "Unsupported"
  ELSE IF "NotEvaluated" \in {first, second} THEN "NotEvaluated"
  ELSE IF "Verified" \in {first, second} THEN "Verified"
  ELSE "NotPresent"

(* trust_verdict. *)
TrustVerdictOfSome(policy, signature, signers) ==
  CASE signature = "Verified" ->
         IF signers \cap policy.trusted # {} THEN "Verified" ELSE "Invalid"
    [] signature = "NotPresent" /\ policy.allowUnsigned -> "Verified"
    [] OTHER -> "NotEvaluated"
TrustVerdict(policy, signature, signers) ==
  CASE signature = "Verified" ->
         IF signers # {} /\ signers \subseteq policy.trusted THEN "Verified" ELSE "Invalid"
    [] signature = "NotPresent" /\ policy.allowUnsigned -> "Verified"
    [] OTHER -> "NotEvaluated"

(* VerificationReport::structural with_signer_fingerprints.                 *)
Structural(result) ==
  [integrity |-> result.integrity, signature |-> result.signature, signers |-> result.signers,
   trust |-> TrustVerdict(request.policy, result.signature, result.signers),
   findings |-> validation.findings \cup result.findings]

Nothing(signature) ==
  [integrity |-> "NotEvaluated", signature |-> signature, signers |-> {}, findings |-> {}]

NoReport == [integrity |-> "NotEvaluated", signature |-> "NotEvaluated", signers |-> {},
             trust |-> "NotEvaluated", findings |-> {}]

(* with_android_apk_v4(not_provided()): every report on an Android package  *)
(* says so, until a sidecar is verified.                                    *)
Published(structural) ==
  [structural EXCEPT !.findings =
     @ \cup (IF request.profile = "AndroidApk" THEN {"SignatureSidecarNotProvided"} ELSE {})]
AfterReport == IF request.sidecar THEN "sidecar" ELSE "done"

-----------------------------------------------------------------------------
ReportInit ==
  /\ request \in [profile : Profiles, policy : Policies, sidecar : BOOLEAN]
  /\ request.sidecar => request.profile = "AndroidApk"
  /\ stage = "validate"
  /\ validation = [readable |-> FALSE, findings |-> {},
                   detected |-> [v1Metadata |-> FALSE, block |-> FALSE, any |-> FALSE,
                                 embedded |-> FALSE]]
  /\ parts = {} /\ overlooked = {}
  /\ report = NoReport

(* The validator of the profile runs first.                                 *)
Validate(found) ==
  /\ stage = "validate"
  /\ validation' = found
  /\ stage' = "verify"
  /\ UNCHANGED <<request, parts, overlooked, report>>

(* alpine_apk, deb, rpm; zip after its rewind: one verifier, one report.    *)
VerifyWhole(result) ==
  /\ stage = "verify" /\ request.profile \in (Profiles \ AppProfile)
  /\ request.profile \in ZipProfile => validation.readable
  /\ parts' = {result}
  /\ report' = Structural(result)
  /\ stage' = "done"
  /\ UNCHANGED <<request, validation, overlooked>>

(* verify_msix_app: the signature of an MSIX package is only noticed.       *)
VerifyMsixApp(integrity, findings) ==
  /\ stage = "verify" /\ request.profile = "Msix" /\ validation.readable
  /\ LET result == [Nothing(IF validation.detected.embedded THEN "NotEvaluated" ELSE "NotPresent")
                      EXCEPT !.integrity = integrity, !.findings = findings]
     IN  parts' = {result} /\ report' = Structural(result)
  /\ stage' = "done"
  /\ UNCHANGED <<request, validation, overlooked>>

(* verify_android_signing_block_app: v2 and v3, then v1 after a rewind when *)
(* v1 metadata was seen.                                                    *)
IsApk == request.profile = "AndroidApk" /\ validation.readable

VerifySigningBlock(result) ==
  /\ stage = "verify" /\ IsApk /\ validation.detected.block
  /\ parts' = {result}
  /\ IF validation.detected.v1Metadata
     THEN stage' = "v1" /\ report' = [report EXCEPT !.integrity = result.integrity,
                                        !.signature = result.signature, !.signers = result.signers,
                                        !.findings = result.findings]
     ELSE stage' = AfterReport /\ report' = Published(Structural(result))
  /\ UNCHANGED <<request, validation, overlooked>>

(* A v1 signature that is not there although its metadata is, was not       *)
(* evaluated.                                                               *)
NotedV1(result) ==
  IF result.signature = "NotPresent" THEN [result EXCEPT !.signature = "NotEvaluated"] ELSE result

Merged(result) ==
  Structural([integrity |-> MergeVerificationDimensions(report.integrity, result.integrity),
              signature |-> MergeVerificationDimensions(report.signature, result.signature),
              signers |-> report.signers \cup result.signers,
              findings |-> report.findings \cup result.findings])

VerifyV1Too(result) ==
  /\ stage = "v1"
  /\ parts' = parts \cup {NotedV1(result)}
  /\ report' = Published(Merged(NotedV1(result)))
  /\ stage' = AfterReport
  /\ UNCHANGED <<request, validation, overlooked>>

RewindForV1Fails ==
  /\ stage = "v1"
  /\ LET result == [Nothing("NotEvaluated") EXCEPT !.findings = {"IntegrityReadFailure"}]
     IN  parts' = parts \cup {result} /\ report' = Published(Merged(result))
  /\ stage' = AfterReport
  /\ UNCHANGED <<request, validation, overlooked>>

(* What should be on record for a scheme no rewind led to.                  *)
NotReached(detected) == IF detected THEN {Nothing("NotEvaluated")} ELSE {}

(* verify_android_v1_app: no signing block, or the rewind before it failed  *)
(* and the next one did not; the report then says nothing of the block.     *)
VerifyV1Only(result) ==
  /\ stage = "verify" /\ IsApk /\ validation.detected.v1Metadata
  /\ LET noted == IF validation.detected.any THEN NotedV1(result) ELSE result
     IN  parts' = {noted} /\ report' = Published(Structural(noted))
  /\ overlooked' = NotReached(validation.detected.block)
  /\ stage' = AfterReport
  /\ UNCHANGED <<request, validation>>

(* Nothing to verify, an unreadable container, or every rewind failed.      *)
VerifyNothing ==
  /\ stage = "verify" /\ request.profile \in ZipProfile \cup AppProfile
  /\ LET signature == IF request.profile \in ZipProfile \/ validation.detected.any
                         \/ request.profile = "Ipa"
                      THEN "NotEvaluated" ELSE "NotPresent"
     IN  report' = Published(Structural(Nothing(signature)))
  /\ parts' = NotReached(validation.detected.any)
  /\ stage' = IF request.profile = "AndroidApk" THEN AfterReport ELSE "done"
  /\ UNCHANGED <<request, validation, overlooked>>

(* android_apk_with_v4_sidecar: the sidecar's own verdict, its own trust,   *)
(* and both merged into the report.                                         *)
VerifySidecar(result) ==
  /\ stage = "sidecar"
  /\ parts' = parts \cup {result}
  /\ report' =
       [integrity |-> MergeVerificationDimensions(report.integrity, result.integrity),
        signature |-> MergeVerificationDimensions(report.signature, result.signature),
        trust     |-> MergeVerificationDimensions(
                        report.trust,
                        TrustVerdict(request.policy, result.signature, result.signers)),
        signers   |-> report.signers \cup result.signers,
        findings  |-> (report.findings \ {"SignatureSidecarNotProvided"}) \cup result.findings]
  /\ stage' = "done"
  /\ UNCHANGED <<request, validation, overlooked>>

ReportNext ==
  \/ \E found \in Validations : Validate(found)
  \/ \E result \in Results : VerifyWhole(result)
  \/ \E integrity \in VerificationDimension, findings \in SUBSET Codes :
       VerifyMsixApp(integrity, findings)
  \/ \E result \in Results : VerifySigningBlock(result) \/ VerifyV1Too(result)
  \/ RewindForV1Fails
  \/ \E result \in Results : VerifyV1Only(result)
  \/ VerifyNothing
  \/ \E result \in Results : VerifySidecar(result)

ReportSpec == ReportInit /\ [][ReportNext]_reportVars

-----------------------------------------------------------------------------
(* A report trusts a package only for a signature every signer of which the *)
(* policy trusts, or, when the policy allows it, for having none; merging a *)
(* sidecar in never lets a trusted signer cover for another                 *)
(* (verification.rs trust_verdict, android_apk_with_v4_sidecar).            *)
TrustIsEarned ==
  report.trust = "Verified" =>
    /\ report.signers \subseteq request.policy.trusted
    /\ \/ report.signature = "Verified" /\ report.signers # {}
       \/ report.signature = "NotPresent" /\ request.policy.allowUnsigned

(* A dimension the report calls Verified was verified by one of the results *)
(* and contradicted by none, and a signature it calls absent is absent from *)
(* all of them.                                                             *)
Unbroken == {"Verified", "NotPresent"}

Combines(results) ==
  /\ report.integrity = "Verified" =>
       /\ \A result \in results : result.integrity \in Unbroken
       /\ \E result \in results : result.integrity = "Verified"
  /\ report.signature = "Verified" =>
       /\ \A result \in results : result.signature \in Unbroken
       /\ \E result \in results : result.signature = "Verified"
  /\ report.signature = "NotPresent" =>
       \A result \in results : result.signature = "NotPresent"
  /\ report.signers = UNION {result.signers : result \in results}

(* A scheme that failed, was unsupported, or could not be evaluated after a *)
(* failed rewind, is never outvoted by one that was verified, and never     *)
(* taken for absent, which a policy may allow (verification.rs              *)
(* merge_verification_dimensions, app).  One case is left out: the rewind   *)
(* for the signing block fails, the one for v1 right after it succeeds, and *)
(* v1's verdict alone is reported.  EverySchemeCounts is about that case.   *)
NothingOutvoted == stage \in {"sidecar", "done"} => Combines(parts)

(* The same of every detected scheme, as app's documentation has it:        *)
(* "Every detected Android APK v1, v2, and v3 scheme is evaluated           *)
(* independently, then combined without allowing one valid scheme to hide   *)
(* another scheme's failure" (verification.rs app).                         *)
EverySchemeCounts == stage \in {"sidecar", "done"} => Combines(parts \cup overlooked)
=============================================================================
