------------------------- MODULE PackageReportProofs -------------------------
(***************************************************************************)
(* What every report of PackageVerifier satisfies, whatever its verifiers   *)
(* answer, whatever the policy trusts and whichever rewind fails.           *)
(***************************************************************************)
EXTENDS PackageReport, TLAPS

(* The shape of the state. *)
ReportTypeOK ==
  /\ request \in [profile : Profiles, policy : Policies, sidecar : BOOLEAN]
  /\ stage \in {"validate", "verify", "v1", "sidecar", "done"}
  /\ validation \in Validations
  /\ parts \subseteq Reported
  /\ report \in [integrity : VerificationDimension, signature : VerificationDimension,
                 signers : SUBSET Certificates, trust : VerificationDimension,
                 findings : SUBSET Codes]

(* What is invariant at every stage: before a verifier ran the report is    *)
(* empty; afterwards no dimension is better than a part's, and trust is the *)
(* trust the report's own signature earns.                                  *)
Gathered ==
  /\ report.integrity \in Unbroken => \A part \in parts : part.integrity \in Unbroken
  /\ report.integrity = "Verified" => \E part \in parts : part.integrity = "Verified"
  /\ report.signature \in Unbroken => \A part \in parts : part.signature \in Unbroken
  /\ report.signature = "Verified" => \E part \in parts : part.signature = "Verified"
  /\ report.signature = "NotPresent" => \A part \in parts : part.signature = "NotPresent"
  /\ report.signers = UNION {part.signers : part \in parts}

ReportInv ==
  /\ ReportTypeOK
  /\ stage \in {"validate", "verify"} => parts = {} /\ report = NoReport
  /\ Gathered
  /\ report.trust # "NotPresent"
  /\ stage = "v1" => report.trust = "NotEvaluated"
  /\ report.signature = "NotPresent" => report.signers = {}
  /\ TrustIsEarned

-----------------------------------------------------------------------------
(* Merging never improves on either side, and what it calls Verified one of *)
(* them verified.                                                           *)
LEMMA MergeIsWeakest ==
  ASSUME NEW a \in VerificationDimension, NEW b \in VerificationDimension
  PROVE  /\ MergeVerificationDimensions(a, b) \in VerificationDimension
         /\ MergeVerificationDimensions(a, b) \in Unbroken => a \in Unbroken /\ b \in Unbroken
         /\ MergeVerificationDimensions(a, b) = "Verified" => "Verified" \in {a, b}
         /\ MergeVerificationDimensions(a, b) = "NotPresent" => a = "NotPresent" /\ b = "NotPresent"
         /\ a # "NotPresent" => MergeVerificationDimensions(a, b) # "NotPresent"
  BY DEF MergeVerificationDimensions, VerificationDimension, Unbroken

(* trust_verdict gives one of three answers, and Verified only when earned. *)
LEMMA VerdictIsEarned ==
  ASSUME NEW policy \in Policies, NEW signature \in VerificationDimension,
         NEW signers \in SUBSET Certificates,
         signature = "NotPresent" => signers = {}
  PROVE  /\ TrustVerdict(policy, signature, signers) \in {"Verified", "Invalid", "NotEvaluated"}
         /\ TrustVerdict(policy, signature, signers) = "Verified" =>
              /\ signers \subseteq policy.trusted
              /\ \/ signature = "Verified" /\ signers # {}
                 \/ signature = "NotPresent" /\ policy.allowUnsigned
  BY DEF TrustVerdict, VerificationDimension

-----------------------------------------------------------------------------
(* A report made of one result, or of one merged result, is sound.          *)
LEMMA StructuralIsSound ==
  ASSUME NEW result \in Results, ReportTypeOK
  PROVE  LET made == Published(Structural(result))
         IN  /\ made \in [integrity : VerificationDimension, signature : VerificationDimension,
                          signers : SUBSET Certificates, trust : VerificationDimension,
                          findings : SUBSET Codes]
             /\ made.integrity = result.integrity
             /\ made.signature = result.signature
             /\ made.signers = result.signers
             /\ made.trust # "NotPresent"
             /\ made.trust = "Verified" =>
                  /\ made.signers \subseteq request.policy.trusted
                  /\ \/ made.signature = "Verified" /\ made.signers # {}
                     \/ made.signature = "NotPresent" /\ request.policy.allowUnsigned
<1> DEFINE trust == TrustVerdict(request.policy, result.signature, result.signers)
<1>1. /\ result.integrity \in VerificationDimension /\ result.signature \in VerificationDimension
      /\ result.signers \in SUBSET Certificates /\ result.findings \in SUBSET Codes
      /\ result.signature = "NotPresent" => result.signers = {}
      /\ request.policy \in Policies
      /\ validation.findings \in SUBSET Codes
  BY DEF Results, Reported, ReportTypeOK, Validations
<1>2. /\ trust \in {"Verified", "Invalid", "NotEvaluated"}
      /\ trust = "Verified" =>
           /\ result.signers \subseteq request.policy.trusted
           /\ \/ result.signature = "Verified" /\ result.signers # {}
              \/ result.signature = "NotPresent" /\ request.policy.allowUnsigned
  BY <1>1, VerdictIsEarned
<1>3. Structural(result) = [integrity |-> result.integrity, signature |-> result.signature,
                            signers |-> result.signers, trust |-> trust,
                            findings |-> validation.findings \cup result.findings]
  BY DEF Structural
<1>4. "SignatureSidecarNotProvided" \in Codes
  BY PackageReportAssumption
<1> HIDE DEF trust
<1> QED
  BY <1>1, <1>2, <1>3, <1>4 DEF Published, VerificationDimension

(* The empty result of a verification that did not run is a result.         *)
LEMMA NothingIsResult ==
  ASSUME NEW signature \in VerificationDimension, NEW integrity \in VerificationDimension,
         NEW findings \in SUBSET Codes
  PROVE  /\ [Nothing(signature) EXCEPT !.integrity = integrity, !.findings = findings] \in Results
         /\ Nothing(signature) \in Results
  BY DEF Nothing, Results, Reported, VerificationDimension

-----------------------------------------------------------------------------
(* Initially nothing is reported.                                           *)
LEMMA ReportInvInit == ReportInit => ReportInv
  BY DEF ReportInit, ReportInv, ReportTypeOK, Gathered, TrustIsEarned, NoReport, Validations,
         Detected, Unbroken, VerificationDimension

(* A first verifier replaces the empty report by its own result.            *)
LEMMA FirstPartIsSound ==
  ASSUME ReportInv, NEW result \in Results,
         parts' = {result}, report' = Published(Structural(result)),
         stage' \in {"sidecar", "done"}, UNCHANGED <<request, validation>>
  PROVE  ReportInv'
<1>1. ReportTypeOK'
  BY StructuralIsSound DEF ReportInv, ReportTypeOK, Results
<1>2. Gathered'
  BY StructuralIsSound DEF ReportInv, Gathered
<1>3. report'.signature = "NotPresent" => report'.signers = {}
  BY StructuralIsSound DEF ReportInv, Results
<1>4. TrustIsEarned' /\ report'.trust # "NotPresent"
  BY StructuralIsSound DEF ReportInv, TrustIsEarned
<1> QED
  BY <1>1, <1>2, <1>3, <1>4 DEF ReportInv

(* v1's result is merged into that of the signing block.                    *)
LEMMA SecondPartIsSound ==
  ASSUME ReportInv, NEW result \in Results, stage = "v1",
         parts' = parts \cup {result}, report' = Published(Merged(result)),
         stage' \in {"sidecar", "done"}, UNCHANGED <<request, validation>>
  PROVE  ReportInv'
<1> DEFINE both == [integrity |-> MergeVerificationDimensions(report.integrity, result.integrity),
                    signature |-> MergeVerificationDimensions(report.signature, result.signature),
                    signers |-> report.signers \cup result.signers,
                    findings |-> report.findings \cup result.findings]
<1>1. /\ result.integrity \in VerificationDimension /\ result.signature \in VerificationDimension
      /\ result.signers \in SUBSET Certificates /\ result.findings \in SUBSET Codes
      /\ result.signature = "NotPresent" => result.signers = {}
      /\ result \in Reported
  BY DEF Results, Reported
<1>2. /\ report.integrity \in VerificationDimension /\ report.signature \in VerificationDimension
      /\ report.signers \in SUBSET Certificates /\ report.findings \in SUBSET Codes
      /\ report.signature = "NotPresent" => report.signers = {}
      /\ ReportTypeOK /\ Gathered
  BY DEF ReportInv, ReportTypeOK
<1>3. both.integrity \in VerificationDimension /\ both.signature \in VerificationDimension
  BY <1>1, <1>2, MergeIsWeakest
<1>4. both.signature = "NotPresent" => both.signers = {}
  BY <1>1, <1>2, MergeIsWeakest
<1>5. both \in Results
  BY <1>1, <1>2, <1>3, <1>4 DEF Results, Reported
<1>6. report' = Published(Structural(both))
  BY DEF Merged
<1>7. /\ report'.integrity = both.integrity /\ report'.signature = both.signature
      /\ report'.signers = both.signers /\ report'.trust # "NotPresent"
  BY <1>2, <1>5, <1>6, StructuralIsSound
<1>8. TrustIsEarned'
  BY <1>2, <1>5, <1>6, StructuralIsSound DEF TrustIsEarned
<1>9. ReportTypeOK'
  <2>1. report' \in [integrity : VerificationDimension, signature : VerificationDimension,
                     signers : SUBSET Certificates, trust : VerificationDimension,
                     findings : SUBSET Codes]
    BY <1>2, <1>5, <1>6, StructuralIsSound
  <2> HIDE DEF both
  <2> QED
    BY <1>1, <1>2, <2>1 DEF ReportTypeOK
<1>10. /\ report'.integrity \in Unbroken =>
            report.integrity \in Unbroken /\ result.integrity \in Unbroken
       /\ report'.integrity = "Verified" => "Verified" \in {report.integrity, result.integrity}
       /\ report'.signature \in Unbroken =>
            report.signature \in Unbroken /\ result.signature \in Unbroken
       /\ report'.signature = "Verified" => "Verified" \in {report.signature, result.signature}
       /\ report'.signature = "NotPresent" =>
            report.signature = "NotPresent" /\ result.signature = "NotPresent"
  BY <1>1, <1>2, <1>7, MergeIsWeakest
<1>11. Gathered'
  BY <1>2, <1>7, <1>10 DEF Gathered
<1> QED
  BY <1>4, <1>7, <1>8, <1>9, <1>11 DEF ReportInv

(* The sidecar is merged with a trust of its own.                           *)
LEMMA SidecarIsSound ==
  ASSUME ReportInv, NEW result \in Results, VerifySidecar(result)
  PROVE  ReportInv'
<1> DEFINE earned == TrustVerdict(request.policy, result.signature, result.signers)
<1>1. /\ result.integrity \in VerificationDimension /\ result.signature \in VerificationDimension
      /\ result.signers \in SUBSET Certificates /\ result.findings \in SUBSET Codes
      /\ result.signature = "NotPresent" => result.signers = {}
      /\ result \in Reported
  BY DEF Results, Reported
<1>2. /\ report.integrity \in VerificationDimension /\ report.signature \in VerificationDimension
      /\ report.trust \in VerificationDimension
      /\ report.signers \in SUBSET Certificates /\ report.findings \in SUBSET Codes
      /\ report.signature = "NotPresent" => report.signers = {}
      /\ request.policy \in Policies
      /\ report.trust # "NotPresent"
  BY DEF ReportInv, ReportTypeOK
<1>3. /\ earned \in {"Verified", "Invalid", "NotEvaluated"}
      /\ earned = "Verified" =>
           /\ result.signers \subseteq request.policy.trusted
           /\ \/ result.signature = "Verified" /\ result.signers # {}
              \/ result.signature = "NotPresent" /\ request.policy.allowUnsigned
  BY <1>1, <1>2, VerdictIsEarned
<1>4. /\ report'.integrity = MergeVerificationDimensions(report.integrity, result.integrity)
      /\ report'.signature = MergeVerificationDimensions(report.signature, result.signature)
      /\ report'.trust = MergeVerificationDimensions(report.trust, earned)
      /\ report'.signers = report.signers \cup result.signers
      /\ parts' = parts \cup {result} /\ stage' = "done"
      /\ UNCHANGED <<request, validation>>
  BY DEF VerifySidecar
<1> HIDE DEF earned
<1>5. earned \in VerificationDimension
  BY <1>3 DEF VerificationDimension
<1>6. /\ report'.integrity \in VerificationDimension /\ report'.signature \in VerificationDimension
      /\ report'.trust \in VerificationDimension /\ report'.trust # "NotPresent"
  BY <1>1, <1>2, <1>4, <1>5, MergeIsWeakest
<1>7. ReportTypeOK'
  <2>1. report' \in [integrity : VerificationDimension, signature : VerificationDimension,
                     signers : SUBSET Certificates, trust : VerificationDimension,
                     findings : SUBSET Codes]
    BY <1>1, <1>2, <1>4, <1>6 DEF VerifySidecar
  <2> QED
    BY <1>1, <1>4, <2>1 DEF ReportInv, ReportTypeOK
<1>8. /\ report'.integrity \in Unbroken =>
           report.integrity \in Unbroken /\ result.integrity \in Unbroken
      /\ report'.integrity = "Verified" => "Verified" \in {report.integrity, result.integrity}
      /\ report'.signature \in Unbroken =>
           report.signature \in Unbroken /\ result.signature \in Unbroken
      /\ report'.signature = "Verified" => "Verified" \in {report.signature, result.signature}
      /\ report'.signature = "NotPresent" =>
           report.signature = "NotPresent" /\ result.signature = "NotPresent"
  BY <1>1, <1>2, <1>4, MergeIsWeakest
<1>9. Gathered'
  BY <1>4, <1>8 DEF ReportInv, Gathered
<1>10. TrustIsEarned'
  <2> SUFFICES ASSUME report'.trust = "Verified"
               PROVE  /\ report'.signers \subseteq request.policy.trusted
                      /\ \/ report'.signature = "Verified" /\ report'.signers # {}
                         \/ report'.signature = "NotPresent" /\ request.policy.allowUnsigned
    BY <1>4 DEF TrustIsEarned
  <2>1. report.trust = "Verified" /\ earned = "Verified"
    <3>1. report.trust \in Unbroken /\ earned \in Unbroken
      BY <1>2, <1>4, <1>5, MergeIsWeakest DEF Unbroken
    <3> QED
      BY <1>2, <1>3, <3>1 DEF Unbroken
  <2>2. /\ report.signers \subseteq request.policy.trusted
        /\ \/ report.signature = "Verified" /\ report.signers # {}
           \/ report.signature = "NotPresent" /\ request.policy.allowUnsigned
    BY <2>1 DEF ReportInv, TrustIsEarned
  <2>3. report'.signature = "Verified" \/ report'.signature = "NotPresent"
    BY <1>3, <1>4, <2>1, <2>2 DEF MergeVerificationDimensions
  <2>4. report'.signature = "NotPresent" => request.policy.allowUnsigned
    BY <1>8, <2>2
  <2>5. report'.signature = "Verified" => report'.signers # {}
    BY <1>3, <1>4, <1>8, <2>1, <2>2
  <2> QED
    BY <1>3, <1>4, <2>1, <2>2, <2>3, <2>4, <2>5
<1>11. report'.signature = "NotPresent" => report'.signers = {}
  BY <1>1, <1>2, <1>4, <1>8
<1> QED
  BY <1>4, <1>6, <1>7, <1>9, <1>10, <1>11 DEF ReportInv

-----------------------------------------------------------------------------
(* Every step keeps the invariant, one case per action of the verifier.     *)
LEMMA ReportInvStep == ReportInv /\ [ReportNext]_reportVars => ReportInv'
<1> SUFFICES ASSUME ReportInv, [ReportNext]_reportVars PROVE ReportInv'
  OBVIOUS
<1>1. CASE UNCHANGED reportVars
  BY <1>1 DEF ReportInv, ReportTypeOK, Gathered, TrustIsEarned, reportVars
<1>2. ASSUME NEW found \in Validations, Validate(found) PROVE ReportInv'
  BY <1>2 DEF Validate, ReportInv, ReportTypeOK, Gathered, TrustIsEarned
<1>3. ASSUME NEW result \in Results, VerifyWhole(result) PROVE ReportInv'
  <2>1. Structural(result) = Published(Structural(result))
    <3>1. request.profile # "AndroidApk"
      BY <1>3 DEF VerifyWhole, AppProfile
    <3>2. Structural(result).findings \cup {} = Structural(result).findings
      OBVIOUS
    <3> QED
      BY <3>1, <3>2 DEF Published, Structural
  <2> QED
    BY <1>3, <2>1, FirstPartIsSound DEF VerifyWhole
<1>4. ASSUME NEW integrity \in VerificationDimension, NEW findings \in SUBSET Codes,
             VerifyMsixApp(integrity, findings)
      PROVE ReportInv'
  <2> DEFINE noticed == IF validation.detected.embedded THEN "NotEvaluated" ELSE "NotPresent"
             result == [Nothing(noticed) EXCEPT !.integrity = integrity, !.findings = findings]
  <2>1. result \in Results
    <3>1. noticed \in VerificationDimension
      BY DEF VerificationDimension
    <3> HIDE DEF noticed
    <3> QED
      BY <3>1, NothingIsResult
  <2>2. Structural(result) = Published(Structural(result))
    <3>1. request.profile # "AndroidApk"
      BY <1>4 DEF VerifyMsixApp
    <3> HIDE DEF result
    <3>2. Structural(result).findings \cup {} = Structural(result).findings
      OBVIOUS
    <3> QED
      BY <3>1, <3>2 DEF Published, Structural
  <2> QED
    BY <1>4, <2>1, <2>2, FirstPartIsSound DEF VerifyMsixApp
<1>5. ASSUME NEW result \in Results, VerifySigningBlock(result) PROVE ReportInv'
  <2>1. CASE ~validation.detected.v1Metadata
    BY <1>5, <2>1, FirstPartIsSound DEF VerifySigningBlock, AfterReport
  <2>2. CASE validation.detected.v1Metadata
    <3>1. report = NoReport /\ stage = "verify"
      BY <1>5 DEF VerifySigningBlock, ReportInv
    <3>2. /\ report'.integrity = result.integrity /\ report'.signature = result.signature
          /\ report'.signers = result.signers /\ report'.trust = "NotEvaluated"
          /\ report' \in [integrity : VerificationDimension, signature : VerificationDimension,
                          signers : SUBSET Certificates, trust : VerificationDimension,
                          findings : SUBSET Codes]
      BY <1>5, <2>2, <3>1 DEF VerifySigningBlock, NoReport, Results, Reported, VerificationDimension
    <3>3. parts' = {result} /\ stage' = "v1" /\ UNCHANGED <<request, validation>>
      BY <1>5, <2>2 DEF VerifySigningBlock
    <3>4. ReportTypeOK'
      BY <3>2, <3>3 DEF ReportInv, ReportTypeOK, Results
    <3>5. Gathered'
      BY <3>2, <3>3 DEF Gathered
    <3> QED
      BY <3>2, <3>3, <3>4, <3>5 DEF ReportInv, TrustIsEarned, Results
  <2> QED
    BY <2>1, <2>2
<1>6. ASSUME NEW result \in Results, VerifyV1Too(result) PROVE ReportInv'
  <2>1. NotedV1(result) \in Results
    BY DEF NotedV1, Results, Reported, VerificationDimension
  <2> QED
    BY <1>6, <2>1, SecondPartIsSound DEF VerifyV1Too, AfterReport
<1>7. CASE RewindForV1Fails
  <2> DEFINE result == [Nothing("NotEvaluated") EXCEPT !.findings = {"IntegrityReadFailure"}]
  <2>1. result \in Results
    BY PackageReportAssumption DEF Nothing, Results, Reported, VerificationDimension
  <2> QED
    BY <1>7, <2>1, SecondPartIsSound DEF RewindForV1Fails, AfterReport
<1>8. ASSUME NEW result \in Results, VerifyV1Only(result) PROVE ReportInv'
  <2>1. NotedV1(result) \in Results
    BY DEF NotedV1, Results, Reported, VerificationDimension
  <2> QED
    BY <1>8, <2>1, FirstPartIsSound DEF VerifyV1Only, AfterReport
<1>9. CASE VerifyNothing
  <2>1. PICK signature \in VerificationDimension :
          /\ report' = Published(Structural(Nothing(signature)))
          /\ signature = "NotEvaluated" \/ (signature = "NotPresent" /\ ~validation.detected.any)
    BY <1>9 DEF VerifyNothing, VerificationDimension
  <2>2. Nothing(signature) \in Results
    BY NothingIsResult DEF VerificationDimension
  <2>3. /\ parts' = NotReached(validation.detected.any)
        /\ UNCHANGED <<request, validation>> /\ stage' \in {"sidecar", "done"}
    BY <1>9 DEF VerifyNothing, ReportInv, AfterReport
  <2>4. ReportTypeOK /\ Nothing(signature).signers = {} /\ Nothing(signature).signature = signature
          /\ Nothing(signature).integrity = "NotEvaluated"
    BY DEF ReportInv, Nothing
  <2>5. ReportTypeOK'
    <3>1. Nothing("NotEvaluated") \in Reported
      BY DEF Nothing, Reported, VerificationDimension
    <3>2. parts' \subseteq Reported
      BY <2>3, <3>1 DEF NotReached
    <3> QED
      BY <2>1, <2>2, <2>3, <2>4, <3>2, StructuralIsSound DEF ReportTypeOK
  <2>6. /\ report'.signers = {} /\ report'.integrity = "NotEvaluated"
        /\ report'.signature = signature /\ report'.trust # "NotPresent"
    BY <2>1, <2>2, <2>4, StructuralIsSound
  <2>7. TrustIsEarned'
    BY <2>1, <2>2, <2>3, <2>4, StructuralIsSound DEF TrustIsEarned
  <2>8. Gathered'
    <3>1. UNION {part.signers : part \in parts'} = {}
      BY <2>3 DEF NotReached, Nothing
    <3>2. signature = "NotPresent" => parts' = {}
      BY <2>1, <2>3 DEF NotReached
    <3> QED
      BY <2>1, <2>6, <3>1, <3>2 DEF Gathered, Unbroken
  <2> QED
    BY <2>3, <2>5, <2>6, <2>7, <2>8 DEF ReportInv
<1>10. ASSUME NEW result \in Results, VerifySidecar(result) PROVE ReportInv'
  BY <1>10, SidecarIsSound
<1> QED
  BY <1>1, <1>2, <1>3, <1>4, <1>5, <1>6, <1>7, <1>8, <1>9, <1>10 DEF ReportNext

(* The invariant says what the two properties say.                          *)
LEMMA ReportInvImplies == ReportInv => TrustIsEarned /\ NothingOutvoted
  BY DEF ReportInv, Gathered, NothingOutvoted, Combines, Unbroken

-----------------------------------------------------------------------------
(* No report trusts a package without a signature all of whose signers the  *)
(* policy trusts, or its leave to have none (verification.rs                *)
(* trust_verdict, android_apk_with_v4_sidecar).                             *)
THEOREM TrustEarned == ReportSpec => []TrustIsEarned
  BY ReportInvInit, ReportInvStep, ReportInvImplies, PTL DEF ReportSpec

(* No verifier's doubt is outvoted by another's verdict or taken for an     *)
(* absent signature, except that a signing block may be overlooked for v1   *)
(* (verification.rs merge_verification_dimensions and its callers).         *)
THEOREM NoneOutvoted == ReportSpec => []NothingOutvoted
  BY ReportInvInit, ReportInvStep, ReportInvImplies, PTL DEF ReportSpec
=============================================================================
