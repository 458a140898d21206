--------------------------- MODULE PackageFindings ---------------------------
(***************************************************************************)
(* The vocabulary every package verifier reports in: verification          *)
(* dimensions, finding codes with their severity, and the small operators  *)
(* on sequences the verifiers share.                                       *)
(*                                                                         *)
(* A finding is its code: its path and its wording decide nothing in the   *)
(* code.  A list of findings is therefore the set of the codes in it.      *)
(***************************************************************************)
EXTENDS Integers, Sequences, FiniteSets, SequencesExt

(* verification.rs: VerificationDimension. *)
VerificationDimension ==
  {"Verified", "Invalid", "NotPresent", "NotEvaluated", "Unsupported"}

(* finding.rs: Severity, ordered Info < Warning < Error. *)
Severity(code) ==
  IF code \in {"UnknownMember", "UnsupportedCompression", "CompressorMismatch",
               "UnsupportedIntegrityAlgorithm", "UnsupportedIntegrityScope",
               "MissingVerificationKey", "UnsupportedSignatureAlgorithm"}
  THEN "Warning"
  ELSE IF code \in {"UnsignedPackage", "SigningSchemeDetected",
                    "SignatureSidecarNotProvided"}
       THEN "Info"
       ELSE "Error"

(* integrity.rs: the codes integrity_outcome takes for a broken package.    *)
BreaksIntegrity ==
  {"IntegrityMismatch", "InvalidIntegrityMetadata", "MissingIntegrityRecord",
   "IntegrityReadFailure"}

(* What a verifier returns: one dimension and the findings behind it.       *)
Outcome(verdict, findings) == [verdict |-> verdict, findings |-> findings]

(* The same with the certificates that signed.                              *)
Signed(verdict, findings, signers) ==
  [verdict |-> verdict, findings |-> findings, signers |-> signers]

(* A step of a fallible computation: the failure code, or "ok".             *)
Check(holds, failure) == IF holds THEN "ok" ELSE failure
Fails(failure) == failure # "ok"

(* The first failure of a sequence of checks, "ok" when all of them pass.   *)
FirstFailure(checks) ==
  LET failed == SelectSeq(checks, Fails)
  IN  IF failed = << >> THEN "ok" ELSE failed[1]

(* No element of a sequence occurs twice.                                   *)
Distinct(seq) == Cardinality(Range(seq)) = Len(seq)

(* The union of the images of a set.                                        *)
Gather(S, Codes(_)) == UNION {Codes(x) : x \in S}
=============================================================================
