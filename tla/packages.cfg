SPECIFICATION Spec
CONSTANTS
  Certificates = {"c1", "c2", "c3", "c9"}
  Codes = {"IntegrityReadFailure", "SignatureSidecarNotProvided"}
  MaxSignatureMembers = 8
  MaxSignatureBlocks = 4
  MaxCmsSigners = 2
  MaxCmsCertificates = 3
  MaxCmsDerNodes = 6
  MaxCmsNesting = 1
  MaxApkSigners = 2
  MaxApkRecords = 3
  MaxApkCertificates = 2
  MaxApkPairs = 5
  MaxLineageLevels = 3
  VerityBlock = 64
  MaxSigningInfosSize = 60
  MaxHeaderSize = 100
  MaxSigningInfoBlocks = 2
  MaxSaltSize = 8
  MaxCountersignatures = 2
  CentralFixed = 2
  RawEntrySize = 1
  Max16 = 65535
  Max32 = 1000
  ZipEntrySize = 0
  MsixBlockSize = 2
  LocalHeaderLength = 30
  LfhMax = 40
  ProbeLength = 2
  Codecs = {"gzip", "xz"}
  VersionCap = 5
  LeadLength = 2
  IntroLength = 1
  IndexEntryLength = 1
  Alignment = 4
  PayloadChunk = 3
  Shipments <- MCShipments
  TrustPolicies <- MCPolicies
  PackageOf <- MCPackageOf
  GzipBuffer = 4
  CaptureLimit = 5
  DecodedLimit = 6
  MaxTracked = 3
  ChunkSize = 3
  BlockSize = 2
  DigestsPerBlock = 2
  Buffer = 3
  SectionLengths = {0, 1, 2, 4, 7}
CHECK_DEADLOCK FALSE
INVARIANT TrustIsEarned
INVARIANT NothingOutvoted
INVARIANT VerifiedIsIntact
INVARIANT SignedIsAuthentic
INVARIANT SoundIsVerified
INVARIANT PayloadsReadWhole
INVARIANT DigestsAreExact
