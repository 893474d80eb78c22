\* The verifier against a cache that may leave out X-Node-ID.
CONSTANTS
  DigestLen = 2
  DefaultNodes = 2
  DefaultBits = 12
  ConfigNodes = {0, 3}
  ConfigBits = {0, 4, 16}
  NodeNames <- MCNodeNames
  Urls <- MCUrls
  DigestChoices <- MCDigestChoices
  MissingHeader = TRUE
  NoOwner = NoOwner
  n0 = n0
  n1 = n1
  n2 = n2
  u1 = u1
  u2 = u2
SPECIFICATION Spec
\* The script ends after its summary or an uncaught exception.
CHECK_DEADLOCK FALSE
INVARIANT TypeOK
INVARIANT SummaryCountsVerdicts
INVARIANT ExpectedIsSuccessor
INVARIANT VerdictFaithful
PROPERTY RoutingImplementsCheck
