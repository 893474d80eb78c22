\* A 200 response without X-Node-ID is counted as a verified URL.
CONSTANTS
  DigestLen = 2
  DefaultNodes = 2
  DefaultBits = 12
  ConfigNodes = {0, 3}
  NodeNames <- MCNodeNames
  Urls <- MCUrls
  DigestChoices <- MCDigestChoices
  NoOwner = NoOwner
  n0 = n0
  n1 = n1
  n2 = n2
  u1 = u1
  u2 = u2
  ConfigBits = {4, 16}
  MissingHeader = TRUE
SPECIFICATION Spec
CHECK_DEADLOCK FALSE
INVARIANT NoHeaderNeverVerified
