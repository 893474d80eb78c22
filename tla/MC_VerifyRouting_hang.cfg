\* requests.get without a timeout: the summary may never be printed.
CONSTANTS
  DigestLen = 2
  DefaultNodes = 2
  DefaultBits = 12
  ConfigNodes = {0, 3}
  NodeNames <- MCNodeNames
  Urls <- MCUrls
  DigestChoices <- MCDigestChoices
  NoOwner = NoOwner
  n0 = n0
  n1 = n1
  n2 = n2
  u1 = u1
  u2 = u2
  ConfigBits = {4, 16}
  MissingHeader = FALSE
SPECIFICATION FairSpec
CHECK_DEADLOCK FALSE
PROPERTY Termination
