CONSTANTS
  Ids <- MCIds
  Users <- MCUsers
  Digests <- MCDigests
  Documents <- MCDocuments
  Frames <- MCFrames
  MaxSlashes = 2
SPECIFICATION Spec
INVARIANTS
  SlashesDontMatter
  DistinctRequests
  SignedIsSent
  SignatureDecodes
  OneUser
  StdinOnlyForNull
  ErrorFrameLoses
