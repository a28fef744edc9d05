SPECIFICATION Spec
CONSTANTS
  Words <- MCWords
  Responses <- ErrorResponses
INVARIANTS
  RejectionThrows
