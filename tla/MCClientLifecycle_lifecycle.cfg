CONSTANTS
  c1 = c1
  c2 = c2
  c3 = c3
  Clients <- ThreeClients
  MaxReferences = 4
SYMMETRY Symmetry
SPECIFICATION Spec
INVARIANTS
  ReadyWhileUsed
  ReleasedWithLast
  OneReferenceEach
