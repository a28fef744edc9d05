SPECIFICATION Spec
CONSTANTS
  p1 = p1
  p2 = p2
  t1 = t1
  t2 = t2
  Procs <- TwoProcs
  Slots <- TwoSlots
  Newer <- Headers
  Garbled <- NotUTF8
  Interval = 2
  MaxTime = 2
SYMMETRY Interchangeable
VIEW View
INVARIANTS
  OncePerProcess
  OthersKept
  WholeWhenQuiet
  FailsOnForeignFile
PROPERTIES
  NoticesApart
  QuietOnlyRecently
