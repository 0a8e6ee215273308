SPECIFICATION Spec
CONSTANTS
  s1 = s1  s2 = s2  h1 = h1  h2 = h2  p1 = p1  p2 = p2
  Session <- MCSession
  Host <- MCHost
  Permission <- MCPermission
  Datacenter = {}
  NilPtr = NilPtr
  Bare = Bare
  Anon = Anon
  Blank = Blank
  KeyOf <- MCKeyOf
  EsxcliCommand = {"Accounts", "Modules"}
  AnswersTo <- MCAnswersTo
  BaseName <- MCNames
  MaxClock = 1
INVARIANTS
  TypeOK
  VcFactsSaved
  ReportAfterEveryHost
  AnswersKept
  CellsUnderTheirHeader
PROPERTIES
  ImplementsShell
  EveryStepCounts
SYMMETRY MCSymmetry
