SPECIFICATION Spec
CONSTANTS
  b1 = b1  b2 = b2  b3 = b3
  f1 = f1  f2 = f2
  Old = Old
  Bundle <- MCBundle
  Size <- MCSize
  File <- MCFile
  NameOf <- MCNameOf
INVARIANT SuccessMeansSaved
