SPECIFICATION FairSpec
CONSTANTS
  s1 = s1  s2 = s2  h1 = h1  h2 = h2  d1 = d1
  Session <- MCSession
  Host <- MCHost
  Datacenter <- MCDatacenter
  NilPtr = NilPtr
  Bare = Bare
  Anon = Anon
INVARIANTS
  TypeOK
  FreshTargets
  ChosenIsTarget
  ViewDestroyed
  SessionsKept
PROPERTIES
  ImplementsShell
  ListingEnds
