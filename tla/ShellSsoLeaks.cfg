SPECIFICATION Spec
CONSTANTS
  s1 = s1  s2 = s2  s3 = s3
  Session <- MCSession
  NilPtr = NilPtr
  Bare = Bare
  Anon = Anon
INVARIANT SsoNotLeaked
