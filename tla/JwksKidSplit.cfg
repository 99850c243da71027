CONSTANTS
  Kids = {k1, k2}
  Requests = {r1}
  None = None
SPECIFICATION Spec
INVARIANT KidNamesSigningKey
