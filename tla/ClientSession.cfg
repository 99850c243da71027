CONSTANTS
  Sids = {s1, s2, s3, s4}
  Logins = {l1, l2}
  Tokens = {t1, t2, t3}
  Requests = {r1, r2}
  None = None
SPECIFICATION Spec
SYMMETRY Symm
INVARIANTS TypeOK LoginsStayApart LoginWasSolicited
PROPERTY ServedOnFreshToken
