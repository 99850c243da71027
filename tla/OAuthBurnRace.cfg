CONSTANTS
  Users = {u1}
  Systems = {s1}
  Uris = {a1}
  Roles = {gerente}
  Codes = {c1}
  Tokens = {t1, t2, t3}
  Requests = {r1, r2}
  None = None
SPECIFICATION Spec
SYMMETRY Symm
INVARIANT BurnedFamilyStaysDead
ACTION_CONSTRAINT SetUpFirst
