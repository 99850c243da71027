CONSTANTS
  Users = {u1}
  Systems = {s1, s2}
  Uris = {a1, a2}
  Roles = {gerente}
  Codes = {c1}
  Tokens = {t1, t2}
  Requests = {r1, r2}
  None = None
SPECIFICATION Spec
SYMMETRY Symm
INVARIANTS LineageRooted LocalsStayTrue RedeemedAsIssued
PROPERTY ImplementsLedger
ACTION_CONSTRAINT SetUpFirst
