CONSTANTS
  Users = {u1}
  Systems = {s1}
  Uris = {a1}
  Roles = {gerente, comum}
  Codes = {c1}
  Tokens = {t1, t2}
  Requests = {r1, r2}
  None = None
SPECIFICATION Spec
SYMMETRY Symm
INVARIANTS TypeOK NoIssueWithoutEntitlement AuditedBeforeDelivered
