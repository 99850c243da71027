CONSTANTS
  Users = {u1}
  Systems = {s1, s2}
  Roles = {gerente, comum}
  Accesses = {a1, a2, a3}
  Requests = {r1, r2}
  None = None
SPECIFICATION Spec
SYMMETRY Symm
INVARIANTS TypeOK OneActiveAccess RoleOfItsSystem AuditTellsTheTruth NoLockCycle
PROPERTY OnlyRevocationEndsAccess
