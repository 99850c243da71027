CONSTANTS
  Users = {u1}
  Systems = {s1}
  Roles = {gerente, comum}
  Accesses = {a1, a2}
  Requests = {r1, r2}
  None = None
SPECIFICATION Spec
SYMMETRY Symm
INVARIANT RoleChangeReplacesActiveAccess
