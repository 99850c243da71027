CONSTANTS
  ti = ti
  ana = ana
  Users = {ti, ana}
  TIUsers = {ti}
  Passwords = {p1, p2}
  Sids = {s1, s2}
  Requests = {r1, r2}
  None = None
SPECIFICATION Spec
SYMMETRY Symm
INVARIANTS TypeOK SessionKeepsItsUser ServedOnTrueGrounds EverySessionIsAudited
PROPERTIES EndedStaysEnded ExpiryIsFinal
