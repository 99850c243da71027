CONSTANTS
  Users = {u1}
  Systems = {s1}
  Uris = {a1}
  Roles = {gerente}
  Codes = {c1, c2}
  Tokens = {t1, t2, t3}
  Requests = {r1}
  None = None
SPECIFICATION FairSpec
INVARIANTS CodeSingleUse TokenSingleUse BurnedLineageStaysDead LoggedOutLineageStaysDead
PROPERTY EveryRequestEnds
ACTION_CONSTRAINT SetUpFirstInOrder
