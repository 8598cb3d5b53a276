\* Apps that start, stop and are deleted, a quota that comes and goes; pages of one.
SPECIFICATION FairSpec
CONSTANTS
  a1 = a1
  a2 = a2
  s1 = s1
  p1 = p1
  p2 = p2
  o1 = o1
  App = {a1, a2}
  ServiceInstance = {s1}
  Space = {p1, p2}
  Org = {o1}
  Quota = {"default", "paid"}
  SpaceOf <- FirstSpace
  OrgOf <- OneOrg
  TypeOf <- OneType
  PageSize = 1
  MaxChanges = 2
PROPERTIES
  CountsSteady
  DiesOnlyOnChange
  Settles
