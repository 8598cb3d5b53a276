\* A VM and two databases: one may be deleted or maintained while the other is
\* stopped or started.
SPECIFICATION FairSpec
CONSTANTS
  z1 = z1
  Vm = {v1}
  Db = {d1, d2}
  Zone = {z1}
  ZoneOf <- OneZone
CONSTRAINT Apart
INVARIANTS
  NothingToResurrect
PROPERTIES
  EndsAsAnnounced
  BuildsEnd
  WakingWakes
