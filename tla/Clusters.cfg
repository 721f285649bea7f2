SPECIFICATION Spec
CONSTANTS
  r1 = r1
  ann = ann
  bob = bob
  cat = cat
  Repos = {r1}
  Authors = {ann, bob, cat}
  Scale = 3
  MaxTime = 2
  Ttl = 1
  Window = 0
  Sigs <- Wave
  Tasks = {t1, t2}
  MaxHandled = 4
  MaxRestarts = 1
SYMMETRY Symmetry
INVARIANTS
  TypeOK
  ClustersAreComponents
PROPERTY KeepsPromise
CHECK_DEADLOCK FALSE
