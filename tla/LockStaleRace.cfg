CONSTANTS
  Procs = {t1, t2, t3}
  t1 = t1
  t2 = t2
  t3 = t3
  Nobody = Nobody
  NoFile = NoFile
  Abandons = TRUE
  SlowHolders = FALSE
SPECIFICATION Spec
INVARIANT MutualExclusion
