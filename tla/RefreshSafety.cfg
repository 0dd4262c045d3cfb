SPECIFICATION Spec
CONSTANTS
  t1 = t1
  t2 = t2
  t3 = t3
  l1 = l1
  l2 = l2
  Turn = {t1, t2, t3}
  Display = {"order_agent"}
  MaxGen = 2
  Loop = {l1, l2}
  LoopOf <- TwoLoops
  None = None
SYMMETRY LoopSymmetry
INVARIANT TypeOK
INVARIANT OneRefresherPerWindow
INVARIANT BehindOnlyOffLoop
INVARIANT RootFollowsCache
PROPERTY CacheNeverGoesBack
