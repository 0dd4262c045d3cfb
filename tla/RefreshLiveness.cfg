SPECIFICATION BusySpec
CONSTANTS
  t1 = t1
  t2 = t2
  t3 = t3
  l1 = l1
  l2 = l2
  Turn = {t1, t2}
  Display = {"order_agent"}
  MaxGen = 2
  Loop = {l1}
  LoopOf <- OneLoop
  None = None
PROPERTY TurnsGetThrough
PROPERTY CacheCatchesUp
