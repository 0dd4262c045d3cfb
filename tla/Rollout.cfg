SPECIFICATION Spec
CONSTANTS
  order = order
  product = product
  o1 = o1
  o2 = o2
  Agent = {order, product}
  MaxGen <- Gens
  Operator = {o1, o2}
  None = None
SYMMETRY OperatorSymmetry
INVARIANT TypeOK
INVARIANT OwnPickle
INVARIANT NewestStays
INVARIANT UndisturbedRunFinishes
PROPERTY UndisturbedPruneKeepsTheNewest
