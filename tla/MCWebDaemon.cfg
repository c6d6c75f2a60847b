SPECIFICATION Spec
CONSTANTS
  c1 = c1
  c2 = c2
  c3 = c3
  c4 = c4
  Nil = Nil
  Conns = {c1, c2, c3, c4}
  Leavers = {c3}
  Breakers = {c3}
  Requests <- Offers
  Srv = 2
  MaxClients = 3
  Cap = 2
  HeadMax = 1
CHECK_DEADLOCK FALSE
INVARIANTS HandledAsSent Accounted NoneLost
