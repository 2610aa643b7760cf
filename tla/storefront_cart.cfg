CONSTANTS
  Variants = {v1}
  Requests = {r1, r2}
  MaxCarts = 2
  MaxOps = 3
  MaxFaults = 2
SPECIFICATION Spec
SYMMETRY Symmetry
INVARIANTS
  TicketNamesTheCart
  ChangesCountOnce
PROPERTY LivingCartIsKept
CHECK_DEADLOCK FALSE
