SPECIFICATION Spec
CONSTANTS
  ana = ana
  ben = ben
  Users = {ana, ben}
  Slots = {s1, s2}
  Admin = Admin
  Free = Free
  Costs = {0, 2}
  MaxCost = 2
  DefaultLimit = 2
  NoOverride = NoOverride
  Unlimited = Unlimited
  Grants <- Moved
  KEEP_DAYS = 0
  LastDay = 1
  MaxSpent <- Charges
  MaxFaults = 1
SYMMETRY Threads
INVARIANT BooksBalance
CHECK_DEADLOCK FALSE
