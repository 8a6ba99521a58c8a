SPECIFICATION Spec
CONSTANTS
  ana = ana
  ben = ben
  Users = {ana, ben}
  Slots = {s1, s2}
  Admin = Admin
  Free = Free
  Costs = {2}
  MaxCost = 2
  DefaultLimit = 2
  NoOverride = NoOverride
  Unlimited = Unlimited
  Grants <- Moved
  KEEP_DAYS = 0
  LastDay = 1
  MaxSpent <- Charges
  MaxFaults = 1
SYMMETRY Threads
INVARIANTS SpendBounded ChargesAdd NeverOvercharged
PROPERTY KeepsBooks
CHECK_DEADLOCK FALSE
