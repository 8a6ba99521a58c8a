SPECIFICATION Spec
CONSTANTS
  t1 = t1
  t2 = t2
  alice = alice
  Turns = {t1, t2}
  Users = {alice}
  Anyone = Anyone
  Owner <- OneEach
  Metered = {t1}
  Persistent = {t1}
  Named = {t1}
  Outlasting = {t2}
  CancelOnDisconnect = TRUE
INVARIANTS OutcomeReachesReader HandleReleased
PROPERTIES KeepsContract AbandonedWorkerStops
CHECK_DEADLOCK FALSE
