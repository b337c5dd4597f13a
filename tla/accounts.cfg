CONSTANTS
  root = root
  ann = ann
  bob = bob
  k0 = k0
  k1 = k1
  Stray = Stray
  None = None
  c1 = c1
  c2 = c2
  Clients = {c1, c2}
  Calls <- MCCalls
  Users = {root, ann, bob}
  Admin = root
  Founders = {root, ann}
  Keys = {k0, k1, k2, k3, k4}
  FirstKey <- MCFirstKey
  MaxCalls = 4
SPECIFICATION Spec
SYMMETRY ClientSymmetry
INVARIANTS TypeOK BudgetsAgree SettingsAreOneForm ChatBillsSender
PROPERTIES SuspendedStaysOut
CHECK_DEADLOCK FALSE
