\* One request at a time, of every kind that touches a payment.
SPECIFICATION Spec
CONSTANTS
  e1 = e1
  e2 = e2
  rent = rent
  phone = phone
  salary = salary
  t1 = t1
  t2 = t2
  t3 = t3
  r1 = r1
  r2 = r2
  p1 = p1
  p2 = p2
  Item = {phone, salary}
  Entry = {e1, e2}
  Txn = {t1, t2}
  ItemOf <- PhoneAndSalary
  Income = {salary}
  Bucketed = {}
  Variable = {}
  AutoPay = {}
  Due = {}
  Req = {r1}
  Pass = {}
  Kinds = {"done", "pay", "undo", "skip", "link", "delete", "edit", "create"}
  MaxCrashes = 0
  NoTxn = {t1, t2}
  NoItem = NoItem
  NoEntry = NoEntry
SYMMETRY IdsOnly
INVARIANT LinkIsMutual
INVARIANT CheckNeverRefuses
PROPERTY ImplementsLedger
CHECK_DEADLOCK FALSE
