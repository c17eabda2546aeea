\* Concurrent requests of the kinds that claim, delete and set amounts.
SPECIFICATION Spec
CONSTANTS
  e1 = e1
  e2 = e2
  rent = rent
  phone = phone
  salary = salary
  t1 = t1
  t2 = t2
  t3 = t3
  r1 = r1
  r2 = r2
  p1 = p1
  p2 = p2
  Item = {rent, phone}
  Entry = {e1, e2}
  Txn = {t1, t2}
  ItemOf <- RentAndPhone
  Income = {}
  Bucketed = {rent}
  Variable = {phone}
  AutoPay = {rent, phone}
  Due = {e1, e2}
  Req = {r1, r2}
  Pass = {p1}
  Kinds = {"done", "pay", "delete", "link", "create", "dismiss"}
  MaxCrashes = 1
  NoTxn = {t1, t2}
  NoItem = NoItem
  NoEntry = NoEntry
SYMMETRY Ids
INVARIANT TypeOK
INVARIANT NoOrphanPayment
CHECK_DEADLOCK FALSE
