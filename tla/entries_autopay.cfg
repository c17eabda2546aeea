\* Auto-pay, with a member who undoes, deletes, skips and sets amounts.
SPECIFICATION FairSpec
CONSTANTS
  e1 = e1
  e2 = e2
  rent = rent
  phone = phone
  salary = salary
  t1 = t1
  t2 = t2
  t3 = t3
  r1 = r1
  r2 = r2
  p1 = p1
  p2 = p2
  Item = {rent, phone}
  Entry = {e1, e2}
  Txn = {t1, t2, t3}
  ItemOf <- RentAndPhone
  Income = {}
  Bucketed = {rent}
  Variable = {phone}
  AutoPay = {rent, phone}
  Due = {e1, e2}
  Req = {r1}
  Pass = {p1}
  Kinds = {"amount", "skip", "undo", "delete"}
  MaxCrashes = 2
  NoTxn = {t1, t2, t3}
  NoItem = NoItem
  NoEntry = NoEntry
PROPERTY NeverAutoPaidAgain
PROPERTY AutoPayHappens
CHECK_DEADLOCK FALSE
