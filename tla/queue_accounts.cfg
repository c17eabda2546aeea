\* Two tabs and two accounts: sign-outs, account switches, expired sessions.
SPECIFICATION Spec
CONSTANTS
  a = a
  b = b
  x = x
  y = y
  t1 = t1
  t2 = t2
  NoAccount = NoAccount
  NoTab = NoTab
  Tab = {t1, t2}
  Account = {a, b}
  Write = {1}
  Kind <- CreateOnly
  Target <- One
  Events = {"offline", "reload", "expire", "signin", "signout"}
  MaxEpoch = 1
  MaxEvents = 3
SYMMETRY Sym
INVARIANT CreatedOnce
PROPERTY ReplayedForItsOwner
CHECK_DEADLOCK FALSE
