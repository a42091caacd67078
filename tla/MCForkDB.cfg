\* two factory clones that race to set up the same account, a fork of one of
\* them, an account injected by hand
CONSTANTS
  f1 = f1  g1 = g1  g2 = g2
  weth = weth  dance = dance  slot = slot  num = num
  Clients = {g1, g2, f1}
  Factories = {g1, g2}
  Addrs = {weth, dance}
  Slots = {slot}
  Numbers = {}
  Injected = {dance}
  InitialKeys <- MCInitialNone
SPECIFICATION Spec
INVARIANTS
  IInv
  RequestHeldOnce
  OneFetchPerKey
  NoLostWakeup
  NobodyAbandoned
  NoMadeUpAccount
  ForksAgree
SYMMETRY FactorySymmetry
