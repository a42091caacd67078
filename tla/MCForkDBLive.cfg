\* a factory and its fork, from a database that knows the account: liveness,
\* and the refinement of SharedView
CONSTANTS
  f1 = f1  g1 = g1  g2 = g2
  weth = weth  dance = dance  slot = slot  num = num
  Clients = {g1, f1}
  Factories = {g1}
  Addrs = {weth}
  Slots = {slot}
  Numbers = {num}
  Injected = {}
  InitialKeys <- MCInitialNone
SPECIFICATION FairSpec
PROPERTIES
  EveryCallReturns
  BackendEnds
  ImplementsSharedView
