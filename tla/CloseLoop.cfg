SPECIFICATION FairSpec
CONSTANTS
  c1 = c1
  c2 = c2
  infy = infy
  tcs = tcs
  mis = mis
  cnc = cnc
  any = any
  Calls = {c1}
  Listed = 3
  Instrument <- InstrumentOf
  Product <- ProductOf
  AnyProduct = any
  Served = {"close", "closeAll"}
  MaxQty = 1
  MaxTrades = 1
INVARIANTS
  CloseAllFlattens
  FreezeStopsTheLoop
PROPERTY
  CallEnds
