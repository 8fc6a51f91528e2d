SPECIFICATION Spec
CONSTANTS
  c1 = c1
  c2 = c2
  infy = infy
  tcs = tcs
  mis = mis
  cnc = cnc
  any = any
  Calls = {c1, c2}
  Listed = 2
  Instrument <- InstrumentOf
  Product <- ProductOf
  AnyProduct = any
  Served = {"close", "closeAll"}
  MaxQty = 1
  MaxTrades = 0
SYMMETRY Symmetry
INVARIANTS
  TypeOK
  Accounting
PROPERTY
  FreshCloseFlattens
