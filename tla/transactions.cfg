SPECIFICATION TSpec
CONSTANTS
  Users = {u1}
  Tokens = {t1}
  MarketOf <- OneMarket
  Salts = {s1,s2}
  OrderTypes = {"GTC"}
  Sizes = {1}
  Prices = {1}
  Amounts = {}
  InitialBalance = 2
  MaxFunded = 2
  Workers = {w1}
  Clients = {c1}
  Pollers = {p1,p2}
  NoToken = NoToken
  NoTx = NoTx
  Verdicts = {"yes"}
  ShareValue = 1
  t1 = t1
  t2 = t2
  m1 = m1
SYMMETRY SessionSymmetry
INVARIANTS SettledWereBought
PROPERTIES ImplementsLedger
