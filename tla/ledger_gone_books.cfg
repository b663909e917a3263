SPECIFICATION FairSpec
CONSTANTS
  Users = {u1, u2}
  Tokens = {t1, t2, t3}
  MarketOf <- TwoMarkets
  Salts = {s1}
  OrderTypes = {"GTC"}
  Sizes = {1}
  Prices = {1}
  Amounts = {1}
  InitialBalance = 2
  MaxFunded = 2
  Workers = {w1}
  NoToken = NoToken
  t1 = t1
  t2 = t2
  m1 = m1
  m2 = m2

PROPERTIES GoneOrdersClosed
INVARIANTS Conservation
