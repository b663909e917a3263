SPECIFICATION Spec
CONSTANTS
  Users = {u1}
  Tokens = {t1}
  MarketOf <- OneMarket
  Salts = {s1, s2}
  OrderTypes = {"GTC", "FOK", "FAK"}
  Sizes = {1, 2}
  Prices = {1, 2}
  Amounts = {}
  InitialBalance = 4
  MaxFunded = 4
  Workers = {w1, w2}
  NoToken = NoToken
  t1 = t1
  t2 = t2
  m1 = m1
  m2 = m2
SYMMETRY AccountSymmetry
INVARIANTS TypeOK FillsFit Conservation HoldingsBacked PositionIsNetSize MatchedIsTraded StatusFollowsType FillKeysDistinct
PROPERTIES ClosedOrdersFrozen AccountsAreVaults
