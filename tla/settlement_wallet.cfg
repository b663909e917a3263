SPECIFICATION TSpec
CONSTANTS
  Users = {u1}
  Tokens = {t1}
  MarketOf <- OneMarket
  Salts = {s1,s2}
  OrderTypes = {"GTC"}
  Sizes = {1}
  Prices = {1}
  Amounts = {}
  InitialBalance = 2
  MaxFunded = 2
  Workers = {}
  Clients = {c1}
  Pollers = {p1}
  NoToken = NoToken
  NoTx = NoTx
  Verdicts = {"null", "yes", "no"}
  ShareValue = 1
  t1 = t1
  t2 = t2
  m1 = m1
PROPERTIES SettledWalletEmpty
