SPECIFICATION FairSSpec
CONSTANTS
  Users = {u1}
  Tokens = {t1}
  MarketOf <- OneMarket
  Salts = {s1,s2}
  OrderTypes = {"GTC"}
  Sizes = {1}
  Prices = {1}
  Amounts = {}
  InitialBalance = 1
  MaxFunded = 1
  Workers = {}
  Clients = {c1}
  Pollers = {p1}
  Requests = {r1}
  NoToken = NoToken
  NoTx = NoTx
  Nothing = Nothing
  ShareValue = 1
  Verdicts = {"null", "yes", "no"}
  m1 = m1

PROPERTIES SettlesAlone OutcomeSettles
