SPECIFICATION Spec
CONSTANTS
  Emails = {e1, e2}
  Requests = {r1, r2}
  OpeningMoney = 1
  MaxKeys = 2
  MaxMoves = 1
  Signers = {s1, s2}
  Numbers = {0}
  TimestampWindow = 1
  Memory = 2
  Skew = 1
  MaxClock = 2
  NoValue = NoValue
  Visitors = {v1, v2}
  Rate = 2
  Window = 2
  MaxTime = 5
  NoVisitor = NoVisitor
  Servers = {s1}
  MaxCrashes = 2
  Ids = {1, 2, 3}
  PageSize = 1
  MaxPages = 4
  Owners = {u1, u2}
  Nobody = Nobody
  Steps = 2
  MaxAmount = 7
  MaxFills = 2
  NoOrder = NoOrder
  PriceSteps = 2
  MaxSize = 3
  MaxTrades = 4
  NoRow = NoRow
  Prices = {1, 2, 3}
  RowSizes = {0, 1, 2}
  OrderSizes = {1, 2, 3}
  MaxRows = 3
  Junk = Junk
  e1 = e1
  e2 = e2
  r1 = r1
  r2 = r2
  s1 = s1
  s2 = s2
  v1 = v1
  v2 = v2
  u1 = u1
  u2 = u2
INVARIANTS
  OneUserPerEmail
  OpeningMoneyOnce
  OnlyRepeatsRefused
  AtMostTwoWindows
  RefusedOnlyWhenSpent
  ServesWholeSchema
  NothingSkipped
  HandlersKnowUser
  OpenToAll
  PaidWithinRounding
  ProfitIsMoney
  TypeOK
  FillWithinLimit
  BestFill
  BestPrice
PROPERTIES
  KeysRemovedByOwner
CHECK_DEADLOCK FALSE
