SPECIFICATION ISpec
CONSTANTS
  Ids = {1, 2, 3}
  PageSize = 1
  MaxPages = 4
INVARIANTS
  PagesAreComplete
