SPECIFICATION ProductsSpec
CONSTANTS
  a = a
  b = b
  c = c
  Made = {a, b, c}
  MaxJobs = 4
  Kinds = {"Demanded", "WithPut", "Hiding", "Merged", "Dropping", "Keeping", "Mixed", "Pointing", "Viewing"}
SYMMETRY Symmetry
INVARIANTS
  ProductsAreFound
  LineageIsTrue
  MixedAsRead
  PointersSurvive
  ViewsAreTransactions
CHECK_DEADLOCK FALSE
