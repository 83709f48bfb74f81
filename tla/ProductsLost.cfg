SPECIFICATION ProductsSpec
CONSTANTS
  a = a
  b = b
  c = c
  Made = {a, b, c}
  MaxJobs = 4
  Kinds = {"Dropping"}
SYMMETRY Symmetry
INVARIANT MetadataIsDispensable
CHECK_DEADLOCK FALSE
