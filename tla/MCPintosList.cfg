\* All lists of a few elements, with equal keys among them.
SPECIFICATION Spec
CONSTANTS
  Elems = {e1, e2, e3, e4}
  Lists = {"list", "duplicates"}
  NULL = NULL
  MaxRemoved = 1
SYMMETRY MCSymmetry
INVARIANTS
  LinksOK
  SortOK
  MergeOK
  ResultOK
