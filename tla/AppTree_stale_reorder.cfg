\* Two clients edit a tree of three components; the one that reorders
\* children may not know the edits of the other yet.
SPECIFICATION Spec
CONSTANTS
  Clients = {k1, k2}
  Reorderers = {k1}
  StaleReorders = TRUE
  MaxId = 2
  Names = {n1, n2}
  Slots = {in1}
  MaxLinks = 2
  MaxEdits = 1
  Null = Null
SYMMETRY NamesAlike
INVARIANT
  SavedAppLoads
