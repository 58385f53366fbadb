\* Two clients edit a tree of three components; the one that reorders
\* children knows the edits of the other.
SPECIFICATION Spec
CONSTANTS
  Clients = {k1, k2}
  Reorderers = {k1}
  StaleReorders = FALSE
  MaxId = 2
  Names = {n1, n2}
  Slots = {in1}
  MaxLinks = 2
  MaxEdits = 1
  Null = Null
SYMMETRY NamesAlike
INVARIANTS
  ChildrenListed
  LinksPaired
  DrivenIsLinked
  ServicesListed
  SavedAppLoads
