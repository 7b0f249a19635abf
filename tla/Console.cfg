\* One tab: a visit before the save and one after it, one save, and one
\* request lost or change made elsewhere.
CONSTANTS
  MaxVisits = 2
  MaxSaves = 1
  MaxUpsets = 1
SPECIFICATION Spec
INVARIANTS TypeOK SavedIsShown SavedIsShownElsewhere
PROPERTIES LiveCatchesUp SignedOutIsThrownOut
CHECK_DEADLOCK FALSE
