\* Four acts of the admin (two openings with a field typed into and a save, or
\* one with two saves) and one change by somebody else.
CONSTANTS
  MaxActs = 4
  MaxChanges = 1
SPECIFICATION Spec
INVARIANTS TypeOK UntypedShowsRow NothingUntypedIsSent EveryRenewalIsAccountedFor
CHECK_DEADLOCK FALSE
