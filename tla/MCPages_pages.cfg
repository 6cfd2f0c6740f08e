\* A listing of up to six rows in pages of two, with two rows that leave or
\* change places and one that comes between a count and its page.
CONSTANTS
  Stamps <- MCStamps
  Limit = 2
  MaxOffset = 1
  MaxMoves = 2
  MaxLate = 1
SPECIFICATION Spec
INVARIANTS TypeOK WalkComplete
CHECK_DEADLOCK FALSE
