\* Two outputs and the exit note, which a poll or the backfill can leave out; two polls
\* overlap; one fault, one refetch.
CONSTANTS
  MaxRows = 3
  Limit = 2
  BackfillLimit = 2
  MaxPolls = 2
  MaxFaults = 1
  MaxRefetches = 1
SPECIFICATION Spec
INVARIANTS TypeOK NoHole NothingAfterTheVerdict
PROPERTIES StreamEnds
CHECK_DEADLOCK FALSE
