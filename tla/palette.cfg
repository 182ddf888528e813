SPECIFICATION FairSpec
CONSTANTS
  Queries = {blank, text}
  Blank = blank
  Filters = {any, pinned}
  NoFilter = any
  Actions = {enter, delete}
  None = None
  MaxEvents = 4
CHECK_DEADLOCK FALSE
INVARIANT OnlyStaleIsCancelled
PROPERTIES ActsOnWhatIsTyped BoxIsAnswered
