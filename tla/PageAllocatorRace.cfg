\* Is the buddy that Free erases on a list?
SPECIFICATION Spec
CONSTANTS
  Nodes = {0, 1}
  NumPages = 4
  MAX_ORDER = 1
  Layouts <- TwoNodes
INVARIANT BuddyIsFree
CHECK_DEADLOCK FALSE
