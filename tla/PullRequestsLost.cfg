CONSTANTS
  MaxComments = 2
  MaxMinute = 2
  Page = 2
SPECIFICATION Spec
CHECK_DEADLOCK FALSE
INVARIANTS
  InlineCommentsPickedUp
