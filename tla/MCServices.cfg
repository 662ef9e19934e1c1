CONSTANTS
  Client = {c1, c2}
  Label = {build, other}
  MaxGen = 2
  Tickets = 4
  Limits = {1, 2}
  MinPage = 3
  MaxPage = 3
  MaxFirst = 1
  Blocker = {b1, b2}
  MaxChildren = 2
  MaxComments = 2
  MaxMinute = 2
  Page = 1
SYMMETRY Symmetry
SPECIFICATION Spec
INVARIANTS
  TypeOK
  LastEditStands
  QueueRead
  
  OnlyKnownLosses
  NotWorkedOnTwice
